--------------------------- MODULE MCTenantBilling ---------------------------
(***************************************************************************)
(* A small instance of TenantBilling.  The period is recorded under tenant *)
(* t1 but belongs to a subscription of t2, so that t1 lists it and t2      *)
(* finds it through its active subscription.                               *)
(***************************************************************************)
EXTENDS TenantBilling

CONSTANTS t1, t2, c1, c2, o1, o2

MCSubTenant == [s \in Subs |-> t2]
MCPeriodTenant == [p \in Periods |-> t1]
MCPeriodSub == [p \in Periods |-> 1]
MCPeriodStart == [p \in Periods |-> p]

\* A key of t1 with a narrow capability, a key of t2, no key.
MCWho == {[tenant |-> t1, role |-> "auditor", capabilities |-> {"billing:adjustments:read"}],
          [tenant |-> t2, role |-> "tenant_admin", capabilities |-> {}],
          [tenant |-> None, role |-> None, capabilities |-> {}]}

\* The second call asks for invoices only.
MCKinds == [c \in Calls |-> IF c = c2 THEN {"invoice"} ELSE AllKinds]

\* One operator closes, the other does everything else but reopen.
MCTasks == [o \in Operators |-> IF o = o1 THEN {"closed"} ELSE AllTasks \ {"open", "closed"}]

MCBillable == {[period |-> 1, tenant |-> t1, kind |-> "request_overage", amount |-> 1],
               [period |-> 1, tenant |-> t1, kind |-> "manual_adjustment", amount |-> -1],
               [period |-> None, tenant |-> t2, kind |-> "manual_adjustment", amount |-> 1]}

\* Two previews race over invoices while the operator's calls change the period
\* one after the other, before anything is charged; a report is followed by
\* itself with two calls of the operator in progress, an overview or a paged
\* list with one.
Asked == {call[c].kind : c \in Calls} \ {"none"}
Busy == {o \in Operators : ~Doing(o, "idle")}
Focus ==
    \/ /\ Asked \subseteq {"invoice"} /\ made = 0
       /\ Cardinality(Busy) <= 1 /\ \A o \in Busy : work[o].at \notin {"charge", "adjust"}
    \/ /\ Asked # {"invoice"} /\ Cardinality({c \in Calls : ~At(c, "idle")}) <= 1
       /\ (Asked \subseteq {"report"} => made <= 2)
       /\ (Asked \subseteq {"report"} \/ Cardinality(Busy) <= 1)
       /\ ("overview" \in Asked => made <= 1)
       /\ \A n \in Invoices : invoice[n] # None => n = 1 /\ Asked = {"overview"}
=============================================================================
