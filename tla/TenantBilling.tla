---------------------------- MODULE TenantBilling ----------------------------
(***************************************************************************)
(* What tenants and operators read of billing: reports, invoice previews,  *)
(* the overview, and the paged lists of charges and adjustments            *)
(* (src/app/api/routes_tenant_billing.py, the read routes of               *)
(* src/app/api/routes_billing_admin.py and the repository operations they  *)
(* call).  A read is several statements and an invoice preview also        *)
(* writes; other calls and the operator's work come between any two of     *)
(* them.                                                                   *)
(*                                                                         *)
(* The operator's calls are their statements too, as in BillingPeriods;    *)
(* the ledger and the rollups they read are left out: a summary finds some *)
(* total, a materialization some rows.  Subscriptions and the rights of    *)
(* callers do not change; the gate and the keys are the subjects of        *)
(* CommercialGate and ApiKeys.                                             *)
(*                                                                         *)
(* An operator named Mut... is a plausible bug in the operation defined    *)
(* below it; it is part of no specification.                               *)
(***************************************************************************)
EXTENDS Integers, FiniteSets, FiniteSetsExt, TenantRoles

CONSTANTS
    Tenants,
    Subs, SubTenant,    \* subscriptions, numbered in the order they were created
    ActiveSubs,         \* those in status active or trialing
    Periods,            \* billing period rows, numbered in the order they are created
    PeriodTenant, PeriodSub, PeriodStart,
    History,            \* those that are there at first, closed without savings
    Who,                \* who may ask: [tenant, role, capabilities], of a key or of none
    QueryFallback,      \* effective_tenant_query_param_fallback_enabled
    Calls,              \* calls that can be in progress at once
    Kinds,              \* what each may ask
    Operators,          \* operator's calls that can be in progress at once
    Tasks,              \* what each may be
    Billable,           \* charges that may be made: [period, tenant, kind, amount]
    PageSize,           \* limit
    Invoices,           \* invoice rows, numbered in the order they are written (bound)
    MaxTotal, MaxCharges    \* bounds

AllKinds == {"report", "invoice", "overview", "charges", "adjustments"}
Statuses == {"open", "closing", "closed"}
AllTasks == Statuses \cup {"create", "summarize", "materialize", "adjust"}

\* What a report and an invoice show of a period.
Shown == [total : 0..MaxTotal, closed : BOOLEAN]
ChargeRows == [period : Periods \cup {None}, tenant : Tenants,
               kind : {"request_overage", "manual_adjustment"}, amount : Int]
InvoiceRows == [period : Periods, shows : Shown]

ASSUME TenantBillingAssumption ==
    /\ Subs \subseteq Nat /\ ActiveSubs \subseteq Subs /\ SubTenant \in [Subs -> Tenants]
    /\ Periods \subseteq Nat
    /\ PeriodTenant \in [Periods -> Tenants]
    /\ PeriodSub \in [Periods -> Subs]
    /\ PeriodStart \in [Periods -> Nat]
    /\ History \subseteq Periods
    /\ QueryFallback \in BOOLEAN
    /\ Kinds \in [Calls -> SUBSET AllKinds]
    /\ Tasks \in [Operators -> SUBSET AllTasks]
    /\ Billable \subseteq ChargeRows
    /\ Invoices \subseteq Nat
    /\ PageSize \in Nat \ {0}
    /\ MaxTotal \in Nat /\ MaxCharges \in Nat
    /\ \A who \in Who : who.tenant \in Tenants \cup {None}
    /\ IsFiniteSet(Calls)
    /\ None \notin Tenants \cup Subs \cup Periods \cup Invoices
                   \cup Shown \cup ChargeRows \cup InvoiceRows

VARIABLES
    row,        \* billing_periods: status (or "absent") and realized savings
    charge,     \* usage_charges in the order of created_at
    made,       \* how many there are
    invoice,    \* invoices: None, or the period and what the payload shows of it
    work,       \* what each of the operator's calls is doing
    call        \* what each call of a reader is doing

vars == <<row, charge, made, invoice, work, call>>

-----------------------------------------------------------------------------
(* The capabilities and the scope of a caller *)

\* A caller without a key (tenant None) has the rights of a reader.
Capabilities(who) ==
    IF who.tenant = None
      THEN RoleCapabilities("tenant_reader")
      ELSE AllCapabilities(DeriveRole(who.role, who.capabilities), who.capabilities)

MutRequestedTenantFirst(who, requested) ==
    IF requested # None THEN requested ELSE who.tenant

\* resolve_tenant_access_scope: the tenant whose rows are read; None is a
\* refusal (403, or 400 when no tenant is named at all).
ScopeTenant(who, requested) ==
    CASE who.tenant # None /\ requested \in {None, who.tenant} -> who.tenant
      [] who.tenant = None /\ QueryFallback -> requested
      [] OTHER -> None

Needed(kind) == IF kind = "adjustments" THEN "billing:adjustments:read" ELSE "billing:read"

-----------------------------------------------------------------------------
(* Tables *)

PeriodsOf(t) == {p \in Periods : row[p].status # "absent" /\ PeriodTenant[p] = t}
PeriodsUnder(s) == {p \in Periods : row[p].status # "absent" /\ PeriodSub[p] = s}

\* ORDER BY period_start DESC, created_at DESC
Listed(p, q) ==
    PeriodStart[p] > PeriodStart[q] \/ (PeriodStart[p] = PeriodStart[q] /\ p > q)

\* The first of a list that is open or closing, else the first of the list.
Live(p) == row[p].status \in {"open", "closing"}
IsCurrent(p, list) ==
    /\ p \in list
    /\ \A q \in list \ {p} : (Live(p) /\ ~Live(q)) \/ ((Live(p) <=> Live(q)) /\ Listed(p, q))

\* The subscription of an overview: the newest active one, else the newest.
SubsOf(t) == {s \in Subs : SubTenant[s] = t}
IsActiveSub(s, t) ==
    /\ s \in SubsOf(t)
    /\ \A r \in SubsOf(t) \ {s} :
         \/ s \in ActiveSubs /\ r \notin ActiveSubs
         \/ (s \in ActiveSubs <=> r \in ActiveSubs) /\ s > r

Charges == 1..made
OfPeriod(p) == {i \in Charges : charge[i].period = p}
Adjustments == {i \in Charges : charge[i].kind = "manual_adjustment"}
OfTenant(t) == {i \in Charges : charge[i].tenant = t}
NewerIn(S, i) == Cardinality({j \in S : j > i})

InvoicesOf(p) == {n \in Invoices : invoice[n] # None /\ invoice[n].period = p}

ShownOf(r) == [total |-> r.total, closed |-> r.status = "closed"]
Shows(p) == ShownOf(row[p])

\* COALESCE(SUM(amount_usd), 0)
Billed(S) == SumFunction([i \in S |-> charge[i].amount])
Usage(p) == OfPeriod(p) \ Adjustments

-----------------------------------------------------------------------------
(* The operator's calls, statement by statement *)

NoWork == [at |-> "idle", period |-> None, want |-> "open", total |-> 0]

Doing(o, step) == work[o].at = step
Proceed(o, step) == work' = [work EXCEPT ![o].at = step]
Finish(o) == work' = [work EXCEPT ![o] = NoWork]
Undertake(o, task, step, p, want) ==
    /\ Doing(o, "idle") /\ task \in Tasks[o]
    /\ work' = [work EXCEPT ![o] = [NoWork EXCEPT !.at = step, !.period = p, !.want = want]]

\* The row of p is written.  `may` is history: what a preview that knows p may
\* show of it, here also what the row shows from now on.
Store(p, r) ==
    /\ row' = [row EXCEPT ![p] = r]
    /\ call' = [c \in Calls |->
                  IF call[c].period = p /\ call[c].may # {}
                    THEN [call[c] EXCEPT !.may = @ \cup {ShownOf(r)}]
                    ELSE call[c]]

\* The INSERT of create_billing_period.
CreatePeriod(o, p) ==
    /\ Doing(o, "idle") /\ "create" \in Tasks[o]
    /\ row[p].status = "absent"
    /\ \A q \in Periods : q < p => row[q].status # "absent"
    /\ Store(p, [row[p] EXCEPT !.status = "open"])
    /\ UNCHANGED <<charge, made, invoice, work>>

MutSummarizeClosed(o, p) ==
    /\ row[p].status # "absent"
    /\ Undertake(o, "summarize", "store_totals", p, "closing")
    /\ UNCHANGED <<row, charge, made, invoice, call>>

\* summarize_billing_period: a closed period is left alone.
Summarize(o, p) ==
    /\ Live(p)
    /\ Undertake(o, "summarize", "store_totals", p, "closing")
    /\ UNCHANGED <<row, charge, made, invoice, call>>

\* The total is that of some moment since: it may be older than the one it
\* replaces.  Over the threshold the period is moved to closing.
StoreTotals(o, total) ==
    /\ Doing(o, "store_totals")
    /\ Store(work[o].period, [row[work[o].period] EXCEPT !.total = total])
    /\ Finish(o) \/ Proceed(o, "move_to_closing")
    /\ UNCHANGED <<charge, made, invoice>>

\* update_billing_period_status: the row is read; a closed period only accepts
\* "closed", which asks for a reconciliation first.
StatusStep(want) == IF want = "closed" THEN "reconcile" ELSE "write_status"
Accepts(p, want) == row[p].status # "absent" /\ (row[p].status = "closed" => want = "closed")

SetStatus(o, p, want) ==
    /\ Accepts(p, want)
    /\ Undertake(o, want, StatusStep(want), p, want)
    /\ UNCHANGED <<row, charge, made, invoice, call>>

MoveToClosing(o) ==
    /\ Doing(o, "move_to_closing")
    /\ IF Accepts(work[o].period, "closing") THEN Proceed(o, "write_status") ELSE Finish(o)
    /\ UNCHANGED <<row, charge, made, invoice, call>>

\* reconcile_billing_period: the totals, then the sum of the charges.
ReconcileRead(o) ==
    /\ Doing(o, "reconcile")
    /\ work' = [work EXCEPT ![o].at = "compare", ![o].total = row[work[o].period].total]
    /\ UNCHANGED <<row, charge, made, invoice, call>>

ReconcileCompare(o) ==
    /\ Doing(o, "compare")
    /\ IF Billed(OfPeriod(work[o].period)) = work[o].total
         THEN Proceed(o, "write_status")
         ELSE Finish(o)
    /\ UNCHANGED <<row, charge, made, invoice, call>>

\* The UPDATE has only the id in its WHERE.
WriteStatus(o) ==
    /\ Doing(o, "write_status")
    /\ Store(work[o].period, [row[work[o].period] EXCEPT !.status = work[o].want])
    /\ Finish(o)
    /\ UNCHANGED <<charge, made, invoice>>

\* materialize_usage_charges_from_ledger / _from_rollups: the status is looked
\* at once, if a period is named, and then row after row is charged.
Materialize(o, p) ==
    /\ p # None => row[p].status = "open"
    /\ Undertake(o, "materialize", "charge", p, "open")
    /\ UNCHANGED <<row, charge, made, invoice, call>>

\* create_manual_adjustment: of a closed period, or of none.
Adjust(o, p) ==
    /\ p # None => row[p].status = "closed"
    /\ Undertake(o, "adjust", "adjust", p, "open")
    /\ UNCHANGED <<row, charge, made, invoice, call>>

Insert(x) ==
    /\ made < MaxCharges
    /\ charge' = [charge EXCEPT ![made + 1] = x]
    /\ made' = made + 1
    /\ UNCHANGED <<row, invoice, call>>

InsertCharge(o, x) ==
    /\ Doing(o, "charge")
    /\ x.kind = "request_overage" /\ x.period = work[o].period
    /\ Insert(x)
    /\ UNCHANGED work

InsertAdjustment(o, x) ==
    /\ Doing(o, "adjust")
    /\ x.kind = "manual_adjustment" /\ x.period = work[o].period
    /\ Insert(x)
    /\ Finish(o)

\* The call is answered, a statement fails, or the process dies.
WorkEnds(o) ==
    /\ ~Doing(o, "idle")
    /\ Finish(o)
    /\ UNCHANGED <<row, charge, made, invoice, call>>

\* A call that may still write the status, the totals or usage of p, having
\* looked at p before (Late of BillingPeriods); and a period closed for good.
Late(o, p) ==
    /\ work[o].period = p
    /\ \/ work[o].at \in {"store_totals", "charge"}
       \/ Doing(o, "write_status") /\ work[o].want # "closed"
Sealed(p) == row[p].status = "closed" /\ \A o \in Operators : ~Late(o, p)

-----------------------------------------------------------------------------
(* Asking *)

Idle == [at |-> "idle", kind |-> "none", home |-> None, tenant |-> None, period |-> None,
         first |-> None, again |-> 0, charged |-> {}, found |-> None, may |-> {},
         sealed |-> FALSE, todo |-> {}, offset |-> 0, start |-> {}, seen |-> {}]

At(c, step) == call[c].at = step
Goto(c, step) == call' = [call EXCEPT ![c].at = step]

\* What a preview may show when its call gets to know the period: what the
\* row shows, or what an earlier preview has read of it that is still to write.
Reading(p) == {d \in Calls : call[d].at \in {"find", "write"} /\ call[d].period = p}
Views(p) == {Shows(p)} \cup {call[d].first : d \in Reading(p)}

\* `home` is history: the tenant of the caller's key, or the one named
\* without a key; None for an operator's list.
Home(who, t) == IF who.tenant = None THEN t ELSE who.tenant

Start(c, kind, home, t, p, step, todo) ==
    call' = [call EXCEPT ![c] = [Idle EXCEPT !.at = step, !.kind = kind, !.home = home,
                                             !.tenant = t, !.period = p, !.todo = todo,
                                             !.may = IF kind = "report" THEN {} ELSE Views(p)]]

FirstStep(kind) == IF kind = "invoice" THEN "read_invoice" ELSE "read"

\* GET .../periods/{id}/report and .../invoice of a tenant: a period that is
\* not in the tenant's list is answered with 404.
AskPeriod(c, who, requested, kind, p) ==
    /\ At(c, "idle")
    /\ kind \in Kinds[c] \cap {"report", "invoice"}
    /\ Needed(kind) \in Capabilities(who)
    /\ p \in PeriodsOf(ScopeTenant(who, requested))
    /\ LET t == ScopeTenant(who, requested)
       IN  Start(c, kind, Home(who, t), t, p, FirstStep(kind), {})
    /\ UNCHANGED <<row, charge, made, invoice, work>>

AskOverview(c, who, requested) ==
    /\ At(c, "idle")
    /\ "overview" \in Kinds[c]
    /\ Needed("overview") \in Capabilities(who)
    /\ ScopeTenant(who, requested) # None
    /\ call' = [call EXCEPT ![c] = [Idle EXCEPT !.at = "list", !.kind = "overview",
                                                !.home = Home(who, ScopeTenant(who, requested)),
                                                !.tenant = ScopeTenant(who, requested)]]
    /\ UNCHANGED <<row, charge, made, invoice, work>>

\* A client that follows next_offset to the end; each page is a request of its own.
AskPages(c, who, requested, kind) ==
    LET t == ScopeTenant(who, requested)
    IN  /\ At(c, "idle")
        /\ kind \in Kinds[c] \cap {"charges", "adjustments"}
        /\ Needed(kind) \in Capabilities(who)
        /\ t # None
        /\ call' = [call EXCEPT ![c] = [Idle EXCEPT !.at = "page", !.kind = kind,
                                                    !.home = Home(who, t), !.tenant = t,
                                                    !.start = OfTenant(t)]]
        /\ UNCHANGED <<row, charge, made, invoice, work>>

\* The operator's routes have no scope: any period that exists.
AskAsOperator(c, kind, p) ==
    /\ At(c, "idle")
    /\ kind \in Kinds[c] \cap {"report", "invoice"}
    /\ row[p].status # "absent"
    /\ Start(c, kind, PeriodTenant[p], PeriodTenant[p], p, FirstStep(kind), {})
    /\ UNCHANGED <<row, charge, made, invoice, work>>

-----------------------------------------------------------------------------
(* Lists of reports and of invoices: one after the other, newest first *)

\* The page asked for: those of the tenant's periods that the filters, the
\* limit and the offset leave.
AskList(c, who, requested, kind, page) ==
    LET t == ScopeTenant(who, requested)
    IN  /\ At(c, "idle")
        /\ kind \in Kinds[c] \cap {"report", "invoice"}
        /\ Needed(kind) \in Capabilities(who)
        /\ page # {} /\ page \subseteq PeriodsOf(t)
        /\ call' = [call EXCEPT ![c] = [Idle EXCEPT !.at = "next", !.kind = kind,
                                                    !.home = Home(who, t), !.tenant = t,
                                                    !.todo = page]]
        /\ UNCHANGED <<row, charge, made, invoice, work>>

\* The operator's list of reports is over all tenants, or the one it names.
AskListAsOperator(c, page) ==
    /\ At(c, "idle")
    /\ "report" \in Kinds[c]
    /\ page # {} /\ \A p \in page : row[p].status # "absent"
    /\ call' = [call EXCEPT ![c] = [Idle EXCEPT !.at = "next", !.kind = "report",
                                                !.todo = page]]
    /\ UNCHANGED <<row, charge, made, invoice, work>>

NextOfPage(c, p) ==
    /\ call[c].at \in {"next", "answered"}
    /\ p \in call[c].todo
    /\ \A q \in call[c].todo \ {p} : Listed(p, q)
    /\ Start(c, call[c].kind, call[c].home, PeriodTenant[p], p, FirstStep(call[c].kind),
             call[c].todo \ {p})
    /\ UNCHANGED <<row, charge, made, invoice, work>>

-----------------------------------------------------------------------------
(* The overview: which period it is about *)

Choose(c, p) ==
    /\ Start(c, "overview", call[c].home, call[c].tenant, p, "read", {})
    /\ UNCHANGED <<row, charge, made, invoice, work>>

\* A tenant without periods of its own is shown those of its subscription.
ListPeriods(c, p) ==
    /\ At(c, "list")
    /\ IsCurrent(p, PeriodsOf(call[c].tenant))
    /\ Choose(c, p)

ListsNone(c) ==
    /\ At(c, "list")
    /\ PeriodsOf(call[c].tenant) = {}
    /\ IF SubsOf(call[c].tenant) = {} THEN Goto(c, "answered") ELSE Goto(c, "fallback")
    /\ UNCHANGED <<row, charge, made, invoice, work>>

Fallback(c, p) ==
    /\ At(c, "fallback")
    /\ \E s \in Subs : IsActiveSub(s, call[c].tenant) /\ IsCurrent(p, PeriodsUnder(s))
    /\ Choose(c, p)

FallbackNone(c) ==
    /\ At(c, "fallback")
    /\ \E s \in Subs : IsActiveSub(s, call[c].tenant) /\ PeriodsUnder(s) = {}
    /\ Goto(c, "answered")
    /\ UNCHANGED <<row, charge, made, invoice, work>>

-----------------------------------------------------------------------------
(* generate_billing_report: the period, then reconcile_billing_period,     *)
(* which reads the period again and then the sum of its charges            *)

\* `sealed` is history: the period is closed for good and reconciles.
Read(c) ==
    LET p == call[c].period
    IN  /\ At(c, "read")
        /\ call' = [call EXCEPT ![c].at = "again", ![c].first = Shows(p),
                                ![c].sealed = Sealed(p) /\ Billed(Usage(p)) = row[p].total]
        /\ UNCHANGED <<row, charge, made, invoice, work>>

ReadAgain(c) ==
    /\ At(c, "again")
    /\ call' = [call EXCEPT ![c].at = "sum", ![c].again = row[call[c].period].total]
    /\ UNCHANGED <<row, charge, made, invoice, work>>

Sum(c) ==
    /\ At(c, "sum")
    /\ call' = [call EXCEPT ![c].at = IF call[c].kind = "report" THEN "answered"
                                      ELSE "read_invoice",
                            ![c].charged = OfPeriod(call[c].period)]
    /\ UNCHANGED <<row, charge, made, invoice, work>>

-----------------------------------------------------------------------------
(* generate_invoice_stub *)

ReadForInvoice(c) ==
    /\ At(c, "read_invoice")
    /\ call' = [call EXCEPT ![c].at = "find", ![c].first = Shows(call[c].period),
                            ![c].again = 0, ![c].charged = {}, ![c].sealed = FALSE]
    /\ UNCHANGED <<row, charge, made, invoice, work>>

\* SELECT ... LIMIT 1: of several invoices of the period, any.
FindInvoice(c) ==
    /\ At(c, "find")
    /\ \E n \in InvoicesOf(call[c].period) \cup {None} :
         /\ n = None => InvoicesOf(call[c].period) = {}
         /\ call' = [call EXCEPT ![c].at = "write", ![c].found = n]
    /\ UNCHANGED <<row, charge, made, invoice, work>>

IsNew(n) == invoice[n] = None /\ \A m \in Invoices : m < n => invoice[m] # None

MutKeepExisting(c) ==
    /\ At(c, "write")
    /\ \E n \in Invoices :
         /\ IF call[c].found = None THEN IsNew(n) ELSE n = call[c].found
         /\ invoice' = IF call[c].found # None THEN invoice
                       ELSE [invoice EXCEPT ![n] = [period |-> call[c].period, shows |-> call[c].first]]
         /\ call' = [call EXCEPT ![c].at = "back", ![c].found = n, ![c].first = None]
    /\ UNCHANGED <<row, charge, made, work>>

MutForgetNewId(c) ==
    /\ At(c, "write")
    /\ \E n \in Invoices :
         /\ IF call[c].found = None THEN IsNew(n) ELSE n = call[c].found
         /\ invoice' = [invoice EXCEPT ![n] = [period |-> call[c].period, shows |-> call[c].first]]
         /\ call' = [call EXCEPT ![c].at = "back", ![c].first = None]
    /\ UNCHANGED <<row, charge, made, work>>

\* Insert a draft as a new row, or update the one found.
WriteInvoice(c) ==
    /\ At(c, "write")
    /\ \E n \in Invoices :
         /\ IF call[c].found = None THEN IsNew(n) ELSE n = call[c].found
         /\ invoice' = [invoice EXCEPT ![n] = [period |-> call[c].period, shows |-> call[c].first]]
         /\ call' = [call EXCEPT ![c].at = "back", ![c].found = n, ![c].first = None]
    /\ UNCHANGED <<row, charge, made, work>>

\* SELECT by id: what is answered is what the row holds now (Answer).
Answer(c) == invoice[call[c].found].shows

ReadBack(c) ==
    /\ At(c, "back")
    /\ call' = [call EXCEPT ![c].at = "answered", ![c].found = None,
                            ![c].period = None, ![c].may = {}]
    /\ UNCHANGED <<row, charge, made, invoice, work>>

-----------------------------------------------------------------------------
(* Lists of charges *)

MutFetchExactly(t, offset) ==
    {i \in OfTenant(t) : NewerIn(OfTenant(t), i) < PageSize + offset}

\* list_usage_charges with limit = limit + offset + 1, newest first
Fetched(t, offset) ==
    {i \in OfTenant(t) : NewerIn(OfTenant(t), i) < PageSize + offset + 1}

\* The kind is filtered after that; then the page is cut out (_slice_rows).
Matching(rows, kind) == IF kind = "adjustments" THEN rows \cap Adjustments ELSE rows
Slice(rows, offset) == {i \in rows : NewerIn(rows, i) \in offset..(offset + PageSize - 1)}
HasMore(rows, offset) == Cardinality(rows) > offset + PageSize

Page(c) ==
    LET offset == call[c].offset
        rows == Matching(Fetched(call[c].tenant, offset), call[c].kind)
        more == HasMore(rows, offset)
    IN  /\ At(c, "page")
        /\ call' = [call EXCEPT ![c].at = IF more THEN "page" ELSE "answered",
                                ![c].offset = IF more THEN offset + PageSize ELSE 0,
                                ![c].seen = @ \cup Slice(rows, offset)]
        /\ UNCHANGED <<row, charge, made, invoice, work>>

-----------------------------------------------------------------------------

\* The client has its answer; or a statement fails, or the process dies: what
\* was committed stays.
End(c) ==
    /\ ~At(c, "idle")
    /\ call' = [call EXCEPT ![c] = Idle]
    /\ UNCHANGED <<row, charge, made, invoice, work>>

Init ==
    /\ row = [p \in Periods |-> [status |-> IF p \in History THEN "closed" ELSE "absent",
                                 total |-> 0]]
    /\ charge = [i \in 1..MaxCharges |-> None]
    /\ made = 0
    /\ invoice = [n \in Invoices |-> None]
    /\ work = [o \in Operators |-> NoWork]
    /\ call = [c \in Calls |-> Idle]

Operator(o) ==
    \/ \E p \in Periods : CreatePeriod(o, p) \/ Summarize(o, p)
    \/ \E p \in Periods, want \in Statuses : SetStatus(o, p, want)
    \/ \E p \in Periods \cup {None} : Materialize(o, p) \/ Adjust(o, p)
    \/ \E total \in 0..MaxTotal : StoreTotals(o, total)
    \/ MoveToClosing(o) \/ ReconcileRead(o) \/ ReconcileCompare(o) \/ WriteStatus(o)
    \/ \E x \in Billable : InsertCharge(o, x) \/ InsertAdjustment(o, x)
    \/ WorkEnds(o)

Ask(c) ==
    /\ At(c, "idle")
    /\ \/ \E who \in Who, requested \in Tenants \cup {None} :
            \/ \E kind \in Kinds[c], p \in Periods : AskPeriod(c, who, requested, kind, p)
            \/ \E kind \in Kinds[c], page \in SUBSET Periods :
                  AskList(c, who, requested, kind, page)
            \/ AskOverview(c, who, requested)
            \/ \E kind \in Kinds[c] : AskPages(c, who, requested, kind)
       \/ \E kind \in Kinds[c], p \in Periods : AskAsOperator(c, kind, p)
       \/ \E page \in SUBSET Periods : AskListAsOperator(c, page)

Step(c) ==
    \/ \E p \in Periods : NextOfPage(c, p) \/ ListPeriods(c, p) \/ Fallback(c, p)
    \/ ListsNone(c) \/ FallbackNone(c)
    \/ Read(c) \/ ReadAgain(c) \/ Sum(c)
    \/ ReadForInvoice(c) \/ FindInvoice(c) \/ WriteInvoice(c) \/ ReadBack(c)
    \/ Page(c)
    \/ End(c)

Next == (\E o \in Operators : Operator(o)) \/ \E c \in Calls : Ask(c) \/ Step(c)

Spec == Init /\ [][Next]_vars

-----------------------------------------------------------------------------
(* Properties *)

WorkSteps == {"idle", "store_totals", "move_to_closing", "reconcile", "compare", "write_status",
              "charge", "adjust"}

Steps == {"idle", "next", "list", "fallback", "read", "again", "sum", "read_invoice", "find",
          "write", "back", "page", "answered"}

\* The tables hold rows of their columns, and a call holds what its next
\* statement needs: a period from the first read on, the invoice it wrote.
TypeOK ==
    /\ row \in [Periods -> [status : Statuses \cup {"absent"}, total : 0..MaxTotal]]
    /\ made \in 0..MaxCharges
    /\ charge \in [1..MaxCharges -> Billable \cup {None}]
    /\ \A i \in Charges : charge[i] # None
    /\ invoice \in [Invoices -> InvoiceRows \cup {None}]
    /\ work \in [Operators -> [at : WorkSteps, period : Periods \cup {None}, want : Statuses,
                               total : 0..MaxTotal]]
    /\ \A o \in Operators :
         work[o].at \notin {"idle", "charge", "adjust"} => work[o].period # None
    /\ call \in [Calls ->
           [at : Steps, kind : AllKinds \cup {"none"},
            home : Tenants \cup {None}, tenant : Tenants \cup {None},
            period : Periods \cup {None}, first : Shown \cup {None}, again : 0..MaxTotal,
            charged : SUBSET (1..MaxCharges), found : Invoices \cup {None}, may : SUBSET Shown,
            sealed : BOOLEAN, todo : SUBSET Periods, offset : Nat,
            start : SUBSET (1..MaxCharges), seen : SUBSET (1..MaxCharges)]]
    /\ \A c \in Calls :
         /\ call[c].at \in {"read", "again", "sum", "read_invoice", "find", "write", "back"} =>
               call[c].period # None
         /\ call[c].at \in {"find", "write"} => call[c].first # None
         /\ call[c].at = "back" =>
               call[c].found # None /\ invoice[call[c].found] # None

\* A caller with a key is shown its own tenant, whatever tenant it names; and
\* the period of an answer is the tenant's or belongs to its subscription.
OwnRows ==
    \A c \in Calls :
        /\ call[c].home # None => call[c].tenant = call[c].home
        /\ call[c].period # None =>
              \/ PeriodTenant[call[c].period] = call[c].tenant
              \/ SubTenant[PeriodSub[call[c].period]] = call[c].tenant

\* An invoice preview, whenever it gets to answer, shows the period as it was
\* at some moment since the preview began, or as an earlier preview had read it
\* that was then still to write its invoice; nothing older.
InvoiceNoOlder ==
    \A c \in Calls : At(c, "back") => Answer(c) \in call[c].may

\* However often previews are asked for, a period has no more invoices than
\* there can be calls that look for one at once.
FewInvoices == \A p \in Periods : Cardinality(InvoicesOf(p)) <= Cardinality(Calls)

\* Previews that overlap neither pile up rows nor answer with a stale one.
InvoicesSound == InvoiceNoOlder /\ FewInvoices

\* A report is four statements.  If the period it reads first is closed for
\* good (every call that looked at it before the close has ended) and its usage
\* reconciles, the report shows the savings it was closed with in both places,
\* and nothing but adjustments is between them and the charges it sums up.
Reported(c) ==
    \/ At(c, "answered") /\ call[c].kind = "report"
    \/ At(c, "read_invoice") /\ call[c].kind = "overview"

ClosedReportReconciles ==
    \A c \in Calls :
        Reported(c) /\ call[c].sealed =>
            /\ call[c].first.closed
            /\ call[c].again = call[c].first.total
            /\ Billed(call[c].charged \ Adjustments) = call[c].first.total

\* A client that follows next_offset through the charges of its tenant has
\* seen, at the end, every charge that was there when it began, whatever is
\* charged between its requests.
PagesMissNothing ==
    \A c \in Calls :
        At(c, "answered") /\ call[c].kind = "charges" => call[c].start \subseteq call[c].seen
=============================================================================
