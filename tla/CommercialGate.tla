--------------------------- MODULE CommercialGate ---------------------------
(***************************************************************************)
(* The commercial gate: subscriptions, the status of billing periods, the  *)
(* log of commercial events, and the decision to serve or refuse a chat    *)
(* request that is derived from the first two                              *)
(* (get_tenant_enforcement_state in                                        *)
(* src/app/controlplane/repositories/billing.py, called by the proxy and   *)
(* by src/app/api/routes_billing_admin.py).  Every statement is committed  *)
(* on its own: the two reads of a decision, the writes of an admin call    *)
(* and the event it logs afterwards interleave with those of other calls.  *)
(*                                                                         *)
(* What charges a period has, and so whether it reconciles, is the subject *)
(* of BillingPeriods; here reconciliation may go either way.               *)
(*                                                                         *)
(* An operator named Mut... is a plausible bug in the operation defined    *)
(* below it; it is part of no specification.                               *)
(***************************************************************************)
EXTENDS Integers

CONSTANTS
    Tenants,
    Subs,               \* subscription rows, numbered in the order they are created
    SubTenant, SubEnd,  \* columns tenant_id and current_period_end
    SubStatuses,        \* statuses an operator may give a subscription
    Asked,              \* statuses that are asked of POST .../periods/{id}/status
    Periods,            \* billing period rows, numbered in the order they are created
    PeriodTenant, PeriodEnd,
    Operators,          \* admin calls that can be in progress at once
    Calls,              \* chat requests that can be in progress at once
    Gains,              \* realized savings of one served request
    Threshold,          \* billing_patronage_threshold_usd
    MaxEarned,          \* bound: MaxEarned[p], savings counted for p
    None

ASSUME GateAssumption ==
    /\ Subs \subseteq Nat /\ Periods \subseteq Nat
    /\ SubTenant \in [Subs -> Tenants] /\ SubEnd \in [Subs -> Nat]
    /\ PeriodTenant \in [Periods -> Tenants] /\ PeriodEnd \in [Periods -> Nat]
    /\ "absent" \notin SubStatuses
    /\ Asked \subseteq {"open", "closing", "closed"}
    /\ Gains \subseteq Nat
    /\ Threshold \in Nat
    /\ MaxEarned \in [Periods -> Nat]
    /\ Calls \cap Operators = {}
    /\ None \notin Subs \cup Periods \cup Tenants

VARIABLES
    sub,        \* subscriptions.status, or "absent"
    status,     \* billing_periods.status, or "absent"
    savings,    \* billing_periods.realized_savings_usd_total
    earned,     \* the savings the request ledger holds for the window of a period
    events,     \* commercial_events: how many rows there are of each event
    op,         \* what each admin call is doing
    gate,       \* what each chat request is doing
    seen        \* history: the standings of its tenant while a decision was being made

tables == <<sub, status, savings, earned>>
vars == <<sub, status, savings, earned, events, op, gate, seen>>

-----------------------------------------------------------------------------
(* get_tenant_enforcement_state *)

SubsOf(t) == {s \in Subs : sub[s] # "absent" /\ SubTenant[s] = t}
PeriodsOf(t) == {p \in Periods : status[p] # "absent" /\ PeriodTenant[p] = t}

\* ORDER BY current_period_end DESC, created_at DESC
LaterSub(s, r) == SubEnd[s] > SubEnd[r] \/ (SubEnd[s] = SubEnd[r] /\ s > r)
CurrentSub(s, t) == \A r \in SubsOf(t) \ {s} : LaterSub(s, r)

\* Open and closing periods first, then by period_end and created_at.
Live(p) == status[p] \in {"open", "closing"}
Ahead(p, q) ==
    \/ Live(p) /\ ~Live(q)
    \/ /\ Live(p) <=> Live(q)
       /\ PeriodEnd[p] > PeriodEnd[q] \/ (PeriodEnd[p] = PeriodEnd[q] /\ p > q)
CurrentPeriod(p, t) == \A q \in PeriodsOf(t) \ {p} : Ahead(p, q)

\* The first statement: is the current subscription an active one?
Paid(t) == \E s \in SubsOf(t) : CurrentSub(s, t) /\ sub[s] = "active"

\* The second: is the current period over the threshold and in this status?
Due(t, st) ==
    \E p \in PeriodsOf(t) :
        CurrentPeriod(p, t) /\ savings[p] >= Threshold /\ status[p] = st

Standing(t) == IF Due(t, "closed") THEN "closed"
               ELSE IF Due(t, "closing") THEN "closing"
               ELSE "free"

View(t) == [paid |-> Paid(t), standing |-> Standing(t)]
Blocks(view) == ~view.paid /\ view.standing # "free"

-----------------------------------------------------------------------------
(* The event log *)

StatusUpdated(s, to) == [type |-> "subscription_status_updated", of |-> s, to |-> to]
PatronageRequired(p) == [type |-> "patronage_required", of |-> p, to |-> "closing"]
PeriodClosed(p) == [type |-> "billing_period_closed", of |-> p, to |-> "closed"]
ServiceSuspended(p) == [type |-> "service_suspended", of |-> p, to |-> "suspended"]

\* An event is named by its event_id, which is fixed by what it is about.
Statuses == {"open", "closing", "closed"}
Events ==
    {StatusUpdated(s, to) : s \in Subs, to \in SubStatuses}
    \cup {PatronageRequired(p) : p \in Periods}
    \cup {PeriodClosed(p) : p \in Periods}
    \cup {ServiceSuspended(p) : p \in Periods}

Logged(e) == events[e] > 0

Idle == [at |-> "idle", route |-> "none", period |-> None, want |-> "none",
         total |-> 0, event |-> None, then |-> "answered", paid |-> FALSE]
Waiting == [at |-> "idle", tenant |-> None, paid |-> FALSE, reason |-> "none"]

Init ==
    /\ sub = [s \in Subs |-> "absent"]
    /\ status = [p \in Periods |-> "absent"]
    /\ savings = [p \in Periods |-> 0]
    /\ earned = [p \in Periods |-> 0]
    /\ events = [e \in Events |-> 0]
    /\ op = [h \in Operators |-> Idle]
    /\ gate = [c \in Calls |-> Waiting]
    /\ seen = [x \in Calls \cup Operators |-> {}]

-----------------------------------------------------------------------------
(* A chat request: the gate, the response, the ledger row *)

ReadSubscription(c, t) ==
    /\ gate[c].at = "idle"
    /\ gate' = [gate EXCEPT ![c] = [at |-> "deciding", tenant |-> t, reason |-> "none",
                                    paid |-> Paid(t)]]
    /\ UNCHANGED <<tables, events, op>>

MutOnlyClosedBlocks(c) ==
    /\ gate[c].at = "deciding"
    /\ gate' = [gate EXCEPT ![c].at = IF \/ gate[c].paid
                                         \/ Standing(gate[c].tenant) # "closed"
                                        THEN "admitted" ELSE "refused",
                            ![c].reason = Standing(gate[c].tenant)]
    /\ UNCHANGED <<tables, events, op>>

MutReasonIsStatus(c) ==
    /\ gate[c].at = "deciding"
    /\ LET t == gate[c].tenant
       IN  gate' = [gate EXCEPT
               ![c].at = IF gate[c].paid \/ Standing(t) = "free" THEN "admitted" ELSE "refused",
               ![c].reason = IF Due(t, "open") THEN "open" ELSE Standing(t)]
    /\ UNCHANGED <<tables, events, op>>

\* The period is read and the verdict follows from what both reads gave; the
\* 402 names the standing as its reason.
ReadPeriod(c) ==
    /\ gate[c].at = "deciding"
    /\ LET standing == Standing(gate[c].tenant)
       IN  gate' = [gate EXCEPT
               ![c].at = IF gate[c].paid \/ standing = "free" THEN "admitted" ELSE "refused",
               ![c].reason = standing]
    /\ UNCHANGED <<tables, events, op>>

\* The response of an admitted request, and its ledger row: it counts for a
\* period in whose window it was observed, created or not.
Serve(c, p, gain) ==
    /\ gate[c].at = "admitted"
    /\ PeriodTenant[p] = gate[c].tenant
    /\ earned[p] + gain <= MaxEarned[p]
    /\ earned' = [earned EXCEPT ![p] = @ + gain]
    /\ gate' = [gate EXCEPT ![c] = Waiting]
    /\ UNCHANGED <<sub, status, savings, events, op>>

\* The 402 is sent, or the request ends in an error or without a ledger row.
Leave(c) ==
    /\ gate[c].at # "idle"
    /\ gate' = [gate EXCEPT ![c] = Waiting]
    /\ UNCHANGED <<tables, events, op>>

-----------------------------------------------------------------------------
(* Rows an operator creates *)

InsertSubscription(s, st) == sub[s] = "absent" /\ sub' = [sub EXCEPT ![s] = st]

CreateSubscription(s, st) ==
    /\ \A r \in Subs : r < s => sub[r] # "absent"
    /\ InsertSubscription(s, st)
    /\ UNCHANGED <<status, savings, earned, events, op, gate>>

CreatePeriod(p) ==
    /\ status[p] = "absent"
    /\ \A q \in Periods : q < p => status[q] # "absent"
    /\ status' = [status EXCEPT ![p] = "open"]
    /\ UNCHANGED <<sub, savings, earned, events, op, gate>>

-----------------------------------------------------------------------------
(* Admin calls: the statements of the repository, then the events *)

At(h, step) == op[h].at = step
Goto(h, step) == op' = [op EXCEPT ![h].at = step]

\* The call is answered with 200; or it ends with an error.
Answer(h) ==
    op' = [op EXCEPT ![h] = [Idle EXCEPT !.at = "answered", !.route = op[h].route,
                                         !.period = op[h].period]]
Return(h) == op' = [op EXCEPT ![h] = Idle]

ThenLog(h, event, step) ==
    op' = [op EXCEPT ![h].at = "log", ![h].event = event, ![h].then = step]

\* POST .../subscriptions/{id}/status: one UPDATE, then its event.
UpdateSubscription(h, s, to) ==
    /\ At(h, "idle")
    /\ sub[s] # "absent"
    /\ sub' = [sub EXCEPT ![s] = to]
    /\ op' = [op EXCEPT ![h] = [Idle EXCEPT !.at = "log", !.route = "subscription",
                                            !.event = StatusUpdated(s, to)]]
    /\ UNCHANGED <<status, savings, earned, events, gate>>

\* POST .../summarize: a closed period is returned as it is.
Summarize(h, p) ==
    /\ At(h, "idle")
    /\ status[p] \in {"open", "closing"}
    /\ op' = [op EXCEPT ![h] = [Idle EXCEPT !.at = "aggregate", !.route = "summarize",
                                            !.period = p]]
    /\ UNCHANGED <<tables, events, gate>>

Aggregate(h) ==
    /\ At(h, "aggregate")
    /\ op' = [op EXCEPT ![h].at = "store", ![h].total = earned[op[h].period]]
    /\ UNCHANGED <<tables, events, gate>>

StoreTotals(h) ==
    /\ At(h, "store")
    /\ savings' = [savings EXCEPT ![op[h].period] = op[h].total]
    /\ op' = [op EXCEPT ![h].at = "refresh", ![h].total = 0]
    /\ UNCHANGED <<sub, status, earned, events, gate>>

MutSuspendBeforeClosedEvent(h, st) ==
    LET p == op[h].period
    IN  \/ op[h].route = "status" /\ Answer(h)
        \/ op[h].route # "status" /\ Goto(h, "enforce")

MutPatronageUnchecked(h, st) ==
    LET p == op[h].period
    IN  \/ op[h].route = "status" /\ Answer(h)
        \/ op[h].route = "close" /\ ThenLog(h, PeriodClosed(p), "enforce")
        \/ op[h].route = "summarize" /\ st # "closing" /\ Answer(h)
        \/ /\ op[h].route = "summarize" /\ st = "closing"
           /\ ThenLog(h, PatronageRequired(p), "enforce")

\* What a route does with the row it got back.
WithRow(h, st) ==
    LET p == op[h].period
    IN  \/ op[h].route = "status" /\ Answer(h)
        \/ op[h].route = "close" /\ ThenLog(h, PeriodClosed(p), "enforce")
        \/ op[h].route = "summarize" /\ st # "closing" /\ Answer(h)
        \/ /\ op[h].route = "summarize" /\ st = "closing"
           /\ IF savings[p] >= Threshold
                THEN ThenLog(h, PatronageRequired(p), "enforce")
                ELSE Goto(h, "enforce")

\* The row is read again; an open period over the threshold goes on to
\* update_billing_period_status(closing).
Refresh(h) ==
    /\ At(h, "refresh")
    /\ LET p == op[h].period
       IN  IF status[p] = "open" /\ savings[p] >= Threshold
             THEN op' = [op EXCEPT ![h].at = "current", ![h].want = "closing"]
             ELSE WithRow(h, status[p])
    /\ UNCHANGED <<tables, events, gate>>

\* POST .../status and .../close.
SetStatus(h, p, route, want) ==
    /\ At(h, "idle")
    /\ status[p] # "absent"
    /\ op' = [op EXCEPT ![h] = [Idle EXCEPT !.at = "current", !.route = route,
                                            !.period = p, !.want = want]]
    /\ UNCHANGED <<tables, events, gate>>

\* update_billing_period_status: a closed period accepts only "closed", and
\* closing one ends with 400 when it does not reconcile.
ReadCurrent(h) ==
    /\ At(h, "current")
    /\ \/ op[h].want = "closed" /\ Return(h)
       \/ status[op[h].period] = "closed" /\ op[h].want # "closed" /\ Return(h)
       \/ status[op[h].period] # "closed" /\ Goto(h, "write")
       \/ op[h].want = "closed" /\ Goto(h, "write")
    /\ UNCHANGED <<tables, events, gate>>

\* UPDATE ... RETURNING *
WriteStatus(h) ==
    /\ At(h, "write")
    /\ status' = [status EXCEPT ![op[h].period] = op[h].want]
    /\ WithRow(h, op[h].want)
    /\ UNCHANGED <<sub, savings, earned, events, gate>>

\* INSERT ... ON CONFLICT (event_id) DO NOTHING
LogEvent(h) ==
    /\ At(h, "log")
    /\ events' = IF Logged(op[h].event) THEN events
                 ELSE [events EXCEPT ![op[h].event] = @ + 1]
    /\ \/ op[h].then = "answered" /\ Answer(h)
       \/ op[h].then # "answered" /\ Goto(h, op[h].then)
    /\ UNCHANGED <<tables, gate>>

\* _emit_service_suspended_event_if_required: the same two reads as the gate's.
EnforceSubscription(h) ==
    /\ At(h, "enforce")
    /\ op' = [op EXCEPT ![h].at = "enforce_period", ![h].paid = Paid(PeriodTenant[op[h].period])]
    /\ UNCHANGED <<tables, events, gate>>

MutEnforceAnyPeriod(h) ==
    /\ At(h, "enforce_period")
    /\ IF ~op[h].paid
         THEN ThenLog(h, ServiceSuspended(op[h].period), "answered")
         ELSE Answer(h)
    /\ UNCHANGED <<tables, events, gate>>

EnforcePeriod(h) ==
    /\ At(h, "enforce_period")
    /\ LET p == op[h].period
       IN  IF ~op[h].paid /\ Standing(PeriodTenant[p]) = "closed"
             THEN ThenLog(h, ServiceSuspended(p), "answered")
             ELSE Answer(h)
    /\ UNCHANGED <<tables, events, gate>>

\* An exception of these reads is swallowed: the call is answered without the event.
EnforceFails(h) ==
    /\ op[h].at \in {"enforce", "enforce_period"}
    /\ Answer(h)
    /\ UNCHANGED <<tables, events, gate>>

\* The client has its answer; or a statement fails, or the process dies: what
\* was committed stays.
End(h) ==
    /\ ~At(h, "idle")
    /\ Return(h)
    /\ UNCHANGED <<tables, events, gate>>

-----------------------------------------------------------------------------
(* The history of standings: what a tenant's standing was, at any time     *)
(* from the first read of a decision to its last.                          *)

Deciding(x) == IF x \in Calls THEN gate[x].at = "deciding" ELSE op[x].at = "enforce_period"
TenantAsked(x) == IF x \in Calls THEN gate[x].tenant ELSE PeriodTenant[op[x].period]
Decided(x) == x \in Calls /\ gate[x].at \in {"admitted", "refused"}

Watch ==
    seen' = [x \in Calls \cup Operators |->
               IF Deciding(x)' THEN (IF Deciding(x) THEN seen[x] ELSE {}) \cup {View(TenantAsked(x))'}
               ELSE IF Decided(x)' THEN seen[x]
               ELSE {}]

Admin(h) ==
    \/ \E s \in Subs, to \in SubStatuses : UpdateSubscription(h, s, to)
    \/ \E p \in Periods : Summarize(h, p)
    \/ \E p \in Periods, want \in Asked : SetStatus(h, p, "status", want)
    \/ \E p \in Periods : SetStatus(h, p, "close", "closed")
    \/ Aggregate(h)
    \/ StoreTotals(h)
    \/ Refresh(h)
    \/ ReadCurrent(h)
    \/ WriteStatus(h)
    \/ LogEvent(h)
    \/ EnforceSubscription(h)
    \/ EnforcePeriod(h)
    \/ EnforceFails(h)
    \/ End(h)

Request(c) ==
    \/ \E t \in Tenants : ReadSubscription(c, t)
    \/ ReadPeriod(c)
    \/ \E p \in Periods, gain \in Gains : Serve(c, p, gain)
    \/ Leave(c)

Act ==
    \/ \E c \in Calls : Request(c)
    \/ \E s \in Subs, st \in SubStatuses : CreateSubscription(s, st)
    \/ \E p \in Periods : CreatePeriod(p)
    \/ \E h \in Operators : Admin(h)

Next == Act /\ Watch

Spec == Init /\ [][Next]_vars

-----------------------------------------------------------------------------
(* Properties *)

Standings == {"free", "closing", "closed"}
Views == [paid : BOOLEAN, standing : Standings]

\* Tables, events and the records of calls keep their types: a period has
\* totals only of what the ledger holds, and an event only what its route says.
TypeOK ==
    /\ sub \in [Subs -> SubStatuses \cup {"absent"}]
    /\ status \in [Periods -> Statuses \cup {"absent"}]
    /\ savings \in [Periods -> Nat]
    /\ earned \in [Periods -> Nat]
    /\ events \in [Events -> Nat]
    /\ op \in [Operators ->
                 [at : {"idle", "aggregate", "store", "refresh", "current", "write",
                        "log", "enforce", "enforce_period", "answered"},
                  route : {"none", "subscription", "summarize", "status", "close"},
                  period : Periods \cup {None}, want : Statuses \cup {"none"}, total : Nat,
                  event : Events \cup {None}, then : {"answered", "enforce"}, paid : BOOLEAN]]
    /\ gate \in [Calls ->
                   [at : {"idle", "deciding", "admitted", "refused"}, tenant : Tenants \cup {None},
                    paid : BOOLEAN, reason : Standings \cup {"none"}]]
    /\ seen \in [Calls \cup Operators -> SUBSET Views]

\* No request is served to a tenant that was blocked all the time the gate
\* decided about it: at some moment of the decision it had an active
\* subscription or a period that does not block (lines 885-921 of billing.py).
AdmittedOnlyIfOpen ==
    \A c \in Calls : gate[c].at = "admitted" => \E view \in seen[c] : ~Blocks(view)

\* A request is refused only for a reason that held: while the gate decided
\* there was a moment without an active subscription and a moment at which the
\* current period stood as the 402 says.  The two may differ, for the two
\* reads are two statements.
RefusalJustified ==
    \A c \in Calls : gate[c].at = "refused" =>
        /\ \E view \in seen[c] : ~view.paid
        /\ \E view \in seen[c] : view.standing = gate[c].reason /\ view.standing # "free"

\* Served or refused, a request is decided about by what was true of its
\* tenant at some moment of the decision.
DecisionsJustified == AdmittedOnlyIfOpen /\ RefusalJustified

\* However often a period is summarized or closed again, retried after a
\* crash or handled twice at once, the log has one row per event id.
LoggedOnce == \A e \in Events : events[e] <= 1

\* A tenant is asked to pay for savings that are in the ledger: an event
\* patronage_required is for a period that earned the threshold.
PatronageIsEarned ==
    \A p \in Periods : Logged(PatronageRequired(p)) => earned[p] >= Threshold

\* A /close that was answered with 200 has its event in the log; one that
\* crashed between the UPDATE and the INSERT was not answered, and the retry
\* logs it (lines 349-369 of routes_billing_admin.py).
AnsweredCloseIsLogged ==
    \A h \in Operators :
        At(h, "answered") /\ op[h].route = "close" => Logged(PeriodClosed(op[h].period))

\* service_suspended is logged only if, while the call looked, the tenant was
\* without an active subscription and its current period stood closed.
SuspensionJustified ==
    [][\A h \in Operators :
          op'[h].at = "log" /\ op[h].at # "log" /\ op'[h].event.type = "service_suspended" =>
              /\ \E view \in seen[h] : ~view.paid
              /\ \E view \in seen[h] : view.standing = "closed"]_vars
=============================================================================
