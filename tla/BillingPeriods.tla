--------------------------- MODULE BillingPeriods ---------------------------
(***************************************************************************)
(* The billing tables and the admin handlers that work on them             *)
(* (src/app/controlplane/repositories/billing.py, called by                *)
(* src/app/api/routes_billing_admin.py).  Every `await pool...` of the     *)
(* repository is a statement of its own, committed before the next one:    *)
(* no method opens a transaction or takes a row lock.  A handler is        *)
(* therefore a sequence of steps, one action per statement, and the        *)
(* handlers of concurrent admin calls interleave between them.  What a     *)
(* handler read earlier and still uses later is its record in `call`.      *)
(*                                                                         *)
(* An operator named Mut... is a plausible bug in the operation defined    *)
(* below it; it is part of no specification, and shows that the property   *)
(* about that operation can fail.                                          *)
(***************************************************************************)
EXTENDS Integers, FiniteSets, FiniteSetsExt

CONSTANTS
    Handlers,       \* admin calls that can be in progress at once
    Tenants,
    Requests,       \* ledger rows that may arrive; r < s: observed_at of r is earlier
    TenantOf, Savings, Cost,        \* columns of a ledger row
    Periods,        \* ids a billing period row may get
    PeriodTenant, Window, KeyOf,    \* tenant, time window, (subscription, start, end)
    Buckets,        \* rows of daily_usage_rollups: (date, tenant, workspace)
    BucketOf, BucketTenant, DateOf, RefOf,  \* RefOf: the "date:workspace" text
    Adjustments,    \* uuids of manual adjustments
    AdjustmentAmount,
    Threshold,      \* patronage_required_threshold_usd
    Limits,         \* values of the `limit` argument
    NoPeriod        \* a charge or call without a billing period

ASSUME TablesAssumption ==
    /\ Requests \subseteq Nat
    /\ IsFiniteSet(Requests)
    /\ TenantOf \in [Requests -> Tenants]
    /\ Savings \in [Requests -> Nat]
    /\ Cost \in [Requests -> Nat]
    /\ PeriodTenant \in [Periods -> Tenants]
    /\ Window \in [Periods -> SUBSET Requests]
    /\ BucketOf \in [Requests -> Buckets]
    /\ BucketTenant \in [Buckets -> Tenants]
    /\ AdjustmentAmount \in [Adjustments -> Int]
    /\ Limits \subseteq Nat
    /\ NoPeriod \notin Periods

VARIABLES
    ledger,     \* request_ledger: the rows inserted so far
    rollups,    \* daily_usage_rollups: the requests each row was computed from
    status,     \* billing_periods.status, or "absent"
    summary,    \* the ledger rows behind the five total columns of a period
    charges,    \* usage_charges
    call        \* what each handler is doing

tables == <<ledger, rollups, status, summary, charges>>
vars == <<ledger, rollups, status, summary, charges, call>>

-----------------------------------------------------------------------------
(* Rows and totals *)

SumSavings(S) == MapThenSumSet(LAMBDA r : Savings[r], S)
SumCost(S) == MapThenSumSet(LAMBDA r : Cost[r], S)
SumAmounts(C) == MapThenSumSet(LAMBDA c : c.amount, C)

Statuses == {"open", "closing", "closed"}
Sources == {"ledger", "rollups", "manual"}

\* A row about to become a charge.  The ref of a ledger row is its request,
\* of a rollup row its date and workspace, of an adjustment its uuid.
MutLedgerRowAtCost(r) == [source |-> "ledger", ref |-> r, amount |-> Cost[r]]
LedgerRow(r) == [source |-> "ledger", ref |-> r, amount |-> Savings[r]]
RollupRow(b) == [source |-> "rollups", ref |-> RefOf[b], amount |-> SumCost(rollups[b])]
AdjustmentRow(a) == [source |-> "manual", ref |-> a, amount |-> AdjustmentAmount[a]]

Charge(row, p) ==
    [source |-> row.source, ref |-> row.ref, amount |-> row.amount, period |-> p]

\* The ledger rows of tenant t inside the window of p.
InWindow(t, p) == {r \in ledger : TenantOf[r] = t /\ r \in Window[p]}
MutLoggedInAnyTenant(p) == {r \in ledger : r \in Window[p]}
LoggedIn(p) == InWindow(PeriodTenant[p], p)

ChargesOf(p) == {c \in charges : c.period = p}

\* ORDER BY observed_at DESC LIMIT n
Newest(R, n) == {r \in R : Cardinality({s \in R : s > r}) < n}

\* The unique index on (source_table, source_ref, charge_type); the charge
\* type is a function of the source table.
Taken(row) == \E c \in charges : c.source = row.source /\ c.ref = row.ref

-----------------------------------------------------------------------------
(* Handlers *)

Idle == [at |-> "idle", period |-> NoPeriod, want |-> "open", snap |-> {}, rows |-> {}, due |-> {}]

Goto(h, step) == call' = [call EXCEPT ![h].at = step]
Return(h) == call' = [call EXCEPT ![h] = Idle]
Begin(h, step, p) == call' = [call EXCEPT ![h] = [Idle EXCEPT !.at = step, !.period = p]]

At(h, step) == call[h].at = step
Exists(p) == p \in Periods /\ status[p] # "absent"

Init ==
    /\ ledger = {}
    /\ rollups = [b \in Buckets |-> {}]
    /\ status = [p \in Periods |-> "absent"]
    /\ summary = [p \in Periods |-> {}]
    /\ charges = {}
    /\ call = [h \in Handlers |-> Idle]

-----------------------------------------------------------------------------
(* The request path and the rollup job, seen from billing *)

\* observed_at is stamped before the INSERT, so rows may arrive out of order
\* and after the window they belong to has ended.
LogRequest(r) ==
    /\ r \notin ledger
    /\ ledger' = ledger \cup {r}
    /\ UNCHANGED <<rollups, status, summary, charges, call>>

RebuildRollups ==
    /\ rollups' = [b \in Buckets |-> {r \in ledger : BucketOf[r] = b}]
    /\ UNCHANGED <<ledger, status, summary, charges, call>>

-----------------------------------------------------------------------------
(* create_billing_period: look for the same (subscription, start, end),    *)
(* then insert a row under a fresh id.                                     *)

FreshPeriod(p) ==
    status[p] = "absent" /\ \A g \in Handlers : call[g].period # p

MutCheckPeriodById(h, p) ==
    /\ At(h, "idle")
    /\ FreshPeriod(p)
    /\ Begin(h, "insert_period", p)
    /\ UNCHANGED tables

CheckPeriod(h, p) ==
    /\ At(h, "idle")
    /\ FreshPeriod(p)
    /\ \A q \in Periods : KeyOf[q] = KeyOf[p] => ~Exists(q)
    /\ Begin(h, "insert_period", p)
    /\ UNCHANGED tables

InsertPeriod(h) ==
    /\ At(h, "insert_period")
    /\ status' = [status EXCEPT ![call[h].period] = "open"]
    /\ Return(h)
    /\ UNCHANGED <<ledger, rollups, summary, charges>>

-----------------------------------------------------------------------------
(* update_billing_period_status and close.  The status was checked by the  *)
(* time the UPDATE runs; the UPDATE itself has only the id in its WHERE.   *)

MutReadCurrentNoGuard(h, p, want) ==
    /\ Exists(p)
    /\ call' = [call EXCEPT ![h] =
           [Idle EXCEPT !.at = IF want = "closed" THEN "reconcile" ELSE "write_status",
                        !.period = p, !.want = want]]
    /\ UNCHANGED tables

\* The row is read; a closed period only accepts "closed".
ReadCurrent(h, p, want) ==
    /\ Exists(p)
    /\ IF status[p] = "closed" /\ want # "closed"
         THEN Return(h)
         ELSE call' = [call EXCEPT ![h] =
                [Idle EXCEPT !.at = IF want = "closed" THEN "reconcile" ELSE "write_status",
                             !.period = p, !.want = want]]
    /\ UNCHANGED tables

SetStatus(h, p, want) == At(h, "idle") /\ ReadCurrent(h, p, want)

MutReconcileWithLedger(h) ==
    /\ At(h, "reconcile")
    /\ call' = [call EXCEPT ![h].at = "compare", ![h].snap = LoggedIn(call[h].period)]
    /\ UNCHANGED tables

\* reconcile_billing_period, first statement: the period's totals.
ReconcileRead(h) ==
    /\ At(h, "reconcile")
    /\ call' = [call EXCEPT ![h].at = "compare", ![h].snap = summary[call[h].period]]
    /\ UNCHANGED tables

MutCompareAtMost(h) ==
    /\ At(h, "compare")
    /\ IF SumAmounts(ChargesOf(call[h].period)) <= SumSavings(call[h].snap)
         THEN Goto(h, "write_status")
         ELSE Return(h)
    /\ UNCHANGED tables

\* Second statement: the sum of the period's charges, compared to the totals.
ReconcileCompare(h) ==
    /\ At(h, "compare")
    /\ IF SumAmounts(ChargesOf(call[h].period)) = SumSavings(call[h].snap)
         THEN Goto(h, "write_status")
         ELSE Return(h)
    /\ UNCHANGED tables

WriteStatus(h) ==
    /\ At(h, "write_status")
    /\ status' = [status EXCEPT ![call[h].period] = call[h].want]
    /\ Return(h)
    /\ UNCHANGED <<ledger, rollups, summary, charges>>

-----------------------------------------------------------------------------
(* summarize_billing_period *)

Summarize(h, p) ==
    /\ At(h, "idle")
    /\ Exists(p) /\ status[p] # "closed"
    /\ Begin(h, "aggregate", p)
    /\ UNCHANGED tables

Aggregate(h) ==
    /\ At(h, "aggregate")
    /\ call' = [call EXCEPT ![h].at = "store_totals", ![h].snap = LoggedIn(call[h].period)]
    /\ UNCHANGED tables

StoreTotals(h) ==
    /\ At(h, "store_totals")
    /\ summary' = [summary EXCEPT ![call[h].period] = call[h].snap]
    /\ Goto(h, "refresh")
    /\ UNCHANGED <<ledger, rollups, status, charges>>

OverThreshold(p) == SumSavings(summary[p]) >= Threshold

\* The row is read again: an open period over the threshold goes on to
\* update_billing_period_status(closing).
Refresh(h) ==
    /\ At(h, "refresh")
    /\ LET p == call[h].period
       IN  IF status[p] = "open" /\ OverThreshold(p)
             THEN Goto(h, "move_to_closing")
             ELSE Return(h)
    /\ UNCHANGED tables

MoveToClosing(h) ==
    /\ At(h, "move_to_closing")
    /\ ReadCurrent(h, call[h].period, "closing")

-----------------------------------------------------------------------------
(* materialize_usage_charges_from_ledger / _from_rollups *)

\* With a period, its row is read first; a closing or closed one is refused.
MaterializeGuard(h, p, step) ==
    /\ At(h, "idle")
    /\ Exists(p) /\ status[p] = "open"
    /\ Begin(h, step, p)
    /\ UNCHANGED tables

\* Without one, the first statement is the SELECT of the rows.
ReadyToFetch(h, step) == At(h, step) \/ At(h, "idle")

FetchLedger(h, t, n) ==
    /\ ReadyToFetch(h, "fetch_ledger")
    /\ LET p == call[h].period
           R == IF p = NoPeriod THEN {r \in ledger : TenantOf[r] = t} ELSE InWindow(t, p)
       IN  call' = [call EXCEPT ![h].at = "check_row",
                                ![h].rows = {LedgerRow(r) : r \in Newest(R, n)}]
    /\ UNCHANGED tables

\* D: the buckets of the rollup_date argument, or all of them.
FetchRollups(h, t, D) ==
    /\ ReadyToFetch(h, "fetch_rollups")
    /\ call' = [call EXCEPT ![h].at = "check_row",
           ![h].rows = {RollupRow(b) : b \in {b \in D : BucketTenant[b] = t /\ rollups[b] # {}}}]
    /\ UNCHANGED tables

\* Ledger rows come newest first, rollup rows in no order.
IsNext(h, row) ==
    /\ row \in call[h].rows
    /\ row.source = "ledger" => \A other \in call[h].rows : other.ref <= row.ref

MutCheckRowKept(h, row) ==
    /\ At(h, "check_row")
    /\ IsNext(h, row)
    /\ ~Taken(row)
    /\ call' = [call EXCEPT ![h].at = "insert_charge", ![h].rows = @ \ {row}, ![h].due = {row}]
    /\ UNCHANGED tables

\* SELECT id FROM usage_charges WHERE ...: a row charged before is skipped.
CheckRow(h, row) ==
    /\ At(h, "check_row")
    /\ IsNext(h, row)
    /\ IF Taken(row)
         THEN call' = [call EXCEPT ![h].rows = @ \ {row}]
         ELSE call' = [call EXCEPT ![h].at = "insert_charge",
                                   ![h].rows = @ \ {row}, ![h].due = {row}]
    /\ UNCHANGED tables

MutInsertChargeNoIndex(h, row) ==
    /\ At(h, "insert_charge")
    /\ row \in call[h].due
    /\ charges' = charges \cup {Charge(row, call[h].period)}
    /\ call' = [call EXCEPT ![h].at = "check_row", ![h].due = {}]
    /\ UNCHANGED <<ledger, rollups, status, summary>>

\* The INSERT; a row that got its charge since it was looked for raises a
\* unique violation, which ends the call and keeps what it inserted before.
InsertCharge(h, row) ==
    /\ At(h, "insert_charge")
    /\ row \in call[h].due
    /\ IF Taken(row)
         THEN Return(h) /\ UNCHANGED charges
         ELSE /\ charges' = charges \cup {Charge(row, call[h].period)}
              /\ call' = [call EXCEPT ![h].at = "check_row", ![h].due = {}]
    /\ UNCHANGED <<ledger, rollups, status, summary>>

Done(h) ==
    /\ At(h, "check_row")
    /\ call[h].rows = {}
    /\ Return(h)
    /\ UNCHANGED tables

-----------------------------------------------------------------------------
(* create_manual_adjustment: the period, if one is named, must be closed.  *)

FreshAdjustment(a) ==
    /\ ~Taken(AdjustmentRow(a))
    /\ \A g \in Handlers : AdjustmentRow(a) \notin call[g].due

AdjustGuard(h, p, a) ==
    /\ At(h, "idle")
    /\ p = NoPeriod \/ (Exists(p) /\ status[p] = "closed")
    /\ FreshAdjustment(a)
    /\ call' = [call EXCEPT ![h] = [Idle EXCEPT !.at = "insert_adjustment",
                                                !.period = p, !.due = {AdjustmentRow(a)}]]
    /\ UNCHANGED tables

InsertAdjustment(h, row) ==
    /\ At(h, "insert_adjustment")
    /\ row \in call[h].due
    /\ charges' = charges \cup {Charge(row, call[h].period)}
    /\ Return(h)
    /\ UNCHANGED <<ledger, rollups, status, summary>>

-----------------------------------------------------------------------------
\* A statement fails or the process dies: the handler ends where it is, what
\* it committed stays.
Abort(h) ==
    /\ ~At(h, "idle")
    /\ Return(h)
    /\ UNCHANGED tables

\* The choices of an operator: which call to make next.
Start(h) ==
    \/ \E p \in Periods : CheckPeriod(h, p)
    \/ \E p \in Periods, want \in Statuses : SetStatus(h, p, want)
    \/ \E p \in Periods : Summarize(h, p)
    \/ \E p \in Periods, step \in {"fetch_ledger", "fetch_rollups"} : MaterializeGuard(h, p, step)
    \/ \E p \in Periods \cup {NoPeriod}, a \in Adjustments : AdjustGuard(h, p, a)

Dates == {DateOf[b] : b \in Buckets}
DateFilters == {Buckets} \cup {{b \in Buckets : DateOf[b] = d} : d \in Dates}

Fetch(h) ==
    \/ \E t \in Tenants, n \in Limits : FetchLedger(h, t, n)
    \/ \E t \in Tenants, D \in DateFilters : FetchRollups(h, t, D)

\* The next statement of a call in progress.
Step(h) ==
    \/ InsertPeriod(h)
    \/ ReconcileRead(h)
    \/ ReconcileCompare(h)
    \/ WriteStatus(h)
    \/ Aggregate(h)
    \/ StoreTotals(h)
    \/ Refresh(h)
    \/ MoveToClosing(h)
    \/ \E row \in call[h].rows : CheckRow(h, row)
    \/ \E row \in call[h].due : InsertCharge(h, row)
    \/ Done(h)
    \/ \E row \in call[h].due : InsertAdjustment(h, row)

Next ==
    \/ \E r \in Requests : LogRequest(r)
    \/ RebuildRollups
    \/ \E h \in Handlers : Start(h) \/ Fetch(h) \/ Step(h) \/ Abort(h)

Spec == Init /\ [][Next]_vars

\* A call that began is carried on: each statement returns or raises.  Nothing
\* makes an operator start a call, a request arrive or a statement fail.
Advance(h) == ~At(h, "idle") /\ (Fetch(h) \/ Step(h))
Fairness == \A h \in Handlers : WF_vars(Advance(h))

-----------------------------------------------------------------------------
(* Properties *)

Row ==
    {[source |-> "ledger", ref |-> r, amount |-> Savings[r]] : r \in Requests}
    \cup {[source |-> "rollups", ref |-> RefOf[b], amount |-> SumCost(S)] :
              b \in Buckets, S \in SUBSET Requests}
    \cup {AdjustmentRow(a) : a \in Adjustments}

Steps == {"idle", "insert_period", "reconcile", "compare", "write_status", "aggregate",
          "store_totals", "refresh", "move_to_closing", "fetch_ledger", "fetch_rollups",
          "check_row", "insert_charge", "insert_adjustment"}

\* Tables and handler data keep the types the code gives them; in particular a
\* ledger charge bills the realized savings of its request, never its cost.
TypeOK ==
    /\ ledger \subseteq Requests
    /\ rollups \in [Buckets -> SUBSET Requests]
    /\ status \in [Periods -> Statuses \cup {"absent"}]
    /\ summary \in [Periods -> SUBSET Requests]
    /\ charges \subseteq {Charge(row, p) : row \in Row, p \in Periods \cup {NoPeriod}}
    /\ call \in [Handlers -> [at : Steps, period : Periods \cup {NoPeriod}, want : Statuses,
                              snap : SUBSET Requests, rows : SUBSET Row, due : SUBSET Row]]

\* However materializations overlap, abort and are retried, a source row is
\* charged once, to one period (the unique index behind lines 744 and 824).
ChargedAtMostOnce ==
    \A c, d \in charges : c.source = d.source /\ c.ref = d.ref => c = d

\* A ledger charge is for a request that is in the ledger, and the period it
\* is attached to is one whose window the request falls in.
ChargesMatchLedger ==
    \A c \in charges : c.source = "ledger" =>
        /\ c.ref \in ledger
        /\ c.period # NoPeriod => c.ref \in Window[c.period]

\* The totals of a period are those of ledger rows of its tenant in its
\* window, and a period nobody created has none.
TotalsAreOfThePeriod ==
    \A p \in Periods :
        /\ \A r \in summary[p] :
               r \in ledger /\ r \in Window[p] /\ TenantOf[r] = PeriodTenant[p]
        /\ ~Exists(p) => summary[p] = {}

\* What a period is charged and what it shows both come from the ledger's rows
\* of its window, whatever the order of summaries, charges and late requests.
LedgerBacked == ChargesMatchLedger /\ TotalsAreOfThePeriod

\* The charges a period is reconciled against: corrections made after it was
\* closed are not among them.
UsageOf(p) == {c \in ChargesOf(p) : c.source # "manual"}

\* The usage charges of a closed period add up to its realized savings
\* (the reconciliation of lines 356-359).
BooksBalance ==
    \A p \in Periods :
        status[p] = "closed" => SumAmounts(UsageOf(p)) = SumSavings(summary[p])

\* A closed period is never reopened (line 354).
ClosedStaysClosed ==
    [][\A p \in Periods : status[p] = "closed" => status'[p] = "closed"]_vars

\* A call c that passed its check of p before p was closed, and may still write
\* the status, the totals or a usage charge of p.
Late(c, p) ==
    /\ c.period = p
    /\ \/ c.at \in {"aggregate", "store_totals", "fetch_ledger", "fetch_rollups",
                    "check_row", "insert_charge"}
       \/ c.at = "write_status" /\ c.want # "closed"

Sealed(p) == status[p] = "closed" /\ \A h \in Handlers : ~Late(call[h], p)

\* However calls overlap, a closed period is final once those that looked at it
\* before the close have ended: no call begun later, by any operator, reopens it,
\* stores totals in it or attaches usage to it (lines 305, 354, 728 and 791).
SealedIsFinal ==
    [][\A p \in Periods : Sealed(p) =>
          Sealed(p)' /\ summary'[p] = summary[p] /\ UsageOf(p)' = UsageOf(p)]_vars

\* The totals of a closed period are final: a summary of it returns the row
\* as it is (line 305).
ClosedTotalsFinal ==
    [][\A p \in Periods : status[p] = "closed" => summary'[p] = summary[p]]_vars

\* A usage charge is attached to a period only while the period is open
\* (lines 728 and 791).
AttachedOnlyWhileOpen ==
    [][\A c \in charges' \ charges :
          c.source # "manual" /\ c.period # NoPeriod => status[c.period] = "open"]_vars

\* Every call ends: no handler loops over its rows or waits for another one.
CallsEnd == \A h \in Handlers : ~At(h, "idle") ~> At(h, "idle")

-----------------------------------------------------------------------------
(* What the tables promise with one operator at a time *)

Book == INSTANCE BillingBook WITH
    Eligible <- [p \in Periods |-> {r \in Window[p] : TenantOf[r] = PeriodTenant[p]}],
    Total <- SumSavings,
    Billed <- SumAmounts,
    UsageRows <- {row \in Row : row.source # "manual"},
    AdjustmentRows <- {row \in Row : row.source = "manual"}

\* Every step of the handlers is a step of the book or leaves it alone.
ImplementsBook == Book!BookSpec
=============================================================================
