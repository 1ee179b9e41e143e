------------------------ MODULE BillingPeriodsProofs ------------------------
(***************************************************************************)
(* Theorems about BillingPeriods, for any sets of handlers, tenants,       *)
(* requests, periods, rollup rows and adjustments.  The sums stay opaque:  *)
(* no proof looks inside SumSavings, SumCost or SumAmounts.                *)
(***************************************************************************)
EXTENDS BillingOverlap, TLAPS

PeriodSteps == {"insert_period", "reconcile", "compare", "write_status", "aggregate",
                "store_totals", "refresh", "move_to_closing"}

\* A handler that writes or reads a period's row has a period to name.
PeriodNamed == \A h \in Handlers : call[h].at \in PeriodSteps => call[h].period \in Periods

TypeInv == TypeOK /\ PeriodNamed

CallType == [at : Steps, period : Periods \cup {NoPeriod}, want : Statuses,
             snap : SUBSET Requests, rows : SUBSET Row, due : SUBSET Row]

\* The call data of one handler is well typed and names a period when it must.
CallOK(c) == c \in CallType /\ (c.at \in PeriodSteps => c.period \in Periods)

LEMMA IdleOK == CallOK(Idle)
  BY DEF CallOK, CallType, Idle, Steps, Statuses, PeriodSteps

\* To change one handler's call to a good one keeps all calls good.
LEMMA CallUpdate ==
  ASSUME TypeInv, NEW h \in Handlers, NEW c, CallOK(c), call' = [call EXCEPT ![h] = c]
  PROVE  /\ call' \in [Handlers -> CallType]
         /\ PeriodNamed'
  BY DEF TypeInv, TypeOK, PeriodNamed, CallOK, CallType

\* The rows a handler fetches are rows of the type.
LEMMA RowsTyped ==
  /\ \A r \in Requests : LedgerRow(r) \in Row
  /\ \A a \in Adjustments : AdjustmentRow(a) \in Row
  /\ TypeOK => \A b \in Buckets : RollupRow(b) \in Row
  BY DEF Row, LedgerRow, RollupRow, TypeOK

LEMMA TypeInit == Init => TypeInv
<1> SUFFICES ASSUME Init PROVE TypeInv
  OBVIOUS
<1>1. \A h \in Handlers : CallOK(call[h])
  BY IdleOK DEF Init
<1>2. call \in [Handlers -> CallType] /\ PeriodNamed
  BY <1>1 DEF Init, CallOK, PeriodNamed
<1>3. QED
  BY <1>2 DEF Init, TypeInv, TypeOK, CallType

LEMMA TypeStep == TypeInv /\ [Next]_vars => TypeInv'
<1> SUFFICES ASSUME TypeInv, [Next]_vars PROVE TypeInv'
  OBVIOUS
<1> DEFINE CallsTyped == call' \in [Handlers -> CallType] /\ PeriodNamed'
           TablesTyped == /\ ledger' \subseteq Requests
                          /\ rollups' \in [Buckets -> SUBSET Requests]
                          /\ status' \in [Periods -> Statuses \cup {"absent"}]
                          /\ summary' \in [Periods -> SUBSET Requests]
                          /\ charges' \subseteq {Charge(row, p) : row \in Row, p \in Periods \cup {NoPeriod}}
<1>0. CallsTyped /\ TablesTyped => TypeInv'
  BY DEF TypeInv, TypeOK, CallType
<1>a. \A h \in Handlers : CallOK(call[h]) /\ call[h] \in CallType
  BY DEF TypeInv, TypeOK, PeriodNamed, CallOK, CallType
<1>g. status \in [Periods -> Statuses \cup {"absent"}]
  BY DEF TypeInv, TypeOK
<1>b. UNCHANGED tables => TablesTyped
  BY DEF tables, TypeInv, TypeOK
<1>c. ASSUME NEW h \in Handlers, NEW step \in Steps, Goto(h, step), call[h].period \in Periods
      PROVE  CallsTyped
  <2>1. CallOK([call[h] EXCEPT !.at = step])
    BY <1>a, <1>c DEF CallOK, CallType
  <2>2. call' = [call EXCEPT ![h] = [call[h] EXCEPT !.at = step]]
    BY <1>c DEF Goto
  <2>3. QED
    BY <2>1, <2>2, CallUpdate
<1>d. ASSUME NEW h \in Handlers, Return(h) PROVE CallsTyped
  BY <1>d, IdleOK, CallUpdate DEF Return
<1>e. ASSUME NEW h \in Handlers, NEW step \in Steps, NEW p \in Periods, Begin(h, step, p)
      PROVE  CallsTyped
  <2>1. CallOK([Idle EXCEPT !.at = step, !.period = p])
    BY <1>e, IdleOK DEF CallOK, CallType
  <2>2. QED
    BY <1>e, <2>1, CallUpdate DEF Begin
<1>f. ASSUME NEW h \in Handlers, NEW p \in Periods, NEW want \in Statuses, ReadCurrent(h, p, want)
      PROVE  CallsTyped /\ UNCHANGED tables
  <2> DEFINE step == IF want = "closed" THEN "reconcile" ELSE "write_status"
  <2>1. CallOK([Idle EXCEPT !.at = step, !.period = p, !.want = want])
    BY IdleOK DEF CallOK, CallType, Steps, PeriodSteps
  <2>2. QED
    BY <1>f, <2>1, CallUpdate, <1>d DEF ReadCurrent
<1>1. CASE \E r \in Requests : LogRequest(r)
  BY <1>1, <1>0 DEF LogRequest, TypeInv, TypeOK, PeriodNamed, CallType
<1>2. CASE RebuildRollups
  BY <1>2, <1>0 DEF RebuildRollups, TypeInv, TypeOK, PeriodNamed, CallType
<1>3. CASE UNCHANGED vars
  BY <1>3 DEF vars, TypeInv, TypeOK, PeriodNamed
<1>4. ASSUME NEW h \in Handlers, Start(h) PROVE TypeInv'
  <2>1. ASSUME NEW p \in Periods, CheckPeriod(h, p) PROVE TypeInv'
    BY <2>1, <1>0, <1>b, <1>e DEF CheckPeriod, Steps
  <2>2. ASSUME NEW p \in Periods, NEW want \in Statuses, SetStatus(h, p, want) PROVE TypeInv'
    BY <2>2, <1>0, <1>b, <1>f DEF SetStatus
  <2>3. ASSUME NEW p \in Periods, Summarize(h, p) PROVE TypeInv'
    BY <2>3, <1>0, <1>b, <1>e DEF Summarize, Steps
  <2>4. ASSUME NEW p \in Periods, NEW step \in {"fetch_ledger", "fetch_rollups"},
               MaterializeGuard(h, p, step)
        PROVE  TypeInv'
    BY <2>4, <1>0, <1>b, <1>e DEF MaterializeGuard, Steps
  <2>5. ASSUME NEW p \in Periods \cup {NoPeriod}, NEW a \in Adjustments, AdjustGuard(h, p, a)
        PROVE  TypeInv'
    <3>1. CallOK([Idle EXCEPT !.at = "insert_adjustment", !.period = p, !.due = {AdjustmentRow(a)}])
      BY RowsTyped, IdleOK DEF CallOK, CallType, Steps, PeriodSteps
    <3>2. CallsTyped
      BY <2>5, <3>1, CallUpdate DEF AdjustGuard
    <3>3. QED
      BY <2>5, <3>2, <1>0, <1>b DEF AdjustGuard
  <2>6. QED
    BY <1>4, <2>1, <2>2, <2>3, <2>4, <2>5 DEF Start
<1>5. ASSUME NEW h \in Handlers, Fetch(h) PROVE TypeInv'
  <2>1. ASSUME NEW t \in Tenants, NEW n \in Limits, FetchLedger(h, t, n) PROVE TypeInv'
    <3> DEFINE p == call[h].period
               R == Newest(IF p = NoPeriod THEN {r \in ledger : TenantOf[r] = t} ELSE InWindow(t, p), n)
    <3>1. R \subseteq Requests
      BY DEF Newest, InWindow, TypeInv, TypeOK
    <3>2. {LedgerRow(r) : r \in R} \in SUBSET Row
      BY <3>1, RowsTyped
    <3> HIDE DEF R
    <3>3. CallOK([call[h] EXCEPT !.at = "check_row", !.rows = {LedgerRow(r) : r \in R}])
      BY <1>a, <3>2 DEF CallOK, CallType, Steps, PeriodSteps
    <3>4. call' = [call EXCEPT ![h] = [call[h] EXCEPT !.at = "check_row", !.rows = {LedgerRow(r) : r \in R}]]
      BY <2>1 DEF FetchLedger, R
    <3>5. CallsTyped
      BY <3>3, <3>4, CallUpdate
    <3>6. UNCHANGED tables
      BY <2>1 DEF FetchLedger
    <3>7. QED
      BY <3>5, <3>6, <1>0, <1>b
  <2>2. ASSUME NEW t \in Tenants, NEW D \in DateFilters, FetchRollups(h, t, D) PROVE TypeInv'
    <3> DEFINE R == {RollupRow(b) : b \in {b \in D : BucketTenant[b] = t /\ rollups[b] # {}}}
    <3>1. D \subseteq Buckets
      BY DEF DateFilters
    <3>2. R \in SUBSET Row
      BY <3>1, RowsTyped DEF TypeInv
    <3> HIDE DEF R
    <3>3. CallOK([call[h] EXCEPT !.at = "check_row", !.rows = R])
      BY <1>a, <3>2 DEF CallOK, CallType, Steps, PeriodSteps
    <3>4. call' = [call EXCEPT ![h] = [call[h] EXCEPT !.at = "check_row", !.rows = R]]
      BY <2>2 DEF FetchRollups, R
    <3>5. CallsTyped
      BY <3>3, <3>4, CallUpdate
    <3>6. UNCHANGED tables
      BY <2>2 DEF FetchRollups
    <3>7. QED
      BY <3>5, <3>6, <1>0, <1>b
  <2>3. QED
    BY <1>5, <2>1, <2>2 DEF Fetch
<1>6. ASSUME NEW h \in Handlers, Step(h) PROVE TypeInv'
  <2> DEFINE c == call[h]
             p == c.period
  <2>1. CASE InsertPeriod(h)
    <3>1. status' = [status EXCEPT ![p] = "open"] /\ CallsTyped
      BY <2>1, <1>d DEF InsertPeriod
    <3>2. status' \in [Periods -> Statuses \cup {"absent"}]
      BY <3>1, <1>g DEF Statuses
    <3>3. QED
      BY <2>1, <3>1, <3>2, <1>0 DEF InsertPeriod, TypeInv, TypeOK
  <2>2. CASE ReconcileRead(h)
    <3>1. p \in Periods /\ summary[p] \subseteq Requests
      BY <2>2, <1>a DEF ReconcileRead, At, CallOK, PeriodSteps, TypeInv, TypeOK
    <3>2. CallOK([c EXCEPT !.at = "compare", !.snap = summary[p]])
      BY <1>a, <3>1 DEF CallOK, CallType, Steps
    <3>3. call' = [call EXCEPT ![h] = [c EXCEPT !.at = "compare", !.snap = summary[p]]]
      BY <2>2 DEF ReconcileRead
    <3>4. CallsTyped
      BY <3>2, <3>3, CallUpdate
    <3>5. UNCHANGED tables
      BY <2>2 DEF ReconcileRead
    <3>6. QED
      BY <3>4, <3>5, <1>0, <1>b
  <2>3. CASE ReconcileCompare(h)
    <3>1. p \in Periods
      BY <2>3, <1>a DEF ReconcileCompare, At, CallOK, PeriodSteps
    <3>2. QED
      BY <2>3, <3>1, <1>0, <1>b, <1>c, <1>d DEF ReconcileCompare, Steps
  <2>4. CASE WriteStatus(h)
    <3>1. status' = [status EXCEPT ![p] = c.want] /\ CallsTyped
      BY <2>4, <1>d DEF WriteStatus
    <3>2. c.want \in Statuses
      BY <1>a DEF CallType
    <3>3. status' \in [Periods -> Statuses \cup {"absent"}]
      BY <3>1, <3>2, <1>g
    <3>4. QED
      BY <2>4, <3>1, <3>3, <1>0 DEF WriteStatus, TypeInv, TypeOK
  <2>5. CASE Aggregate(h)
    <3>1. LoggedIn(p) \subseteq Requests /\ p \in Periods
      BY <2>5, <1>a DEF Aggregate, At, CallOK, PeriodSteps, LoggedIn, InWindow, TypeInv, TypeOK
    <3>2. CallOK([c EXCEPT !.at = "store_totals", !.snap = LoggedIn(p)])
      BY <1>a, <3>1 DEF CallOK, CallType, Steps
    <3>3. call' = [call EXCEPT ![h] = [c EXCEPT !.at = "store_totals", !.snap = LoggedIn(p)]]
      BY <2>5 DEF Aggregate
    <3>4. CallsTyped
      BY <3>2, <3>3, CallUpdate
    <3>5. UNCHANGED tables
      BY <2>5 DEF Aggregate
    <3>6. QED
      BY <3>4, <3>5, <1>0, <1>b
  <2>6. CASE StoreTotals(h)
    <3>1. p \in Periods /\ c.snap \subseteq Requests
      BY <2>6, <1>a DEF StoreTotals, At, CallOK, CallType, PeriodSteps
    <3>2. summary' \in [Periods -> SUBSET Requests]
      BY <2>6, <3>1 DEF StoreTotals, TypeInv, TypeOK
    <3>3. QED
      BY <2>6, <3>1, <3>2, <1>0, <1>c DEF StoreTotals, Steps, TypeInv, TypeOK
  <2>7. CASE Refresh(h)
    <3>1. p \in Periods
      BY <2>7, <1>a DEF Refresh, At, CallOK, PeriodSteps
    <3>2. QED
      BY <2>7, <3>1, <1>0, <1>b, <1>c, <1>d DEF Refresh, Steps
  <2>8. CASE MoveToClosing(h)
    <3>1. p \in Periods /\ "closing" \in Statuses
      BY <2>8, <1>a DEF MoveToClosing, At, CallOK, PeriodSteps, Statuses
    <3>2. QED
      BY <2>8, <3>1, <1>0, <1>b, <1>f DEF MoveToClosing
  <2>9. ASSUME NEW row \in c.rows, CheckRow(h, row) PROVE TypeInv'
    <3>1. CASE Taken(row)
      <4>1. CallOK([c EXCEPT !.rows = c.rows \ {row}])
        BY <1>a DEF CallOK, CallType
      <4>2. call' = [call EXCEPT ![h] = [c EXCEPT !.rows = c.rows \ {row}]]
        BY <2>9, <3>1 DEF CheckRow
      <4>3. CallsTyped
        BY <4>1, <4>2, CallUpdate
      <4>4. UNCHANGED tables
        BY <2>9 DEF CheckRow
      <4>5. QED
        BY <4>3, <4>4, <1>0, <1>b
    <3>2. CASE ~Taken(row)
      <4> DEFINE d == [c EXCEPT !.at = "insert_charge", !.rows = c.rows \ {row}, !.due = {row}]
      <4>1. CallOK(d)
        BY <1>a DEF CallOK, CallType, Steps, PeriodSteps
      <4>2. call' = [call EXCEPT ![h] = d]
        BY <2>9, <3>2 DEF CheckRow
      <4>3. CallsTyped
        BY <4>1, <4>2, CallUpdate
      <4>4. UNCHANGED tables
        BY <2>9 DEF CheckRow
      <4>5. QED
        BY <4>3, <4>4, <1>0, <1>b
    <3>3. QED
      BY <3>1, <3>2
  <2>10. ASSUME NEW row \in c.due, InsertCharge(h, row) PROVE TypeInv'
    <3>1. CASE Taken(row)
      BY <2>10, <3>1, <1>0, <1>b, <1>d DEF InsertCharge, tables
    <3>2. CASE ~Taken(row)
      <4>1. CallOK([c EXCEPT !.at = "check_row", !.due = {}])
        BY <1>a DEF CallOK, CallType, Steps, PeriodSteps
      <4>2. call' = [call EXCEPT ![h] = [c EXCEPT !.at = "check_row", !.due = {}]]
        BY <2>10, <3>2 DEF InsertCharge
      <4>3. charges' \subseteq {Charge(x, q) : x \in Row, q \in Periods \cup {NoPeriod}}
        BY <2>10, <3>2, <1>a DEF InsertCharge, CallType, TypeInv, TypeOK
      <4>4. CallsTyped
        BY <4>1, <4>2, CallUpdate
      <4>5. QED
        BY <2>10, <4>3, <4>4, <1>0 DEF InsertCharge, TypeInv, TypeOK
    <3>3. QED
      BY <3>1, <3>2
  <2>11. CASE Done(h)
    BY <2>11, <1>0, <1>b, <1>d DEF Done
  <2>12. ASSUME NEW row \in c.due, InsertAdjustment(h, row) PROVE TypeInv'
    <3>1. charges' \subseteq {Charge(x, q) : x \in Row, q \in Periods \cup {NoPeriod}}
      BY <2>12, <1>a DEF InsertAdjustment, CallType, TypeInv, TypeOK
    <3>2. QED
      BY <2>12, <3>1, <1>0, <1>d DEF InsertAdjustment, TypeInv, TypeOK
  <2>13. QED
    BY <1>6, <2>1, <2>2, <2>3, <2>4, <2>5, <2>6, <2>7, <2>8, <2>9, <2>10, <2>11, <2>12 DEF Step
<1>7. ASSUME NEW h \in Handlers, Abort(h) PROVE TypeInv'
  BY <1>7, <1>0, <1>b, <1>d DEF Abort
<1>8. QED
  BY <1>1, <1>2, <1>3, <1>4, <1>5, <1>6, <1>7 DEF Next

(* The tables and every handler's local data keep their types, whatever the
   admin calls do to each other (every method of the repository). *)
THEOREM TypeCorrect == Spec => []TypeOK
<1>1. Spec => []TypeInv
  BY TypeInit, TypeStep, PTL DEF Spec
<1>2. TypeInv => TypeOK
  BY DEF TypeInv
<1>3. QED
  BY <1>1, <1>2, PTL
-----------------------------------------------------------------------------
(* Every interleaving: what a handler has read and will still write *)

RowSteps == {"check_row", "insert_charge", "insert_adjustment"}

\* A ledger row about to be charged is in the ledger, and in the window of the
\* period it is about to be attached to.
InLedger(row, p) ==
    row.source = "ledger" => /\ row.ref \in ledger
                             /\ p # NoPeriod => row.ref \in Window[p]

\* What holds of the locals c of one handler: an idle one holds nothing, only
\* the row loops hold rows, a period that was read exists, the totals about to
\* be stored are of ledger rows of the period, the rows about to be charged
\* are in the ledger, and only create_manual_adjustment holds an adjustment.
Local(c) ==
    /\ c.at = "idle" => c = Idle
    /\ c.at \notin RowSteps => c.rows = {} /\ c.due = {}
    /\ c.at \in PeriodSteps \ {"insert_period"} => Exists(c.period)
    /\ c.at = "store_totals" => c.snap \subseteq LoggedIn(c.period)
    /\ \A row \in c.rows \cup c.due : InLedger(row, c.period)
    /\ \A row \in c.rows : row.source # "manual"
    /\ \A row \in c.due : row.source = "manual" <=> c.at = "insert_adjustment"

Locals == \A h \in Handlers : Local(call[h])

\* The id of an adjustment about to be inserted is fresh: it is not in the
\* table and no other handler holds it.
AdjustmentsFresh ==
    \A h \in Handlers : \A row \in call[h].due : row.source = "manual" =>
        /\ ~Taken(row)
        /\ \A g \in Handlers \ {h} : row \notin call[g].due

SharedInv == /\ TypeInv /\ Locals /\ AdjustmentsFresh
             /\ ChargedAtMostOnce /\ ChargesMatchLedger /\ TotalsAreOfThePeriod

\* The ledger only grows and no period is deleted.
TablesGrow == ledger \subseteq ledger' /\ \A p \in Periods : Exists(p) => Exists(p)'

LEMMA LocalGrows ==
  ASSUME TablesGrow, NEW c, Local(c) PROVE Local(c)'
  BY DEF TablesGrow, Local, InLedger, LoggedIn, InWindow, Exists

LEMMA LocalIdle == Local(Idle) /\ Local(Idle)'
  BY DEF Local, Idle, RowSteps, PeriodSteps

LEMMA LocalUpdate ==
  ASSUME TypeInv, Locals, TablesGrow, NEW h \in Handlers, NEW c, Local(c)',
         call' = [call EXCEPT ![h] = c]
  PROVE  Locals'
<1> SUFFICES ASSUME NEW g \in Handlers PROVE Local(call[g])'
  BY DEF Locals
<1>1. CASE g = h
  <2>1. call'[g] = c
    BY <1>1 DEF TypeInv, TypeOK
  <2>2. QED
    BY <2>1
<1>2. CASE g # h
  <2>1. call'[g] = call[g]
    BY <1>2 DEF TypeInv, TypeOK
  <2>2. Local(call[g])
    BY DEF Locals
  <2>3. QED
    BY <2>1, <2>2, LocalGrows
<1>3. QED
  BY <1>1, <1>2

LEMMA Grows == TypeInv /\ [Next]_vars => TablesGrow
<1> SUFFICES ASSUME TypeInv, [Next]_vars PROVE TablesGrow
  OBVIOUS
<1>1. UNCHANGED <<ledger, status>> => TablesGrow
  BY DEF TablesGrow, Exists
<1>2. CASE \E r \in Requests : LogRequest(r)
  BY <1>2 DEF LogRequest, TablesGrow, Exists
<1>3. ASSUME NEW h \in Handlers, WriteStatus(h) PROVE TablesGrow
  <2>1. call[h].want \in Statuses /\ status \in [Periods -> Statuses \cup {"absent"}]
    BY DEF TypeInv, TypeOK
  <2>2. status' = [status EXCEPT ![call[h].period] = call[h].want] /\ ledger' = ledger
    BY <1>3 DEF WriteStatus
  <2>3. QED
    BY <2>1, <2>2 DEF TablesGrow, Exists, Statuses
<1>4. ASSUME NEW h \in Handlers, InsertPeriod(h) PROVE TablesGrow
  <2>1. status \in [Periods -> Statuses \cup {"absent"}]
    BY DEF TypeInv, TypeOK
  <2>2. status' = [status EXCEPT ![call[h].period] = "open"] /\ ledger' = ledger
    BY <1>4 DEF InsertPeriod
  <2>3. QED
    BY <2>1, <2>2 DEF TablesGrow, Exists
<1>5. ASSUME NEW h \in Handlers, Start(h) PROVE UNCHANGED tables
  BY <1>5 DEF Start, CheckPeriod, SetStatus, ReadCurrent, Summarize, MaterializeGuard, AdjustGuard
<1>6. ASSUME NEW h \in Handlers, Fetch(h) PROVE UNCHANGED tables
  BY <1>6 DEF Fetch, FetchLedger, FetchRollups
<1>7. ASSUME NEW h \in Handlers, Step(h), ~InsertPeriod(h), ~WriteStatus(h)
      PROVE  UNCHANGED <<ledger, status>>
  BY <1>7 DEF Step, ReconcileRead, ReconcileCompare, Aggregate, StoreTotals, Refresh, MoveToClosing,
              ReadCurrent, CheckRow, InsertCharge, Done, InsertAdjustment, tables
<1>8. QED
  BY <1>1, <1>2, <1>3, <1>4, <1>5, <1>6, <1>7 DEF Next, RebuildRollups, Abort, tables, vars

LEMMA LocalsStep == SharedInv /\ [Next]_vars => Locals'
<1> SUFFICES ASSUME SharedInv, [Next]_vars PROVE Locals'
  OBVIOUS
<1>a. TypeInv /\ Locals /\ TablesGrow
  BY Grows DEF SharedInv
<1>c. ASSUME NEW h \in Handlers, Return(h) PROVE Locals'
  BY <1>c, <1>a, LocalIdle, LocalUpdate DEF Return
<1>d. ASSUME NEW h \in Handlers, NEW p \in Periods, NEW step, Begin(h, step, p),
             step \in {"insert_period", "aggregate", "fetch_ledger", "fetch_rollups"},
             step = "aggregate" => Exists(p)
      PROVE  Locals'
  <2> DEFINE c == [Idle EXCEPT !.at = step, !.period = p]
  <2>1. Local(c)'
    BY <1>d, <1>a DEF Local, Idle, RowSteps, PeriodSteps, TablesGrow
  <2>2. QED
    BY <1>d, <1>a, <2>1, LocalUpdate DEF Begin
<1>e. ASSUME NEW h \in Handlers, NEW p \in Periods, NEW want \in Statuses, ReadCurrent(h, p, want)
      PROVE  Locals'
  <2> DEFINE c == [Idle EXCEPT !.at = IF want = "closed" THEN "reconcile" ELSE "write_status",
                               !.period = p, !.want = want]
  <2>1. Local(c)'
    BY <1>e, <1>a DEF ReadCurrent, Local, Idle, RowSteps, PeriodSteps, TablesGrow
  <2>2. Return(h) \/ call' = [call EXCEPT ![h] = c]
    BY <1>e DEF ReadCurrent
  <2>3. QED
    BY <1>a, <1>c, <2>1, <2>2, LocalUpdate
<1>f. ASSUME NEW h \in Handlers, NEW step, Goto(h, step), call[h].at \in PeriodSteps \ {"insert_period"},
             step \in {"write_status", "refresh", "move_to_closing"}
      PROVE  Locals'
  <2>1. PICK c : c = [call[h] EXCEPT !.at = step]
    OBVIOUS
  <2>2. call[h] \in CallType /\ Local(call[h]) /\ call' = [call EXCEPT ![h] = c]
    BY <1>a, <1>f, <2>1 DEF TypeInv, TypeOK, CallType, Locals, Goto
  <2>3. c.at = step /\ c.period = call[h].period /\ c.rows = call[h].rows /\ c.due = call[h].due
    BY <2>1, <2>2 DEF CallType
  <2>4. Exists(c.period)' /\ c.rows = {} /\ c.due = {}
    BY <1>f, <1>a, <2>2, <2>3 DEF Local, PeriodSteps, RowSteps, TablesGrow, Exists
  <2>5. Local(c)'
    BY <1>f, <2>3, <2>4 DEF Local, PeriodSteps, RowSteps
  <2>6. QED
    BY <1>a, <2>2, <2>5, LocalUpdate
<1>1. CASE (\E r \in Requests : LogRequest(r)) \/ RebuildRollups \/ UNCHANGED vars
  <2>1. call' = call
    BY <1>1 DEF LogRequest, RebuildRollups, vars
  <2>2. QED
    BY <1>a, <2>1, LocalGrows DEF Locals
<1>2. ASSUME NEW h \in Handlers, Start(h) PROVE Locals'
  <2>1. ASSUME NEW p \in Periods, CheckPeriod(h, p) PROVE Locals'
    BY <2>1, <1>d DEF CheckPeriod
  <2>2. ASSUME NEW p \in Periods, NEW want \in Statuses, SetStatus(h, p, want) PROVE Locals'
    BY <2>2, <1>e DEF SetStatus
  <2>3. ASSUME NEW p \in Periods, Summarize(h, p) PROVE Locals'
    BY <2>3, <1>d DEF Summarize
  <2>4. ASSUME NEW p \in Periods, NEW step \in {"fetch_ledger", "fetch_rollups"},
               MaterializeGuard(h, p, step)
        PROVE  Locals'
    BY <2>4, <1>d DEF MaterializeGuard
  <2>5. ASSUME NEW p \in Periods \cup {NoPeriod}, NEW a \in Adjustments, AdjustGuard(h, p, a)
        PROVE  Locals'
    <3> DEFINE c == [Idle EXCEPT !.at = "insert_adjustment", !.period = p, !.due = {AdjustmentRow(a)}]
    <3>1. Local(c)'
      BY DEF Local, Idle, RowSteps, PeriodSteps, AdjustmentRow, InLedger
    <3>2. call' = [call EXCEPT ![h] = c]
      BY <2>5 DEF AdjustGuard
    <3>3. QED
      BY <1>a, <3>1, <3>2, LocalUpdate
  <2>6. QED
    BY <1>2, <2>1, <2>2, <2>3, <2>4, <2>5 DEF Start
<1>3. ASSUME NEW h \in Handlers, Fetch(h) PROVE Locals'
  <2>a. Local(call[h]) /\ call[h] \in CallType
    BY <1>a DEF Locals, TypeInv, TypeOK, CallType
  <2>1. ASSUME NEW t \in Tenants, NEW n \in Limits, FetchLedger(h, t, n) PROVE Locals'
    <3> DEFINE p == call[h].period
               R == Newest(IF p = NoPeriod THEN {r \in ledger : TenantOf[r] = t} ELSE InWindow(t, p), n)
    <3>1. \A r \in R : r \in ledger /\ (p # NoPeriod => r \in Window[p])
      BY DEF Newest, InWindow
    <3>2. call[h].due = {} /\ ledger' = ledger
      BY <2>1, <2>a DEF FetchLedger, ReadyToFetch, At, Local, RowSteps, tables
    <3>3. PICK c : c = [call[h] EXCEPT !.at = "check_row", !.rows = {LedgerRow(r) : r \in R}]
      OBVIOUS
    <3>4. call' = [call EXCEPT ![h] = c]
      BY <2>1, <3>3 DEF FetchLedger
    <3> HIDE DEF R
    <3>5. c.at = "check_row" /\ c.period = p /\ c.due = {} /\ c.rows = {LedgerRow(r) : r \in R}
      BY <2>a, <3>2, <3>3 DEF CallType
    <3>6. Local(c)'
      BY <3>1, <3>2, <3>5 DEF Local, LedgerRow, InLedger, RowSteps, PeriodSteps
    <3>7. QED
      BY <1>a, <3>4, <3>6, LocalUpdate
  <2>2. ASSUME NEW t \in Tenants, NEW D \in DateFilters, FetchRollups(h, t, D) PROVE Locals'
    <3> DEFINE R == {b \in D : BucketTenant[b] = t /\ rollups[b] # {}}
    <3>1. call[h].due = {}
      BY <2>2, <2>a DEF FetchRollups, ReadyToFetch, At, Local, RowSteps
    <3>2. PICK c : c = [call[h] EXCEPT !.at = "check_row", !.rows = {RollupRow(b) : b \in R}]
      OBVIOUS
    <3>3. call' = [call EXCEPT ![h] = c]
      BY <2>2, <3>2 DEF FetchRollups
    <3> HIDE DEF R
    <3>4. c.at = "check_row" /\ c.due = {} /\ \A row \in c.rows : row.source = "rollups"
      BY <2>a, <3>1, <3>2 DEF CallType, RollupRow
    <3>5. Local(c)'
      BY <3>4 DEF Local, InLedger, RowSteps, PeriodSteps
    <3>6. QED
      BY <1>a, <3>3, <3>5, LocalUpdate
  <2>3. QED
    BY <1>3, <2>1, <2>2 DEF Fetch
<1>4. ASSUME NEW h \in Handlers, Step(h) PROVE Locals'
  <2>a. Local(call[h]) /\ call[h] \in CallType
    BY <1>a DEF Locals, TypeInv, TypeOK, CallType
  <2>1. CASE InsertPeriod(h) \/ WriteStatus(h) \/ Done(h)
    BY <2>1, <1>c DEF InsertPeriod, WriteStatus, Done
  <2>2. CASE ReconcileRead(h)
    <3>1. PICK c : c = [call[h] EXCEPT !.at = "compare", !.snap = summary[call[h].period]]
      OBVIOUS
    <3>2. call' = [call EXCEPT ![h] = c] /\ call[h].at = "reconcile"
      BY <2>2, <3>1 DEF ReconcileRead, At
    <3>3. c.at = "compare" /\ c.period = call[h].period /\ c.rows = call[h].rows /\ c.due = call[h].due
      BY <2>a, <3>1 DEF CallType
    <3>4. Local(c)'
      BY <2>a, <3>2, <3>3, <1>a DEF Local, RowSteps, PeriodSteps, TablesGrow, Exists
    <3>5. QED
      BY <1>a, <3>2, <3>4, LocalUpdate
  <2>3. CASE ReconcileCompare(h)
    BY <2>3, <1>c, <1>f DEF ReconcileCompare, At, PeriodSteps
  <2>4. CASE Aggregate(h)
    <3>1. PICK c : c = [call[h] EXCEPT !.at = "store_totals", !.snap = LoggedIn(call[h].period)]
      OBVIOUS
    <3>2. call' = [call EXCEPT ![h] = c] /\ call[h].at = "aggregate" /\ ledger' = ledger
      BY <2>4, <3>1 DEF Aggregate, At, tables
    <3>3. /\ c.at = "store_totals" /\ c.snap = LoggedIn(call[h].period)
          /\ c.period = call[h].period /\ c.rows = call[h].rows /\ c.due = call[h].due
      BY <2>a, <3>1 DEF CallType
    <3>4. c.snap \subseteq LoggedIn(c.period)'
      BY <3>2, <3>3 DEF LoggedIn, InWindow
    <3>5. Local(c)'
      BY <2>a, <3>2, <3>3, <3>4, <1>a DEF Local, RowSteps, PeriodSteps, TablesGrow, Exists
    <3>6. QED
      BY <1>a, <3>2, <3>5, LocalUpdate
  <2>5. CASE StoreTotals(h)
    BY <2>5, <1>f DEF StoreTotals, At, PeriodSteps
  <2>6. CASE Refresh(h)
    BY <2>6, <1>c, <1>f DEF Refresh, At, PeriodSteps
  <2>7. CASE MoveToClosing(h)
    <3>1. call[h].period \in Periods
      BY <2>7, <2>a DEF MoveToClosing, At, Local, PeriodSteps, Exists
    <3>2. QED
      BY <2>7, <3>1, <1>e DEF MoveToClosing, Statuses
  <2>8. ASSUME NEW row \in call[h].rows, CheckRow(h, row) PROVE Locals'
    <3>1. PICK d : d = [call[h] EXCEPT !.rows = call[h].rows \ {row}]
      OBVIOUS
    <3>2. PICK e : e = [call[h] EXCEPT !.at = "insert_charge", !.rows = call[h].rows \ {row},
                                       !.due = {row}]
      OBVIOUS
    <3>3. call[h].at = "check_row" /\ (call' = [call EXCEPT ![h] = d] \/ call' = [call EXCEPT ![h] = e])
      BY <2>8, <3>1, <3>2 DEF CheckRow, At
    <3>4. /\ d.at = "check_row" /\ d.due = call[h].due /\ d.rows \subseteq call[h].rows
          /\ e.at = "insert_charge" /\ e.due = {row} /\ e.rows \subseteq call[h].rows
          /\ d.period = call[h].period /\ e.period = call[h].period
      BY <2>a, <3>1, <3>2, <3>3 DEF CallType
    <3>5. Local(d)' /\ Local(e)'
      BY <2>a, <3>3, <3>4, <1>a DEF Local, InLedger, RowSteps, PeriodSteps, TablesGrow
    <3>6. QED
      BY <1>a, <3>3, <3>5, LocalUpdate
  <2>9. ASSUME NEW row \in call[h].due, InsertCharge(h, row) PROVE Locals'
    <3>1. PICK c : c = [call[h] EXCEPT !.at = "check_row", !.due = {}]
      OBVIOUS
    <3>2. At(h, "insert_charge") /\ (Return(h) \/ call' = [call EXCEPT ![h] = c])
      BY <2>9, <3>1 DEF InsertCharge
    <3>3. c.at = "check_row" /\ c.due = {} /\ c.rows = call[h].rows /\ c.period = call[h].period
      BY <2>a, <3>1 DEF CallType
    <3>4. Local(c)'
      BY <2>a, <3>3, <1>a DEF Local, InLedger, RowSteps, PeriodSteps, TablesGrow
    <3>5. QED
      BY <1>a, <1>c, <3>2, <3>4, LocalUpdate
  <2>10. ASSUME NEW row \in call[h].due, InsertAdjustment(h, row) PROVE Locals'
    BY <2>10, <1>c DEF InsertAdjustment
  <2>11. QED
    BY <1>4, <2>1, <2>2, <2>3, <2>4, <2>5, <2>6, <2>7, <2>8, <2>9, <2>10 DEF Step
<1>5. ASSUME NEW h \in Handlers, Abort(h) PROVE Locals'
  BY <1>5, <1>c DEF Abort
<1>6. QED
  BY <1>1, <1>2, <1>3, <1>4, <1>5 DEF Next

\* An adjustment's row is known by its ref.
LEMMA SameAdjustment ==
  ASSUME NEW r \in Row, NEW s \in Row, r.source = "manual", s.source = "manual", r.ref = s.ref
  PROVE  r = s
  BY DEF Row, LedgerRow, AdjustmentRow

\* The only statements that insert charges insert one row nobody has charged.
LEMMA ChargeStep ==
  ASSUME SharedInv, [Next]_vars, charges' # charges
  PROVE  \E h \in Handlers : \E row \in call[h].due :
            /\ InsertCharge(h, row) \/ InsertAdjustment(h, row)
            /\ ~Taken(row)
            /\ charges' = charges \cup {Charge(row, call[h].period)}
<1>1. PICK h \in Handlers : \E row \in call[h].due : InsertCharge(h, row) \/ InsertAdjustment(h, row)
  <2>1. ASSUME NEW h \in Handlers, Start(h) PROVE charges' = charges
    BY <2>1 DEF Start, CheckPeriod, SetStatus, ReadCurrent, Summarize, MaterializeGuard, AdjustGuard, tables
  <2>2. ASSUME NEW h \in Handlers, Fetch(h) PROVE charges' = charges
    BY <2>2 DEF Fetch, FetchLedger, FetchRollups, tables
  <2>3. ASSUME NEW h \in Handlers, Step(h)
        PROVE  charges' = charges
               \/ \E row \in call[h].due : InsertCharge(h, row) \/ InsertAdjustment(h, row)
    BY <2>3 DEF Step, InsertPeriod, ReconcileRead, ReconcileCompare, WriteStatus, Aggregate,
                StoreTotals, Refresh, MoveToClosing, ReadCurrent, CheckRow, Done, tables
  <2>4. QED
    BY <2>1, <2>2, <2>3 DEF Next, LogRequest, RebuildRollups, Abort, tables, vars
<1>2. PICK row \in call[h].due : InsertCharge(h, row) \/ InsertAdjustment(h, row)
  BY <1>1
<1>3. InsertAdjustment(h, row) => ~Taken(row)
  <2>1. InsertAdjustment(h, row) => row.source = "manual"
    BY DEF InsertAdjustment, At, SharedInv, Locals, Local
  <2>2. QED
    BY <2>1 DEF SharedInv, AdjustmentsFresh
<1>4. InsertCharge(h, row) => ~Taken(row)
  BY DEF InsertCharge
<1>5. charges' = charges \cup {Charge(row, call[h].period)}
  BY <1>2, <1>4 DEF InsertCharge, InsertAdjustment
<1>6. QED
  BY <1>2, <1>3, <1>4, <1>5

LEMMA ChargedOnceStep == SharedInv /\ [Next]_vars => ChargedAtMostOnce'
<1> SUFFICES ASSUME SharedInv, [Next]_vars PROVE ChargedAtMostOnce'
  OBVIOUS
<1>1. CASE charges' = charges
  BY <1>1 DEF SharedInv, ChargedAtMostOnce
<1>2. CASE charges' # charges
  <2>1. PICK h \in Handlers : \E row \in call[h].due :
            ~Taken(row) /\ charges' = charges \cup {Charge(row, call[h].period)}
    BY <1>2, ChargeStep
  <2>2. PICK row \in call[h].due :
            ~Taken(row) /\ charges' = charges \cup {Charge(row, call[h].period)}
    BY <2>1
  <2>3. QED
    BY <2>2 DEF SharedInv, ChargedAtMostOnce, Taken, Charge
<1>3. QED
  BY <1>1, <1>2

LEMMA ChargesMatchStep == SharedInv /\ [Next]_vars => ChargesMatchLedger'
<1> SUFFICES ASSUME SharedInv, [Next]_vars PROVE ChargesMatchLedger'
  OBVIOUS
<1>1. ledger \subseteq ledger'
  BY Grows DEF SharedInv, TablesGrow
<1>2. CASE charges' = charges
  BY <1>1, <1>2 DEF SharedInv, ChargesMatchLedger
<1>3. CASE charges' # charges
  <2>1. PICK h \in Handlers : \E row \in call[h].due :
            charges' = charges \cup {Charge(row, call[h].period)}
    BY <1>3, ChargeStep
  <2>2. PICK row \in call[h].due : charges' = charges \cup {Charge(row, call[h].period)}
    BY <2>1
  <2>3. InLedger(row, call[h].period)
    BY DEF SharedInv, Locals, Local
  <2>4. QED
    BY <1>1, <2>2, <2>3 DEF SharedInv, ChargesMatchLedger, InLedger, Charge
<1>4. QED
  BY <1>2, <1>3

LEMMA TotalsStep == SharedInv /\ [Next]_vars => TotalsAreOfThePeriod'
<1> SUFFICES ASSUME SharedInv, [Next]_vars, NEW q \in Periods
             PROVE  summary'[q] \subseteq LoggedIn(q)' /\ (~Exists(q)' => summary'[q] = {})
  BY DEF TotalsAreOfThePeriod, LoggedIn, InWindow
<1>1. LoggedIn(q) \subseteq LoggedIn(q)' /\ (Exists(q) => Exists(q)')
  BY Grows DEF SharedInv, TablesGrow, LoggedIn, InWindow
<1>2. summary[q] \subseteq LoggedIn(q) /\ (~Exists(q) => summary[q] = {})
  BY DEF SharedInv, TotalsAreOfThePeriod, LoggedIn, InWindow
<1>3. CASE summary' = summary
  BY <1>1, <1>2, <1>3
<1>4. ASSUME NEW h \in Handlers, StoreTotals(h)
      PROVE  summary'[q] \subseteq LoggedIn(q)' /\ (~Exists(q)' => summary'[q] = {})
  <2>1. call[h].snap \subseteq LoggedIn(call[h].period) /\ Exists(call[h].period)
    BY <1>4 DEF StoreTotals, At, SharedInv, Locals, Local, PeriodSteps
  <2>2. summary' = [summary EXCEPT ![call[h].period] = call[h].snap]
    BY <1>4 DEF StoreTotals
  <2>3. summary \in [Periods -> SUBSET Requests]
    BY DEF SharedInv, TypeInv, TypeOK
  <2>4. QED
    BY <1>1, <1>2, <2>1, <2>2, <2>3
<1>5. summary' = summary \/ \E h \in Handlers : StoreTotals(h)
  <2>1. ASSUME NEW h \in Handlers, Start(h) PROVE summary' = summary
    BY <2>1 DEF Start, CheckPeriod, SetStatus, ReadCurrent, Summarize, MaterializeGuard, AdjustGuard, tables
  <2>2. ASSUME NEW h \in Handlers, Fetch(h) PROVE summary' = summary
    BY <2>2 DEF Fetch, FetchLedger, FetchRollups, tables
  <2>3. ASSUME NEW h \in Handlers, Step(h) PROVE summary' = summary \/ StoreTotals(h)
    BY <2>3 DEF Step, InsertPeriod, ReconcileRead, ReconcileCompare, WriteStatus, Aggregate, Refresh,
                MoveToClosing, ReadCurrent, CheckRow, InsertCharge, Done, InsertAdjustment, tables
  <2>4. QED
    BY <2>1, <2>2, <2>3 DEF Next, LogRequest, RebuildRollups, Abort, tables, vars
<1>6. QED
  BY <1>3, <1>4, <1>5

\* Handlers that gain no adjustment, while no adjustment is inserted, keep
\* theirs fresh.
LEMMA FreshKept ==
  ASSUME AdjustmentsFresh,
         \A g \in Handlers : \A row \in call'[g].due : row.source = "manual" => row \in call[g].due,
         \A c \in charges' \ charges : c.source # "manual"
  PROVE  AdjustmentsFresh'
  BY DEF AdjustmentsFresh, Taken

LEMMA FreshStep == SharedInv /\ [Next]_vars => AdjustmentsFresh'
<1> SUFFICES ASSUME SharedInv, [Next]_vars PROVE AdjustmentsFresh'
  OBVIOUS
<1>a. /\ TypeInv /\ Locals /\ AdjustmentsFresh
      /\ call \in [Handlers -> CallType]
  BY DEF SharedInv, TypeInv, TypeOK, CallType
<1>b. ASSUME call' = call, charges' = charges PROVE AdjustmentsFresh'
  BY <1>a, <1>b, FreshKept
<1>c. ASSUME NEW h \in Handlers, NEW c, call' = [call EXCEPT ![h] = c],
             \A row \in c.due : row.source = "manual" => row \in call[h].due,
             \A d \in charges' \ charges : d.source # "manual"
      PROVE  AdjustmentsFresh'
  <2>1. \A g \in Handlers : \A row \in call'[g].due : row.source = "manual" => row \in call[g].due
    BY <1>a, <1>c
  <2>2. QED
    BY <1>a, <1>c, <2>1, FreshKept
<1>d. ASSUME NEW h \in Handlers, Return(h), \A d \in charges' \ charges : d.source # "manual"
      PROVE  AdjustmentsFresh'
  <2>1. call' = [call EXCEPT ![h] = Idle] /\ Idle.due = {}
    BY <1>d DEF Return, Idle
  <2>2. QED
    BY <2>1, <1>c, <1>d
<1>e. ASSUME NEW h \in Handlers, NEW p, NEW want, ReadCurrent(h, p, want) PROVE AdjustmentsFresh'
  <2>1. UNCHANGED charges
    BY <1>e DEF ReadCurrent, tables
  <2>2. CASE Return(h)
    BY <2>1, <2>2, <1>d
  <2>3. CASE ~Return(h)
    <3> DEFINE c == [Idle EXCEPT !.at = IF want = "closed" THEN "reconcile" ELSE "write_status",
                                 !.period = p, !.want = want]
    <3>1. call' = [call EXCEPT ![h] = c] /\ c.due = {}
      BY <1>e, <2>3 DEF ReadCurrent, Idle
    <3>2. QED
      BY <2>1, <3>1, <1>c
  <2>4. QED
    BY <2>2, <2>3
<1>1. CASE (\E r \in Requests : LogRequest(r)) \/ RebuildRollups \/ UNCHANGED vars
  BY <1>1, <1>b DEF LogRequest, RebuildRollups, vars
<1>2. ASSUME NEW h \in Handlers, Start(h) PROVE AdjustmentsFresh'
  <2>1. ASSUME NEW p \in Periods, NEW step, Begin(h, step, p), UNCHANGED tables PROVE AdjustmentsFresh'
    <3>1. PICK c : c = [Idle EXCEPT !.at = step, !.period = p]
      OBVIOUS
    <3>2. call' = [call EXCEPT ![h] = c] /\ c.due = {} /\ charges' = charges
      BY <2>1, <3>1 DEF Begin, Idle, tables
    <3>3. QED
      BY <3>2, <1>c
  <2>2. ASSUME NEW p \in Periods \cup {NoPeriod}, NEW a \in Adjustments, AdjustGuard(h, p, a)
        PROVE  AdjustmentsFresh'
    <3>1. PICK c : c = [Idle EXCEPT !.at = "insert_adjustment", !.period = p, !.due = {AdjustmentRow(a)}]
      OBVIOUS
    <3>2. call' = [call EXCEPT ![h] = c] /\ c.due = {AdjustmentRow(a)} /\ charges' = charges
      BY <2>2, <3>1 DEF AdjustGuard, Idle, tables
    <3>3. ~Taken(AdjustmentRow(a)) /\ \A g \in Handlers : AdjustmentRow(a) \notin call[g].due
      BY <2>2 DEF AdjustGuard, FreshAdjustment
    <3>4. call'[h].due = {AdjustmentRow(a)} /\ \A g \in Handlers \ {h} : call'[g] = call[g]
      BY <1>a, <3>2
    <3>5. \A row : Taken(row)' = Taken(row)
      BY <3>2 DEF Taken
    <3>6. QED
      BY <1>a, <3>3, <3>4, <3>5 DEF AdjustmentsFresh
  <2>3. QED
    BY <1>2, <1>e, <2>1, <2>2
       DEF Start, CheckPeriod, SetStatus, Summarize, MaterializeGuard
<1>3. ASSUME NEW h \in Handlers, Fetch(h) PROVE AdjustmentsFresh'
  <2>1. charges' = charges
    BY <1>3 DEF Fetch, FetchLedger, FetchRollups, tables
  <2>2. PICK R : call' = [call EXCEPT ![h] = [call[h] EXCEPT !.at = "check_row", !.rows = R]]
    BY <1>3 DEF Fetch, FetchLedger, FetchRollups
  <2>3. PICK c : c = [call[h] EXCEPT !.at = "check_row", !.rows = R]
    OBVIOUS
  <2>4. c.due = call[h].due
    BY <1>a, <2>3 DEF CallType
  <2>5. QED
    BY <2>1, <2>2, <2>3, <2>4, <1>c
<1>4. ASSUME NEW h \in Handlers, Step(h) PROVE AdjustmentsFresh'
  <2>a. Local(call[h]) /\ call[h] \in CallType
    BY <1>a DEF Locals
  <2>1. CASE InsertPeriod(h) \/ WriteStatus(h) \/ Done(h)
    BY <2>1, <1>d DEF InsertPeriod, WriteStatus, Done, tables
  <2>2. ASSUME NEW step, Goto(h, step), charges' = charges PROVE AdjustmentsFresh'
    <3>1. PICK c : c = [call[h] EXCEPT !.at = step]
      OBVIOUS
    <3>2. call' = [call EXCEPT ![h] = c] /\ c.due = call[h].due
      BY <2>2, <2>a, <3>1 DEF Goto, CallType
    <3>3. QED
      BY <2>2, <3>2, <1>c
  <2>3. CASE ReconcileRead(h) \/ Aggregate(h)
    <3>1. PICK step, S : call' = [call EXCEPT ![h] = [call[h] EXCEPT !.at = step, !.snap = S]]
      <4>1. CASE ReconcileRead(h)
        BY <4>1 DEF ReconcileRead
      <4>2. CASE Aggregate(h)
        BY <4>2 DEF Aggregate
      <4>3. QED
        BY <2>3, <4>1, <4>2
    <3>2. PICK c : c = [call[h] EXCEPT !.at = step, !.snap = S]
      OBVIOUS
    <3>3. c.due = call[h].due /\ charges' = charges
      BY <2>3, <2>a, <3>2 DEF CallType, ReconcileRead, Aggregate, tables
    <3>4. QED
      BY <3>1, <3>2, <3>3, <1>c
  <2>4. CASE ReconcileCompare(h) \/ StoreTotals(h) \/ Refresh(h)
    BY <2>4, <2>2, <1>d DEF ReconcileCompare, StoreTotals, Refresh, tables
  <2>5. CASE MoveToClosing(h)
    BY <2>5, <1>e DEF MoveToClosing
  <2>6. ASSUME NEW row \in call[h].rows, CheckRow(h, row) PROVE AdjustmentsFresh'
    <3>1. PICK c : call' = [call EXCEPT ![h] = c] /\ c.due \subseteq call[h].due \cup {row}
      <4>1. CASE Taken(row)
        <5>1. PICK d : d = [call[h] EXCEPT !.rows = call[h].rows \ {row}]
          OBVIOUS
        <5>2. call' = [call EXCEPT ![h] = d] /\ d.due = call[h].due
          BY <2>6, <2>a, <4>1, <5>1 DEF CheckRow, CallType
        <5>3. QED
          BY <5>2
      <4>2. CASE ~Taken(row)
        <5>1. PICK d : d = [call[h] EXCEPT !.at = "insert_charge", !.rows = call[h].rows \ {row},
                                           !.due = {row}]
          OBVIOUS
        <5>2. call' = [call EXCEPT ![h] = d] /\ d.due = {row}
          BY <2>6, <2>a, <4>2, <5>1 DEF CheckRow, CallType
        <5>3. QED
          BY <5>2
      <4>3. QED
        BY <4>1, <4>2
    <3>2. row.source # "manual" /\ charges' = charges
      BY <2>6, <2>a DEF Local, CheckRow, tables
    <3>3. \A r \in c.due : r.source = "manual" => r \in call[h].due
      BY <3>1, <3>2
    <3>4. \A d \in charges' \ charges : d.source # "manual"
      BY <3>2
    <3>5. call' = [call EXCEPT ![h] = c]
      BY <3>1
    <3>6. QED
      BY <3>3, <3>4, <3>5, <1>c
  <2>7. ASSUME NEW row \in call[h].due, InsertCharge(h, row) PROVE AdjustmentsFresh'
    <3>1. row.source # "manual"
      BY <2>7, <2>a DEF InsertCharge, At, Local
    <3>2. \A d \in charges' \ charges : d.source # "manual"
      BY <2>7, <3>1 DEF InsertCharge, Charge
    <3>3. PICK c : c = [call[h] EXCEPT !.at = "check_row", !.due = {}]
      OBVIOUS
    <3>4. c.due = {} /\ (Return(h) \/ call' = [call EXCEPT ![h] = c])
      BY <2>7, <2>a, <3>3 DEF InsertCharge, CallType
    <3>5. QED
      BY <3>2, <3>4, <1>c, <1>d
  <2>8. ASSUME NEW row \in call[h].due, InsertAdjustment(h, row) PROVE AdjustmentsFresh'
    <3>1. row.source = "manual" /\ row \in Row
      BY <2>8, <2>a DEF InsertAdjustment, At, Local, CallType
    <3>2. charges' = charges \cup {Charge(row, call[h].period)}
      BY <2>8 DEF InsertAdjustment
    <3>3. call'[h].due = {} /\ \A g \in Handlers \ {h} : call'[g] = call[g]
      BY <2>8, <1>a DEF InsertAdjustment, Return, Idle
    <3>4. SUFFICES ASSUME NEW g \in Handlers \ {h}, NEW r \in call[g].due, r.source = "manual"
                   PROVE  ~Taken(r)' /\ \A k \in Handlers \ {g} : r \notin call'[k].due
      BY <3>3 DEF AdjustmentsFresh
    <3>5. ~Taken(r) /\ (\A k \in Handlers \ {g} : r \notin call[k].due) /\ r \in Row
      BY <1>a, <3>4 DEF AdjustmentsFresh, CallType
    <3>6. r.ref # row.ref
      BY <3>1, <3>4, <3>5, SameAdjustment
    <3>7. ~Taken(r)'
      BY <3>2, <3>5, <3>6 DEF Taken, Charge
    <3>8. QED
      BY <3>3, <3>5, <3>7
  <2>9. QED
    BY <1>4, <2>1, <2>3, <2>4, <2>5, <2>6, <2>7, <2>8 DEF Step
<1>5. ASSUME NEW h \in Handlers, Abort(h) PROVE AdjustmentsFresh'
  BY <1>5, <1>d DEF Abort, tables
<1>6. QED
  BY <1>1, <1>2, <1>3, <1>4, <1>5 DEF Next

LEMMA SharedInit == Init => SharedInv
<1> SUFFICES ASSUME Init PROVE SharedInv
  OBVIOUS
<1>1. TypeInv
  BY TypeInit
<1>2. Locals /\ AdjustmentsFresh
  BY LocalIdle DEF Init, Locals, AdjustmentsFresh, Idle
<1>3. ChargedAtMostOnce /\ ChargesMatchLedger /\ TotalsAreOfThePeriod
  BY DEF Init, ChargedAtMostOnce, ChargesMatchLedger, TotalsAreOfThePeriod
<1>4. QED
  BY <1>1, <1>2, <1>3 DEF SharedInv

LEMMA SharedStep == SharedInv /\ [Next]_vars => SharedInv'
  BY TypeStep, LocalsStep, FreshStep, ChargedOnceStep, ChargesMatchStep, TotalsStep DEF SharedInv

LEMMA SharedCorrect == Spec => []SharedInv
  BY SharedInit, SharedStep, PTL DEF Spec

(* However materializations of any number of admin calls overlap, fail and
   are retried, a source row is charged once (lines 744-774, 824-857). *)
THEOREM ChargedOnce == Spec => []ChargedAtMostOnce
<1>1. SharedInv => ChargedAtMostOnce
  BY DEF SharedInv
<1>2. QED
  BY <1>1, SharedCorrect, PTL

(* A ledger charge is for a logged request, in the window of the period it is
   attached to, whatever happened to the period meanwhile (lines 778-859). *)
THEOREM ChargesMatch == Spec => []ChargesMatchLedger
<1>1. SharedInv => ChargesMatchLedger
  BY DEF SharedInv
<1>2. QED
  BY <1>1, SharedCorrect, PTL

(* The totals of a period are always those of ledger rows of its own tenant
   and window (lines 301-341). *)
THEOREM TotalsMatch == Spec => []TotalsAreOfThePeriod
<1>1. SharedInv => TotalsAreOfThePeriod
  BY DEF SharedInv
<1>2. QED
  BY <1>1, SharedCorrect, PTL

(* With any number of overlapping handlers, charges and totals come from the
   ledger's rows of the period's window (lines 301-341, 778-859). *)
THEOREM LedgerIsBehind == Spec => []LedgerBacked
<1>1. ChargesMatchLedger /\ TotalsAreOfThePeriod => LedgerBacked
  BY DEF LedgerBacked
<1>2. QED
  BY <1>1, ChargesMatch, TotalsMatch, PTL

-----------------------------------------------------------------------------
(***************************************************************************)
(* Every interleaving: when a closed period is final                       *)
(***************************************************************************)

\* No one else creates the period a handler is about to insert, and only a
\* close reconciles.
Opening ==
    \A h \in Handlers : call[h].at = "insert_period" =>
        /\ status[call[h].period] = "absent"
        /\ \A g \in Handlers \ {h} :
               call[g].at = "insert_period" => call[g].period # call[h].period

Closing == \A h \in Handlers : call[h].at \in {"reconcile", "compare"} => call[h].want = "closed"

SealInv == SharedInv /\ Opening /\ Closing

\* What a step makes of the locals d of the handler that takes it: a period
\* about to be created is fresh, a reconciliation is of a close, and no call
\* becomes one that may still write a period already closed.
Turn(d, c) ==
    /\ c.at = "insert_period" => FreshPeriod(c.period) /\ status' = status
    /\ c.at \in {"reconcile", "compare"} => c.want = "closed"
    /\ \A p \in Periods : Late(c, p) /\ status[p] = "closed" => Late(d, p)

Turned ==
    \/ call' = call
    \/ \E h \in Handlers : \E c : call' = [call EXCEPT ![h] = c] /\ Turn(call[h], c)

LEMMA CallTurns == ASSUME SealInv, [Next]_vars PROVE Turned
<1>a. /\ Closing /\ NoPeriod \notin Periods
      /\ \A h \in Handlers : Local(call[h]) /\ call[h] \in CallType
  BY TablesAssumption DEF SealInv, SharedInv, Locals, TypeInv, TypeOK, CallType
<1>b. ASSUME NEW h \in Handlers, NEW c, call' = [call EXCEPT ![h] = c], Turn(call[h], c) PROVE Turned
  BY <1>b DEF Turned
<1>c. ASSUME NEW h \in Handlers, Return(h) PROVE Turned
  <2>1. Turn(call[h], Idle)
    BY DEF Turn, Idle, Late
  <2>2. QED
    BY <1>b, <1>c, <2>1 DEF Return
<1>d. ASSUME NEW h \in Handlers, NEW p \in Periods, NEW step, Begin(h, step, p),
             step = "insert_period" => FreshPeriod(p) /\ status' = status,
             step \in {"insert_period", "aggregate", "fetch_ledger", "fetch_rollups"},
             step # "insert_period" => status[p] # "closed"
      PROVE  Turned
  <2>1. PICK c : c = [Idle EXCEPT !.at = step, !.period = p]
    OBVIOUS
  <2>2. c.at = step /\ c.period = p /\ call' = [call EXCEPT ![h] = c]
    BY <1>d, <2>1 DEF Idle, Begin
  <2>3. Turn(call[h], c)
    BY <1>d, <2>2 DEF Turn, Late
  <2>4. QED
    BY <2>2, <2>3, <1>b
<1>e. ASSUME NEW h \in Handlers, NEW p \in Periods, NEW want \in Statuses, ReadCurrent(h, p, want)
      PROVE  Turned
  <2>1. PICK c : c = [Idle EXCEPT !.at = IF want = "closed" THEN "reconcile" ELSE "write_status",
                                  !.period = p, !.want = want]
    OBVIOUS
  <2>2. /\ c.at = IF want = "closed" THEN "reconcile" ELSE "write_status"
        /\ c.period = p /\ c.want = want
    BY <2>1 DEF Idle
  <2>3. CASE Return(h)
    BY <2>3, <1>c
  <2>4. CASE ~Return(h)
    <3>1. call' = [call EXCEPT ![h] = c] /\ ~(status[p] = "closed" /\ want # "closed")
      BY <1>e, <2>1, <2>4 DEF ReadCurrent
    <3>2. Turn(call[h], c)
      BY <2>2, <3>1 DEF Turn, Late
    <3>3. QED
      BY <3>1, <3>2, <1>b
  <2>5. QED
    BY <2>3, <2>4
\* A step that keeps the period and the wanted status, between steps at which
\* the call may write the period or to one at which it may not.
<1>f. ASSUME NEW h \in Handlers, NEW c, call' = [call EXCEPT ![h] = c],
             c.period = call[h].period, c.want = call[h].want,
             \/ call[h].at = "reconcile" /\ c.at = "compare"
             \/ call[h].at = "compare" /\ c.at = "write_status"
             \/ c.at \in {"refresh", "move_to_closing"}
             \/ /\ c.at \in {"store_totals", "check_row", "insert_charge"}
                /\ \/ call[h].at \in {"aggregate", "fetch_ledger", "fetch_rollups",
                                      "check_row", "insert_charge"}
                   \/ c.period = NoPeriod
      PROVE  Turned
  <2>1. c.at = "compare" \/ c.at = "write_status" => c.want = "closed"
    BY <1>a, <1>f DEF Closing
  <2>2. Turn(call[h], c)
    BY <1>a, <1>f, <2>1 DEF Turn, Late
  <2>3. QED
    BY <1>f, <2>2, <1>b
<1>1. CASE (\E r \in Requests : LogRequest(r)) \/ RebuildRollups \/ UNCHANGED vars
  BY <1>1 DEF LogRequest, RebuildRollups, vars, Turned
<1>2. ASSUME NEW h \in Handlers, Start(h) PROVE Turned
  <2>1. ASSUME NEW p \in Periods, CheckPeriod(h, p) PROVE Turned
    BY <2>1, <1>d DEF CheckPeriod, tables
  <2>2. ASSUME NEW p \in Periods, NEW want \in Statuses, SetStatus(h, p, want) PROVE Turned
    BY <2>2, <1>e DEF SetStatus
  <2>3. ASSUME NEW p \in Periods, Summarize(h, p) PROVE Turned
    BY <2>3, <1>d DEF Summarize
  <2>4. ASSUME NEW p \in Periods, NEW step \in {"fetch_ledger", "fetch_rollups"},
               MaterializeGuard(h, p, step)
        PROVE  Turned
    BY <2>4, <1>d DEF MaterializeGuard
  <2>5. ASSUME NEW p \in Periods \cup {NoPeriod}, NEW a \in Adjustments, AdjustGuard(h, p, a)
        PROVE  Turned
    <3>1. PICK c : c = [Idle EXCEPT !.at = "insert_adjustment", !.period = p, !.due = {AdjustmentRow(a)}]
      OBVIOUS
    <3>2. c.at = "insert_adjustment" /\ call' = [call EXCEPT ![h] = c]
      BY <2>5, <3>1 DEF AdjustGuard, Idle
    <3>3. Turn(call[h], c)
      BY <3>2 DEF Turn, Late
    <3>4. QED
      BY <3>2, <3>3, <1>b
  <2>6. QED
    BY <1>2, <2>1, <2>2, <2>3, <2>4, <2>5 DEF Start
<1>3. ASSUME NEW h \in Handlers, Fetch(h) PROVE Turned
  <2>1. PICK R : call' = [call EXCEPT ![h] = [call[h] EXCEPT !.at = "check_row", !.rows = R]]
    BY <1>3 DEF Fetch, FetchLedger, FetchRollups
  <2>2. PICK c : c = [call[h] EXCEPT !.at = "check_row", !.rows = R]
    OBVIOUS
  <2>3. /\ c.at = "check_row" /\ c.period = call[h].period /\ c.want = call[h].want
        /\ call' = [call EXCEPT ![h] = c]
    BY <1>a, <2>1, <2>2 DEF CallType
  <2>4. call[h].at \in {"fetch_ledger", "fetch_rollups"} \/ call[h].at = "idle"
    BY <1>3 DEF Fetch, FetchLedger, FetchRollups, ReadyToFetch, At
  <2>5. call[h].at = "idle" => call[h].period = NoPeriod
    BY <1>a DEF Local, Idle
  <2>6. QED
    BY <1>f, <2>3, <2>4, <2>5
<1>4. ASSUME NEW h \in Handlers, Step(h) PROVE Turned
  <2>1. CASE InsertPeriod(h) \/ WriteStatus(h) \/ Done(h)
    BY <2>1, <1>c DEF InsertPeriod, WriteStatus, Done
  <2>2. ASSUME NEW step, Goto(h, step),
               \/ call[h].at = "compare" /\ step = "write_status"
               \/ step \in {"refresh", "move_to_closing"}
        PROVE  Turned
    <3>1. PICK c : c = [call[h] EXCEPT !.at = step]
      OBVIOUS
    <3>2. /\ c.at = step /\ c.period = call[h].period /\ c.want = call[h].want
          /\ call' = [call EXCEPT ![h] = c]
      BY <2>2, <1>a, <3>1 DEF Goto, CallType
    <3>3. QED
      BY <1>f, <2>2, <3>2
  <2>3. CASE ReconcileRead(h)
    <3>1. PICK c : c = [call[h] EXCEPT !.at = "compare", !.snap = summary[call[h].period]]
      OBVIOUS
    <3>2. /\ c.at = "compare" /\ c.period = call[h].period /\ c.want = call[h].want
          /\ call[h].at = "reconcile" /\ call' = [call EXCEPT ![h] = c]
      BY <2>3, <1>a, <3>1 DEF ReconcileRead, At, CallType
    <3>3. QED
      BY <1>f, <3>2
  <2>4. CASE Aggregate(h)
    <3>1. PICK c : c = [call[h] EXCEPT !.at = "store_totals", !.snap = LoggedIn(call[h].period)]
      OBVIOUS
    <3>2. /\ c.at = "store_totals" /\ c.period = call[h].period /\ c.want = call[h].want
          /\ call[h].at = "aggregate" /\ call' = [call EXCEPT ![h] = c]
      BY <2>4, <1>a, <3>1 DEF Aggregate, At, CallType
    <3>3. QED
      BY <1>f, <3>2
  <2>5. CASE ReconcileCompare(h) \/ StoreTotals(h) \/ Refresh(h)
    BY <2>5, <2>2, <1>c DEF ReconcileCompare, StoreTotals, Refresh, At
  <2>6. CASE MoveToClosing(h)
    <3>1. call[h].period \in Periods
      BY <2>6, <1>a DEF MoveToClosing, At, Local, PeriodSteps, Exists
    <3>2. QED
      BY <2>6, <3>1, <1>e DEF MoveToClosing, Statuses
  <2>7. ASSUME NEW row \in call[h].rows, CheckRow(h, row) PROVE Turned
    <3>1. PICK d : d = [call[h] EXCEPT !.rows = call[h].rows \ {row}]
      OBVIOUS
    <3>2. PICK e : e = [call[h] EXCEPT !.at = "insert_charge", !.rows = call[h].rows \ {row},
                                       !.due = {row}]
      OBVIOUS
    <3>3. call[h].at = "check_row" /\ (call' = [call EXCEPT ![h] = d] \/ call' = [call EXCEPT ![h] = e])
      BY <2>7, <3>1, <3>2 DEF CheckRow, At
    <3>4. /\ d.at = "check_row" /\ d.period = call[h].period /\ d.want = call[h].want
          /\ e.at = "insert_charge" /\ e.period = call[h].period /\ e.want = call[h].want
      BY <1>a, <3>1, <3>2, <3>3 DEF CallType
    <3>5. QED
      BY <1>f, <3>3, <3>4
  <2>8. ASSUME NEW row \in call[h].due, InsertCharge(h, row) PROVE Turned
    <3>1. PICK c : c = [call[h] EXCEPT !.at = "check_row", !.due = {}]
      OBVIOUS
    <3>2. call[h].at = "insert_charge" /\ (Return(h) \/ call' = [call EXCEPT ![h] = c])
      BY <2>8, <3>1 DEF InsertCharge, At
    <3>3. c.at = "check_row" /\ c.period = call[h].period /\ c.want = call[h].want
      BY <1>a, <3>1 DEF CallType
    <3>4. QED
      BY <1>c, <1>f, <3>2, <3>3
  <2>9. ASSUME NEW row \in call[h].due, InsertAdjustment(h, row) PROVE Turned
    BY <2>9, <1>c DEF InsertAdjustment
  <2>10. QED
    BY <1>4, <2>1, <2>3, <2>4, <2>5, <2>6, <2>7, <2>8, <2>9 DEF Step
<1>5. ASSUME NEW h \in Handlers, Abort(h) PROVE Turned
  BY <1>5, <1>c DEF Abort
<1>6. QED
  BY <1>1, <1>2, <1>3, <1>4, <1>5 DEF Next

\* What a step writes: InsertPeriod and WriteStatus the status of a period,
\* StoreTotals the totals of one, the two inserts a charge.
Written ==
    \/ UNCHANGED <<status, summary, charges>>
    \/ \E h \in Handlers : InsertPeriod(h) \/ WriteStatus(h) \/ StoreTotals(h)
    \/ \E h \in Handlers : \E row \in call[h].due : InsertCharge(h, row) \/ InsertAdjustment(h, row)

LEMMA StepWrites == ASSUME [Next]_vars PROVE Written
<1>1. CASE (\E r \in Requests : LogRequest(r)) \/ RebuildRollups \/ UNCHANGED vars
  BY <1>1 DEF LogRequest, RebuildRollups, vars, Written
<1>2. ASSUME NEW h \in Handlers, Start(h) PROVE UNCHANGED tables
  BY <1>2 DEF Start, CheckPeriod, SetStatus, ReadCurrent, Summarize, MaterializeGuard, AdjustGuard
<1>3. ASSUME NEW h \in Handlers, Fetch(h) PROVE UNCHANGED tables
  BY <1>3 DEF Fetch, FetchLedger, FetchRollups
<1>4. ASSUME NEW h \in Handlers, Step(h) PROVE Written
  <2>1. CASE InsertPeriod(h) \/ WriteStatus(h) \/ StoreTotals(h)
    BY <2>1 DEF Written
  <2>2. ASSUME NEW row \in call[h].due, InsertCharge(h, row) \/ InsertAdjustment(h, row) PROVE Written
    BY <2>2 DEF Written
  <2>3. CASE ReconcileRead(h) \/ ReconcileCompare(h) \/ Aggregate(h) \/ Refresh(h) \/ MoveToClosing(h)
             \/ Done(h) \/ \E row \in call[h].rows : CheckRow(h, row)
    BY <2>3 DEF ReconcileRead, ReconcileCompare, Aggregate, Refresh, MoveToClosing, ReadCurrent,
                Done, CheckRow, tables, Written
  <2>4. QED
    BY <1>4, <2>1, <2>2, <2>3 DEF Step
<1>5. ASSUME NEW h \in Handlers, Abort(h) PROVE UNCHANGED tables
  BY <1>5 DEF Abort
<1>6. QED
  BY <1>1, <1>2, <1>3, <1>4, <1>5 DEF Next, tables, Written

LEMMA ClosingStep == ASSUME SealInv, [Next]_vars PROVE Closing'
<1>1. call \in [Handlers -> CallType] /\ Closing
  BY DEF SealInv, SharedInv, TypeInv, TypeOK, CallType
<1>2. CASE call' = call
  BY <1>1, <1>2 DEF Closing
<1>3. ASSUME NEW h \in Handlers, NEW c, call' = [call EXCEPT ![h] = c], Turn(call[h], c) PROVE Closing'
  BY <1>1, <1>3 DEF Closing, Turn
<1>4. QED
  BY <1>2, <1>3, CallTurns DEF Turned

LEMMA OpeningStep == ASSUME SealInv, [Next]_vars PROVE Opening'
<1>a. /\ call \in [Handlers -> CallType] /\ Opening /\ PeriodNamed
      /\ status \in [Periods -> Statuses \cup {"absent"}]
      /\ \A h \in Handlers : Local(call[h])
  BY DEF SealInv, SharedInv, Locals, TypeInv, TypeOK, CallType
<1>1. CASE status' = status
  <2>1. CASE call' = call
    BY <1>a, <1>1, <2>1 DEF Opening
  <2>2. ASSUME NEW h \in Handlers, NEW c, call' = [call EXCEPT ![h] = c], Turn(call[h], c)
        PROVE  Opening'
    <3>1. call'[h] = c /\ \A g \in Handlers \ {h} : call'[g] = call[g]
      BY <1>a, <2>2
    <3>2. c.at = "insert_period" =>
            status[c.period] = "absent" /\ \A g \in Handlers : call[g].period # c.period
      BY <2>2 DEF Turn, FreshPeriod
    <3>3. QED
      BY <1>a, <1>1, <3>1, <3>2 DEF Opening
  <2>3. QED
    BY <2>1, <2>2, CallTurns DEF Turned
<1>2. ASSUME NEW h \in Handlers, InsertPeriod(h) \/ WriteStatus(h) PROVE Opening'
  <2>1. PICK s : status' = [status EXCEPT ![call[h].period] = s]
    BY <1>2 DEF InsertPeriod, WriteStatus
  <2>2. call'[h] = Idle /\ \A g \in Handlers \ {h} : call'[g] = call[g]
    BY <1>a, <1>2 DEF InsertPeriod, WriteStatus, Return
  <2>3. SUFFICES ASSUME NEW g \in Handlers \ {h}, call[g].at = "insert_period"
                 PROVE  status'[call[g].period] = "absent"
    BY <1>a, <2>2 DEF Opening, Idle
  <2>4. call[g].period \in Periods /\ status[call[g].period] = "absent"
    BY <1>a, <2>3 DEF Opening, PeriodNamed, PeriodSteps
  <2>5. CASE InsertPeriod(h)
    <3>1. call[g].period # call[h].period
      BY <1>a, <2>3, <2>5 DEF InsertPeriod, At, Opening
    <3>2. QED
      BY <1>a, <2>1, <2>4, <3>1
  <2>6. CASE WriteStatus(h)
    <3>1. Exists(call[h].period)
      BY <1>a, <2>6 DEF WriteStatus, At, Local, PeriodSteps
    <3>2. QED
      BY <1>a, <2>1, <2>4, <3>1 DEF Exists
  <2>7. QED
    BY <1>2, <2>5, <2>6
<1>3. status' = status \/ \E h \in Handlers : InsertPeriod(h) \/ WriteStatus(h)
  BY StepWrites DEF Written, StoreTotals, InsertCharge, InsertAdjustment
<1>4. QED
  BY <1>1, <1>2, <1>3

LEMMA SealCorrect == Spec => []SealInv
<1>1. Init => SealInv
  BY SharedInit DEF Init, SealInv, Opening, Closing, Idle
<1>2. SealInv /\ [Next]_vars => SealInv'
  <2>1. SealInv /\ [Next]_vars => SharedInv'
    BY SharedStep DEF SealInv
  <2>2. QED
    BY <2>1, OpeningStep, ClosingStep DEF SealInv
<1>3. QED
  BY <1>1, <1>2, PTL DEF Spec

SealKept ==
    \A p \in Periods : Sealed(p) =>
        Sealed(p)' /\ summary'[p] = summary[p] /\ UsageOf(p)' = UsageOf(p)

LEMMA SealStep == ASSUME SealInv, [Next]_vars PROVE SealKept
<1> SUFFICES ASSUME NEW p \in Periods, Sealed(p)
             PROVE  Sealed(p)' /\ summary'[p] = summary[p] /\ UsageOf(p)' = UsageOf(p)
  BY DEF SealKept
<1>a. /\ call \in [Handlers -> CallType]
      /\ status \in [Periods -> Statuses \cup {"absent"}] /\ summary \in [Periods -> SUBSET Requests]
      /\ status[p] = "closed" /\ Opening
      /\ \A h \in Handlers : ~Late(call[h], p) /\ Local(call[h])
  BY DEF SealInv, SharedInv, Locals, TypeInv, TypeOK, CallType, Sealed
<1>1. \A h \in Handlers : ~Late(call'[h], p)
  <2>1. CASE call' = call
    BY <1>a, <2>1
  <2>2. ASSUME NEW h \in Handlers, NEW c, call' = [call EXCEPT ![h] = c], Turn(call[h], c)
        PROVE  \A g \in Handlers : ~Late(call'[g], p)
    <3>1. ~Late(c, p)
      BY <1>a, <2>2 DEF Turn
    <3>2. call'[h] = c /\ \A g \in Handlers \ {h} : call'[g] = call[g]
      BY <1>a, <2>2
    <3>3. QED
      BY <1>a, <3>1, <3>2
  <2>3. QED
    BY <2>1, <2>2, CallTurns DEF Turned
<1>2. status'[p] = "closed" /\ summary'[p] = summary[p] /\ UsageOf(p)' = UsageOf(p)
  <2> DEFINE Goal == status'[p] = "closed" /\ summary'[p] = summary[p] /\ UsageOf(p)' = UsageOf(p)
  <2>1. CASE UNCHANGED <<status, summary, charges>>
    BY <1>a, <2>1 DEF UsageOf, ChargesOf
  <2>2. ASSUME NEW h \in Handlers, InsertPeriod(h) PROVE Goal
    <3>1. call[h].period # p
      BY <1>a, <2>2 DEF InsertPeriod, At, Opening
    <3>2. QED
      BY <1>a, <2>2, <3>1 DEF InsertPeriod, UsageOf, ChargesOf
  <2>3. ASSUME NEW h \in Handlers, WriteStatus(h) PROVE Goal
    <3>1. call[h].period = p => call[h].want = "closed"
      BY <1>a, <2>3 DEF WriteStatus, At, Late
    <3>2. QED
      BY <1>a, <2>3, <3>1 DEF WriteStatus, UsageOf, ChargesOf
  <2>4. ASSUME NEW h \in Handlers, StoreTotals(h) PROVE Goal
    <3>1. call[h].period # p
      BY <1>a, <2>4 DEF StoreTotals, At, Late
    <3>2. QED
      BY <1>a, <2>4, <3>1 DEF StoreTotals, UsageOf, ChargesOf
  <2>5. ASSUME NEW h \in Handlers, NEW row \in call[h].due, InsertCharge(h, row) PROVE Goal
    <3>1. call[h].period # p
      BY <1>a, <2>5 DEF InsertCharge, At, Late
    <3>2. QED
      BY <1>a, <2>5, <3>1 DEF InsertCharge, UsageOf, ChargesOf, Charge
  <2>6. ASSUME NEW h \in Handlers, NEW row \in call[h].due, InsertAdjustment(h, row) PROVE Goal
    <3>1. row.source = "manual"
      BY <1>a, <2>6 DEF InsertAdjustment, At, Local
    <3>2. QED
      BY <1>a, <2>6, <3>1 DEF InsertAdjustment, UsageOf, ChargesOf, Charge
  <2>7. QED
    BY <2>1, <2>2, <2>3, <2>4, <2>5, <2>6, StepWrites DEF Written
<1>3. QED
  BY <1>1, <1>2 DEF Sealed

(* With any number of overlapping calls a closed period is final, once the
   calls that read its row before the close have ended: its status, totals and
   usage charges stay (lines 301-341, 343-381, 722-859). *)
THEOREM SealedFinal == Spec => SealedIsFinal
<1>1. SealInv /\ [Next]_vars => SealKept
  BY SealStep
<1>2. QED
  BY <1>1, SealCorrect, PTL DEF Spec, SealedIsFinal, SealKept

-----------------------------------------------------------------------------
(***************************************************************************)
(* Calls that no other call overlaps follow the book of BillingBook, while *)
(* requests keep arriving, statements fail and handlers die anywhere: those *)
(* of a single operator always, and of several operators each as long as   *)
(* no other writes between its statements.  The run BillingReopened shows  *)
(* that two overlapping calls are enough to reopen a period.               *)
(***************************************************************************)
\* What the locals c of a handler say of the tables at each step, if nobody
\* else wrote since it looked.
Alone(c) ==
    /\ c.at \in {"aggregate", "store_totals", "refresh", "move_to_closing"} =>
         status[c.period] \in {"open", "closing"}
    /\ c.at = "store_totals" => summary[c.period] \subseteq c.snap
    /\ c.at \in {"reconcile", "compare"} => c.want = "closed"
    /\ c.at = "compare" => c.snap = summary[c.period]
    /\ c.at = "write_status" =>
         /\ status[c.period] = "closed" => c.want = "closed"
         /\ c.want = "closed" => SumAmounts(ChargesOf(c.period)) = SumSavings(summary[c.period])
    /\ c.at = "insert_period" =>
         \A q \in Periods : KeyOf[q] = KeyOf[c.period] => status[q] = "absent"
    /\ c.at \in {"fetch_ledger", "fetch_rollups", "check_row", "insert_charge"} /\ c.period # NoPeriod =>
         status[c.period] = "open"
    /\ c.at = "insert_adjustment" /\ c.period # NoPeriod => status[c.period] = "closed"

LEMMA AloneIdle == Alone(Idle) /\ Alone(Idle)'
  BY DEF Alone, Idle

LEMMA AloneKept ==
  ASSUME NEW c, Alone(c), UNCHANGED <<status, summary, charges>> PROVE Alone(c)'
<1>1. \A p : ChargesOf(p)' = ChargesOf(p)
  BY DEF ChargesOf
<1>2. QED
  BY <1>1 DEF Alone

\* What one handler does.
Moves(h) == Start(h) \/ Fetch(h) \/ Step(h) \/ Abort(h)

LEMMA OthersStay ==
  ASSUME TypeInv, NEW h \in Handlers, Moves(h), NEW g \in Handlers \ {h}
  PROVE  call'[g] = call[g]
<1> DEFINE Goal == \E c : call' = [call EXCEPT ![h] = c]
<1>1. ASSUME Start(h) PROVE Goal
  BY <1>1 DEF Start, CheckPeriod, SetStatus, ReadCurrent, Summarize, MaterializeGuard, AdjustGuard,
              Return, Begin
<1>2. ASSUME Fetch(h) PROVE Goal
  BY <1>2 DEF Fetch, FetchLedger, FetchRollups
<1>3. ASSUME Step(h) PROVE Goal
  <2>1. CASE InsertPeriod(h) \/ WriteStatus(h) \/ Done(h)
    BY <2>1 DEF InsertPeriod, WriteStatus, Done, Return
  <2>2. CASE ReconcileRead(h) \/ ReconcileCompare(h)
    BY <2>2 DEF ReconcileRead, ReconcileCompare, Return, Goto
  <2>3. CASE Aggregate(h) \/ StoreTotals(h)
    BY <2>3 DEF Aggregate, StoreTotals, Goto
  <2>4. CASE Refresh(h) \/ MoveToClosing(h)
    BY <2>4 DEF Refresh, MoveToClosing, ReadCurrent, Return, Goto
  <2>5. ASSUME NEW row \in call[h].rows, CheckRow(h, row) PROVE Goal
    BY <2>5 DEF CheckRow
  <2>6. ASSUME NEW row \in call[h].due, InsertCharge(h, row) \/ InsertAdjustment(h, row) PROVE Goal
    BY <2>6 DEF InsertCharge, InsertAdjustment, Return
  <2>7. QED
    BY <1>3, <2>1, <2>2, <2>3, <2>4, <2>5, <2>6 DEF Step
<1>4. ASSUME Abort(h) PROVE Goal
  BY <1>4 DEF Abort, Return
<1>5. QED
  BY <1>1, <1>2, <1>3, <1>4 DEF Moves, TypeInv, TypeOK

\* Who writes moves on.
LEMMA WritersMove ==
  ASSUME TypeInv, [Next]_vars, NEW h \in Handlers, call'[h] = call[h], Moves(h)
  PROVE  UNCHANGED tables
<1>1. call[h] \in CallType /\ call \in [Handlers -> CallType]
  BY DEF TypeInv, TypeOK, CallType
<1>2. CASE Start(h) \/ Fetch(h) \/ Abort(h)
  BY <1>2 DEF Start, CheckPeriod, SetStatus, ReadCurrent, Summarize, MaterializeGuard, AdjustGuard,
              Fetch, FetchLedger, FetchRollups, Abort
<1>3. CASE InsertPeriod(h) \/ WriteStatus(h)
  BY <1>1, <1>3 DEF InsertPeriod, WriteStatus, At, Return, Idle
<1>4. CASE StoreTotals(h)
  <2>1. call[h].at = "store_totals" /\ call'[h].at = "refresh"
    BY <1>1, <1>4 DEF StoreTotals, At, Goto, CallType
  <2>2. QED
    BY <2>1
<1>5. ASSUME NEW row \in call[h].due, InsertCharge(h, row) PROVE UNCHANGED tables
  <2>1. call[h].at = "insert_charge" /\ call'[h].at \in {"idle", "check_row"}
    BY <1>1, <1>5 DEF InsertCharge, At, Return, Idle, CallType
  <2>2. QED
    BY <2>1
<1>6. ASSUME NEW row \in call[h].due, InsertAdjustment(h, row) PROVE UNCHANGED tables
  BY <1>1, <1>6 DEF InsertAdjustment, At, Return, Idle
<1>7. CASE ReconcileRead(h) \/ ReconcileCompare(h) \/ Aggregate(h) \/ Refresh(h) \/ MoveToClosing(h)
           \/ Done(h) \/ \E row \in call[h].rows : CheckRow(h, row)
  BY <1>7 DEF ReconcileRead, ReconcileCompare, Aggregate, Refresh, MoveToClosing, ReadCurrent,
              Done, CheckRow, tables
<1>8. QED
  BY <1>2, <1>3, <1>4, <1>5, <1>6, <1>7 DEF Moves, Step

LEMMA AloneUpdate ==
  ASSUME TypeInv, NEW h \in Handlers, NEW c, Alone(c)', call' = [call EXCEPT ![h] = c]
  PROVE  Alone(call[h])'
  BY DEF TypeInv, TypeOK

\* A statement of its own leaves a handler with what its next one needs.
LEMMA AloneMoves ==
  ASSUME SharedInv, NEW h \in Handlers, Alone(call[h]), Moves(h)
  PROVE  Alone(call[h])'
<1> DEFINE Goal == Alone(call[h])'
<1>a. /\ TypeInv /\ Locals /\ Alone(call[h])
      /\ Local(call[h]) /\ call[h] \in CallType
      /\ status \in [Periods -> Statuses \cup {"absent"}]
      /\ summary \in [Periods -> SUBSET Requests]
  BY DEF SharedInv, Locals, TypeInv, TypeOK, CallType
<1>c. ASSUME Return(h) PROVE Goal
  BY <1>a, <1>c, AloneIdle, AloneUpdate DEF Return
<1>d. ASSUME NEW p \in Periods, NEW step, Begin(h, step, p), UNCHANGED tables,
             \/ step = "insert_period" /\ \A q \in Periods : KeyOf[q] = KeyOf[p] => ~Exists(q)
             \/ step = "aggregate" /\ Exists(p) /\ status[p] # "closed"
             \/ step \in {"fetch_ledger", "fetch_rollups"} /\ status[p] = "open"
      PROVE  Goal
  <2>1. PICK c : c = [Idle EXCEPT !.at = step, !.period = p]
    OBVIOUS
  <2>2. c.at = step /\ c.period = p /\ call' = [call EXCEPT ![h] = c]
    BY <1>d, <2>1 DEF Idle, Begin
  <2>3. Alone(c)'
    BY <1>a, <1>d, <2>2 DEF Alone, Exists, Statuses, tables
  <2>4. QED
    BY <1>a, <2>2, <2>3, AloneUpdate
<1>e. ASSUME NEW p \in Periods, NEW want \in Statuses, ReadCurrent(h, p, want)
      PROVE  Goal
  <2>1. PICK c : c = [Idle EXCEPT !.at = IF want = "closed" THEN "reconcile" ELSE "write_status",
                                  !.period = p, !.want = want]
    OBVIOUS
  <2>2. /\ c.at = IF want = "closed" THEN "reconcile" ELSE "write_status"
        /\ c.period = p /\ c.want = want
    BY <2>1 DEF Idle
  <2>3. CASE Return(h)
    BY <2>3, <1>c
  <2>4. CASE ~Return(h)
    <3>1. call' = [call EXCEPT ![h] = c] /\ ~(status[p] = "closed" /\ want # "closed") /\ UNCHANGED tables
      BY <1>e, <2>1, <2>4 DEF ReadCurrent
    <3>2. Alone(c)'
      BY <2>2, <3>1 DEF Alone, tables
    <3>3. QED
      BY <1>a, <3>1, <3>2, AloneUpdate
  <2>5. QED
    BY <2>3, <2>4
<1>2. ASSUME Start(h) PROVE Goal
  <2>1. ASSUME NEW p \in Periods, CheckPeriod(h, p) PROVE Goal
    BY <2>1, <1>d DEF CheckPeriod
  <2>2. ASSUME NEW p \in Periods, NEW want \in Statuses, SetStatus(h, p, want) PROVE Goal
    BY <2>2, <1>e DEF SetStatus
  <2>3. ASSUME NEW p \in Periods, Summarize(h, p) PROVE Goal
    BY <2>3, <1>d DEF Summarize
  <2>4. ASSUME NEW p \in Periods, NEW step \in {"fetch_ledger", "fetch_rollups"},
               MaterializeGuard(h, p, step)
        PROVE  Goal
    BY <2>4, <1>d DEF MaterializeGuard
  <2>5. ASSUME NEW p \in Periods \cup {NoPeriod}, NEW a \in Adjustments, AdjustGuard(h, p, a)
        PROVE  Goal
    <3>1. PICK c : c = [Idle EXCEPT !.at = "insert_adjustment", !.period = p, !.due = {AdjustmentRow(a)}]
      OBVIOUS
    <3>2. c.at = "insert_adjustment" /\ c.period = p /\ call' = [call EXCEPT ![h] = c]
      BY <2>5, <3>1 DEF AdjustGuard, Idle
    <3>3. Alone(c)'
      BY <2>5, <3>2 DEF AdjustGuard, Alone, tables
    <3>4. QED
      BY <1>a, <3>2, <3>3, AloneUpdate
  <2>6. QED
    BY <1>2, <2>1, <2>2, <2>3, <2>4, <2>5 DEF Start
<1>3. ASSUME Fetch(h) PROVE Goal
  <2>1. UNCHANGED tables /\ call[h].at \in {"idle", "fetch_ledger", "fetch_rollups"}
    BY <1>3 DEF Fetch, FetchLedger, FetchRollups, ReadyToFetch, At
  <2>2. PICK R : call' = [call EXCEPT ![h] = [call[h] EXCEPT !.at = "check_row", !.rows = R]]
    BY <1>3 DEF Fetch, FetchLedger, FetchRollups
  <2>3. PICK c : c = [call[h] EXCEPT !.at = "check_row", !.rows = R]
    OBVIOUS
  <2>4. c.at = "check_row" /\ c.period = call[h].period
    BY <1>a, <2>3 DEF CallType
  <2>5. call[h].at = "idle" => call[h].period = NoPeriod
    BY <1>a DEF Local, Idle
  <2>6. Alone(c)'
    BY <1>a, <2>1, <2>4, <2>5 DEF Alone, tables
  <2>7. QED
    BY <1>a, <2>2, <2>3, <2>6, AloneUpdate
<1>4. ASSUME Step(h) PROVE Goal
  <2>a. Alone(call[h]) /\ Local(call[h]) /\ call[h] \in CallType
    BY <1>a
  <2>1. CASE InsertPeriod(h) \/ WriteStatus(h) \/ Done(h)
    BY <2>1, <1>c DEF InsertPeriod, WriteStatus, Done
  <2>2. CASE ReconcileRead(h)
    <3>1. PICK c : c = [call[h] EXCEPT !.at = "compare", !.snap = summary[call[h].period]]
      OBVIOUS
    <3>2. call' = [call EXCEPT ![h] = c] /\ UNCHANGED tables /\ call[h].at = "reconcile"
      BY <2>2, <3>1 DEF ReconcileRead, At
    <3>3. /\ c.at = "compare" /\ c.snap = summary[call[h].period]
          /\ c.period = call[h].period /\ c.want = call[h].want
      BY <2>a, <3>1 DEF CallType
    <3>4. Alone(c)'
      BY <2>a, <3>2, <3>3 DEF Alone, tables
    <3>5. QED
      BY <1>a, <3>2, <3>4, AloneUpdate
  <2>3. ASSUME NEW step, Goto(h, step) PROVE \E c : /\ call' = [call EXCEPT ![h] = c] /\ c.at = step
                                                    /\ c.period = call[h].period /\ c.want = call[h].want
    <3>1. PICK c : c = [call[h] EXCEPT !.at = step]
      OBVIOUS
    <3>2. c.at = step /\ c.period = call[h].period /\ c.want = call[h].want
      BY <2>a, <3>1 DEF CallType
    <3>3. call' = [call EXCEPT ![h] = c]
      BY <2>3, <3>1 DEF Goto
    <3>4. QED
      BY <3>2, <3>3
  <2>4. CASE ReconcileCompare(h)
    <3>1. CASE Return(h)
      BY <3>1, <1>c
    <3>2. CASE ~Return(h)
      <4>1. /\ Goto(h, "write_status") /\ UNCHANGED tables /\ call[h].at = "compare"
            /\ SumAmounts(ChargesOf(call[h].period)) = SumSavings(call[h].snap)
        BY <2>4, <3>2 DEF ReconcileCompare, At
      <4>2. PICK c : /\ call' = [call EXCEPT ![h] = c] /\ c.at = "write_status"
                     /\ c.period = call[h].period /\ c.want = call[h].want
        BY <4>1, <2>3
      <4>3. call[h].want = "closed" /\ call[h].snap = summary[call[h].period]
        BY <2>a, <4>1 DEF Alone
      <4>4. \A p : ChargesOf(p)' = ChargesOf(p)
        BY <4>1 DEF tables, ChargesOf
      <4>5. Alone(c)'
        BY <4>1, <4>2, <4>3, <4>4 DEF Alone, tables
      <4>6. QED
        BY <1>a, <4>2, <4>5, AloneUpdate
    <3>3. QED
      BY <3>1, <3>2
  <2>5. CASE Aggregate(h)
    <3>1. PICK c : c = [call[h] EXCEPT !.at = "store_totals", !.snap = LoggedIn(call[h].period)]
      OBVIOUS
    <3>2. call' = [call EXCEPT ![h] = c] /\ UNCHANGED tables /\ call[h].at = "aggregate"
      BY <2>5, <3>1 DEF Aggregate, At
    <3>3. c.at = "store_totals" /\ c.snap = LoggedIn(call[h].period) /\ c.period = call[h].period
      BY <2>a, <3>1 DEF CallType
    <3>4. call[h].period \in Periods
      BY <2>a, <3>2 DEF Local, PeriodSteps, Exists
    <3>5. summary[call[h].period] \subseteq LoggedIn(call[h].period)
      BY <3>4 DEF SharedInv, TotalsAreOfThePeriod, LoggedIn, InWindow
    <3>6. Alone(c)'
      BY <2>a, <3>2, <3>3, <3>5 DEF Alone, tables
    <3>7. QED
      BY <1>a, <3>2, <3>6, AloneUpdate
  <2>6. CASE StoreTotals(h)
    <3>1. call[h].at = "store_totals" /\ Goto(h, "refresh") /\ status' = status
      BY <2>6 DEF StoreTotals, At
    <3>2. PICK c : call' = [call EXCEPT ![h] = c] /\ c.at = "refresh" /\ c.period = call[h].period
      BY <3>1, <2>3
    <3>3. Alone(c)'
      BY <2>a, <3>1, <3>2 DEF Alone
    <3>4. QED
      BY <1>a, <3>2, <3>3, AloneUpdate
  <2>7. CASE Refresh(h)
    <3>1. CASE Return(h)
      BY <3>1, <1>c
    <3>2. CASE ~Return(h)
      <4>1. call[h].at = "refresh" /\ Goto(h, "move_to_closing") /\ status' = status
        BY <2>7, <3>2 DEF Refresh, At, tables
      <4>2. PICK c : call' = [call EXCEPT ![h] = c] /\ c.at = "move_to_closing" /\ c.period = call[h].period
        BY <4>1, <2>3
      <4>3. Alone(c)'
        BY <2>a, <4>1, <4>2 DEF Alone
      <4>4. QED
        BY <1>a, <4>2, <4>3, AloneUpdate
    <3>3. QED
      BY <3>1, <3>2
  <2>8. CASE MoveToClosing(h)
    <3>1. call[h].period \in Periods
      BY <2>8, <2>a DEF MoveToClosing, At, Local, PeriodSteps, Exists
    <3>2. QED
      BY <2>8, <3>1, <1>e DEF MoveToClosing, Statuses
  <2>9. ASSUME NEW row \in call[h].rows, CheckRow(h, row) PROVE Goal
    <3>1. PICK d : d = [call[h] EXCEPT !.rows = call[h].rows \ {row}]
      OBVIOUS
    <3>2. PICK e : e = [call[h] EXCEPT !.at = "insert_charge", !.rows = call[h].rows \ {row},
                                       !.due = {row}]
      OBVIOUS
    <3>3. /\ call[h].at = "check_row" /\ UNCHANGED tables
          /\ call' = [call EXCEPT ![h] = d] \/ call' = [call EXCEPT ![h] = e]
      BY <2>9, <3>1, <3>2 DEF CheckRow, At
    <3>4. /\ d.at = "check_row" /\ d.period = call[h].period
          /\ e.at = "insert_charge" /\ e.period = call[h].period
      BY <2>a, <3>1, <3>2, <3>3 DEF CallType
    <3>5. Alone(d)' /\ Alone(e)'
      BY <2>a, <3>3, <3>4 DEF Alone, tables
    <3>6. QED
      BY <1>a, <3>3, <3>5, AloneUpdate
  <2>10. ASSUME NEW row \in call[h].due, InsertCharge(h, row) PROVE Goal
    <3>1. PICK c : c = [call[h] EXCEPT !.at = "check_row", !.due = {}]
      OBVIOUS
    <3>2. /\ call[h].at = "insert_charge" /\ UNCHANGED <<status, summary>>
          /\ Return(h) \/ call' = [call EXCEPT ![h] = c]
      BY <2>10, <3>1 DEF InsertCharge, At
    <3>3. c.at = "check_row" /\ c.period = call[h].period
      BY <2>a, <3>1 DEF CallType
    <3>4. Alone(c)'
      BY <2>a, <3>2, <3>3 DEF Alone
    <3>5. QED
      BY <1>a, <1>c, <3>2, <3>4, AloneUpdate
  <2>11. ASSUME NEW row \in call[h].due, InsertAdjustment(h, row) PROVE Goal
    BY <2>11, <1>c DEF InsertAdjustment
  <2>12. QED
    BY <1>4, <2>1, <2>2, <2>4, <2>5, <2>6, <2>7, <2>8, <2>9, <2>10, <2>11 DEF Step
<1>5. ASSUME Abort(h) PROVE Goal
  BY <1>5, <1>c DEF Abort
<1>6. QED
  BY <1>2, <1>3, <1>4, <1>5 DEF Moves

\* What a handler knows goes on to hold when it moves itself and when nobody
\* writes.
LEMMA AloneStays ==
  ASSUME SharedInv, [Next]_vars, NEW h \in Handlers, Alone(call[h]),
         call'[h] # call[h] \/ UNCHANGED <<status, summary, charges>>
  PROVE  Alone(call[h])'
<1>1. CASE call'[h] = call[h]
  <2>1. PICK c : c = call[h]
    OBVIOUS
  <2>2. Alone(c)'
    BY <1>1, <2>1, AloneKept
  <2>3. QED
    BY <1>1, <2>1, <2>2
<1>2. CASE call'[h] # call[h]
  <2>1. PICK g \in Handlers : Moves(g)
    BY <1>2 DEF Next, Moves, LogRequest, RebuildRollups, vars
  <2>2. g = h
    BY <1>2, <2>1, OthersStay DEF SharedInv
  <2>3. QED
    BY <2>1, <2>2, AloneMoves
<1>3. QED
  BY <1>1, <1>2

-----------------------------------------------------------------------------
(* The refinement *)

LEMMA BookInitRefined == Init => Book!BookInit
  BY DEF Init, Book!BookInit

\* A statement of a handler that knows what its step needs is a step of the book.
LEMMA BookMoves ==
  ASSUME SharedInv, NEW h \in Handlers, Alone(call[h]), Moves(h)
  PROVE  [Book!BookNext]_(Book!book)
<1> DEFINE Goal == [Book!BookNext]_(Book!book)
<1>a. /\ Alone(call[h]) /\ Local(call[h]) /\ call[h] \in CallType
      /\ status \in [Periods -> Statuses \cup {"absent"}]
      /\ summary \in [Periods -> SUBSET Requests]
  BY DEF SharedInv, Locals, TypeInv, TypeOK, CallType
<1>b. UNCHANGED <<ledger, status, summary, charges>> => Goal
  BY DEF Book!book
<1>3. ASSUME Start(h) \/ Fetch(h) \/ Abort(h) PROVE Goal
  <2>1. UNCHANGED tables
    BY <1>3 DEF Start, CheckPeriod, SetStatus, ReadCurrent, Summarize, MaterializeGuard, AdjustGuard,
                Fetch, FetchLedger, FetchRollups, Abort
  <2>2. QED
    BY <2>1, <1>b DEF tables
<1>4. ASSUME Step(h) PROVE Goal
  <2> DEFINE c == call[h]
             p == c.period
  <2>a. Alone(c) /\ Local(c) /\ c \in CallType
    BY <1>a
  <2>1. CASE InsertPeriod(h)
    <3>1. c.at = "insert_period" /\ status' = [status EXCEPT ![p] = "open"]
          /\ UNCHANGED <<ledger, summary, charges>>
      BY <2>1 DEF InsertPeriod, At
    <3>2. p \in Periods /\ \A q \in Periods : KeyOf[q] = KeyOf[p] => status[q] = "absent"
      BY <2>a, <3>1 DEF Alone, SharedInv, TypeInv, PeriodNamed, PeriodSteps
    <3>3. Book!Open(p)
      BY <3>1, <3>2 DEF Book!Open
    <3>4. QED
      BY <3>2, <3>3 DEF Book!BookNext
  <2>2. CASE WriteStatus(h)
    <3>1. c.at = "write_status" /\ status' = [status EXCEPT ![p] = c.want]
          /\ UNCHANGED <<ledger, summary, charges>>
      BY <2>2 DEF WriteStatus, At
    <3>2. p \in Periods /\ status[p] \in Statuses /\ c.want \in Statuses
      BY <1>a, <2>a, <3>1 DEF Local, PeriodSteps, Exists, CallType
    <3>3. CASE status[p] = "closed"
      <4>1. c.want = "closed"
        BY <2>a, <3>1, <3>3 DEF Alone
      <4>2. status' = status
        BY <1>a, <3>1, <3>3, <4>1
      <4>3. QED
        BY <3>1, <4>2, <1>b
    <3>4. CASE status[p] # "closed" /\ c.want = "closed"
      <4>1. SumAmounts(ChargesOf(p)) = SumSavings(summary[p])
        BY <2>a, <3>1, <3>4 DEF Alone
      <4>2. ChargesOf(p) = Book!Of(p)
        BY DEF ChargesOf, Book!Of
      <4>3. Book!Close(p)
        BY <3>1, <3>2, <3>4, <4>1, <4>2 DEF Book!Close, Statuses
      <4>4. QED
        BY <3>2, <4>3 DEF Book!BookNext
    <3>5. CASE status[p] # "closed" /\ c.want # "closed"
      <4>1. Book!Move(p)
        BY <3>1, <3>2, <3>5 DEF Book!Move, Statuses
      <4>2. QED
        BY <3>2, <4>1 DEF Book!BookNext
    <3>6. QED
      BY <3>3, <3>4, <3>5
  <2>3. CASE StoreTotals(h)
    <3>1. c.at = "store_totals" /\ summary' = [summary EXCEPT ![p] = c.snap]
          /\ UNCHANGED <<ledger, status, charges>>
      BY <2>3 DEF StoreTotals, At
    <3>2. /\ p \in Periods /\ status[p] \in {"open", "closing"}
          /\ summary[p] \subseteq c.snap /\ c.snap \subseteq LoggedIn(p)
      BY <2>a, <3>1 DEF Alone, Local, PeriodSteps, Exists
    <3>3. LoggedIn(p) \subseteq
            ledger \cap [q \in Periods |-> {r \in Window[q] : TenantOf[r] = PeriodTenant[q]}][p]
      BY <3>2 DEF LoggedIn, InWindow
    <3>4. Book!Refresh(p)
      BY <3>1, <3>2, <3>3 DEF Book!Refresh
    <3>5. QED
      BY <3>2, <3>4 DEF Book!BookNext
  <2>4. ASSUME NEW row \in c.due, InsertCharge(h, row) PROVE Goal
    <3>1. CASE Taken(row)
      BY <2>4, <3>1, <1>b DEF InsertCharge
    <3>2. CASE ~Taken(row)
      <4>1. c.at = "insert_charge" /\ charges' = charges \cup {Charge(row, p)}
            /\ UNCHANGED <<ledger, status, summary>>
        BY <2>4, <3>2 DEF InsertCharge, At
      <4>2. /\ row \in Row /\ row.source # "manual" /\ p \in Periods \cup {NoPeriod}
            /\ row.source = "ledger" => row.ref \in ledger
            /\ p \in Periods => status[p] = "open"
        <5>1. row \in Row /\ p \in Periods \cup {NoPeriod}
          BY <2>a DEF CallType
        <5>2. row.source # "manual" /\ (row.source = "ledger" => row.ref \in ledger)
          BY <2>a, <4>1 DEF Local, InLedger
        <5>3. p \in Periods => status[p] = "open"
          BY <2>a, <4>1, TablesAssumption DEF Alone
        <5>4. QED
          BY <5>1, <5>2, <5>3
      <4>3. Book!Attach(row, p)
        BY <3>2, <4>1, <4>2 DEF Book!Attach, Book!Entered, Book!Entry, Taken, Charge
      <4>4. QED
        BY <4>2, <4>3 DEF Book!BookNext
    <3>3. QED
      BY <3>1, <3>2
  <2>5. ASSUME NEW row \in c.due, InsertAdjustment(h, row) PROVE Goal
    <3>1. c.at = "insert_adjustment" /\ charges' = charges \cup {Charge(row, p)}
          /\ UNCHANGED <<ledger, status, summary>>
      BY <2>5 DEF InsertAdjustment, At
    <3>2. row \in Row /\ row.source = "manual" /\ p \in Periods \cup {NoPeriod}
      BY <2>a, <3>1 DEF CallType, Local
    <3>3. p \in Periods => status[p] = "closed"
      BY <2>a, <3>1, TablesAssumption DEF Alone
    <3>4. ~Taken(row)
      BY <3>2 DEF SharedInv, AdjustmentsFresh
    <3>5. Book!Adjust(row, p)
      BY <3>1, <3>2, <3>3, <3>4 DEF Book!Adjust, Book!Entered, Book!Entry, Taken, Charge
    <3>6. QED
      BY <3>2, <3>5 DEF Book!BookNext
  <2>6. CASE ReconcileRead(h) \/ ReconcileCompare(h) \/ Aggregate(h) \/ Refresh(h) \/ Done(h)
    BY <2>6, <1>b DEF ReconcileRead, ReconcileCompare, Aggregate, Refresh, Done, tables
  <2>7. CASE MoveToClosing(h) \/ \E row \in c.rows : CheckRow(h, row)
    BY <2>7, <1>b DEF MoveToClosing, ReadCurrent, CheckRow, tables
  <2>8. QED
    BY <1>4, <2>1, <2>2, <2>3, <2>4, <2>5, <2>6, <2>7 DEF Step
<1>5. QED
  BY <1>3, <1>4 DEF Moves

-----------------------------------------------------------------------------
(* One operator *)

OneOperator == \A g, h \in Handlers : g = h

SerialInv == SharedInv /\ \A h \in Handlers : Alone(call[h])

LEMMA SerialInit == Init => SerialInv
<1> SUFFICES ASSUME Init PROVE SerialInv
  OBVIOUS
<1>1. \A h \in Handlers : Alone(call[h])
  BY AloneIdle DEF Init
<1>2. QED
  BY <1>1, SharedInit DEF SerialInv

LEMMA SerialStep == OneOperator /\ SerialInv /\ [Next]_vars => SerialInv'
<1> SUFFICES ASSUME OneOperator, SerialInv, [Next]_vars PROVE SerialInv'
  OBVIOUS
<1>1. SharedInv /\ SharedInv'
  BY SharedStep DEF SerialInv
<1>2. ASSUME NEW h \in Handlers PROVE Alone(call[h])'
  <2>1. Moves(h) \/ UNCHANGED <<status, summary, charges>>
    BY DEF OneOperator, Next, Moves, LogRequest, RebuildRollups, vars
  <2>2. call'[h] # call[h] \/ UNCHANGED <<status, summary, charges>>
    BY <1>1, <2>1, WritersMove DEF SharedInv, tables
  <2>3. QED
    BY <1>1, <2>2, AloneStays DEF SerialInv
<1>3. QED
  BY <1>1, <1>2 DEF SerialInv

LEMMA SerialCorrect == ASSUME OneOperator PROVE Spec => []SerialInv
  BY OneOperator, SerialInit, SerialStep, PTL DEF Spec, OneOperator

LEMMA BookStepRefined == SerialInv /\ [Next]_vars => [Book!BookNext]_(Book!book)
<1> SUFFICES ASSUME SerialInv, [Next]_vars PROVE [Book!BookNext]_(Book!book)
  OBVIOUS
<1>1. CASE \E r \in Requests : LogRequest(r)
  BY <1>1 DEF LogRequest, Book!BookNext, Book!Record
<1>2. CASE RebuildRollups \/ UNCHANGED vars
  BY <1>2 DEF RebuildRollups, vars, Book!book
<1>3. CASE \E h \in Handlers : Moves(h)
  BY <1>3, BookMoves DEF SerialInv
<1>4. QED
  BY <1>1, <1>2, <1>3 DEF Next, Moves

(* With one operator at a time, the tables implement the book: whatever the
   handlers, aborts and late requests do, a period is refreshed, moved, closed
   and charged only as BillingBook allows. *)
THEOREM BookRefined == ASSUME OneOperator PROVE Spec => ImplementsBook
<1>1. Spec => []SerialInv
  BY OneOperator, SerialCorrect
<1>2. QED
  BY <1>1, BookInitRefined, BookStepRefined, PTL DEF Spec, ImplementsBook, Book!BookSpec

-----------------------------------------------------------------------------
(* The book stays balanced; what it promises holds of the tables *)

\* Only closed periods carry adjustments.
AdjustedAreClosed ==
    \A c \in charges : c.source = "manual" /\ c.period \in Periods => status[c.period] = "closed"

BookTyped == DOMAIN status = Periods /\ DOMAIN summary = Periods

BookInv == BookTyped /\ AdjustedAreClosed /\ Book!Balanced

LEMMA BookInvInit == Book!BookInit => BookInv
  BY DEF Book!BookInit, BookInv, BookTyped, AdjustedAreClosed, Book!Balanced

(* A charge of another period, or an adjustment, leaves the usage of p. *)
LEMMA UsageKept ==
  ASSUME NEW row, NEW q, NEW p, charges' = charges \cup {Book!Entry(row, q)},
         q # p \/ row.source = "manual"
  PROVE  Book!Usage(p)' = Book!Usage(p)
  BY DEF Book!Usage, Book!Of, Book!Entry

LEMMA BookInvStep == BookInv /\ [Book!BookNext]_(Book!book) => BookInv'
<1> SUFFICES ASSUME BookInv, [Book!BookNext]_(Book!book) PROVE BookInv'
  OBVIOUS
<1> USE DEF BookInv, BookTyped
<1>1. ASSUME UNCHANGED <<status, summary, charges>> PROVE BookInv'
  BY <1>1 DEF AdjustedAreClosed, Book!Balanced, Book!Usage, Book!Of
<1>2. ASSUME NEW p \in Periods, Book!Open(p) PROVE BookInv'
  BY <1>2 DEF Book!Open, AdjustedAreClosed, Book!Balanced, Book!Usage, Book!Of
<1>3. ASSUME NEW p \in Periods, Book!Refresh(p) PROVE BookInv'
  BY <1>3 DEF Book!Refresh, AdjustedAreClosed, Book!Balanced, Book!Usage, Book!Of
<1>4. ASSUME NEW p \in Periods, Book!Move(p) PROVE BookInv'
  BY <1>4 DEF Book!Move, AdjustedAreClosed, Book!Balanced, Book!Usage, Book!Of
<1>5. ASSUME NEW p \in Periods, Book!Close(p) PROVE BookInv'
  <2>1. Book!Usage(p) = Book!Of(p)
    BY <1>5 DEF Book!Close, AdjustedAreClosed, Book!Usage, Book!Of
  <2>2. \A q \in Periods : Book!Usage(q)' = Book!Usage(q)
    BY <1>5 DEF Book!Close, Book!Usage, Book!Of
  <2>3. Book!Balanced'
    BY <1>5, <2>1, <2>2 DEF Book!Close, Book!Balanced
  <2>4. QED
    BY <1>5, <2>3 DEF Book!Close, AdjustedAreClosed
<1>6. ASSUME NEW row \in Row, NEW p \in Periods \cup {NoPeriod}, Book!Attach(row, p) PROVE BookInv'
  <2>1. ASSUME NEW q \in Periods, status[q] = "closed" PROVE Book!Usage(q)' = Book!Usage(q)
    BY <1>6, <2>1, UsageKept DEF Book!Attach
  <2>2. Book!Balanced'
    BY <1>6, <2>1 DEF Book!Attach, Book!Balanced
  <2>3. QED
    BY <1>6, <2>2 DEF Book!Attach, AdjustedAreClosed, Book!Entry
<1>7. ASSUME NEW row \in Row, NEW p \in Periods \cup {NoPeriod}, Book!Adjust(row, p) PROVE BookInv'
  <2>1. \A q \in Periods : Book!Usage(q)' = Book!Usage(q)
    BY <1>7, UsageKept DEF Book!Adjust
  <2>2. Book!Balanced'
    BY <1>7, <2>1 DEF Book!Adjust, Book!Balanced
  <2>3. QED
    BY <1>7, <2>2 DEF Book!Adjust, AdjustedAreClosed, Book!Entry
<1>8. QED
  BY <1>1, <1>2, <1>3, <1>4, <1>5, <1>6, <1>7 DEF Book!BookNext, Book!Record, Book!book

(* In the book a closed period's usage charges always add up to its totals:
   no later event of any kind unbalances it. *)
THEOREM BookBalanced == Book!BookSpec => []Book!Balanced
<1>1. BookInv => Book!Balanced
  BY DEF BookInv
<1>2. QED
  BY <1>1, BookInvInit, BookInvStep, PTL DEF Book!BookSpec

(* The usage charges of a closed period add up to its realized savings: the
   reconciliation of lines 356-359 is never undone. *)
THEOREM BalanceKept == ASSUME OneOperator PROVE Spec => []BooksBalance
<1>1. Spec => Book!BookSpec
  BY OneOperator, BookRefined DEF ImplementsBook
<1>2. Book!Balanced => BooksBalance
  BY DEF Book!Balanced, Book!Usage, Book!Of, BooksBalance, UsageOf, ChargesOf
<1>3. QED
  BY <1>1, <1>2, BookBalanced, PTL

Kept == \A p \in Periods : status[p] = "closed" => status'[p] = "closed"

Final == \A p \in Periods : status[p] = "closed" => summary'[p] = summary[p]

Attached ==
    \A c \in charges' \ charges :
        c.source # "manual" /\ c.period # NoPeriod => status[c.period] = "open"

(* What a step of the book may do to what is closed, and to totals. *)
LEMMA SerialSteps == ASSUME SerialInv, [Next]_vars PROVE Kept /\ Final /\ Attached
<1> USE DEF Kept, Final, Attached
<1>1. status \in [Periods -> Statuses \cup {"absent"}] /\ summary \in [Periods -> SUBSET Requests]
  BY DEF SerialInv, SharedInv, TypeInv, TypeOK
<1>2. [Book!BookNext]_(Book!book)
  BY BookStepRefined
<1>3. CASE UNCHANGED <<ledger, status, summary, charges>>
  BY <1>3
<1>4. CASE \E r \in Requests : Book!Record(r)
  BY <1>4 DEF Book!Record
<1>5. ASSUME NEW p \in Periods, Book!Open(p) \/ Book!Refresh(p) \/ Book!Move(p) \/ Book!Close(p)
      PROVE  Kept /\ Final /\ Attached
  BY <1>1, <1>5 DEF Book!Open, Book!Refresh, Book!Move, Book!Close
<1>6. ASSUME NEW row \in Row, NEW p \in Periods \cup {NoPeriod}, Book!Attach(row, p)
      PROVE  Kept /\ Final /\ Attached
  BY <1>6 DEF Book!Attach, Book!Entry
<1>7. ASSUME NEW row \in Row, NEW p \in Periods \cup {NoPeriod}, Book!Adjust(row, p)
      PROVE  Kept /\ Final /\ Attached
  BY <1>7 DEF Book!Adjust, Book!Entry
<1>8. QED
  BY <1>2, <1>3, <1>4, <1>5, <1>6, <1>7 DEF Book!BookNext, Book!book

(* With one operator a closed period keeps its status and its totals, and a
   usage charge joins only an open period (lines 305, 354, 728, 791). *)
THEOREM ClosedIsFinal ==
  ASSUME OneOperator
  PROVE  Spec => ClosedStaysClosed /\ ClosedTotalsFinal /\ AttachedOnlyWhileOpen
<1>1. SerialInv /\ [Next]_vars => Kept /\ Final /\ Attached
  BY SerialSteps
<1>2. Spec => []SerialInv
  BY OneOperator, SerialCorrect
<1>3. QED
  BY <1>1, <1>2, PTL
     DEF Spec, ClosedStaysClosed, ClosedTotalsFinal, AttachedOnlyWhileOpen, Kept, Final, Attached

-----------------------------------------------------------------------------
(* Several operators *)

OverlapInv ==
    /\ SharedInv
    /\ \A h \in Handlers \ disturbed : Alone(call[h])

LEMMA OverlapStart == OverlapInit => OverlapInv
<1> SUFFICES ASSUME OverlapInit PROVE OverlapInv
  OBVIOUS
<1>1. SharedInv /\ \A h \in Handlers : Alone(call[h])
  BY SerialInit DEF OverlapInit, SerialInv
<1>2. QED
  BY <1>1 DEF OverlapInv

LEMMA OverlapStep == OverlapInv /\ [OverlapNext]_overlapVars => OverlapInv'
<1> SUFFICES ASSUME OverlapInv, [OverlapNext]_overlapVars PROVE OverlapInv'
  OBVIOUS
<1>1. [Next]_vars /\ SharedInv /\ SharedInv'
  BY SharedStep DEF OverlapInv, OverlapNext, overlapVars
<1>2. ASSUME NEW h \in Handlers, h \notin disturbed' PROVE Alone(call[h])'
  <2>1. CASE call'[h].at = "idle"
    BY <2>1 DEF Alone
  <2>2. CASE call'[h].at # "idle"
    <3>1. /\ h \notin disturbed
          /\ call'[h] # call[h] \/ UNCHANGED <<status, summary, charges>>
      BY <1>2, <2>2 DEF OverlapNext, Disturb, books, overlapVars, vars
    <3>2. QED
      BY <1>1, <3>1, AloneStays DEF OverlapInv
  <2>3. QED
    BY <2>1, <2>2
<1>3. QED
  BY <1>1, <1>2 DEF OverlapInv

(* Of any number of calls in progress, one that no other call has overlapped
   with a write does what the book allows: it creates the only period of its
   key, stores totals that contain those they replace, closes a period that
   balances, charges a period that is open (lines 272, 307, 350, 396, 789). *)
THEOREM UndisturbedFollowTheBook == OverlapSpec => UndisturbedByTheBook
<1> DEFINE Followed ==
      \A h \in Handlers \ disturbed : call'[h] # call[h] => [Book!BookNext]_(Book!book)
<1>1. OverlapInv /\ [OverlapNext]_overlapVars => [Followed]_vars
  <2> SUFFICES ASSUME OverlapInv, [OverlapNext]_overlapVars,
                      NEW h \in Handlers \ disturbed, call'[h] # call[h]
               PROVE  [Book!BookNext]_(Book!book)
    OBVIOUS
  <2>1. [Next]_vars /\ SharedInv /\ Alone(call[h])
    BY DEF OverlapInv, OverlapNext, overlapVars
  <2>2. PICK g \in Handlers : Moves(g)
    BY <2>1 DEF Next, Moves, LogRequest, RebuildRollups, vars
  <2>3. g = h
    BY <2>1, <2>2, OthersStay DEF SharedInv
  <2>4. QED
    BY <2>1, <2>2, <2>3, BookMoves
<1>2. QED
  BY <1>1, OverlapStart, OverlapStep, PTL DEF OverlapSpec, UndisturbedByTheBook
=============================================================================
