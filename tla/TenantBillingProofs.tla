------------------------ MODULE TenantBillingProofs ------------------------
(***************************************************************************)
(* Theorems about TenantBilling, for any tenants, callers, periods,        *)
(* subscriptions, charges and calls in progress, of readers and of         *)
(* operators.                                                              *)
(***************************************************************************)
EXTENDS TenantBilling, FiniteSetTheorems, TLAPS

CallType == [at : Steps, kind : AllKinds \cup {"none"},
             home : Tenants \cup {None}, tenant : Tenants \cup {None},
             period : Periods \cup {None}, first : Shown \cup {None}, again : 0..MaxTotal,
             charged : SUBSET (1..MaxCharges), found : Invoices \cup {None}, may : SUBSET Shown,
             sealed : BOOLEAN, todo : SUBSET Periods, offset : Nat,
             start : SUBSET (1..MaxCharges), seen : SUBSET (1..MaxCharges)]

\* What a call holds for its next statement.
Holds(o) ==
    /\ o.at \in {"read", "again", "sum", "read_invoice", "find", "write", "back"} => o.period # None
    /\ o.at \in {"again", "sum", "find", "write"} => o.first # None
    /\ o.at \in {"find", "write", "back", "read_invoice"} => o.may # {}
    /\ o.at \in {"read", "again", "sum"} /\ o.kind # "report" => o.may # {}
    /\ o.at \in {"list", "fallback", "read_invoice", "find", "write", "back", "page"} => o.kind # "report"
    /\ o.at = "answered" /\ o.kind = "report" => o.period # None
    /\ o.may # {} => o.period # None
    /\ o.at \in {"page", "list", "fallback"} => o.tenant # None
    /\ o.at # "idle" => o.kind # "none"

RowType == [status : Statuses \cup {"absent"}, total : 0..MaxTotal]

TableType ==
    /\ row \in [Periods -> RowType]
    /\ made \in 0..MaxCharges
    /\ charge \in [1..MaxCharges -> Billable \cup {None}]
    /\ \A i \in Charges : charge[i] # None
    /\ invoice \in [Invoices -> InvoiceRows \cup {None}]

Written(o) == o.at = "back" => o.found # None /\ invoice[o.found] # None

LEMMA IdleHolds == Idle \in CallType /\ Holds(Idle) /\ Idle.at = "idle"
  BY TenantBillingAssumption DEF Idle, CallType, Holds, Steps, AllKinds

-----------------------------------------------------------------------------
(* The operator's calls *)

WorkRecord == [at : WorkSteps, period : Periods \cup {None}, want : Statuses, total : 0..MaxTotal]

\* What a call holds for its next statement; only "closed" is reconciled.
WorkHolds(w) ==
    /\ w.at \notin {"idle", "charge", "adjust"} => w.period # None
    /\ w.at \in {"reconcile", "compare"} => w.want = "closed"

WorkType == work \in [Operators -> WorkRecord] /\ \A o \in Operators : WorkHolds(work[o])

\* Late, of what a call is doing.
LateIn(w, p) ==
    /\ w.period = p
    /\ w.at \in {"store_totals", "charge"} \/ (w.at = "write_status" /\ w.want # "closed")

\* No step makes a call late for a period that is closed.
WorkGoesOn(o) ==
    \E w \in WorkRecord :
        /\ work' = [work EXCEPT ![o] = w]
        /\ WorkHolds(w)
        /\ \A p \in Periods : LateIn(w, p) => LateIn(work[o], p) \/ row[p].status # "closed"

LEMMA IdleWork == NoWork \in WorkRecord /\ WorkHolds(NoWork) /\ \A p \in Periods : ~LateIn(NoWork, p)
<1>1. 0 \in 0..MaxTotal
  BY TenantBillingAssumption
<1>2. QED
  BY <1>1 DEF NoWork, WorkRecord, WorkHolds, WorkSteps, Statuses, LateIn

LEMMA FinishGoesOn ==
  ASSUME NEW o \in Operators, Finish(o)
  PROVE  WorkGoesOn(o)
BY IdleWork DEF Finish, WorkGoesOn

LEMMA ProceedGoesOn ==
  ASSUME WorkType, NEW o \in Operators, NEW step \in WorkSteps, Proceed(o, step),
         work[o].at \notin {"idle", "charge", "adjust"},
         step \in {"write_status", "move_to_closing"},
         step = "write_status" => work[o].want = "closed" \/ row[work[o].period].status # "closed"
  PROVE  WorkGoesOn(o)
<1>1. PICK v : v = work[o]
  OBVIOUS
<1>2. PICK w : w = [v EXCEPT !.at = step]
  OBVIOUS
<1>3. v \in WorkRecord /\ WorkHolds(v)
  BY <1>1 DEF WorkType
<1>4. /\ w \in WorkRecord /\ w.at = step /\ w.want = v.want /\ w.period = v.period
  BY <1>2, <1>3 DEF WorkRecord
<1>5. work' = [work EXCEPT ![o] = w]
  BY <1>1, <1>2 DEF Proceed, WorkType
<1>6. WorkHolds(w)
  BY <1>1, <1>3, <1>4 DEF WorkHolds
<1>7. \A p \in Periods : LateIn(w, p) => row[p].status # "closed"
  BY <1>1, <1>4 DEF LateIn
<1>8. QED
  BY <1>4, <1>5, <1>6, <1>7 DEF WorkGoesOn

LEMMA UndertakeGoesOn ==
  ASSUME WorkType, NEW o \in Operators, NEW task, NEW step \in WorkSteps,
         NEW p \in Periods \cup {None}, NEW want \in Statuses, Undertake(o, task, step, p, want),
         step \notin {"charge", "adjust"} => p # None,
         step \in {"reconcile", "compare"} => want = "closed",
         step \in {"store_totals", "charge"} \/ (step = "write_status" /\ want # "closed") =>
            p = None \/ row[p].status # "closed"
  PROVE  WorkGoesOn(o)
<1>1. PICK w : w = [NoWork EXCEPT !.at = step, !.period = p, !.want = want]
  OBVIOUS
<1>2. w \in WorkRecord /\ w.at = step /\ w.want = want /\ w.period = p
  BY <1>1, IdleWork DEF WorkRecord
<1>3. work' = [work EXCEPT ![o] = w]
  BY <1>1 DEF Undertake
<1>4. WorkHolds(w)
  BY <1>2 DEF WorkHolds
<1>5. None \notin Periods
  BY TenantBillingAssumption
<1>6. \A q \in Periods : LateIn(w, q) => row[q].status # "closed"
  BY <1>2, <1>5 DEF LateIn
<1>7. QED
  BY <1>2, <1>3, <1>4, <1>6 DEF WorkGoesOn

LEMMA UnchangedGoesOn ==
  ASSUME WorkType, NEW o \in Operators, work' = work
  PROVE  WorkGoesOn(o)
<1>1. work' = [work EXCEPT ![o] = work[o]] /\ work[o] \in WorkRecord /\ WorkHolds(work[o])
  BY DEF WorkType
<1>2. QED
  BY <1>1 DEF WorkGoesOn

LEMMA OperatorWorks ==
  ASSUME TableType, WorkType, NEW o \in Operators, Operator(o)
  PROVE  WorkGoesOn(o)
<1>0. {"closing", "open", "closed"} = Statuses /\ None \notin Periods
  BY TenantBillingAssumption DEF Statuses
<1>1. ASSUME NEW p \in Periods, CreatePeriod(o, p) PROVE WorkGoesOn(o)
  BY <1>1, UnchangedGoesOn DEF CreatePeriod
<1>2. ASSUME NEW p \in Periods, Summarize(o, p) PROVE WorkGoesOn(o)
  <2>1. Undertake(o, "summarize", "store_totals", p, "closing") /\ row[p].status # "closed"
    BY <1>2 DEF Summarize, Live
  <2>2. QED
    BY <1>0, <2>1, UndertakeGoesOn DEF WorkSteps
<1>3. ASSUME NEW p \in Periods, NEW want \in Statuses, SetStatus(o, p, want) PROVE WorkGoesOn(o)
  <2>1. PICK step : step = StatusStep(want)
    OBVIOUS
  <2>2. /\ step \in {"reconcile", "write_status"} /\ (step = "reconcile" <=> want = "closed")
        /\ Undertake(o, want, step, p, want) /\ (row[p].status = "closed" => want = "closed")
    BY <1>3, <2>1 DEF SetStatus, StatusStep, Accepts
  <2>3. step \in WorkSteps
    BY <2>2 DEF WorkSteps
  <2>4. QED
    BY <1>0, <2>2, <2>3, UndertakeGoesOn
<1>4. ASSUME NEW p \in Periods \cup {None}, Materialize(o, p) PROVE WorkGoesOn(o)
  <2>1. Undertake(o, "materialize", "charge", p, "open") /\ (p # None => row[p].status # "closed")
    BY <1>4 DEF Materialize
  <2>2. QED
    BY <1>0, <2>1, UndertakeGoesOn DEF WorkSteps
<1>5. ASSUME NEW p \in Periods \cup {None}, Adjust(o, p) PROVE WorkGoesOn(o)
  <2>1. Undertake(o, "adjust", "adjust", p, "open")
    BY <1>5 DEF Adjust
  <2>2. QED
    BY <1>0, <2>1, UndertakeGoesOn DEF WorkSteps
<1>6. ASSUME NEW total \in 0..MaxTotal, StoreTotals(o, total) PROVE WorkGoesOn(o)
  BY <1>6, FinishGoesOn, ProceedGoesOn DEF StoreTotals, Doing, WorkSteps
<1>7. CASE MoveToClosing(o)
  <2>1. work[o].at = "move_to_closing"
    BY <1>7 DEF MoveToClosing, Doing
  <2>2. CASE Finish(o)
    BY <2>2, FinishGoesOn
  <2>3. CASE Proceed(o, "write_status") /\ Accepts(work[o].period, "closing")
    <3>1. row[work[o].period].status # "closed"
      BY <2>3 DEF Accepts
    <3>2. QED
      BY <2>1, <2>3, <3>1, ProceedGoesOn DEF WorkSteps
  <2>4. QED
    BY <1>7, <2>2, <2>3 DEF MoveToClosing
<1>8. CASE ReconcileRead(o)
  <2>1. PICK v : v = work[o]
    OBVIOUS
  <2>2. PICK t : t = row[v.period].total
    OBVIOUS
  <2>3. PICK w : w = [v EXCEPT !.at = "compare", !.total = t]
    OBVIOUS
  <2>4. v \in WorkRecord /\ WorkHolds(v) /\ v.at = "reconcile"
    BY <1>8, <2>1 DEF WorkType, ReconcileRead, Doing
  <2>5. v.period \in Periods
    BY <2>4 DEF WorkHolds, WorkRecord
  <2>6. t \in 0..MaxTotal
    BY <2>2, <2>5 DEF TableType, RowType
  <2>7. work' = [work EXCEPT ![o] = w]
    BY <1>8, <2>1, <2>2, <2>3 DEF ReconcileRead, WorkType
  <2>8. w \in WorkRecord /\ w.at = "compare" /\ w.period = v.period /\ w.want = v.want
    BY <2>3, <2>4, <2>6 DEF WorkRecord, WorkSteps
  <2>9. WorkHolds(w) /\ \A p \in Periods : ~LateIn(w, p)
    BY <2>4, <2>8 DEF WorkHolds, LateIn
  <2>10. QED
    BY <2>7, <2>8, <2>9 DEF WorkGoesOn
<1>9. CASE ReconcileCompare(o)
  <2>1. work[o].at = "compare" /\ work[o].want = "closed"
    BY <1>9 DEF ReconcileCompare, Doing, WorkType, WorkHolds
  <2>2. Finish(o) \/ Proceed(o, "write_status")
    BY <1>9 DEF ReconcileCompare
  <2>3. QED
    BY <2>1, <2>2, FinishGoesOn, ProceedGoesOn DEF WorkSteps
<1>10. CASE WriteStatus(o)
  BY <1>10, FinishGoesOn DEF WriteStatus
<1>11. ASSUME NEW x \in Billable, InsertCharge(o, x) PROVE WorkGoesOn(o)
  BY <1>11, UnchangedGoesOn DEF InsertCharge
<1>12. ASSUME NEW x \in Billable, InsertAdjustment(o, x) PROVE WorkGoesOn(o)
  BY <1>12, FinishGoesOn DEF InsertAdjustment
<1>13. CASE WorkEnds(o)
  BY <1>13, FinishGoesOn DEF WorkEnds
<1>14. QED
  BY <1>1, <1>2, <1>3, <1>4, <1>5, <1>6, <1>7, <1>8, <1>9, <1>10, <1>11, <1>12, <1>13 DEF Operator

\* What the operator writes of a row: nothing, or a row that leaves the status
\* and the totals of a period closed for good.
RowGoesOn ==
    \/ row' = row /\ call' = call
    \/ \E p \in Periods, r \in RowType :
         Store(p, r) /\ (Sealed(p) => r.status = "closed" /\ r.total = row[p].total)

LEMMA OperatorRows ==
  ASSUME TableType, WorkType, NEW o \in Operators, Operator(o)
  PROVE  RowGoesOn
<1>1. ASSUME NEW p \in Periods, CreatePeriod(o, p) PROVE RowGoesOn
  <2>1. PICK r : r = [row[p] EXCEPT !.status = "open"]
    OBVIOUS
  <2>2. r \in RowType /\ Store(p, r) /\ ~Sealed(p)
    BY <1>1, <2>1 DEF CreatePeriod, TableType, RowType, Statuses, Sealed
  <2>3. QED
    BY <2>2 DEF RowGoesOn
<1>2. ASSUME NEW total \in 0..MaxTotal, StoreTotals(o, total) PROVE RowGoesOn
  <2>1. PICK p \in Periods : p = work[o].period
    BY <1>2 DEF StoreTotals, Doing, WorkType, WorkHolds, WorkRecord
  <2>2. PICK r : r = [row[p] EXCEPT !.total = total]
    OBVIOUS
  <2>3. r \in RowType /\ Store(p, r)
    BY <1>2, <2>1, <2>2 DEF StoreTotals, TableType, RowType
  <2>4. ~Sealed(p)
    BY <1>2, <2>1 DEF StoreTotals, Sealed, Late, Doing
  <2>5. QED
    BY <2>3, <2>4 DEF RowGoesOn
<1>3. CASE WriteStatus(o)
  <2>1. PICK p \in Periods : p = work[o].period
    BY <1>3 DEF WriteStatus, Doing, WorkType, WorkHolds, WorkRecord
  <2>2. PICK want \in Statuses : want = work[o].want
    BY DEF WorkType, WorkRecord
  <2>3. PICK r : r = [row[p] EXCEPT !.status = want]
    OBVIOUS
  <2>4. r \in RowType /\ r.status = want /\ r.total = row[p].total /\ Store(p, r)
    BY <1>3, <2>1, <2>2, <2>3 DEF WriteStatus, TableType, RowType
  <2>5. Sealed(p) => want = "closed"
    BY <1>3, <2>1, <2>2 DEF WriteStatus, Sealed, Late, Doing
  <2>6. QED
    BY <2>4, <2>5 DEF RowGoesOn
<1>4. ASSUME UNCHANGED <<row, call>> PROVE RowGoesOn
  BY <1>4 DEF RowGoesOn
<1>5. QED
  BY <1>1, <1>2, <1>3, <1>4 DEF Operator, Summarize, SetStatus, Materialize, Adjust, MoveToClosing,
     ReconcileRead, ReconcileCompare, InsertCharge, InsertAdjustment, Insert, WorkEnds

\* A step that charges leaves what was charged where it was.
Charged ==
    /\ made' \in Nat /\ made <= made'
    /\ \A i \in 1..made : charge'[i] = charge[i]

\* What the operator charges: nothing, or one row, that is no usage of a period
\* closed for good.
ChargesGoOn ==
    \/ UNCHANGED <<charge, made>>
    \/ \E x \in Billable : Insert(x) /\ \A p \in Periods :
         Sealed(p) /\ x.period = p => x.kind = "manual_adjustment"

LEMMA OperatorCharges ==
  ASSUME NEW o \in Operators, Operator(o)
  PROVE  ChargesGoOn /\ invoice' = invoice
<1>1. ASSUME NEW x \in Billable, InsertCharge(o, x) PROVE ChargesGoOn /\ invoice' = invoice
  <2>1. \A p \in Periods : x.period = p => ~Sealed(p)
    BY <1>1 DEF InsertCharge, Sealed, Late, Doing
  <2>2. Insert(x)
    BY <1>1 DEF InsertCharge
  <2>3. QED
    BY <2>1, <2>2 DEF ChargesGoOn, Insert
<1>2. ASSUME NEW x \in Billable, InsertAdjustment(o, x) PROVE ChargesGoOn /\ invoice' = invoice
  BY <1>2 DEF InsertAdjustment, ChargesGoOn, Insert
<1>3. ASSUME UNCHANGED <<charge, made, invoice>> PROVE ChargesGoOn /\ invoice' = invoice
  BY <1>3 DEF ChargesGoOn
<1>4. QED
  BY <1>1, <1>2, <1>3 DEF Operator, CreatePeriod, Summarize, StoreTotals, SetStatus, MoveToClosing,
     ReconcileRead, ReconcileCompare, WriteStatus, Materialize, Adjust, WorkEnds

\* What no step does: it takes no charge back, and leaves the status, the totals
\* and the usage of a period that is closed for good.
Steady ==
    /\ Charged
    /\ \A p \in Periods : Sealed(p) => Sealed(p)' /\ row'[p].total = row[p].total /\ Usage(p)' = Usage(p)

LEMMA InsertCharges ==
  ASSUME TableType, NEW x \in Billable, Insert(x)
  PROVE  /\ Charged /\ made' \in 0..MaxCharges
         /\ charge' \in [1..MaxCharges -> Billable \cup {None}]
         /\ \A i \in Charges' : charge'[i] # None
         /\ \A p \in Periods : x.period # p \/ x.kind = "manual_adjustment" => Usage(p)' = Usage(p)
<1>1. PICK n : n = made + 1
  OBVIOUS
<1>2. made \in Nat /\ n \in 1..MaxCharges /\ n \notin 1..made /\ 1..n = 1..made \cup {n}
  BY <1>1, TenantBillingAssumption DEF Insert, TableType
<1>3. /\ made' = n /\ charge' \in [1..MaxCharges -> Billable \cup {None}] /\ charge'[n] = x
      /\ \A i \in 1..made : charge'[i] = charge[i]
  BY <1>1, <1>2, TenantBillingAssumption DEF Insert, TableType
<1>4. x # None
  BY TenantBillingAssumption
<1>5. Charged /\ made' \in 0..MaxCharges /\ \A i \in Charges' : charge'[i] # None
  BY <1>1, <1>2, <1>3, <1>4 DEF Charged, Charges, TableType
<1>6. ASSUME NEW p \in Periods, x.period # p \/ x.kind = "manual_adjustment"
      PROVE  Usage(p)' = Usage(p)
  <2>1. Usage(p) = {i \in 1..made : charge[i].period = p /\ charge[i].kind # "manual_adjustment"}
    BY DEF Usage, OfPeriod, Adjustments, Charges
  <2>2. Usage(p)' = {i \in 1..n : charge'[i].period = p /\ charge'[i].kind # "manual_adjustment"}
    BY <1>3 DEF Usage, OfPeriod, Adjustments, Charges
  <2>3. QED
    BY <1>2, <1>3, <1>6, <2>1, <2>2
<1>7. QED
  BY <1>3, <1>5, <1>6

LEMMA OperatorMoves ==
  ASSUME TableType, WorkType, NEW o \in Operators, Operator(o)
  PROVE  TableType' /\ WorkType' /\ Steady /\ RowGoesOn /\ invoice' = invoice
<1>1. WorkGoesOn(o) /\ RowGoesOn /\ ChargesGoOn /\ invoice' = invoice
  BY OperatorWorks, OperatorRows, OperatorCharges
<1>2. WorkType'
  BY <1>1 DEF WorkGoesOn, WorkType
<1>3. row' \in [Periods -> RowType]
  BY <1>1 DEF RowGoesOn, Store, TableType
<1>4. ASSUME NEW p \in Periods, Sealed(p)
      PROVE  row'[p].status = "closed" /\ row'[p].total = row[p].total
  <2>1. row[p].status = "closed"
    BY <1>4 DEF Sealed
  <2>2. CASE row' = row
    BY <2>1, <2>2
  <2>3. ASSUME NEW q \in Periods, NEW r \in RowType, Store(q, r),
               Sealed(q) => r.status = "closed" /\ r.total = row[q].total
        PROVE  row'[p].status = "closed" /\ row'[p].total = row[p].total
    <3>1. row'[q] = r /\ \A k \in Periods \ {q} : row'[k] = row[k]
      BY <2>3 DEF Store, TableType
    <3>2. QED
      BY <1>4, <2>1, <2>3, <3>1
  <2>4. QED
    BY <1>1, <2>2, <2>3 DEF RowGoesOn
<1>5. ASSUME NEW p \in Periods, Sealed(p) PROVE Sealed(p)'
  <2>1. PICK w \in WorkRecord :
          /\ work' = [work EXCEPT ![o] = w]
          /\ LateIn(w, p) => LateIn(work[o], p) \/ row[p].status # "closed"
    BY <1>1 DEF WorkGoesOn
  <2>2. row[p].status = "closed" /\ \A k \in Operators : ~LateIn(work[k], p)
    BY <1>5 DEF Sealed, Late, LateIn, Doing
  <2>3. \A k \in Operators : ~LateIn(work'[k], p)
    BY <2>1, <2>2 DEF WorkType
  <2>4. QED
    BY <1>4, <1>5, <2>3 DEF Sealed, Late, LateIn, Doing
<1>6. /\ Charged /\ made' \in 0..MaxCharges /\ charge' \in [1..MaxCharges -> Billable \cup {None}]
      /\ \A i \in Charges' : charge'[i] # None
      /\ \A p \in Periods : Sealed(p) => Usage(p)' = Usage(p)
  <2>1. CASE UNCHANGED <<charge, made>>
    <3>1. Charged
      BY <2>1, TenantBillingAssumption DEF Charged, TableType
    <3>2. \A p \in Periods : Usage(p)' = Usage(p)
      BY <2>1 DEF Usage, OfPeriod, Adjustments, Charges
    <3>3. QED
      BY <2>1, <3>1, <3>2 DEF TableType, Charges
  <2>2. ASSUME NEW x \in Billable, Insert(x),
               \A p \in Periods : Sealed(p) /\ x.period = p => x.kind = "manual_adjustment"
        PROVE  /\ Charged /\ made' \in 0..MaxCharges
               /\ charge' \in [1..MaxCharges -> Billable \cup {None}]
               /\ \A i \in Charges' : charge'[i] # None
               /\ \A p \in Periods : Sealed(p) => Usage(p)' = Usage(p)
    BY <2>2, InsertCharges
  <2>3. QED
    BY <1>1, <2>1, <2>2 DEF ChargesGoOn
<1>7. TableType'
  BY <1>1, <1>3, <1>6 DEF TableType, Charges
<1>8. Steady
  BY <1>4, <1>5, <1>6 DEF Steady
<1>9. QED
  BY <1>1, <1>2, <1>7, <1>8

\* A step that writes none of the tables but the invoices.
LEMMA NothingMoves ==
  ASSUME TableType, UNCHANGED <<row, charge, made, work>>
  PROVE  Steady
<1>1. Charged
  BY TenantBillingAssumption DEF Charged, TableType
<1>2. \A p \in Periods : Usage(p)' = Usage(p) /\ Sealed(p)' = Sealed(p)
  BY DEF Usage, OfPeriod, Adjustments, Charges, Sealed, Late, Doing
<1>3. QED
  BY <1>1, <1>2 DEF Steady

\* Sums of charges that were there before stay what they were.
LEMMA BilledStays ==
  ASSUME TableType, Charged
  PROVE  /\ \A p \in Periods : Usage(p)' = Usage(p) => Billed(Usage(p))' = Billed(Usage(p))
         /\ \A S \in SUBSET (1..MaxCharges) : S \subseteq Charges =>
              S \subseteq Charges' /\ Billed(S \ Adjustments)' = Billed(S \ Adjustments)
<1>1. made \in Nat /\ made' \in Nat /\ made <= made' /\ \A i \in 1..made : charge'[i] = charge[i]
  BY TenantBillingAssumption DEF Charged, TableType
<1>2. 1..made \subseteq 1..made'
  BY <1>1
<1>3. ASSUME NEW U \in SUBSET (1..made)
      PROVE  SumFunction([i \in U |-> charge'[i].amount]) = SumFunction([i \in U |-> charge[i].amount])
  <2>1. [i \in U |-> charge'[i].amount] = [i \in U |-> charge[i].amount]
    BY <1>1
  <2>2. QED
    BY <2>1
<1>4. ASSUME NEW p \in Periods, Usage(p)' = Usage(p) PROVE Billed(Usage(p))' = Billed(Usage(p))
  <2>1. Usage(p) \in SUBSET (1..made)
    BY DEF Usage, OfPeriod, Charges
  <2>2. Billed(Usage(p))' = SumFunction([i \in Usage(p)' |-> charge'[i].amount])
    BY DEF Billed
  <2>3. Billed(Usage(p)) = SumFunction([i \in Usage(p) |-> charge[i].amount])
    BY DEF Billed
  <2>4. QED
    BY <1>3, <1>4, <2>1, <2>2, <2>3
<1>5. ASSUME NEW S \in SUBSET (1..MaxCharges), S \subseteq Charges
      PROVE  S \subseteq Charges' /\ Billed(S \ Adjustments)' = Billed(S \ Adjustments)
  <2>1. S \subseteq 1..made
    BY <1>5 DEF Charges
  <2>2. S \ Adjustments' = S \ Adjustments
    BY <1>1, <1>2, <2>1 DEF Adjustments, Charges
  <2>3. Billed(S \ Adjustments)' = SumFunction([i \in S \ Adjustments' |-> charge'[i].amount])
    BY DEF Billed
  <2>4. Billed(S \ Adjustments) = SumFunction([i \in S \ Adjustments |-> charge[i].amount])
    BY DEF Billed
  <2>5. S \ Adjustments \in SUBSET (1..made)
    BY <2>1
  <2>6. QED
    BY <1>2, <1>3, <2>1, <2>2, <2>3, <2>4, <2>5 DEF Charges
<1>6. QED
  BY <1>4, <1>5

-----------------------------------------------------------------------------
(* What is true of each call *)

Own(o) ==
    /\ o.home # None => o.tenant = o.home /\ \A p \in o.todo : PeriodTenant[p] = o.home
    /\ o.period # None =>
          \/ PeriodTenant[o.period] = o.tenant
          \/ SubTenant[PeriodSub[o.period]] = o.tenant

Sound(o) == o \in CallType /\ Holds(o) /\ Own(o)

\* Reported, of what a call holds.
Told(o) ==
    \/ o.at = "answered" /\ o.kind = "report"
    \/ o.at = "read_invoice" /\ o.kind = "overview"

\* What a report has read of a period closed for good is still so until it is
\* told, and was so then.
ReportSound(o, p, S) ==
    o.sealed /\ o.period = p /\ o.charged = S =>
        /\ o.at \in {"again", "sum"} =>
              /\ Sealed(p) /\ o.first.closed /\ o.first.total = row[p].total
              /\ Billed(Usage(p)) = o.first.total
        /\ o.at = "sum" => o.again = o.first.total
        /\ Told(o) =>
              /\ o.first.closed /\ o.again = o.first.total
              /\ S \subseteq Charges /\ Billed(S \ Adjustments) = o.first.total

Sums == SUBSET (1..MaxCharges)
ReportHolds(o) == \A p \in Periods, S \in Sums : ReportSound(o, p, S)
Reports == \A c \in Calls : ReportHolds(call[c])

\* What a preview may show is what its period shows, and what every preview of
\* that period has read that is still to be written.
Fresh ==
    \A c \in Calls : call[c].may # {} =>
        /\ Shows(call[c].period) \in call[c].may
        /\ \A d \in Reading(call[c].period) : call[d].first \in call[c].may
        /\ At(c, "back") => Answer(c) \in call[c].may

\* The invoice a call has found is one of its period.
Found ==
    \A c \in Calls : call[c].at \in {"write", "back"} /\ call[c].found # None =>
        invoice[call[c].found] # None /\ invoice[call[c].found].period = call[c].period

\* Calls about to insert an invoice of p.
Inserting(p) == {c \in Calls : At(c, "write") /\ call[c].found = None /\ call[c].period = p}

Few ==
    \A p \in Periods :
        /\ IsFiniteSet(InvoicesOf(p))
        /\ Cardinality(InvoicesOf(p)) + Cardinality(Inserting(p)) <= Cardinality(Calls)

Inv ==
    /\ TableType /\ WorkType
    /\ call \in [Calls -> CallType]
    /\ \A c \in Calls : Sound(call[c]) /\ Written(call[c])
    /\ Reports /\ Fresh /\ Found /\ Few

\* The same report.
Alike(x, y) ==
    /\ x.at = y.at /\ x.kind = y.kind /\ x.period = y.period /\ x.first = y.first
    /\ x.again = y.again /\ x.charged = y.charged /\ x.sealed = y.sealed

LEMMA ReportsStay ==
  ASSUME TableType, Steady,
         \A d \in Calls : \E q : Alike(call'[d], q) /\ ReportHolds(q)
  PROVE  Reports'
<1>1. SUFFICES ASSUME NEW d \in Calls, NEW p \in Periods, NEW S \in Sums,
                      call'[d].sealed, call'[d].period = p, call'[d].charged = S
               PROVE  /\ call'[d].at \in {"again", "sum"} =>
                            /\ Sealed(p)' /\ call'[d].first.closed
                            /\ call'[d].first.total = row'[p].total
                            /\ Billed(Usage(p))' = call'[d].first.total
                      /\ call'[d].at = "sum" => call'[d].again = call'[d].first.total
                      /\ Told(call'[d]) =>
                            /\ call'[d].first.closed /\ call'[d].again = call'[d].first.total
                            /\ S \subseteq Charges' /\ Billed(S \ Adjustments)' = call'[d].first.total
  BY DEF Reports, ReportHolds, ReportSound, Told
<1>2. PICK q : Alike(call'[d], q) /\ ReportSound(q, p, S)
  BY <1>1 DEF ReportHolds
<1>3. PICK o : o = call'[d]
  OBVIOUS
<1>4. /\ o.at = q.at /\ o.kind = q.kind /\ o.period = q.period /\ o.first = q.first
      /\ o.again = q.again /\ o.charged = q.charged /\ o.sealed = q.sealed
  BY <1>2, <1>3 DEF Alike
<1>5. Told(o) <=> Told(q)
  BY <1>4 DEF Told
<1>6. /\ q.at \in {"again", "sum"} =>
            /\ Sealed(p) /\ q.first.closed /\ q.first.total = row[p].total
            /\ Billed(Usage(p)) = q.first.total
      /\ q.at = "sum" => q.again = q.first.total
      /\ Told(q) =>
            /\ q.first.closed /\ q.again = q.first.total
            /\ S \subseteq Charges /\ Billed(S \ Adjustments) = q.first.total
  BY <1>1, <1>2, <1>3, <1>4 DEF ReportSound
<1>7. Sealed(p) => Sealed(p)' /\ row'[p].total = row[p].total /\ Billed(Usage(p))' = Billed(Usage(p))
  BY BilledStays DEF Steady
<1>8. S \subseteq Charges => S \subseteq Charges' /\ Billed(S \ Adjustments)' = Billed(S \ Adjustments)
  BY BilledStays DEF Steady, Sums
<1>9. QED
  BY <1>3, <1>4, <1>5, <1>6, <1>7, <1>8

-----------------------------------------------------------------------------
(* The steps of calls *)

\* A step of c that writes nothing, and after which c is not about to.
Quiet(c, o) ==
    /\ call' = [call EXCEPT ![c] = o] /\ UNCHANGED <<row, charge, made, invoice, work>>
    /\ Sound(o)
    /\ ReportHolds(o)
    /\ o.at \notin {"write", "back"}
    /\ o.at = "find" => o.first = Shows(o.period)
    /\ o.may # {} =>
          \/ o.may = call[c].may /\ o.period = call[c].period
          \/ o.may = Views(o.period)

\* A call that has not read a period closed for good has nothing to keep.
LEMMA NotSealed ==
  ASSUME NEW o, (o.at \notin {"again", "sum"} /\ ~Told(o)) \/ ~o.sealed
  PROVE  ReportHolds(o)
BY DEF ReportHolds, ReportSound

LEMMA ShowsShown == TableType => \A p \in Periods : Shows(p) \in Shown
  BY DEF TableType, RowType, Shows, ShownOf, Shown

LEMMA ViewsShown == Inv => \A p \in Periods : Views(p) \in SUBSET Shown /\ Views(p) # {}
<1> SUFFICES ASSUME Inv, NEW p \in Periods PROVE Views(p) \in SUBSET Shown /\ Views(p) # {}
  OBVIOUS
<1>1. Shows(p) \in Shown
  BY ShowsShown DEF Inv
<1>2. \A d \in Reading(p) : call[d].first \in Shown
  BY DEF Inv, Reading, Sound, Holds, CallType
<1>3. QED
  BY <1>1, <1>2 DEF Views

LEMMA StartMoves ==
  ASSUME Inv, NEW c \in Calls, NEW kind \in AllKinds, NEW home, NEW t, NEW p \in Periods,
         NEW step, NEW todo \in SUBSET Periods,
         Start(c, kind, home, t, p, step, todo), UNCHANGED <<row, charge, made, invoice, work>>,
         home \in Tenants \cup {None}, t \in Tenants \cup {None},
         step \in {"read", "read_invoice"}, kind = "report" => step = "read",
         home # None => t = home /\ \A q \in todo : PeriodTenant[q] = home,
         PeriodTenant[p] = t \/ SubTenant[PeriodSub[p]] = t
  PROVE  \E o : Quiet(c, o)
<1>1. PICK f : f = IF kind = "report" THEN {} ELSE Views(p)
  OBVIOUS
<1> DEFINE o == [Idle EXCEPT !.at = step, !.kind = kind, !.home = home, !.tenant = t,
                             !.period = p, !.todo = todo, !.may = f]
<1>2. /\ f \in SUBSET Shown
      /\ kind = "report" => f = {}
      /\ kind # "report" => f # {} /\ f = Views(p)
  BY <1>1, ViewsShown
<1>3. /\ o.at = step /\ o.kind = kind /\ o.home = home /\ o.tenant = t /\ o.period = p
      /\ o.may = f /\ o.todo = todo /\ o.sealed = FALSE
  BY DEF Idle
<1>4. o \in CallType
  BY ZenonT(60), <1>2, IdleHolds DEF CallType, Steps
<1>5. call' = [call EXCEPT ![c] = o]
  BY <1>1 DEF Start
<1> HIDE DEF o
<1>6. p # None
  BY TenantBillingAssumption
<1>7. Holds(o)
  BY <1>2, <1>3, <1>6 DEF Holds, AllKinds
<1>8. Own(o)
  BY <1>3, <1>6 DEF Own
<1>9. ReportHolds(o)
  BY <1>3, NotSealed
<1>10. o.may # {} => o.may = Views(o.period)
  BY <1>2, <1>3
<1>11. Quiet(c, o)
  BY <1>3, <1>4, <1>5, <1>7, <1>8, <1>9, <1>10 DEF Quiet, Sound
<1>12. QED
  BY <1>11

\* What is asked about is the caller's.
LEMMA ScopeIsHome ==
  ASSUME NEW who \in Who, NEW requested \in Tenants \cup {None}
  PROVE  /\ ScopeTenant(who, requested) \in Tenants \cup {None}
         /\ Home(who, ScopeTenant(who, requested)) \in Tenants \cup {None}
         /\ ScopeTenant(who, requested) # None =>
              Home(who, ScopeTenant(who, requested)) = ScopeTenant(who, requested)
<1>1. who.tenant \in Tenants \cup {None}
  BY TenantBillingAssumption
<1>2. ScopeTenant(who, requested) \in {who.tenant, requested, None}
  BY DEF ScopeTenant
<1>3. who.tenant # None => ScopeTenant(who, requested) \in {who.tenant, None}
  BY DEF ScopeTenant
<1>4. QED
  BY <1>1, <1>2, <1>3 DEF Home

LEMMA OwnPeriod ==
  ASSUME NEW t, NEW p \in PeriodsOf(t)
  PROVE  p \in Periods /\ PeriodTenant[p] = t /\ t # None
  BY TenantBillingAssumption DEF PeriodsOf

\* A call that is asked something and has read nothing yet.
LEMMA AskedMoves ==
  ASSUME Inv, NEW c \in Calls, NEW o, call' = [call EXCEPT ![c] = o],
         UNCHANGED <<row, charge, made, invoice, work>>,
         o \in CallType, o.at \in {"list", "next", "page"}, o.period = None, o.may = {},
         o.at # "next" => o.kind # "report" /\ o.tenant # None, o.kind # "none",
         o.home # None => o.tenant = o.home /\ \A q \in o.todo : PeriodTenant[q] = o.home
  PROVE  Quiet(c, o)
<1>1. Holds(o) /\ Own(o) /\ ReportHolds(o)
  BY NotSealed DEF Holds, Own, Told
<1>2. QED
  BY <1>1 DEF Quiet, Sound

LEMMA AskMoves ==
  ASSUME Inv, NEW c \in Calls, Ask(c)
  PROVE  \E o : Quiet(c, o)
<1>1. Kinds[c] \subseteq AllKinds
  BY TenantBillingAssumption
<1>2. ASSUME NEW who \in Who, NEW requested \in Tenants \cup {None}, NEW kind \in Kinds[c],
             NEW p \in Periods, AskPeriod(c, who, requested, kind, p)
      PROVE  \E o : Quiet(c, o)
  <2> DEFINE t == ScopeTenant(who, requested)
  <2>1. /\ kind \in {"report", "invoice"} /\ p \in PeriodsOf(t)
        /\ Start(c, kind, Home(who, t), t, p, FirstStep(kind), {})
        /\ UNCHANGED <<row, charge, made, invoice, work>>
    BY <1>2 DEF AskPeriod
  <2> HIDE DEF t
  <2>2. PeriodTenant[p] = t /\ t # None
    BY <2>1, OwnPeriod
  <2>3. Home(who, t) \in Tenants \cup {None} /\ t \in Tenants \cup {None} /\ t = Home(who, t)
    BY <2>2, ScopeIsHome DEF t
  <2>4. FirstStep(kind) \in {"read", "read_invoice"} /\ (kind = "report" => FirstStep(kind) = "read")
    BY DEF FirstStep
  <2>5. QED
    BY <1>1, <2>1, <2>2, <2>3, <2>4, StartMoves
<1>3. ASSUME NEW who \in Who, NEW requested \in Tenants \cup {None}, NEW kind \in Kinds[c],
             NEW page \in SUBSET Periods, AskList(c, who, requested, kind, page)
      PROVE  \E o : Quiet(c, o)
  <2> DEFINE t == ScopeTenant(who, requested)
             o == [Idle EXCEPT !.at = "next", !.kind = kind, !.home = Home(who, t), !.tenant = t,
                               !.todo = page]
  <2>1. /\ page # {} /\ page \subseteq PeriodsOf(t) /\ call' = [call EXCEPT ![c] = o]
        /\ UNCHANGED <<row, charge, made, invoice, work>>
    BY <1>3 DEF AskList
  <2>2. /\ t \in Tenants /\ Home(who, t) = t
    BY <2>1, OwnPeriod, ScopeIsHome
  <2> HIDE DEF t
  <2>3. \A q \in page : PeriodTenant[q] = t
    BY <2>1, OwnPeriod
  <2>4. /\ o \in CallType /\ o.at = "next" /\ o.period = None /\ o.may = {}
        /\ o.home = t /\ o.tenant = t /\ o.todo = page /\ o.kind # "none"
    BY ZenonT(60), <1>1, <2>2, IdleHolds DEF CallType, Idle, Steps, AllKinds
  <2> HIDE DEF o
  <2>5. Quiet(c, o)
    BY <2>1, <2>3, <2>4, AskedMoves
  <2>6. QED
    BY <2>5
<1>4. ASSUME NEW who \in Who, NEW requested \in Tenants \cup {None},
             AskOverview(c, who, requested)
      PROVE  \E o : Quiet(c, o)
  <2> DEFINE t == ScopeTenant(who, requested)
             o == [Idle EXCEPT !.at = "list", !.kind = "overview", !.home = Home(who, t),
                               !.tenant = t]
  <2>1. /\ t # None /\ call' = [call EXCEPT ![c] = o] /\ UNCHANGED <<row, charge, made, invoice, work>>
    BY <1>4 DEF AskOverview
  <2>2. /\ t \in Tenants /\ Home(who, t) = t
    BY <2>1, ScopeIsHome
  <2> HIDE DEF t
  <2>3. /\ o \in CallType /\ o.at = "list" /\ o.kind = "overview" /\ o.period = None
        /\ o.may = {} /\ o.home = t /\ o.tenant = t /\ o.todo = {}
    BY <2>2, IdleHolds DEF CallType, Idle, Steps, AllKinds
  <2> HIDE DEF o
  <2>4. Quiet(c, o)
    BY <2>1, <2>3, AskedMoves
  <2>5. QED
    BY <2>4
<1>5. ASSUME NEW who \in Who, NEW requested \in Tenants \cup {None}, NEW kind \in Kinds[c],
             AskPages(c, who, requested, kind)
      PROVE  \E o : Quiet(c, o)
  <2> DEFINE t == ScopeTenant(who, requested)
             o == [Idle EXCEPT !.at = "page", !.kind = kind, !.home = Home(who, t), !.tenant = t,
                               !.start = OfTenant(t)]
  <2>1. /\ t # None /\ call' = [call EXCEPT ![c] = o] /\ UNCHANGED <<row, charge, made, invoice, work>>
        /\ kind \in {"charges", "adjustments"}
    BY <1>5 DEF AskPages
  <2>2. /\ t \in Tenants /\ Home(who, t) = t
    BY <2>1, ScopeIsHome
  <2>3. OfTenant(t) \subseteq 1..MaxCharges
    BY TenantBillingAssumption DEF OfTenant, Charges, Inv, TableType
  <2> HIDE DEF t
  <2>4. /\ o \in CallType /\ o.at = "page" /\ o.kind \notin {"report", "none"} /\ o.period = None
        /\ o.may = {} /\ o.home = t /\ o.tenant = t /\ o.todo = {}
    BY <1>1, <2>1, <2>2, <2>3, IdleHolds DEF CallType, Idle, Steps
  <2> HIDE DEF o
  <2>5. t # None
    BY <2>1
  <2>6. Quiet(c, o)
    BY <2>1, <2>4, <2>5, AskedMoves
  <2>7. QED
    BY <2>6
<1>6. ASSUME NEW kind \in Kinds[c], NEW p \in Periods, AskAsOperator(c, kind, p)
      PROVE  \E o : Quiet(c, o)
  <2>1. /\ kind \in {"report", "invoice"}
        /\ Start(c, kind, PeriodTenant[p], PeriodTenant[p], p, FirstStep(kind), {})
        /\ UNCHANGED <<row, charge, made, invoice, work>>
    BY <1>6 DEF AskAsOperator
  <2>2. PeriodTenant[p] \in Tenants
    BY TenantBillingAssumption
  <2>3. FirstStep(kind) \in {"read", "read_invoice"} /\ (kind = "report" => FirstStep(kind) = "read")
    BY DEF FirstStep
  <2>4. QED
    BY <1>1, <2>1, <2>2, <2>3, StartMoves
<1>7. ASSUME NEW page \in SUBSET Periods, AskListAsOperator(c, page)
      PROVE  \E o : Quiet(c, o)
  <2> DEFINE o == [Idle EXCEPT !.at = "next", !.kind = "report", !.todo = page]
  <2>1. call' = [call EXCEPT ![c] = o] /\ UNCHANGED <<row, charge, made, invoice, work>>
    BY <1>7 DEF AskListAsOperator
  <2>2. /\ o \in CallType /\ o.at = "next" /\ o.period = None /\ o.may = {} /\ o.home = None
        /\ o.kind = "report"
    BY IdleHolds DEF CallType, Idle, Steps, AllKinds
  <2> HIDE DEF o
  <2>3. Quiet(c, o)
    BY <2>1, <2>2, AskedMoves
  <2>4. QED
    BY <2>3
<1>8. QED
  BY <1>2, <1>3, <1>4, <1>5, <1>6, <1>7 DEF Ask

\* A step that keeps what the call is about, and what it may show or drops it.
LEMMA GoesOn ==
  ASSUME Inv, NEW c \in Calls, NEW o, call' = [call EXCEPT ![c] = o],
         UNCHANGED <<row, charge, made, invoice, work>>,
         o \in CallType, Holds(o), ReportHolds(o), o.at \notin {"write", "back"},
         o.at = "find" => o.first = Shows(o.period),
         o.home = call[c].home, o.tenant = call[c].tenant, o.todo = call[c].todo,
         o.period = call[c].period \/ o.period = None,
         o.may # {} => o.may = call[c].may /\ o.period = call[c].period
  PROVE  \E q : Quiet(c, q)
<1>1. Own(call[c])
  BY DEF Inv, Sound
<1>2. Own(o)
  BY <1>1 DEF Own
<1>3. Quiet(c, o)
  BY <1>2 DEF Quiet, Sound
<1>4. QED
  BY <1>3

LEMMA PageMoves ==
  ASSUME Inv, NEW c \in Calls, NEW p \in Periods, NextOfPage(c, p)
  PROVE  \E o : Quiet(c, o)
<1>1. /\ call[c].at \in {"next", "answered"} /\ p \in call[c].todo
      /\ Start(c, call[c].kind, call[c].home, PeriodTenant[p], p, FirstStep(call[c].kind),
               call[c].todo \ {p})
      /\ UNCHANGED <<row, charge, made, invoice, work>>
  BY DEF NextOfPage
<1>2. call[c] \in CallType /\ Holds(call[c]) /\ Own(call[c])
  BY DEF Inv, Sound
<1>3. /\ call[c].kind \in AllKinds /\ call[c].home \in Tenants \cup {None}
      /\ call[c].todo \ {p} \in SUBSET Periods
  BY <1>1, <1>2 DEF Holds, CallType
<1>4. call[c].home # None =>
        PeriodTenant[p] = call[c].home /\ \A q \in call[c].todo \ {p} : PeriodTenant[q] = call[c].home
  BY <1>1, <1>2 DEF Own
<1>5. PeriodTenant[p] \in Tenants \cup {None}
  BY TenantBillingAssumption
<1>6. /\ FirstStep(call[c].kind) \in {"read", "read_invoice"}
      /\ call[c].kind = "report" => FirstStep(call[c].kind) = "read"
  BY DEF FirstStep
<1> DEFINE k == call[c].kind
           h == call[c].home
           rest == call[c].todo \ {p}
           step == FirstStep(k)
<1>7. /\ Start(c, k, h, PeriodTenant[p], p, step, rest)
      /\ k \in AllKinds /\ h \in Tenants \cup {None} /\ rest \in SUBSET Periods
      /\ step \in {"read", "read_invoice"} /\ (k = "report" => step = "read")
      /\ h # None => PeriodTenant[p] = h /\ \A q \in rest : PeriodTenant[q] = h
  BY <1>1, <1>3, <1>4, <1>6
<1> HIDE DEF k, h, rest, step
<1>8. QED
  BY <1>1, <1>5, <1>7, StartMoves

LEMMA ChooseMoves ==
  ASSUME Inv, NEW c \in Calls, NEW p \in Periods, Choose(c, p),
         PeriodTenant[p] = call[c].tenant \/ SubTenant[PeriodSub[p]] = call[c].tenant
  PROVE  \E o : Quiet(c, o)
<1>1. /\ Start(c, "overview", call[c].home, call[c].tenant, p, "read", {})
      /\ UNCHANGED <<row, charge, made, invoice, work>>
  BY DEF Choose
<1>2. call[c] \in CallType /\ Own(call[c])
  BY DEF Inv, Sound
<1>3. /\ call[c].home \in Tenants \cup {None} /\ call[c].tenant \in Tenants \cup {None}
      /\ call[c].home # None => call[c].tenant = call[c].home
  BY <1>2 DEF CallType, Own
<1>4. "overview" \in AllKinds
  BY DEF AllKinds
<1> DEFINE h == call[c].home
           t == call[c].tenant
<1>5. /\ Start(c, "overview", h, t, p, "read", {})
      /\ h \in Tenants \cup {None} /\ t \in Tenants \cup {None}
      /\ h # None => t = h /\ \A q \in {} : PeriodTenant[q] = h
      /\ PeriodTenant[p] = t \/ SubTenant[PeriodSub[p]] = t
  BY <1>1, <1>3
<1> HIDE DEF h, t
<1>6. QED
  BY <1>1, <1>4, <1>5, StartMoves

LEMMA OverviewMoves ==
  ASSUME Inv, NEW c \in Calls,
         \/ \E p \in Periods : ListPeriods(c, p) \/ Fallback(c, p)
         \/ ListsNone(c) \/ FallbackNone(c)
  PROVE  \E o : Quiet(c, o)
<1>1. call[c] \in CallType /\ Holds(call[c])
  BY DEF Inv, Sound
<1>2. ASSUME NEW p \in Periods, ListPeriods(c, p)
      PROVE  \E o : Quiet(c, o)
  <2>1. PeriodTenant[p] = call[c].tenant /\ Choose(c, p)
    BY <1>2 DEF ListPeriods, IsCurrent, PeriodsOf
  <2>2. QED
    BY <2>1, ChooseMoves
<1>3. ASSUME NEW p \in Periods, Fallback(c, p)
      PROVE  \E o : Quiet(c, o)
  <2>1. PICK s \in Subs : IsActiveSub(s, call[c].tenant) /\ IsCurrent(p, PeriodsUnder(s))
    BY <1>3 DEF Fallback
  <2>2. SubTenant[s] = call[c].tenant /\ PeriodSub[p] = s /\ Choose(c, p)
    BY <1>3, <2>1 DEF Fallback, IsActiveSub, SubsOf, IsCurrent, PeriodsUnder
  <2>3. QED
    BY <2>2, ChooseMoves
<1>4. ASSUME NEW step \in {"answered", "fallback"}, Goto(c, step),
             call[c].at \in {"list", "fallback"}, UNCHANGED <<row, charge, made, invoice, work>>
      PROVE  \E o : Quiet(c, o)
  <2> DEFINE o == [call[c] EXCEPT !.at = step]
  <2>1. call' = [call EXCEPT ![c] = o]
    BY <1>4 DEF Goto, Inv
  <2>2. /\ o \in CallType /\ o.at = step /\ o.kind = call[c].kind /\ o.home = call[c].home
        /\ o.tenant = call[c].tenant /\ o.todo = call[c].todo /\ o.period = call[c].period
        /\ o.may = call[c].may /\ o.first = call[c].first
    BY <1>1, <1>4 DEF CallType, Steps
  <2> HIDE DEF o
  <2>3. Holds(o)
    BY <1>1, <1>4, <2>2 DEF Holds
  <2>4. ReportHolds(o)
    BY <1>1, <1>4, <2>2, NotSealed DEF Holds, Told
  <2>5. QED
    BY <1>4, <2>1, <2>2, <2>3, <2>4, GoesOn
<1>5. CASE ListsNone(c)
  BY <1>4, <1>5 DEF ListsNone, At
<1>6. CASE FallbackNone(c)
  BY <1>4, <1>6 DEF FallbackNone, At
<1>7. QED
  BY <1>2, <1>3, <1>5, <1>6

LEMMA ReportMoves ==
  ASSUME Inv, NEW c \in Calls, Read(c) \/ ReadAgain(c) \/ Sum(c)
  PROVE  \E o : Quiet(c, o)
<1>1. call[c] \in CallType /\ Holds(call[c]) /\ ReportHolds(call[c])
  BY DEF Inv, Sound, Reports
<1>2. call[c].at \in {"read", "again", "sum"} /\ UNCHANGED <<row, charge, made, invoice, work>>
  BY DEF Read, ReadAgain, Sum, At
<1>3. PICK p \in Periods : p = call[c].period
  BY <1>1, <1>2 DEF Holds, CallType
<1>4. Shows(p) \in Shown /\ row[p].total \in 0..MaxTotal /\ Shows(p) # None
  <2>1. TableType
    BY DEF Inv
  <2>2. Shows(p) \in Shown /\ None \notin Shown
    BY <2>1, ShowsShown, TenantBillingAssumption
  <2>3. QED
    BY <2>1, <2>2 DEF TableType, RowType
<1>5. /\ Shows(p).total = row[p].total
      /\ Shows(p).closed = (row[p].status = "closed")
  BY DEF Shows, ShownOf
<1>6. CASE Read(c)
  <2>1. PICK sealed \in BOOLEAN : sealed = (Sealed(p) /\ Billed(Usage(p)) = row[p].total)
    OBVIOUS
  <2> DEFINE o == [call[c] EXCEPT !.at = "again", !.first = Shows(p), !.sealed = sealed]
  <2>2. call' = [call EXCEPT ![c] = o] /\ call[c].at = "read"
    BY <1>3, <1>6, <2>1 DEF Read, Inv, At
  <2>3. /\ o \in CallType /\ o.at = "again" /\ o.first = Shows(p) /\ o.kind = call[c].kind
        /\ o.home = call[c].home /\ o.tenant = call[c].tenant /\ o.todo = call[c].todo
        /\ o.period = p /\ o.may = call[c].may /\ o.sealed = sealed
    <3>1. "again" \in Steps /\ Shows(p) \in Shown \cup {None}
      BY <1>4 DEF Steps
    <3>2. o \in CallType
      <4>1. PICK d : d = [call[c] EXCEPT !.at = "again", !.first = Shows(p)]
        OBVIOUS
      <4>2. d \in CallType /\ o = [d EXCEPT !.sealed = sealed]
        BY <1>1, <3>1, <4>1 DEF CallType
      <4> HIDE DEF o
      <4>3. QED
        BY ZenonT(60), <2>1, <4>2 DEF CallType
    <3>3. QED
      BY <1>1, <1>3, <3>2 DEF CallType
  <2> HIDE DEF o
  <2>4. Holds(o)
    BY <1>1, <1>3, <1>4, <2>2, <2>3 DEF Holds
  <2>5. Sealed(p) => Shows(p).closed
    BY <1>5 DEF Sealed
  <2>6. ReportHolds(o)
    BY <1>5, <2>1, <2>3, <2>5 DEF ReportHolds, ReportSound, Told
  <2>7. QED
    BY <1>2, <1>3, <2>2, <2>3, <2>4, <2>6, GoesOn
<1>7. CASE ReadAgain(c)
  <2> DEFINE o == [call[c] EXCEPT !.at = "sum", !.again = row[p].total]
  <2>1. call' = [call EXCEPT ![c] = o] /\ call[c].at = "again"
    BY <1>3, <1>7 DEF ReadAgain, Inv, At
  <2>2. /\ o \in CallType /\ o.at = "sum" /\ o.first = call[c].first /\ o.kind = call[c].kind
        /\ o.home = call[c].home /\ o.tenant = call[c].tenant /\ o.todo = call[c].todo
        /\ o.period = p /\ o.may = call[c].may /\ o.again = row[p].total
        /\ o.sealed = call[c].sealed /\ o.charged = call[c].charged
    BY ZenonT(60), <1>1, <1>3, <1>4 DEF CallType, Steps
  <2> HIDE DEF o
  <2>3. Holds(o)
    BY <1>1, <1>3, <2>1, <2>2 DEF Holds
  <2>4. ReportHolds(o)
    BY <1>1, <1>3, <2>1, <2>2 DEF ReportHolds, ReportSound, Told
  <2>5. QED
    BY <1>2, <1>3, <2>1, <2>2, <2>3, <2>4, GoesOn
<1>8. CASE Sum(c)
  <2>1. PICK step : step = IF call[c].kind = "report" THEN "answered" ELSE "read_invoice"
    OBVIOUS
  <2>2. PICK T : T = OfPeriod(p)
    OBVIOUS
  <2> DEFINE o == [call[c] EXCEPT !.at = step, !.charged = T]
  <2>3. call' = [call EXCEPT ![c] = o] /\ call[c].at = "sum"
    BY <1>3, <1>8, <2>1, <2>2 DEF Sum, Inv, At
  <2>4. T \in Sums /\ T \subseteq Charges /\ T \ Adjustments = Usage(p)
    BY <2>2, TenantBillingAssumption DEF Inv, TableType, OfPeriod, Charges, Usage, Sums
  <2>5. step \in Steps /\ step \in {"answered", "read_invoice"}
    BY <2>1 DEF Steps
  <2>6. /\ o \in CallType /\ o.at = step /\ o.first = call[c].first /\ o.kind = call[c].kind
        /\ o.home = call[c].home /\ o.tenant = call[c].tenant /\ o.todo = call[c].todo
        /\ o.period = p /\ o.may = call[c].may /\ o.again = call[c].again
        /\ o.charged = T /\ o.sealed = call[c].sealed
    BY ZenonT(60), <1>1, <1>3, <2>4, <2>5 DEF CallType, Sums
  <2> HIDE DEF o
  <2>7. Holds(o)
    BY <1>1, <1>3, <2>1, <2>3, <2>6 DEF Holds
  <2>8. call[c].charged \in Sums
    BY <1>1 DEF CallType, Sums
  <2>9. o.sealed =>
          /\ o.first.closed /\ o.again = o.first.total
          /\ T \subseteq Charges /\ Billed(T \ Adjustments) = o.first.total
    BY <1>1, <1>3, <2>3, <2>4, <2>6, <2>8 DEF ReportHolds, ReportSound
  <2>10. ReportHolds(o)
    BY <2>5, <2>6, <2>9 DEF ReportHolds, ReportSound
  <2>11. o.at \notin {"write", "back", "find"}
    BY <2>5, <2>6
  <2>12. QED
    BY <1>2, <1>3, <2>3, <2>6, <2>7, <2>10, <2>11, GoesOn
<1>9. QED
  BY <1>6, <1>7, <1>8

LEMMA PreviewMoves ==
  ASSUME Inv, NEW c \in Calls, ReadForInvoice(c) \/ ReadBack(c)
  PROVE  \E o : Quiet(c, o)
<1>1. call[c] \in CallType /\ Holds(call[c])
  BY DEF Inv, Sound
<1>2. call[c].at \in {"read_invoice", "back"} /\ UNCHANGED <<row, charge, made, invoice, work>>
  BY DEF ReadForInvoice, ReadBack, At
<1>3. call[c].period \in Periods
  BY <1>1, <1>2 DEF Holds, CallType
<1> DEFINE p == call[c].period
<1>4. Shows(p) \in Shown /\ Shows(p) # None
  <2> HIDE DEF p
  <2>1. p \in Periods /\ TableType
    BY <1>3 DEF p, Inv
  <2>2. Shows(p) \in Shown /\ None \notin Shown
    BY <2>1, ShowsShown, TenantBillingAssumption
  <2>3. QED
    BY <2>2
<1>5. CASE ReadForInvoice(c)
  <2> DEFINE o == [call[c] EXCEPT !.at = "find", !.first = Shows(p), !.again = 0, !.charged = {},
                                  !.sealed = FALSE]
  <2>1. call' = [call EXCEPT ![c] = o] /\ call[c].at = "read_invoice"
    BY <1>5 DEF ReadForInvoice, Inv, At
  <2>2. 0 \in 0..MaxTotal /\ {} \in SUBSET (1..MaxCharges)
    BY TenantBillingAssumption
  <2>3. /\ o \in CallType /\ o.at = "find" /\ o.first = Shows(p) /\ o.kind = call[c].kind
        /\ o.home = call[c].home /\ o.tenant = call[c].tenant /\ o.todo = call[c].todo
        /\ o.period = p /\ o.may = call[c].may
    BY ZenonT(60), <1>1, <1>4, <2>2 DEF CallType, Steps
  <2> HIDE DEF o
  <2>4. Holds(o) /\ ReportHolds(o)
    BY <1>1, <1>4, <2>1, <2>3, NotSealed DEF Holds, Told
  <2>5. QED
    BY <1>2, <2>1, <2>3, <2>4, GoesOn
<1>6. CASE ReadBack(c)
  <2> DEFINE o == [call[c] EXCEPT !.at = "answered", !.found = None, !.period = None,
                                  !.may = {}]
  <2>1. call' = [call EXCEPT ![c] = o] /\ call[c].at = "back"
    BY <1>6 DEF ReadBack, Inv, At
  <2>2. /\ o \in CallType /\ o.at = "answered" /\ o.kind = call[c].kind
        /\ o.home = call[c].home /\ o.tenant = call[c].tenant /\ o.todo = call[c].todo
        /\ o.period = None /\ o.may = {}
    BY <1>1 DEF CallType, Steps
  <2> HIDE DEF o
  <2>3. Holds(o) /\ ReportHolds(o)
    BY <1>1, <2>1, <2>2, NotSealed DEF Holds, Told
  <2>4. QED
    BY <1>2, <2>1, <2>2, <2>3, GoesOn
<1>7. QED
  BY <1>5, <1>6

LEMMA PagesMove ==
  ASSUME Inv, NEW c \in Calls, Page(c)
  PROVE  \E o : Quiet(c, o)
<1> DEFINE offset == call[c].offset
           t == call[c].tenant
           rows == Matching(Fetched(t, offset), call[c].kind)
           more == HasMore(rows, offset)
           o == [call[c] EXCEPT !.at = IF more THEN "page" ELSE "answered",
                                !.offset = IF more THEN offset + PageSize ELSE 0,
                                !.seen = call[c].seen \cup Slice(rows, offset)]
<1>1. call[c] \in CallType /\ Holds(call[c])
  BY DEF Inv, Sound
<1>2. /\ call[c].at = "page" /\ call' = [call EXCEPT ![c] = o]
      /\ UNCHANGED <<row, charge, made, invoice, work>>
  BY DEF Page, At, Inv
<1>3. Slice(rows, offset) \subseteq 1..MaxCharges
  <2>1. OfTenant(t) \subseteq 1..MaxCharges
    BY TenantBillingAssumption DEF OfTenant, Charges, Inv, TableType
  <2>2. Fetched(t, offset) \subseteq OfTenant(t)
    BY DEF Fetched
  <2>3. rows \subseteq Fetched(t, offset)
    BY DEF Matching
  <2>4. QED
    BY <2>1, <2>2, <2>3 DEF Slice
<1>4. offset \in Nat /\ offset + PageSize \in Nat
  BY <1>1, TenantBillingAssumption DEF CallType
<1> HIDE DEF rows, more, offset
<1> DEFINE step == IF more THEN "page" ELSE "answered"
           next == IF more THEN offset + PageSize ELSE 0
           seen == call[c].seen \cup Slice(rows, offset)
<1>5. step \in {"page", "answered"} /\ step \in Steps /\ next \in Nat
      /\ seen \in SUBSET (1..MaxCharges)
  BY <1>1, <1>3, <1>4 DEF CallType, Steps
<1> HIDE DEF step, next, seen
<1>6. o = [call[c] EXCEPT !.at = step, !.offset = next, !.seen = seen]
  BY DEF step, next, seen
<1> HIDE DEF o
<1>7. /\ o \in CallType /\ o.at \in {"page", "answered"} /\ o.kind = call[c].kind
      /\ o.home = call[c].home /\ o.tenant = call[c].tenant /\ o.todo = call[c].todo
      /\ o.period = call[c].period /\ o.may = call[c].may
  BY <1>1, <1>5, <1>6 DEF CallType
<1>8. Holds(o) /\ ReportHolds(o)
  BY <1>1, <1>2, <1>7, NotSealed DEF Holds, Told
<1>9. o.at \notin {"write", "back", "find"}
  BY <1>7
<1>10. QED
  BY <1>2, <1>7, <1>8, <1>9, GoesOn

LEMMA EndMoves ==
  ASSUME Inv, NEW c \in Calls, End(c)
  PROVE  Quiet(c, Idle)
<1>1. Sound(Idle) /\ ReportHolds(Idle)
  BY IdleHolds, NotSealed DEF Sound, Own, Idle
<1>2. QED
  BY <1>1 DEF End, Quiet, Idle

LEMMA StepMoves ==
  ASSUME Inv, NEW c \in Calls, Step(c)
  PROVE  FindInvoice(c) \/ WriteInvoice(c) \/ \E o : Quiet(c, o)
BY PageMoves, OverviewMoves, ReportMoves, PreviewMoves, PagesMove, EndMoves DEF Step

-----------------------------------------------------------------------------
(* Every step keeps the invariant *)

\* What is known of the calls, in one place.
LEMMA CallFacts ==
  ASSUME Inv, NEW c \in Calls
  PROVE  /\ call[c] \in CallType /\ Holds(call[c]) /\ ReportHolds(call[c])
         /\ call[c].may # {} =>
              call[c].may \in SUBSET Shown /\ call[c].period \in Periods /\ Shows(call[c].period) \in Shown
         /\ call[c].at \in {"find", "write"} =>
              /\ call[c].first \in Shown /\ call[c].may # {}
              /\ \A d \in Calls : call[d].may # {} /\ call[d].period = call[c].period =>
                   call[c].first \in call[d].may
<1>1. call[c] \in CallType /\ Holds(call[c]) /\ ReportHolds(call[c])
  BY DEF Inv, Sound, Reports
<1>2. call[c].may # {} =>
        call[c].may \in SUBSET Shown /\ call[c].period \in Periods
  BY <1>1 DEF Holds, CallType
<1>3. call[c].at \in {"find", "write"} => call[c].first \in Shown /\ call[c].may # {}
  BY <1>1 DEF Holds, CallType
<1>4. ASSUME call[c].at \in {"find", "write"}, NEW d \in Calls, call[d].may # {},
             call[d].period = call[c].period
      PROVE  call[c].first \in call[d].may
  BY <1>4 DEF Inv, Fresh, Reading
<1>5. call[c].may # {} => Shows(call[c].period) \in Shown
  BY <1>2, ShowsShown DEF Inv
<1>6. QED
  BY <1>1, <1>2, <1>3, <1>4, <1>5

LEMMA InsertingFinite ==
  ASSUME NEW p \in Periods
  PROVE  /\ Inserting(p) \subseteq Calls /\ IsFiniteSet(Inserting(p))
         /\ Cardinality(Inserting(p)) \in Nat /\ Cardinality(Inserting(p)) <= Cardinality(Calls)
         /\ Cardinality(Calls) \in Nat
BY TenantBillingAssumption, FS_Subset, FS_CardinalityType DEF Inserting

\* The rows of p may stay as they are, and fewer calls be about to insert one.
LEMMA FewerInsert ==
  ASSUME Few, NEW p \in Periods, InvoicesOf(p)' = InvoicesOf(p), Inserting(p)' \subseteq Inserting(p)
  PROVE  /\ IsFiniteSet(InvoicesOf(p)')
         /\ Cardinality(InvoicesOf(p)') + Cardinality(Inserting(p)') <= Cardinality(Calls)
<1>1. IsFiniteSet(InvoicesOf(p)) /\ Cardinality(InvoicesOf(p)) \in Nat
  BY FS_CardinalityType DEF Few
<1>2. Cardinality(Inserting(p)') <= Cardinality(Inserting(p)) /\ Cardinality(Inserting(p)') \in Nat
  BY InsertingFinite, FS_Subset, FS_CardinalityType
<1>3. Cardinality(InvoicesOf(p)) + Cardinality(Inserting(p)) <= Cardinality(Calls)
  BY DEF Few
<1>4. QED
  BY <1>1, <1>2, <1>3, InsertingFinite

LEMMA QuietKeeps ==
  ASSUME Inv, NEW c \in Calls, NEW o, Quiet(c, o)
  PROVE  Inv'
<1>1. /\ call' = [call EXCEPT ![c] = o] /\ UNCHANGED <<row, charge, made, invoice, work>>
      /\ Sound(o) /\ ReportHolds(o) /\ o.at \notin {"write", "back"}
      /\ o.at = "find" => o.first = Shows(o.period)
      /\ o.may # {} =>
            \/ o.may = call[c].may /\ o.period = call[c].period
            \/ o.may = Views(o.period)
  BY DEF Quiet
<1>2. call'[c] = o /\ \A d \in Calls \ {c} : call'[d] = call[d]
  BY <1>1 DEF Inv
<1>3. TableType' /\ WorkType'
  BY <1>1 DEF Inv, TableType, WorkType, Charges
<1>4. call' \in [Calls -> CallType]
  BY <1>1 DEF Inv, Sound
<1>5. ASSUME NEW d \in Calls PROVE Sound(call[d])' /\ Written(call[d])'
  BY <1>1, <1>2 DEF Inv, Written, Sound, Holds, Own, CallType
<1>6. Reports'
  <2>1. TableType /\ Steady
    BY <1>1, NothingMoves DEF Inv
  <2>2. ASSUME NEW d \in Calls PROVE \E q : Alike(call'[d], q) /\ ReportHolds(q)
    BY <1>1, <1>2 DEF Inv, Reports, Alike
  <2>3. QED
    BY <2>1, <2>2, ReportsStay
<1>7. o.may # {} =>
        /\ o.period \in Periods
        /\ Shows(o.period) \in o.may
        /\ \A d \in Reading(o.period) : call[d].first \in o.may
  <2>1. SUFFICES ASSUME o.may # {}
                 PROVE  /\ o.period \in Periods
                        /\ Shows(o.period) \in o.may
                        /\ \A d \in Reading(o.period) : call[d].first \in o.may
    OBVIOUS
  <2>2. o.period \in Periods
    BY <1>1, <2>1 DEF Sound, Holds, CallType
  <2>3. CASE o.may = call[c].may /\ o.period = call[c].period
    BY <2>1, <2>2, <2>3 DEF Inv, Fresh
  <2>4. CASE o.may = Views(o.period)
    BY <2>2, <2>4 DEF Views
  <2>5. QED
    BY <1>1, <2>1, <2>3, <2>4
<1>8. Fresh'
  <2>1. SUFFICES ASSUME NEW e \in Calls, call'[e].may # {}
                 PROVE  /\ Shows(call[e].period)' \in call'[e].may
                        /\ \A d \in Reading(call[e].period)' : call'[d].first \in call'[e].may
                        /\ call'[e].at = "back" => Answer(e)' \in call'[e].may
    BY DEF Fresh, At
  <2>2. /\ call'[e].period \in Periods
        /\ Shows(call'[e].period) \in call'[e].may
        /\ \A d \in Reading(call'[e].period) : call[d].first \in call'[e].may
    <3>1. CASE e = c
      BY <1>2, <1>7, <2>1, <3>1
    <3>2. CASE e # c
      <4>1. call'[e] = call[e] /\ call[e].may # {}
        BY <1>2, <2>1, <3>2
      <4>2. QED
        BY <4>1, CallFacts DEF Inv, Fresh
    <3>3. QED
      BY <3>1, <3>2
  <2>3. Shows(call[e].period)' \in call'[e].may
    BY <1>1, <2>2 DEF Shows, ShownOf
  <2>4. ASSUME NEW d \in Reading(call[e].period)' PROVE call'[d].first \in call'[e].may
    <3>1. d \in Calls /\ call'[d].at \in {"find", "write"} /\ call'[d].period = call'[e].period
      BY <2>4 DEF Reading
    <3>2. CASE d = c
      <4>1. call'[d].first = Shows(call'[e].period)
        BY <1>1, <1>2, <3>1, <3>2
      <4>2. QED
        BY <2>2, <4>1
    <3>3. CASE d # c
      <4>1. call'[d] = call[d]
        BY <1>2, <3>1, <3>3
      <4>2. d \in Reading(call'[e].period)
        BY <3>1, <4>1 DEF Reading
      <4>3. QED
        BY <2>2, <4>1, <4>2
    <3>4. QED
      BY <3>2, <3>3
  <2>5. ASSUME call'[e].at = "back" PROVE Answer(e)' \in call'[e].may
    <3>1. e # c /\ call'[e] = call[e]
      BY <1>1, <1>2, <2>5
    <3>2. Answer(e) \in call[e].may
      BY <2>1, <2>5, <3>1 DEF Inv, Fresh, At
    <3>3. QED
      BY <1>1, <3>1, <3>2 DEF Answer
  <2>6. QED
    BY <2>3, <2>4, <2>5
<1>9. Found'
  BY <1>1, <1>2 DEF Inv, Found
<1>10. Few'
  <2>1. ASSUME NEW p \in Periods
        PROVE  InvoicesOf(p)' = InvoicesOf(p) /\ Inserting(p)' \subseteq Inserting(p)
    BY <1>1, <1>2 DEF InvoicesOf, Inserting, At
  <2>2. QED
    BY <2>1, FewerInsert DEF Few, Inv
<1>11. QED
  BY <1>3, <1>4, <1>5, <1>6, <1>8, <1>9, <1>10 DEF Inv

\* An operator's step leaves a call all but what it may show, and what the row
\* then shows is among that.
LEMMA MayGrows ==
  ASSUME TableType, RowGoesOn, call \in [Calls -> CallType], NEW c \in Calls
  PROVE  \E m \in SUBSET Shown :
           /\ call'[c] = [call[c] EXCEPT !.may = m]
           /\ call[c].may \subseteq m /\ (m # {} => call[c].may # {})
           /\ \A p \in Periods : call[c].period = p =>
                 Shows(p)' \in m \/ Shows(p)' = Shows(p) \/ call[c].may = {}
<1>1. call[c].may \in SUBSET Shown /\ call[c] = [call[c] EXCEPT !.may = call[c].may]
  BY DEF CallType
<1>2. CASE row' = row /\ call' = call
  <2>1. \A p \in Periods : Shows(p)' = Shows(p)
    BY <1>2 DEF Shows, ShownOf
  <2>2. QED
    BY <1>1, <1>2, <2>1
<1>3. ASSUME NEW q \in Periods, NEW r \in RowType, Store(q, r)
      PROVE  \E m \in SUBSET Shown :
               /\ call'[c] = [call[c] EXCEPT !.may = m]
               /\ call[c].may \subseteq m /\ (m # {} => call[c].may # {})
               /\ \A p \in Periods : call[c].period = p =>
                     Shows(p)' \in m \/ Shows(p)' = Shows(p) \/ call[c].may = {}
  <2>1. row'[q] = r /\ \A p \in Periods \ {q} : row'[p] = row[p]
    BY <1>3 DEF Store, TableType
  <2>2. ShownOf(r) \in Shown
    BY <1>3 DEF ShownOf, Shown, RowType
  <2>3. CASE call[c].period = q /\ call[c].may # {}
    <3>1. PICK m : m = call[c].may \cup {ShownOf(r)}
      OBVIOUS
    <3>2. call'[c] = [call[c] EXCEPT !.may = m]
      BY <1>3, <2>3, <3>1 DEF Store
    <3>3. Shows(q)' \in m
      BY <2>1, <3>1 DEF Shows
    <3>4. QED
      BY <1>1, <2>2, <2>3, <3>1, <3>2, <3>3
  <2>4. CASE ~(call[c].period = q /\ call[c].may # {})
    <3>1. call'[c] = call[c]
      BY <1>3, <2>4 DEF Store
    <3>2. \A p \in Periods : p # q => Shows(p)' = Shows(p)
      BY <2>1 DEF Shows, ShownOf
    <3>3. QED
      BY <1>1, <2>4, <3>1, <3>2
  <2>5. QED
    BY <2>3, <2>4
<1>4. QED
  BY <1>2, <1>3 DEF RowGoesOn

LEMMA OperatorKeeps ==
  ASSUME Inv, NEW w \in Operators, Operator(w)
  PROVE  Inv'
<1>1. TableType' /\ WorkType' /\ Steady /\ RowGoesOn /\ invoice' = invoice
  BY OperatorMoves DEF Inv
<1>2. PICK m \in [Calls -> SUBSET Shown] : \A c \in Calls :
        /\ call'[c] = [call[c] EXCEPT !.may = m[c]]
        /\ call[c].may \subseteq m[c] /\ (m[c] # {} => call[c].may # {})
        /\ \A p \in Periods : call[c].period = p =>
              Shows(p)' \in m[c] \/ Shows(p)' = Shows(p) \/ call[c].may = {}
  <2> DEFINE Fits(c, x) ==
        /\ call'[c] = [call[c] EXCEPT !.may = x]
        /\ call[c].may \subseteq x /\ (x # {} => call[c].may # {})
        /\ \A p \in Periods : call[c].period = p =>
              Shows(p)' \in x \/ Shows(p)' = Shows(p) \/ call[c].may = {}
  <2>1. \A c \in Calls : \E x \in SUBSET Shown : Fits(c, x)
    BY <1>1, MayGrows DEF Inv
  <2> HIDE DEF Fits
  <2>2. PICK m : m = [c \in Calls |-> CHOOSE x \in SUBSET Shown : Fits(c, x)]
    OBVIOUS
  <2>3. m \in [Calls -> SUBSET Shown] /\ \A c \in Calls : Fits(c, m[c])
    BY <2>1, <2>2
  <2>4. QED
    BY <2>3 DEF Fits
<1>3. ASSUME NEW c \in Calls
      PROVE  /\ call[c] \in CallType /\ call'[c] \in CallType /\ call'[c].may = m[c]
             /\ call'[c].at = call[c].at /\ call'[c].kind = call[c].kind
             /\ call'[c].home = call[c].home /\ call'[c].tenant = call[c].tenant
             /\ call'[c].period = call[c].period /\ call'[c].first = call[c].first
             /\ call'[c].again = call[c].again /\ call'[c].charged = call[c].charged
             /\ call'[c].sealed = call[c].sealed /\ call'[c].found = call[c].found
             /\ call'[c].todo = call[c].todo
  <2>1. PICK o, x : o = call[c] /\ x = m[c]
    OBVIOUS
  <2>2. o \in CallType /\ x \in SUBSET Shown /\ call'[c] = [o EXCEPT !.may = x]
    BY <1>2, <2>1 DEF Inv
  <2>3. [o EXCEPT !.may = x] \in CallType
    BY ZenonT(60), <2>2 DEF CallType
  <2>4. QED
    BY <2>1, <2>2, <2>3 DEF CallType
<1>4. call' \in [Calls -> CallType]
  <2>1. DOMAIN call' = Calls /\ call' = [c \in Calls |-> call'[c]]
    BY <1>1 DEF RowGoesOn, Store, Inv
  <2>2. QED
    BY <1>3, <2>1
<1>5. ASSUME NEW c \in Calls PROVE Sound(call[c])' /\ Written(call[c])'
  <2>1. /\ Holds(call[c]) /\ Own(call[c]) /\ Written(call[c])
        /\ (call[c].may = {} <=> m[c] = {})
    BY <1>2 DEF Inv, Sound
  <2>2. Holds(call'[c]) /\ Own(call'[c])
    BY <1>3, <2>1 DEF Holds, Own
  <2>3. Written(call[c])'
    BY <1>1, <1>3, <2>1 DEF Written
  <2>4. QED
    BY <1>3, <2>2, <2>3 DEF Sound, Holds, Own, CallType
<1>6. Reports'
  <2>1. ASSUME NEW d \in Calls PROVE \E q : Alike(call'[d], q) /\ ReportHolds(q)
    BY <1>3 DEF Inv, Reports, Alike
  <2>2. QED
    BY <1>1, <2>1, ReportsStay DEF Inv
<1>7. Fresh'
  <2>1. SUFFICES ASSUME NEW e \in Calls, call'[e].may # {}
                 PROVE  /\ Shows(call[e].period)' \in call'[e].may
                        /\ \A d \in Reading(call[e].period)' : call'[d].first \in call'[e].may
                        /\ call'[e].at = "back" => Answer(e)' \in call'[e].may
    BY DEF Fresh, At
  <2>2. /\ call[e].may # {} /\ call[e].may \subseteq call'[e].may /\ call'[e].may = m[e]
    BY <1>2, <1>3, <2>1
  <2>3. PICK p \in Periods : p = call[e].period
    BY <2>2, CallFacts
  <2>4. /\ Shows(p) \in call[e].may
        /\ \A d \in Reading(p) : call[d].first \in call[e].may
        /\ At(e, "back") => Answer(e) \in call[e].may
    BY <2>2, <2>3 DEF Inv, Fresh
  <2>5. Shows(call[e].period)' \in call'[e].may
    <3>1. Shows(p)' \in call'[e].may
      BY <1>2, <2>2, <2>3, <2>4
    <3>2. call'[e].period = p
      BY <1>3, <2>3
    <3>3. QED
      BY <3>1, <3>2 DEF Shows
  <2>6. ASSUME NEW d \in Reading(call[e].period)' PROVE call'[d].first \in call'[e].may
    <3>1. d \in Calls /\ call'[d].at \in {"find", "write"} /\ call'[d].period = call'[e].period
      BY <2>6 DEF Reading
    <3>2. d \in Reading(p) /\ call'[d].first = call[d].first
      BY <1>3, <2>3, <3>1 DEF Reading
    <3>3. QED
      BY <2>2, <2>4, <3>2
  <2>7. ASSUME call'[e].at = "back" PROVE Answer(e)' \in call'[e].may
    <3>1. At(e, "back") /\ Answer(e)' = Answer(e)
      BY <1>1, <1>3, <2>7 DEF At, Answer
    <3>2. QED
      BY <2>2, <2>4, <3>1
  <2>8. QED
    BY <2>5, <2>6, <2>7
<1>8. Found' /\ Few'
  <2>1. Found'
    BY <1>1, <1>3 DEF Inv, Found
  <2>2. ASSUME NEW p \in Periods PROVE InvoicesOf(p)' = InvoicesOf(p) /\ Inserting(p)' = Inserting(p)
    BY <1>1, <1>3 DEF InvoicesOf, Inserting, At
  <2>3. QED
    BY <2>1, <2>2, FewerInsert DEF Few, Inv
<1>9. QED
  BY <1>1, <1>4, <1>5, <1>6, <1>7, <1>8 DEF Inv

LEMMA FindKeeps ==
  ASSUME Inv, NEW c \in Calls, FindInvoice(c)
  PROVE  Inv'
<1>1. PICK n \in InvoicesOf(call[c].period) \cup {None} :
        /\ n = None => InvoicesOf(call[c].period) = {}
        /\ call' = [call EXCEPT ![c].at = "write", ![c].found = n]
  BY DEF FindInvoice
<1>2. UNCHANGED <<row, charge, made, invoice, work>> /\ call[c].at = "find"
  BY DEF FindInvoice, At
<1> DEFINE o == [call[c] EXCEPT !.at = "write", !.found = n]
<1>3. call' = [call EXCEPT ![c] = o]
  BY <1>1 DEF Inv
<1>4. call[c] \in CallType /\ Holds(call[c]) /\ Own(call[c])
  BY DEF Inv, Sound
<1>5. n \in Invoices \cup {None} /\ (n # None => invoice[n] # None /\ invoice[n].period = call[c].period)
  BY <1>1 DEF InvoicesOf
<1>6. /\ o \in CallType /\ o.at = "write" /\ o.found = n /\ o.kind = call[c].kind
      /\ o.home = call[c].home /\ o.tenant = call[c].tenant /\ o.todo = call[c].todo
      /\ o.period = call[c].period /\ o.may = call[c].may /\ o.first = call[c].first
  BY ZenonT(60), <1>4, <1>5 DEF CallType, Steps
<1> HIDE DEF o
<1>7. call'[c] = o /\ \A d \in Calls \ {c} : call'[d] = call[d]
  BY <1>3 DEF Inv
<1>8. Sound(o)
  BY <1>2, <1>4, <1>6 DEF Sound, Holds, Own
<1>9. TableType' /\ WorkType'
  BY <1>2 DEF Inv, TableType, WorkType, Charges
<1>10. call' \in [Calls -> CallType]
  BY <1>3, <1>6 DEF Inv
<1>11. ASSUME NEW d \in Calls PROVE Sound(call[d])' /\ Written(call[d])'
  <2>1. Sound(call'[d])
    BY <1>7, <1>8 DEF Inv
  <2>2. Sound(call[d])'
    BY <1>2, <2>1 DEF Sound, Holds, Own, CallType
  <2>3. Written(call[d])'
    BY <1>2, <1>6, <1>7 DEF Inv, Written
  <2>4. QED
    BY <2>2, <2>3
<1>12. Fresh'
  <2>1. \A p : Reading(p)' = Reading(p) /\ Shows(p)' = Shows(p)
    BY <1>2, <1>6, <1>7 DEF Reading, Shows, ShownOf
  <2>2. \A d \in Calls : call'[d].first = call[d].first /\ call'[d].period = call[d].period
                         /\ call'[d].may = call[d].may
    BY <1>6, <1>7
  <2>3. \A d \in Calls : call'[d].at = "back" => call'[d] = call[d]
    BY <1>6, <1>7
  <2>4. \A p : Reading(p) \subseteq Calls
    BY DEF Reading
  <2>5. SUFFICES ASSUME NEW e \in Calls, call'[e].may # {}
                 PROVE  /\ Shows(call[e].period)' \in call'[e].may
                        /\ \A d \in Reading(call[e].period)' : call'[d].first \in call'[e].may
                        /\ call'[e].at = "back" => Answer(e)' \in call'[e].may
    BY DEF Fresh, At
  <2>6. Shows(call[e].period)' \in call'[e].may
    <3>1. Shows(call[e].period) \in call[e].may
      BY <2>2, <2>5 DEF Inv, Fresh
    <3>2. QED
      BY <1>2, <2>2, <3>1 DEF Shows, ShownOf
  <2>7. ASSUME NEW d \in Reading(call[e].period)' PROVE call'[d].first \in call'[e].may
    <3>1. d \in Reading(call[e].period)
      BY <1>2, <1>6, <1>7, <2>2, <2>7 DEF Reading
    <3>2. QED
      BY <2>2, <2>4, <2>5, <3>1 DEF Inv, Fresh
  <2>8. ASSUME call'[e].at = "back" PROVE Answer(e)' \in call'[e].may
    <3>1. call'[e] = call[e]
      BY <2>3, <2>8
    <3>2. Answer(e) \in call[e].may
      BY <2>5, <2>8, <3>1 DEF Inv, Fresh, At
    <3>3. QED
      BY <1>2, <3>1, <3>2 DEF Answer
  <2>9. QED
    BY <2>6, <2>7, <2>8
<1>13. Found'
  BY <1>2, <1>5, <1>6, <1>7 DEF Inv, Found
<1>14. Few'
  <2>1. ASSUME NEW p \in Periods, InvoicesOf(p) # {} \/ p # call[c].period
        PROVE  InvoicesOf(p)' = InvoicesOf(p) /\ Inserting(p)' \subseteq Inserting(p)
    <3>1. InvoicesOf(p)' = InvoicesOf(p)
      BY <1>2 DEF InvoicesOf
    <3>2. c \notin Inserting(p)'
      BY <1>1, <1>6, <1>7, <2>1 DEF Inserting
    <3>3. \A d \in Calls \ {c} : d \in Inserting(p)' => d \in Inserting(p)
      BY <1>7 DEF Inserting, At
    <3>4. Inserting(p)' \subseteq Calls
      BY DEF Inserting
    <3>5. QED
      BY <3>1, <3>2, <3>3, <3>4
  <2>2. ASSUME NEW p \in Periods, InvoicesOf(p) = {}
        PROVE  /\ IsFiniteSet(InvoicesOf(p)')
               /\ Cardinality(InvoicesOf(p)') + Cardinality(Inserting(p)') <= Cardinality(Calls)
    <3>1. InvoicesOf(p)' = {}
      BY <1>2, <2>2 DEF InvoicesOf
    <3>2. Inserting(p)' \subseteq Calls
      BY DEF Inserting
    <3>3. /\ Cardinality(Inserting(p)') <= Cardinality(Calls) /\ Cardinality(Inserting(p)') \in Nat
          /\ Cardinality(Calls) \in Nat
      BY <3>2, TenantBillingAssumption, FS_Subset, FS_CardinalityType
    <3>4. QED
      BY <3>1, <3>3, FS_EmptySet
  <2>3. QED
    BY <2>1, <2>2, FewerInsert DEF Few, Inv
<1>15. Reports'
  <2>1. ReportHolds(o)
    BY <1>6, NotSealed DEF Told
  <2>2. ASSUME NEW d \in Calls PROVE \E q : Alike(call'[d], q) /\ ReportHolds(q)
    BY <1>7, <2>1 DEF Inv, Reports, Alike
  <2>3. TableType /\ Steady
    BY <1>2, NothingMoves DEF Inv
  <2>4. QED
    BY <2>2, <2>3, ReportsStay
<1>16. QED
  BY <1>9, <1>10, <1>11, <1>12, <1>13, <1>14, <1>15 DEF Inv

\* A write of p: the row is a new one, or one of p before and after.
LEMMA WriteKeeps ==
  ASSUME Inv, NEW c \in Calls, WriteInvoice(c)
  PROVE  Inv'
<1>1. call[c].at = "write" /\ call[c] \in CallType /\ Holds(call[c])
  BY DEF WriteInvoice, At, Inv, Sound
<1>2. PICK p \in Periods : p = call[c].period
  BY <1>1 DEF Holds, CallType
<1> DEFINE x == [period |-> p, shows |-> call[c].first]
<1>3. PICK n \in Invoices :
        /\ IF call[c].found = None THEN IsNew(n) ELSE n = call[c].found
        /\ invoice' = [invoice EXCEPT ![n] = x]
        /\ call' = [call EXCEPT ![c].at = "back", ![c].found = n, ![c].first = None]
  BY <1>2 DEF WriteInvoice
<1>4. UNCHANGED <<row, charge, made, work>> /\ call[c].at = "write"
  BY DEF WriteInvoice, At
<1> DEFINE o == [call[c] EXCEPT !.at = "back", !.found = n, !.first = None]
<1>5. call' = [call EXCEPT ![c] = o]
  BY <1>3 DEF Inv
<1>6. call[c] \in CallType /\ Holds(call[c]) /\ Own(call[c])
  BY DEF Inv, Sound
<1>7. p \in Periods /\ x \in InvoiceRows /\ x # None /\ call[c].first \in Shown /\ p # None
  BY <1>4, <1>6, CallFacts, TenantBillingAssumption DEF InvoiceRows
<1>8. /\ o \in CallType /\ o.at = "back" /\ o.found = n /\ o.kind = call[c].kind
      /\ o.home = call[c].home /\ o.tenant = call[c].tenant /\ o.todo = call[c].todo
      /\ o.period = p /\ o.may = call[c].may
  BY <1>6, <1>2 DEF CallType, Steps
<1>9. invoice' \in [Invoices -> InvoiceRows \cup {None}] /\ invoice'[n] = x
      /\ \A m \in Invoices \ {n} : invoice'[m] = invoice[m]
  BY <1>3, <1>7 DEF Inv, TableType
<1>10. call'[c] = o /\ \A d \in Calls \ {c} : call'[d] = call[d]
  BY <1>5 DEF Inv
<1>11. x.period = p /\ x.shows = call[c].first
  OBVIOUS
<1> HIDE DEF o, x
<1>12. \/ call[c].found = None /\ invoice[n] = None
       \/ call[c].found = n /\ invoice[n] # None /\ invoice[n].period = p
  BY <1>3, <1>4, <1>2 DEF Inv, Found, IsNew
<1>13. n # None
  BY TenantBillingAssumption
<1>14. Sound(o)
  BY <1>4, <1>6, <1>8, <1>2 DEF Sound, Holds, Own
<1>15. TableType' /\ WorkType'
  BY <1>4, <1>9 DEF Inv, TableType, WorkType, Charges
<1>16. call' \in [Calls -> CallType]
  BY <1>5, <1>8 DEF Inv
\* Who has found the row that is written holds it for the same period.
<1>17. ASSUME NEW d \in Calls, d # c, call[d].at \in {"write", "back"}, call[d].found = n
       PROVE  call[d].period = p
  BY <1>12, <1>13, <1>17 DEF Inv, Found
<1>18. ASSUME NEW d \in Calls PROVE Sound(call[d])' /\ Written(call[d])'
  <2>1. Sound(call'[d])
    BY <1>10, <1>14 DEF Inv
  <2>2. Sound(call[d])'
    BY <1>4, <2>1 DEF Sound, Holds, Own, CallType
  <2>3. CASE d = c
    BY <1>7, <1>8, <1>9, <1>10, <1>13, <2>2, <2>3 DEF Written
  <2>4. CASE d # c
    <3>1. call'[d] = call[d] /\ Written(call[d]) /\ call[d] \in CallType
      BY <1>10, <2>4 DEF Inv, Sound
    <3>2. ASSUME call[d].at = "back"
          PROVE  call[d].found # None /\ invoice'[call[d].found] # None
      <4>1. call[d].found \in Invoices /\ call[d].found # None /\ invoice[call[d].found] # None
        BY <3>1, <3>2 DEF Written, CallType
      <4>2. QED
        BY <1>7, <1>9, <4>1
    <3>3. QED
      BY <2>2, <3>1, <3>2 DEF Written
  <2>5. QED
    BY <2>3, <2>4
<1>19. Found'
  <2>1. SUFFICES ASSUME NEW d \in Calls, call'[d].at \in {"write", "back"}, call'[d].found # None
                 PROVE  /\ invoice'[call'[d].found] # None
                        /\ invoice'[call'[d].found].period = call'[d].period
    BY DEF Found
  <2>2. CASE d = c
    BY <1>7, <1>8, <1>9, <1>10, <1>11, <2>2
  <2>3. CASE d # c
    <3>1. call'[d] = call[d] /\ call[d] \in CallType
      BY <1>10, <2>3 DEF Inv, Sound
    <3>2. call[d].found \in Invoices /\ invoice[call[d].found] # None
          /\ invoice[call[d].found].period = call[d].period
      BY <2>1, <3>1 DEF Inv, Found, CallType
    <3>3. CASE call[d].found = n
      BY <1>7, <1>9, <1>11, <1>17, <2>1, <2>3, <3>1, <3>3
    <3>4. CASE call[d].found # n
      BY <1>9, <3>1, <3>2, <3>4
    <3>5. QED
      BY <3>3, <3>4
  <2>4. QED
    BY <2>2, <2>3
<1>20. Fresh'
  <2>1. SUFFICES ASSUME NEW e \in Calls, call'[e].may # {}
                 PROVE  /\ Shows(call[e].period)' \in call'[e].may
                        /\ \A d \in Reading(call[e].period)' : call'[d].first \in call'[e].may
                        /\ call'[e].at = "back" => Answer(e)' \in call'[e].may
    BY DEF Fresh, At
  <2>2. call'[e].may = call[e].may /\ call'[e].period = call[e].period
    BY <1>8, <1>10, <1>2
  <2>3. Shows(call[e].period)' \in call'[e].may
    <3>1. Shows(call[e].period) \in call[e].may
      BY <2>1, <2>2 DEF Inv, Fresh
    <3>2. QED
      BY <1>4, <2>2, <3>1 DEF Shows, ShownOf
  <2>4. ASSUME NEW d \in Reading(call[e].period)' PROVE call'[d].first \in call'[e].may
    <3>1. d \in Calls /\ call'[d].at \in {"find", "write"} /\ call'[d].period = call'[e].period
      BY <2>4 DEF Reading
    <3>2. d # c /\ call'[d] = call[d]
      BY <1>8, <1>10, <3>1
    <3>3. QED
      BY <2>1, <2>2, <3>1, <3>2, CallFacts
  <2>5. ASSUME call'[e].at = "back" PROVE Answer(e)' \in call'[e].may
    <3>1. CASE call'[e].found = n
      <4>1. Answer(e)' = call[c].first
        BY <1>9, <1>11, <3>1 DEF Answer
      <4>2. call[e].period = p
        BY <1>10, <1>17, <1>2, <2>5, <3>1
      <4>3. QED
        BY <1>4, <1>2, <2>1, <2>2, <4>1, <4>2, CallFacts
    <3>2. CASE call'[e].found # n
      <4>1. e # c /\ call'[e] = call[e]
        BY <1>8, <1>10, <3>2
      <4>2. call[e].found \in Invoices
        BY <2>5, <4>1 DEF Inv, Sound, Written, CallType
      <4>3. Answer(e)' = Answer(e)
        BY <1>9, <3>2, <4>1, <4>2 DEF Answer
      <4>4. QED
        BY <2>1, <2>5, <4>1, <4>3 DEF Inv, Fresh, At
    <3>3. QED
      BY <3>1, <3>2
  <2>6. QED
    BY <2>3, <2>4, <2>5
<1>21. Few'
  <2>1. ASSUME NEW q \in Periods, q # p
        PROVE  InvoicesOf(q)' = InvoicesOf(q) /\ Inserting(q)' \subseteq Inserting(q)
    <3>1. InvoicesOf(q)' = InvoicesOf(q)
      BY <1>7, <1>9, <1>11, <1>12, <2>1 DEF InvoicesOf
    <3>2. QED
      BY <1>8, <1>10, <3>1 DEF Inserting, At
  <2>2. CASE call[c].found # None
    <3>1. InvoicesOf(p)' = InvoicesOf(p)
      <4>1. \A m \in Invoices : (invoice'[m] # None /\ invoice'[m].period = p)
                               <=> (invoice[m] # None /\ invoice[m].period = p)
        BY <1>7, <1>9, <1>11, <1>12, <2>2
      <4>2. QED
        BY <4>1 DEF InvoicesOf
    <3>2. Inserting(p)' \subseteq Inserting(p)
      BY <1>8, <1>10 DEF Inserting, At
    <3>3. QED
      <4>1. Few
        BY DEF Inv
      <4>2. \A q \in Periods :
              /\ IsFiniteSet(InvoicesOf(q)')
              /\ Cardinality(InvoicesOf(q)') + Cardinality(Inserting(q)') <= Cardinality(Calls)
        BY <2>1, <3>1, <3>2, <4>1, FewerInsert
      <4>3. QED
        BY <4>2 DEF Few
  <2>3. CASE call[c].found = None
    <3>1. InvoicesOf(p)' = InvoicesOf(p) \cup {n} /\ n \notin InvoicesOf(p)
      <4>1. \A m \in Invoices : (invoice'[m] # None /\ invoice'[m].period = p)
                               <=> m = n \/ (invoice[m] # None /\ invoice[m].period = p)
        BY <1>7, <1>9, <1>11
      <4>2. invoice[n] = None
        BY <1>12, <1>13, <2>3
      <4>3. QED
        BY <4>1, <4>2 DEF InvoicesOf
    <3>2. Inserting(p)' = Inserting(p) \ {c} /\ c \in Inserting(p)
      BY <1>4, <1>8, <1>10, <1>2, <2>3 DEF Inserting, At
    <3>3. IsFiniteSet(InvoicesOf(p)) /\ Cardinality(InvoicesOf(p)) \in Nat
      BY <1>7, FS_CardinalityType DEF Few, Inv
    <3>4. /\ Cardinality(InvoicesOf(p)') = Cardinality(InvoicesOf(p)) + 1
          /\ IsFiniteSet(InvoicesOf(p)')
      BY <3>1, <3>3, FS_AddElement
    <3>5. Cardinality(Inserting(p)') = Cardinality(Inserting(p)) - 1
      BY <1>7, <3>2, InsertingFinite, FS_RemoveElement
    <3>6. Cardinality(InvoicesOf(p)) + Cardinality(Inserting(p)) <= Cardinality(Calls)
      BY <1>7 DEF Few, Inv
    <3>7. Cardinality(Inserting(p)) \in Nat /\ Cardinality(Calls) \in Nat
      BY <1>7, InsertingFinite
    <3>8. Cardinality(InvoicesOf(p)') + Cardinality(Inserting(p)') <= Cardinality(Calls)
      BY <3>3, <3>4, <3>5, <3>6, <3>7
    <3>9. ASSUME NEW q \in Periods
          PROVE  /\ IsFiniteSet(InvoicesOf(q)')
                 /\ Cardinality(InvoicesOf(q)') + Cardinality(Inserting(q)') <= Cardinality(Calls)
      <4>1. CASE q = p
        BY <3>4, <3>8, <4>1
      <4>2. CASE q # p
        BY <2>1, <4>2, FewerInsert DEF Inv
      <4>3. QED
        BY <4>1, <4>2
    <3>10. QED
      BY <3>9 DEF Few
  <2>4. QED
    BY <2>2, <2>3
<1>22. Reports'
  <2>1. ReportHolds(o)
    BY <1>8, NotSealed DEF Told
  <2>2. ASSUME NEW d \in Calls PROVE \E q : Alike(call'[d], q) /\ ReportHolds(q)
    BY <1>10, <2>1 DEF Inv, Reports, Alike
  <2>3. TableType /\ Steady
    BY <1>4, NothingMoves DEF Inv
  <2>4. QED
    BY <2>2, <2>3, ReportsStay
<1>23. QED
  BY <1>15, <1>16, <1>18, <1>19, <1>20, <1>21, <1>22 DEF Inv

LEMMA InvInit == Init => Inv
<1> SUFFICES ASSUME Init PROVE Inv
  OBVIOUS
<1>1. row \in [Periods -> RowType]
  BY TenantBillingAssumption DEF Init, RowType, Statuses
<1>2. TableType
  BY <1>1, TenantBillingAssumption DEF Init, TableType, Charges
<1>3. WorkType
  BY IdleWork DEF Init, WorkType
<1>4. call = [c \in Calls |-> Idle] /\ call \in [Calls -> CallType]
  BY IdleHolds DEF Init
<1>5. \A c \in Calls : Sound(call[c]) /\ Written(call[c])
  BY <1>4, IdleHolds DEF Sound, Written, Own, Idle
<1>6. Reports
  <2>1. ReportHolds(Idle)
    BY NotSealed DEF Idle
  <2>2. QED
    BY <1>4, <2>1 DEF Reports
<1>7. Fresh /\ Found
  BY <1>4 DEF Fresh, Found, Idle
<1>8. Few
  <2>1. \A p \in Periods : InvoicesOf(p) = {} /\ Inserting(p) = {}
    BY <1>4 DEF Init, InvoicesOf, Inserting, At, Idle
  <2>2. Cardinality(Calls) \in Nat
    BY TenantBillingAssumption, FS_CardinalityType
  <2>3. QED
    <3>1. \A p \in Periods : /\ IsFiniteSet(InvoicesOf(p)) /\ Cardinality(InvoicesOf(p)) = 0
                             /\ Cardinality(Inserting(p)) = 0
      BY <2>1, FS_EmptySet
    <3>2. QED
      BY <2>2, <3>1 DEF Few
<1>9. QED
  BY <1>2, <1>3, <1>4, <1>5, <1>6, <1>7, <1>8 DEF Inv

LEMMA InvNext == Inv /\ [Next]_vars => Inv'
<1> SUFFICES ASSUME Inv, [Next]_vars PROVE Inv'
  OBVIOUS
<1>1. ASSUME NEW w \in Operators, Operator(w) PROVE Inv'
  BY <1>1, OperatorKeeps
<1>2. ASSUME NEW c \in Calls, Ask(c) \/ Step(c) PROVE Inv'
  BY <1>2, AskMoves, StepMoves, QuietKeeps, FindKeeps, WriteKeeps
<1>3. CASE UNCHANGED vars
  <2>1. UNCHANGED <<row, charge, made, invoice, work, call>>
    BY <1>3 DEF vars
  <2>2. TableType' /\ WorkType'
    BY <2>1 DEF Inv, TableType, WorkType, Charges
  <2>3. ASSUME NEW c \in Calls PROVE Sound(call[c])' /\ Written(call[c])'
    BY <2>1 DEF Inv, Written, Sound, Holds, Own, CallType
  <2>4. Reports'
    <3>1. ASSUME NEW d \in Calls PROVE \E q : Alike(call'[d], q) /\ ReportHolds(q)
      BY <2>1 DEF Inv, Reports, Alike
    <3>2. QED
      BY <2>1, <3>1, NothingMoves, ReportsStay DEF Inv
  <2>5. Fresh'
    BY <2>1 DEF Inv, Fresh, Shows, ShownOf, Reading, Answer, At
  <2>6. Found' /\ Few'
    BY <2>1 DEF Inv, Found, Few, InvoicesOf, Inserting, At
  <2>7. QED
    BY <2>1, <2>2, <2>3, <2>4, <2>5, <2>6 DEF Inv
<1>4. QED
  BY <1>1, <1>2, <1>3 DEF Next

LEMMA InvAlways == Spec => []Inv
BY InvInit, InvNext, PTL DEF Spec

-----------------------------------------------------------------------------
(* The theorems *)

\* The tables hold rows of their columns, and a call holds what its next
\* statement needs.
THEOREM TypeCorrect == Spec => []TypeOK
<1>1. Inv => TypeOK
  BY DEF Inv, TypeOK, TableType, RowType, WorkType, WorkRecord, WorkHolds, Sound, CallType, Holds,
         Written, At
<1>2. QED
  BY <1>1, InvAlways, PTL

\* Whatever tenant a caller names, it is shown the rows of its own, and the
\* period it is shown is that tenant's or of its subscription.
THEOREM ShownOwnRows == Spec => []OwnRows
<1>1. Inv => OwnRows
  BY DEF Inv, Sound, Own, OwnRows
<1>2. QED
  BY <1>1, InvAlways, PTL

\* Previews in progress at once, between whatever statements of the operator's
\* calls, neither pile up invoices nor answer with one older than they may.
THEOREM InvoicesAreSound == Spec => []InvoicesSound
<1>1. Inv => InvoiceNoOlder
  <2>1. SUFFICES ASSUME Inv, NEW c \in Calls, At(c, "back") PROVE Answer(c) \in call[c].may
    BY DEF InvoiceNoOlder
  <2>2. call[c].may # {}
    BY <2>1 DEF Inv, Sound, Holds, At
  <2>3. QED
    BY <2>1, <2>2 DEF Inv, Fresh
<1>2. Inv => FewInvoices
  <2>1. SUFFICES ASSUME Inv, NEW p \in Periods PROVE Cardinality(InvoicesOf(p)) <= Cardinality(Calls)
    BY DEF FewInvoices
  <2>2. /\ Cardinality(InvoicesOf(p)) \in Nat
        /\ Cardinality(InvoicesOf(p)) + Cardinality(Inserting(p)) <= Cardinality(Calls)
    BY <2>1, FS_CardinalityType DEF Inv, Few
  <2>3. QED
    BY <2>2, InsertingFinite
<1>3. QED
  BY <1>1, <1>2, InvAlways, PTL DEF InvoicesSound

\* A report of a period that was closed for good, and reconciled, when it was
\* first read shows the savings the period was closed with in both places, and
\* sums up charges that amount to them but for adjustments, whatever statements
\* of summaries, materializations, adjustments and changes of status come between
\* its own; so does an overview before it goes on to the invoice.
THEOREM ClosedReportsReconcile == Spec => []ClosedReportReconciles
<1>1. Inv => ClosedReportReconciles
  <2>1. SUFFICES ASSUME Inv, NEW c \in Calls, Reported(c), call[c].sealed
                 PROVE  /\ call[c].first.closed
                        /\ call[c].again = call[c].first.total
                        /\ Billed(call[c].charged \ Adjustments) = call[c].first.total
    BY DEF ClosedReportReconciles
  <2>2. PICK o : o = call[c]
    OBVIOUS
  <2>3. o \in CallType /\ Holds(o) /\ ReportHolds(o) /\ Told(o) /\ o.sealed
    BY <2>1, <2>2 DEF Inv, Sound, Reports, Reported, Told, At
  <2>4. o.period \in Periods /\ o.charged \in Sums
    BY <2>3 DEF CallType, Holds, Told, Sums
  <2>5. QED
    BY <2>2, <2>3, <2>4 DEF ReportHolds, ReportSound
<1>2. QED
  BY <1>1, InvAlways, PTL

-----------------------------------------------------------------------------
(* Pages of charges *)

\* Of the charges that were there when it began, a client has seen those older
\* ranks its offset has passed: newer charges only push the others back.
Paged(o) ==
    o.kind = "charges" =>
        /\ o.at \in {"page", "answered"} /\ o.todo = {} /\ o.start \subseteq OfTenant(o.tenant)
        /\ o.at = "page" =>
              \A i \in o.start \ o.seen : NewerIn(OfTenant(o.tenant), i) >= o.offset
        /\ o.at = "answered" => o.start \subseteq o.seen

PagedInv == \A c \in Calls : Paged(call[c])

\* A nonempty set of numbers up to a bound has a greatest one.
LEMMA Greatest ==
  ASSUME NEW n \in Nat, NEW S \in SUBSET (1..n), S # {}
  PROVE  \E i \in S : \A j \in S : j <= i
<1> DEFINE T == {n - i : i \in S}
           R == OpToRel(<, Nat)
<1>0. \A i \in S : i \in Nat /\ n - i \in Nat
  OBVIOUS
<1>1. T \subseteq Nat /\ T # {}
  BY <1>0
<1>2. IsWellFoundedOn(R, Nat)
  BY NatLessThanWellFounded
<1>3. \A x, y \in Nat : <<y, x>> \in R <=> y < x
  BY DEF OpToRel
<1> HIDE DEF R, T
<1>4. PICK x \in T : \A y \in T : ~(<<y, x>> \in R)
  BY <1>1, <1>2, WFMin
<1>5. PICK i \in S : x = n - i
  BY <1>4 DEF T
<1>6. ASSUME NEW j \in S PROVE j <= i
  <2>1. n - j \in T /\ n - j \in Nat /\ x \in Nat
    BY <1>1, <1>4 DEF T
  <2>2. ~(n - j < x)
    BY <1>3, <1>4, <2>1
  <2>3. QED
    BY <1>0, <1>5, <2>2
<1>7. QED
  BY <1>6

\* How many of a set are newer: finitely many, fewer the newer one is, and no
\* fewer in a larger set.
LEMMA NewerFacts ==
  ASSUME NEW n \in Nat, NEW T \in SUBSET (1..n)
  PROVE  /\ IsFiniteSet(T)
         /\ \A i : NewerIn(T, i) \in Nat /\ IsFiniteSet({j \in T : j > i})
         /\ \A i, k \in T : k > i => NewerIn(T, k) < NewerIn(T, i)
         /\ \A U \in SUBSET T : \A i : NewerIn(U, i) <= NewerIn(T, i)
<1>0. \A i \in T : i \in Int
  OBVIOUS
<1>1. IsFiniteSet(T)
  <2>1. IsFiniteSet(1..n)
    BY FS_Interval
  <2>2. QED
    BY <2>1, FS_Subset
<1>2. ASSUME NEW i PROVE NewerIn(T, i) \in Nat /\ IsFiniteSet({j \in T : j > i})
  <2>1. {j \in T : j > i} \in SUBSET T
    OBVIOUS
  <2>2. QED
    BY <1>1, <2>1, FS_Subset, FS_CardinalityType DEF NewerIn
<1>3. ASSUME NEW i \in T, NEW k \in T, k > i PROVE NewerIn(T, k) < NewerIn(T, i)
  <2> DEFINE I == {j \in T : j > i}
             K == {j \in T : j > k}
  <2>1. K \subseteq I /\ k \in I /\ k \notin K
    <3>1. \A j \in T : j > k => j > i
      BY <1>0, <1>3
    <3>2. ~(k > k)
      BY <1>0
    <3>3. QED
      BY <1>3, <3>1, <3>2
  <2>2. IsFiniteSet(I) /\ IsFiniteSet(K)
    BY <1>2
  <2> HIDE DEF I, K
  <2>3. Cardinality(K) <= Cardinality(I) /\ Cardinality(K) # Cardinality(I)
        /\ Cardinality(K) \in Nat /\ Cardinality(I) \in Nat
    BY <2>1, <2>2, FS_Subset, FS_CardinalityType
  <2>4. QED
    BY <2>3 DEF NewerIn, I, K
<1>4. ASSUME NEW U \in SUBSET T, NEW i PROVE NewerIn(U, i) <= NewerIn(T, i)
  <2>1. {j \in U : j > i} \in SUBSET {j \in T : j > i}
    OBVIOUS
  <2>2. QED
    BY <1>2, <2>1, FS_Subset DEF NewerIn
<1>5. QED
  BY <1>1, <1>2, <1>3, <1>4

\* The first of a set, newest first: they rank among themselves as in the set,
\* and if they are fewer than were asked for they are all.
LEMMA FirstOf ==
  ASSUME NEW n \in Nat, NEW T \in SUBSET (1..n), NEW m \in Nat,
         NEW F, F = {i \in T : NewerIn(T, i) < m}
  PROVE  /\ \A i \in F : NewerIn(F, i) = NewerIn(T, i)
         /\ Cardinality(F) < m => F = T
<1>1. /\ IsFiniteSet(T) /\ \A i : NewerIn(T, i) \in Nat /\ IsFiniteSet({j \in T : j > i})
      /\ \A i, k \in T : k > i => NewerIn(T, k) < NewerIn(T, i)
  BY NewerFacts
<1>0. \A i \in T : i \in Int
  OBVIOUS
<1>2. ASSUME NEW i \in F PROVE NewerIn(F, i) = NewerIn(T, i)
  <2>1. ASSUME NEW j \in T, j > i PROVE j \in F
    <3>1. NewerIn(T, j) < NewerIn(T, i) /\ NewerIn(T, i) < m
      BY <1>1, <2>1
    <3>0. NewerIn(T, j) \in Nat /\ NewerIn(T, i) \in Nat
      BY <1>1
    <3>2. NewerIn(T, j) < m
      BY <3>0, <3>1
    <3>3. QED
      BY <3>2
  <2>2. {j \in F : j > i} = {j \in T : j > i}
    BY <2>1
  <2>3. QED
    BY <2>2 DEF NewerIn
<1>3. ASSUME Cardinality(F) < m, F # T PROVE FALSE
  <2> DEFINE rest == T \ F
  <2>1. rest \in SUBSET (1..n) /\ rest # {}
    BY <1>3
  <2>2. PICK i \in rest : \A j \in rest : j <= i
    BY <2>1, Greatest
  <2>3. {j \in T : j > i} \subseteq F
    <3>1. \A j \in T : j > i => ~(j <= i)
      BY <1>0, <2>2
    <3>2. QED
      BY <2>2, <3>1
  <2>4. IsFiniteSet(F) /\ Cardinality(F) \in Nat
    BY <1>1, FS_Subset, FS_CardinalityType
  <2>5. NewerIn(T, i) <= Cardinality(F)
    BY <2>3, <2>4, FS_Subset DEF NewerIn
  <2>6. ~(NewerIn(T, i) < m)
    BY <2>2
  <2>7. NewerIn(T, i) \in Nat
    BY <1>1
  <2>8. QED
    BY <1>3, <2>4, <2>5, <2>6, <2>7
<1>4. QED
  BY <1>2, <1>3

\* The charges of a tenant are numbers up to made, and only become more.
LEMMA TenantsCharges ==
  ASSUME Inv, NEW t
  PROVE  /\ made \in Nat /\ OfTenant(t) \in SUBSET (1..made)
         /\ Charged => /\ OfTenant(t) \subseteq OfTenant(t)'
                       /\ OfTenant(t)' \in SUBSET (1..made')
                       /\ \A i : NewerIn(OfTenant(t), i) <= NewerIn(OfTenant(t)', i)
<1>1. made \in Nat
  BY TenantBillingAssumption DEF Inv, TableType
<1>2. OfTenant(t) \in SUBSET (1..made)
  BY DEF OfTenant, Charges
<1>3. ASSUME Charged
      PROVE  /\ OfTenant(t) \subseteq OfTenant(t)'
             /\ OfTenant(t)' \in SUBSET (1..made')
             /\ \A i : NewerIn(OfTenant(t), i) <= NewerIn(OfTenant(t)', i)
  <2>1. OfTenant(t)' \in SUBSET (1..made') /\ made' \in Nat
    BY <1>3 DEF OfTenant, Charges, Charged
  <2>2. 1..made \subseteq 1..made'
    BY <1>1, <1>3 DEF Charged
  <2>3. OfTenant(t) \subseteq OfTenant(t)'
    BY <1>3, <2>2 DEF OfTenant, Charges, Charged
  <2>4. \A i : NewerIn(OfTenant(t), i) <= NewerIn(OfTenant(t)', i)
    BY <2>1, <2>3, NewerFacts
  <2>5. QED
    BY <2>1, <2>3, <2>4
<1>4. QED
  BY <1>1, <1>2, <1>3

LEMMA PagedOperator ==
  ASSUME Inv, PagedInv, NEW w \in Operators, Operator(w)
  PROVE  PagedInv'
<1>0. Steady /\ RowGoesOn
  BY OperatorMoves DEF Inv
<1>1. Charged
  BY <1>0 DEF Steady
<1>2. SUFFICES ASSUME NEW c \in Calls, call[c].kind = "charges" \/ call'[c].kind = "charges"
               PROVE  Paged(call[c])'
  BY DEF PagedInv, Paged
<1>3. PICK o, t : o = call[c] /\ t = o.tenant
  OBVIOUS
<1>4. /\ Paged(o) /\ o \in CallType /\ o.kind = "charges"
      /\ call'[c].kind = o.kind /\ call'[c].at = o.at /\ call'[c].todo = o.todo
      /\ call'[c].start = o.start /\ call'[c].seen = o.seen /\ call'[c].offset = o.offset
      /\ call'[c].tenant = o.tenant
  <2>1. PICK m : call'[c] = [o EXCEPT !.may = m]
    BY <1>0, <1>3, MayGrows DEF Inv
  <2>2. Paged(o) /\ o \in CallType
    BY <1>3 DEF PagedInv, Inv
  <2>3. QED
    BY <1>2, <1>3, <2>1, <2>2 DEF CallType
<1>5. /\ OfTenant(t) \subseteq OfTenant(t)'
      /\ \A i : NewerIn(OfTenant(t), i) <= NewerIn(OfTenant(t)', i)
      /\ \A i : NewerIn(OfTenant(t), i) \in Nat /\ NewerIn(OfTenant(t)', i) \in Nat
  <2>1. /\ OfTenant(t) \in SUBSET (1..made) /\ OfTenant(t)' \in SUBSET (1..made')
        /\ made \in Nat /\ made' \in Nat
    BY <1>1, TenantsCharges DEF Charged
  <2>2. QED
    BY <1>1, <2>1, TenantsCharges, NewerFacts
<1>6. ASSUME o.at = "page", NEW i \in o.start \ o.seen
      PROVE  NewerIn(OfTenant(t)', i) >= o.offset
  <2>1. NewerIn(OfTenant(t), i) >= o.offset /\ o.offset \in Nat
    BY <1>2, <1>3, <1>4, <1>6 DEF Paged, CallType
  <2>2. NewerIn(OfTenant(t), i) <= NewerIn(OfTenant(t)', i)
        /\ NewerIn(OfTenant(t), i) \in Nat /\ NewerIn(OfTenant(t)', i) \in Nat
    BY <1>5
  <2>3. QED
    BY <2>1, <2>2
<1>7. Paged(o)'
  BY <1>2, <1>3, <1>4, <1>5, <1>6 DEF Paged, NewerIn
<1>8. QED
  BY <1>3, <1>4, <1>7 DEF Paged

\* A page shows the charges whose rank it is about; without has_more there are
\* none behind it.
LEMMA PageShows ==
  ASSUME Inv, NEW t, NEW offset \in Nat
  PROVE  /\ \A i \in OfTenant(t) : NewerIn(OfTenant(t), i) \in offset..(offset + PageSize - 1) =>
                i \in Slice(Fetched(t, offset), offset)
         /\ ~HasMore(Fetched(t, offset), offset) =>
                \A i \in OfTenant(t) : NewerIn(OfTenant(t), i) < offset + PageSize
<1> DEFINE T == OfTenant(t)
           F == Fetched(t, offset)
           m == PageSize + offset + 1
<1>1. made \in Nat /\ T \in SUBSET (1..made)
  BY TenantsCharges
<1>2. PageSize \in Nat /\ m \in Nat
  BY TenantBillingAssumption
<1>3. F = {i \in T : NewerIn(T, i) < m}
  BY DEF Fetched
<1> HIDE DEF T, F
<1>4. /\ \A i \in F : NewerIn(F, i) = NewerIn(T, i)
      /\ Cardinality(F) < m => F = T
  BY <1>1, <1>2, <1>3, FirstOf
<1>5. /\ IsFiniteSet(T) /\ \A i : NewerIn(T, i) \in Nat /\ IsFiniteSet({j \in T : j > i})
  BY <1>1, NewerFacts
<1>6. ASSUME NEW i \in T, NewerIn(T, i) \in offset..(offset + PageSize - 1)
      PROVE  i \in Slice(F, offset)
  <2>1. NewerIn(T, i) < m
    BY <1>2, <1>6
  <2>2. i \in F
    BY <1>3, <2>1
  <2>3. QED
    BY <1>4, <1>6, <2>2 DEF Slice
<1>7. ASSUME ~HasMore(F, offset), NEW i \in T
      PROVE  NewerIn(T, i) < offset + PageSize
  <2>1. F \subseteq T /\ IsFiniteSet(F) /\ Cardinality(F) \in Nat
    BY <1>3, <1>5, FS_Subset, FS_CardinalityType
  <2>2. Cardinality(F) <= offset + PageSize /\ Cardinality(F) < m
    BY <1>2, <1>7, <2>1 DEF HasMore
  <2>3. F = T
    BY <1>4, <2>2
  <2>4. {j \in T : j > i} \in SUBSET T /\ i \notin {j \in T : j > i}
    <3>1. ~(i > i)
      BY <1>1, <1>7
    <3>2. QED
      BY <3>1
  <2>5. NewerIn(T, i) <= Cardinality(T) /\ NewerIn(T, i) # Cardinality(T)
    BY <1>5, <1>7, <2>4, FS_Subset DEF NewerIn
  <2>6. NewerIn(T, i) \in Nat
    BY <1>5
  <2>7. QED
    BY <1>2, <2>1, <2>2, <2>3, <2>5, <2>6
<1>8. QED
  BY <1>6, <1>7 DEF T, F

LEMMA PagedPage ==
  ASSUME Inv, NEW c \in Calls, Paged(call[c]), call[c].kind = "charges", Page(c)
  PROVE  Paged(call[c])'
<1>1. PICK o, t, offset : o = call[c] /\ t = o.tenant /\ offset = o.offset
  OBVIOUS
<1> DEFINE rows == Fetched(t, offset)
           more == HasMore(rows, offset)
<1>2. o \in CallType /\ Paged(o) /\ o.at = "page" /\ offset \in Nat /\ o.kind = "charges"
  BY <1>1 DEF Inv, Page, At, CallType
<1>3. UNCHANGED <<charge, made>>
  BY DEF Page
<1>4. Matching(rows, o.kind) = rows
  BY <1>2 DEF Matching
<1>5. call'[c] = [o EXCEPT !.at = IF more THEN "page" ELSE "answered",
                           !.offset = IF more THEN offset + PageSize ELSE 0,
                           !.seen = @ \cup Slice(rows, offset)]
  BY <1>1, <1>4 DEF Page, Inv
<1>6. /\ call'[c].at = IF more THEN "page" ELSE "answered"
      /\ more => call'[c].offset = offset + PageSize
      /\ call'[c].seen = o.seen \cup Slice(rows, offset)
      /\ call'[c].kind = "charges" /\ call'[c].todo = o.todo /\ call'[c].start = o.start
      /\ call'[c].tenant = t
  BY <1>1, <1>2, <1>5 DEF CallType
<1>7. \A i \in OfTenant(t) : NewerIn(OfTenant(t), i) \in offset..(offset + PageSize - 1) =>
          i \in Slice(rows, offset)
  BY <1>2, PageShows
<1>8. ~more => \A i \in OfTenant(t) : NewerIn(OfTenant(t), i) < offset + PageSize
  BY <1>2, PageShows
<1> HIDE DEF rows, more
<1>9. /\ o.todo = {} /\ o.start \subseteq OfTenant(t)
      /\ \A i \in o.start \ o.seen : NewerIn(OfTenant(t), i) >= offset
  BY <1>1, <1>2 DEF Paged
<1>10. PageSize \in Nat /\ \A i : NewerIn(OfTenant(t), i) \in Nat
  BY TenantBillingAssumption, TenantsCharges, NewerFacts
<1>11. ASSUME NEW i \in o.start \ call'[c].seen
       PROVE  NewerIn(OfTenant(t), i) >= offset + PageSize
  <2>1. NewerIn(OfTenant(t), i) >= offset /\ NewerIn(OfTenant(t), i) \in Nat
    BY <1>6, <1>9, <1>10, <1>11
  <2>2. NewerIn(OfTenant(t), i) \notin offset..(offset + PageSize - 1)
    BY <1>6, <1>7, <1>9, <1>11
  <2>3. QED
    BY <1>2, <1>10, <2>1, <2>2
<1>12. ~more => o.start \subseteq call'[c].seen
  <2>1. SUFFICES ASSUME ~more, NEW i \in o.start \ call'[c].seen PROVE FALSE
    OBVIOUS
  <2>2. NewerIn(OfTenant(t), i) < offset + PageSize
    BY <1>8, <1>9, <2>1
  <2>3. NewerIn(OfTenant(t), i) >= offset + PageSize /\ NewerIn(OfTenant(t), i) \in Nat
    BY <1>10, <1>11, <2>1
  <2>4. QED
    BY <1>2, <1>10, <2>2, <2>3
<1>13. OfTenant(call[c].tenant)' = OfTenant(t)
  BY <1>3, <1>6 DEF OfTenant, Charges
<1>14. more => \A i \in call'[c].start \ call'[c].seen :
          NewerIn(OfTenant(call[c].tenant)', i) >= call'[c].offset
  BY <1>6, <1>11, <1>13
<1>15. (call'[c].at = "page" <=> more) /\ (call'[c].at = "answered" <=> ~more)
  BY <1>6
<1>16. QED
  BY <1>6, <1>9, <1>12, <1>13, <1>14, <1>15 DEF Paged, NewerIn

\* Every other step of a call leaves the charges alone, and one that asks for
\* charges begins with none of them passed.
LEMMA PagedStep ==
  ASSUME Inv, PagedInv, NEW c \in Calls, Ask(c) \/ Step(c)
  PROVE  PagedInv'
<1>1. UNCHANGED <<charge, made>> /\ \A d \in Calls \ {c} : call'[d] = call[d]
  <2>1. CASE Ask(c)
    BY <2>1, AskMoves DEF Inv, Quiet
  <2>2. CASE Step(c)
    BY <2>2 DEF Inv, Step, NextOfPage, ListPeriods, Fallback, ListsNone, FallbackNone, Choose,
                Start, Goto, Read, ReadAgain, Sum, ReadForInvoice, FindInvoice, WriteInvoice,
                ReadBack, Page, End
  <2>3. QED
    BY <2>1, <2>2
<1>2. SUFFICES Paged(call[c])'
  <2>1. ASSUME NEW d \in Calls \ {c} PROVE Paged(call[d])'
    BY <1>1 DEF PagedInv, Paged, OfTenant, Charges, NewerIn
  <2>2. QED
    BY <2>1 DEF PagedInv
<1>3. call[c] \in CallType /\ Paged(call[c]) /\ call \in [Calls -> CallType]
  BY DEF Inv, PagedInv
<1>4. ASSUME call'[c].kind # "charges" PROVE Paged(call[c])'
  BY <1>4 DEF Paged
<1>5. ASSUME NEW kind, NEW home, NEW t, NEW p, NEW step, NEW todo, kind # "charges",
             Start(c, kind, home, t, p, step, todo)
      PROVE  call'[c].kind # "charges"
  <2>1. PICK f : call' = [call EXCEPT ![c] =
                   [Idle EXCEPT !.at = step, !.kind = kind, !.home = home, !.tenant = t,
                                !.period = p, !.todo = todo, !.may = f]]
    BY <1>5 DEF Start
  <2>2. call'[c].kind = kind
    BY <1>3, <2>1 DEF Idle
  <2>3. QED
    BY <1>5, <2>2
<1>6. ASSUME NEW who, NEW requested, NEW kind, AskPages(c, who, requested, kind)
      PROVE  Paged(call[c])'
  <2> DEFINE t == ScopeTenant(who, requested)
  <2>1. call' = [call EXCEPT ![c] = [Idle EXCEPT !.at = "page", !.kind = kind,
                                        !.home = Home(who, t), !.tenant = t,
                                        !.start = OfTenant(t)]]
    BY <1>6 DEF AskPages
  <2> HIDE DEF t
  <2>2. /\ call'[c].at = "page" /\ call'[c].tenant = t /\ call'[c].start = OfTenant(t)
        /\ call'[c].offset = 0 /\ call'[c].todo = {}
    BY <1>3, <2>1 DEF Idle
  <2>3. \A i : NewerIn(OfTenant(t), i) \in Nat
    BY TenantsCharges, NewerFacts
  <2>4. OfTenant(call[c].tenant)' = OfTenant(t)
    BY <1>1, <2>2 DEF OfTenant, Charges
  <2>5. QED
    BY <2>2, <2>3, <2>4 DEF Paged, NewerIn
<1>7. ASSUME NEW kind, NEW home, NEW t, NEW todo, kind # "charges",
             call' = [call EXCEPT ![c] = [Idle EXCEPT !.at = "next", !.kind = kind, !.home = home,
                                                      !.tenant = t, !.todo = todo]]
      PROVE  call'[c].kind # "charges"
  BY <1>3, <1>7 DEF Idle
<1>8. CASE Ask(c)
  <2>1. ASSUME NEW who, NEW requested, NEW kind, NEW p, AskPeriod(c, who, requested, kind, p)
        PROVE  call'[c].kind # "charges"
    BY <1>5, <2>1 DEF AskPeriod
  <2>2. ASSUME NEW who, NEW requested, NEW kind, NEW page,
               AskList(c, who, requested, kind, page)
        PROVE  call'[c].kind # "charges"
    BY <1>7, <2>2 DEF AskList
  <2>3. ASSUME NEW who, NEW requested, AskOverview(c, who, requested)
        PROVE  call'[c].kind # "charges"
    BY <1>3, <2>3 DEF AskOverview, Idle
  <2>4. ASSUME NEW kind, NEW p, AskAsOperator(c, kind, p)
        PROVE  call'[c].kind # "charges"
    BY <1>5, <2>4 DEF AskAsOperator
  <2>5. ASSUME NEW page, AskListAsOperator(c, page)
        PROVE  call'[c].kind # "charges"
    BY <1>3, <2>5 DEF AskListAsOperator, Idle
  <2>6. QED
    BY <1>4, <1>6, <1>8, <2>1, <2>2, <2>3, <2>4, <2>5 DEF Ask
<1>9. CASE call[c].kind # "charges" /\ Step(c)
  <2>1. ASSUME NEW p, NextOfPage(c, p) PROVE call'[c].kind # "charges"
    BY <1>5, <1>9, <2>1 DEF NextOfPage
  <2>2. ASSUME NEW p, ListPeriods(c, p) \/ Fallback(c, p) PROVE call'[c].kind # "charges"
    BY <1>5, <2>2 DEF ListPeriods, Fallback, Choose
  <2>3. CASE ListsNone(c) \/ FallbackNone(c)
    BY <1>3, <1>4, <1>9, <2>3 DEF ListsNone, FallbackNone, Goto, CallType
  <2>4. CASE Read(c) \/ ReadAgain(c) \/ Sum(c) \/ ReadForInvoice(c)
    BY <1>3, <1>4, <1>9, <2>4 DEF Read, ReadAgain, Sum, ReadForInvoice, CallType
  <2>5. CASE FindInvoice(c) \/ WriteInvoice(c) \/ ReadBack(c)
    <3>1. CASE FindInvoice(c)
      BY <1>3, <1>4, <1>9, <3>1 DEF FindInvoice, CallType
    <3>2. CASE WriteInvoice(c)
      <4>1. PICK n : call' = [call EXCEPT ![c].at = "back", ![c].found = n, ![c].first = None]
        BY <3>2 DEF WriteInvoice
      <4>2. call'[c].kind = call[c].kind
        BY <1>3, <4>1 DEF CallType
      <4>3. QED
        BY <1>4, <1>9, <4>2
    <3>3. CASE ReadBack(c)
      BY <1>3, <1>4, <1>9, <3>3 DEF ReadBack, CallType
    <3>4. QED
      BY <2>5, <3>1, <3>2, <3>3
  <2>6. CASE Page(c)
    <3>1. call'[c].kind = call[c].kind
      BY <1>3, <2>6 DEF Page, CallType
    <3>2. QED
      BY <1>4, <1>9, <3>1
  <2>7. CASE End(c)
    BY <1>3, <1>4, <2>7 DEF End, Idle
  <2>8. QED
    BY <1>4, <1>9, <2>1, <2>2, <2>3, <2>4, <2>5, <2>6, <2>7 DEF Step
<1>10. CASE call[c].kind = "charges" /\ Step(c)
  <2>1. call[c].at \in {"page", "answered"} /\ call[c].todo = {}
    BY <1>3, <1>10 DEF Paged
  <2>2. Page(c) \/ End(c)
    BY <1>10, <2>1 DEF Step, NextOfPage, ListPeriods, Fallback, ListsNone, FallbackNone, Read,
                       ReadAgain, Sum, ReadForInvoice, FindInvoice, WriteInvoice, ReadBack, At
  <2>3. ASSUME End(c) PROVE call'[c].kind # "charges"
    BY <1>3, <2>3 DEF End, Idle
  <2>4. QED
    BY <1>3, <1>4, <1>10, <2>2, <2>3, PagedPage
<1>11. QED
  BY <1>8, <1>9, <1>10

\* A client that follows next_offset to the end has seen every charge of its
\* tenant that was there when it began, whatever is charged meanwhile.
THEOREM PagesComplete == Spec => []PagesMissNothing
<1>1. Init => PagedInv
  BY DEF Init, PagedInv, Paged, Idle
<1>2. Inv /\ PagedInv /\ [Next]_vars => PagedInv'
  <2> SUFFICES ASSUME Inv, PagedInv, [Next]_vars PROVE PagedInv'
    OBVIOUS
  <2>1. CASE UNCHANGED vars
    BY <2>1 DEF PagedInv, Paged, OfTenant, Charges, NewerIn, vars
  <2>2. QED
    BY <2>1, PagedOperator, PagedStep DEF Next
<1>3. PagedInv => PagesMissNothing
  BY DEF PagedInv, Paged, PagesMissNothing, At
<1>4. QED
  BY <1>1, <1>2, <1>3, InvAlways, PTL DEF Spec
=============================================================================
