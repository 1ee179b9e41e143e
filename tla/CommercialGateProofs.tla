------------------------ MODULE CommercialGateProofs ------------------------
(***************************************************************************)
(* Theorems about CommercialGate, for any sets of tenants, subscriptions,  *)
(* periods, admin calls and chat requests.  Which row is the current one   *)
(* stays opaque: the proofs use only that a decision reads Paid and        *)
(* Standing, each at one moment.                                           *)
(***************************************************************************)
EXTENDS CommercialGate, TLAPS

Ats == {"idle", "aggregate", "store", "refresh", "current", "write",
        "log", "enforce", "enforce_period", "answered"}

OpType == [at : Ats, route : {"none", "subscription", "summarize", "status", "close"},
           period : Periods \cup {None}, want : Statuses \cup {"none"}, total : Nat,
           event : Events \cup {None}, then : {"answered", "enforce"}, paid : BOOLEAN]
GateType == [at : {"idle", "deciding", "admitted", "refused"}, tenant : Tenants \cup {None},
             paid : BOOLEAN, reason : Standings \cup {"none"}]

\* A call in progress has a period and, to write, a status to write; the call
\* on a subscription has only its event.
Named(o) ==
    /\ o.at \notin {"idle", "answered", "log"} => o.period \in Periods
    /\ o.at = "log" => o.event \in Events
    /\ o.at = "log" /\ o.then = "enforce" => o.period \in Periods
    /\ o.at \in {"current", "write"} => o.want \in Statuses /\ o.route # "subscription"
    /\ o.at \in {"aggregate", "store", "refresh"} => o.route = "summarize"
    /\ o.route = "close" => o.period \in Periods

OpOK(o) == o \in OpType /\ Named(o)

Asking(c) == gate[c].at = "deciding" => gate[c].tenant \in Tenants

TypeInv ==
    /\ TypeOK
    /\ \A h \in Operators : Named(op[h])
    /\ \A c \in Calls : Asking(c)

LEMMA TypeOps == TypeInv => \A h \in Operators : OpOK(op[h])
  BY DEF TypeInv, TypeOK, OpOK, OpType, Ats

LEMMA IdleOK == OpOK(Idle)
  BY DEF OpOK, OpType, Named, Idle, Ats

\* To change one call to a good one keeps all calls good.
LEMMA OpUpdate ==
  ASSUME TypeInv, NEW h \in Operators, NEW o, OpOK(o), op' = [op EXCEPT ![h] = o]
  PROVE  op' \in [Operators -> OpType] /\ \A g \in Operators : Named(op'[g])
<1>1. op \in [Operators -> OpType] /\ \A g \in Operators : Named(op[g])
  BY DEF TypeInv, TypeOK, OpType, Ats
<1>2. QED
  BY <1>1 DEF OpOK

LEMMA EventTypes ==
  /\ \A p \in Periods : /\ PatronageRequired(p) \in Events
                        /\ PeriodClosed(p) \in Events
                        /\ ServiceSuspended(p) \in Events
  /\ \A s \in Subs, to \in SubStatuses : StatusUpdated(s, to) \in Events
  BY DEF Events

LEMMA StandingType == \A t : Standing(t) \in Standings /\ Paid(t) \in BOOLEAN
  BY DEF Standing, Standings, Paid

LEMMA ViewType == \A t : View(t) \in Views /\ View(t)' \in Views
<1>1. \A t : View(t) \in Views
  BY StandingType DEF View, Views
<1>2. \A t : Standing(t)' \in Standings /\ Paid(t)' \in BOOLEAN
  BY DEF Standing, Standings, Paid
<1>3. QED
  BY <1>1, <1>2 DEF View, Views

\* The history stays a set of views.
LEMMA WatchType == seen \in [Calls \cup Operators -> SUBSET Views] /\ Watch
                   => seen' \in [Calls \cup Operators -> SUBSET Views]
<1> SUFFICES ASSUME seen \in [Calls \cup Operators -> SUBSET Views], Watch
             PROVE  seen' \in [Calls \cup Operators -> SUBSET Views]
  OBVIOUS
<1> DEFINE next(x) == IF Deciding(x)' THEN (IF Deciding(x) THEN seen[x] ELSE {}) \cup {View(TenantAsked(x))'}
                      ELSE IF Decided(x)' THEN seen[x]
                      ELSE {}
<1>1. seen' = [x \in Calls \cup Operators |-> next(x)]
  BY DEF Watch
<1>2. \A x \in Calls \cup Operators : View(TenantAsked(x))' \in Views
  BY ViewType DEF View, Views, Paid, Standing, Standings
<1>3. \A x \in Calls \cup Operators : next(x) \in SUBSET Views
  BY <1>2
<1> HIDE DEF next
<1>4. QED
  BY <1>1, <1>3

LEMMA TypeInit == Init => TypeInv
<1> SUFFICES ASSUME Init PROVE TypeInv
  OBVIOUS
<1>1. op \in [Operators -> OpType] /\ \A h \in Operators : Named(op[h])
  BY IdleOK DEF Init, OpOK
<1>2. gate \in [Calls -> GateType] /\ \A c \in Calls : Asking(c)
  BY DEF Init, Waiting, GateType, Asking
<1>3. QED
  BY <1>1, <1>2 DEF Init, TypeInv, TypeOK, OpType, Ats, GateType

\* The steps of one admin call keep the records of all admin calls.
LEMMA AdminType ==
  ASSUME TypeInv, NEW h \in Operators, Admin(h)
  PROVE  op' \in [Operators -> OpType] /\ \A g \in Operators : Named(op'[g])
<1> DEFINE Good == op' \in [Operators -> OpType] /\ \A g \in Operators : Named(op'[g])
<1>0. ASSUME NEW o, OpOK(o), op' = [op EXCEPT ![h] = o] PROVE Good
  BY <1>0, OpUpdate
<1>a. OpOK(op[h]) /\ OpOK(Idle)
  BY TypeOps, IdleOK
<1>b. Return(h) => Good
  BY <1>0, <1>a DEF Return
<1>c. Answer(h) => Good
  <2> SUFFICES ASSUME Answer(h) PROVE Good
    OBVIOUS
  <2> DEFINE o == [Idle EXCEPT !.at = "answered", !.route = op[h].route, !.period = op[h].period]
  <2>a. o \in OpType
    BY ZenonT(60), <1>a DEF OpOK, OpType, Ats
  <2>b. /\ o.at = "answered" /\ o.route = op[h].route /\ o.period = op[h].period
        /\ op[h].route = "close" => op[h].period \in Periods
    BY <1>a DEF OpOK, OpType, Named, Idle
  <2>1. OpOK(o)
    BY <2>a, <2>b DEF OpOK, Named
  <2> HIDE DEF o
  <2>2. QED
    BY <2>1, <1>0 DEF Answer, o
<1>d. ASSUME NEW step \in Ats, Goto(h, step), Named([op[h] EXCEPT !.at = step]) PROVE Good
  <2> DEFINE o == [op[h] EXCEPT !.at = step]
  <2>1. OpOK(o)
    BY <1>a, <1>d DEF OpOK, OpType
  <2>2. op' = [op EXCEPT ![h] = o]
    BY <1>d DEF Goto
  <2> HIDE DEF o
  <2>3. QED
    BY <2>1, <2>2, <1>0
<1>e. ASSUME NEW event \in Events, NEW step \in {"answered", "enforce"}, ThenLog(h, event, step),
             op[h].period \in Periods
      PROVE  Good
  <2> DEFINE o == [op[h] EXCEPT !.at = "log", !.event = event, !.then = step]
  <2>1. OpOK(o)
    BY <1>a, <1>e DEF OpOK, OpType, Named, Ats
  <2>2. op' = [op EXCEPT ![h] = o]
    BY <1>e DEF ThenLog
  <2> HIDE DEF o
  <2>3. QED
    BY <2>1, <2>2, <1>0
<1>f. ASSUME NEW st, WithRow(h, st), op[h].period \in Periods PROVE Good
  <2>1. CASE Answer(h)
    BY <2>1, <1>c
  <2>2. CASE ThenLog(h, PeriodClosed(op[h].period), "enforce")
    BY <2>2, <1>e, <1>f, EventTypes
  <2>3. CASE ThenLog(h, PatronageRequired(op[h].period), "enforce")
    BY <2>3, <1>e, <1>f, EventTypes
  <2>4. CASE Goto(h, "enforce")
    <3>1. Named([op[h] EXCEPT !.at = "enforce"])
      BY <1>a, <1>f DEF OpOK, OpType, Named
    <3>2. QED
      BY <2>4, <3>1, <1>d DEF Ats
  <2>5. QED
    BY <1>f, <2>1, <2>2, <2>3, <2>4 DEF WithRow
<1>1. ASSUME NEW s \in Subs, NEW to \in SubStatuses, UpdateSubscription(h, s, to) PROVE Good
  <2> DEFINE o == [Idle EXCEPT !.at = "log", !.route = "subscription", !.event = StatusUpdated(s, to)]
  <2>1. OpOK(o)
    BY ZenonT(60), <1>a, EventTypes DEF OpOK, OpType, Named, Idle, Ats
  <2> HIDE DEF o
  <2>2. QED
    BY <2>1, <1>0, <1>1 DEF UpdateSubscription, o
<1>2. ASSUME NEW p \in Periods, Summarize(h, p) PROVE Good
  <2> DEFINE o == [Idle EXCEPT !.at = "aggregate", !.route = "summarize", !.period = p]
  <2>1. OpOK(o)
    BY ZenonT(60), <1>a DEF OpOK, OpType, Named, Idle, Ats
  <2> HIDE DEF o
  <2>2. QED
    BY <2>1, <1>0, <1>2 DEF Summarize, o
<1>3. ASSUME NEW p \in Periods, NEW route \in {"status", "close"}, NEW want \in Statuses,
             SetStatus(h, p, route, want)
      PROVE  Good
  <2> DEFINE o == [Idle EXCEPT !.at = "current", !.route = route, !.period = p, !.want = want]
  <2>1. OpOK(o)
    BY ZenonT(60), <1>a DEF OpOK, OpType, Named, Idle, Ats
  <2> HIDE DEF o
  <2>2. QED
    BY <2>1, <1>0, <1>3 DEF SetStatus, o
<1>4. CASE Aggregate(h)
  <2> DEFINE o == [op[h] EXCEPT !.at = "store", !.total = earned[op[h].period]]
  <2>1. op[h].period \in Periods /\ op[h].route = "summarize"
    BY <1>4, <1>a DEF Aggregate, At, OpOK, Named
  <2>2. earned[op[h].period] \in Nat
    BY <2>1 DEF TypeInv, TypeOK
  <2>3. OpOK(o)
    BY ZenonT(60), <1>a, <2>1, <2>2 DEF OpOK, OpType, Named, Ats
  <2>4. op' = [op EXCEPT ![h] = o]
    BY <1>4 DEF Aggregate
  <2> HIDE DEF o
  <2>5. QED
    BY <2>3, <2>4, <1>0
<1>5. CASE StoreTotals(h)
  <2> DEFINE o == [op[h] EXCEPT !.at = "refresh", !.total = 0]
  <2>1. OpOK(o)
    BY <1>a, <1>5 DEF StoreTotals, At, OpOK, OpType, Named, Ats
  <2>2. op' = [op EXCEPT ![h] = o]
    BY <1>5 DEF StoreTotals
  <2> HIDE DEF o
  <2>3. QED
    BY <2>1, <2>2, <1>0
<1>6. CASE Refresh(h)
  <2>1. op[h].period \in Periods
    BY <1>6, <1>a DEF Refresh, At, OpOK, Named
  <2>2. CASE op' = [op EXCEPT ![h].at = "current", ![h].want = "closing"]
    <3> DEFINE o == [op[h] EXCEPT !.at = "current", !.want = "closing"]
    <3>1. OpOK(o)
      BY <1>a, <1>6 DEF Refresh, At, OpOK, OpType, Named, Ats, Statuses
    <3>2. op' = [op EXCEPT ![h] = o]
      BY <2>2
    <3> HIDE DEF o
    <3>3. QED
      BY <3>1, <3>2, <1>0
  <2>3. QED
    BY <1>6, <1>f, <2>1, <2>2 DEF Refresh
<1>7. CASE ReadCurrent(h)
  <2>1. Named([op[h] EXCEPT !.at = "write"])
    BY <1>7, <1>a DEF ReadCurrent, At, OpOK, OpType, Named, Statuses
  <2>2. QED
    BY <1>7, <1>b, <1>d, <2>1 DEF ReadCurrent, Ats
<1>8. CASE WriteStatus(h)
  <2>1. op[h].period \in Periods
    BY <1>8, <1>a DEF WriteStatus, At, OpOK, Named
  <2>2. QED
    BY <1>8, <1>f, <2>1 DEF WriteStatus
<1>9. CASE LogEvent(h)
  <2>1. op[h].then # "answered" => op[h].then = "enforce" /\ Named([op[h] EXCEPT !.at = "enforce"])
    BY <1>9, <1>a DEF LogEvent, At, OpOK, OpType, Named
  <2>2. QED
    BY <1>9, <1>c, <1>d, <2>1 DEF LogEvent, Ats
<1>10. CASE EnforceSubscription(h)
  <2> DEFINE o == [op[h] EXCEPT !.at = "enforce_period", !.paid = Paid(PeriodTenant[op[h].period])]
  <2>1. OpOK(o)
    BY <1>a, <1>10, StandingType DEF EnforceSubscription, At, OpOK, OpType, Named, Ats
  <2>2. op' = [op EXCEPT ![h] = o]
    BY <1>10 DEF EnforceSubscription
  <2> HIDE DEF o
  <2>3. QED
    BY <2>1, <2>2, <1>0
<1>11. CASE EnforcePeriod(h)
  <2>1. op[h].period \in Periods
    BY <1>11, <1>a DEF EnforcePeriod, At, OpOK, Named
  <2>2. ThenLog(h, ServiceSuspended(op[h].period), "answered") => Good
    BY <1>e, <2>1, EventTypes
  <2>3. QED
    BY <1>11, <1>c, <2>2 DEF EnforcePeriod
<1>12. CASE EnforceFails(h)
  BY <1>12, <1>c DEF EnforceFails
<1>13. CASE End(h)
  BY <1>13, <1>b DEF End
<1>14. QED
  BY <1>1, <1>2, <1>3, <1>4, <1>5, <1>6, <1>7, <1>8, <1>9, <1>10, <1>11, <1>12, <1>13, GateAssumption
     DEF Admin, Statuses

\* The steps of one chat request keep the records of all chat requests.
LEMMA RequestType ==
  ASSUME TypeInv, NEW c \in Calls, Request(c)
  PROVE  gate' \in [Calls -> GateType] /\ \A d \in Calls : Asking(d)'
<1>1. gate \in [Calls -> GateType] /\ \A d \in Calls : Asking(d)
  BY DEF TypeInv, TypeOK, GateType
<1>2. ASSUME NEW t \in Tenants, ReadSubscription(c, t)
      PROVE  gate' \in [Calls -> GateType] /\ \A d \in Calls : Asking(d)'
  BY <1>1, <1>2, StandingType DEF ReadSubscription, GateType, Asking
<1>3. CASE ReadPeriod(c)
  <2> DEFINE st == Standing(gate[c].tenant)
  <2>1. st \in Standings
    BY StandingType
  <2>2. gate' = [gate EXCEPT ![c].at = IF gate[c].paid \/ st = "free" THEN "admitted" ELSE "refused",
                             ![c].reason = st]
    BY <1>3 DEF ReadPeriod
  <2> HIDE DEF st
  <2>3. QED
    BY ZenonT(60), <1>1, <2>1, <2>2 DEF GateType, Asking
<1>4. CASE gate' = [gate EXCEPT ![c] = Waiting]
  BY <1>1, <1>4 DEF Waiting, GateType, Asking
<1>5. QED
  BY <1>2, <1>3, <1>4 DEF Request, Serve, Leave

LEMMA TypeStep == TypeInv /\ [Next]_vars => TypeInv'
<1> SUFFICES ASSUME TypeInv, [Next]_vars PROVE TypeInv'
  OBVIOUS
<1> DEFINE OpsTyped == op' \in [Operators -> OpType] /\ \A g \in Operators : Named(op'[g])
           GatesTyped == gate' \in [Calls -> GateType] /\ \A d \in Calls : Asking(d)'
           TablesTyped == /\ sub' \in [Subs -> SubStatuses \cup {"absent"}]
                          /\ status' \in [Periods -> Statuses \cup {"absent"}]
                          /\ savings' \in [Periods -> Nat]
                          /\ earned' \in [Periods -> Nat]
           EventsTyped == events' \in [Events -> Nat]
<1>a. \A h \in Operators : OpOK(op[h])
  BY TypeOps
<1>b. /\ UNCHANGED op => OpsTyped
      /\ UNCHANGED gate => GatesTyped
      /\ UNCHANGED tables => TablesTyped
      /\ UNCHANGED events => EventsTyped
  BY DEF TypeInv, TypeOK, OpType, Ats, GateType, tables, Asking
<1>1. CASE UNCHANGED vars
  BY <1>1 DEF vars, TypeInv, TypeOK, Asking
<1>2. CASE Next
  <2>1. seen' \in [Calls \cup Operators -> SUBSET Views]
    BY <1>2, WatchType DEF Next, TypeInv, TypeOK
  <2>2. OpsTyped /\ GatesTyped /\ TablesTyped /\ EventsTyped => TypeInv'
    BY <2>1 DEF TypeInv, TypeOK, OpType, Ats, GateType
  <2>3. ASSUME NEW c \in Calls, Request(c) PROVE TypeInv'
    <3>1. GatesTyped
      BY <2>3, RequestType
    <3>2. UNCHANGED <<events, op>>
      BY <2>3 DEF Request, ReadSubscription, ReadPeriod, Serve, Leave
    <3>3. TablesTyped
      <4>1. ASSUME NEW p \in Periods, NEW gain \in Gains, Serve(c, p, gain) PROVE TablesTyped
        <5>1. gain \in Nat /\ earned[p] \in Nat
          BY GateAssumption DEF TypeInv, TypeOK
        <5>2. earned' = [earned EXCEPT ![p] = earned[p] + gain] /\ earned[p] + gain \in Nat
          BY <4>1, <5>1 DEF Serve
        <5>3. QED
          BY <4>1, <5>2 DEF Serve, TypeInv, TypeOK
      <4>2. CASE UNCHANGED tables
        BY <4>2, <1>b
      <4>3. QED
        BY <2>3, <4>1, <4>2 DEF Request, ReadSubscription, ReadPeriod, Leave
    <3>4. QED
      BY <3>1, <3>2, <3>3, <1>b, <2>2
  <2>4. ASSUME NEW s \in Subs, NEW st \in SubStatuses, CreateSubscription(s, st) PROVE TypeInv'
    BY <2>4, <1>b, <2>2 DEF CreateSubscription, InsertSubscription, TypeInv, TypeOK
  <2>5. ASSUME NEW p \in Periods, CreatePeriod(p) PROVE TypeInv'
    BY <2>5, <1>b, <2>2 DEF CreatePeriod, TypeInv, TypeOK, Statuses
  <2>6. ASSUME NEW h \in Operators, Admin(h) PROVE TypeInv'
    <3>1. OpsTyped
      BY <2>6, AdminType
    <3>2. UNCHANGED gate
      BY <2>6 DEF Admin, UpdateSubscription, Summarize, SetStatus, Aggregate, StoreTotals, Refresh,
                  ReadCurrent, WriteStatus, LogEvent, EnforceSubscription, EnforcePeriod, EnforceFails, End
    <3>3. EventsTyped
      <4>1. CASE LogEvent(h)
        <5>1. op[h].event \in Events /\ events \in [Events -> Nat]
          BY <4>1, <1>a DEF LogEvent, At, OpOK, Named, TypeInv, TypeOK
        <5>2. QED
          BY <4>1, <5>1 DEF LogEvent
      <4>2. CASE UNCHANGED events
        BY <4>2, <1>b
      <4>3. QED
        BY <2>6, <4>1, <4>2 DEF Admin, UpdateSubscription, Summarize, SetStatus, Aggregate, StoreTotals,
                  Refresh, ReadCurrent, WriteStatus, EnforceSubscription, EnforcePeriod, EnforceFails, End
    <3>4. TablesTyped
      <4>1. ASSUME NEW s \in Subs, NEW to \in SubStatuses, UpdateSubscription(h, s, to) PROVE TablesTyped
        BY <4>1 DEF UpdateSubscription, TypeInv, TypeOK
      <4>2. CASE StoreTotals(h)
        BY <4>2, <1>a DEF StoreTotals, At, OpOK, OpType, Named, TypeInv, TypeOK
      <4>3. CASE WriteStatus(h)
        BY <4>3, <1>a DEF WriteStatus, At, OpOK, OpType, Named, TypeInv, TypeOK
      <4>4. CASE UNCHANGED tables
        BY <4>4, <1>b
      <4>5. QED
        BY <2>6, <4>1, <4>2, <4>3, <4>4 DEF Admin, Summarize, SetStatus, Aggregate,
                  Refresh, ReadCurrent, LogEvent, EnforceSubscription, EnforcePeriod, EnforceFails, End
    <3>5. QED
      BY <3>1, <3>2, <3>3, <3>4, <1>b, <2>2
  <2>7. QED
    BY <1>2, <2>3, <2>4, <2>5, <2>6 DEF Next, Act
<1>3. QED
  BY <1>1, <1>2

\* Every table, event and record keeps its type, and a call always names what
\* its next statement is about.
THEOREM TypeCorrect == Spec => [](TypeOK /\ TypeInv)
<1>1. TypeInv => TypeOK
  BY DEF TypeInv
<1>2. QED
  BY <1>1, TypeInit, TypeStep, PTL DEF Spec

-----------------------------------------------------------------------------
(* What the two reads of a decision saw *)

\* While a chat request is decided, the standing of its tenant is in its
\* history, and so is one with the subscription it read; the verdict then
\* follows from these.
Witnessed(c) ==
    /\ gate[c].at = "deciding" =>
           /\ View(gate[c].tenant) \in seen[c]
           /\ \E view \in seen[c] : view.paid = gate[c].paid
    /\ gate[c].at = "admitted" => \E view \in seen[c] : ~Blocks(view)
    /\ gate[c].at = "refused" =>
           /\ \E view \in seen[c] : ~view.paid
           /\ \E view \in seen[c] : view.standing = gate[c].reason /\ view.standing # "free"

OpWitnessed(h) ==
    op[h].at = "enforce_period" =>
        /\ View(PeriodTenant[op[h].period]) \in seen[h]
        /\ \E view \in seen[h] : view.paid = op[h].paid

GateInv == (\A c \in Calls : Witnessed(c)) /\ (\A h \in Operators : OpWitnessed(h))

\* A standing is of the tables alone.
LEMMA ViewKept ==
  ASSUME NEW t, sub' = sub, status' = status, savings' = savings
  PROVE  View(t)' = View(t)
<1>1. Paid(t)' = Paid(t)
  <2>1. SubsOf(t)' = SubsOf(t)
    BY DEF SubsOf
  <2>2. \A s : CurrentSub(s, t)' = CurrentSub(s, t)
    BY <2>1 DEF CurrentSub
  <2>3. QED
    BY <2>1, <2>2 DEF Paid
<1>2. ASSUME NEW st PROVE Due(t, st)' = Due(t, st)
  <2>1. PeriodsOf(t)' = PeriodsOf(t)
    BY DEF PeriodsOf
  <2>2. \A p, q : Ahead(p, q)' = Ahead(p, q)
    BY DEF Ahead, Live
  <2>3. \A p : CurrentPeriod(p, t)' = CurrentPeriod(p, t)
    BY <2>1, <2>2 DEF CurrentPeriod
  <2>4. QED
    BY <2>1, <2>3 DEF Due
<1>3. Standing(t)' = Standing(t)
  BY <1>2 DEF Standing
<1>4. QED
  BY <1>1, <1>3 DEF View

\* What Watch leaves in the history of one actor.
LEMMA WatchAt ==
  ASSUME Watch, NEW x \in Calls \cup Operators
  PROVE  /\ Deciding(x)' /\ Deciding(x) => seen'[x] = seen[x] \cup {View(TenantAsked(x))'}
         /\ Deciding(x)' /\ ~Deciding(x) => seen'[x] = {View(TenantAsked(x))'}
         /\ ~Deciding(x)' /\ Decided(x)' => seen'[x] = seen[x]
  BY DEF Watch

\* A request that takes no step stays witnessed, whatever the others do.
LEMMA WitnessedKept ==
  ASSUME Watch, NEW c \in Calls, Witnessed(c), gate'[c] = gate[c]
  PROVE  Witnessed(c)'
<1>1. CASE gate[c].at = "deciding"
  <2>1. seen'[c] = seen[c] \cup {View(gate[c].tenant)'}
    BY <1>1, WatchAt DEF Deciding, TenantAsked
  <2>2. QED
    BY <1>1, <2>1 DEF Witnessed
<1>2. CASE gate[c].at \in {"admitted", "refused"}
  <2>1. seen'[c] = seen[c]
    BY <1>2, WatchAt DEF Deciding, Decided
  <2>2. QED
    BY <1>2, <2>1 DEF Witnessed, Blocks
<1>3. CASE gate[c].at \notin {"deciding", "admitted", "refused"}
  BY <1>3 DEF Witnessed
<1>4. QED
  BY <1>1, <1>2, <1>3

LEMMA OpWitnessedKept ==
  ASSUME Watch, NEW h \in Operators, OpWitnessed(h), op'[h] = op[h]
  PROVE  OpWitnessed(h)'
<1>1. CASE op[h].at = "enforce_period"
  <2>1. h \notin Calls
    BY GateAssumption
  <2>2. seen'[h] = seen[h] \cup {View(PeriodTenant[op[h].period])'}
    BY <1>1, <2>1, WatchAt DEF Deciding, TenantAsked
  <2>3. QED
    BY <1>1, <2>2 DEF OpWitnessed
<1>2. CASE op[h].at # "enforce_period"
  BY <1>2 DEF OpWitnessed
<1>3. QED
  BY <1>1, <1>2

\* The requests of a tenant that are not the one that steps keep their record.
LEMMA RequestStep ==
  ASSUME TypeInv, Watch, NEW c \in Calls, Request(c), Witnessed(c)
  PROVE  Witnessed(c)'
<1>a. gate \in [Calls -> GateType]
  BY DEF TypeInv, TypeOK, GateType
<1>1. ASSUME NEW t \in Tenants, ReadSubscription(c, t) PROVE Witnessed(c)'
  <2>1. /\ gate'[c] = [at |-> "deciding", tenant |-> t, reason |-> "none", paid |-> Paid(t)]
        /\ gate[c].at = "idle"
    BY <1>1, <1>a DEF ReadSubscription
  <2>2. View(t)' = View(t)
    BY <1>1, ViewKept DEF ReadSubscription, tables
  <2>3. seen'[c] = {View(t)'}
    BY <2>1, WatchAt DEF Deciding, TenantAsked
  <2>4. View(t).paid = Paid(t)
    BY DEF View
  <2>5. QED
    BY <2>1, <2>2, <2>3, <2>4 DEF Witnessed
<1>2. CASE ReadPeriod(c)
  <2> DEFINE t == gate[c].tenant
             verdict == IF gate[c].paid \/ Standing(t) = "free" THEN "admitted" ELSE "refused"
  <2>1. gate[c].at = "deciding" /\ gate'[c].at = verdict /\ gate'[c].reason = Standing(t)
    BY <1>2, <1>a DEF ReadPeriod, GateType
  <2>2. seen'[c] = seen[c]
    BY <2>1, WatchAt DEF Deciding, Decided
  <2>3. /\ View(t) \in seen[c] /\ View(t).standing = Standing(t)
        /\ \E view \in seen[c] : view.paid = gate[c].paid
    BY <2>1 DEF Witnessed, View
  <2>p. gate[c].paid \in BOOLEAN
    BY <1>a DEF GateType
  <2>4. CASE gate[c].paid
    BY <2>1, <2>2, <2>3, <2>4 DEF Witnessed, Blocks
  <2>5. CASE ~gate[c].paid /\ Standing(t) = "free"
    BY <2>1, <2>2, <2>3, <2>5 DEF Witnessed, Blocks
  <2>6. CASE ~gate[c].paid /\ Standing(t) # "free"
    BY <2>1, <2>2, <2>3, <2>6, <2>p DEF Witnessed
  <2>7. QED
    BY <2>p, <2>4, <2>5, <2>6
<1>3. CASE gate' = [gate EXCEPT ![c] = Waiting]
  BY <1>3, <1>a DEF Waiting, Witnessed
<1>4. QED
  BY <1>1, <1>2, <1>3 DEF Request, Serve, Leave

\* Where a step of an admin call leads: only EnforceSubscription to the second
\* read of the enforcement state, only EnforcePeriod to a suspension.
LEMMA AdminLeads ==
  ASSUME TypeInv, NEW h \in Operators, Admin(h)
  PROVE  /\ EnforceSubscription(h) \/ op'[h].at # "enforce_period"
         /\ EnforcePeriod(h) \/ op[h].at = "log" \/ op'[h].at # "log"
            \/ op'[h].event.type # "service_suspended"
<1> DEFINE Leads == /\ op'[h].at # "enforce_period"
                    /\ op[h].at = "log" \/ op'[h].at # "log" \/ op'[h].event.type # "service_suspended"
<1>a. op \in [Operators -> OpType]
  BY DEF TypeInv, TypeOK, OpType, Ats
<1>b. ASSUME NEW step, step \notin {"log", "enforce_period"}, Goto(h, step) PROVE Leads
  BY <1>a, <1>b DEF Goto, OpType
<1>c. Answer(h) \/ Return(h) => Leads
  <2>1. Answer(h) => op'[h].at = "answered"
    <3> DEFINE o == [Idle EXCEPT !.at = "answered", !.route = op[h].route, !.period = op[h].period]
    <3>1. o.at = "answered"
      BY DEF Idle
    <3> HIDE DEF o
    <3>2. QED
      BY <1>a, <3>1 DEF Answer, o
  <2>2. Return(h) => op'[h].at = "idle"
    BY <1>a DEF Return, Idle
  <2>3. QED
    BY <2>1, <2>2
<1>d. ASSUME NEW event, event.type # "service_suspended", NEW step, ThenLog(h, event, step) PROVE Leads
  BY <1>a, <1>d DEF ThenLog, OpType
<1>e. ASSUME NEW st, WithRow(h, st) PROVE Leads
  <2>1. ThenLog(h, PeriodClosed(op[h].period), "enforce") => Leads
    BY <1>d DEF PeriodClosed
  <2>2. ThenLog(h, PatronageRequired(op[h].period), "enforce") => Leads
    BY <1>d DEF PatronageRequired
  <2>3. QED
    BY <1>b, <1>c, <1>e, <2>1, <2>2 DEF WithRow
<1>1. (\E s \in Subs, to \in SubStatuses : UpdateSubscription(h, s, to)) => Leads
  BY <1>a DEF UpdateSubscription, Idle, StatusUpdated
<1>2. (\E p \in Periods : Summarize(h, p)) => Leads
  BY <1>a DEF Summarize, Idle
<1>3. (\E p \in Periods, want \in Statuses, r \in {"status", "close"} : SetStatus(h, p, r, want)) => Leads
  BY <1>a DEF SetStatus, Idle
<1>4. Aggregate(h) \/ StoreTotals(h) => Leads
  BY <1>a DEF Aggregate, StoreTotals, OpType
<1>5. Refresh(h) => Leads
  <2>1. op' = [op EXCEPT ![h].at = "current", ![h].want = "closing"] => Leads
    BY <1>a DEF OpType
  <2>2. QED
    BY <2>1, <1>e DEF Refresh
<1>6. ReadCurrent(h) => Leads
  BY <1>b, <1>c DEF ReadCurrent
<1>7. WriteStatus(h) => Leads
  BY <1>e DEF WriteStatus
<1>8. LogEvent(h) => Leads
  <2>1. op[h].then \in {"answered", "enforce"}
    BY <1>a DEF OpType
  <2>2. QED
    BY <2>1, <1>b, <1>c DEF LogEvent
<1>9. EnforceSubscription(h) => op'[h].at # "log"
  BY <1>a DEF EnforceSubscription, OpType
<1>10. EnforcePeriod(h) => op'[h].at # "enforce_period"
  <2>1. \A e : ThenLog(h, e, "answered") => op'[h].at = "log"
    BY <1>a DEF ThenLog, OpType
  <2>2. QED
    BY <1>c, <2>1 DEF EnforcePeriod
<1>11. EnforceFails(h) \/ End(h) => Leads
  BY <1>c DEF EnforceFails, End
<1>12. QED
  BY <1>1, <1>2, <1>3, <1>4, <1>5, <1>6, <1>7, <1>8, <1>9, <1>10, <1>11, GateAssumption DEF Admin, Statuses

\* An admin call enters its second read with the standing of its tenant in
\* the history.
LEMMA AdminStep ==
  ASSUME TypeInv, Watch, NEW h \in Operators, Admin(h)
  PROVE  OpWitnessed(h)'
<1>a. op \in [Operators -> OpType]
  BY DEF TypeInv, TypeOK, OpType, Ats
<1>1. CASE EnforceSubscription(h)
  <2>0. PICK t : t = PeriodTenant[op[h].period]
    OBVIOUS
  <2>1. /\ op[h].at = "enforce" /\ op'[h].at = "enforce_period"
        /\ op'[h].period = op[h].period /\ op'[h].paid = Paid(t)
    BY <2>0, <1>1, <1>a DEF EnforceSubscription, At, OpType
  <2>2. View(t)' = View(t)
    <3>1. sub' = sub /\ status' = status /\ savings' = savings
      BY <1>1 DEF EnforceSubscription, tables
    <3>2. QED
      BY <3>1, ViewKept
  <2>3. seen'[h] = {View(t)'}
    <3>1. h \notin Calls
      BY GateAssumption
    <3>2. QED
      BY <3>1, <2>0, <2>1, WatchAt DEF Deciding, TenantAsked
  <2>4. View(t).paid = Paid(t)
    BY DEF View
  <2>5. QED
    BY <2>0, <2>1, <2>2, <2>3, <2>4 DEF OpWitnessed
<1>2. CASE op'[h].at # "enforce_period"
  BY <1>2 DEF OpWitnessed
<1>3. EnforceSubscription(h) \/ op'[h].at # "enforce_period"
  BY AdminLeads
<1>4. QED
  BY <1>1, <1>2, <1>3

LEMMA GateInit == Init => GateInv
  BY DEF Init, GateInv, Witnessed, OpWitnessed, Waiting, Idle

LEMMA GateStep == TypeInv /\ GateInv /\ [Next]_vars => GateInv'
<1> SUFFICES ASSUME TypeInv, GateInv, [Next]_vars PROVE GateInv'
  OBVIOUS
<1>a. op \in [Operators -> OpType] /\ gate \in [Calls -> GateType]
  BY DEF TypeInv, TypeOK, OpType, Ats, GateType
<1>1. CASE UNCHANGED vars
  BY <1>1 DEF vars, GateInv, Witnessed, OpWitnessed, Blocks, View, Paid, Standing, Due, SubsOf, PeriodsOf,
              CurrentSub, CurrentPeriod, Ahead, Live
<1>2. CASE Next
  <2>1. Watch
    BY <1>2 DEF Next
  <2>2. ASSUME NEW c \in Calls, Request(c) PROVE GateInv'
    <3>1. op' = op
      BY <2>2 DEF Request, ReadSubscription, ReadPeriod, Serve, Leave
    <3>2. \A d \in Calls \ {c} : gate'[d] = gate[d]
      BY <2>2, <1>a DEF Request, ReadSubscription, ReadPeriod, Serve, Leave
    <3>3. \A d \in Calls : Witnessed(d)'
      BY <2>1, <2>2, <3>2, RequestStep, WitnessedKept DEF GateInv
    <3>4. \A h \in Operators : OpWitnessed(h)'
      BY <2>1, <3>1, OpWitnessedKept DEF GateInv
    <3>5. QED
      BY <3>3, <3>4 DEF GateInv
  <2>3. ASSUME NEW h \in Operators, Admin(h) PROVE GateInv'
    <3>1. gate' = gate
      BY <2>3 DEF Admin, UpdateSubscription, Summarize, SetStatus, Aggregate, StoreTotals, Refresh,
                  ReadCurrent, WriteStatus, LogEvent, EnforceSubscription, EnforcePeriod, EnforceFails, End
    <3>2. \A g \in Operators \ {h} : op'[g] = op[g]
      BY <2>3, <1>a DEF Admin, UpdateSubscription, Summarize, SetStatus, Aggregate, StoreTotals, Refresh,
                  ReadCurrent, WriteStatus, LogEvent, EnforceSubscription, EnforcePeriod, EnforceFails, End,
                  WithRow, Answer, Return, ThenLog, Goto
    <3>3. \A c \in Calls : Witnessed(c)'
      BY <2>1, <3>1, WitnessedKept DEF GateInv
    <3>4. \A g \in Operators : OpWitnessed(g)'
      BY <2>1, <2>3, <3>2, AdminStep, OpWitnessedKept DEF GateInv
    <3>5. QED
      BY <3>3, <3>4 DEF GateInv
  <2>4. CASE op' = op /\ gate' = gate
    BY <2>1, <2>4, WitnessedKept, OpWitnessedKept DEF GateInv
  <2>5. QED
    BY <1>2, <2>2, <2>3, <2>4 DEF Next, Act, CreateSubscription, InsertSubscription, CreatePeriod
<1>3. QED
  BY <1>1, <1>2

\* However the two reads of the gate interleave with the writes of admin
\* calls, no request is served to a tenant that was blocked all the time the
\* gate looked (lines 885-921 of billing.py).
THEOREM ServedOnlyIfOpen == Spec => []AdmittedOnlyIfOpen
<1>1. GateInv => AdmittedOnlyIfOpen
  BY DEF GateInv, Witnessed, AdmittedOnlyIfOpen
<1>2. QED
  BY <1>1, TypeInit, TypeStep, GateInit, GateStep, PTL DEF Spec

\* Each half of the reason of a 402 held at some moment of the decision.
THEOREM RefusedForAReason == Spec => []RefusalJustified
<1>1. GateInv => RefusalJustified
  BY DEF GateInv, Witnessed, RefusalJustified
<1>2. QED
  BY <1>1, TypeInit, TypeStep, GateInit, GateStep, PTL DEF Spec

\* Both, for any number of requests and admin calls at once.
THEOREM DecidedByWhatHeld == Spec => []DecisionsJustified
<1>1. AdmittedOnlyIfOpen /\ RefusalJustified => DecisionsJustified
  BY DEF DecisionsJustified
<1>2. QED
  BY <1>1, ServedOnlyIfOpen, RefusedForAReason, PTL

\* service_suspended is logged only for a tenant that, while the call looked,
\* had no active subscription and a closed current period over the threshold.
THEOREM SuspendedForAReason == Spec => SuspensionJustified
<1> DEFINE Justified(h) == /\ \E view \in seen[h] : ~view.paid
                           /\ \E view \in seen[h] : view.standing = "closed"
           Step(h) == op'[h].at = "log" /\ op[h].at # "log" /\ op'[h].event.type = "service_suspended"
                      => Justified(h)
<1>1. ASSUME TypeInv, GateInv, [Next]_vars PROVE [\A h \in Operators : Step(h)]_vars
  <2>a. op \in [Operators -> OpType]
    BY <1>1 DEF TypeInv, TypeOK, OpType, Ats
  <2>1. SUFFICES ASSUME Next, NEW g \in Operators PROVE Step(g)
    BY <1>1
  <2>2. ASSUME NEW h \in Operators, Admin(h) PROVE Step(g)
    <3>1. CASE g # h
      <4>1. op'[g] = op[g]
        BY <2>2, <2>a, <3>1 DEF Admin, UpdateSubscription, Summarize, SetStatus, Aggregate, StoreTotals, Refresh,
                  ReadCurrent, WriteStatus, LogEvent, EnforceSubscription, EnforcePeriod, EnforceFails, End,
                  WithRow, Answer, Return, ThenLog, Goto
      <4>2. QED
        BY <4>1
    <3>2. CASE g = h /\ EnforcePeriod(h)
      <4>1. CASE ~op[h].paid /\ Standing(PeriodTenant[op[h].period]) = "closed"
        <5>1. /\ View(PeriodTenant[op[h].period]) \in seen[h]
              /\ \E view \in seen[h] : view.paid = op[h].paid
          BY <1>1, <3>2 DEF GateInv, OpWitnessed, EnforcePeriod, At
        <5>2. QED
          BY <3>2, <4>1, <5>1 DEF View
      <4>2. CASE Answer(h)
        BY <2>a, <3>2, <4>2 DEF Answer, Idle
      <4>3. QED
        BY <3>2, <4>1, <4>2 DEF EnforcePeriod
    <3>3. CASE g = h /\ ~EnforcePeriod(h)
      BY <1>1, <2>2, <3>3, AdminLeads
    <3>4. QED
      BY <3>1, <3>2, <3>3
  <2>3. CASE op' = op
    BY <2>3
  <2>4. QED
    BY <2>1, <2>2, <2>3 DEF Next, Act, Request, ReadSubscription, ReadPeriod, Serve, Leave,
                            CreateSubscription, InsertSubscription, CreatePeriod
<1>2. SuspensionJustified <=> [][\A h \in Operators : Step(h)]_vars
  BY PTL DEF SuspensionJustified
<1> HIDE DEF Step
<1>3. QED
  BY <1>1, <1>2, TypeInit, TypeStep, GateInit, GateStep, PTL DEF Spec

-----------------------------------------------------------------------------
(* The event log *)

\* What a call in progress may rely on: totals it is about to store and
\* savings it is about to report are in the ledger, and once a /close goes on
\* to the enforcement state its event is logged.
Sound(o) ==
    /\ o.at = "store" => o.total <= earned[o.period]
    /\ o.at = "log" => \A p \in Periods : o.event = PatronageRequired(p) => earned[p] >= Threshold
    /\ o.route = "close" /\ o.at \in {"enforce", "enforce_period", "answered"} =>
           Logged(PeriodClosed(o.period))
    /\ o.route = "close" /\ o.at = "log" =>
           \/ o.then = "enforce" /\ o.event = PeriodClosed(o.period)
           \/ o.then = "answered" /\ Logged(PeriodClosed(o.period))

LogInv ==
    /\ LoggedOnce
    /\ PatronageIsEarned
    /\ \A p \in Periods : savings[p] <= earned[p]
    /\ \A h \in Operators : Sound(op[h])

LEMMA LogInit == Init => LogInv
<1> SUFFICES ASSUME Init PROVE LogInv
  OBVIOUS
<1>1. \A h \in Operators : op[h] = Idle
  BY DEF Init
<1>2. Idle.at = "idle" /\ Idle.route = "none"
  BY DEF Idle
<1>3. \A h \in Operators : Sound(op[h])
  BY <1>1, <1>2 DEF Sound
<1>4. LoggedOnce /\ PatronageIsEarned
  BY EventTypes DEF Init, LoggedOnce, PatronageIsEarned, Logged
<1>5. QED
  BY <1>3, <1>4 DEF LogInv, Init

\* No step takes savings out of the ledger or an event out of the log.
LEMMA Grows ==
  ASSUME TypeInv, Next
  PROVE  /\ \A p \in Periods : earned[p] <= earned'[p]
         /\ \A e \in Events : Logged(e) => Logged(e)'
<1>a. earned \in [Periods -> Nat] /\ events \in [Events -> Nat]
  BY DEF TypeInv, TypeOK
<1>1. ASSUME NEW c \in Calls, NEW p \in Periods, NEW gain \in Gains, Serve(c, p, gain)
      PROVE  /\ \A q \in Periods : earned[q] <= earned'[q]
             /\ events' = events
  BY <1>1, <1>a, GateAssumption DEF Serve
<1>2. ASSUME NEW h \in Operators, LogEvent(h)
      PROVE  /\ \A e \in Events : events[e] > 0 => events'[e] > 0
             /\ earned' = earned
  BY <1>2, <1>a DEF LogEvent, tables
<1>3. \/ \E c \in Calls, p \in Periods, gain \in Gains : Serve(c, p, gain)
      \/ \E h \in Operators : LogEvent(h)
      \/ events' = events /\ earned' = earned
  BY DEF Next, Act, Request, ReadSubscription, ReadPeriod, Leave, CreateSubscription, InsertSubscription, CreatePeriod, tables,
         Admin, UpdateSubscription, Summarize, SetStatus, Aggregate, StoreTotals, Refresh,
         ReadCurrent, WriteStatus, EnforceSubscription, EnforcePeriod, EnforceFails, End
<1>4. QED
  BY <1>a, <1>1, <1>2, <1>3 DEF Logged

\* So what a call that does not step relies on stays true.
LEMMA SoundKept ==
  ASSUME TypeInv, Next, NEW o, OpOK(o), Sound(o)
  PROVE  Sound(o)'
<1>1. /\ \A p \in Periods : earned[p] \in Nat /\ earned'[p] \in Nat
      /\ Threshold \in Nat
  BY TypeStep, GateAssumption DEF TypeInv, TypeOK
<1>2. o.at = "store" => o.total <= earned'[o.period]
  BY <1>1, Grows DEF Sound, OpOK, OpType, Named
<1>3. o.at = "log" => \A p \in Periods : o.event = PatronageRequired(p) => earned'[p] >= Threshold
  BY <1>1, Grows DEF Sound
<1>4. o.route = "close" => (Logged(PeriodClosed(o.period)) => Logged(PeriodClosed(o.period))')
  BY Grows, EventTypes DEF OpOK, Named
<1>5. QED
  BY <1>2, <1>3, <1>4 DEF Sound

\* An event is fixed by its type and by what it is about.
LEMMA EventsDiffer ==
  /\ \A p, q \in Periods : PatronageRequired(p) = PatronageRequired(q) => p = q
  /\ \A p, q : PeriodClosed(p) # PatronageRequired(q) /\ ServiceSuspended(p) # PatronageRequired(q)
  /\ \A s, to, q : StatusUpdated(s, to) # PatronageRequired(q)
<1>1. \A p : PatronageRequired(p).of = p /\ PatronageRequired(p).type = "patronage_required"
  BY DEF PatronageRequired
<1>2. \A p : PeriodClosed(p).type = "billing_period_closed" /\ ServiceSuspended(p).type = "service_suspended"
  BY DEF PeriodClosed, ServiceSuspended
<1>3. \A s, to : StatusUpdated(s, to).type = "subscription_status_updated"
  BY DEF StatusUpdated
<1>4. QED
  BY <1>1, <1>2, <1>3

\* The call that steps may rely on what its next record says.
LEMMA SoundStep ==
  ASSUME TypeInv, LogInv, Next, NEW h \in Operators, Admin(h), NEW o, o = op[h]
  PROVE  Sound(op[h])'
<1>a. op \in [Operators -> OpType] /\ OpOK(o) /\ Sound(o) /\ Sound(o)'
  BY TypeOps, SoundKept DEF TypeInv, TypeOK, OpType, Ats, LogInv
<1>b. ASSUME NEW step, step \notin {"store", "log", "enforce", "enforce_period", "answered"},
             op'[h].at = step
      PROVE  Sound(op[h])'
  BY <1>b DEF Sound
<1>c. ASSUME op'[h].at = "answered", op'[h].route = op[h].route, op'[h].period = op[h].period,
             op[h].route = "close" => Logged(PeriodClosed(o.period))'
      PROVE  Sound(op[h])'
  BY <1>c DEF Sound
<1>d. Answer(h) => /\ op'[h].at = "answered" /\ op'[h].route = op[h].route
                   /\ op'[h].period = op[h].period
  <2> DEFINE r == [Idle EXCEPT !.at = "answered", !.route = op[h].route, !.period = op[h].period]
  <2>1. r.at = "answered" /\ r.route = op[h].route /\ r.period = op[h].period
    BY DEF Idle
  <2> HIDE DEF r
  <2>2. QED
    BY <1>a, <2>1 DEF Answer, r
<1>e. \A step : Goto(h, step) => /\ op'[h].at = step /\ op'[h].route = op[h].route
                                 /\ op'[h].period = op[h].period
  BY <1>a DEF Goto, OpType
<1>f. \A e, step : ThenLog(h, e, step) =>
          /\ op'[h].at = "log" /\ op'[h].event = e /\ op'[h].then = step
          /\ op'[h].route = op[h].route /\ op'[h].period = op[h].period
  BY <1>a DEF ThenLog, OpType
<1>r. Return(h) => Sound(op[h])'
  <2>1. Return(h) => op'[h].at = "idle"
    BY <1>a DEF Return, Idle
  <2>2. QED
    BY <2>1, <1>b
<1>g. ASSUME NEW st, WithRow(h, st), op[h].period \in Periods,
             st = "closing" => earned'[op[h].period] >= savings[op[h].period]
      PROVE  Sound(op[h])'
  <2> DEFINE p == op[h].period
  <2>1. CASE op[h].route # "close" /\ Answer(h)
    BY <2>1, <1>c, <1>d
  <2>2. CASE op[h].route = "close" /\ ThenLog(h, PeriodClosed(p), "enforce")
    BY <2>2, <1>f, EventsDiffer DEF Sound
  <2>3. CASE /\ op[h].route = "summarize" /\ st = "closing" /\ savings[p] >= Threshold
             /\ ThenLog(h, PatronageRequired(p), "enforce")
    <3>1. earned'[p] >= Threshold
      <4>1. earned'[p] \in Nat /\ savings[p] \in Nat /\ Threshold \in Nat
        BY ZenonT(60), <1>g, TypeStep, GateAssumption DEF TypeInv, TypeOK
      <4>2. QED
        BY <4>1, <2>3, <1>g
    <3>2. QED
      BY <2>3, <3>1, <1>f, <1>g, EventsDiffer DEF Sound
  <2>4. CASE op[h].route = "summarize" /\ Goto(h, "enforce")
    BY <2>4, <1>e DEF Sound
  <2>5. QED
    BY <1>g, <2>1, <2>2, <2>3, <2>4 DEF WithRow
<1>1. ASSUME NEW s \in Subs, NEW to \in SubStatuses, UpdateSubscription(h, s, to) PROVE Sound(op[h])'
  <2>1. op'[h].at = "log" /\ op'[h].route = "subscription" /\ op'[h].event = StatusUpdated(s, to)
    BY <1>1, <1>a DEF UpdateSubscription, Idle
  <2>2. QED
    BY <2>1, EventsDiffer DEF Sound
<1>2. ASSUME NEW p \in Periods, Summarize(h, p) PROVE Sound(op[h])'
  <2>1. op'[h].at = "aggregate"
    BY <1>2, <1>a DEF Summarize, Idle
  <2>2. QED
    BY <2>1, <1>b
<1>3. ASSUME NEW p \in Periods, NEW route, NEW want, SetStatus(h, p, route, want) PROVE Sound(op[h])'
  <2>1. op'[h].at = "current"
    BY <1>3, <1>a DEF SetStatus, Idle
  <2>2. QED
    BY <2>1, <1>b
<1>4. CASE Aggregate(h)
  <2>1. /\ op'[h].at = "store" /\ op'[h].period = op[h].period /\ op'[h].route = "summarize"
        /\ op'[h].total = earned[op[h].period] /\ op[h].period \in Periods
    BY <1>4, <1>a DEF Aggregate, At, OpOK, Named, OpType
  <2>2. earned[op[h].period] <= earned'[op[h].period]
    BY <2>1, Grows
  <2>3. QED
    BY <2>1, <2>2 DEF Sound
<1>5. CASE StoreTotals(h)
  BY <1>5, <1>a, <1>b DEF StoreTotals, OpType
<1>6. CASE Refresh(h)
  <2>1. op[h].period \in Periods
    BY <1>6, <1>a DEF Refresh, At, OpOK, Named
  <2>2. savings[op[h].period] <= earned'[op[h].period]
    BY <2>1, Grows, TypeStep DEF LogInv, TypeInv, TypeOK
  <2>3. CASE op' = [op EXCEPT ![h].at = "current", ![h].want = "closing"]
    BY <2>3, <1>a, <1>b DEF OpType
  <2>4. QED
    BY <1>6, <1>g, <2>1, <2>2, <2>3, TypeStep DEF Refresh, TypeInv, TypeOK
<1>7. CASE ReadCurrent(h)
  BY <1>7, <1>e, <1>b, <1>r DEF ReadCurrent
<1>8. CASE WriteStatus(h)
  <2>1. op[h].period \in Periods
    BY <1>8, <1>a DEF WriteStatus, At, OpOK, Named
  <2>2. savings[op[h].period] <= earned'[op[h].period]
    BY <2>1, Grows, TypeStep DEF LogInv, TypeInv, TypeOK
  <2>3. QED
    BY <1>8, <1>g, <2>1, <2>2, TypeStep DEF WriteStatus, TypeInv, TypeOK
<1>9. CASE LogEvent(h)
  <2>1. op[h].at = "log" /\ op[h].event \in Events /\ op[h].then \in {"answered", "enforce"}
    BY <1>9, <1>a DEF LogEvent, At, OpOK, Named, OpType
  <2>2. Logged(o.event)'
    BY <1>9, <2>1 DEF LogEvent, Logged, TypeInv, TypeOK
  <2>3. op[h].route = "close" => Logged(PeriodClosed(o.period))'
    <3>1. CASE op[h].then = "enforce"
      BY <3>1, <2>1, <2>2, <1>a DEF Sound
    <3>2. CASE op[h].then = "answered"
      BY <3>2, <2>1, <1>a DEF Sound
    <3>3. QED
      BY <2>1, <3>1, <3>2
  <2>4. CASE Answer(h)
    BY <2>3, <2>4, <1>c, <1>d
  <2>5. CASE Goto(h, "enforce")
    BY <2>3, <2>5, <1>e DEF Sound
  <2>6. QED
    BY <1>9, <2>1, <2>4, <2>5 DEF LogEvent
<1>10. CASE EnforceSubscription(h)
  <2>1. /\ op[h].at = "enforce" /\ op'[h].at = "enforce_period" /\ op'[h].route = op[h].route
        /\ op'[h].period = op[h].period
    BY <1>10, <1>a DEF EnforceSubscription, At, OpType
  <2>2. QED
    BY <2>1, <1>a DEF Sound
<1>11. ASSUME op[h].at \in {"enforce", "enforce_period"}, Answer(h) PROVE Sound(op[h])'
  <2>1. op[h].route = "close" => Logged(PeriodClosed(o.period))'
    BY <1>11, <1>a DEF Sound
  <2>2. QED
    BY <2>1, <1>11, <1>c, <1>d
<1>12. CASE EnforcePeriod(h)
  <2> DEFINE e == ServiceSuspended(op[h].period)
  <2>1. op[h].at = "enforce_period"
    BY <1>12 DEF EnforcePeriod, At
  <2>2. CASE ThenLog(h, e, "answered")
    <3>1. op[h].route = "close" => Logged(PeriodClosed(o.period))'
      BY <2>1, <1>a DEF Sound
    <3>2. QED
      BY <2>2, <3>1, <1>f, EventsDiffer DEF Sound
  <2>3. QED
    BY <1>12, <1>11, <2>1, <2>2 DEF EnforcePeriod
<1>13. CASE EnforceFails(h)
  BY <1>13, <1>11 DEF EnforceFails
<1>14. CASE End(h)
  BY <1>14, <1>r DEF End
<1>15. QED
  BY <1>1, <1>2, <1>3, <1>4, <1>5, <1>6, <1>7, <1>8, <1>9, <1>10, <1>12, <1>13, <1>14 DEF Admin

LEMMA LogStep == TypeInv /\ LogInv /\ [Next]_vars => LogInv'
<1> SUFFICES ASSUME TypeInv, LogInv, [Next]_vars PROVE LogInv'
  OBVIOUS
<1>a. op \in [Operators -> OpType] /\ \A h \in Operators : OpOK(op[h])
  BY TypeOps DEF TypeInv, TypeOK, OpType, Ats
<1>1. CASE UNCHANGED vars
  BY <1>1 DEF vars, LogInv, LoggedOnce, PatronageIsEarned, Logged, Sound
<1>2. CASE Next
  <2>t. /\ earned \in [Periods -> Nat] /\ earned' \in [Periods -> Nat]
        /\ savings \in [Periods -> Nat] /\ events \in [Events -> Nat]
        /\ Threshold \in Nat
    BY TypeStep, GateAssumption DEF TypeInv, TypeOK
  <2>1. ASSUME NEW g \in Operators, op'[g] = op[g] PROVE Sound(op[g])'
    <3>1. PICK o : o = op[g]
      OBVIOUS
    <3>2. Sound(o)'
      BY <3>1, <1>a, <1>2, SoundKept DEF LogInv
    <3>3. QED
      BY <2>1, <3>1, <3>2 DEF Sound
  <2>2. \A h \in Operators : Sound(op[h])'
    <3>1. ASSUME NEW h \in Operators, Admin(h) PROVE \A g \in Operators : Sound(op[g])'
      <4>1. \A g \in Operators \ {h} : op'[g] = op[g]
        BY <3>1, <1>a DEF Admin, UpdateSubscription, Summarize, SetStatus, Aggregate, StoreTotals, Refresh,
                  ReadCurrent, WriteStatus, LogEvent, EnforceSubscription, EnforcePeriod, EnforceFails, End,
                  WithRow, Answer, Return, ThenLog, Goto
      <4>2. Sound(op[h])'
        BY <3>1, <1>2, SoundStep
      <4>3. QED
        BY <4>1, <4>2, <2>1
    <3>2. CASE op' = op
      BY <3>2, <2>1
    <3>3. QED
      BY <1>2, <3>1, <3>2 DEF Next, Act, Request, ReadSubscription, ReadPeriod, Serve, Leave,
                              CreateSubscription, InsertSubscription, CreatePeriod
  <2>3. \A p \in Periods : savings'[p] <= earned'[p]
    <3>1. ASSUME NEW h \in Operators, StoreTotals(h) PROVE \A p \in Periods : savings'[p] <= earned'[p]
      <4>1. /\ op[h].at = "store" /\ op[h].period \in Periods /\ op[h].total \in Nat
            /\ op[h].total <= earned[op[h].period]
        BY <3>1, <1>a DEF StoreTotals, At, OpOK, OpType, Named, LogInv, Sound
      <4>2. QED
        BY <3>1, <4>1, <2>t DEF StoreTotals, LogInv
    <3>2. CASE savings' = savings
      BY <3>2, <2>t, <1>2, Grows DEF LogInv
    <3>3. QED
      BY <1>2, <3>1, <3>2 DEF Next, Act, Request, ReadSubscription, ReadPeriod, Serve, Leave,
                CreateSubscription, InsertSubscription, CreatePeriod, tables, Admin, UpdateSubscription, Summarize, SetStatus, Aggregate,
                Refresh, ReadCurrent, WriteStatus, LogEvent, EnforceSubscription, EnforcePeriod, EnforceFails, End
  <2>4. LoggedOnce' /\ PatronageIsEarned'
    <3>1. ASSUME NEW h \in Operators, LogEvent(h) PROVE LoggedOnce' /\ PatronageIsEarned'
      <4>1. op[h].at = "log" /\ op[h].event \in Events /\ earned' = earned
        BY <3>1, <1>a DEF LogEvent, At, OpOK, Named, tables
      <4>2. \A e \in Events : events'[e] = IF e = op[h].event /\ ~Logged(e) THEN events[e] + 1 ELSE events[e]
        BY <3>1, <2>t DEF LogEvent
      <4>3. LoggedOnce'
        BY <4>2, <2>t DEF LoggedOnce, LogInv, Logged
      <4>4. ASSUME NEW p \in Periods, events'[PatronageRequired(p)] > 0 PROVE earned'[p] >= Threshold
        <5>1. CASE Logged(PatronageRequired(p))
          BY <5>1, <4>1 DEF LogInv, PatronageIsEarned
        <5>2. CASE ~Logged(PatronageRequired(p))
          <6>1. op[h].event = PatronageRequired(p)
            BY <5>2, <4>2, <4>4, EventTypes DEF Logged
          <6>2. QED
            BY <6>1, <4>1 DEF LogInv, Sound
        <5>3. QED
          BY <5>1, <5>2
      <4>5. QED
        BY <4>3, <4>4 DEF PatronageIsEarned, Logged
    <3>2. CASE events' = events
      <4>1. \A p \in Periods : earned[p] >= Threshold => earned'[p] >= Threshold
        BY <1>2, <2>t, Grows
      <4>2. QED
        BY <3>2, <4>1 DEF LogInv, LoggedOnce, PatronageIsEarned, Logged
    <3>3. QED
      BY <1>2, <3>1, <3>2 DEF Next, Act, Request, ReadSubscription, ReadPeriod, Serve, Leave,
                CreateSubscription, InsertSubscription, CreatePeriod, Admin, UpdateSubscription, Summarize, SetStatus, Aggregate,
                StoreTotals, Refresh, ReadCurrent, WriteStatus, EnforceSubscription, EnforcePeriod, EnforceFails, End
  <2>5. QED
    BY <2>2, <2>3, <2>4 DEF LogInv
<1>3. QED
  BY <1>1, <1>2

\* However many admin calls are retried or handled at once, there is one row
\* per event id (lines 58-65 of commercial_events.py).
THEOREM OneRowPerEvent == Spec => []LoggedOnce
<1>1. LogInv => LoggedOnce
  BY DEF LogInv
<1>2. QED
  BY <1>1, TypeInit, TypeStep, LogInit, LogStep, PTL DEF Spec

\* patronage_required is logged only for a period whose savings over the
\* threshold are in the request ledger, though the totals it reports were
\* aggregated, stored and read back by separate statements.
THEOREM PatronageOnlyIfEarned == Spec => []PatronageIsEarned
<1>1. LogInv => PatronageIsEarned
  BY DEF LogInv
<1>2. QED
  BY <1>1, TypeInit, TypeStep, LogInit, LogStep, PTL DEF Spec

\* A /close is answered only after its event is in the log, whatever fails or
\* runs in between (lines 349-369 of routes_billing_admin.py).
THEOREM AnsweredIsLogged == Spec => []AnsweredCloseIsLogged
<1>1. LogInv => AnsweredCloseIsLogged
  BY DEF LogInv, Sound, AnsweredCloseIsLogged, At
<1>2. QED
  BY <1>1, TypeInit, TypeStep, LogInit, LogStep, PTL DEF Spec
=============================================================================
