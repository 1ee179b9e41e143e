-------------------------- MODULE ChatProxyProofs ---------------------------
(***************************************************************************)
(* What the runs of ChatProxy check on small instances, proved for any     *)
(* number of calls, prompts, namespaces and invalidations.                 *)
(***************************************************************************)
EXTENDS ChatProxy, TLAPS

ShadowPoints == {"shadow", "shadow_log", "shadow_save", "shadow_purge"}
Unserved == {"new", "exact", "find", "send", "stream"}

\* Where a call is, and what it has been given.
Progress(c) ==
    /\ call[c].outcome = "none" <=> call[c].from = None
    /\ call[c].outcome = "miss" <=> call[c].from = c
    /\ call[c].at \in Unserved => call[c].outcome = "none"
    /\ call[c].at \in {"fill", "index"} \cup ShadowPoints => call[c].outcome = "miss"
    /\ call[c].at \in {"event", "ledger", "answer"} => call[c].outcome # "none"
    /\ At(c, "stream") => Input(c).stream
    /\ ~At(c, "stream") /\ ~At(c, "new") /\ ~At(c, "over") => ~Input(c).stream
    /\ call[c].outcome # "none" => Input(c) # None /\ ~Input(c).stream

\* What the caches hold was fetched, by a call the entry fits.
CachesFetched ==
    /\ \A k \in Keys : exact[k] # None =>
        call[exact[k]].outcome = "miss" /\ Key(exact[k]) = k
    /\ \A c \in stamped : call[c].outcome = "miss" /\ ~At(c, "fill")
    /\ \A c \in Calls : At(c, "index") => c \in stamped

Attempts(c) ==
    /\ call[c].at \in {"new", "exact", "find", "stream"} => sent[c] = 0
    /\ At(c, "send") => sent[c] <= MaxRetries

\* How far the two logs are.
Recorded(c) ==
    /\ \A e \in events : e.by = c =>
        /\ e.outcome = call[c].outcome
        /\ call[c].at \notin Lookup \cup {"new", "stream", "event"}
    /\ \A row \in ledger : row.by = c =>
        /\ row = LedgerRow(c)
        /\ call[c].outcome # "none"
        /\ call[c].at \in ShadowPoints \cup {"answer", "over"}
    /\ call[c].at \in ShadowPoints \cup {"ledger", "answer"} =>
        [by |-> c, outcome |-> call[c].outcome] \in events
    /\ call[c].at \in ShadowPoints \cup {"answer"} => LedgerRow(c) \in ledger
    /\ call[c].at \in ShadowPoints => c \in answered
    /\ c \in answered /\ ~Input(c).stream =>
        /\ call[c].at \in ShadowPoints \cup {"over"}
        /\ call[c].outcome # "none"
        /\ [by |-> c, outcome |-> call[c].outcome] \in events
        /\ LedgerRow(c) \in ledger

Justified(c, r) ==
    /\ r \in call[c].before \ {c}
    /\ Comparable(c, r)
    /\ ShadowThreshold <= Likeness(c, r) /\ Likeness(c, r) < LiveThreshold

ShadowSound ==
    /\ \A c \in Calls : call[c].before \subseteq stamped \ {c}
    /\ \A c \in Calls : call[c].at \in ShadowPoints \ {"shadow"} => Justified(c, call[c].best)
    /\ \A row \in shadow \cup savings :
        /\ Justified(row.by, row.match)
        /\ row.by \in answered
        /\ call[row.by].outcome = "miss"

\* While the scan runs, what it still has to find is in `left`.
PurgeSound(i) ==
    /\ \A c \in purge[i].settled : call[c].at \notin Lookup \cup {"new"}
    /\ purge[i].at = "scan" =>
        \A k \in Keys : k.space = purge[i].target /\ exact[k] \in purge[i].settled => k \in purge[i].left
    /\ purge[i].at = "done" =>
        /\ \A k \in Keys : k.space = purge[i].target => exact[k] \notin purge[i].settled
        /\ \A c \in index : Input(c).space = purge[i].target => c \notin purge[i].settled

ProxyInv ==
    /\ TypeOK
    /\ \A c \in Calls : Progress(c) /\ Attempts(c) /\ Recorded(c)
    /\ CachesFetched
    /\ HitAnswersTheRequest
    /\ UpstreamOnlyIfNeeded
    /\ ShadowSound

-----------------------------------------------------------------------------
(* How a step changes the record of a call *)

Others(c) == \A d \in Calls : d # c => call'[d] = call[d]

\* The record of c after a step, field by field.
Becomes(c, at, from, outcome, before, best) ==
    /\ call'[c].at = at
    /\ call'[c].input = call[c].input
    /\ call'[c].from = from
    /\ call'[c].outcome = outcome
    /\ call'[c].before = before
    /\ call'[c].best = best

\* A step of one call that gives it the record n.
LEMMA CallUpdate ==
    ASSUME call \in [Calls -> CallType], NEW c \in Calls, NEW n \in CallType,
           call' = [call EXCEPT ![c] = n]
    PROVE  call' \in [Calls -> CallType] /\ Others(c) /\ call'[c] = n
  BY DEF Others

\* Goto changes one call, and only its point.
LEMMA GotoEffect ==
    ASSUME call \in [Calls -> CallType], NEW c \in Calls, NEW point \in Points, Goto(c, point)
    PROVE  /\ call' \in [Calls -> CallType]
           /\ Others(c)
           /\ call'[c] = [call[c] EXCEPT !.at = point]
<1> DEFINE n == [call[c] EXCEPT !.at = point]
<1>1. n \in CallType
  BY DEF CallType
<1>2. call' = [call EXCEPT ![c] = n]
  BY DEF Goto
<1> HIDE DEF n
<1>3. call' \in [Calls -> CallType] /\ Others(c) /\ call'[c] = n
  BY <1>1, <1>2, CallUpdate
<1>4. QED
  BY <1>3 DEF n

\* Serving a response from a cache.
LEMMA ServeEffect ==
    ASSUME call \in [Calls -> CallType], NEW c \in Calls, NEW r \in Calls,
           NEW outcome \in Outcomes, Serve(c, r, outcome)
    PROVE  /\ call' \in [Calls -> CallType]
           /\ Others(c)
           /\ Becomes(c, "event", r, outcome, call[c].before, call[c].best)
<1> DEFINE n == [call[c] EXCEPT !.at = "event", !.from = r, !.outcome = outcome]
<1>1. n \in CallType
  <2>1. "event" \in Points /\ call[c] \in CallType
    BY DEF Points
  <2>2. QED
    BY <2>1 DEF CallType
<1>2. call' = [call EXCEPT ![c] = n]
  BY DEF Serve
<1> HIDE DEF n
<1>3. call' \in [Calls -> CallType] /\ Others(c) /\ call'[c] = n
  BY <1>1, <1>2, CallUpdate
<1>4. QED
  BY <1>3 DEF n, Becomes, CallType

\* Turning to the provider.
LEMMA UpstreamEffect ==
    ASSUME call \in [Calls -> CallType], NEW c \in Calls, stamped \subseteq Calls, ServeUpstream(c)
    PROVE  /\ call' \in [Calls -> CallType]
           /\ Others(c)
           /\ call'[c] = [call[c] EXCEPT !.at = "send", !.before = stamped]
<1> DEFINE n == [call[c] EXCEPT !.at = "send", !.before = stamped]
<1>1. n \in CallType
  <2>1. "send" \in Points /\ call[c] \in CallType
    BY DEF Points, Lookup
  <2>2. QED
    BY <2>1 DEF CallType
<1>2. call' = [call EXCEPT ![c] = n]
  BY DEF ServeUpstream
<1> HIDE DEF n
<1>3. call' \in [Calls -> CallType] /\ Others(c) /\ call'[c] = n
  BY <1>1, <1>2, CallUpdate
<1>4. QED
  BY <1>3 DEF n

\* Arriving gives a call its input.
LEMMA ArriveEffect ==
    ASSUME TypeOK, NEW c \in Calls, Arrive(c)
    PROVE  /\ call' \in [Calls -> CallType]
           /\ Others(c)
           /\ At(c, "new")
           /\ \E i \in Inputs, point \in {"over", "stream", "exact"} :
                /\ point = "stream" => i.stream
                /\ point = "exact" => ~i.stream
                /\ call'[c] = [call[c] EXCEPT !.at = point, !.input = i]
<1>1. call \in [Calls -> CallType] /\ At(c, "new")
  BY DEF TypeOK, Arrive
<1>2. PICK i \in Inputs, point \in {"over", "stream", "exact"} :
        /\ point = "stream" => i.stream
        /\ point = "exact" => ~i.stream
        /\ call' = [call EXCEPT ![c] = [@ EXCEPT !.at = point, !.input = i]]
  <2>1. PICK i \in Inputs :
            \/ call' = [call EXCEPT ![c] = [@ EXCEPT !.at = "over", !.input = i]]
            \/ call' = [call EXCEPT ![c] = [@ EXCEPT !.at = IF i.stream THEN "stream" ELSE "exact",
                                                     !.input = i]]
    BY DEF Arrive
  <2>2. CASE call' = [call EXCEPT ![c] = [@ EXCEPT !.at = "over", !.input = i]]
    BY <2>2
  <2>3. CASE call' = [call EXCEPT ![c] = [@ EXCEPT !.at = IF i.stream THEN "stream" ELSE "exact",
                                                   !.input = i]]
    BY <2>3
  <2>4. QED
    BY <2>1, <2>2, <2>3
<1> DEFINE n == [call[c] EXCEPT !.at = point, !.input = i]
<1>3. n \in CallType
  <2>1. point \in Points /\ call[c] \in CallType
    BY <1>1 DEF Points, Lookup
  <2>2. QED
    BY <2>1 DEF CallType
<1>4. call' = [call EXCEPT ![c] = n]
  BY <1>2
<1> HIDE DEF n
<1>5. call' \in [Calls -> CallType] /\ Others(c) /\ call'[c] = n
  BY <1>1, <1>3, <1>4, CallUpdate
<1>6. QED
  BY <1>1, <1>2, <1>5 DEF n

\* A successful attempt gives the call its own response.
LEMMA SuccessEffect ==
    ASSUME TypeOK, NEW c \in Calls, AttemptSucceeds(c)
    PROVE  /\ call' \in [Calls -> CallType]
           /\ Others(c)
           /\ call'[c] = [call[c] EXCEPT !.at = "fill", !.from = c, !.outcome = "miss"]
<1> DEFINE n == [call[c] EXCEPT !.at = "fill", !.from = c, !.outcome = "miss"]
<1>1. n \in CallType
  <2>1. "fill" \in Points /\ "miss" \in Outcomes /\ call[c] \in CallType
    BY DEF Points, Lookup, Outcomes, TypeOK
  <2>2. QED
    BY <2>1 DEF CallType
<1>2. call' = [call EXCEPT ![c] = n] /\ call \in [Calls -> CallType]
  BY DEF AttemptSucceeds, TypeOK
<1> HIDE DEF n
<1>3. call' \in [Calls -> CallType] /\ Others(c) /\ call'[c] = n
  BY <1>1, <1>2, CallUpdate
<1>4. QED
  BY <1>3 DEF n

\* The shadow analysis keeps its match, or ends the call.
LEMMA ShadowFindEffect ==
    ASSUME TypeOK, NEW c \in Calls, ShadowFind(c)
    PROVE  /\ call' \in [Calls -> CallType]
           /\ Others(c)
           /\ \/ call'[c] = [call[c] EXCEPT !.at = "over"]
              \/ \E r \in Matches(c, index \cap call[c].before, ShadowThreshold) :
                    /\ Likeness(c, r) < LiveThreshold
                    /\ call'[c] = [call[c] EXCEPT !.at = "shadow_log", !.best = r]
<1>1. call \in [Calls -> CallType] /\ index \subseteq Calls
  BY DEF TypeOK, Arrived
<1>2. CASE Goto(c, "over")
  <2>1. "over" \in Points
    BY DEF Points
  <2>2. QED
    BY <1>1, <1>2, <2>1, GotoEffect
<1>3. ASSUME NEW r \in Matches(c, index \cap call[c].before, ShadowThreshold),
             Likeness(c, r) < LiveThreshold,
             call' = [call EXCEPT ![c] = [@ EXCEPT !.at = "shadow_log", !.best = r]]
      PROVE  /\ call' \in [Calls -> CallType]
             /\ Others(c)
             /\ call'[c] = [call[c] EXCEPT !.at = "shadow_log", !.best = r]
  <2> DEFINE n == [call[c] EXCEPT !.at = "shadow_log", !.best = r]
  <2>1. n \in CallType
    <3>1. "shadow_log" \in Points /\ r \in Calls /\ call[c] \in CallType
      BY <1>1 DEF Points, Matches
    <3>2. QED
      BY <3>1 DEF CallType
  <2>2. call' = [call EXCEPT ![c] = n]
    BY <1>3
  <2> HIDE DEF n
  <2>3. call' \in [Calls -> CallType] /\ Others(c) /\ call'[c] = n
    BY <1>1, <2>1, <2>2, CallUpdate
  <2>4. QED
    BY <2>3 DEF n
<1>4. \/ Goto(c, "over")
      \/ \E r \in Matches(c, index \cap call[c].before, ShadowThreshold) :
            /\ Likeness(c, r) < LiveThreshold
            /\ call' = [call EXCEPT ![c] = [@ EXCEPT !.at = "shadow_log", !.best = r]]
  BY DEF ShadowFind
<1>5. QED
  BY <1>2, <1>3, <1>4

-----------------------------------------------------------------------------
(* Types *)

\* An arrived call has a request, with its key.
LEMMA InputTyped ==
    ASSUME TypeOK, NEW c \in Calls, Input(c) # None
    PROVE  /\ Input(c) \in Inputs
           /\ Text(c) \in Prompts
           /\ Key(c) \in Keys
           /\ Input(c).space \in Spaces
           /\ Input(c).stream \in BOOLEAN
<1>1. Input(c) \in Inputs
  BY DEF TypeOK, CallType, Input
<1>2. Input(c) \in [space : Spaces, scope : Scopes, prompt : Prompts,
                    reuse : BOOLEAN, stream : BOOLEAN]
  BY <1>1, ProxyAssumption
<1>3. Text(c) \in Prompts
  BY <1>2, ProxyAssumption DEF Text
<1>4. QED
  BY <1>1, <1>2, <1>3 DEF Key, Keys

\* A call in progress keeps its input, and other calls their records.
InputKept(c) ==
    /\ call' \in [Calls -> CallType]
    /\ Others(c)
    /\ call'[c].input = call[c].input
    /\ call[c].at # "new" /\ call'[c].at # "new"

LEMMA StepKeepsInput ==
    ASSUME TypeOK, NEW c \in Calls, CallStep(c) \/ Fail(c)
    PROVE  InputKept(c)
<1>0. call \in [Calls -> CallType] /\ call[c] \in CallType /\ stamped \subseteq Calls /\ index \subseteq Calls
  BY DEF TypeOK, Arrived
<1>a. ASSUME NEW point \in Points \ {"new"}, Goto(c, point), call[c].at # "new"
      PROVE  InputKept(c)
  <2>1. point \in Points /\ point # "new"
    OBVIOUS
  <2>2. /\ call' \in [Calls -> CallType] /\ Others(c)
        /\ call'[c] = [call[c] EXCEPT !.at = point]
    BY <1>0, <1>a, <2>1, GotoEffect
  <2>3. QED
    BY <1>0, <1>a, <2>1, <2>2 DEF InputKept, CallType
<1>b. ASSUME ServeUpstream(c), call[c].at # "new" PROVE InputKept(c)
  BY <1>0, <1>b, UpstreamEffect DEF InputKept, CallType
<1>c. ASSUME NEW r \in Calls, NEW outcome \in Outcomes, Serve(c, r, outcome), call[c].at # "new"
      PROVE  InputKept(c)
  BY <1>0, <1>c, ServeEffect DEF InputKept, Becomes, CallType
<1>d. /\ {"find", "send", "event", "ledger", "answer", "index", "over", "shadow", "shadow_save", "shadow_purge"}
            \subseteq Points \ {"new"}
      /\ {"exact_hit", "semantic_hit"} \subseteq Outcomes
  BY DEF Points, Lookup, Outcomes
<1>1. CASE ExactGet(c)
  <2>1. Input(c) # None
    BY <1>1 DEF ExactGet, At, TypeOK
  <2>2. exact[Key(c)] \in Calls \cup {None}
    BY <2>1, InputTyped DEF TypeOK
  <2>3. QED
    BY <1>1, <1>a, <1>b, <1>c, <1>d, <2>2 DEF ExactGet, At
<1>2. CASE FindMatch(c)
  <2>1. Matches(c, index, LiveThreshold) \subseteq Calls
    BY <1>0 DEF Matches
  <2>2. QED
    BY <1>2, <1>b, <1>c, <1>d, <2>1 DEF FindMatch, At
<1>3. CASE AttemptSucceeds(c)
  BY <1>3, <1>0, SuccessEffect DEF AttemptSucceeds, At, InputKept, CallType
<1>4. CASE AttemptFails(c)
  BY <1>4, <1>a, <1>d DEF AttemptFails, At
<1>5. CASE AttemptRejected(c)
  BY <1>5, <1>a, <1>d DEF AttemptRejected, At
<1>6. CASE ExactSet(c)
  BY <1>6, <1>a, <1>d DEF ExactSet, At
<1>7. CASE Index(c)
  BY <1>7, <1>a, <1>d DEF Index, AddEntry, At
<1>8. CASE LogEvent(c)
  BY <1>8, <1>a, <1>d DEF LogEvent, At
<1>9. CASE LogRequest(c)
  BY <1>9, <1>a, <1>d DEF LogRequest, At
<1>10. CASE Answer(c)
  BY <1>10, <1>a, <1>d DEF Answer, At
<1>11. CASE StreamAnswer(c)
  BY <1>11, <1>a, <1>d DEF StreamAnswer, At
<1>13. CASE ShadowLog(c)
  BY <1>13, <1>a, <1>d DEF ShadowLog, At
<1>14. CASE ShadowSave(c)
  BY <1>14, <1>a, <1>d DEF ShadowSave, At
<1>15. CASE ShadowPurge(c)
  BY <1>15, <1>a, <1>d DEF ShadowPurge, At
<1>12. CASE ShadowFind(c)
  <2>1. \E n \in CallType : call'[c] = n /\ n.input = call[c].input /\ n.at # "new"
    BY <1>12, <1>0, ShadowFindEffect DEF CallType, Matches
  <2>2. QED
    BY <1>12, <2>1, ShadowFindEffect DEF ShadowFind, At, InputKept
<1>16. CASE Fail(c)
  BY <1>16, <1>a, <1>d DEF Fail, Awaits
<1>17. QED
  BY <1>1, <1>2, <1>3, <1>4, <1>5, <1>6, <1>7, <1>8, <1>9, <1>10, <1>11, <1>12, <1>13,
     <1>14, <1>15, <1>16 DEF CallStep, Attempt

\* What TypeOK says of calls, and of invalidations.
CallsTyped ==
    /\ call \in [Calls -> CallType]
    /\ \A c \in Calls : Input(c) = None <=> At(c, "new")
PurgesTyped ==
    /\ purge \in [Purges -> PurgeType]
    /\ \A i \in Purges : purge[i].target = None <=> purge[i].at = "new"

LEMMA CallsStayTyped ==
    ASSUME TypeOK, NEW c \in Calls, CallStep(c) \/ Fail(c)
    PROVE  /\ CallsTyped' /\ Arrived' = Arrived
           /\ At(c, "new") = FALSE /\ c \in Arrived /\ Input(c) \in Inputs
<1>1. InputKept(c)
  BY StepKeepsInput
<1>2. \A d \in Calls : Input(d)' = Input(d) /\ (At(d, "new")' <=> At(d, "new"))
  BY <1>1 DEF InputKept, Others, Input, At
<1>3. c \in Arrived
  BY <1>1 DEF InputKept, Input, At, TypeOK, Arrived
<1>4. Input(c) \in Inputs
  BY <1>3, InputTyped DEF Arrived
<1>5. QED
  BY <1>1, <1>2, <1>3, <1>4 DEF InputKept, CallsTyped, Arrived, TypeOK, At

LEMMA TypeStep == ProxyInv /\ [Next]_vars => TypeOK'
<1> SUFFICES ASSUME ProxyInv, [Next]_vars PROVE TypeOK'
  OBVIOUS
<1> USE DEF caches, upstream, logs, analytics
<1>0. TypeOK /\ CallsTyped /\ PurgesTyped
  BY DEF ProxyInv, TypeOK, CallsTyped, PurgesTyped
<1>1. ASSUME NEW c \in Calls, CallStep(c) \/ Fail(c) PROVE TypeOK'
  <2>0. CallsTyped' /\ Arrived' = Arrived /\ c \in Arrived /\ Input(c) \in Inputs
    BY <1>0, <1>1, CallsStayTyped
  <2>a. Progress(c) /\ call[c] \in CallType /\ CachesFetched /\ ShadowSound /\ c \in Calls
    BY <1>0 DEF ProxyInv, TypeOK
  <2>b. ASSUME Post(c) PROVE sent' \in [Calls -> Nat] /\ received' \subseteq Prompts
    <3>1. Input(c).prompt \in Prompts
      BY <2>0, ProxyAssumption
    <3>2. QED
      BY <3>1, <2>b, <1>0 DEF Post, TypeOK
  <2>1. CASE ExactGet(c)
    BY <2>1, <2>0, <1>0 DEF ExactGet, TypeOK, CallsTyped, PurgesTyped
  <2>2. CASE FindMatch(c)
    BY <2>2, <2>0, <1>0 DEF FindMatch, TypeOK, CallsTyped, PurgesTyped
  <2>3. CASE AttemptSucceeds(c)
    BY <2>3, <2>0, <2>b, <1>0 DEF AttemptSucceeds, TypeOK, CallsTyped, PurgesTyped
  <2>4. CASE AttemptFails(c)
    BY <2>4, <2>0, <2>b, <1>0 DEF AttemptFails, TypeOK, CallsTyped, PurgesTyped
  <2>5. CASE AttemptRejected(c)
    BY <2>5, <2>0, <2>b, <1>0 DEF AttemptRejected, TypeOK, CallsTyped, PurgesTyped
  <2>6. CASE ExactSet(c)
    BY <2>6, <2>0, <1>0 DEF ExactSet, TypeOK, CallsTyped, PurgesTyped
  <2>7. CASE Index(c)
    BY <2>7, <2>0, <2>a, <1>0 DEF Index, AddEntry, CachesFetched, TypeOK, CallsTyped, PurgesTyped
  <2>8. CASE LogEvent(c)
    <3>1. call[c].outcome \in Outcomes \ {"none"}
      BY <2>8, <2>a DEF LogEvent, At, Progress, CallType
    <3>2. QED
      BY <2>8, <3>1, <2>0, <1>0 DEF LogEvent, TypeOK, CallsTyped, PurgesTyped
  <2>9. CASE LogRequest(c)
    <3>1. LedgerRow(c) \in [by : Calls, cost : Calls \cup {None}, saved : Calls \cup {None}]
      BY <2>a DEF LedgerRow, CallType
    <3>2. QED
      BY <2>9, <3>1, <2>0, <1>0 DEF LogRequest, TypeOK, CallsTyped, PurgesTyped
  <2>10. CASE Answer(c)
    BY <2>10, <2>0, <1>0 DEF Answer, TypeOK, CallsTyped, PurgesTyped
  <2>11. CASE StreamAnswer(c)
    BY <2>11, <2>0, <2>b, <1>0 DEF StreamAnswer, TypeOK, CallsTyped, PurgesTyped
  <2>12. CASE ShadowFind(c)
    BY <2>12, <2>0, <1>0 DEF ShadowFind, TypeOK, CallsTyped, PurgesTyped
  <2>13. CASE ShadowLog(c)
    <3>1. call[c].best \in Calls
      BY <2>13, <2>a DEF ShadowLog, At, ShadowSound, ShadowPoints, Justified, CallType
    <3>2. ShadowRow(c) \in [by : Calls, match : Calls]
      BY <3>1 DEF ShadowRow
    <3>3. QED
      BY <2>13, <3>2, <2>0, <1>0 DEF ShadowLog, TypeOK, CallsTyped, PurgesTyped
  <2>14. CASE ShadowSave(c)
    <3>1. call[c].best \in Calls
      BY <2>14, <2>a DEF ShadowSave, At, ShadowSound, ShadowPoints, Justified, CallType
    <3>2. ShadowRow(c) \in [by : Calls, match : Calls]
      BY <3>1 DEF ShadowRow
    <3>3. QED
      BY <2>14, <3>2, <2>0, <1>0 DEF ShadowSave, TypeOK, CallsTyped, PurgesTyped
  <2>15. CASE ShadowPurge(c)
    BY <2>15, <2>0, <1>0 DEF ShadowPurge, TypeOK, CallsTyped, PurgesTyped
  <2>16. CASE Fail(c)
    BY <2>16, <2>0, <1>0 DEF Fail, TypeOK, CallsTyped, PurgesTyped
  <2>17. QED
    BY <1>1, <2>1, <2>2, <2>3, <2>4, <2>5, <2>6, <2>7, <2>8, <2>9, <2>10, <2>11, <2>12, <2>13, <2>14, <2>15, <2>16 DEF CallStep, Attempt
<1>2. ASSUME NEW c \in Calls, Arrive(c) PROVE TypeOK'
  <2>1. PICK i \in Inputs, point \in {"over", "stream", "exact"} :
            call'[c] = [call[c] EXCEPT !.at = point, !.input = i]
    BY <1>0, <1>2, ArriveEffect
  <2>2. call' \in [Calls -> CallType] /\ Others(c)
    BY <1>0, <1>2, ArriveEffect
  <2>3. Input(c)' = i /\ ~At(c, "new")' /\ i # None
    BY <1>0, <2>1, ProxyAssumption DEF TypeOK, CallType, Input, At
  <2>4. \A d \in Calls : d # c => Input(d)' = Input(d) /\ (At(d, "new")' <=> At(d, "new"))
    BY <2>2 DEF Others, Input, At
  <2>5. CallsTyped' /\ Arrived \subseteq Arrived'
    BY <1>0, <2>2, <2>3, <2>4 DEF CallsTyped, Arrived
  <2>6. QED
    BY <1>0, <1>2, <2>5 DEF Arrive, TypeOK, CallsTyped, PurgesTyped
<1>3. ASSUME NEW k \in Keys, Drop(k), UNCHANGED <<index, stamped, upstream, logs, analytics, call>>
      PROVE  TypeOK'
  <2>1. exact' \in [Keys -> Calls \cup {None}]
    BY <1>0, <1>3 DEF Drop, TypeOK
  <2>2. \A i \in Purges : [purge[i] EXCEPT !.left = @ \ {k}] \in PurgeType
    BY <1>0 DEF PurgesTyped, PurgeType
  <2>3. \A i \in Purges : [purge[i] EXCEPT !.left = @ \ {k}].at = purge[i].at
                       /\ [purge[i] EXCEPT !.left = @ \ {k}].target = purge[i].target
    BY <1>0 DEF PurgesTyped, PurgeType
  <2>4. PurgesTyped'
    BY <1>0, <1>3, <2>2, <2>3 DEF Drop, PurgesTyped
  <2>5. CallsTyped' /\ Arrived' = Arrived
    BY <1>0, <1>3 DEF CallsTyped, Arrived, Input, At
  <2>6. QED
    BY <1>0, <1>3, <2>1, <2>4, <2>5 DEF TypeOK, CallsTyped, PurgesTyped
<1>4. ASSUME UNCHANGED <<stamped, upstream, logs, analytics, call>>,
             exact' = exact, index' \subseteq index, PurgesTyped'
      PROVE  TypeOK'
  <2>1. CallsTyped' /\ Arrived' = Arrived
    BY <1>0, <1>4 DEF CallsTyped, Arrived, Input, At
  <2>2. QED
    BY <1>0, <1>4, <2>1 DEF TypeOK, CallsTyped, PurgesTyped
<1>5. ASSUME NEW i \in Purges, NEW n \in PurgeType, purge' = [purge EXCEPT ![i] = n],
             n.target = None <=> n.at = "new"
      PROVE  PurgesTyped'
  BY <1>0, <1>5 DEF PurgesTyped
<1>6. ASSUME NEW i \in Purges, NEW s \in Spaces, PurgeStart(i, s) PROVE TypeOK'
  <2> DEFINE n == [at |-> "scan", target |-> s, left |-> EntriesOf(s), settled |-> Settled]
  <2>1. n \in PurgeType /\ n.target # None /\ n.at # "new"
    BY ProxyAssumption DEF PurgeType, EntriesOf, Settled
  <2>2. purge' = [purge EXCEPT ![i] = n]
    BY <1>6 DEF PurgeStart
  <2> HIDE DEF n
  <2>3. PurgesTyped'
    BY <1>5, <2>1, <2>2
  <2>4. QED
    BY <1>4, <1>6, <2>3 DEF PurgeStart
<1>7. ASSUME NEW i \in Purges, NEW point \in {"done", "failed"}, purge[i].at = "scan",
             purge' = [purge EXCEPT ![i].at = point]
      PROVE  PurgesTyped'
  <2> DEFINE n == [purge[i] EXCEPT !.at = point]
  <2>1. n \in PurgeType /\ n.target # None /\ n.at # "new"
    BY <1>0, <1>7 DEF PurgesTyped, PurgeType
  <2>2. purge' = [purge EXCEPT ![i] = n]
    BY <1>7
  <2> HIDE DEF n
  <2>3. QED
    BY <1>5, <2>1, <2>2
<1>8. ASSUME NEW i \in Purges, PurgeIndex(i) PROVE TypeOK'
  BY <1>4, <1>7, <1>8 DEF PurgeIndex, PurgeRecords
<1>9. ASSUME NEW i \in Purges, PurgeFail(i) PROVE TypeOK'
  BY <1>4, <1>7, <1>9 DEF PurgeFail
<1>10. ASSUME NEW r \in Calls, SemanticExpires(r) PROVE TypeOK'
  <2>1. PurgesTyped'
    BY <1>0, <1>10 DEF SemanticExpires, PurgesTyped
  <2>2. QED
    BY <1>4, <1>10, <2>1 DEF SemanticExpires
<1>11. CASE UNCHANGED vars
  <2>1. PurgesTyped'
    BY <1>0, <1>11 DEF vars, PurgesTyped
  <2>2. QED
    BY <1>4, <1>11, <2>1 DEF vars
<1>12. ASSUME NEW k \in Keys, ExactExpires(k) PROVE TypeOK'
  BY <1>3, <1>12 DEF ExactExpires
<1>13. ASSUME NEW i \in Purges, NEW k \in Keys, PurgeDelete(i, k) PROVE TypeOK'
  BY <1>3, <1>13 DEF PurgeDelete
<1>14. QED
  BY <1>1, <1>2, <1>6, <1>8, <1>9, <1>10, <1>11, <1>12, <1>13 DEF Next, PurgeStep

-----------------------------------------------------------------------------
(* Calls in progress *)

Moves(c, point) ==
    Becomes(c, point, call[c].from, call[c].outcome, call[c].before, call[c].best)

LEMMA GotoMoves ==
    ASSUME TypeOK, NEW c \in Calls, NEW point \in Points, Goto(c, point)
    PROVE  Moves(c, point)
<1>1. call \in [Calls -> CallType] /\ call[c] \in CallType
  BY DEF TypeOK
<1>2. call'[c] = [call[c] EXCEPT !.at = point]
  BY <1>1, GotoEffect
<1>3. QED
  BY <1>1, <1>2 DEF Moves, Becomes, CallType

\* The steps of a call that do more than move on.
Hit(c) ==
    /\ call[c].at \in {"exact", "find"}
    /\ \E r \in Calls, outcome \in {"exact_hit", "semantic_hit"} :
        /\ Becomes(c, "event", r, outcome, call[c].before, call[c].best)
        /\ outcome = "exact_hit" => At(c, "exact") /\ exact[Key(c)] = r
        /\ outcome = "semantic_hit" =>
            At(c, "find") /\ r \in Matches(c, index, LiveThreshold) /\ Text(r) = Text(c)
Miss(c) ==
    /\ call[c].at \in {"exact", "find"}
    /\ Becomes(c, "send", call[c].from, call[c].outcome, stamped, call[c].best)
Fetched(c) ==
    /\ AttemptSucceeds(c)
    /\ Becomes(c, "fill", c, "miss", call[c].before, call[c].best)
ShadowFound(c) ==
    /\ At(c, "shadow")
    /\ \E r \in Matches(c, index \cap call[c].before, ShadowThreshold) :
        /\ Likeness(c, r) < LiveThreshold
        /\ Becomes(c, "shadow_log", call[c].from, call[c].outcome, call[c].before, r)

\* The point a step that only moves on leads to.
MovesOn(c) ==
    \/ ExactGet(c) /\ Reusable(c) /\ Moves(c, "find")
    \/ AttemptFails(c) /\ Moves(c, IF sent[c] < MaxRetries THEN "send" ELSE "over")
    \/ AttemptRejected(c) /\ Moves(c, "over")
    \/ ExactSet(c) /\ Moves(c, IF Reusable(c) THEN "index" ELSE "event")
    \/ Index(c) /\ Moves(c, "event")
    \/ LogEvent(c) /\ Moves(c, "ledger")
    \/ LogRequest(c) /\ Moves(c, "answer")
    \/ Answer(c) /\ Moves(c, IF ShadowScheduled(c) THEN "shadow" ELSE "over")
    \/ StreamAnswer(c) /\ Moves(c, "over")
    \/ ShadowFind(c) /\ Moves(c, "over")
    \/ ShadowLog(c) /\ Moves(c, "shadow_save")
    \/ ShadowSave(c) /\ Moves(c, "shadow_purge")
    \/ ShadowPurge(c) /\ Moves(c, "over")
    \/ Fail(c) /\ Moves(c, "over")

LEMMA CallStepEffect ==
    ASSUME TypeOK, NEW c \in Calls, CallStep(c) \/ Fail(c)
    PROVE  /\ InputKept(c)
           /\ \/ Hit(c) /\ (ExactGet(c) \/ FindMatch(c))
              \/ Miss(c) /\ (ExactGet(c) \/ FindMatch(c))
              \/ Fetched(c)
              \/ ShadowFound(c) /\ ShadowFind(c)
              \/ MovesOn(c)
<1>0. /\ call \in [Calls -> CallType] /\ call[c] \in CallType
      /\ stamped \subseteq Calls /\ index \subseteq Calls
  BY DEF TypeOK, Arrived
<1>a. ASSUME NEW point \in Points, Goto(c, point) PROVE Moves(c, point)
  BY <1>a, GotoMoves
<1>b. ASSUME ServeUpstream(c)
      PROVE  Becomes(c, "send", call[c].from, call[c].outcome, stamped, call[c].best)
  BY <1>0, <1>b, UpstreamEffect DEF Becomes, CallType
<1>c. ASSUME NEW r \in Calls, NEW outcome \in Outcomes, Serve(c, r, outcome)
      PROVE  Becomes(c, "event", r, outcome, call[c].before, call[c].best)
  BY <1>0, <1>c, ServeEffect
<1>d. /\ {"find", "send", "event", "ledger", "answer", "index", "over", "shadow",
          "shadow_save", "shadow_purge"} \subseteq Points
      /\ "exact_hit" \in Outcomes /\ "semantic_hit" \in Outcomes
  BY DEF Points, Lookup, Outcomes
<1>e. InputKept(c)
  BY StepKeepsInput
<1>1. CASE ExactGet(c)
  <2>1. Input(c) # None
    BY <1>1 DEF ExactGet, At, TypeOK
  <2>2. exact[Key(c)] \in Calls \cup {None}
    BY <2>1, InputTyped DEF TypeOK
  <2>3. CASE exact[Key(c)] # None /\ Serve(c, exact[Key(c)], "exact_hit")
    <3>1. Hit(c)
      BY <1>1, <2>2, <2>3, <1>c, <1>d DEF Hit, ExactGet, At
    <3>2. QED
      BY <1>1, <1>e, <3>1
  <2>4. CASE Reusable(c) /\ Goto(c, "find")
    BY <1>1, <1>e, <2>4, <1>a, <1>d DEF MovesOn
  <2>5. CASE ServeUpstream(c)
    BY <1>1, <1>e, <2>5, <1>b DEF Miss, ExactGet, At
  <2>6. QED
    BY <1>1, <2>3, <2>4, <2>5 DEF ExactGet
<1>2. CASE FindMatch(c)
  <2>1. Matches(c, index, LiveThreshold) \subseteq Calls
    BY <1>0 DEF Matches
  <2>2. ASSUME NEW r \in Matches(c, index, LiveThreshold), Text(r) = Text(c), Serve(c, r, "semantic_hit")
        PROVE  Hit(c)
    BY <1>2, <2>1, <2>2, <1>c, <1>d DEF Hit, FindMatch, At
  <2>3. CASE ServeUpstream(c)
    BY <1>2, <2>3, <1>b, <1>e DEF Miss, FindMatch, At
  <2>4. QED
    BY <1>2, <1>e, <2>2, <2>3 DEF FindMatch
<1>3. CASE AttemptSucceeds(c)
  BY <1>3, <1>0, <1>e, SuccessEffect DEF Fetched, Becomes, CallType
<1>4. CASE AttemptFails(c)
  BY <1>4, <1>a, <1>d, <1>e DEF AttemptFails, MovesOn
<1>5. CASE AttemptRejected(c)
  BY <1>5, <1>a, <1>d, <1>e DEF AttemptRejected, MovesOn
<1>6. CASE ExactSet(c)
  BY <1>6, <1>a, <1>d, <1>e DEF ExactSet, MovesOn
<1>7. CASE Index(c)
  BY <1>7, <1>a, <1>d, <1>e DEF Index, AddEntry, MovesOn
<1>8. CASE LogEvent(c)
  BY <1>8, <1>a, <1>d, <1>e DEF LogEvent, MovesOn
<1>9. CASE LogRequest(c)
  BY <1>9, <1>a, <1>d, <1>e DEF LogRequest, MovesOn
<1>10. CASE Answer(c)
  BY <1>10, <1>a, <1>d, <1>e DEF Answer, MovesOn
<1>11. CASE StreamAnswer(c)
  BY <1>11, <1>a, <1>d, <1>e DEF StreamAnswer, MovesOn
<1>12. CASE ShadowFind(c)
  <2>1. CASE call'[c] = [call[c] EXCEPT !.at = "over"]
    BY <1>12, <1>0, <1>e, <2>1 DEF MovesOn, Moves, Becomes, CallType
  <2>2. ASSUME NEW r \in Matches(c, index \cap call[c].before, ShadowThreshold),
               Likeness(c, r) < LiveThreshold,
               call'[c] = [call[c] EXCEPT !.at = "shadow_log", !.best = r]
        PROVE  ShadowFound(c)
    BY <1>12, <1>0, <2>2 DEF ShadowFound, ShadowFind, Becomes, CallType
  <2>3. QED
    BY <1>12, <1>e, <2>1, <2>2, ShadowFindEffect
<1>13. CASE ShadowLog(c)
  BY <1>13, <1>a, <1>d, <1>e DEF ShadowLog, MovesOn
<1>14. CASE ShadowSave(c)
  BY <1>14, <1>a, <1>d, <1>e DEF ShadowSave, MovesOn
<1>15. CASE ShadowPurge(c)
  BY <1>15, <1>a, <1>d, <1>e DEF ShadowPurge, MovesOn
<1>16. CASE Fail(c)
  BY <1>16, <1>a, <1>d, <1>e DEF Fail, MovesOn
<1>17. QED
  BY <1>1, <1>2, <1>3, <1>4, <1>5, <1>6, <1>7, <1>8, <1>9, <1>10, <1>11, <1>12, <1>13,
     <1>14, <1>15, <1>16 DEF CallStep, Attempt

\* A step of no call: entries may go, and invalidations go on.
Quiet ==
    /\ UNCHANGED <<stamped, upstream, logs, analytics, call>>
    /\ \A k \in Keys : exact'[k] \in {exact[k], None}
    /\ index' \subseteq index

LEMMA StepKinds ==
    ASSUME TypeOK, [Next]_vars
    PROVE  \/ Quiet
           \/ \E c \in Calls : Arrive(c)
           \/ \E c \in Calls : CallStep(c) \/ Fail(c)
<1> USE DEF caches
<1>0. exact \in [Keys -> Calls \cup {None}]
  BY DEF TypeOK
<1>1. CASE UNCHANGED vars
  BY <1>1 DEF vars, Quiet
<1>2. ASSUME NEW k \in Keys, ExactExpires(k) PROVE Quiet
  BY <1>0, <1>2 DEF ExactExpires, Drop, Quiet
<1>3. ASSUME NEW r \in Calls, SemanticExpires(r) PROVE Quiet
  BY <1>3 DEF SemanticExpires, Quiet
<1>4. ASSUME NEW i \in Purges, NEW s \in Spaces, PurgeStart(i, s) PROVE Quiet
  BY <1>4 DEF PurgeStart, Quiet
<1>5. ASSUME NEW i \in Purges, NEW k \in Keys, PurgeDelete(i, k) PROVE Quiet
  BY <1>0, <1>5 DEF PurgeDelete, Drop, Quiet
<1>6. ASSUME NEW i \in Purges, PurgeIndex(i) PROVE Quiet
  BY <1>6 DEF PurgeIndex, PurgeRecords, Quiet
<1>7. ASSUME NEW i \in Purges, PurgeFail(i) PROVE Quiet
  BY <1>7 DEF PurgeFail, Quiet
<1>8. QED
  BY <1>1, <1>2, <1>3, <1>4, <1>5, <1>6, <1>7 DEF Next, PurgeStep

\* What a call in progress was given, kept through every step.
LEMMA ProgressStep ==
    ASSUME ProxyInv, [Next]_vars, NEW d \in Calls
    PROVE  Progress(d)'
<1>0. TypeOK /\ Progress(d) /\ CachesFetched /\ call \in [Calls -> CallType] /\ call[d] \in CallType
  BY DEF ProxyInv, TypeOK
<1>1. CASE call'[d] = call[d]
  BY <1>0, <1>1 DEF Progress, At, Input
<1>2. CASE Arrive(d)
  <2>1. PICK i \in Inputs, point \in {"over", "stream", "exact"} :
            /\ point = "stream" => i.stream
            /\ point = "exact" => ~i.stream
            /\ call'[d] = [call[d] EXCEPT !.at = point, !.input = i]
    BY <1>0, <1>2, ArriveEffect
  <2>2. /\ call'[d].at = point /\ call'[d].input = i
        /\ call'[d].from = call[d].from /\ call'[d].outcome = call[d].outcome
    BY <1>0, <2>1 DEF CallType
  <2>3. call[d].at = "new" /\ call[d].outcome = "none"
    BY <1>0, <1>2 DEF Arrive, At, Progress, Unserved
  <2>4. QED
    BY <1>0, <2>1, <2>2, <2>3 DEF Progress, At, Input, Unserved, ShadowPoints
<1>3. CASE CallStep(d) \/ Fail(d)
  <2>0. call[d].at # "new" /\ Input(d) # None
    BY <1>0, <1>3, CallsStayTyped DEF Arrived, At
  <2>1. CASE Hit(d)
    <3>1. PICK r \in Calls, outcome \in {"exact_hit", "semantic_hit"} :
              /\ Becomes(d, "event", r, outcome, call[d].before, call[d].best)
              /\ call[r].outcome = "miss"
      <4>1. Key(d) \in Keys
        BY <1>0, <2>0, InputTyped
      <4>2. \A r \in Calls : exact[Key(d)] = r => call[r].outcome = "miss"
        BY <1>0, <4>1, ProxyAssumption DEF CachesFetched
      <4>3. \A r \in Matches(d, index, LiveThreshold) : call[r].outcome = "miss"
        BY <1>0 DEF CachesFetched, Matches, TypeOK
      <4>4. QED
        BY <2>1, <4>2, <4>3 DEF Hit
    <3>2. r # d /\ r # None /\ ~Input(d).stream
      BY <1>0, <2>0, <2>1, <3>1, ProxyAssumption DEF Hit, Progress, Unserved, At
    <3>3. QED
      BY <1>0, <2>0, <3>1, <3>2 DEF Becomes, Progress, At, Input, Unserved, ShadowPoints
  <2>2. CASE Miss(d)
    BY <1>0, <2>0, <2>2 DEF Miss, Becomes, Progress, At, Input, Unserved, ShadowPoints
  <2>3. CASE Fetched(d)
    BY <1>0, <2>0, <2>3, ProxyAssumption
       DEF Fetched, AttemptSucceeds, Becomes, Progress, At, Input, Unserved, ShadowPoints
  <2>4. CASE ShadowFound(d)
    BY <1>0, <2>0, <2>4 DEF ShadowFound, Becomes, Progress, At, Input, Unserved, ShadowPoints
  <2>5. CASE MovesOn(d)
    <3> USE DEF Moves, Becomes, Progress, At, Input, Unserved, ShadowPoints
    <3>1. CASE ExactGet(d) /\ Moves(d, "find")
      BY <1>0, <2>0, <3>1 DEF ExactGet
    <3>2. CASE AttemptFails(d) /\ Moves(d, IF sent[d] < MaxRetries THEN "send" ELSE "over")
      BY <1>0, <2>0, <3>2 DEF AttemptFails
    <3>3. CASE Moves(d, "over")
      BY <1>0, <2>0, <3>3
    <3>4. CASE ExactSet(d) /\ Moves(d, IF Reusable(d) THEN "index" ELSE "event")
      BY <1>0, <2>0, <3>4 DEF ExactSet
    <3>5. CASE Index(d) /\ Moves(d, "event")
      BY <1>0, <2>0, <3>5 DEF Index, AddEntry
    <3>6. CASE LogEvent(d) /\ Moves(d, "ledger")
      BY <1>0, <2>0, <3>6 DEF LogEvent
    <3>7. CASE LogRequest(d) /\ Moves(d, "answer")
      BY <1>0, <2>0, <3>7 DEF LogRequest
    <3>8. CASE Answer(d) /\ Moves(d, IF ShadowScheduled(d) THEN "shadow" ELSE "over")
      BY <1>0, <2>0, <3>8 DEF Answer, ShadowScheduled
    <3>9. CASE ShadowLog(d) /\ Moves(d, "shadow_save")
      BY <1>0, <2>0, <3>9 DEF ShadowLog
    <3>10. CASE ShadowSave(d) /\ Moves(d, "shadow_purge")
      BY <1>0, <2>0, <3>10 DEF ShadowSave
    <3>11. QED
      BY <2>5, <3>1, <3>2, <3>3, <3>4, <3>5, <3>6, <3>7, <3>8, <3>9, <3>10 DEF MovesOn
  <2>6. QED
    BY <1>0, <1>3, <2>1, <2>2, <2>3, <2>4, <2>5, CallStepEffect
<1>4. call'[d] = call[d] \/ Arrive(d) \/ CallStep(d) \/ Fail(d)
  <2>1. \A c \in Calls : Arrive(c) \/ CallStep(c) \/ Fail(c) => Others(c)
    BY <1>0, ArriveEffect, CallStepEffect DEF InputKept
  <2>2. QED
    BY <1>0, <2>1, StepKinds DEF Quiet, Others
<1>5. QED
  BY <1>1, <1>2, <1>3, <1>4

-----------------------------------------------------------------------------
(* What a step leaves alone *)

\* Each variable is written by the actions named for it.
LEMMA Writers ==
    ASSUME NEW c \in Calls, Arrive(c) \/ CallStep(c) \/ Fail(c)
    PROVE  /\ ExactSet(c) \/ UNCHANGED <<exact, stamped>>
           /\ Index(c) \/ UNCHANGED index
           /\ Attempt(c) \/ StreamAnswer(c) \/ UNCHANGED sent
           /\ LogEvent(c) \/ UNCHANGED events
           /\ LogRequest(c) \/ UNCHANGED ledger
           /\ Answer(c) \/ StreamAnswer(c) \/ UNCHANGED answered
           /\ ShadowLog(c) \/ ShadowPurge(c) \/ UNCHANGED shadow
           /\ ShadowSave(c) \/ UNCHANGED savings
           /\ UNCHANGED purge
<1> USE DEF caches, upstream, logs, analytics
<1>1. CASE Arrive(c) BY <1>1 DEF Arrive
<1>2. CASE ExactGet(c) BY <1>2 DEF ExactGet
<1>3. CASE FindMatch(c) BY <1>3 DEF FindMatch
<1>4. CASE Attempt(c) BY <1>4 DEF Attempt, AttemptSucceeds, AttemptFails, AttemptRejected
<1>5. CASE ExactSet(c) BY <1>5 DEF ExactSet
<1>6. CASE Index(c) BY <1>6 DEF Index, AddEntry
<1>7. CASE LogEvent(c) BY <1>7 DEF LogEvent
<1>8. CASE LogRequest(c) BY <1>8 DEF LogRequest
<1>9. CASE Answer(c) BY <1>9 DEF Answer
<1>10. CASE StreamAnswer(c) BY <1>10 DEF StreamAnswer
<1>11. CASE ShadowFind(c) BY <1>11 DEF ShadowFind
<1>12. CASE ShadowLog(c) BY <1>12 DEF ShadowLog
<1>13. CASE ShadowSave(c) BY <1>13 DEF ShadowSave
<1>14. CASE ShadowPurge(c) BY <1>14 DEF ShadowPurge
<1>15. CASE Fail(c) BY <1>15 DEF Fail
<1>16. QED
  BY <1>1, <1>2, <1>3, <1>4, <1>5, <1>6, <1>7, <1>8, <1>9, <1>10, <1>11, <1>12, <1>13,
     <1>14, <1>15 DEF CallStep

\* Which call a step is a step of.
LEMMA OneCallSteps ==
    ASSUME TypeOK, [Next]_vars
    PROVE  \/ Quiet
           \/ \E c \in Calls : (Arrive(c) \/ CallStep(c) \/ Fail(c)) /\ Others(c)
BY StepKinds, ArriveEffect, CallStepEffect DEF InputKept

\* A call keeps its request, and what it was served.
LEMMA Kept ==
    ASSUME ProxyInv, [Next]_vars, NEW d \in Calls
    PROVE  /\ Input(d) # None => Input(d)' = Input(d)
           /\ call[d].outcome # "none" =>
                /\ call'[d].outcome = call[d].outcome
                /\ call'[d].from = call[d].from
                /\ call'[d].before = call[d].before
                /\ Input(d) # None
<1>0. TypeOK /\ Progress(d)
  BY DEF ProxyInv
<1>1. CASE call'[d] = call[d]
  BY <1>0, <1>1 DEF Input, Progress
<1>2. CASE Arrive(d)
  BY <1>0, <1>2 DEF Arrive, At, Progress, Unserved, TypeOK
<1>3. CASE CallStep(d) \/ Fail(d)
  <2>1. InputKept(d) /\ Input(d) # None
    BY <1>0, <1>3, CallStepEffect, CallsStayTyped DEF Arrived
  <2>2. CASE Hit(d)
    BY <1>0, <2>1, <2>2 DEF Hit, Progress, Unserved, InputKept, Input
  <2>3. CASE Miss(d)
    BY <1>0, <2>1, <2>3 DEF Miss, Progress, Unserved, InputKept, Input
  <2>4. CASE Fetched(d)
    BY <1>0, <2>1, <2>4 DEF Fetched, AttemptSucceeds, At, Progress, Unserved, InputKept, Input
  <2>5. CASE ShadowFound(d) \/ MovesOn(d)
    BY <2>1, <2>5 DEF ShadowFound, MovesOn, Moves, Becomes, Input
  <2>6. QED
    BY <1>0, <1>3, <2>2, <2>3, <2>4, <2>5, CallStepEffect
<1>4. QED
  BY <1>0, <1>1, <1>2, <1>3, OneCallSteps DEF Quiet, Others

-----------------------------------------------------------------------------
(* The caches hold what was fetched for the request they are found by *)

\* A step sets an exact entry to a new response at most, the writer's own.
LEMMA ExactWritten ==
    ASSUME TypeOK, [Next]_vars, NEW k \in Keys, exact'[k] # exact[k], exact'[k] # None
    PROVE  \E c \in Calls : ExactSet(c) /\ Others(c) /\ k = Key(c) /\ exact'[k] = c
<1>1. PICK c \in Calls : (Arrive(c) \/ CallStep(c) \/ Fail(c)) /\ Others(c)
  BY OneCallSteps DEF Quiet
<1>2. ExactSet(c)
  BY <1>1, Writers
<1>3. QED
  BY <1>1, <1>2 DEF ExactSet, TypeOK

\* Where the call of a record, or one about to add a record, can be.
LEMMA StampStep ==
    ASSUME ProxyInv, [Next]_vars, NEW d \in Calls
    PROVE  /\ d \in stamped' => call'[d].outcome = "miss" /\ ~At(d, "fill")'
           /\ At(d, "index")' => d \in stamped'
           /\ stamped \subseteq stamped'
<1>0. TypeOK /\ Progress(d) /\ CachesFetched
  BY DEF ProxyInv
<1>1. CASE call'[d] = call[d] /\ stamped' = stamped
  BY <1>0, <1>1 DEF CachesFetched, At
<1>2. ASSUME NEW c \in Calls, c # d, ExactSet(c), Others(c) PROVE
           /\ call'[d] = call[d] /\ stamped \subseteq stamped' /\ stamped' \subseteq stamped \cup {c}
  BY <1>2 DEF ExactSet, Others
<1>3. CASE Arrive(d)
  <2>1. stamped' = stamped /\ call'[d].at # "index" /\ call'[d].at # "fill"
    <3>1. call'[d].at \in {"over", "stream", "exact"}
      BY ZenonT(60), <1>0, <1>3, ArriveEffect DEF TypeOK, CallType
    <3>2. QED
      BY <1>3, <3>1 DEF Arrive
  <2>2. QED
    BY <1>0, <1>3, <2>1, Kept DEF CachesFetched, At
<1>4. CASE CallStep(d) \/ Fail(d)
  <2>1. CASE ExactSet(d)
    <3>1. call[d].at = "fill" /\ call[d].outcome = "miss"
      BY <1>0, <2>1 DEF ExactSet, Progress, At
    <3>2. {"index", "event"} \subseteq Points
      BY DEF Points, Lookup
    <3>3. call'[d].at = IF Reusable(d) THEN "index" ELSE "event"
      <4>1. ASSUME NEW point \in Points, Goto(d, point) PROVE call'[d].at = point
        BY <1>0, <4>1, GotoMoves DEF Moves, Becomes
      <4>2. QED
        BY <2>1, <3>2, <4>1 DEF ExactSet
    <3>4. call'[d].outcome = "miss"
      BY <3>1, Kept
    <3>5. QED
      BY <1>0, <2>1, <3>3, <3>4 DEF ExactSet, CachesFetched, At
  <2>2. CASE ~ExactSet(d)
    <3>1. stamped' = stamped
      BY <1>4, <2>2, Writers
    <3>2. ~At(d, "index")'
      BY <1>0, <1>4, <2>2, CallStepEffect
         DEF Hit, Miss, Fetched, ShadowFound, MovesOn, Moves, Becomes, At
    <3>3. d \in stamped => ~At(d, "fill")'
      BY <1>0, <1>4, <2>2, CallStepEffect
         DEF Hit, Miss, Fetched, AttemptSucceeds, ShadowFound, MovesOn, Moves, Becomes, At,
             CachesFetched, Progress, Unserved
    <3>4. QED
      BY <1>0, <3>1, <3>2, <3>3, Kept DEF CachesFetched
  <2>3. QED
    BY <2>1, <2>2
<1>5. CASE Quiet
  BY <1>1, <1>5 DEF Quiet
<1>6. ASSUME NEW c \in Calls, c # d, Arrive(c) \/ CallStep(c) \/ Fail(c), Others(c)
      PROVE  /\ call'[d] = call[d] /\ stamped \subseteq stamped' /\ stamped' \subseteq stamped \cup {c}
  BY <1>2, <1>6, Writers DEF Others
<1>7. ASSUME call'[d] = call[d], stamped \subseteq stamped', d \in stamped' => d \in stamped
      PROVE  /\ d \in stamped' => call'[d].outcome = "miss" /\ ~At(d, "fill")'
             /\ At(d, "index")' => d \in stamped'
  BY <1>0, <1>7 DEF CachesFetched, At
<1>8. QED
  BY <1>0, <1>3, <1>4, <1>5, <1>6, <1>7, OneCallSteps

LEMMA CachesStep == ProxyInv /\ [Next]_vars => CachesFetched'
<1> SUFFICES ASSUME ProxyInv, [Next]_vars PROVE CachesFetched'
  OBVIOUS
<1>0. TypeOK /\ CachesFetched /\ TypeOK'
  BY TypeStep DEF ProxyInv
<1>1. ASSUME NEW c \in Calls, call[c].outcome = "miss"
      PROVE  call'[c].outcome = "miss" /\ Key(c)' = Key(c)
  BY <1>1, Kept DEF Key, Text, Input
<1>2. ASSUME NEW k \in Keys, exact'[k] # None
      PROVE  call'[exact'[k]].outcome = "miss" /\ Key(exact[k])' = k
  <2>1. CASE exact'[k] = exact[k]
    BY <1>0, <1>1, <1>2, <2>1 DEF CachesFetched, TypeOK
  <2>2. CASE exact'[k] # exact[k]
    <3>1. PICK c \in Calls : ExactSet(c) /\ k = Key(c) /\ exact'[k] = c
      BY <1>0, <1>2, <2>2, ExactWritten
    <3>2. call[c].outcome = "miss"
      BY <3>1 DEF ProxyInv, Progress, ExactSet, At
    <3>3. call'[c].outcome = "miss" /\ Key(c)' = k
      BY <1>1, <3>1, <3>2
    <3>4. Key(exact[k])' = k
      BY <3>1, <3>3 DEF Key, Text, Input
    <3>5. QED
      BY <3>1, <3>3, <3>4
  <2>3. QED
    BY <2>1, <2>2
<1>3. \A c \in stamped' : call'[c].outcome = "miss" /\ ~At(c, "fill")'
  BY <1>0, StampStep DEF TypeOK, Arrived
<1>4. \A c \in Calls : At(c, "index")' => c \in stamped'
  BY StampStep
<1>5. QED
  BY <1>2, <1>3, <1>4 DEF CachesFetched

\* UpstreamOnlyIfNeeded, of one call.
SentFor(c) ==
    /\ sent[c] <= MaxRetries + 1
    /\ sent[c] > 0 => call[c].outcome \in {"none", "miss"}
    /\ sent[c] > 1 => ~Input(c).stream
    /\ call[c].outcome = "miss" => sent[c] > 0

LEMMA AttemptsStep ==
    ASSUME ProxyInv, [Next]_vars, NEW d \in Calls
    PROVE  Attempts(d)' /\ SentFor(d)'
<1>0. /\ TypeOK /\ Progress(d) /\ Attempts(d) /\ SentFor(d) /\ sent[d] \in Nat /\ MaxRetries \in Nat
      /\ call[d] \in CallType
  BY ProxyAssumption DEF ProxyInv, UpstreamOnlyIfNeeded, SentFor, TypeOK
<1>1. CASE call'[d] = call[d] /\ sent'[d] = sent[d]
  BY <1>0, <1>1 DEF Attempts, SentFor, At, Input
<1>2. CASE Arrive(d)
  <2>1. sent'[d] = 0 /\ call[d].outcome = "none"
    BY <1>0, <1>2 DEF Arrive, upstream, Attempts, At, Progress, Unserved
  <2>2. call'[d].outcome = "none"
    BY <1>0, <1>2, <2>1, ArriveEffect DEF CallType
  <2>3. QED
    BY <1>0, <2>1, <2>2 DEF Attempts, SentFor
<1>3. ASSUME CallStep(d) \/ Fail(d), ~Attempt(d), ~StreamAnswer(d)
      PROVE  Attempts(d)' /\ SentFor(d)'
  <2>1. sent'[d] = sent[d] /\ Input(d)' = Input(d)
    BY <1>0, <1>3, Writers, CallStepEffect DEF InputKept, Input
  <2>2. CASE Hit(d)
    BY <1>0, <2>1, <2>2 DEF Hit, Becomes, Attempts, SentFor, At
  <2>3. CASE Miss(d)
    BY <1>0, <2>1, <2>3 DEF Miss, Becomes, Attempts, SentFor, At
  <2>4. CASE ShadowFound(d)
    BY <1>0, <2>1, <2>4 DEF ShadowFound, Becomes, Attempts, SentFor, At
  <2>5. CASE MovesOn(d)
    <3>1. CASE ExactGet(d) /\ Moves(d, "find")
      BY <1>0, <2>1, <3>1 DEF ExactGet, Moves, Becomes, Attempts, SentFor, At
    <3>2. ASSUME NEW point \in {"index", "event", "ledger", "answer", "shadow", "over",
                                "shadow_save", "shadow_purge"}, Moves(d, point)
          PROVE  Attempts(d)' /\ SentFor(d)'
      BY <1>0, <2>1, <3>2 DEF Moves, Becomes, Attempts, SentFor, At
    <3>3. QED
      BY <1>3, <2>5, <3>1, <3>2 DEF MovesOn, Attempt
  <2>6. QED
    BY <1>0, <1>3, <2>2, <2>3, <2>4, <2>5, CallStepEffect DEF Fetched, Attempt
<1>4. ASSUME Attempt(d) \/ StreamAnswer(d)
      PROVE  Attempts(d)' /\ SentFor(d)'
  <2>1. Post(d)
    BY <1>4 DEF Attempt, AttemptSucceeds, AttemptFails, AttemptRejected, StreamAnswer
  <2>2. sent'[d] = sent[d] + 1 /\ Input(d)' = Input(d)
    <3>1. Input(d)' = Input(d)
      BY <1>0, <1>4, CallStepEffect DEF CallStep, InputKept, Input
    <3>2. QED
      BY <1>0, <2>1, <3>1 DEF Post, TypeOK
  <2>3. CASE AttemptSucceeds(d)
    <3>1. call'[d].at = "fill" /\ call'[d].outcome = "miss"
      BY <1>0, <2>3, SuccessEffect DEF CallType
    <3>2. QED
      BY <1>0, <2>2, <2>3, <3>1 DEF AttemptSucceeds, At, Attempts, SentFor, Progress
  <2>4. CASE AttemptFails(d) /\ Moves(d, IF sent[d] < MaxRetries THEN "send" ELSE "over")
    BY <1>0, <2>2, <2>4 DEF AttemptFails, At, Attempts, SentFor, Progress, Moves, Becomes, Unserved
  <2>5. CASE AttemptRejected(d) /\ Moves(d, "over")
    BY <1>0, <2>2, <2>5 DEF AttemptRejected, At, Attempts, SentFor, Progress, Moves, Becomes, Unserved
  <2>6. CASE StreamAnswer(d) /\ Moves(d, "over")
    BY <1>0, <2>2, <2>6 DEF StreamAnswer, At, Attempts, SentFor, Progress, Moves, Becomes, Unserved
  <2>a. ASSUME NEW point \in Points, Goto(d, point) PROVE Moves(d, point)
    BY <1>0, <2>a, GotoMoves
  <2>b. "send" \in Points /\ "over" \in Points
    BY DEF Points, Lookup
  <2>7. QED
    BY <1>4, <2>3, <2>4, <2>5, <2>6, <2>a, <2>b
       DEF Attempt, AttemptFails, AttemptRejected, StreamAnswer
<1>5. CASE Quiet
  BY <1>1, <1>5 DEF Quiet, upstream
<1>6. ASSUME NEW c \in Calls, c # d, Arrive(c) \/ CallStep(c) \/ Fail(c), Others(c)
      PROVE  call'[d] = call[d] /\ sent'[d] = sent[d]
  <2>1. CASE Attempt(c) \/ StreamAnswer(c)
    BY <1>0, <1>6, <2>1
       DEF Attempt, AttemptSucceeds, AttemptFails, AttemptRejected, StreamAnswer, Post, TypeOK, Others
  <2>2. CASE sent' = sent
    BY <1>6, <2>2 DEF Others
  <2>3. QED
    BY <1>6, <2>1, <2>2, Writers
<1>7. QED
  BY <1>0, <1>1, <1>2, <1>3, <1>4, <1>5, <1>6, OneCallSteps

\* HitAnswersTheRequest, of one call.
Answering(c) ==
    call[c].outcome \in {"exact_hit", "semantic_hit"} =>
        LET r == call[c].from
        IN  /\ r \in Calls \ {c}
            /\ call[r].from = r
            /\ Question(c) = Question(r)
            /\ call[c].outcome = "semantic_hit" => Input(r).scope = Input(c).scope

\* A served response stays the answer: what it is and what was asked are kept.
LEMMA HitsStep ==
    ASSUME ProxyInv, [Next]_vars, NEW d \in Calls
    PROVE  Answering(d)'
<1>0. TypeOK /\ Progress(d) /\ CachesFetched /\ Answering(d) /\ call[d] \in CallType
  BY DEF ProxyInv, HitAnswersTheRequest, Answering, TypeOK
<1>1. ASSUME NEW r \in Calls, call[r].outcome = "miss" PROVE
        /\ call'[r].from = r
        /\ Question(r)' = Question(r)
        /\ Input(r)' = Input(r)
  <2>1. call[r].from = r
    BY <1>1 DEF ProxyInv, Progress
  <2>2. QED
    BY <1>1, <2>1, Kept DEF Question, Text, Input
<1>2. CASE call[d].outcome # "none"
  <2>1. Question(d)' = Question(d) /\ Input(d)' = Input(d)
    BY <1>2, Kept DEF Question, Text, Input
  <2>2. call'[d].outcome = call[d].outcome /\ call'[d].from = call[d].from
    BY <1>2, Kept
  <2>3. \A r \in Calls : call[r].from = r => call[r].outcome = "miss"
    BY DEF ProxyInv, Progress
  <2>4. QED
    BY <1>0, <1>1, <2>1, <2>2, <2>3 DEF Answering
<1>3. CASE call[d].outcome = "none" /\ call'[d].outcome \in {"exact_hit", "semantic_hit"}
  <2>1. CallStep(d) /\ Hit(d)
    <3>1. call'[d] # call[d] /\ ~Arrive(d)
      BY <1>0, <1>3, ArriveEffect DEF CallType
    <3>2. CallStep(d) \/ Fail(d)
      BY <1>0, <3>1, OneCallSteps DEF Quiet, Others
    <3>3. QED
      BY <1>0, <1>3, <3>2, CallStepEffect
         DEF Hit, Miss, Fetched, ShadowFound, MovesOn, Moves, Becomes, CallStep
  <2>2. /\ Input(d) # None /\ Key(d) \in Keys
        /\ Question(d)' = Question(d) /\ Input(d)' = Input(d)
    <3>1. Input(d) # None
      BY <1>0, <2>1, CallsStayTyped DEF Arrived
    <3>2. Input(d)' = Input(d)
      BY <3>1, Kept
    <3>3. QED
      BY <1>0, <3>1, <3>2, InputTyped DEF Question, Text
  <2>3. PICK r \in Calls, outcome \in {"exact_hit", "semantic_hit"} :
            /\ Becomes(d, "event", r, outcome, call[d].before, call[d].best)
            /\ outcome = "exact_hit" => At(d, "exact") /\ exact[Key(d)] = r
            /\ outcome = "semantic_hit" =>
                At(d, "find") /\ r \in Matches(d, index, LiveThreshold) /\ Text(r) = Text(d)
    BY <2>1 DEF Hit
  <2>4. CASE outcome = "exact_hit"
    <3>1. call[r].outcome = "miss" /\ Key(r) = Key(d)
      BY <1>0, <2>2, <2>3, <2>4, ProxyAssumption DEF CachesFetched
    <3>2. r # d /\ Question(r) = Question(d)
      BY <1>3, <3>1 DEF Key, Question
    <3>3. QED
      BY <1>1, <2>2, <2>3, <2>4, <3>1, <3>2 DEF Becomes, Answering
  <2>5. CASE outcome = "semantic_hit"
    <3>1. call[r].outcome = "miss" /\ Comparable(d, r) /\ Text(r) = Text(d)
      BY <1>0, <2>3, <2>5 DEF CachesFetched, Matches, TypeOK
    <3>2. r # d /\ Question(r) = Question(d) /\ Input(r).scope = Input(d).scope
      BY <1>3, <3>1 DEF Comparable, Question
    <3>3. QED
      BY <1>1, <2>2, <2>3, <2>5, <3>1, <3>2 DEF Becomes, Answering
  <2>6. QED
    BY <2>4, <2>5
<1>4. QED
  BY <1>2, <1>3 DEF Answering

-----------------------------------------------------------------------------
(* The logs *)

\* The logs of other calls, and of steps that log nothing, are left alone.
LEMMA LogsWritten ==
    ASSUME TypeOK, NEW c \in Calls, Arrive(c) \/ CallStep(c) \/ Fail(c)
    PROVE  /\ events' = events \/ (LogEvent(c) /\ events' = events \cup {[by |-> c, outcome |-> call[c].outcome]})
           /\ ledger' = ledger \/ (LogRequest(c) /\ ledger' = ledger \cup {LedgerRow(c)})
           /\ answered' = answered \/ ((Answer(c) \/ StreamAnswer(c)) /\ answered' = answered \cup {c})
           /\ events \subseteq events' /\ ledger \subseteq ledger' /\ answered \subseteq answered'
BY Writers DEF LogEvent, LogRequest, Answer, StreamAnswer

\* A step that leaves a call and its entries in the logs alone.
LEMMA RecordedFrame ==
    ASSUME TypeOK, NEW d \in Calls, Recorded(d), call'[d] = call[d],
           \A e \in events' : e.by = d => e \in events,
           \A row \in ledger' : row.by = d => row \in ledger,
           d \in answered' => d \in answered,
           events \subseteq events', ledger \subseteq ledger', answered \subseteq answered'
    PROVE  Recorded(d)'
BY DEF Recorded, LedgerRow, Input

LEMMA RecordedStep ==
    ASSUME ProxyInv, [Next]_vars, NEW d \in Calls
    PROVE  Recorded(d)'
<1>0. TypeOK /\ Progress(d) /\ Progress(d)' /\ Recorded(d) /\ call[d] \in CallType
  BY ProgressStep DEF ProxyInv, TypeOK
<1>1. CASE Quiet
  BY <1>0, <1>1, RecordedFrame DEF Quiet, logs
<1>2. ASSUME NEW c \in Calls, c # d, Arrive(c) \/ CallStep(c) \/ Fail(c), Others(c)
      PROVE  Recorded(d)'
  <2>1. LedgerRow(c).by = c
    BY DEF LedgerRow
  <2>2. QED
    BY <1>0, <1>2, <2>1, LogsWritten, RecordedFrame DEF Others
<1>3. CASE Arrive(d)
  <2>1. UNCHANGED logs /\ At(d, "new") /\ call[d].outcome = "none" /\ Input(d) = None
    BY <1>0, <1>3 DEF Arrive, Progress, Unserved, At, TypeOK
  <2>2. d \notin answered
    BY <1>0, <2>1 DEF TypeOK, Arrived
  <2>3. /\ \A e \in events : e.by # d
        /\ \A row \in ledger : row.by # d
    BY <1>0, <2>1 DEF Recorded, At, ShadowPoints
  <2>4. call'[d].at \in {"over", "stream", "exact"}
    BY <1>0, <1>3, ArriveEffect DEF CallType
  <2>5. QED
    BY <2>1, <2>2, <2>3, <2>4 DEF Recorded, logs, ShadowPoints
<1>4. CASE CallStep(d) \/ Fail(d)
  <2>0. Input(d)' = Input(d) /\ call[d].at # "new"
    BY <1>0, <1>4, CallStepEffect DEF InputKept, Input
  <2>1. call[d].outcome # "none" => LedgerRow(d)' = LedgerRow(d) /\ call'[d].outcome = call[d].outcome
    BY Kept DEF LedgerRow
  <2>2. CASE LogEvent(d) /\ Moves(d, "ledger")
    <3>1. call[d].outcome # "none" /\ call[d].at = "event" /\ UNCHANGED <<ledger, answered>>
      BY <1>0, <2>2 DEF LogEvent, Progress, At
    <3>2. QED
      BY <1>0, <2>0, <2>1, <2>2, <3>1 DEF LogEvent, Recorded, Moves, Becomes, ShadowPoints, Lookup
  <2>3. CASE LogRequest(d) /\ Moves(d, "answer")
    <3>1. call[d].outcome # "none" /\ call[d].at = "ledger" /\ UNCHANGED <<events, answered>>
      BY <1>0, <2>3 DEF LogRequest, Progress, At
    <3>2. LedgerRow(d).by = d
      BY DEF LedgerRow
    <3>3. QED
      BY <1>0, <2>0, <2>1, <2>3, <3>1, <3>2 DEF LogRequest, Recorded, Moves, Becomes, ShadowPoints, Lookup
  <2>4. ASSUME Answer(d), NEW point \in {"shadow", "over"}, Moves(d, point) PROVE Recorded(d)'
    <3>1. call[d].outcome # "none" /\ call[d].at = "answer" /\ UNCHANGED <<events, ledger>>
      BY <1>0, <2>4 DEF Answer, Progress, At
    <3>2. QED
      BY <1>0, <2>0, <2>1, <2>4, <3>1 DEF Answer, Recorded, Moves, Becomes, ShadowPoints, Lookup
  <2>5. CASE StreamAnswer(d) /\ Moves(d, "over")
    <3>1. call[d].at = "stream" /\ Input(d).stream /\ UNCHANGED <<events, ledger>>
      BY <1>0, <2>5 DEF StreamAnswer, Progress, At
    <3>2. /\ \A e \in events : e.by # d
          /\ \A row \in ledger : row.by # d
      BY <1>0, <3>1 DEF Recorded, ShadowPoints
    <3>3. QED
      BY <1>0, <2>0, <2>5, <3>1, <3>2 DEF Recorded, Moves, Becomes, ShadowPoints, Lookup
  <2>6. ASSUME ~LogEvent(d), ~LogRequest(d), ~Answer(d), ~StreamAnswer(d) PROVE Recorded(d)'
    <3>0. UNCHANGED <<events, ledger, answered>>
      BY <1>4, <2>6, Writers
    <3>1. ASSUME call[d].at \in Lookup,
                 call'[d].at \in Lookup \cup {"event", "over"} PROVE Recorded(d)'
      <4>1. /\ \A e \in events : e.by # d
            /\ \A row \in ledger : row.by # d
            /\ d \notin answered
        BY <1>0, <2>0, <3>1 DEF Recorded, ShadowPoints, Lookup, Progress, At
      <4>2. QED
        BY <3>0, <3>1, <4>1 DEF Recorded, ShadowPoints, Lookup
    <3>2. ASSUME call[d].at \in ShadowPoints, call'[d].at \in ShadowPoints \cup {"over"} PROVE Recorded(d)'
      <4>1. call[d].outcome # "none"
        BY <1>0, <3>2 DEF Progress
      <4>2. QED
        BY <1>0, <2>0, <2>1, <3>0, <3>2, <4>1 DEF Recorded, ShadowPoints, Lookup
    <3>3. CASE Fail(d) /\ Moves(d, "over")
      <4>1. d \in answered /\ ~Input(d).stream => call[d].outcome # "none"
        BY <1>0 DEF Recorded
      <4>2. LedgerRow(d)' = LedgerRow(d) /\ call'[d].outcome = call[d].outcome
        BY <3>3 DEF Moves, Becomes, LedgerRow
      <4>3. QED
        BY <1>0, <2>0, <3>0, <3>3, <4>1, <4>2 DEF Recorded, Moves, Becomes, ShadowPoints, Lookup
    <3>4. \/ call[d].at \in Lookup /\ call'[d].at \in Lookup \cup {"event", "over"}
          \/ call[d].at \in ShadowPoints /\ call'[d].at \in ShadowPoints \cup {"over"}
          \/ Fail(d) /\ Moves(d, "over")
      <4>1. CASE Hit(d) \/ Miss(d) \/ Fetched(d) \/ ShadowFound(d)
        BY <4>1 DEF Hit, Miss, Fetched, AttemptSucceeds, ShadowFound, Becomes, At, Lookup, ShadowPoints
      <4>2. CASE MovesOn(d)
        BY <2>6, <4>2
           DEF MovesOn, Moves, Becomes, ExactGet, AttemptFails, AttemptRejected, ExactSet, Index, AddEntry,
               ShadowFind, ShadowLog, ShadowSave, ShadowPurge, At, Lookup, ShadowPoints
      <4>3. QED
        BY <1>0, <1>4, <4>1, <4>2, CallStepEffect
    <3>5. QED
      BY <3>1, <3>2, <3>3, <3>4
  <2>7. QED
    <3>1. {"ledger", "answer", "shadow", "over"} \subseteq Points
      BY DEF Points, Lookup
    <3>2. /\ LogEvent(d) => Moves(d, "ledger")
          /\ LogRequest(d) => Moves(d, "answer")
          /\ Answer(d) => Moves(d, "shadow") \/ Moves(d, "over")
          /\ StreamAnswer(d) => Moves(d, "over")
      BY <1>0, <3>1, GotoMoves DEF LogEvent, LogRequest, Answer, StreamAnswer
    <3>3. QED
      BY <3>2, <2>2, <2>3, <2>4, <2>5, <2>6
<1>5. QED
  BY <1>0, <1>1, <1>2, <1>3, <1>4, OneCallSteps

-----------------------------------------------------------------------------
(* The shadow analysis *)

\* A row once justified stays so.
LEMMA JustifiedKept ==
    ASSUME ProxyInv, [Next]_vars, NEW c \in Calls, NEW r, Justified(c, r),
           call[c].outcome = "miss"
    PROVE  Justified(c, r)'
<1>1. r \in Calls /\ call[r].outcome = "miss"
  BY DEF ProxyInv, ShadowSound, Justified, CachesFetched, TypeOK, Arrived
<1>2. Input(c)' = Input(c) /\ Input(r)' = Input(r) /\ call'[c].before = call[c].before
  BY <1>1, Kept
<1>3. QED
  BY <1>2 DEF Justified, Comparable, Likeness, Text

LEMMA ShadowStep == ProxyInv /\ [Next]_vars => ShadowSound'
<1> SUFFICES ASSUME ProxyInv, [Next]_vars PROVE ShadowSound'
  OBVIOUS
<1>0. TypeOK /\ ShadowSound /\ CachesFetched
  BY DEF ProxyInv
<1>a. ASSUME NEW c \in Calls
      PROVE  /\ Progress(c) /\ Progress(c)' /\ Recorded(c) /\ call[c] \in CallType
             /\ call[c].outcome = "miss" => call'[c].outcome = "miss"
  BY <1>a, ProgressStep, Kept DEF ProxyInv, TypeOK
<1>b. stamped \subseteq stamped'
  <2>1. CASE Quiet
    BY <2>1 DEF Quiet
  <2>2. CASE \E c \in Calls : TRUE
    BY <2>2, StampStep
  <2>3. QED
    BY <1>0, <2>1, <2>2, OneCallSteps
<1>c. answered \subseteq answered'
  BY <1>0, OneCallSteps, LogsWritten DEF Quiet, logs
<1>1. ASSUME NEW c \in Calls
      PROVE  /\ call'[c].before \subseteq stamped' \ {c}
             /\ call'[c].at \in ShadowPoints \ {"shadow"} => Justified(c, call[c].best)'
  <2>0. call[c].before \subseteq stamped \ {c}
    BY <1>0 DEF ShadowSound
  <2>1. CASE call[c].outcome = "none"
    <3>1. call'[c].before \subseteq stamped \ {c}
      <4>1. c \notin stamped
        BY <1>0, <2>1 DEF CachesFetched
      <4>2. CASE call'[c].before = call[c].before
        BY <2>0, <4>2
      <4>3. CASE Miss(c)
        BY <4>1, <4>3, <1>0 DEF Miss, Becomes, TypeOK
      <4>4. CASE CallStep(c) \/ Fail(c)
        BY <1>0, <4>2, <4>3, <4>4, CallStepEffect DEF Hit, Fetched, ShadowFound, MovesOn, Moves, Becomes
      <4>5. CASE Arrive(c)
        BY <1>0, <1>a, <4>2, <4>5, ArriveEffect DEF CallType
      <4>6. QED
        BY <1>0, <4>2, <4>4, <4>5, OneCallSteps DEF Quiet, Others
    <3>3. call'[c].at \notin ShadowPoints
      <4>1. CASE CallStep(c) \/ Fail(c)
        <5>1. call[c].at \in Unserved \cup {"over"}
          BY <1>a, <2>1, <1>0 DEF Progress, ShadowPoints, Unserved, CallType, Points, Lookup
        <5>2. CASE Hit(c) \/ Miss(c) \/ Fetched(c) \/ ShadowFound(c)
          BY <5>1, <5>2 DEF Hit, Miss, Fetched, ShadowFound, Becomes, ShadowPoints, Unserved, At
        <5>3. CASE MovesOn(c)
          BY <5>1, <5>3 DEF MovesOn, Moves, Becomes, ShadowPoints, Unserved, At, Answer, ShadowLog, ShadowSave,
             AttemptFails, ExactSet
        <5>4. QED
          BY <1>0, <4>1, <5>2, <5>3, CallStepEffect
      <4>2. CASE Arrive(c)
        BY <1>0, <1>a, <4>2, ArriveEffect DEF CallType, ShadowPoints
      <4>3. CASE call'[c] = call[c]
        BY <1>a, <2>1, <4>3 DEF Progress
      <4>4. QED
        BY <1>0, <4>1, <4>2, <4>3, OneCallSteps DEF Quiet, Others
    <3>4. QED
      BY <3>1, <3>3, <1>b
  <2>2. CASE call[c].outcome # "none"
    <3>1. call'[c].before \subseteq stamped' \ {c}
      BY <2>0, <2>2, <1>b, Kept
    <3>2. ASSUME call'[c].at \in ShadowPoints \ {"shadow"} PROVE Justified(c, call[c].best)'
      <4>0. call[c].outcome = "miss"
        BY <1>a, <2>2, <3>2, Kept DEF Progress
      <4>1. CASE call'[c] = call[c]
        <5>1. Justified(c, call[c].best)
          BY <1>0, <3>2, <4>1 DEF ShadowSound
        <5>2. \A r : r = call[c].best => Justified(c, r)'
          BY <4>0, <5>1, JustifiedKept
        <5>3. QED
          BY <4>1, <5>2 DEF Justified, Comparable, Likeness, Text, Input
      <4>2. CASE ShadowFound(c)
        <5>1. PICK r \in Matches(c, index \cap call[c].before, ShadowThreshold) :
                /\ Likeness(c, r) < LiveThreshold
                /\ call'[c].best = r
          BY <4>2 DEF ShadowFound, Becomes
        <5>2. Justified(c, r)
          <6>1. Likeness(c, r) >= ShadowThreshold
            BY <5>1 DEF Matches
          <6>2. Likeness(c, r) \in Nat /\ ShadowThreshold \in Nat
            <7>1. r \in Calls /\ call[r].outcome = "miss"
              BY SMTT(60), <1>0, <5>1 DEF Matches, TypeOK, Arrived, CachesFetched
            <7>2. Input(r) # None /\ Input(c) # None
              BY <1>a, <7>1, <4>0 DEF Progress
            <7>3. QED
              BY <1>0, <7>1, <7>2, InputTyped, ProxyAssumption DEF Likeness
          <6>3. QED
            BY <2>0, <5>1, <6>1, <6>2 DEF Matches, Justified
        <5>3. Justified(c, r)'
          BY <4>0, <5>2, JustifiedKept
        <5>4. QED
          BY <5>1, <5>3 DEF Justified, Comparable, Likeness, Text, Input
      <4>3. CASE call'[c].best = call[c].best /\ call[c].at \in ShadowPoints \ {"shadow"}
        <5>1. Justified(c, call[c].best)
          BY <1>0, <4>3 DEF ShadowSound
        <5>2. \A r : r = call[c].best => Justified(c, r)'
          BY <4>0, <5>1, JustifiedKept
        <5>3. QED
          BY <4>3, <5>2 DEF Justified, Comparable, Likeness, Text, Input
      <4>4. CASE CallStep(c) \/ Fail(c)
        <5>1. ShadowFound(c) \/ MovesOn(c)
          BY <1>0, <3>2, <4>4, CallStepEffect DEF Hit, Miss, Fetched, Becomes, ShadowPoints
        <5>2. CASE MovesOn(c)
          BY <3>2, <4>3, <5>2 DEF MovesOn, Moves, Becomes, ShadowPoints, At, ShadowLog, ShadowSave
        <5>3. QED
          BY <4>2, <5>1, <5>2
      <4>5. CASE Arrive(c)
        BY <1>a, <2>2, <4>5 DEF Arrive, Progress, At, Unserved
      <4>6. QED
        BY <1>0, <4>1, <4>4, <4>5, OneCallSteps DEF Quiet, Others
    <3>3. QED
      BY <3>1, <3>2
  <2>3. QED
    BY <2>1, <2>2
<1>2. ASSUME NEW row \in shadow' \cup savings'
      PROVE  /\ Justified(row.by, row.match)'
             /\ row.by \in answered'
             /\ call'[row.by].outcome = "miss"
  <2>1. CASE row \in shadow \cup savings
    <3>1. row.by \in Calls /\ Justified(row.by, row.match) /\ row.by \in answered /\ call[row.by].outcome = "miss"
      BY <1>0, <2>1 DEF ShadowSound, TypeOK
    <3>2. \A c \in Calls : \A r : Justified(c, r) /\ call[c].outcome = "miss" => Justified(c, r)'
      BY JustifiedKept
    <3>3. QED
      BY <3>1, <3>2, <1>a, <1>c
  <2>2. CASE row \notin shadow \cup savings
    <3>1. PICK c \in Calls : /\ (ShadowLog(c) \/ ShadowSave(c) \/ ShadowPurge(c))
                             /\ row = ShadowRow(c)
                             /\ call[c].at \in ShadowPoints \ {"shadow"}
      <4>1. PICK c \in Calls : Arrive(c) \/ CallStep(c) \/ Fail(c)
        BY <1>0, <2>2, OneCallSteps DEF Quiet, analytics
      <4>2. QED
        BY <4>1, <2>2, Writers DEF ShadowLog, ShadowSave, ShadowPurge, At, ShadowPoints
    <3>2. row.by = c /\ row.match = call[c].best
      BY <3>1 DEF ShadowRow
    <3>3. Justified(c, call[c].best) /\ call[c].outcome = "miss" /\ c \in answered
      BY <1>0, <1>a, <3>1 DEF ShadowSound, Recorded, Progress
    <3>4. \A r : r = row.match => Justified(c, r)'
      BY <3>2, <3>3, JustifiedKept
    <3>5. QED
      BY <3>2, <3>3, <3>4, <1>a, <1>c
  <2>3. QED
    BY <2>1, <2>2
<1>3. QED
  BY <1>1, <1>2 DEF ShadowSound

-----------------------------------------------------------------------------
(* The invariant holds of every run *)

LEMMA InitProxyInv == Init => ProxyInv
<1> SUFFICES ASSUME Init PROVE ProxyInv
  OBVIOUS
<1>1. "new" \in Points /\ "none" \in Outcomes
  BY DEF Points, Outcomes
<1>2. \A c \in Calls : call[c] = New
  BY DEF Init
<1>3. TypeOK
  <2>1. call \in [Calls -> CallType]
    BY <1>1 DEF Init, New, CallType
  <2>2. purge \in [Purges -> PurgeType]
    BY DEF Init, NotStarted, PurgeType
  <2>3. \A c \in Calls : Input(c) = None /\ At(c, "new")
    BY <1>2 DEF New, Input, At
  <2>4. \A i \in Purges : purge[i].target = None /\ purge[i].at = "new"
    BY DEF Init, NotStarted
  <2>5. QED
    BY <2>1, <2>2, <2>3, <2>4 DEF Init, TypeOK
<1>4. ASSUME NEW c \in Calls
      PROVE  Progress(c) /\ Attempts(c) /\ Recorded(c) /\ SentFor(c) /\ Answering(c)
  <2>1. /\ call[c] = New /\ sent[c] = 0 /\ events = {} /\ ledger = {} /\ answered = {}
        /\ c # None /\ MaxRetries \in Nat
    BY <1>2, ProxyAssumption DEF Init
  <2>2. Progress(c)
    BY <2>1 DEF New, Progress, At, Input, ShadowPoints
  <2>3. Recorded(c)
    BY <2>1 DEF New, Recorded, ShadowPoints
  <2>4. QED
    BY <2>1, <2>2, <2>3 DEF New, Attempts, SentFor, Answering, At
<1>5. CachesFetched
  BY <1>2 DEF Init, CachesFetched, At, New
<1>6. ShadowSound
  BY <1>2 DEF Init, ShadowSound, New, ShadowPoints
<1>7. QED
  BY <1>3, <1>4, <1>5, <1>6 DEF ProxyInv, HitAnswersTheRequest, Answering, UpstreamOnlyIfNeeded, SentFor

LEMMA ProxyInvStep == ProxyInv /\ [Next]_vars => ProxyInv'
<1> SUFFICES ASSUME ProxyInv, [Next]_vars PROVE ProxyInv'
  OBVIOUS
<1>1. TypeOK' /\ CachesFetched' /\ ShadowSound'
  BY TypeStep, CachesStep, ShadowStep
<1>2. ASSUME NEW c \in Calls
      PROVE  Progress(c)' /\ Attempts(c)' /\ Recorded(c)' /\ SentFor(c)' /\ Answering(c)'
  BY ProgressStep, AttemptsStep, RecordedStep, HitsStep
<1>3. HitAnswersTheRequest' /\ UpstreamOnlyIfNeeded'
  BY <1>2 DEF HitAnswersTheRequest, Answering, UpstreamOnlyIfNeeded, SentFor
<1>4. QED
  BY <1>1, <1>2, <1>3 DEF ProxyInv

\* The inductive invariant of the proxy.
THEOREM ProxyInvariant == Spec => []ProxyInv
<1>1. QED
  BY InitProxyInv, ProxyInvStep, PTL DEF Spec

\* Every table keeps to its columns, and only what arrived leaves a trace.
THEOREM ChatTypeCorrect == Spec => []TypeOK
<1>1. ProxyInv => TypeOK
  BY DEF ProxyInv
<1>2. QED
  BY <1>1, ProxyInvariant, PTL

\* A response taken from a cache answers the request it is given to.
THEOREM HitsSound == Spec => []HitAnswersTheRequest
<1>1. ProxyInv => HitAnswersTheRequest
  BY DEF ProxyInv
<1>2. QED
  BY <1>1, ProxyInvariant, PTL

\* The provider is asked only for what no cache answered, and not too often.
THEOREM UpstreamBounded == Spec => []UpstreamOnlyIfNeeded
<1>1. ProxyInv => UpstreamOnlyIfNeeded
  BY DEF ProxyInv
<1>2. QED
  BY <1>1, ProxyInvariant, PTL

\* No call is answered whose event and ledger row are not there, once.
THEOREM AnsweredLogged == Spec => []AnsweredIsLogged
<1>1. ASSUME ProxyInv, NEW c \in answered, ~Input(c).stream
      PROVE  /\ {e \in events : e.by = c} = {[by |-> c, outcome |-> call[c].outcome]}
             /\ {row \in ledger : row.by = c} =
                 {IF call[c].outcome = "miss"
                  THEN [by |-> c, cost |-> c, saved |-> None]
                  ELSE [by |-> c, cost |-> None, saved |-> call[c].from]}
  <2>1. c \in Calls /\ TypeOK /\ Recorded(c) /\ Progress(c)
    BY <1>1 DEF ProxyInv, TypeOK, Arrived
  <2>2. \A e \in events : e.by = c => e = [by |-> c, outcome |-> call[c].outcome]
    BY <2>1 DEF TypeOK, Recorded
  <2>3. [by |-> c, outcome |-> call[c].outcome] \in events
    BY <1>1, <2>1 DEF Recorded
  <2>4. \A row \in ledger : row.by = c => row = LedgerRow(c)
    BY <2>1 DEF Recorded
  <2>5. LedgerRow(c) \in ledger /\ LedgerRow(c).by = c
    BY <1>1, <2>1 DEF Recorded, LedgerRow
  <2>6. LedgerRow(c) = IF call[c].outcome = "miss"
                       THEN [by |-> c, cost |-> c, saved |-> None]
                       ELSE [by |-> c, cost |-> None, saved |-> call[c].from]
    BY <2>1 DEF LedgerRow, Progress
  <2>7. {row \in ledger : row.by = c} = {LedgerRow(c)}
    BY <2>4, <2>5
  <2>8. QED
    BY <2>2, <2>3, <2>6, <2>7
<1>2. ProxyInv => AnsweredIsLogged
  BY <1>1 DEF AnsweredIsLogged
<1>3. QED
  BY <1>2, ProxyInvariant, PTL

\* What the shadow analysis reports could have been offered, and was not.
THEOREM ShadowJustified == Spec => []ShadowRowsJustified
<1>1. ASSUME ProxyInv, NEW row \in shadow \cup savings
      PROVE  /\ Justified(row.by, row.match)
             /\ row.by \in answered
             /\ [by |-> row.by, cost |-> row.by, saved |-> None] \in ledger
  <2>1. /\ row.by \in Calls /\ Progress(row.by) /\ Recorded(row.by)
        /\ Justified(row.by, row.match) /\ row.by \in answered /\ call[row.by].outcome = "miss"
    BY <1>1 DEF ProxyInv, TypeOK, ShadowSound
  <2>2. LedgerRow(row.by) \in ledger
    BY <2>1 DEF Recorded, Progress
  <2>3. QED
    BY <2>1, <2>2 DEF LedgerRow, Progress
<1>2. ProxyInv => ShadowRowsJustified
  BY <1>1 DEF ShadowRowsJustified, Justified
<1>3. QED
  BY <1>2, ProxyInvariant, PTL

-----------------------------------------------------------------------------
(* Invalidation *)

\* A call that has left the caches does not come back to them.
LEMMA SettledStays ==
    ASSUME TypeOK, [Next]_vars, NEW c \in Calls, call[c].at \notin Lookup \cup {"new"}
    PROVE  call'[c].at \notin Lookup \cup {"new"}
<1>1. CASE call'[c] = call[c]
  BY <1>1
<1>2. CASE CallStep(c) \/ Fail(c)
  <2>1. CASE Hit(c) \/ Miss(c) \/ Fetched(c) \/ ShadowFound(c)
    BY <2>1 DEF Hit, Miss, Fetched, AttemptSucceeds, ShadowFound, Becomes, At, Lookup
  <2>2. CASE MovesOn(c)
    BY <2>2 DEF MovesOn, Moves, Becomes, ExactGet, AttemptFails, ExactSet, At, Lookup
  <2>3. QED
    BY <1>2, <2>1, <2>2, CallStepEffect
<1>3. ~Arrive(c)
  BY DEF Arrive, At
<1>4. QED
  BY <1>1, <1>2, <1>3, OneCallSteps DEF Quiet, Others

\* What a step does to the caches, as an invalidation sees it: a new entry is
\* one of a call that has not settled.
LEMMA EntriesWritten ==
    ASSUME ProxyInv, [Next]_vars
    PROVE  /\ \A k \in Keys : \/ exact'[k] \in {exact[k], None}
                              \/ exact'[k] \in Calls /\ call[exact'[k]].at \in Lookup
           /\ \A r \in index' : r \in index \/ call[r].at \in Lookup
<1>0. TypeOK
  BY DEF ProxyInv
<1>1. \A c \in Calls : ExactSet(c) \/ Index(c) => call[c].at \in Lookup
  BY DEF ExactSet, Index, AddEntry, At, Lookup
<1>2. ASSUME NEW k \in Keys, exact'[k] \notin {exact[k], None}
      PROVE  exact'[k] \in Calls /\ call[exact'[k]].at \in Lookup
  BY <1>0, <1>1, <1>2, ExactWritten
<1>3. ASSUME NEW r \in index', r \notin index PROVE call[r].at \in Lookup
  <2>1. PICK c \in Calls : Arrive(c) \/ CallStep(c) \/ Fail(c)
    BY <1>0, <1>3, OneCallSteps DEF Quiet
  <2>2. QED
    BY <1>1, <1>3, <2>1, Writers DEF Index, AddEntry
<1>4. QED
  BY <1>2, <1>3

\* The part of PurgeSound that a step keeps if it leaves the invalidation
\* alone, or only takes a deleted key off its list.
LEMMA PurgeFrame ==
    ASSUME ProxyInv, [Next]_vars, NEW i \in Purges, PurgeSound(i),
           purge'[i].at = purge[i].at, purge'[i].target = purge[i].target,
           purge'[i].settled = purge[i].settled,
           \A k \in purge[i].left : k \in purge'[i].left \/ exact'[k] = None
    PROVE  PurgeSound(i)'
<1>0. TypeOK /\ purge[i].settled \subseteq Calls
  BY DEF ProxyInv, TypeOK, PurgeType
<1>1. \A c \in purge[i].settled : call[c].at \notin Lookup \cup {"new"} /\ call'[c].at \notin Lookup \cup {"new"}
  BY <1>0, SettledStays DEF PurgeSound
<1>2. \A k \in Keys : exact'[k] \in purge[i].settled => exact'[k] = exact[k]
  BY <1>0, <1>1, EntriesWritten, ProxyAssumption
<1>3. \A c \in index' : c \in purge[i].settled => c \in index
  BY <1>1, EntriesWritten
<1>4. \A c \in purge[i].settled : Input(c)' = Input(c)
  <2>1. \A c \in purge[i].settled : Input(c) # None
    BY <1>0, <1>1 DEF TypeOK, At
  <2>2. QED
    BY <1>0, <2>1, Kept
<1>5. purge'[i].at = "scan" =>
        \A k \in Keys : k.space = purge'[i].target /\ exact'[k] \in purge'[i].settled => k \in purge'[i].left
  BY <1>0, <1>2, ProxyAssumption DEF PurgeSound
<1>6. purge'[i].at = "done" =>
        \A k \in Keys : k.space = purge'[i].target => exact'[k] \notin purge'[i].settled
  BY <1>2 DEF PurgeSound
<1>7. purge'[i].at = "done" =>
        \A c \in index' : Input(c)'.space = purge'[i].target => c \notin purge'[i].settled
  BY <1>3, <1>4 DEF PurgeSound
<1>8. QED
  BY <1>1, <1>5, <1>6, <1>7 DEF PurgeSound

LEMMA PurgeStepSound ==
    ASSUME SameStore = TRUE, ProxyInv, [Next]_vars, NEW i \in Purges, PurgeSound(i)
    PROVE  PurgeSound(i)'
<1>0. TypeOK /\ purge \in [Purges -> PurgeType] /\ exact \in [Keys -> Calls \cup {None}]
  BY DEF ProxyInv, TypeOK
<1>1. CASE purge'[i] = purge[i]
  BY <1>1, PurgeFrame
<1>2. ASSUME NEW k \in Keys, Drop(k) PROVE PurgeSound(i)'
  <2>1. purge'[i] = [purge[i] EXCEPT !.left = @ \ {k}] /\ exact'[k] = None
    BY <1>0, <1>2 DEF Drop
  <2>2. /\ purge'[i].at = purge[i].at /\ purge'[i].target = purge[i].target
        /\ purge'[i].settled = purge[i].settled /\ purge'[i].left = purge[i].left \ {k}
    BY <1>0, <2>1 DEF PurgeType
  <2>3. QED
    BY <2>1, <2>2, PurgeFrame
<1>3. ASSUME NEW s \in Spaces, PurgeStart(i, s) PROVE PurgeSound(i)'
  <2>1. /\ purge'[i] = [at |-> "scan", target |-> s, left |-> EntriesOf(s), settled |-> Settled]
        /\ exact' = exact /\ call' = call
    BY <1>0, <1>3 DEF PurgeStart, caches
  <2>2. \A k \in Keys : k.space = s /\ exact[k] \in Settled => k \in EntriesOf(s)
    BY ProxyAssumption DEF EntriesOf, Settled
  <2>3. QED
    BY <2>1, <2>2 DEF PurgeSound, Settled
<1>4. CASE PurgeIndex(i)
  <2>1. purge'[i] = [purge[i] EXCEPT !.at = "done"]
    BY <1>0, <1>4 DEF PurgeIndex, PurgeRecords
  <2>2. /\ purge'[i].at = "done" /\ purge'[i].target = purge[i].target
        /\ purge'[i].settled = purge[i].settled
    BY <1>0, <2>1 DEF PurgeType
  <2>3. /\ call' = call /\ exact' = exact /\ purge[i].at = "scan" /\ purge[i].left = {}
        /\ \A r \in index' : Input(r).space # purge[i].target
    BY <1>4 DEF PurgeIndex, PurgeRecords
  <2>4. QED
    BY <2>2, <2>3 DEF PurgeSound, Input
<1>5. CASE PurgeFail(i)
  <2>1. purge'[i] = [purge[i] EXCEPT !.at = "failed"] /\ call' = call
    BY <1>0, <1>5 DEF PurgeFail
  <2>2. purge'[i].at = "failed" /\ purge'[i].settled = purge[i].settled
    BY <1>0, <2>1 DEF PurgeType
  <2>3. QED
    BY <2>1, <2>2 DEF PurgeSound
<1>6. ASSUME NEW j \in Purges, j # i,
             (\E s \in Spaces : PurgeStart(j, s)) \/ PurgeIndex(j) \/ PurgeFail(j)
      PROVE  purge'[i] = purge[i]
  BY <1>0, <1>6 DEF PurgeStart, PurgeIndex, PurgeRecords, PurgeFail
<1>7. ASSUME NEW c \in Calls, Arrive(c) \/ CallStep(c) \/ Fail(c) PROVE purge' = purge
  BY <1>7, Writers
<1>8. \A j \in Purges : \A k \in Keys : PurgeDelete(j, k) => Drop(k)
  BY DEF PurgeDelete
<1>9. \A k \in Keys : ExactExpires(k) => Drop(k)
  BY DEF ExactExpires
<1>10. \A r \in Calls : SemanticExpires(r) => purge' = purge
  BY DEF SemanticExpires
<1>11. UNCHANGED vars => purge' = purge
  BY DEF vars
<1>12. QED
  BY <1>1, <1>2, <1>3, <1>4, <1>5, <1>6, <1>7, <1>8, <1>9, <1>10, <1>11 DEF Next, PurgeStep

\* When an invalidation has returned, what settled calls left in its namespace
\* is gone for good, if it purges the semantic store that requests use.
THEOREM PurgesSound ==
    ASSUME SameStore = TRUE
    PROVE  Spec => []PurgedStaysPurged
<1> DEFINE AllSound == \A i \in Purges : PurgeSound(i)
<1>1. Init => AllSound
  BY DEF Init, NotStarted, PurgeSound
<1>2. ProxyInv /\ AllSound /\ [Next]_vars => AllSound'
  BY PurgeStepSound
<1>3. ProxyInv /\ AllSound => PurgedStaysPurged
  <2> SUFFICES ASSUME ProxyInv, NEW i \in Purges, PurgeSound(i), purge[i].at = "done",
                      NEW c \in purge[i].settled, Input(c).space = purge[i].target,
                      Holds(c)
               PROVE  FALSE
    BY DEF PurgedStaysPurged
  <2>1. PICK k \in Keys : exact[k] = c
    BY DEF PurgeSound, Holds
  <2>2. c \in Calls /\ Key(c) = k
    BY <2>1, ProxyAssumption DEF ProxyInv, TypeOK, PurgeType, CachesFetched
  <2>3. k.space = purge[i].target
    BY <2>2 DEF Key
  <2>4. QED
    BY <2>1, <2>3 DEF PurgeSound
<1> HIDE DEF AllSound
<1>4. QED
  BY <1>1, <1>2, <1>3, ProxyInvariant, PTL DEF Spec

-----------------------------------------------------------------------------
(* The proxy keeps the book *)

Asked == [c \in Calls |-> IF c \in BookCalls THEN Question(c) ELSE None]
Paid == {c \in Calls : call[c].outcome = "miss"}
Given == answered \cap BookCalls

\* The questions of the book are those of the calls, and never None.
LEMMA QuestionTyped ==
    ASSUME TypeOK, NEW c \in Calls, Input(c) # None
    PROVE  Question(c) \in [space : Spaces, text : Prompts] /\ Question(c) # None
BY InputTyped, ProxyAssumption DEF Question

\* Only an arrival asks, and only a successful attempt is paid for.
LEMMA AskedKept ==
    ASSUME TypeOK, NEW d \in Calls, CallStep(d) \/ Fail(d)
    PROVE  Asked' = Asked /\ BookCalls' = BookCalls
<1>1. \A c \in Calls : Input(c)' = Input(c)
  BY CallStepEffect DEF InputKept, Others, Input
<1>2. BookCalls' = BookCalls
  BY <1>1 DEF BookCalls, Arrived
<1>3. \A c \in Calls : Question(c)' = Question(c)
  BY <1>1 DEF Question, Text
<1>4. QED
  BY <1>2, <1>3 DEF Asked

LEMMA PaidKept ==
    ASSUME ProxyInv, [Next]_vars, NEW d \in Calls, Arrive(d) \/ CallStep(d) \/ Fail(d),
           ~AttemptSucceeds(d)
    PROVE  Paid' = Paid
<1>0. TypeOK /\ call[d] \in CallType
  BY DEF ProxyInv, TypeOK
<1>1. Others(d)
  BY <1>0, ArriveEffect, CallStepEffect DEF InputKept
<1>2. call'[d].outcome = "miss" <=> call[d].outcome = "miss"
  <2>1. CASE CallStep(d) \/ Fail(d)
    BY <1>0, <2>1, CallStepEffect, Kept DEF Hit, Miss, Fetched, ShadowFound, MovesOn, Moves, Becomes
  <2>2. CASE Arrive(d)
    BY <1>0, <2>2, ArriveEffect DEF CallType
  <2>3. QED
    BY <2>1, <2>2
<1>3. QED
  BY <1>1, <1>2 DEF Others, Paid

\* A call about to be fetched or logged has no row yet.
LEMMA NotLogged ==
    ASSUME ProxyInv, NEW c \in Calls, At(c, "send") \/ At(c, "ledger")
    PROVE  /\ \A row \in ledger : row.by # c
           /\ c \in BookCalls /\ Asked[c] = Question(c) /\ Question(c) # None
<1>1. TypeOK /\ Progress(c) /\ Recorded(c)
  BY DEF ProxyInv
<1>2. c \in BookCalls
  BY <1>1 DEF BookCalls, Arrived, Progress, TypeOK, At
<1>3. Question(c) # None
  BY <1>1, <1>2, QuestionTyped DEF BookCalls, Arrived
<1>4. QED
  BY <1>1, <1>2, <1>3 DEF Recorded, ShadowPoints, At, Asked

LEMMA BookStep == ProxyInv /\ [Next]_vars => [Book!BookNext]_(Book!book)
<1> SUFFICES ASSUME ProxyInv, [Next]_vars PROVE Book!BookNext \/ UNCHANGED Book!book
  OBVIOUS
<1>0. TypeOK
  BY DEF ProxyInv
<1>a. UNCHANGED <<Asked, Paid, ledger, Given>> => UNCHANGED Book!book
  BY DEF Book!book, Asked, Paid, Given
<1>1. ASSUME NEW c \in Calls, Arrive(c), c \in BookCalls' PROVE Book!BookNext
  <2>1. Input(c) = None /\ Others(c) /\ UNCHANGED <<ledger, answered>>
    BY <1>0, <1>1, ArriveEffect DEF Arrive, At, TypeOK, logs
  <2>2. Asked[c] = None /\ c \notin answered /\ TypeOK'
    BY <1>0, <2>1, TypeStep DEF Asked, BookCalls, Arrived, TypeOK
  <2>3. PICK q \in [space : Spaces, text : Prompts] : q = Question(c)'
    <3>1. Input(c)' \in Inputs
      BY <1>1, <2>2 DEF BookCalls, Arrived, TypeOK, CallType, Input
    <3>2. Input(c)' \in [space : Spaces, scope : Scopes, prompt : Prompts,
                         reuse : BOOLEAN, stream : BOOLEAN]
      BY <3>1, ProxyAssumption
    <3>3. QED
      BY <3>2, ProxyAssumption DEF Question, Text
  <2>4. \A d \in Calls : d # c => Input(d)' = Input(d) /\ Question(d)' = Question(d)
    BY <2>1 DEF Others, Input, Question, Text
  <2>5. BookCalls' = BookCalls \cup {c} /\ c \notin BookCalls
    BY <1>1, <2>1, <2>4 DEF BookCalls, Arrived
  <2>6. Asked' = [Asked EXCEPT ![c] = q]
    BY <2>3, <2>4, <2>5 DEF Asked
  <2>7. Paid' = Paid
    <3>1. ~AttemptSucceeds(c)
      BY <1>1 DEF Arrive, AttemptSucceeds, At
    <3>2. QED
      BY <1>1, <3>1, PaidKept
  <2>8. Given' = Given
    BY <2>1, <2>2, <2>5 DEF Given
  <2>9. Book!Ask(c, q)
    BY <2>1, <2>2, <2>6, <2>7, <2>8 DEF Book!Ask, Asked, Paid, Given
  <2>10. QED
    BY <1>1, <2>9 DEF Book!BookNext
<1>2. ASSUME NEW c \in Calls, Arrive(c), c \notin BookCalls' PROVE UNCHANGED Book!book
  <2>1. Input(c) = None /\ Others(c) /\ UNCHANGED <<ledger, answered>>
    BY <1>0, <1>2, ArriveEffect DEF Arrive, At, TypeOK, logs
  <2>2. \A d \in Calls : d # c => Input(d)' = Input(d) /\ Question(d)' = Question(d)
    BY <2>1 DEF Others, Input, Question, Text
  <2>3. BookCalls' = BookCalls /\ c \notin BookCalls
    BY <1>2, <2>1, <2>2 DEF BookCalls, Arrived
  <2>4. Asked' = Asked /\ Given' = Given
    BY <2>1, <2>2, <2>3 DEF Asked, Given
  <2>5. Paid' = Paid
    <3>1. ~AttemptSucceeds(c)
      BY <1>2 DEF Arrive, AttemptSucceeds, At
    <3>2. QED
      BY <1>2, <3>1, PaidKept
  <2>6. QED
    BY <1>a, <2>1, <2>4, <2>5
<1>3. ASSUME NEW c \in Calls, AttemptSucceeds(c) PROVE Book!BookNext
  <2>1. UNCHANGED <<ledger, answered>> /\ At(c, "send")
    BY <1>3 DEF AttemptSucceeds, logs
  <2>2. Asked' = Asked /\ Given' = Given
    BY <1>0, <1>3, <2>1, AskedKept DEF CallStep, Attempt, Given
  <2>3. /\ Paid' = Paid \cup {c} /\ c \notin Paid
    <3>1. Others(c) /\ call'[c].outcome = "miss"
      BY <1>0, <1>3, SuccessEffect DEF TypeOK, CallType
    <3>2. call[c].outcome = "none"
      BY <2>1 DEF ProxyInv, Progress, Unserved, At
    <3>3. QED
      BY <3>1, <3>2 DEF Others, Paid
  <2>4. Book!Fetch(c)
    BY <2>1, <2>2, <2>3, NotLogged DEF Book!Fetch, Book!Logged, Asked, Paid, Given
  <2>5. QED
    BY <2>4 DEF Book!BookNext
<1>4. ASSUME NEW c \in Calls, LogRequest(c) PROVE Book!BookNext
  <2>1. UNCHANGED answered /\ At(c, "ledger") /\ ledger' = ledger \cup {LedgerRow(c)}
    BY <1>4 DEF LogRequest
  <2>2. Asked' = Asked /\ Given' = Given /\ Paid' = Paid
    <3>1. CallStep(c) /\ ~AttemptSucceeds(c)
      BY <1>4, <2>1 DEF CallStep, AttemptSucceeds, At
    <3>2. QED
      BY <1>0, <2>1, <3>1, AskedKept, PaidKept DEF Given
  <2>3. Progress(c) /\ Answering(c) /\ call[c].outcome \in {"miss", "exact_hit", "semantic_hit"}
    BY <1>0, <2>1 DEF ProxyInv, HitAnswersTheRequest, Answering, Progress, At, TypeOK, CallType, Outcomes
  <2>4. CASE call[c].outcome = "miss"
    <3>1. LedgerRow(c) = [by |-> c, cost |-> c, saved |-> None] /\ c \in Paid
      BY <2>3, <2>4 DEF LedgerRow, Progress, Paid
    <3>2. Book!EnterCost(c)
      BY <2>1, <2>2, <3>1, NotLogged DEF Book!EnterCost, Book!Logged, Asked, Paid, Given
    <3>3. QED
      BY <3>2 DEF Book!BookNext
  <2>5. CASE call[c].outcome # "miss"
    <3> DEFINE f == call[c].from
    <3>1. /\ f \in Calls /\ call[f].outcome = "miss" /\ Question(c) = Question(f)
          /\ Input(f) # None /\ ~Input(f).stream
      BY <2>3, <2>5 DEF ProxyInv, Progress, Answering
    <3>2. LedgerRow(c) = [by |-> c, cost |-> None, saved |-> f] /\ c \notin Paid /\ f \in Paid
      BY <2>5, <3>1 DEF LedgerRow, Paid
    <3>3. Asked[f] = Asked[c]
      BY <2>1, <3>1, NotLogged DEF Asked, BookCalls, Arrived
    <3>4. Book!EnterSaving(c, f)
      BY <2>1, <2>2, <3>2, <3>3, NotLogged DEF Book!EnterSaving, Book!Logged, Asked, Paid, Given
    <3>5. QED
      BY <3>1, <3>4 DEF Book!BookNext
  <2>6. QED
    BY <2>4, <2>5
<1>5. ASSUME NEW c \in Calls, Answer(c) PROVE Book!BookNext
  <2>1. UNCHANGED ledger /\ At(c, "answer") /\ answered' = answered \cup {c}
    BY <1>5 DEF Answer
  <2>2. Asked' = Asked /\ BookCalls' = BookCalls /\ Paid' = Paid
    <3>1. CallStep(c) /\ ~AttemptSucceeds(c)
      BY <1>5, <2>1 DEF CallStep, AttemptSucceeds, At
    <3>2. QED
      BY <1>0, <3>1, AskedKept, PaidKept
  <2>3. c \in BookCalls /\ \E row \in ledger : row.by = c
    <3>1. Progress(c) /\ Recorded(c) /\ c \in Calls
      BY <1>5 DEF ProxyInv
    <3>2. c \in BookCalls
      BY <1>0, <2>1, <3>1 DEF Progress, At, BookCalls, Arrived, TypeOK
    <3>3. LedgerRow(c) \in ledger /\ LedgerRow(c).by = c
      BY <2>1, <3>1 DEF Recorded, At, LedgerRow
    <3>4. QED
      BY <3>2, <3>3
  <2>4. Given' = Given \cup {c}
    BY <2>1, <2>2, <2>3 DEF Given
  <2>5. Book!Give(c)
    BY <2>1, <2>2, <2>3, <2>4 DEF Book!Give, Book!Logged, Asked, Paid, Given
  <2>6. QED
    BY <2>5 DEF Book!BookNext
<1>6. ASSUME NEW c \in Calls, StreamAnswer(c) PROVE UNCHANGED Book!book
  <2>1. UNCHANGED ledger /\ At(c, "stream") /\ answered' \subseteq answered \cup {c}
        /\ answered \subseteq answered'
    BY <1>6 DEF StreamAnswer
  <2>2. Asked' = Asked /\ BookCalls' = BookCalls /\ Paid' = Paid
    <3>1. CallStep(c) /\ ~AttemptSucceeds(c)
      BY <1>6, <2>1 DEF CallStep, AttemptSucceeds, At
    <3>2. QED
      BY <1>0, <3>1, AskedKept, PaidKept
  <2>3. c \notin BookCalls
    BY <2>1 DEF ProxyInv, Progress, BookCalls
  <2>4. Given' = Given
    BY <2>1, <2>2, <2>3 DEF Given
  <2>5. QED
    BY <1>a, <2>1, <2>2, <2>4
<1>7. ASSUME NEW c \in Calls, CallStep(c) \/ Fail(c), ~AttemptSucceeds(c), ~LogRequest(c),
             ~Answer(c), ~StreamAnswer(c)
      PROVE  UNCHANGED Book!book
  <2>1. Asked' = Asked /\ BookCalls' = BookCalls /\ Paid' = Paid
    BY <1>0, <1>7, AskedKept, PaidKept
  <2>2. ledger' = ledger /\ answered' = answered
    BY <1>7, Writers
  <2>3. QED
    BY <1>a, <2>1, <2>2 DEF Given
<1>8. CASE Quiet
  BY <1>8, <1>a DEF Quiet, logs, Asked, BookCalls, Arrived, Question, Text, Input, Paid, Given
<1>9. QED
  BY <1>0, <1>1, <1>2, <1>3, <1>4, <1>5, <1>6, <1>7, <1>8, OneCallSteps

\* Whatever fails, expires or is purged in between, the proxy keeps the book
\* of ChatBook.
THEOREM BookKept == Spec => ImplementsBook
<1>1. Init => Book!BookInit
  <2> SUFFICES ASSUME Init PROVE Book!BookInit
    OBVIOUS
  <2>1. \A c \in Calls : Input(c) = None /\ call[c].outcome = "none"
    BY DEF Init, New, Input
  <2>2. BookCalls = {} /\ Paid = {} /\ ledger = {}
    BY <2>1 DEF BookCalls, Arrived, Paid, Init
  <2>3. Asked = [c \in Calls |-> None] /\ Given = {}
    BY <2>2 DEF Asked, Given
  <2>4. QED
    BY <2>2, <2>3 DEF Book!BookInit, Asked, Paid, Given
<1>2. QED
  BY <1>1, BookStep, ProxyInvariant, PTL DEF Spec, ImplementsBook, Book!BookSpec
=============================================================================
