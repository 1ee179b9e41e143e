----------------------------- MODULE ChatProxy ------------------------------
(***************************************************************************)
(* Chat completions in flight (src/app/services/proxy_service.py, called   *)
(* by src/app/api/routes_chat.py), the two response caches they read and   *)
(* fill, and the namespace invalidation of src/app/api/routes_admin.py.    *)
(*                                                                         *)
(* A handler runs undisturbed between two `await`s.  An action is one      *)
(* awaited statement together with the code that follows it up to the next *)
(* await; between two actions other calls run, entries expire and          *)
(* namespaces are purged.                                                  *)
(*                                                                         *)
(* A response is named by the call that fetched it upstream, and so is the *)
(* semantic record made of it, for a call makes at most one.               *)
(*                                                                         *)
(* An operator named Mut... is a plausible bug in the operation defined    *)
(* below it; it is part of no specification.                               *)
(***************************************************************************)
EXTENDS Integers, FiniteSets

CONSTANTS
    Calls,          \* request ids
    Purges,         \* admin invalidations
    Spaces,         \* cache namespaces
    Scopes,         \* (tenant, workspace) pairs
    Prompts,        \* canonical requests: model, messages, temperature, stream
    Scrub,          \* what the DLP scrubber makes of a canonical request
    FamilyOf,       \* model family of a canonical request
    Similarity,     \* cosine similarity of two scrubbed texts, scaled
    LiveThreshold, ShadowThreshold,     \* semantic_threshold, semantic_shadow_threshold
    MaxRetries,     \* upstream_max_retries
    Inputs,         \* requests that may arrive
    InFlight,       \* bound: calls in progress at once
    SameStore,      \* whether invalidation reaches the semantic store in use
    None

ASSUME ProxyAssumption ==
    /\ Scrub \in [Prompts -> Prompts]
    /\ Similarity \in [Prompts \X Prompts -> Nat]
    /\ LiveThreshold \in Nat /\ ShadowThreshold \in Nat
    /\ MaxRetries \in Nat /\ InFlight \in Nat
    /\ Inputs \subseteq [space : Spaces, scope : Scopes, prompt : Prompts,
                         reuse : BOOLEAN, stream : BOOLEAN]
    /\ SameStore \in BOOLEAN
    /\ None \notin Calls /\ None \notin Inputs /\ None \notin Spaces
    /\ None \notin [space : Spaces, text : Prompts]

VARIABLES
    exact,      \* exact cache: the response stored under a key, or None
    index,      \* semantic records
    stamped,    \* calls whose semantic record has its created_at
    sent,       \* upstream attempts of each call
    received,   \* prompts the provider was sent
    events,     \* request_events: [by, outcome]
    ledger,     \* request_ledger: [by, cost, saved], see LedgerRow
    answered,   \* calls whose response was given out
    shadow,     \* semantic_shadow_analytics: [by, match]
    savings,    \* shadow_savings: [by, match]
    call,       \* what each call is doing
    purge       \* what each invalidation is doing

caches == <<exact, index>>
upstream == <<sent, received>>
logs == <<events, ledger, answered>>
analytics == <<shadow, savings>>
vars == <<caches, stamped, upstream, logs, analytics, call, purge>>

-----------------------------------------------------------------------------
(* Requests and the caches *)

Input(c) == call[c].input
Text(c) == Scrub[Input(c).prompt]

\* Exact entries are per namespace and scrubbed text, whatever the tenant.
Keys == [space : Spaces, text : Prompts]
MutKeyWithoutSpace(c) == [space |-> CHOOSE s \in Spaces : TRUE, text |-> Text(c)]
Key(c) == [space |-> Input(c).space, text |-> Text(c)]

\* Semantic records are per namespace, tenant, workspace and model family.
Comparable(c, r) ==
    /\ Input(r).space = Input(c).space
    /\ Input(r).scope = Input(c).scope
    /\ FamilyOf[Input(r).prompt] = FamilyOf[Input(c).prompt]

\* Semantic reuse is on, the temperature is low enough, and nothing is streamed.
Reusable(c) == Input(c).reuse /\ ~Input(c).stream

Likeness(c, r) == Similarity[Text(c), Text(r)]

\* The most similar of the comparable records in R, if similar enough; of
\* equally similar ones the stores differ in which they return.
Matches(c, R, threshold) ==
    {r \in R : /\ Comparable(c, r)
               /\ Likeness(c, r) >= threshold
               /\ \A o \in R : Comparable(c, o) => Likeness(c, o) <= Likeness(c, r)}

\* What a call asks, in the words of ChatBook.
Question(c) == [space |-> Input(c).space, text |-> Text(c)]

-----------------------------------------------------------------------------
(* Calls *)

\* Every point of a call but "new" and "over" is an await.
Lookup == {"exact", "find", "send", "fill", "index"}
Points == Lookup \cup {"new", "stream", "event", "ledger", "answer",
                       "shadow", "shadow_log", "shadow_save", "shadow_purge", "over"}
Awaits == Points \ {"new", "over"}

Outcomes == {"none", "miss", "exact_hit", "semantic_hit"}

New == [at |-> "new", input |-> None, from |-> None, outcome |-> "none",
        before |-> {}, best |-> None]

At(c, point) == call[c].at = point
Goto(c, point) == call' = [call EXCEPT ![c].at = point]
Serve(c, r, outcome) ==
    call' = [call EXCEPT ![c] = [@ EXCEPT !.at = "event", !.from = r, !.outcome = outcome]]
\* _serve_upstream up to its first await, the cutoff of the shadow analysis.
ServeUpstream(c) == call' = [call EXCEPT ![c] = [@ EXCEPT !.at = "send", !.before = stamped]]

\* The request is identified, passes the billing gate, and is scrubbed; or it
\* is refused.
Arrive(c) ==
    /\ At(c, "new")
    /\ Cardinality({d \in Calls : call[d].at \in Awaits}) < InFlight
    /\ \E i \in Inputs :
        \/ call' = [call EXCEPT ![c] = [@ EXCEPT !.at = "over", !.input = i]]
        \/ call' = [call EXCEPT ![c] = [@ EXCEPT !.at = IF i.stream THEN "stream" ELSE "exact",
                                                 !.input = i]]
    /\ UNCHANGED <<caches, stamped, upstream, logs, analytics, purge>>

ExactGet(c) ==
    /\ At(c, "exact")
    /\ LET r == exact[Key(c)]
       IN  \/ r # None /\ Serve(c, r, "exact_hit")
           \/ r = None /\ Reusable(c) /\ Goto(c, "find")
           \/ r = None /\ ~Reusable(c) /\ ServeUpstream(c)
    /\ UNCHANGED <<caches, stamped, upstream, logs, analytics, purge>>

\* A match is served only if its fingerprint is that of the request.
MutFindMatch(c) ==
    /\ At(c, "find")
    /\ LET M == Matches(c, index, LiveThreshold)
       IN  \/ \E r \in M : Serve(c, r, "semantic_hit")
           \/ M = {} /\ ServeUpstream(c)
    /\ UNCHANGED <<caches, stamped, upstream, logs, analytics, purge>>
FindMatch(c) ==
    /\ At(c, "find")
    /\ LET M == Matches(c, index, LiveThreshold)
       IN  \/ \E r \in M : Text(r) = Text(c) /\ Serve(c, r, "semantic_hit")
           \/ \E r \in M : Text(r) # Text(c) /\ ServeUpstream(c)
           \/ M = {} /\ ServeUpstream(c)
    /\ UNCHANGED <<caches, stamped, upstream, logs, analytics, purge>>

\* One POST to the provider: the request goes out as it came in.
Post(c) ==
    /\ sent' = [sent EXCEPT ![c] = @ + 1]
    /\ received' = received \cup {Input(c).prompt}

AttemptSucceeds(c) ==
    /\ At(c, "send")
    /\ Post(c)
    /\ call' = [call EXCEPT ![c] = [@ EXCEPT !.at = "fill", !.from = c, !.outcome = "miss"]]
    /\ UNCHANGED <<caches, stamped, logs, analytics, purge>>

\* A timeout, a transport error or a 5xx: tried again while attempts are left.
MutAttemptFails(c) ==
    /\ At(c, "send")
    /\ Post(c)
    /\ Goto(c, IF sent[c] <= MaxRetries THEN "send" ELSE "over")
    /\ UNCHANGED <<caches, stamped, logs, analytics, purge>>
\* The loop is entered anew when its attempts are used up.
AttemptFails(c) ==
    /\ At(c, "send")
    /\ Post(c)
    /\ Goto(c, IF sent[c] < MaxRetries THEN "send" ELSE "over")
    /\ UNCHANGED <<caches, stamped, logs, analytics, purge>>

\* A 4xx or an unreadable body ends the call.
AttemptRejected(c) ==
    /\ At(c, "send")
    /\ Post(c)
    /\ Goto(c, "over")
    /\ UNCHANGED <<caches, stamped, logs, analytics, purge>>

\* With semantic reuse the shadow task is scheduled and the new record gets
\* its created_at before the next await.
MutExactSet(c) ==
    /\ At(c, "fill")
    /\ exact' = [exact EXCEPT ![Key(c)] = c]
    /\ Goto(c, IF Reusable(c) THEN "index" ELSE "event")
    /\ UNCHANGED <<stamped, index, upstream, logs, analytics, purge>>
ExactSet(c) ==
    /\ At(c, "fill")
    /\ exact' = [exact EXCEPT ![Key(c)] = c]
    /\ IF Reusable(c)
       THEN Goto(c, "index") /\ stamped' = stamped \cup {c}
       ELSE Goto(c, "event") /\ UNCHANGED stamped
    /\ UNCHANGED <<index, upstream, logs, analytics, purge>>

AddEntry(c) == index' = index \cup {c}

Index(c) ==
    /\ At(c, "index")
    /\ AddEntry(c)
    /\ Goto(c, "event")
    /\ UNCHANGED <<exact, stamped, upstream, logs, analytics, purge>>

MutLogEvent(c) ==
    /\ At(c, "event")
    /\ events' = IF call[c].outcome = "miss"
                 THEN events \cup {[by |-> c, outcome |-> "miss"]} ELSE events
    /\ Goto(c, "ledger")
    /\ UNCHANGED <<caches, stamped, upstream, ledger, answered, analytics, purge>>
LogEvent(c) ==
    /\ At(c, "event")
    /\ events' = events \cup {[by |-> c, outcome |-> call[c].outcome]}
    /\ Goto(c, "ledger")
    /\ UNCHANGED <<caches, stamped, upstream, ledger, answered, analytics, purge>>

\* The upstream cost of a miss, the savings of a hit; the other is 0.
LedgerRow(c) ==
    LET r == call[c].from
    IN  IF call[c].outcome = "miss"
        THEN [by |-> c, cost |-> r, saved |-> None]
        ELSE [by |-> c, cost |-> None, saved |-> r]

LogRequest(c) ==
    /\ At(c, "ledger")
    /\ ledger' = ledger \cup {LedgerRow(c)}
    /\ Goto(c, "answer")
    /\ UNCHANGED <<caches, stamped, upstream, events, answered, analytics, purge>>

\* Background tasks run after the response is sent.
ShadowScheduled(c) ==
    call[c].outcome = "miss" /\ Reusable(c) /\ ShadowThreshold < LiveThreshold

Answer(c) ==
    /\ At(c, "answer")
    /\ answered' = answered \cup {c}
    /\ Goto(c, IF ShadowScheduled(c) THEN "shadow" ELSE "over")
    /\ UNCHANGED <<caches, stamped, upstream, events, ledger, analytics, purge>>

\* A streaming call is sent once and passed on; no cache, no ledger.
StreamAnswer(c) ==
    /\ At(c, "stream")
    /\ Post(c)
    /\ \/ answered' = answered \cup {c}
       \/ UNCHANGED answered
    /\ Goto(c, "over")
    /\ UNCHANGED <<caches, stamped, events, ledger, analytics, purge>>

\* An exception, a cancellation or a crash at any await.
Fail(c) ==
    /\ call[c].at \in Awaits
    /\ Goto(c, "over")
    /\ UNCHANGED <<caches, stamped, upstream, logs, analytics, purge>>

-----------------------------------------------------------------------------
(* The shadow analysis of a miss *)

MutShadowFind(c) ==
    /\ At(c, "shadow")
    /\ LET M == Matches(c, index, ShadowThreshold)
           low == {r \in M : Likeness(c, r) < LiveThreshold}
       IN  \/ \E r \in low :
                call' = [call EXCEPT ![c] = [@ EXCEPT !.at = "shadow_log", !.best = r]]
           \/ low = {} /\ Goto(c, "over")
    /\ UNCHANGED <<caches, stamped, upstream, logs, analytics, purge>>
ShadowFind(c) ==
    /\ At(c, "shadow")
    /\ LET M == Matches(c, index \cap call[c].before, ShadowThreshold)
       IN  \/ \E r \in M :
                /\ Likeness(c, r) < LiveThreshold
                /\ call' = [call EXCEPT ![c] = [@ EXCEPT !.at = "shadow_log", !.best = r]]
           \/ /\ \A r \in M : Likeness(c, r) >= LiveThreshold
              /\ Goto(c, "over")
    /\ UNCHANGED <<caches, stamped, upstream, logs, analytics, purge>>

ShadowRow(c) == [by |-> c, match |-> call[c].best]

ShadowLog(c) ==
    /\ At(c, "shadow_log")
    /\ shadow' = shadow \cup {ShadowRow(c)}
    /\ Goto(c, "shadow_save")
    /\ UNCHANGED <<caches, stamped, upstream, logs, savings, purge>>

ShadowSave(c) ==
    /\ At(c, "shadow_save")
    /\ savings' = savings \cup {ShadowRow(c)}
    /\ Goto(c, "shadow_purge")
    /\ UNCHANGED <<caches, stamped, upstream, logs, shadow, purge>>

\* Rows past the retention period are deleted.
ShadowPurge(c) ==
    /\ At(c, "shadow_purge")
    /\ \E old \in SUBSET shadow : shadow' = shadow \ old
    /\ Goto(c, "over")
    /\ UNCHANGED <<caches, stamped, upstream, logs, savings, purge>>

-----------------------------------------------------------------------------
(* Expiry and invalidation *)

\* A deleted key is no longer one the scans in progress must return.
MutDrop(k) ==
    /\ exact' = [exact EXCEPT ![k] = None]
    /\ UNCHANGED purge
Drop(k) ==
    /\ exact' = [exact EXCEPT ![k] = None]
    /\ purge' = [i \in Purges |-> [purge[i] EXCEPT !.left = @ \ {k}]]

ExactExpires(k) ==
    /\ exact[k] # None
    /\ Drop(k)
    /\ UNCHANGED <<index, stamped, upstream, logs, analytics, call>>

\* Expired records are never matched, and pruned by the next search.
SemanticExpires(r) ==
    /\ r \in index
    /\ index' = index \ {r}
    /\ UNCHANGED <<exact, stamped, upstream, logs, analytics, call, purge>>

NotStarted == [at |-> "new", target |-> None, left |-> {}, settled |-> {}]

\* The calls that will write to the caches no more.
Settled == {c \in Calls : call[c].at \notin Lookup \cup {"new"}}
EntriesOf(s) == {k \in Keys : k.space = s /\ exact[k] # None}

\* SCAN must return the keys present from beginning to end (`left`), and may
\* return those written meanwhile.  `settled` is history.
PurgeStart(i, s) ==
    /\ purge[i].at = "new"
    /\ purge' = [purge EXCEPT ![i] = [at |-> "scan", target |-> s,
                                      left |-> EntriesOf(s), settled |-> Settled]]
    /\ UNCHANGED <<caches, stamped, upstream, logs, analytics, call>>

PurgeDelete(i, k) ==
    /\ purge[i].at = "scan"
    /\ k \in EntriesOf(purge[i].target)
    /\ Drop(k)
    /\ UNCHANGED <<index, stamped, upstream, logs, analytics, call>>

\* The semantic store the settings name is purged.  When start-up fell back to
\* memory, requests use another.
PurgeRecords(s) == index' = {r \in index : SameStore => Input(r).space # s}

\* After the last key, the records.
MutPurgeIndex(i) ==
    /\ purge[i].at = "scan"
    /\ PurgeRecords(purge[i].target)
    /\ purge' = [purge EXCEPT ![i].at = "done"]
    /\ UNCHANGED <<exact, stamped, upstream, logs, analytics, call>>
PurgeIndex(i) ==
    /\ purge[i].at = "scan"
    /\ purge[i].left = {}
    /\ PurgeRecords(purge[i].target)
    /\ purge' = [purge EXCEPT ![i].at = "done"]
    /\ UNCHANGED <<exact, stamped, upstream, logs, analytics, call>>

PurgeFail(i) ==
    /\ purge[i].at = "scan"
    /\ purge' = [purge EXCEPT ![i].at = "failed"]
    /\ UNCHANGED <<caches, stamped, upstream, logs, analytics, call>>

-----------------------------------------------------------------------------
(* The specification *)

Init ==
    /\ exact = [k \in Keys |-> None]
    /\ index = {}
    /\ stamped = {}
    /\ sent = [c \in Calls |-> 0]
    /\ received = {}
    /\ events = {}
    /\ ledger = {}
    /\ answered = {}
    /\ shadow = {}
    /\ savings = {}
    /\ call = [c \in Calls |-> New]
    /\ purge = [i \in Purges |-> NotStarted]

Attempt(c) == AttemptSucceeds(c) \/ AttemptFails(c) \/ AttemptRejected(c)

\* The next statement of a call in progress.
CallStep(c) ==
    \/ ExactGet(c) \/ FindMatch(c) \/ Attempt(c) \/ ExactSet(c) \/ Index(c)
    \/ LogEvent(c) \/ LogRequest(c) \/ Answer(c) \/ StreamAnswer(c)
    \/ ShadowFind(c) \/ ShadowLog(c) \/ ShadowSave(c) \/ ShadowPurge(c)

PurgeStep(i) == (\E k \in Keys : PurgeDelete(i, k)) \/ PurgeIndex(i)

Next ==
    \/ \E c \in Calls : Arrive(c) \/ CallStep(c) \/ Fail(c)
    \/ \E k \in Keys : ExactExpires(k)
    \/ \E r \in Calls : SemanticExpires(r)
    \/ \E i \in Purges : (\E s \in Spaces : PurgeStart(i, s)) \/ PurgeStep(i) \/ PurgeFail(i)

Spec == Init /\ [][Next]_vars

\* Statements return or raise, and asyncio resumes the coroutine.
Fairness ==
    /\ \A c \in Calls : WF_vars(CallStep(c))
    /\ \A i \in Purges : WF_vars(PurgeStep(i))

FairSpec == Spec /\ Fairness

-----------------------------------------------------------------------------
(* Properties *)

CallType == [at : Points, input : Inputs \cup {None}, from : Calls \cup {None},
             outcome : Outcomes, before : SUBSET Calls, best : Calls \cup {None}]
PurgeType == [at : {"new", "scan", "done", "failed"}, target : Spaces \cup {None},
              left : SUBSET Keys, settled : SUBSET Calls]

Arrived == {c \in Calls : Input(c) # None}

\* The tables hold rows of their columns, and only an arrived call does or
\* leaves anything.
TypeOK ==
    /\ exact \in [Keys -> Calls \cup {None}]
    /\ index \subseteq stamped
    /\ stamped \subseteq Arrived
    /\ sent \in [Calls -> Nat]
    /\ received \subseteq Prompts
    /\ events \subseteq [by : Calls, outcome : Outcomes \ {"none"}]
    /\ ledger \subseteq [by : Calls, cost : Calls \cup {None}, saved : Calls \cup {None}]
    /\ answered \subseteq Arrived
    /\ shadow \subseteq [by : Calls, match : Calls]
    /\ savings \subseteq [by : Calls, match : Calls]
    /\ call \in [Calls -> CallType]
    /\ \A c \in Calls : Input(c) = None <=> At(c, "new")
    /\ purge \in [Purges -> PurgeType]
    /\ \A i \in Purges : purge[i].target = None <=> purge[i].at = "new"

\* A response taken from a cache (handle_chat_completion) was fetched by
\* another call of the same namespace whose scrubbed request was the same, and
\* taken from the semantic cache also of the same tenant and workspace:
\* whatever was filled, expired, purged or matched by similarity meanwhile.
HitAnswersTheRequest ==
    \A c \in Calls : call[c].outcome \in {"exact_hit", "semantic_hit"} =>
        LET r == call[c].from
        IN  /\ r \in Calls \ {c}
            /\ call[r].from = r
            /\ Question(c) = Question(r)
            /\ call[c].outcome = "semantic_hit" => Input(r).scope = Input(c).scope

\* A call goes upstream only if no cache answered it, never after it has a
\* response, and at most max_retries + 1 times; a streaming call goes once
\* (_serve_upstream, create_chat_completion).
UpstreamOnlyIfNeeded ==
    \A c \in Calls :
        /\ sent[c] <= MaxRetries + 1
        /\ sent[c] > 0 => call[c].outcome \in {"none", "miss"}
        /\ sent[c] > 1 => ~Input(c).stream
        /\ call[c].outcome = "miss" => sent[c] > 0

\* Whatever fails in between, a call that is not streaming is answered only
\* with its outcome in the event log and one row in the ledger, the cost of its
\* own response for a miss, the savings of the response it was given for a hit
\* (_record_controlplane_events before the response is returned).
AnsweredIsLogged ==
    \A c \in answered : ~Input(c).stream =>
        /\ {e \in events : e.by = c} = {[by |-> c, outcome |-> call[c].outcome]}
        /\ {row \in ledger : row.by = c} =
            {IF call[c].outcome = "miss"
             THEN [by |-> c, cost |-> c, saved |-> None]
             ELSE [by |-> c, cost |-> None, saved |-> call[c].from]}

\* What the shadow analysis reports of a call (_record_shadow_semantic_outcome)
\* is a record made before the call went upstream, never its own, that could
\* have been offered to it, in the gap between the two thresholds; and only
\* of calls that were answered and are in the ledger as misses.
ShadowRowsJustified ==
    \A row \in shadow \cup savings :
        LET c == row.by
            r == row.match
        IN  /\ r \in call[c].before \ {c}
            /\ Comparable(c, r)
            /\ ShadowThreshold <= Likeness(c, r) /\ Likeness(c, r) < LiveThreshold
            /\ c \in answered
            /\ [by |-> c, cost |-> c, saved |-> None] \in ledger

Holds(c) == c \in index \/ \E k \in Keys : exact[k] = c

\* When an invalidation returns (invalidate_namespace), the responses of calls
\* that had finished filling the caches when it began are in neither cache, and
\* do not come back.
PurgedStaysPurged ==
    \A i \in Purges : purge[i].at = "done" =>
        \A c \in purge[i].settled : Input(c).space = purge[i].target => ~Holds(c)

\* The proxy keeps the book of ChatBook: the ledger never charges or credits
\* a response that was not fetched for the question of the row's call, and
\* nothing is answered without its row.  Streaming calls are not in the book.
BookCalls == {c \in Arrived : ~Input(c).stream}
Book == INSTANCE ChatBook WITH
    Questions <- [space : Spaces, text : Prompts],
    asked <- [c \in Calls |-> IF c \in BookCalls THEN Question(c) ELSE None],
    fetched <- {c \in Calls : call[c].outcome = "miss"},
    answered <- answered \cap BookCalls
ImplementsBook == Book!BookSpec

\* Every call comes to an end, with its retries and its shadow task
\* (handle_chat_completion).
CallsEnd == \A c \in Calls : ~At(c, "new") ~> At(c, "over")
\* Every invalidation ends while calls go on writing (invalidate_namespace).
PurgesEnd == \A i \in Purges : purge[i].at = "scan" ~> purge[i].at \in {"done", "failed"}
EverythingEnds == CallsEnd /\ PurgesEnd

\* README.md: "sensitive content is scrubbed before caching or upstream calls".
UpstreamIsScrubbed == \A p \in received : Scrub[p] = p
=============================================================================
