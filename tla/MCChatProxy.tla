---------------------------- MODULE MCChatProxy -----------------------------
(***************************************************************************)
(* Small instances of ChatProxy.  Prompts: `a`, `b` close to a, `x` which  *)
(* the scrubber turns into a, `z` as similar to a as a itself (a collision *)
(* of embeddings).                                                         *)
(***************************************************************************)
EXTENDS ChatProxy, TLC

CONSTANTS c1, c2, c3, i1, s1, s2, w1, w2, a, b, x, z

MCScrub == [p \in Prompts |-> IF p = x THEN a ELSE p]
MCFamilyOf == [p \in Prompts |-> "gpt"]
MCSimilarity == [pq \in Prompts \X Prompts |->
    IF pq[1] = pq[2] \/ {pq[1], pq[2]} = {a, z} THEN 100 ELSE 85]

Ask(s, w, p, reuse) == [space |-> s, scope |-> w, prompt |-> p, reuse |-> reuse, stream |-> FALSE]
Stream(s, w, p) == [space |-> s, scope |-> w, prompt |-> p, reuse |-> FALSE, stream |-> TRUE]

\* Every kind of request: reusable or not, in another namespace or scope, streaming.
AllInputs == {Ask(s1, w1, a, TRUE), Ask(s1, w1, b, TRUE), Ask(s1, w1, x, TRUE),
              Ask(s1, w2, a, TRUE), Ask(s2, w1, a, FALSE), Stream(s1, w1, a)}
CallInputs == AllInputs \ {Ask(s1, w1, x, TRUE)}
\* What may be taken for the same question: a collision, another scope; and a
\* request that is not tried again.
HitInputs == {Ask(s1, w1, a, TRUE), Ask(s1, w1, z, TRUE), Ask(s1, w2, a, TRUE),
              Stream(s1, w1, a)}

CallSymmetry == Permutations(Calls)
=============================================================================
