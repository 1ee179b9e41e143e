----------------------------- MODULE MCRuntime -----------------------------
(***************************************************************************)
(* A small instance of Runtime: two servers, two admin calls, a field that *)
(* a preset sets and one it leaves alone, and settings of each sort: a     *)
(* strict profile, ones it refuses, and development settings with and      *)
(* without a database.                                                     *)
(***************************************************************************)
EXTENDS Runtime, TLC

CONSTANTS s1, s2, c1, c2

P(preset, threshold, level) ==
    ("semantic_hardening_preset" :> preset @@ "semantic_threshold" :> threshold
        @@ "dlp_scrub_level" :> level)

MCPresets == "conservative" :> [semantic_threshold |-> "0.90"]
          @@ "balanced" :> [semantic_threshold |-> "0.86"]
MCConfigured == P(Unset, "0.90", "technical")
MCProduction == P("conservative", "0.90", "technical")
MCPayloads == {P("balanced", Unset, Unset), P(Unset, "0.90", "off")}

Strict == [strictProfile |-> TRUE, validated |-> FALSE, redis |-> TRUE, redisUrl |-> TRUE,
           pgvector |-> TRUE, semanticDsn |-> TRUE, policyDsn |-> TRUE, staticKey |-> TRUE,
           flags |-> PilotRequiredFlags]
Dev == [strictProfile |-> FALSE, validated |-> FALSE, redis |-> TRUE, redisUrl |-> FALSE,
        pgvector |-> FALSE, semanticDsn |-> FALSE, policyDsn |-> FALSE, staticKey |-> FALSE,
        flags |-> {}]
MCConfigs == {Strict, Dev,
    [Strict EXCEPT !.redis = FALSE],
    [Strict EXCEPT !.pgvector = FALSE],
    [Strict EXCEPT !.flags = @ \ {"billing_prep_enabled"}],
    [Dev EXCEPT !.validated = TRUE],
    [Dev EXCEPT !.redis = FALSE, !.policyDsn = TRUE,
                !.flags = {"request_ledger_enabled", "controlplane_identity_enabled"}]}

IdSymmetry == Permutations(Servers) \cup Permutations(Calls)
=============================================================================
