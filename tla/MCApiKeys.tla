------------------------------ MODULE MCApiKeys ------------------------------
(***************************************************************************)
(* Small instances of ApiKeys: two tenants that settings name and one that *)
(* none does, a workspace that both settings claim, and a configured key   *)
(* that is replaced once.                                                  *)
(***************************************************************************)
EXTENDS ApiKeys, TLC

CONSTANTS s1, h1, h2, r1, T0, T1, T2, W0, W1, K0, K1, old, new, x1

Config(enabled, secret, dsn, seed, t, slug) ==
    [enabled |-> enabled, secret |-> secret, dsn |-> dsn, seed |-> seed,
     tenant |-> t, tslug |-> slug, workspace |-> W0, wslug |-> "a", key |-> K0, prefix |-> "mk_dev"]

\* Seeding with the old key; with the new one for another tenant; started
\* without a seed; without identity; one that the posture check refuses.
MCConfigs == {Config(TRUE, old, TRUE, TRUE, T0, "a"), Config(TRUE, new, TRUE, TRUE, T1, "b"),
              Config(TRUE, new, TRUE, FALSE, T0, "a"), Config(FALSE, None, TRUE, FALSE, T0, "a"),
              Config(TRUE, old, FALSE, TRUE, T0, "a")}

MCKeyPrefix == [x \in Secrets |-> x]

IdSymmetry == Permutations(Admins)
=============================================================================
