----------------------------- MODULE MCPolicies -----------------------------
(***************************************************************************)
(* A small instance of Policies: one tenant with one workspace, policies   *)
(* assigned to everybody and overridden for a pattern.                     *)
(***************************************************************************)
EXTENDS Policies, TLC

CONSTANTS T1, W1, E1, c1, c2, r1

MCCovers == [p \in Patterns |-> IF p = "pay*" THEN {"pay"} ELSE Namespaces]
MCLength == [p \in Patterns |-> IF p = "pay*" THEN 4 ELSE 1]
MCScopes == {Global, [type |-> "workspace", ref |-> W1]}

MCKey(scope, t, w, e, n) ==
    [scope |-> scope, tenant |-> t, workspace |-> w, environment |-> e, namespace |-> n]

MCKeys == {GlobalKey, MCKey("namespace", None, W1, None, "pay*")}

MCQuestions == {[tenant |-> T1, workspace |-> W1, environment |-> None, namespace |-> "pay"],
                [tenant |-> None, workspace |-> None, environment |-> None, namespace |-> "pay"]}
IdSymmetry == Permutations(Calls)
=============================================================================
