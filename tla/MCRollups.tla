------------------------------ MODULE MCRollups ------------------------------
(***************************************************************************)
(* A small instance of Rollups: a tenant's workspace with two namespaces   *)
(* on one day, and a request without tenant and workspace on the next.     *)
(***************************************************************************)
EXTENDS Rollups

CONSTANTS T1, W1, j1, j2, r1, r2, r3

MCScope ==
    [r \in Requests |->
        [day |-> IF r = r3 THEN 2 ELSE 1,
         tenant |-> IF r = r3 THEN None ELSE T1,
         workspace |-> IF r = r3 THEN None ELSE W1,
         space |-> IF r = r2 THEN "chat" ELSE "pay"]]
MCLists == {[kind |-> "all", tenant |-> None]}

JobSymmetry == Permutations(Jobs)
=============================================================================
