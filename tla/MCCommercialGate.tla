-------------------------- MODULE MCCommercialGate --------------------------
(***************************************************************************)
(* Small instances of CommercialGate: subscriptions 1 and 2 and periods 1  *)
(* and 2 of tenant t1 (the second of each ends later), period 3 and        *)
(* subscription 3 of tenant t2.                                            *)
(***************************************************************************)
EXTENDS CommercialGate, TLC

CONSTANTS t1, t2, h1, h2, c1

MCSubTenant == [s \in Subs |-> IF s = 3 THEN t2 ELSE t1]
MCSubEnd == [s \in Subs |-> IF s = 3 THEN 1 ELSE s]
MCPeriodTenant == [p \in Periods |-> IF p = 3 THEN t2 ELSE t1]
MCPeriodEnd == [p \in Periods |-> IF p = 3 THEN 1 ELSE p]

\* The later period only takes the place of the earlier one, which earns.
MCMaxEarned == [p \in Periods |-> IF p = 1 THEN 1 ELSE 0]

OperatorSymmetry == Permutations(Operators)
=============================================================================
