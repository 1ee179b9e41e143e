-------------------------- MODULE MCBillingPeriods --------------------------
(***************************************************************************)
(* Small instances of BillingPeriods.  Requests 1, 2 and 4 are of tenant   *)
(* t1, request 3 of t2; the window of period p1 of t1 ends before 4.  The  *)
(* rollup rows b1 of t1 and b2 of t2 have the same "date:workspace" text.  *)
(***************************************************************************)
EXTENDS BillingPeriods

CONSTANTS h1, h2, t1, t2, p1, b1, b2, a1, ref

MCTenantOf == [r \in Requests |-> IF r = 3 THEN t2 ELSE t1]
MCSavings == [r \in Requests |-> IF r = 1 THEN 5 ELSE 3]
MCCost == [r \in Requests |-> 10 * r]
MCPeriodTenant == [p \in Periods |-> t1]
MCWindow == [p \in Periods |-> Requests \ {4}]
MCKeyOf == [p \in Periods |-> "key"]
MCBucketOf == [r \in Requests |-> IF r = 3 THEN b2 ELSE b1]
MCBucketTenant == [b \in Buckets |-> IF b = b2 THEN t2 ELSE t1]
MCDateOf == [b \in Buckets |-> "day"]
MCRefOf == [b \in Buckets |-> ref]
MCAdjustmentAmount == [a \in Adjustments |-> -2]
=============================================================================
