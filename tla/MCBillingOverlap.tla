--------------------------- MODULE MCBillingOverlap ---------------------------
(***************************************************************************)
(* Two admin calls at once.  The periods p1 and p2 have the same           *)
(* subscription, start and end: both exist when two calls create it at     *)
(* once.                                                                   *)
(***************************************************************************)
EXTENDS MCBillingPeriods, BillingOverlap

CONSTANT p2

Adjusting(h) == At(h, "insert_adjustment")
Adjusted == \E c \in charges : c.source = "manual"

\* Bound on what the operators ask for: p2 is created and then left alone, and
\* there are adjustments only as long as it is neither there nor being created.
Focus ==
    /\ \A h \in Handlers : call[h].period = p2 => At(h, "insert_period")
    /\ Adjusted \/ (\E h \in Handlers : Adjusting(h)) => FreshPeriod(p2)
=============================================================================
