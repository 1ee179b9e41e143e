---------------------------- MODULE BillingOverlap ----------------------------
(***************************************************************************)
(* BillingPeriods with one more variable, a history of which admin calls   *)
(* were overlapped: what a call has looked up may be out of date as soon   *)
(* as another call has written to the periods, their totals or the         *)
(* charges.  It says what the handlers promise when several are in         *)
(* progress: a call that no other has overlapped does what the book of     *)
(* BillingBook allows.                                                     *)
(***************************************************************************)
EXTENDS BillingPeriods

VARIABLE disturbed      \* calls in progress during which another one wrote

overlapVars == <<vars, disturbed>>

books == <<status, summary, charges>>

\* A call that stays where it is while the tables are written was overlapped,
\* from then to its end.  (Whoever writes moves on to its next statement.)
Disturb ==
    disturbed' = {h \in Handlers :
        /\ call'[h].at # "idle"
        /\ h \in disturbed \/ (call'[h] = call[h] /\ books' # books)}

OverlapInit == Init /\ disturbed = {}
OverlapNext == Next /\ Disturb
OverlapSpec == OverlapInit /\ [][OverlapNext]_overlapVars /\ Fairness

\* However many calls are in progress, every statement of a call during which
\* no other has written does what the book allows: it creates the only period
\* of its key, its totals contain the totals they replace, it closes a period
\* whose charges add up to its totals now, and it charges an open period (what
\* lines 272, 307, 350, 396 and 789 look up still holds when it is used).
UndisturbedByTheBook ==
    [][\A h \in Handlers \ disturbed :
          call'[h] # call[h] => [Book!BookNext]_(Book!book)]_vars
=============================================================================
