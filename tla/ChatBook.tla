------------------------------ MODULE ChatBook ------------------------------
(***************************************************************************)
(* What the chat proxy promises about money, with no caches and no         *)
(* statements: a call asks a question, its response is fetched upstream at *)
(* most once, and the ledger gets at most one row for it.  The row says    *)
(* either that the call paid for the response it was given, or that it     *)
(* saved what another call had paid for the answer to the same question.   *)
(* Only what is in the ledger is answered.  ChatProxy implements this book.*)
(***************************************************************************)
CONSTANTS Calls, Questions, None

VARIABLES
    asked,      \* the question of a call, or None
    fetched,    \* the calls whose own response was fetched and paid for
    ledger,     \* rows [by, cost, saved]: whose response was paid, or saved
    answered    \* the calls whose response was given out

book == <<asked, fetched, ledger, answered>>

Logged(c) == \E row \in ledger : row.by = c

BookInit ==
    /\ asked = [c \in Calls |-> None]
    /\ fetched = {}
    /\ ledger = {}
    /\ answered = {}

Ask(c, q) ==
    /\ asked[c] = None
    /\ asked' = [asked EXCEPT ![c] = q]
    /\ UNCHANGED <<fetched, ledger, answered>>

Fetch(c) ==
    /\ asked[c] # None
    /\ c \notin fetched
    /\ ~Logged(c)
    /\ fetched' = fetched \cup {c}
    /\ UNCHANGED <<asked, ledger, answered>>

EnterCost(c) ==
    /\ c \in fetched
    /\ ~Logged(c)
    /\ ledger' = ledger \cup {[by |-> c, cost |-> c, saved |-> None]}
    /\ UNCHANGED <<asked, fetched, answered>>

EnterSaving(c, f) ==
    /\ c \notin fetched
    /\ f \in fetched
    /\ asked[f] = asked[c]
    /\ ~Logged(c)
    /\ ledger' = ledger \cup {[by |-> c, cost |-> None, saved |-> f]}
    /\ UNCHANGED <<asked, fetched, answered>>

Give(c) ==
    /\ Logged(c)
    /\ answered' = answered \cup {c}
    /\ UNCHANGED <<asked, fetched, ledger>>

BookNext == \E c \in Calls :
    \/ \E q \in Questions : Ask(c, q)
    \/ Fetch(c)
    \/ EnterCost(c)
    \/ \E f \in Calls : EnterSaving(c, f)
    \/ Give(c)

BookSpec == BookInit /\ [][BookNext]_book
=============================================================================
