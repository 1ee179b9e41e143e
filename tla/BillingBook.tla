----------------------------- MODULE BillingBook -----------------------------
(***************************************************************************)
(* What billing promises, with no handlers: a book of periods, totals and  *)
(* charges in which every change happens at once.  Usage is attached to    *)
(* open periods, a period is closed only when its charges add up to its    *)
(* totals, and a closed period keeps its status, totals and usage; what    *)
(* comes later is an adjustment.  BillingPeriods implements this book when *)
(* billing has one operator at a time.                                     *)
(***************************************************************************)
CONSTANTS
    Requests, Periods, KeyOf, NoPeriod,
    Eligible,           \* the requests whose savings count for a period
    Total(_),           \* the savings of a set of requests
    Billed(_),          \* the amounts of a set of charges
    UsageRows,          \* the rows that may become usage charges
    AdjustmentRows      \* ... and adjustments

VARIABLES ledger, status, summary, charges

book == <<ledger, status, summary, charges>>

Of(p) == {c \in charges : c.period = p}

Entry(row, p) == [source |-> row.source, ref |-> row.ref, amount |-> row.amount, period |-> p]
Entered(row) == \E c \in charges : c.source = row.source /\ c.ref = row.ref

BookInit ==
    /\ ledger = {}
    /\ status = [p \in Periods |-> "absent"]
    /\ summary = [p \in Periods |-> {}]
    /\ charges = {}

\* A request is entered in the ledger.
Record(r) ==
    /\ r \in Requests \ ledger
    /\ ledger' = ledger \cup {r}
    /\ UNCHANGED <<status, summary, charges>>

\* A period is created, the only one of its key.
Open(p) ==
    /\ \A q \in Periods : KeyOf[q] = KeyOf[p] => status[q] = "absent"
    /\ status' = [status EXCEPT ![p] = "open"]
    /\ UNCHANGED <<ledger, summary, charges>>

\* The totals of a period that is not closed catch up with the ledger, maybe
\* not entirely, and never lose a request.
Refresh(p) ==
    /\ status[p] \in {"open", "closing"}
    /\ \E S \in SUBSET (ledger \cap Eligible[p]) :
        /\ summary[p] \subseteq S
        /\ summary' = [summary EXCEPT ![p] = S]
    /\ UNCHANGED <<ledger, status, charges>>

Move(p) ==
    /\ status[p] \in {"open", "closing"}
    /\ \E s \in {"open", "closing"} : status' = [status EXCEPT ![p] = s]
    /\ UNCHANGED <<ledger, summary, charges>>

\* A period is closed when its charges reconcile.
Close(p) ==
    /\ status[p] \in {"open", "closing"}
    /\ Billed(Of(p)) = Total(summary[p])
    /\ status' = [status EXCEPT ![p] = "closed"]
    /\ UNCHANGED <<ledger, summary, charges>>

\* A source row becomes a charge, once, of an open period or of none.
Attach(row, p) ==
    /\ row.source # "manual"
    /\ row.source = "ledger" => row.ref \in ledger
    /\ ~Entered(row)
    /\ p \in Periods => status[p] = "open"
    /\ charges' = charges \cup {Entry(row, p)}
    /\ UNCHANGED <<ledger, status, summary>>

\* A correction: of a closed period or of none.
Adjust(row, p) ==
    /\ row.source = "manual"
    /\ ~Entered(row)
    /\ p \in Periods => status[p] = "closed"
    /\ charges' = charges \cup {Entry(row, p)}
    /\ UNCHANGED <<ledger, status, summary>>

BookNext ==
    \/ \E r \in Requests : Record(r)
    \/ \E p \in Periods : Open(p) \/ Refresh(p) \/ Move(p) \/ Close(p)
    \/ \E row \in UsageRows, p \in Periods \cup {NoPeriod} : Attach(row, p)
    \/ \E row \in AdjustmentRows, p \in Periods \cup {NoPeriod} : Adjust(row, p)

BookSpec == BookInit /\ [][BookNext]_book

-----------------------------------------------------------------------------
\* The usage charges of a closed period add up to its totals: what Close
\* established is never undone, and adjustments are kept apart.
Usage(p) == {c \in Of(p) : c.source # "manual"}
Balanced == \A p \in Periods : status[p] = "closed" => Billed(Usage(p)) = Total(summary[p])
=============================================================================
