------------------------------- MODULE Rollups -------------------------------
(***************************************************************************)
(* The daily rollups: two tables derived from the request ledger, rebuilt  *)
(* by the rollup job and by two admin routes, and listed by the analytics  *)
(* routes (src/app/controlplane/repositories/rollups.py).                  *)
(*                                                                         *)
(* A rebuild is one INSERT ... SELECT ... ON CONFLICT DO UPDATE per table. *)
(* It groups the rows of the ledger it saw when the statement began, and   *)
(* waits for the rows another rebuild holds before it writes over them:    *)
(* seeing and writing are two steps.  A key with a NULL in it conflicts    *)
(* with nothing, so groups without a tenant or a workspace are inserted    *)
(* again by every rebuild.                                                 *)
(*                                                                         *)
(* Of a row's counters the model keeps the requests they count.            *)
(*                                                                         *)
(* An operator named Mut... is a plausible bug in the operation defined    *)
(* below it; it is part of no specification.                               *)
(***************************************************************************)
EXTENDS Integers, SequencesExt

CONSTANTS
    Requests,
    Scope,              \* Scope[r]: the day, tenant, workspace and namespace of r
    Tenants, Workspaces, Spaces, None,
    LastDay,            \* days are 1 .. LastDay
    Jobs,               \* rebuilds in progress at once
    Lists,              \* what may be listed: [kind, tenant]
    Limit,              \* rows a list returns at most
    MaxStatements       \* bound on the rebuild statements

Days == 1 .. LastDay
Tables == {"usage", "namespaces"}

\* What the rows of a table are unique by
Groups(t) ==
    IF t = "usage"
    THEN [day : Days, tenant : Tenants \cup {None}, workspace : Workspaces \cup {None}]
    ELSE [day : Days, tenant : Tenants \cup {None}, workspace : Workspaces \cup {None},
          space : Spaces]

ASSUME RollupsAssumption ==
    /\ None \notin Tenants \cup Workspaces
    /\ LastDay \in Nat /\ Scope \in [Requests -> Groups("namespaces")]
    /\ Lists \subseteq [kind : {"usage", "namespaces", "all"}, tenant : Tenants \cup {None}]
    /\ Limit \in Nat /\ MaxStatements \in Nat

VARIABLES
    ledger,     \* requests logged
    rows,       \* rows[t]: the group, the requests counted and updated_at of each row
    begun,      \* statements begun; updated_at is a statement's number
    job,        \* what each rebuild is doing
    view,       \* what the call that lists rollups is doing
    settled     \* history: the last statement to write ended a rebuild of both
                \* tables no other statement wrote into

vars == <<ledger, rows, begun, job, view, settled>>

-----------------------------------------------------------------------------
Row(t) == [group : Groups(t), of : SUBSET Requests, at : Nat]

MutTables(kind) == IF kind = "all" THEN <<"namespaces", "usage">> ELSE <<kind>>

\* rebuild_all and the overview take both tables, usage first
TablesOf(kind) == IF kind = "all" THEN <<"usage", "namespaces">> ELSE <<kind>>
Kinds == Tables \cup {"all"}

MutGroup(t, r) == Scope[r]

GroupOf(t, r) ==
    LET s == Scope[r]
    IN  IF t = "namespaces" THEN s
        ELSE [day |-> s.day, tenant |-> s.tenant, workspace |-> s.workspace]

\* NULL equals nothing in a unique index
Whole(g) == g.tenant # None /\ g.workspace # None

FoundRow(t, g) == \E i \in DOMAIN rows[t] : Whole(g) /\ rows[t][i].group = g

MutUpsert(t, seen, at) ==
    LET new == {g \in {GroupOf(t, r) : r \in seen} : ~FoundRow(t, g)}
    IN  rows[t] \o SetToSeq({[group |-> g, of |-> {r \in seen : GroupOf(t, r) = g},
                               at |-> at] : g \in new})

\* The rows of t after a statement that saw these requests
Upsert(t, seen, at) ==
    LET grouped == {GroupOf(t, r) : r \in seen}
        counted(g) == [group |-> g, of |-> {r \in seen : GroupOf(t, r) = g}, at |-> at]
        held(i) == LET g == rows[t][i].group
                   IN  IF Whole(g) /\ g \in grouped THEN counted(g) ELSE rows[t][i]
    IN  [i \in DOMAIN rows[t] |-> held(i)]
            \o SetToSeq({counted(g) : g \in {h \in grouped : ~FoundRow(t, h)}})

Idle == [at |-> "idle", kind |-> "all", todo |-> <<>>, known |-> {}, seen |-> {},
         stamp |-> 0, late |-> FALSE, alone |-> TRUE]
NoView == [at |-> "idle", kind |-> "all", todo |-> <<>>, tenant |-> None,
           rows |-> [t \in Tables |-> {}], settled |-> FALSE]

Init ==
    /\ ledger = {} /\ begun = 0 /\ settled = FALSE
    /\ rows = [t \in Tables |-> <<>>]
    /\ job = [j \in Jobs |-> Idle] /\ view = NoView

-----------------------------------------------------------------------------
\* A served request is logged.
LogRequest(r) ==
    /\ r \notin ledger
    /\ ledger' = ledger \cup {r}
    /\ UNCHANGED <<rows, begun, job, view, settled>>

\* The job runs rebuild_all, an admin route rebuilds one table.  A connection
\* and the schema come first.  known and alone are history: what had been
\* logged, and that no other rebuild has written since.
StartRebuild(j, kind) ==
    /\ job[j].at \in {"idle", "done"}
    /\ job' = [job EXCEPT ![j] = [Idle EXCEPT !.at = "ready", !.kind = kind,
                                              !.todo = TablesOf(kind), !.known = ledger]]
    /\ UNCHANGED <<ledger, rows, begun, view, settled>>

MutBegin(j) ==
    /\ job[j].at = "ready" /\ begun < MaxStatements
    /\ begun' = begun + 1
    /\ job' = [job EXCEPT ![j] = [@ EXCEPT !.at = "writing", !.seen = job[j].known,
                                           !.stamp = begun + 1, !.late = FALSE]]
    /\ UNCHANGED <<ledger, rows, view, settled>>

\* A statement begins: it will group what the ledger holds now, and NOW() is
\* the time of its beginning.
BeginStatement(j) ==
    /\ job[j].at = "ready" /\ begun < MaxStatements
    /\ begun' = begun + 1
    /\ job' = [job EXCEPT ![j] = [@ EXCEPT !.at = "writing", !.seen = ledger,
                                           !.stamp = begun + 1, !.late = FALSE]]
    /\ UNCHANGED <<ledger, rows, view, settled>>

\* The statement commits.  late and alone of the others are history: a
\* statement of theirs on this table began before this one wrote.  An answer
\* is kept until the next write, and only if nothing was written while it was made.
Write(j) ==
    LET t == Head(job[j].todo)
        rest == Tail(job[j].todo)
    IN  /\ job[j].at = "writing"
        /\ rows' = [rows EXCEPT ![t] = Upsert(t, job[j].seen, job[j].stamp)]
        /\ job' = [k \in Jobs |->
              IF k = j
              THEN IF rest = <<>> /\ ~job[k].alone THEN Idle
                   ELSE [Idle EXCEPT !.at = IF rest = <<>> THEN "done" ELSE "ready",
                                     !.kind = job[k].kind, !.todo = rest,
                                     !.known = job[k].known, !.alone = job[k].alone]
              ELSE IF job[k].at \in {"idle", "done"} THEN Idle
              ELSE [job[k] EXCEPT !.alone = FALSE,
                                  !.late = @ \/ (job[k].at = "writing" /\ Head(job[k].todo) = t)]]
        /\ settled' = (job[j].kind = "all" /\ job[j].alone /\ rest = <<>>)
        /\ view' = IF view.at = "listing" THEN [view EXCEPT !.settled = FALSE] ELSE NoView
        /\ UNCHANGED <<ledger, begun>>

\* No connection, no schema, a statement fails, or the process dies.
Fail(j) ==
    /\ job[j].at \in {"ready", "writing"}
    /\ job' = [job EXCEPT ![j] = Idle]
    /\ UNCHANGED <<ledger, rows, begun, view, settled>>

-----------------------------------------------------------------------------
\* A tenant is asked for with =, which a row without one does not satisfy.
Matching(t, tenant) ==
    {i \in DOMAIN rows[t] : tenant = None \/ rows[t][i].group.tenant = tenant}

\* ORDER BY rollup_date DESC, updated_at DESC
Precedes(x, y) == \/ x.group.day > y.group.day
                  \/ x.group.day = y.group.day /\ x.at > y.at

\* What LIMIT may leave of the rows in that order
Listed(t, tenant) ==
    LET all == Matching(t, tenant)
    IN  {S \in SUBSET all :
            /\ Cardinality(S) = IF Cardinality(all) < Limit THEN Cardinality(all) ELSE Limit
            /\ \A i \in all \ S, k \in S : ~Precedes(rows[t][i], rows[t][k])}

\* The overview, or the list of one table, is asked for.
AskForRollups(q) ==
    /\ view.at \in {"idle", "done"}
    /\ view' = [NoView EXCEPT !.at = "listing", !.kind = q.kind, !.tenant = q.tenant,
                              !.todo = TablesOf(q.kind), !.settled = settled]
    /\ UNCHANGED <<ledger, rows, begun, job, settled>>

\* One statement per table, one after the other.  view.settled is history:
\* settled was true when the call began, and nothing has been written since.
ListRollups ==
    LET t == Head(view.todo)
        rest == Tail(view.todo)
    IN  /\ view.at = "listing"
        /\ \E S \in Listed(t, view.tenant) :
              view' = IF rest = <<>> /\ ~view.settled THEN NoView
                      ELSE [view EXCEPT !.at = IF rest = <<>> THEN "done" ELSE "listing",
                                        !.todo = rest,
                                        !.rows[t] = {rows[t][i] : i \in S}]
        /\ UNCHANGED <<ledger, rows, begun, job, settled>>

Next ==
    \/ \E r \in Requests : LogRequest(r)
    \/ \E j \in Jobs : \/ \E kind \in Kinds : StartRebuild(j, kind)
                       \/ BeginStatement(j) \/ Write(j) \/ Fail(j)
    \/ \E q \in Lists : AskForRollups(q)
    \/ ListRollups

Spec == Init /\ [][Next]_vars

-----------------------------------------------------------------------------
\* Rows are grouped as their table says, and a rebuild or a list at work has a
\* table to go on with.
TypeOK ==
    /\ ledger \subseteq Requests /\ begun \in 0 .. MaxStatements /\ settled \in BOOLEAN
    /\ \A t \in Tables : rows[t] \in Seq(Row(t))
    /\ \A j \in Jobs :
        /\ job[j].known \cup job[j].seen \subseteq ledger
        /\ job[j].at \in {"ready", "writing"} => job[j].todo # <<>>
    /\ \A t \in Tables : view.rows[t] \subseteq Row(t)
    /\ view.at = "listing" => view.todo # <<>>

\* However rebuilds overlap or fail, a tenant's workspace has at most one row a
\* day, and one per namespace in the other table: what is summed over the rows
\* of a tenant counts a request once.
CountedOnce ==
    \A t \in Tables : \A i, k \in DOMAIN rows[t] :
        Whole(rows[t][i].group) /\ rows[t][i].of \cap rows[t][k].of # {} => i = k

\* A rebuild that was answered, while no other one wrote, has counted every
\* request logged before it began in each of its tables, those without a
\* tenant or a workspace too.
RebuildIsComplete ==
    \A j \in Jobs : job[j].at = "done" /\ job[j].alone =>
        \A i \in DOMAIN TablesOf(job[j].kind), r \in job[j].known :
            LET t == TablesOf(job[j].kind)[i]
            IN  \E k \in DOMAIN rows[t] : r \in rows[t][k].of

\* What is counted is counted once, and nothing is left out.
CountsAreWhole == CountedOnce /\ RebuildIsComplete

\* A row stops counting a request only by the statement of a rebuild that began
\* before another one wrote that table and wrote after it: an old count may
\* replace a newer one, but nothing else ever lowers a count.
CountsNeverShrink ==
    [][\A t \in Tables : \A i \in DOMAIN rows[t] :
        \/ rows[t][i].of \subseteq rows'[t][i].of
        \/ \E j \in Jobs : /\ job[j].at = "writing" /\ job[j].late
                           /\ Head(job[j].todo) = t /\ job'[j] # job[j]]_vars

\* An overview of tables that were last written by an undisturbed rebuild of
\* both, and not while it was read, has a namespace row for every request its
\* usage rows count, unless the limit cut the namespaces: the two tables are
\* rebuilt and read in the same order by separate statements.
OverviewAgrees ==
    view.at = "done" /\ view.kind = "all" /\ view.settled
    /\ Cardinality(view.rows["namespaces"]) < Limit =>
        \A u \in view.rows["usage"] : \A r \in u.of :
            \E n \in view.rows["namespaces"] : r \in n.of
=============================================================================
