------------------------------ MODULE Policies ------------------------------
(***************************************************************************)
(* Scoped policies: numbered versions, the assignment of a version to a    *)
(* workspace, a tenant or everybody, the namespace overrides, and the      *)
(* resolution of the policy that applies                                   *)
(* (src/app/controlplane/repositories/policies.py).  Assigning is four     *)
(* statements without a transaction, resolving is two, and every server    *)
(* that starts makes sure that a global policy exists.                     *)
(*                                                                         *)
(* Both tables, policy_assignments and namespace_policy_overrides, are     *)
(* kept in one sequence, in the order of created_at, and a row is named by *)
(* its position.  Of a row's policy_version_id the model keeps that it     *)
(* names a version, of a version its scope and number.                     *)
(*                                                                         *)
(* An operator named Mut... is a plausible bug in the operation defined    *)
(* below it; it is part of no specification.                               *)
(***************************************************************************)
EXTENDS Integers, Sequences, FiniteSets

CONSTANTS
    None,
    Tenants, Workspaces, Environments,
    Patterns,           \* namespaces of overrides, with '*'
    Namespaces,         \* namespaces a policy is asked for
    Covers,             \* Covers[p]: the namespaces p is LIKE
    Length,             \* Length[p]: characters of p
    Scopes,             \* (scope_type, scope_ref_id) versions are created for
    Keys,               \* what a version is assigned to
    Questions,          \* what a policy is asked for
    Calls,              \* admin calls and server starts in progress at once
    Readers,            \* resolutions in progress at once
    MaxVersions, MaxRows    \* bounds on the tables

\* scope_type and scope_ref_id of a version
ScopeType == [type : STRING, ref : Tenants \cup Workspaces \cup {None}]
\* What the lookup of the previous row compares.  An override has a namespace,
\* an assignment has none.
KeyType == [scope : {"workspace", "tenant", "global", "namespace"},
            tenant : Tenants \cup {None}, workspace : Workspaces \cup {None},
            environment : Environments \cup {None}, namespace : Patterns \cup {None}]

Global == [type |-> "global", ref |-> None]
GlobalKey == [scope |-> "global", tenant |-> None, workspace |-> None,
              environment |-> None, namespace |-> None]

ASSUME PoliciesAssumption ==
    /\ None \notin Tenants \cup Workspaces \cup Environments \cup Patterns
    /\ Covers \in [Patterns -> SUBSET Namespaces]
    /\ Length \in [Patterns -> Nat]
    /\ Scopes \subseteq ScopeType /\ Global \in Scopes
    /\ Keys \subseteq KeyType /\ GlobalKey \in Keys
    /\ Questions \subseteq [tenant : Tenants \cup {None}, workspace : Workspaces \cup {None},
                            environment : Environments \cup {None}, namespace : Namespaces]
    /\ MaxVersions \in Nat /\ MaxRows \in Nat

VARIABLES
    version,    \* policy_versions: per scope, the numbers in the order of insertion
    row,        \* both tables of rows: key and active
    call,       \* what each call is doing
    reader,     \* what each resolution is doing
    inForce,    \* history: per key, the row whose call was answered, made without
                \* another call of the key, and not followed by one; or 0
    overlapped  \* history: keys two calls of which have been in progress at once

vars == <<version, row, call, reader, inForce, overlapped>>

-----------------------------------------------------------------------------
Idle == [at |-> "idle", key |-> GlobalKey, scope |-> Global, number |-> 0,
         prev |-> 0, made |-> 0, alone |-> FALSE]
NoQuestion == [tenant |-> None, workspace |-> None, environment |-> None, namespace |-> None]
Quiet == [at |-> "idle", q |-> NoQuestion, stamp |-> 0, answer |-> 0, floor |-> {}]

IsOverride(k) == k.namespace # None
NumbersOf(s) == {version[s][v] : v \in DOMAIN version[s]}
VersionRows == UNION {{s} \X DOMAIN version[s] : s \in Scopes}
Versioned == \E s \in Scopes : version[s] # <<>>
ActiveOf(k) == {i \in DOMAIN row : row[i].key = k /\ row[i].active}
ActiveGlobal == {i \in DOMAIN row : row[i].key.scope = "global" /\ row[i].active}

Working == {"found", "cleared", "placed", "unassigned"}
\* Calls that may still change the rows of k.
Busy(k) == {c \in Calls : call[c].key = k /\ call[c].at \in Working}

Become(c, rec) == call' = [call EXCEPT ![c] = rec]

\* A call on k begins: it and those in progress overlap, and what was in force
\* is no longer promised.
Enter(c, k, rec) ==
    /\ call' = [d \in Calls |-> IF d = c THEN [rec EXCEPT !.alone = Busy(k) = {}]
                                ELSE IF d \in Busy(k) THEN [call[d] EXCEPT !.alone = FALSE]
                                ELSE call[d]]
    /\ overlapped' = IF Busy(k) = {} THEN overlapped ELSE overlapped \cup {k}
    /\ inForce' = [inForce EXCEPT ![k] = 0]
    /\ reader' = [r \in Readers |-> [reader[r] EXCEPT !.floor = @ \ {inForce[k]}]]

-----------------------------------------------------------------------------
(* POST /admin/control/policy/versions *)

Latest(s) == CHOOSE m \in {0} \cup NumbersOf(s) : \A n \in NumbersOf(s) : n <= m

MutNextNumber(s) == Latest(s)

\* COALESCE(MAX(version_number), 0) + 1
NextNumber(s) == Latest(s) + 1

\* create_policy_version: the next number is read,
CreateVersion(c, s) ==
    /\ call[c].at = "idle"
    /\ Become(c, [Idle EXCEPT !.at = "numbered", !.scope = s, !.number = NextNumber(s)])
    /\ UNCHANGED <<version, row, reader, inForce, overlapped>>

MutNumberFree(s, n) == TRUE

\* UNIQUE (scope_type, scope_ref_id, version_number): NULLs are distinct.
NumberFree(s, n) == s.ref # None => n \notin NumbersOf(s)

\* and the version is inserted under it.
InsertVersion(c) ==
    /\ call[c].at = "numbered" /\ Cardinality(VersionRows) < MaxVersions
    /\ NumberFree(call[c].scope, call[c].number)
    /\ version' = [version EXCEPT ![call[c].scope] = Append(@, call[c].number)]
    /\ Become(c, Idle)
    /\ UNCHANGED <<row, reader, inForce, overlapped>>

-----------------------------------------------------------------------------
(* POST /admin/control/policy/assignments and .../namespace-overrides *)

\* The previous row is looked up: one of the active rows of the key, if any.
FindPrevious(c, k) ==
    /\ call[c].at = "idle"
    /\ \E p \in IF ActiveOf(k) = {} THEN {0} ELSE ActiveOf(k) :
          Enter(c, k, [Idle EXCEPT !.at = "found", !.key = k, !.prev = p])
    /\ UNCHANGED <<version, row>>

MutDeactivate(c) ==
    /\ call[c].at = "found"
    /\ row' = IF IsOverride(call[c].key) \/ call[c].prev = 0 THEN row
              ELSE [row EXCEPT ![call[c].prev].active = FALSE]
    /\ Become(c, [call[c] EXCEPT !.at = "cleared", !.prev = 0])
    /\ UNCHANGED <<version, reader, inForce, overlapped>>

Deactivate(c) ==
    /\ call[c].at = "found"
    /\ row' = IF call[c].prev = 0 THEN row ELSE [row EXCEPT ![call[c].prev].active = FALSE]
    /\ Become(c, [call[c] EXCEPT !.at = "cleared", !.prev = 0])
    /\ UNCHANGED <<version, reader, inForce, overlapped>>

\* policy_version_id REFERENCES policy_versions: with an id of the caller's that
\* names none the insert fails, as any statement may, and Fail is what happens.
Place(c) ==
    /\ Len(row) < MaxRows /\ Versioned
    /\ row' = Append(row, [key |-> call[c].key, active |-> TRUE])

InsertRow(c) ==
    /\ call[c].at = "cleared"
    /\ Place(c)
    /\ Become(c, [call[c] EXCEPT !.at = "placed", !.made = Len(row) + 1])
    /\ UNCHANGED <<version, reader, inForce, overlapped>>

\* _log_policy_change, and the call is answered.
LogChange(c) ==
    /\ call[c].at = "placed"
    /\ inForce' = IF call[c].alone /\ (IsOverride(call[c].key) => call[c].key \notin overlapped)
                  THEN [inForce EXCEPT ![call[c].key] = call[c].made] ELSE inForce
    /\ Become(c, Idle)
    /\ UNCHANGED <<version, row, reader, overlapped>>

\* A statement fails, or the process ends: what was written stays.
Fail(c) ==
    /\ call[c].at # "idle"
    /\ Become(c, Idle)
    /\ UNCHANGED <<version, row, reader, inForce, overlapped>>

-----------------------------------------------------------------------------
(* ensure_global_policy, when a server starts *)

FindGlobalVersion(c) ==
    /\ call[c].at = "idle"
    /\ Become(c, [Idle EXCEPT !.at = IF 1 \in NumbersOf(Global) THEN "versioned" ELSE "unversioned"])
    /\ UNCHANGED <<version, row, reader, inForce, overlapped>>

InsertGlobalVersion(c) ==
    /\ call[c].at = "unversioned" /\ Cardinality(VersionRows) < MaxVersions
    /\ version' = [version EXCEPT ![Global] = Append(@, 1)]
    /\ Become(c, [call[c] EXCEPT !.at = "versioned"])
    /\ UNCHANGED <<row, reader, inForce, overlapped>>

\* Any active row of scope global will do.
FindGlobalAssignment(c) ==
    /\ call[c].at = "versioned"
    /\ IF ActiveGlobal # {}
       THEN Become(c, Idle) /\ UNCHANGED <<reader, inForce, overlapped>>
       ELSE Enter(c, GlobalKey, [Idle EXCEPT !.at = "unassigned"])
    /\ UNCHANGED <<version, row>>

InsertGlobalAssignment(c) ==
    /\ call[c].at = "unassigned"
    /\ Place(c)
    /\ Become(c, Idle)
    /\ UNCHANGED <<version, reader, inForce, overlapped>>

-----------------------------------------------------------------------------
(* GET /admin/control/policy/effective *)

OverrideMatches(k, q) ==
    /\ IsOverride(k)
    /\ k.workspace = q.workspace /\ k.environment \in {None, q.environment}
    /\ q.namespace \in Covers[k.namespace]

\* The environment of an assignment is not looked at.
AssignmentMatches(k, q) ==
    /\ ~IsOverride(k)
    /\ \/ k.scope = "workspace" /\ k.workspace = q.workspace
       \/ k.scope = "tenant" /\ k.tenant = q.tenant
       \/ k.scope = "global"

Rank == [workspace |-> 3, tenant |-> 2, global |-> 1, namespace |-> 0]

\* PolicyResolver.resolve asks the repository for a tenant and a workspace only,
\* and resolve_effective_policy notes the time before it reads.
Ask(r, q) ==
    /\ reader[r].at = "idle" /\ q.tenant # None /\ q.workspace # None
    /\ reader' = [reader EXCEPT ![r] =
         [at |-> "asked", q |-> q, stamp |-> Len(row), answer |-> 0,
          floor |-> {inForce[k] : k \in {m \in Keys : /\ inForce[m] # 0
                                                      /\ OverrideMatches(m, q) \/ AssignmentMatches(m, q)}}]]
    /\ UNCHANGED <<version, row, call, inForce, overlapped>>

\* Without them the answer is the settings of the process: row 0.
AskUnscoped(r, q) ==
    /\ reader[r].at = "idle" /\ None \in {q.tenant, q.workspace}
    /\ reader' = [reader EXCEPT ![r] = [Quiet EXCEPT !.at = "answered", !.q = q]]
    /\ UNCHANGED <<version, row, call, inForce, overlapped>>

Answer(r, i) ==
    reader' = [reader EXCEPT ![r] = [@ EXCEPT !.at = "answered", !.stamp = 0, !.answer = i]]

\* The longest pattern wins; which of several as long is not said.
ReadOverrides(r) ==
    LET found == {i \in DOMAIN row : row[i].active /\ OverrideMatches(row[i].key, reader[r].q)}
        longest == {i \in found : \A j \in found :
                       Length[row[j].key.namespace] <= Length[row[i].key.namespace]}
    IN  /\ reader[r].at = "asked"
        /\ IF found = {} THEN reader' = [reader EXCEPT ![r].at = "general"]
           ELSE \E i \in longest : Answer(r, i)
        /\ UNCHANGED <<version, row, call, inForce, overlapped>>

Outranks(i, j) ==
    LET a == Rank[row[i].key.scope]
        b == Rank[row[j].key.scope]
    IN  a > b \/ (a = b /\ i >= j)

\* The highest scope wins, and of its rows the newest of those made by the time noted.
ReadAssignments(r) ==
    LET found == {i \in 1..reader[r].stamp : row[i].active /\ AssignmentMatches(row[i].key, reader[r].q)}
        best == {i \in found : \A j \in found : Outranks(i, j)}
    IN  /\ reader[r].at = "general"
        /\ \E i \in IF found = {} THEN {0} ELSE best : Answer(r, i)
        /\ UNCHANGED <<version, row, call, inForce, overlapped>>

Leave(r) ==
    /\ reader[r].at = "answered"
    /\ reader' = [reader EXCEPT ![r] = Quiet]
    /\ UNCHANGED <<version, row, call, inForce, overlapped>>

-----------------------------------------------------------------------------
Init ==
    /\ version = [s \in Scopes |-> <<>>] /\ row = <<>>
    /\ call = [c \in Calls |-> Idle]
    /\ reader = [r \in Readers |-> Quiet]
    /\ inForce = [k \in Keys |-> 0]
    /\ overlapped = {}

Create(c) == \E s \in Scopes : CreateVersion(c, s)
AssignPolicy(c) == \E k \in Keys : ~IsOverride(k) /\ FindPrevious(c, k)
SetNamespaceOverride(c) == \E k \in Keys : IsOverride(k) /\ FindPrevious(c, k)

CallStep(c) ==
    \/ Create(c) \/ InsertVersion(c)
    \/ AssignPolicy(c) \/ SetNamespaceOverride(c) \/ Deactivate(c) \/ InsertRow(c) \/ LogChange(c)
    \/ FindGlobalVersion(c) \/ InsertGlobalVersion(c)
    \/ FindGlobalAssignment(c) \/ InsertGlobalAssignment(c)
    \/ Fail(c)

ReaderStep(r) ==
    \/ \E q \in Questions : Ask(r, q) \/ AskUnscoped(r, q)
    \/ ReadOverrides(r) \/ ReadAssignments(r) \/ Leave(r)

Next == (\E c \in Calls : CallStep(c)) \/ (\E r \in Readers : ReaderStep(r))

Spec == Init /\ [][Next]_vars

-----------------------------------------------------------------------------
(* Properties *)

Rows == 0..Len(row)
CallType == [at : {"idle", "numbered", "unversioned", "versioned"} \cup Working,
             key : Keys, scope : Scopes, number : Nat,
             prev : Rows, made : Rows, alone : BOOLEAN]
ReaderType == [at : {"idle", "asked", "general", "answered"}, q : Questions \cup {NoQuestion},
               stamp : Rows, answer : Rows, floor : SUBSET (DOMAIN row)]

\* Rows and versions are of the columns' types, there is no row without a version
\* to name, and calls, resolutions and what is in force name rows that exist.
TypeOK ==
    /\ version \in [Scopes -> Seq(Nat \ {0})]
    /\ row \in Seq([key : Keys, active : BOOLEAN]) /\ (row # <<>> => Versioned)
    /\ call \in [Calls -> CallType]
    /\ reader \in [Readers -> ReaderType]
    /\ inForce \in [Keys -> Rows]
    /\ overlapped \subseteq Keys

\* The versions of a scope are numbered from 1 without a gap, and those of a
\* tenant or a workspace without a repetition, although the number is read by one
\* statement and used by a later one; the versions of the global scope may repeat
\* a number, their constraint does not see NULL (create_policy_version).
VersionsNumbered ==
    \A s \in Scopes : \A v \in DOMAIN version[s] :
       /\ 1..version[s][v] \subseteq NumbersOf(s)
       /\ s.ref # None => \A w \in DOMAIN version[s] : version[s][w] = version[s][v] => w = v

\* i serves at least as well as j: an override before an assignment, a longer
\* pattern before a shorter, a higher scope before a lower, a newer row before an older.
AtLeast(i, j) ==
    LET a == row[i].key
        b == row[j].key
    IN  IF IsOverride(b)
        THEN IsOverride(a) /\ Length[a.namespace] >= Length[b.namespace] /\ (a = b => i >= j)
        ELSE IsOverride(a) \/ Outranks(i, j)

\* An assignment or override whose call was answered, and during which and since
\* no other call of its key was made, is what a resolution uses, unless one of a
\* higher place applies: no replaced policy comes back, whatever other keys, failed
\* calls and starting servers did (resolve_effective_policy).
ResolvesInForce ==
    \A r \in Readers : reader[r].at = "answered" =>
       \A j \in reader[r].floor : reader[r].answer # 0 /\ AtLeast(reader[r].answer, j)
=============================================================================
