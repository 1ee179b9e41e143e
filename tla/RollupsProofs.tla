---------------------------- MODULE RollupsProofs ----------------------------
(***************************************************************************)
(* Theorems about Rollups, for any number of requests, rebuilds and        *)
(* statements.                                                             *)
(*                                                                         *)
(* What a statement leaves of a table is said once, by UpsertOld,          *)
(* UpsertNew and UpsertCounts; the properties follow from facts about the  *)
(* rows (RowsInv), about what each rebuild has seen and written (JobsInv)  *)
(* and about what a list has read (ViewInv).                               *)
(***************************************************************************)
EXTENDS Rollups, FiniteSetTheorems, TLAPS

-----------------------------------------------------------------------------
(* The inductive invariant *)

\* What is left to do of a rebuild, or a list, of this kind
Left(kind, todo) ==
    \/ todo = TablesOf(kind)
    \/ kind = "all" /\ todo = <<"namespaces">>

AnyTodo == {<<>>, <<"usage">>, <<"namespaces">>, <<"usage", "namespaces">>}

JobRecord ==
    [at : {"idle", "ready", "writing", "done"}, kind : Kinds, todo : AnyTodo,
     known : SUBSET Requests, seen : SUBSET Requests, stamp : Nat,
     late : BOOLEAN, alone : BOOLEAN]

ViewRecord ==
    [at : {"idle", "listing", "done"}, kind : Kinds, todo : AnyTodo,
     tenant : Tenants \cup {None},
     rows : [Tables -> SUBSET (Row("usage") \cup Row("namespaces"))], settled : BOOLEAN]

TypeInv ==
    /\ ledger \subseteq Requests /\ IsFiniteSet(ledger)
    /\ begun \in 0 .. MaxStatements /\ settled \in BOOLEAN
    /\ DOMAIN rows = Tables /\ \A t \in Tables : rows[t] \in Seq(Row(t))
    /\ job \in [Jobs -> JobRecord]
    /\ \A j \in Jobs :
        /\ job[j].known \subseteq ledger /\ job[j].seen \subseteq ledger
        /\ job[j].at \in {"ready", "writing"} => Left(job[j].kind, job[j].todo)
    /\ view \in ViewRecord /\ \A t \in Tables : view.rows[t] \subseteq Row(t)
    /\ view.at = "listing" => Left(view.kind, view.todo)

\* A row counts logged requests of its group; a whole group has one row; two
\* rows of a group were written by different statements, none of which is yet
\* to write.
RowsInv ==
    \A t \in Tables : \A i \in DOMAIN rows[t] :
        /\ \A r \in rows[t][i].of : r \in ledger /\ GroupOf(t, r) = rows[t][i].group
        /\ rows[t][i].at <= begun
        /\ \A j \in Jobs : job[j].at = "writing" => rows[t][i].at # job[j].stamp
        /\ \A k \in DOMAIN rows[t] : i # k /\ rows[t][i].group = rows[t][k].group =>
                ~Whole(rows[t][i].group) /\ rows[t][i].at # rows[t][k].at

\* The rows of t count these requests
CountsAll(t, R) == \A r \in R : \E k \in DOMAIN rows[t] : r \in rows[t][k].of

\* The requests the rows of t count
CountedIn(t) == UNION {rows[t][i].of : i \in DOMAIN rows[t]}

\* A statement about to write has seen what its rebuild knew, what its table
\* counts unless it is late, and what any table counts while it is alone.
StatementSound(j) ==
    job[j].at = "writing" =>
        /\ job[j].stamp <= begun
        /\ \A k \in Jobs : job[k].at = "writing" /\ k # j => job[k].stamp # job[j].stamp
        /\ job[j].known \subseteq job[j].seen
        /\ ~job[j].late => CountedIn(Head(job[j].todo)) \subseteq job[j].seen
        /\ job[j].alone => \A t \in Tables : CountedIn(t) \subseteq job[j].seen

\* A rebuild that is alone has counted what it knew in the tables it is done with.
CountedSoFar(j) ==
    /\ job[j].alone /\ job[j].at \in {"ready", "writing"}
       /\ job[j].todo # TablesOf(job[j].kind) => CountsAll("usage", job[j].known)
    /\ job[j].alone /\ job[j].at = "done" =>
        \A i \in DOMAIN TablesOf(job[j].kind) :
            CountsAll(TablesOf(job[j].kind)[i], job[j].known)

JobsInv == \A j \in Jobs : StatementSound(j) /\ CountedSoFar(j)

ListedOf(t, S) == {rows[t][i] : i \in S}

\* Settled tables agree, and a list whose tables are settled holds their rows.
ViewInv ==
    /\ settled => CountsAll("namespaces", CountedIn("usage"))
    /\ view.at # "idle" /\ view.settled =>
        /\ settled
        /\ view.kind = "all" /\ view.todo # TablesOf("all") =>
            view.rows["usage"] \subseteq ListedOf("usage", Matching("usage", view.tenant))
        /\ view.kind = "all" /\ view.at = "done" =>
            /\ view.todo = <<>>
            /\ \E S \in Listed("namespaces", view.tenant) :
                view.rows["namespaces"] = ListedOf("namespaces", S)

RollupsInv == TypeInv /\ RowsInv /\ JobsInv /\ ViewInv

-----------------------------------------------------------------------------
(* What a statement writes *)

Grouped(t, seen) == {GroupOf(t, r) : r \in seen}
Counted(t, seen, at, g) == [group |-> g, of |-> {r \in seen : GroupOf(t, r) = g}, at |-> at]

\* A finite set as a sequence holds each of its members once.
LEMMA SequenceOfSet ==
    ASSUME NEW S, IsFiniteSet(S)
    PROVE  /\ SetToSeq(S) \in Seq(S)
           /\ \A x \in S : \E i \in 1 .. Len(SetToSeq(S)) : SetToSeq(S)[i] = x
           /\ \A i, k \in 1 .. Len(SetToSeq(S)) : SetToSeq(S)[i] = SetToSeq(S)[k] => i = k
<1>1. Cardinality(S) \in Nat /\ ExistsBijection(1 .. Cardinality(S), S)
    BY FS_CardinalityType
<1>2. PICK f \in Bijection(1 .. Cardinality(S), S) : TRUE
    BY <1>1 DEF ExistsBijection
<1>3. f \in [1 .. Cardinality(S) -> S] /\ IsInjective(f)
    BY <1>2 DEF Bijection, Injection
<1>4. SetToSeq(S) \in [1 .. Cardinality(S) -> S] /\ IsInjective(SetToSeq(S))
    BY <1>3 DEF SetToSeq
<1>5. SetToSeq(S) \in Seq(S) /\ Len(SetToSeq(S)) = Cardinality(S)
    BY <1>1, <1>4
<1>6. SetToSeq(S) \in Injection(1 .. Cardinality(S), S)
    BY <1>4 DEF Injection
<1>7. IsFiniteSet(1 .. Cardinality(S)) /\ Cardinality(1 .. Cardinality(S)) = Cardinality(S)
    BY <1>1, FS_Interval
<1>8. SetToSeq(S) \in Surjection(1 .. Cardinality(S), S)
    BY <1>6, <1>7, FS_Injection
<1>9. \A x \in S : \E i \in 1 .. Cardinality(S) : SetToSeq(S)[i] = x
    BY <1>8 DEF Surjection
<1>10. QED
    BY <1>1, <1>4, <1>5, <1>9 DEF IsInjective

\* The image of a finite set is finite.
LEMMA GroupsFinite ==
    ASSUME NEW t, NEW seen, IsFiniteSet(seen), NEW at
    PROVE  IsFiniteSet({Counted(t, seen, at, g) :
                           g \in {h \in Grouped(t, seen) : ~FoundRow(t, h)}})
<1> DEFINE fresh == {h \in Grouped(t, seen) : ~FoundRow(t, h)}
<1>1. [r \in seen |-> GroupOf(t, r)] \in Surjection(seen, Grouped(t, seen))
    BY DEF Surjection, Grouped
<1>2. IsFiniteSet(Grouped(t, seen))
    BY <1>1, FS_Surjection
<1>3. IsFiniteSet(fresh)
    BY <1>2, FS_Subset
<1>4. [g \in fresh |-> Counted(t, seen, at, g)]
        \in Surjection(fresh, {Counted(t, seen, at, g) : g \in fresh})
    BY DEF Surjection
<1>5. QED
    BY <1>3, <1>4, FS_Surjection

\* A request is of a group of the table.
LEMMA GroupOfType ==
    ASSUME NEW t \in Tables, NEW r \in Requests
    PROVE  GroupOf(t, r) \in Groups(t)
BY RollupsAssumption DEF GroupOf, Groups, Tables

\* What is counted of a group the statement saw is a row of the table.
LEMMA CountedType ==
    ASSUME NEW t \in Tables, NEW seen \in SUBSET Requests, NEW at \in Nat,
           NEW g \in Grouped(t, seen)
    PROVE  Counted(t, seen, at, g) \in Row(t)
BY GroupOfType DEF Counted, Grouped, Row

\* A row that was there keeps its place and group; it is written anew if its
\* group is whole and was seen, and is as it was otherwise.  The rows added
\* have each a group of its own that was seen and not found.
LEMMA UpsertShape ==
    ASSUME NEW t \in Tables, rows[t] \in Seq(Row(t)),
           NEW seen \in SUBSET Requests, IsFiniteSet(seen), NEW at \in Nat
    PROVE  LET u == Upsert(t, seen, at)
               n == Len(rows[t])
               G == Grouped(t, seen)
           IN  /\ u \in Seq(Row(t)) /\ n <= Len(u) /\ n \in Nat
               /\ \A i \in 1 .. n :
                    LET g == rows[t][i].group
                    IN  u[i] = IF Whole(g) /\ g \in G THEN Counted(t, seen, at, g) ELSE rows[t][i]
               /\ \A i \in n + 1 .. Len(u) :
                    \E g \in G : ~FoundRow(t, g) /\ u[i] = Counted(t, seen, at, g)
               /\ \A i, k \in n + 1 .. Len(u) : u[i] = u[k] => i = k
               /\ \A g \in G : ~FoundRow(t, g) =>
                    \E i \in n + 1 .. Len(u) : u[i] = Counted(t, seen, at, g)
<1> DEFINE u == Upsert(t, seen, at)
           n == Len(rows[t])
           G == Grouped(t, seen)
           C(g) == Counted(t, seen, at, g)
           old == [i \in DOMAIN rows[t] |->
                     LET g == rows[t][i].group
                     IN  IF Whole(g) /\ g \in G THEN C(g) ELSE rows[t][i]]
           S == {C(g) : g \in {h \in G : ~FoundRow(t, h)}}
           new == SetToSeq(S)
<1>1. u = old \o new
    BY DEF Upsert, Grouped, Counted
<1>2. /\ new \in Seq(S)
      /\ \A x \in S : \E i \in 1 .. Len(new) : new[i] = x
      /\ \A i, k \in 1 .. Len(new) : new[i] = new[k] => i = k
    <2>1. IsFiniteSet(S)
        BY GroupsFinite
    <2>2. QED
        BY <2>1, SequenceOfSet
<1>3. n \in Nat /\ DOMAIN rows[t] = 1 .. n
    OBVIOUS
<1>4. \A g \in G : C(g) \in Row(t)
    BY CountedType
<1>5. S \subseteq Row(t)
    BY <1>4
<1>6. new \in Seq(Row(t))
    BY <1>2, <1>5
<1>7. \A i \in 1 .. n : old[i] \in Row(t)
    BY <1>3, <1>4
<1>8. old \in Seq(Row(t)) /\ Len(old) = n
    <2>1. DOMAIN old = 1 .. n
        BY <1>3
    <2>2. old = [i \in 1 .. n |-> old[i]]
        BY <1>3
    <2> HIDE DEF old, n
    <2>3. old \in [1 .. n -> Row(t)]
        BY <1>7, <2>2
    <2>4. QED
        BY <1>3, <2>1, <2>3
<1> HIDE DEF C, G, S, old, new, u, n
<1>9. u \in Seq(Row(t)) /\ Len(u) = n + Len(new) /\ Len(new) \in Nat
    <2>1. old \o new \in Seq(Row(t)) /\ Len(old \o new) = Len(old) + Len(new)
        BY <1>6, <1>8
    <2>2. QED
        BY <1>1, <1>6, <1>8, <2>1
<1>10. \A i \in 1 .. n : u[i] = old[i]
    BY <1>1, <1>3, <1>6, <1>8
<1>11. \A i \in 1 .. Len(new) : u[n + i] = new[i] /\ n + i \in n + 1 .. Len(u)
    BY <1>1, <1>3, <1>6, <1>8, <1>9
<1>12. \A i \in n + 1 .. Len(u) : i - n \in 1 .. Len(new) /\ u[i] = new[i - n]
    BY <1>3, <1>9, <1>11
<1>13. \A i \in 1 .. n :
        LET g == rows[t][i].group IN u[i] = IF Whole(g) /\ g \in G THEN C(g) ELSE rows[t][i]
    BY <1>3, <1>10 DEF old
<1>14. \A i \in 1 .. Len(new) : new[i] \in S
    BY <1>2
<1>15. \A i \in n + 1 .. Len(u) : \E g \in G : ~FoundRow(t, g) /\ u[i] = C(g)
    BY <1>12, <1>14 DEF S
<1>16. \A i, k \in n + 1 .. Len(u) : u[i] = u[k] => i = k
    <2>1. SUFFICES ASSUME NEW i \in n + 1 .. Len(u), NEW k \in n + 1 .. Len(u), u[i] = u[k]
                   PROVE  i = k
        OBVIOUS
    <2>2. i - n = k - n
        BY ZenonT(60), <1>2, <1>12, <2>1
    <2>3. QED
        BY <1>3, <1>9, <2>2
<1>17. \A g \in G : ~FoundRow(t, g) => \E i \in n + 1 .. Len(u) : u[i] = C(g)
    BY <1>2, <1>11 DEF S
<1>18. QED
    BY <1>3, <1>9, <1>13, <1>15, <1>16, <1>17 DEF C, G, u, n

\* Every request the statement saw is counted in a row afterwards, and what it
\* counts is what it saw and what was counted before.
LEMMA UpsertCounts ==
    ASSUME NEW t \in Tables, rows[t] \in Seq(Row(t)),
           NEW seen \in SUBSET Requests, IsFiniteSet(seen), NEW at \in Nat
    PROVE  LET u == Upsert(t, seen, at)
           IN  /\ \A r \in seen : \E i \in DOMAIN u : r \in u[i].of
               /\ \A i \in DOMAIN u : u[i].of \subseteq seen \/ (i \in DOMAIN rows[t] /\ u[i] = rows[t][i])
<1> DEFINE u == Upsert(t, seen, at)
           n == Len(rows[t])
           G == Grouped(t, seen)
           C(g) == Counted(t, seen, at, g)
<1>1. /\ u \in Seq(Row(t)) /\ n <= Len(u) /\ n \in Nat
      /\ \A i \in 1 .. n :
           LET g == rows[t][i].group IN u[i] = IF Whole(g) /\ g \in G THEN C(g) ELSE rows[t][i]
      /\ \A i \in n + 1 .. Len(u) : \E g \in G : ~FoundRow(t, g) /\ u[i] = C(g)
      /\ \A g \in G : ~FoundRow(t, g) => \E i \in n + 1 .. Len(u) : u[i] = C(g)
    BY UpsertShape
<1>2. DOMAIN u = 1 .. Len(u) /\ DOMAIN rows[t] = 1 .. n /\ Len(u) \in Nat
    BY <1>1
<1>3. \A g : C(g).of = {r \in seen : GroupOf(t, r) = g}
    BY DEF Counted
<1> HIDE DEF u, n, C
<1>4. ASSUME NEW r \in seen
      PROVE  \E i \in DOMAIN u : r \in u[i].of
    <2> DEFINE g == GroupOf(t, r)
    <2>1. g \in G /\ r \in C(g).of
        BY <1>3 DEF Grouped
    <2>2. CASE FoundRow(t, g)
        <3>1. PICK i \in DOMAIN rows[t] : Whole(g) /\ rows[t][i].group = g
            BY <2>2 DEF FoundRow
        <3>2. u[i] = C(g)
            BY <1>1, <1>2, <2>1, <3>1
        <3>3. QED
            BY <1>1, <1>2, <2>1, <3>2
    <2>3. CASE ~FoundRow(t, g)
        BY <1>1, <1>2, <2>1, <2>3
    <2>4. QED
        BY <2>2, <2>3
<1>5. ASSUME NEW i \in DOMAIN u
      PROVE  u[i].of \subseteq seen \/ (i \in DOMAIN rows[t] /\ u[i] = rows[t][i])
    <2>1. CASE i \in 1 .. n
        <3>1. u[i] = C(rows[t][i].group) \/ u[i] = rows[t][i]
            BY <1>1, <2>1
        <3>2. QED
            BY <1>2, <1>3, <2>1, <3>1
    <2>2. CASE i \in n + 1 .. Len(u)
        <3>1. PICK g \in G : u[i] = C(g)
            BY <1>1, <2>2
        <3>2. QED
            BY <1>3, <3>1
    <2>3. QED
        BY <1>1, <1>2, <2>1, <2>2
<1>6. QED
    BY <1>4, <1>5 DEF u

\* With a stamp of its own, a statement keeps a table's rows sound.
LEMMA UpsertKeepsRows ==
    ASSUME NEW t \in Tables, rows[t] \in Seq(Row(t)), RowsInv, ledger \subseteq Requests,
           NEW seen \in SUBSET ledger, IsFiniteSet(seen), NEW at \in Nat,
           \A i \in DOMAIN rows[t] : rows[t][i].at # at
    PROVE  LET u == Upsert(t, seen, at)
           IN  \A i \in DOMAIN u :
                /\ \A r \in u[i].of : r \in ledger /\ GroupOf(t, r) = u[i].group
                /\ u[i].at = at \/ (i \in DOMAIN rows[t] /\ u[i].at = rows[t][i].at)
                /\ \A k \in DOMAIN u : i # k /\ u[i].group = u[k].group =>
                        ~Whole(u[i].group) /\ u[i].at # u[k].at
<1> DEFINE u == Upsert(t, seen, at)
           n == Len(rows[t])
           G == Grouped(t, seen)
           C(g) == Counted(t, seen, at, g)
           new(i) == \E g \in G : ~FoundRow(t, g) /\ u[i] = C(g)
<1>1. /\ u \in Seq(Row(t)) /\ n <= Len(u) /\ n \in Nat
      /\ \A i \in 1 .. n :
           LET g == rows[t][i].group IN u[i] = IF Whole(g) /\ g \in G THEN C(g) ELSE rows[t][i]
      /\ \A i \in n + 1 .. Len(u) : new(i)
      /\ \A i, k \in n + 1 .. Len(u) : u[i] = u[k] => i = k
    BY UpsertShape
<1>2. DOMAIN u = 1 .. Len(u) /\ DOMAIN rows[t] = 1 .. n /\ Len(u) \in Nat
    BY <1>1
<1>3. \A g : C(g).of = {r \in seen : GroupOf(t, r) = g} /\ C(g).group = g /\ C(g).at = at
    BY DEF Counted
<1>4. \A i \in 1 .. n :
        /\ \A r \in rows[t][i].of : r \in ledger /\ GroupOf(t, r) = rows[t][i].group
        /\ \A k \in 1 .. n : i # k /\ rows[t][i].group = rows[t][k].group =>
                ~Whole(rows[t][i].group) /\ rows[t][i].at # rows[t][k].at
    BY <1>2 DEF RowsInv
<1> HIDE DEF u, n, C, G
<1>5. \A i \in 1 .. n : /\ u[i].group = rows[t][i].group
                        /\ u[i] = C(rows[t][i].group) \/ u[i] = rows[t][i]
                        /\ ~Whole(u[i].group) => u[i] = rows[t][i]
    BY <1>1, <1>3
<1>6. \A i \in n + 1 .. Len(u) : u[i] = C(u[i].group) /\ ~FoundRow(t, u[i].group)
    BY <1>1, <1>3
<1>7. \A i \in DOMAIN u : i \in 1 .. n \/ i \in n + 1 .. Len(u)
    BY <1>1, <1>2
<1>8. ASSUME NEW i \in DOMAIN u
      PROVE  /\ \A r \in u[i].of : r \in ledger /\ GroupOf(t, r) = u[i].group
             /\ u[i].at = at \/ (i \in DOMAIN rows[t] /\ u[i].at = rows[t][i].at)
    <2>1. u[i] = C(u[i].group) \/ (i \in 1 .. n /\ u[i] = rows[t][i])
        BY <1>5, <1>6, <1>7
    <2>2. QED
        BY <1>2, <1>3, <1>4, <2>1
<1>9. ASSUME NEW i \in 1 .. n, NEW k \in n + 1 .. Len(u), u[i].group = u[k].group
      PROVE  ~Whole(u[i].group) /\ u[i].at # u[k].at
    <2>1. rows[t][i].group = u[k].group
        BY <1>5, <1>9
    <2>2. ~Whole(u[i].group)
        BY <1>2, <1>6, <1>9, <2>1 DEF FoundRow
    <2>3. u[i].at = rows[t][i].at /\ u[k].at = at
        BY <1>3, <1>5, <1>6, <2>2
    <2>4. QED
        BY <1>2, <2>2, <2>3
<1>10. ASSUME NEW i \in DOMAIN u, NEW k \in DOMAIN u, i # k, u[i].group = u[k].group
       PROVE  ~Whole(u[i].group) /\ u[i].at # u[k].at
    <2>1. CASE i \in 1 .. n /\ k \in 1 .. n
        BY <1>4, <1>5, <1>10, <2>1
    <2>2. CASE i \in n + 1 .. Len(u) /\ k \in n + 1 .. Len(u)
        BY <1>1, <1>6, <1>10, <2>2
    <2>3. QED
        BY <1>7, <1>9, <1>10, <2>1, <2>2
<1>11. QED
    BY <1>8, <1>10 DEF u

\* A statement that has seen what a row counts takes nothing from it.
LEMMA UpsertGrows ==
    ASSUME NEW t \in Tables, rows[t] \in Seq(Row(t)), RowsInv,
           NEW seen \in SUBSET Requests, IsFiniteSet(seen), NEW at \in Nat,
           NEW i \in DOMAIN rows[t], rows[t][i].of \subseteq seen
    PROVE  rows[t][i].of \subseteq Upsert(t, seen, at)[i].of
<1> DEFINE u == Upsert(t, seen, at)
           g == rows[t][i].group
<1>1. u[i] = Counted(t, seen, at, g) \/ u[i] = rows[t][i]
    BY SMTT(60), UpsertShape
<1>2. \A r \in rows[t][i].of : GroupOf(t, r) = g
    BY DEF RowsInv
<1>3. Counted(t, seen, at, g).of = {r \in seen : GroupOf(t, r) = g}
    BY DEF Counted
<1>4. QED
    BY <1>1, <1>2, <1>3

-----------------------------------------------------------------------------
(* Types *)

\* What is left of a rebuild: one table, or the second of both, or both.
LEMMA TodoCases ==
    ASSUME NEW kind \in Kinds, NEW todo, Left(kind, todo)
    PROVE  /\ todo \in AnyTodo /\ todo # <<>> /\ Head(todo) \in Tables
           /\ \/ /\ kind \in Tables /\ todo = TablesOf(kind)
                 /\ Head(todo) = kind /\ Tail(todo) = <<>>
              \/ /\ kind = "all" /\ todo = <<"namespaces">> /\ todo # TablesOf(kind)
                 /\ Head(todo) = "namespaces" /\ Tail(todo) = <<>>
              \/ /\ kind = "all" /\ todo = TablesOf(kind)
                 /\ Head(todo) = "usage" /\ Tail(todo) = <<"namespaces">>
<1>1. <<"namespaces">> # <<"usage", "namespaces">>
    <2>1. Len(<<"namespaces">>) = 1 /\ Len(<<"usage", "namespaces">>) = 2
        OBVIOUS
    <2>2. QED
        BY <2>1
<1>2. CASE kind = "all" /\ todo = <<"namespaces">>
    BY <1>1, <1>2 DEF AnyTodo, TablesOf, Tables
<1>3. CASE kind = "all" /\ todo = <<"usage", "namespaces">>
    BY <1>3 DEF AnyTodo, TablesOf, Tables
<1>4. CASE kind \in Tables /\ todo = <<kind>>
    BY <1>4 DEF AnyTodo, TablesOf, Tables
<1>5. kind = "all" \/ kind \in Tables
    BY DEF Kinds
<1>6. QED
    BY <1>2, <1>3, <1>4, <1>5 DEF Left, TablesOf, Tables

LEMMA NoViewTyped ==
    /\ NoView \in ViewRecord /\ NoView.at = "idle" /\ NoView.settled = FALSE
    /\ \A t \in Tables : NoView.rows[t] = {}
BY DEF NoView, ViewRecord, Kinds, AnyTodo

LEMMA TypeInit == Init => TypeInv
<1> SUFFICES ASSUME Init PROVE TypeInv
    OBVIOUS
<1>1. IsFiniteSet({})
    BY FS_EmptySet
<1>2. Idle \in JobRecord
    BY DEF Idle, JobRecord, Kinds, AnyTodo
<1>3. \A t \in Tables : rows[t] \in Seq(Row(t)) /\ view.rows[t] \subseteq Row(t)
    BY DEF Init, NoView
<1>4. /\ ledger \subseteq Requests /\ IsFiniteSet(ledger)
      /\ begun \in 0 .. MaxStatements /\ settled \in BOOLEAN
    <2>1. MaxStatements \in Nat
        BY RollupsAssumption
    <2>2. ledger = {} /\ begun = 0 /\ settled = FALSE
        BY DEF Init
    <2>3. IsFiniteSet(ledger)
        BY <1>1, <2>2, Zenon
    <2>4. 0 \in 0 .. MaxStatements
        BY <2>1
    <2>5. QED
        BY <2>2, <2>3, <2>4
<1>5. DOMAIN rows = Tables /\ job \in [Jobs -> JobRecord]
    BY <1>2 DEF Init
<1>6. \A j \in Jobs : job[j].known = {} /\ job[j].seen = {} /\ job[j].at = "idle"
    BY DEF Init, Idle
<1>7. view.at = "idle" /\ view \in ViewRecord
    BY NoViewTyped DEF Init
<1>8. QED
    BY <1>3, <1>4, <1>5, <1>6, <1>7 DEF TypeInv

\* What a step leaves of the types it does not touch
JobTyped(j) ==
    /\ job[j] \in JobRecord
    /\ job[j].known \subseteq ledger /\ job[j].seen \subseteq ledger
    /\ job[j].at \in {"ready", "writing"} => Left(job[j].kind, job[j].todo)

LEMMA JobsTyped == TypeInv => \A j \in Jobs : JobTyped(j)
BY DEF TypeInv, JobTyped

\* A rebuild, begun or not, is of a kind and knows what is logged.
LEMMA TypeStart ==
    ASSUME TypeInv, NEW j \in Jobs, NEW kind \in Kinds, StartRebuild(j, kind)
    PROVE  TypeInv'
<1> DEFINE new == [Idle EXCEPT !.at = "ready", !.kind = kind,
                               !.todo = TablesOf(kind), !.known = ledger]
<1>1. Left(kind, TablesOf(kind))
    BY DEF Left
<1>2. TablesOf(kind) \in AnyTodo
    BY <1>1, TodoCases
<1>3. /\ new \in JobRecord /\ new.kind = kind /\ new.todo = TablesOf(kind)
      /\ new.known \subseteq ledger /\ new.seen \subseteq ledger
    BY <1>2 DEF TypeInv, JobRecord, Idle
<1>4. job' = [job EXCEPT ![j] = new]
    BY DEF StartRebuild
<1> HIDE DEF new
<1>5. job' \in [Jobs -> JobRecord]
    BY <1>3, <1>4 DEF TypeInv
<1>6. \A k \in Jobs :
        /\ job'[k].known \subseteq ledger /\ job'[k].seen \subseteq ledger
        /\ job'[k].at \in {"ready", "writing"} => Left(job'[k].kind, job'[k].todo)
    BY <1>1, <1>3, <1>4 DEF TypeInv
<1>7. QED
    BY <1>5, <1>6 DEF TypeInv, StartRebuild, Left

LEMMA TypeBegin ==
    ASSUME TypeInv, NEW j \in Jobs, BeginStatement(j)
    PROVE  TypeInv'
<1> DEFINE new == [job[j] EXCEPT !.at = "writing", !.seen = ledger,
                                 !.stamp = begun + 1, !.late = FALSE]
<1>1. begun \in Nat /\ begun + 1 \in 0 .. MaxStatements
    BY RollupsAssumption DEF TypeInv, BeginStatement
<1>2. JobTyped(j)
    BY JobsTyped
<1>3. /\ new \in JobRecord /\ new.kind = job[j].kind /\ new.todo = job[j].todo
      /\ new.known \subseteq ledger /\ new.seen \subseteq ledger
    <2>1. job[j] \in JobRecord /\ job[j].known \subseteq ledger /\ ledger \subseteq Requests
        BY <1>2 DEF JobTyped, TypeInv
    <2>2. begun + 1 \in Nat
        BY <1>1
    <2>3. QED
        BY <2>1, <2>2 DEF JobRecord
<1>4. job' = [job EXCEPT ![j] = new]
    BY DEF BeginStatement
<1> HIDE DEF new
<1>5. job' \in [Jobs -> JobRecord]
    BY <1>3, <1>4 DEF TypeInv
<1>6. \A k \in Jobs :
        /\ job'[k].known \subseteq ledger /\ job'[k].seen \subseteq ledger
        /\ job'[k].at \in {"ready", "writing"} => Left(job'[k].kind, job'[k].todo)
    BY <1>3, <1>4 DEF TypeInv, BeginStatement
<1>7. QED
    BY <1>1, <1>5, <1>6 DEF TypeInv, BeginStatement, Left

\* A write types what it writes, and leaves each rebuild one table less.
LEMMA TypeWrite ==
    ASSUME TypeInv, NEW j \in Jobs, Write(j)
    PROVE  TypeInv'
<1> DEFINE t == Head(job[j].todo)
           rest == Tail(job[j].todo)
           after == [Idle EXCEPT !.at = IF rest = <<>> THEN "done" ELSE "ready",
                                 !.kind = job[j].kind, !.todo = rest,
                                 !.known = job[j].known, !.alone = job[j].alone]
<1>1. JobTyped(j) /\ job[j].at = "writing"
    BY JobsTyped DEF Write
<1>2. /\ job[j].kind \in Kinds /\ job[j].alone \in BOOLEAN /\ job[j].stamp \in Nat
      /\ job[j].known \in SUBSET Requests /\ job[j].seen \in SUBSET Requests
      /\ job[j].known \subseteq ledger /\ job[j].seen \subseteq ledger
      /\ Left(job[j].kind, job[j].todo)
    BY <1>1 DEF JobTyped, JobRecord
<1>3. t \in Tables /\ rest \in AnyTodo /\ (rest # <<>> => Left(job[j].kind, rest))
    BY <1>2, TodoCases DEF Left, AnyTodo
<1>4. IsFiniteSet(job[j].seen) /\ rows[t] \in Seq(Row(t))
    BY <1>2, <1>3, FS_Subset DEF TypeInv
<1>5. Upsert(t, job[j].seen, job[j].stamp) \in Seq(Row(t))
    BY <1>2, <1>3, <1>4, UpsertShape
<1>6. rows' = [rows EXCEPT ![t] = Upsert(t, job[j].seen, job[j].stamp)]
    BY DEF Write
<1>7. DOMAIN rows' = Tables /\ \A s \in Tables : rows'[s] \in Seq(Row(s))
    BY <1>3, <1>5, <1>6 DEF TypeInv
<1>8. /\ after \in JobRecord /\ after.kind = job[j].kind /\ after.todo = rest
      /\ after.known = job[j].known /\ after.seen = {}
      /\ after.at \in {"ready", "writing"} => rest # <<>>
    BY <1>2, <1>3 DEF JobRecord, Idle
<1>9. Idle \in JobRecord /\ Idle.known = {} /\ Idle.seen = {} /\ Idle.at = "idle"
    BY DEF Idle, JobRecord, Kinds, AnyTodo
<1>10. job'[j] = after \/ job'[j] = Idle
    BY DEF Write
<1>11. ASSUME NEW k \in Jobs, k # j
       PROVE  /\ job'[k] \in JobRecord
              /\ job'[k].at = job[k].at /\ job'[k].kind = job[k].kind
              /\ job'[k].todo = job[k].todo /\ job'[k].known = job[k].known
              /\ job'[k].seen = job[k].seen
           \/ job'[k] = Idle
    <2>1. job[k] \in JobRecord
        BY JobsTyped DEF JobTyped
    <2>2. CASE job[k].at \in {"idle", "done"}
        BY <1>11, <2>2 DEF Write
    <2>3. CASE job[k].at \notin {"idle", "done"}
        <3>1. job'[k] = [job[k] EXCEPT !.alone = FALSE,
                            !.late = @ \/ (job[k].at = "writing" /\ Head(job[k].todo) = t)]
            BY <1>11, <2>3 DEF Write
        <3>2. (job[k].late \/ (job[k].at = "writing" /\ Head(job[k].todo) = t)) \in BOOLEAN
            OBVIOUS
        <3>3. QED
            BY <2>1, <3>1, <3>2 DEF JobRecord
    <2>4. QED
        BY <2>2, <2>3
<1> HIDE DEF after
<1>12. \A k \in Jobs :
        /\ job'[k] \in JobRecord
        /\ job'[k].known \subseteq ledger /\ job'[k].seen \subseteq ledger
        /\ job'[k].at \in {"ready", "writing"} => Left(job'[k].kind, job'[k].todo)
    BY <1>2, <1>3, <1>8, <1>9, <1>10, <1>11, JobsTyped DEF JobTyped
<1>13. job' \in [Jobs -> JobRecord]
    <2>1. DOMAIN job' = Jobs /\ job' = [k \in Jobs |-> job'[k]]
        BY DEF Write
    <2>2. QED
        BY <1>12, <2>1
<1>14. settled' \in BOOLEAN /\ ledger' = ledger /\ begun' = begun
    <2>1. settled' = (job[j].kind = "all" /\ job[j].alone /\ rest = <<>>)
        BY DEF Write
    <2>2. (job[j].kind = "all" /\ job[j].alone /\ rest = <<>>) \in BOOLEAN
        BY <1>2
    <2>3. QED
        BY <2>1, <2>2 DEF Write
<1>15. /\ view' \in ViewRecord /\ \A s \in Tables : view'.rows[s] \subseteq Row(s)
       /\ view'.at = "listing" => Left(view'.kind, view'.todo)
    <2>1. CASE view.at = "listing"
        <3>1. view' = [view EXCEPT !.settled = FALSE]
            BY <2>1 DEF Write
        <3>2. /\ view' \in ViewRecord
              /\ view'.at = view.at /\ view'.kind = view.kind /\ view'.todo = view.todo
              /\ view'.rows = view.rows
            BY <3>1 DEF TypeInv, ViewRecord
        <3>3. QED
            BY <3>2 DEF TypeInv
    <2>2. CASE view.at # "listing"
        <3>1. view' = NoView
            BY <2>2 DEF Write
        <3>2. QED
            BY <3>1, NoViewTyped
    <2>3. QED
        BY <2>1, <2>2
<1>16. QED
    BY <1>7, <1>12, <1>13, <1>14, <1>15 DEF TypeInv, Left

\* A call that asks, and a list that reads, change only the view.
LEMMA TypeView ==
    ASSUME TypeInv, ListRollups \/ \E q \in Lists : AskForRollups(q)
    PROVE  TypeInv'
<1>1. UNCHANGED <<ledger, rows, begun, job, settled>>
    BY DEF ListRollups, AskForRollups
<1>2. SUFFICES /\ view' \in ViewRecord
               /\ \A s \in Tables : view'.rows[s] \subseteq Row(s)
               /\ view'.at = "listing" => Left(view'.kind, view'.todo)
    BY <1>1 DEF TypeInv, Left
<1>3. /\ NoView \in ViewRecord /\ NoView.at = "idle"
      /\ \A s \in Tables : NoView.rows[s] = {}
    BY NoViewTyped
<1>4. ASSUME NEW q \in Lists, AskForRollups(q)
      PROVE  /\ view' \in ViewRecord /\ view'.todo = TablesOf(view'.kind)
             /\ view'.rows = NoView.rows
    <2>1. q.kind \in Kinds /\ q.tenant \in Tenants \cup {None}
        BY RollupsAssumption DEF Kinds, Tables
    <2>2. view' = [NoView EXCEPT !.at = "listing", !.kind = q.kind, !.tenant = q.tenant,
                                 !.todo = TablesOf(q.kind), !.settled = settled]
        BY <1>4 DEF AskForRollups
    <2>3. Left(q.kind, TablesOf(q.kind))
        BY DEF Left
    <2>4. TablesOf(q.kind) \in AnyTodo
        BY <2>1, <2>3, TodoCases
    <2>5. QED
        BY <1>3, <2>1, <2>2, <2>4 DEF TypeInv, ViewRecord
<1>5. CASE \E q \in Lists : AskForRollups(q)
    BY <1>3, <1>4, <1>5, TodoCases DEF Left
<1>6. CASE ListRollups
    <2> DEFINE t == Head(view.todo)
               rest == Tail(view.todo)
    <2>1. PICK S \in Listed(t, view.tenant) :
            view' = IF rest = <<>> /\ ~view.settled THEN NoView
                    ELSE [view EXCEPT !.at = IF rest = <<>> THEN "done" ELSE "listing",
                                      !.todo = rest,
                                      !.rows[t] = {rows[t][i] : i \in S}]
        BY <1>6 DEF ListRollups
    <2>2. /\ view.at = "listing" /\ Left(view.kind, view.todo) /\ view.kind \in Kinds
        BY <1>6 DEF ListRollups, TypeInv, ViewRecord
    <2>3. t \in Tables /\ rest \in AnyTodo /\ (rest # <<>> => Left(view.kind, rest))
        BY <2>2, TodoCases DEF Left, AnyTodo
    <2>4. rows[t] \in Seq(Row(t)) /\ S \subseteq DOMAIN rows[t]
        BY <2>1, <2>3 DEF TypeInv, Listed, Matching
    <2>5. {rows[t][i] : i \in S} \subseteq Row(t)
        BY <2>4
    <2>6. CASE rest = <<>> /\ ~view.settled
        BY <1>3, <2>1, <2>6
    <2>7. CASE ~(rest = <<>> /\ ~view.settled)
        <3>1. view' = [view EXCEPT !.at = IF rest = <<>> THEN "done" ELSE "listing",
                                   !.todo = rest, !.rows[t] = {rows[t][i] : i \in S}]
            BY <2>1, <2>7
        <3>2. /\ view'.at = IF rest = <<>> THEN "done" ELSE "listing"
              /\ view'.todo = rest /\ view'.kind = view.kind /\ view'.tenant = view.tenant
              /\ view'.settled = view.settled
              /\ view'.rows = [view.rows EXCEPT ![t] = {rows[t][i] : i \in S}]
              /\ DOMAIN view' = DOMAIN view
            BY <3>1 DEF TypeInv, ViewRecord
        <3>3. /\ view'.rows \in [Tables -> SUBSET (Row("usage") \cup Row("namespaces"))]
              /\ \A s \in Tables : view'.rows[s] \subseteq Row(s)
            <4>1. Row(t) \subseteq Row("usage") \cup Row("namespaces")
                BY <2>3 DEF Tables
            <4>2. view.rows \in [Tables -> SUBSET (Row("usage") \cup Row("namespaces"))]
                BY DEF TypeInv, ViewRecord
            <4>3. QED
                BY <2>3, <2>5, <3>2, <4>1, <4>2 DEF TypeInv
        <3>5. view' \in ViewRecord
            BY <2>2, <2>3, <3>1, <3>2, <3>3 DEF TypeInv, ViewRecord
        <3>6. QED
            BY <2>3, <3>2, <3>3, <3>5
    <2>8. QED
        BY <2>6, <2>7
<1>7. QED
    BY <1>5, <1>6

LEMMA TypeStep == TypeInv /\ [Next]_vars => TypeInv'
<1> SUFFICES ASSUME TypeInv, [Next]_vars PROVE TypeInv'
    OBVIOUS
<1>1. ASSUME NEW r \in Requests, LogRequest(r)
      PROVE  TypeInv'
    <2>1. IsFiniteSet(ledger \cup {r})
        BY FS_AddElement DEF TypeInv
    <2>2. ledger' = ledger \cup {r} /\ UNCHANGED <<rows, begun, job, view, settled>>
        BY <1>1 DEF LogRequest
    <2>3. ledger' \subseteq Requests /\ IsFiniteSet(ledger') /\ ledger \subseteq ledger'
        BY <2>1, <2>2 DEF TypeInv
    <2>4. QED
        BY <2>2, <2>3 DEF TypeInv, Left
<1>2. ASSUME NEW j \in Jobs, Fail(j)
      PROVE  TypeInv'
    <2>1. Idle \in JobRecord /\ Idle.known = {} /\ Idle.seen = {} /\ Idle.at = "idle"
        BY DEF Idle, JobRecord, Kinds, AnyTodo
    <2>2. job' = [job EXCEPT ![j] = Idle]
        BY <1>2 DEF Fail
    <2>3. job' \in [Jobs -> JobRecord]
        BY <2>1, <2>2 DEF TypeInv
    <2>4. \A k \in Jobs :
            /\ job'[k].known \subseteq ledger /\ job'[k].seen \subseteq ledger
            /\ job'[k].at \in {"ready", "writing"} => Left(job'[k].kind, job'[k].todo)
        BY <2>1, <2>2 DEF TypeInv
    <2>5. QED
        BY <1>2, <2>3, <2>4 DEF TypeInv, Fail, Left
<1>3. CASE UNCHANGED vars
    BY <1>3 DEF TypeInv, vars, Left
<1>4. QED
    BY <1>1, <1>2, <1>3, TypeStart, TypeBegin, TypeWrite, TypeView DEF Next

-----------------------------------------------------------------------------
(* Rows *)

\* A step that writes no table: statements may begin, with new stamps.
NoTableWritten ==
    /\ UNCHANGED <<rows, settled>>
    /\ ledger \subseteq ledger' /\ begun <= begun' /\ begun' \in Nat
    /\ \A j \in Jobs : job'[j].at = "writing" =>
            \/ job[j].at = "writing" /\ job'[j].stamp = job[j].stamp
            \/ job'[j].stamp = begun + 1

\* All that writes a table is Write.
LEMMA OnlyWriteWrites ==
    TypeInv /\ [Next]_vars => NoTableWritten \/ \E j \in Jobs : Write(j)
<1> SUFFICES ASSUME TypeInv, [Next]_vars PROVE NoTableWritten \/ \E j \in Jobs : Write(j)
    OBVIOUS
<1>1. begun \in Nat /\ begun <= begun /\ begun + 1 \in Nat /\ begun <= begun + 1
    BY RollupsAssumption DEF TypeInv
<1>2. ASSUME NEW r \in Requests, LogRequest(r)
      PROVE  NoTableWritten
    BY <1>1, <1>2 DEF LogRequest, NoTableWritten
<1>3. ASSUME NEW j \in Jobs, NEW kind \in Kinds, StartRebuild(j, kind)
      PROVE  NoTableWritten
    <2>1. job'[j].at = "ready" /\ \A k \in Jobs \ {j} : job'[k] = job[k]
        BY <1>3 DEF StartRebuild, TypeInv, Idle
    <2>2. QED
        BY <1>1, <1>3, <2>1 DEF StartRebuild, NoTableWritten
<1>4. ASSUME NEW j \in Jobs, BeginStatement(j)
      PROVE  NoTableWritten
    <2>1. job'[j] = [job[j] EXCEPT !.at = "writing", !.seen = ledger,
                                   !.stamp = begun + 1, !.late = FALSE]
        BY <1>4 DEF BeginStatement, TypeInv
    <2>2. job'[j].stamp = begun + 1 /\ \A k \in Jobs \ {j} : job'[k] = job[k]
        BY <1>4, <2>1, JobsTyped DEF BeginStatement, TypeInv, JobTyped, JobRecord
    <2>3. QED
        BY <1>1, <1>4, <2>2 DEF BeginStatement, NoTableWritten
<1>5. ASSUME NEW j \in Jobs, Fail(j)
      PROVE  NoTableWritten
    <2>1. job'[j].at = "idle" /\ \A k \in Jobs \ {j} : job'[k] = job[k]
        BY <1>5 DEF Fail, TypeInv, Idle
    <2>2. QED
        BY <1>1, <1>5, <2>1 DEF Fail, NoTableWritten
<1>6. CASE ListRollups \/ \E q \in Lists : AskForRollups(q)
    BY <1>1, <1>6 DEF ListRollups, AskForRollups, NoTableWritten
<1>7. CASE UNCHANGED vars
    BY <1>1, <1>7 DEF vars, NoTableWritten
<1>8. QED
    BY <1>2, <1>3, <1>4, <1>5, <1>6, <1>7 DEF Next

\* What a write does to the tables, and to the rebuilds that do not write.
LEMMA WriteFacts ==
    ASSUME TypeInv, NEW j \in Jobs, Write(j)
    PROVE  LET t == Head(job[j].todo)
           IN  /\ t \in Tables /\ rows[t] \in Seq(Row(t))
               /\ job[j] \in JobRecord /\ job[j].at = "writing"
               /\ Left(job[j].kind, job[j].todo)
               /\ job[j].seen \in SUBSET ledger /\ job[j].seen \in SUBSET Requests
               /\ IsFiniteSet(job[j].seen) /\ job[j].stamp \in Nat
               /\ rows'[t] = Upsert(t, job[j].seen, job[j].stamp)
               /\ \A s \in Tables \ {t} : rows'[s] = rows[s]
               /\ ledger' = ledger /\ begun' = begun
               /\ job'[j].at # "writing"
               /\ \A k \in Jobs \ {j} :
                    \/ job'[k].at = "idle"
                    \/ /\ job'[k].at = job[k].at /\ job[k].at \in {"ready", "writing"}
                       /\ job'[k].stamp = job[k].stamp /\ job'[k].known = job[k].known
                       /\ job'[k].seen = job[k].seen /\ job'[k].todo = job[k].todo
                       /\ job'[k].alone = FALSE
                       /\ ~job'[k].late /\ job[k].at = "writing" =>
                            ~job[k].late /\ Head(job[k].todo) # t
<1> DEFINE t == Head(job[j].todo)
<1>1. job[j].at = "writing" /\ JobTyped(j)
    BY JobsTyped DEF Write
<1>2. Left(job[j].kind, job[j].todo) /\ job[j].kind \in Kinds
    BY <1>1 DEF JobTyped, JobRecord
<1>3. t \in Tables
    BY <1>2, TodoCases
<1>4. /\ job[j].seen \in SUBSET ledger /\ job[j].seen \in SUBSET Requests
      /\ IsFiniteSet(job[j].seen) /\ job[j].stamp \in Nat
    BY <1>1, FS_Subset DEF JobTyped, JobRecord, TypeInv
<1>5. /\ rows'[t] = Upsert(t, job[j].seen, job[j].stamp)
      /\ \A s \in Tables \ {t} : rows'[s] = rows[s]
    <2>1. rows' = [rows EXCEPT ![t] = Upsert(t, job[j].seen, job[j].stamp)]
        BY DEF Write
    <2>2. QED
        BY <1>3, <2>1 DEF TypeInv
<1>6. job'[j].at # "writing"
    BY DEF Write, Idle
<1>7. ASSUME NEW k \in Jobs \ {j}
      PROVE  \/ job'[k].at = "idle"
             \/ /\ job'[k].at = job[k].at /\ job[k].at \in {"ready", "writing"}
                /\ job'[k].stamp = job[k].stamp /\ job'[k].known = job[k].known
                /\ job'[k].seen = job[k].seen /\ job'[k].todo = job[k].todo
                /\ job'[k].alone = FALSE
                /\ ~job'[k].late /\ job[k].at = "writing" =>
                     ~job[k].late /\ Head(job[k].todo) # t
    <2>1. job[k] \in JobRecord
        BY JobsTyped DEF JobTyped
    <2>2. CASE job[k].at \in {"idle", "done"}
        BY <2>2 DEF Write, Idle
    <2>3. CASE job[k].at \notin {"idle", "done"}
        <3>1. job'[k] = [job[k] EXCEPT !.alone = FALSE,
                            !.late = @ \/ (job[k].at = "writing" /\ Head(job[k].todo) = t)]
            BY <2>3 DEF Write
        <3>2. job[k].at \in {"ready", "writing"}
            BY <2>1, <2>3 DEF JobRecord
        <3>3. /\ job'[k].at = job[k].at
              /\ job'[k].stamp = job[k].stamp /\ job'[k].known = job[k].known
              /\ job'[k].seen = job[k].seen /\ job'[k].todo = job[k].todo
              /\ job'[k].alone = FALSE
              /\ job'[k].late = (job[k].late \/ (job[k].at = "writing" /\ Head(job[k].todo) = t))
            BY <2>1, <3>1 DEF JobRecord
        <3>4. QED
            BY <3>2, <3>3
    <2>4. QED
        BY <2>2, <2>3
<1>8. QED
    BY <1>1, <1>2, <1>3, <1>4, <1>5, <1>6, <1>7 DEF Write, JobTyped, TypeInv

\* What RowsInv says of one row
RowSound(t, i) ==
    /\ \A r \in rows[t][i].of : r \in ledger /\ GroupOf(t, r) = rows[t][i].group
    /\ rows[t][i].at <= begun
    /\ \A j \in Jobs : job[j].at = "writing" => rows[t][i].at # job[j].stamp
    /\ \A k \in DOMAIN rows[t] : i # k /\ rows[t][i].group = rows[t][k].group =>
            ~Whole(rows[t][i].group) /\ rows[t][i].at # rows[t][k].at

LEMMA RowsKept ==
    ASSUME TypeInv, RowsInv, NoTableWritten
    PROVE  RowsInv'
<1> SUFFICES ASSUME NEW t \in Tables, NEW i \in DOMAIN rows'[t] PROVE RowSound(t, i)'
    BY DEF RowsInv, RowSound
<1>1. rows' = rows /\ RowSound(t, i)
    BY DEF NoTableWritten, RowsInv, RowSound
<1>2. begun \in Nat /\ rows[t][i].at \in Nat /\ begun' \in Nat /\ begun <= begun'
    <2>1. begun \in Nat
        BY RollupsAssumption DEF TypeInv
    <2>2. rows[t] \in Seq(Row(t)) /\ i \in DOMAIN rows[t]
        BY <1>1 DEF TypeInv
    <2>3. rows[t][i] \in Row(t)
        BY <2>2
    <2>4. QED
        BY <2>1, <2>3 DEF Row, NoTableWritten
<1>3. rows[t][i].at <= begun' /\ rows[t][i].at # begun + 1
    BY <1>1, <1>2 DEF RowSound
<1>4. ledger \subseteq ledger'
    BY DEF NoTableWritten
<1>5. ASSUME NEW j \in Jobs, job'[j].at = "writing"
      PROVE  rows[t][i].at # job'[j].stamp
    BY <1>1, <1>3, <1>5 DEF NoTableWritten, RowSound
<1>6. \A k : rows'[t][k] = rows[t][k] /\ DOMAIN rows'[t] = DOMAIN rows[t]
    BY <1>1
<1>7. QED
    BY <1>1, <1>3, <1>4, <1>5, <1>6 DEF RowSound, Whole, GroupOf

LEMMA RowsWritten ==
    ASSUME TypeInv, RowsInv, JobsInv, NEW j \in Jobs, Write(j)
    PROVE  RowsInv'
<1>0. PICK t : t = Head(job[j].todo)
    OBVIOUS
<1> DEFINE u == Upsert(t, job[j].seen, job[j].stamp)
<1>1. /\ t \in Tables /\ rows[t] \in Seq(Row(t)) /\ job[j].at = "writing"
      /\ job[j].seen \in SUBSET ledger /\ IsFiniteSet(job[j].seen) /\ job[j].stamp \in Nat
      /\ rows'[t] = u /\ \A s \in Tables \ {t} : rows'[s] = rows[s]
      /\ ledger' = ledger /\ begun' = begun
    BY <1>0, WriteFacts
<1>2. \A k \in Jobs : job'[k].at = "writing" =>
        k # j /\ job[k].at = "writing" /\ job'[k].stamp = job[k].stamp
    BY WriteFacts
<1>3. /\ job[j].stamp <= begun
      /\ \A k \in Jobs : job'[k].at = "writing" => job'[k].stamp # job[j].stamp
    BY <1>1, <1>2 DEF JobsInv, StatementSound
<1>4. \A i \in DOMAIN rows[t] : rows[t][i].at # job[j].stamp
    BY <1>1 DEF RowsInv
<1>5. ledger \subseteq Requests
    BY DEF TypeInv
<1>6. \A i \in DOMAIN u :
        /\ \A r \in u[i].of : r \in ledger /\ GroupOf(t, r) = u[i].group
        /\ u[i].at = job[j].stamp \/ (i \in DOMAIN rows[t] /\ u[i].at = rows[t][i].at)
        /\ \A k \in DOMAIN u : i # k /\ u[i].group = u[k].group =>
                ~Whole(u[i].group) /\ u[i].at # u[k].at
    BY <1>1, <1>4, <1>5, UpsertKeepsRows
<1>7. \A i \in DOMAIN rows[t] : RowSound(t, i)
    BY <1>1 DEF RowsInv, RowSound
<1> HIDE DEF u
<1>8. ASSUME NEW i \in DOMAIN rows'[t]
      PROVE  RowSound(t, i)'
    <2>1. i \in DOMAIN u /\ rows'[t][i] = u[i]
        BY <1>1, <1>8
    <2>2. u[i].at <= begun /\ \A k \in Jobs : job'[k].at = "writing" => u[i].at # job'[k].stamp
        BY <1>2, <1>3, <1>6, <1>7, <2>1 DEF RowSound
    <2>3. DOMAIN rows'[t] = DOMAIN u /\ \A k : rows'[t][k] = u[k]
        BY <1>1
    <2>4. \A r \in u[i].of : r \in ledger' /\ GroupOf(t, r) = u[i].group
        BY <1>1, <1>6, <2>1
    <2>5. \A k \in DOMAIN u : i # k /\ u[i].group = u[k].group =>
            ~Whole(u[i].group) /\ u[i].at # u[k].at
        BY <1>6, <2>1
    <2>6. QED
        BY <1>1, <2>1, <2>2, <2>3, <2>4, <2>5 DEF RowSound, Whole, GroupOf
<1>9. ASSUME NEW s \in Tables \ {t}, NEW i \in DOMAIN rows'[s]
      PROVE  RowSound(s, i)'
    <2>1. RowSound(s, i) /\ rows'[s] = rows[s]
        BY <1>1, <1>9 DEF RowsInv, RowSound
    <2>2. QED
        BY <1>1, <1>2, <2>1 DEF RowSound, Whole, GroupOf
<1>10. \A s \in Tables : \A i \in DOMAIN rows'[s] : RowSound(s, i)'
    BY <1>8, <1>9
<1>11. QED
    BY <1>10 DEF RowsInv, RowSound

-----------------------------------------------------------------------------
(* What statements and rebuilds have seen *)

\* A job a step leaves alone is as sound as it was, if the other statements'
\* stamps are still others.
LEMMA JobKept ==
    ASSUME TypeInv, JobsInv, NoTableWritten, NEW j \in Jobs, job'[j] = job[j]
    PROVE  StatementSound(j)' /\ CountedSoFar(j)'
<1>1. StatementSound(j) /\ CountedSoFar(j) /\ rows' = rows
    BY DEF JobsInv, NoTableWritten
<1>2. begun \in Nat /\ begun' \in Nat /\ begun <= begun' /\ job[j].stamp \in Nat
    BY RollupsAssumption, JobsTyped DEF TypeInv, JobTyped, JobRecord, NoTableWritten
<1>3. ASSUME job'[j].at = "writing"
      PROVE  StatementSound(j)'
    <2>1. job[j].at = "writing" /\ job[j].stamp <= begun
        BY <1>1, <1>3 DEF StatementSound
    <2>2. job[j].stamp <= begun' /\ job[j].stamp # begun + 1
        BY <1>2, <2>1
    <2>3. \A k \in Jobs : job'[k].at = "writing" /\ k # j => job'[k].stamp # job[j].stamp
        BY <1>1, <2>1, <2>2 DEF StatementSound, NoTableWritten
    <2>4. QED
        BY <1>1, <2>1, <2>2, <2>3 DEF StatementSound, CountedIn
<1>4. CountedSoFar(j)'
    BY <1>1 DEF CountedSoFar, CountsAll
<1>5. QED
    BY <1>3, <1>4 DEF StatementSound

\* A statement sees the ledger, which holds all that is counted or known.
LEMMA JobBegins ==
    ASSUME TypeInv, RowsInv, JobsInv, NoTableWritten, NEW j \in Jobs, BeginStatement(j)
    PROVE  JobsInv'
<1>1. JobTyped(j) /\ job[j].at = "ready" /\ rows' = rows /\ ledger' = ledger
    BY JobsTyped DEF BeginStatement
<1>2. job'[j] = [job[j] EXCEPT !.at = "writing", !.seen = ledger,
                               !.stamp = begun + 1, !.late = FALSE]
    BY DEF BeginStatement, TypeInv
<1>3. /\ job'[j].at = "writing" /\ job'[j].seen = ledger /\ job'[j].stamp = begun'
      /\ job'[j].known = job[j].known /\ job'[j].alone = job[j].alone
      /\ job'[j].kind = job[j].kind /\ job'[j].todo = job[j].todo
    <2>1. begun' = begun + 1
        BY DEF BeginStatement
    <2>2. job[j] \in JobRecord
        BY <1>1 DEF JobTyped
    <2>3. QED
        BY <1>2, <2>1, <2>2 DEF JobRecord
<1>4. \A k \in Jobs \ {j} : job'[k] = job[k]
    BY DEF BeginStatement, TypeInv
<1>5. \A t \in Tables : CountedIn(t) \subseteq ledger
    BY DEF RowsInv, CountedIn
<1>6. Head(job[j].todo) \in Tables
    BY <1>1, TodoCases DEF JobTyped, JobRecord
<1>7. begun \in Nat /\ begun' = begun + 1
    BY RollupsAssumption DEF TypeInv, BeginStatement
<1>8. \A k \in Jobs : job'[k].at = "writing" /\ k # j => job'[k].stamp # begun'
    <2>1. SUFFICES ASSUME NEW k \in Jobs, job'[k].at = "writing", k # j
                   PROVE  job'[k].stamp # begun'
        OBVIOUS
    <2>2. job[k].at = "writing" /\ job'[k].stamp = job[k].stamp /\ job[k].stamp \in Nat
        BY <1>4, <2>1, JobsTyped DEF JobTyped, JobRecord
    <2>3. job[k].stamp <= begun
        BY <2>2 DEF JobsInv, StatementSound
    <2>4. QED
        BY <1>7, <2>2, <2>3
<1>9. CountedIn(Head(job[j].todo))' \subseteq ledger /\ \A t \in Tables : CountedIn(t)' \subseteq ledger
    BY <1>1, <1>3, <1>5, <1>6 DEF CountedIn
<1>10. StatementSound(j)'
    BY <1>1, <1>3, <1>7, <1>8, <1>9 DEF StatementSound, JobTyped
<1>11. CountedSoFar(j)'
    BY <1>1, <1>3 DEF JobsInv, CountedSoFar, CountsAll
<1>12. QED
    BY <1>4, <1>10, <1>11, JobKept DEF JobsInv

\* A rebuild that starts has nothing behind it, and one that failed nothing left.
LEMMA JobRests ==
    ASSUME TypeInv, JobsInv, NoTableWritten, NEW j \in Jobs,
           Fail(j) \/ \E kind \in Kinds : StartRebuild(j, kind)
    PROVE  JobsInv'
<1>1. \A k \in Jobs \ {j} : job'[k] = job[k]
    BY DEF Fail, StartRebuild, TypeInv
<1>2. /\ job'[j].at \in {"idle", "ready"}
      /\ job'[j].at = "ready" => job'[j].todo = TablesOf(job'[j].kind)
    <2>1. CASE Fail(j)
        BY <2>1 DEF Fail, TypeInv, Idle
    <2>2. ASSUME NEW kind \in Kinds, StartRebuild(j, kind)
          PROVE  job'[j].at = "ready" /\ job'[j].todo = TablesOf(job'[j].kind)
        <3>1. job'[j] = [Idle EXCEPT !.at = "ready", !.kind = kind,
                                     !.todo = TablesOf(kind), !.known = ledger]
            BY <2>2 DEF StartRebuild, TypeInv
        <3>2. QED
            BY <3>1 DEF Idle
    <2>3. QED
        BY <2>1, <2>2
<1>3. StatementSound(j)' /\ CountedSoFar(j)'
    BY <1>2 DEF StatementSound, CountedSoFar, TablesOf
<1>4. QED
    BY <1>1, <1>3, JobKept DEF JobsInv

\* After a write its table counts all the statement saw, and any table only
\* what it counted or the statement saw.
LEMMA WrittenCounts ==
    ASSUME TypeInv, NEW j \in Jobs, Write(j), NEW t \in Tables, t = Head(job[j].todo),
           NEW seen, seen = job[j].seen
    PROVE  /\ CountsAll(t, seen)'
           /\ CountedIn(t)' \subseteq CountedIn(t) \cup seen
<1> DEFINE u == Upsert(t, seen, job[j].stamp)
<1>1. /\ rows[t] \in Seq(Row(t)) /\ seen \in SUBSET Requests
      /\ IsFiniteSet(seen) /\ job[j].stamp \in Nat /\ rows'[t] = u
    BY WriteFacts
<1>2. /\ \A r \in seen : \E i \in DOMAIN u : r \in u[i].of
      /\ \A i \in DOMAIN u :
            u[i].of \subseteq seen \/ (i \in DOMAIN rows[t] /\ u[i] = rows[t][i])
    BY <1>1, UpsertCounts
<1> HIDE DEF u
<1>3. \A r \in seen : \E i \in DOMAIN rows'[t] : r \in rows'[t][i].of
    BY <1>1, <1>2
<1>4. CountedIn(t)' \subseteq CountedIn(t) \cup seen
    <2>1. SUFFICES ASSUME NEW i \in DOMAIN rows'[t], NEW r \in rows'[t][i].of
                   PROVE  r \in CountedIn(t) \cup seen
        BY DEF CountedIn
    <2>2. CASE u[i].of \subseteq seen
        BY <1>1, <2>1, <2>2
    <2>3. CASE i \in DOMAIN rows[t] /\ u[i] = rows[t][i]
        BY <1>1, <2>1, <2>3 DEF CountedIn
    <2>4. QED
        BY <1>1, <1>2, <2>1, <2>2, <2>3
<1>5. QED
    BY <1>3, <1>4 DEF CountsAll

LEMMA JobsWritten ==
    ASSUME TypeInv, RowsInv, JobsInv, NEW j \in Jobs, Write(j)
    PROVE  JobsInv'
<1>0. PICK t, seen, known : /\ t = Head(job[j].todo) /\ seen = job[j].seen
                            /\ known = job[j].known
    OBVIOUS
<1>1. /\ t \in Tables /\ job[j].at = "writing" /\ job[j] \in JobRecord
      /\ Left(job[j].kind, job[j].todo)
      /\ \A s \in Tables \ {t} : rows'[s] = rows[s]
      /\ ledger' = ledger /\ begun' = begun /\ job'[j].at # "writing"
    BY <1>0, WriteFacts
<1>2. \A k \in Jobs \ {j} :
        \/ job'[k].at = "idle"
        \/ /\ job'[k].at = job[k].at /\ job[k].at \in {"ready", "writing"}
           /\ job'[k].stamp = job[k].stamp /\ job'[k].known = job[k].known
           /\ job'[k].seen = job[k].seen /\ job'[k].todo = job[k].todo
           /\ job'[k].alone = FALSE
           /\ ~job'[k].late /\ job[k].at = "writing" =>
                ~job[k].late /\ Head(job[k].todo) # t
    BY ZenonT(60), <1>0, WriteFacts
<1>3. CountsAll(t, seen)'
    BY <1>0, <1>1, WrittenCounts
<1>4. ASSUME NEW k \in Jobs \ {j}
      PROVE  StatementSound(k)' /\ CountedSoFar(k)'
    <2>1. CASE job'[k].at = "idle"
        BY <2>1 DEF StatementSound, CountedSoFar
    <2>2. CASE job'[k].at # "idle"
        <3>1. /\ job'[k].at = job[k].at /\ job[k].at \in {"ready", "writing"}
              /\ job'[k].stamp = job[k].stamp /\ job'[k].known = job[k].known
              /\ job'[k].seen = job[k].seen /\ job'[k].todo = job[k].todo
              /\ job'[k].alone = FALSE
              /\ ~job'[k].late /\ job[k].at = "writing" =>
                   ~job[k].late /\ Head(job[k].todo) # t
            BY <1>2, <2>2
        <3>2. CountedSoFar(k)'
            BY <3>1 DEF CountedSoFar
        <3>3. ASSUME job[k].at = "writing"
              PROVE  StatementSound(k)'
            <4>1. \A l \in Jobs : job'[l].at = "writing" /\ l # k => job'[l].stamp # job[k].stamp
                BY <1>1, <1>2, <3>3 DEF JobsInv, StatementSound
            <4>2. ASSUME ~job'[k].late
                  PROVE  CountedIn(Head(job[k].todo))' \subseteq job'[k].seen
                <5>1. PICK s : s = Head(job[k].todo)
                    OBVIOUS
                <5>2. s \in Tables
                    BY <3>3, <5>1, JobsTyped, TodoCases DEF JobTyped, JobRecord
                <5>3. rows'[s] = rows[s] /\ CountedIn(s) \subseteq job[k].seen
                    BY <1>1, <3>1, <3>3, <4>2, <5>1, <5>2 DEF JobsInv, StatementSound
                <5>4. CountedIn(s)' \subseteq job'[k].seen
                    BY <3>1, <5>3 DEF CountedIn
                <5>5. Head(job[k].todo)' = s
                    BY <3>1, <5>1
                <5>6. QED
                    BY <5>4, <5>5 DEF CountedIn
            <4>3. QED
                BY <1>1, <3>1, <3>3, <4>1, <4>2 DEF JobsInv, StatementSound, CountedIn
        <3>4. QED
            BY <3>1, <3>2, <3>3 DEF StatementSound
    <2>3. QED
        BY <2>1, <2>2
<1>5. StatementSound(j)'
    BY <1>1 DEF StatementSound
<1>6. CountedSoFar(j)'
    <2>1. known \subseteq seen
        BY <1>0, <1>1 DEF JobsInv, StatementSound
    <2>2. CountsAll(t, known)'
        BY <1>3, <2>1 DEF CountsAll
    <2>3. CASE Tail(job[j].todo) = <<>> /\ ~job[j].alone
        <3>1. job'[j].at = "idle"
            BY <2>3 DEF Write, Idle
        <3>2. QED
            BY <3>1 DEF CountedSoFar
    <2>4. CASE ~(Tail(job[j].todo) = <<>> /\ ~job[j].alone)
        <3>1. job'[j] = [Idle EXCEPT !.at = IF Tail(job[j].todo) = <<>> THEN "done" ELSE "ready",
                                     !.kind = job[j].kind, !.todo = Tail(job[j].todo),
                                     !.known = job[j].known, !.alone = job[j].alone]
            BY <2>4 DEF Write
        <3>2. /\ job'[j].at = IF Tail(job[j].todo) = <<>> THEN "done" ELSE "ready"
              /\ job'[j].kind = job[j].kind /\ job'[j].todo = Tail(job[j].todo)
              /\ job'[j].known = known /\ job'[j].alone = job[j].alone
            BY <1>0, <3>1 DEF Idle
        <3>3. job[j].kind \in Kinds
            BY <1>1 DEF JobRecord
        <3>4. \/ /\ job[j].kind \in Tables /\ t = job[j].kind /\ Tail(job[j].todo) = <<>>
              \/ /\ job[j].kind = "all" /\ t = "namespaces" /\ Tail(job[j].todo) = <<>>
                 /\ job[j].todo # TablesOf(job[j].kind)
              \/ /\ job[j].kind = "all" /\ t = "usage" /\ Tail(job[j].todo) = <<"namespaces">>
            BY <1>0, <1>1, <3>3, TodoCases
        <3>5. CASE job[j].kind \in Tables /\ t = job[j].kind /\ Tail(job[j].todo) = <<>>
            <4>1. TablesOf(job'[j].kind) = <<t>>
                BY <3>2, <3>5 DEF TablesOf, Tables
            <4>2. \A i \in DOMAIN TablesOf(job'[j].kind) : TablesOf(job'[j].kind)[i] = t
                BY <4>1
            <4>3. QED
                BY <2>2, <3>2, <3>5, <4>2 DEF CountedSoFar, CountsAll
        <3>6. CASE /\ job[j].kind = "all" /\ t = "namespaces" /\ Tail(job[j].todo) = <<>>
                   /\ job[j].todo # TablesOf(job[j].kind)
            <4>1. CountsAll("usage", known) /\ job[j].alone
                BY <1>0, <1>1, <2>4, <3>6 DEF JobsInv, CountedSoFar
            <4>2. rows'["usage"] = rows["usage"]
                BY <1>1, <3>6 DEF Tables
            <4>3. CountsAll("usage", known)' /\ CountsAll("namespaces", known)'
                BY <2>2, <3>6, <4>1, <4>2 DEF CountsAll
            <4>4. TablesOf(job'[j].kind) = <<"usage", "namespaces">>
                BY <3>2, <3>6 DEF TablesOf
            <4>5. \A i \in DOMAIN TablesOf(job'[j].kind) : TablesOf(job'[j].kind)[i] \in Tables
                BY <4>4 DEF Tables
            <4>6. QED
                BY <3>2, <3>6, <4>3, <4>5 DEF CountedSoFar, CountsAll, Tables
        <3>7. CASE job[j].kind = "all" /\ t = "usage" /\ Tail(job[j].todo) = <<"namespaces">>
            <4>1. job'[j].at = "ready"
                BY <3>2, <3>7
            <4>2. QED
                BY <2>2, <3>2, <3>7, <4>1 DEF CountedSoFar, CountsAll
        <3>8. QED
            BY <3>4, <3>5, <3>6, <3>7
    <2>5. QED
        BY <2>3, <2>4
<1>7. QED
    BY <1>4, <1>5, <1>6 DEF JobsInv

LEMMA JobsStep == TypeInv /\ RowsInv /\ JobsInv /\ [Next]_vars => JobsInv'
<1> SUFFICES ASSUME TypeInv, RowsInv, JobsInv, [Next]_vars PROVE JobsInv'
    OBVIOUS
<1>1. ASSUME NoTableWritten, \A j \in Jobs : job'[j] = job[j]
      PROVE  JobsInv'
    BY <1>1, JobKept DEF JobsInv
<1>2. CASE \E j \in Jobs : Write(j)
    BY <1>2, JobsWritten
<1>3. CASE NoTableWritten
    <2>1. CASE \E r \in Requests : LogRequest(r)
        BY <1>1, <1>3, <2>1 DEF LogRequest
    <2>2. CASE ListRollups \/ \E q \in Lists : AskForRollups(q)
        BY <1>1, <1>3, <2>2 DEF ListRollups, AskForRollups
    <2>3. CASE UNCHANGED vars
        BY <1>1, <1>3, <2>3 DEF vars
    <2>4. ASSUME NEW j \in Jobs,
                 Fail(j) \/ BeginStatement(j) \/ \E kind \in Kinds : StartRebuild(j, kind)
          PROVE  JobsInv'
        BY <1>3, <2>4, JobRests, JobBegins
    <2>5. QED
        BY <1>2, <2>1, <2>2, <2>3, <2>4 DEF Next
<1>4. QED
    BY <1>2, <1>3, OnlyWriteWrites

LEMMA RowsStep == TypeInv /\ RowsInv /\ JobsInv /\ [Next]_vars => RowsInv'
BY OnlyWriteWrites, RowsKept, RowsWritten

-----------------------------------------------------------------------------
(* What is listed *)

\* What ViewInv says of the view
ViewSound ==
    view.at # "idle" /\ view.settled =>
        /\ settled
        /\ view.kind = "all" /\ view.todo # TablesOf("all") =>
            view.rows["usage"] \subseteq ListedOf("usage", Matching("usage", view.tenant))
        /\ view.kind = "all" /\ view.at = "done" =>
            /\ view.todo = <<>>
            /\ \E S \in Listed("namespaces", view.tenant) :
                view.rows["namespaces"] = ListedOf("namespaces", S)

\* Only a write that ends an undisturbed rebuild of both tables settles them:
\* it has seen all that the table of usage counts.
LEMMA SettledByWrite ==
    ASSUME TypeInv, RowsInv, JobsInv, NEW j \in Jobs, Write(j)
    PROVE  ViewInv'
<1>1. view'.settled = FALSE
    <2>1. CASE view.at = "listing"
        BY <2>1 DEF Write, TypeInv, ViewRecord
    <2>2. CASE view.at # "listing"
        BY <2>2 DEF Write, NoView
    <2>3. QED
        BY <2>1, <2>2
<1>2. ASSUME settled'
      PROVE  CountsAll("namespaces", CountedIn("usage"))'
    <2>1. job[j].kind = "all" /\ job[j].alone /\ Tail(job[j].todo) = <<>>
        BY <1>2 DEF Write
    <2>2. PICK seen : seen = job[j].seen
        OBVIOUS
    <2>3. Left(job[j].kind, job[j].todo) /\ job[j].kind \in Kinds /\ job[j].at = "writing"
        BY JobsTyped DEF Write, JobTyped, JobRecord
    <2>4. Head(job[j].todo) = "namespaces" /\ Tail(job[j].todo) # <<"namespaces">>
        BY <2>1, <2>3, TodoCases DEF Tables
    <2>5. "namespaces" \in Tables /\ "usage" \in Tables
        BY DEF Tables
    <2>6. CountsAll("namespaces", seen)'
        BY <2>2, <2>4, <2>5, WrittenCounts
    <2>7. rows'["usage"] = rows["usage"]
        BY <2>4, <2>5, WriteFacts
    <2>8. CountedIn("usage") \subseteq seen
        BY <2>1, <2>2, <2>3, <2>5 DEF JobsInv, StatementSound
    <2>9. CountedIn("usage")' \subseteq seen
        BY <2>7, <2>8 DEF CountedIn
    <2>10. QED
        BY <2>6, <2>9 DEF CountsAll
<1>3. QED
    BY <1>1, <1>2 DEF ViewInv

LEMMA ViewStep == TypeInv /\ RowsInv /\ JobsInv /\ ViewInv /\ [Next]_vars => ViewInv'
<1> SUFFICES ASSUME TypeInv, RowsInv, JobsInv, ViewInv, [Next]_vars PROVE ViewInv'
    OBVIOUS
<1>1. CASE \E j \in Jobs : Write(j)
    BY <1>1, SettledByWrite
<1>2. CASE NoTableWritten
    <2>1. rows' = rows /\ settled' = settled
        BY <1>2 DEF NoTableWritten
    <2>2. settled' => CountsAll("namespaces", CountedIn("usage"))'
        BY <2>1 DEF ViewInv, CountsAll, CountedIn
    <2>3. ViewSound
        BY DEF ViewInv, ViewSound
    <2>4. CASE view' = view
        <3>1. ViewSound'
            BY <2>1, <2>3, <2>4 DEF ViewSound, ListedOf, Matching, Listed, Precedes, TablesOf
        <3>2. QED
            BY <2>2, <3>1 DEF ViewInv, ViewSound
    <2>5. ASSUME NEW q \in Lists, AskForRollups(q)
          PROVE  ViewInv'
        <3>1. view' = [NoView EXCEPT !.at = "listing", !.kind = q.kind, !.tenant = q.tenant,
                                     !.todo = TablesOf(q.kind), !.settled = settled]
            BY <2>5 DEF AskForRollups
        <3>2. /\ view'.at = "listing" /\ view'.todo = TablesOf(view'.kind)
              /\ view'.settled = settled
            BY <3>1 DEF NoView
        <3>3. ViewSound'
            BY <2>1, <3>2 DEF ViewSound, TablesOf
        <3>4. QED
            BY <2>2, <3>3 DEF ViewInv, ViewSound
    <2>6. CASE ListRollups
        <3>0. PICK t, tenant : t = Head(view.todo) /\ tenant = view.tenant
            OBVIOUS
        <3>1. PICK S \in Listed(t, tenant) :
                view' = IF Tail(view.todo) = <<>> /\ ~view.settled THEN NoView
                        ELSE [view EXCEPT
                                !.at = IF Tail(view.todo) = <<>> THEN "done" ELSE "listing",
                                !.todo = Tail(view.todo),
                                !.rows[t] = {rows[t][i] : i \in S}]
            <4> DEFINE head == Head(view.todo)
            <4>1. PICK S \in Listed(head, view.tenant) :
                    view' = IF Tail(view.todo) = <<>> /\ ~view.settled THEN NoView
                            ELSE [view EXCEPT
                                    !.at = IF Tail(view.todo) = <<>> THEN "done" ELSE "listing",
                                    !.todo = Tail(view.todo),
                                    !.rows[head] = {rows[head][i] : i \in S}]
                BY <2>6 DEF ListRollups
            <4>2. t = head /\ tenant = view.tenant
                BY <3>0
            <4> HIDE DEF head
            <4>3. QED
                BY ZenonT(60), <4>1, <4>2
        <3>2. /\ view.at = "listing" /\ Left(view.kind, view.todo) /\ view.kind \in Kinds
              /\ DOMAIN view.rows = Tables /\ view \in ViewRecord
            BY <2>6 DEF ListRollups, TypeInv, ViewRecord
        <3>3. CASE ~view.settled
            <4>1. ~view'.settled
                <5>1. CASE Tail(view.todo) = <<>>
                    BY <3>1, <3>3, <5>1 DEF NoView
                <5>2. CASE Tail(view.todo) # <<>>
                    BY <3>1, <3>2, <3>3, <5>2 DEF ViewRecord
                <5>3. QED
                    BY <5>1, <5>2
            <4>2. QED
                BY <2>2, <4>1 DEF ViewInv
        <3>4. CASE view.settled
            <4>1. view' = [view EXCEPT
                             !.at = IF Tail(view.todo) = <<>> THEN "done" ELSE "listing",
                             !.todo = Tail(view.todo),
                             !.rows[t] = {rows[t][i] : i \in S}]
                BY <3>1, <3>4
            <4>2. /\ view'.at = IF Tail(view.todo) = <<>> THEN "done" ELSE "listing"
                  /\ view'.todo = Tail(view.todo) /\ view'.kind = view.kind
                  /\ view'.tenant = tenant /\ view'.settled = view.settled
                  /\ view'.rows = [view.rows EXCEPT ![t] = ListedOf(t, S)]
                BY <3>0, <3>2, <4>1 DEF ListedOf, ViewRecord
            <4>3. settled'
                BY <2>1, <2>3, <3>2, <3>4 DEF ViewSound
            <4>4. /\ S \in Listed(t, tenant)' /\ S \subseteq Matching(t, tenant)'
                  /\ ListedOf(t, S)' = ListedOf(t, S)
                <5>1. S \subseteq Matching(t, tenant)
                    BY <3>1 DEF Listed
                <5>2. Matching(t, tenant)' = Matching(t, tenant) /\ ListedOf(t, S)' = ListedOf(t, S)
                    BY <2>1 DEF Matching, ListedOf
                <5>3. Listed(t, tenant)' = Listed(t, tenant)
                    BY <2>1, <5>2 DEF Listed, Precedes
                <5>4. QED
                    BY <3>1, <5>1, <5>2, <5>3
            <4>5. CASE view.kind = "all" /\ view.todo = TablesOf("all")
                <5>1. t = "usage" /\ Tail(view.todo) = <<"namespaces">>
                    BY <3>0, <3>2, <4>5, TodoCases DEF Tables
                <5>2. view'.at = "listing" /\ view'.rows["usage"] = ListedOf("usage", S)
                    BY <3>2, <4>2, <5>1 DEF Tables
                <5>3. ListedOf("usage", S) \subseteq ListedOf("usage", Matching("usage", tenant))'
                    BY <2>1, <4>4, <5>1 DEF ListedOf
                <5>4. view'.rows["usage"] \subseteq ListedOf("usage", Matching("usage", view.tenant))'
                    BY <4>2, <5>2, <5>3 DEF ListedOf, Matching
                <5>5. QED
                    BY <2>2, <4>3, <5>2, <5>4 DEF ViewInv
            <4>6. CASE view.kind = "all" /\ view.todo # TablesOf("all")
                <5>1. t = "namespaces" /\ Tail(view.todo) = <<>>
                    BY <3>0, <3>2, <4>6, TodoCases DEF Tables
                <5>2. /\ view'.at = "done" /\ view'.todo = <<>>
                      /\ view'.rows["namespaces"] = ListedOf("namespaces", S)
                      /\ view'.rows["usage"] = view.rows["usage"]
                    BY <3>2, <4>2, <5>1 DEF Tables
                <5>3. view.rows["usage"] \subseteq ListedOf("usage", Matching("usage", tenant))
                    BY <2>3, <3>0, <3>2, <3>4, <4>6 DEF ViewSound
                <5>4. view'.rows["usage"] \subseteq ListedOf("usage", Matching("usage", view.tenant))'
                    <6>1. ListedOf("usage", Matching("usage", view.tenant))'
                            = ListedOf("usage", Matching("usage", view'.tenant))
                        BY <2>1 DEF ListedOf, Matching
                    <6>2. QED
                        BY <4>2, <5>2, <5>3, <6>1
                <5>5. view'.rows["namespaces"] = ListedOf("namespaces", S)'
                    BY <4>4, <5>1, <5>2
                <5>6. S \in Listed("namespaces", view.tenant)'
                    BY <4>2, <4>4, <5>1 DEF Listed, Matching, Precedes
                <5>7. QED
                    BY <2>2, <4>3, <5>2, <5>4, <5>5, <5>6 DEF ViewInv
            <4>7. CASE view.kind # "all"
                BY <2>2, <4>2, <4>3, <4>7 DEF ViewInv
            <4>8. QED
                BY <4>5, <4>6, <4>7
        <3>5. QED
            BY <3>2, <3>3, <3>4
    <2>7. (\E q \in Lists : AskForRollups(q)) \/ ListRollups \/ view' = view
          \/ \E j \in Jobs : Write(j)
        BY DEF Next, vars, LogRequest, StartRebuild, BeginStatement, Fail
    <2>8. QED
        BY <1>1, <2>4, <2>5, <2>6, <2>7
<1>3. QED
    BY <1>1, <1>2, OnlyWriteWrites

-----------------------------------------------------------------------------
(* The theorems *)

\* The invariant holds of any number of rebuilds, statements and lists.
THEOREM RollupsInvariant == Spec => []RollupsInv
<1>1. Init => RollupsInv
    <2> SUFFICES ASSUME Init PROVE RollupsInv
        OBVIOUS
    <2>1. RowsInv
        BY DEF Init, RowsInv
    <2>2. JobsInv
        BY DEF Init, JobsInv, StatementSound, CountedSoFar, Idle
    <2>3. ViewInv
        BY DEF Init, ViewInv, NoView
    <2>4. QED
        BY <2>1, <2>2, <2>3, TypeInit DEF RollupsInv
<1>2. RollupsInv /\ [Next]_vars => RollupsInv'
    BY TypeStep, RowsStep, JobsStep, ViewStep DEF RollupsInv
<1>3. QED
    BY <1>1, <1>2, PTL DEF Spec

\* Tables, rebuilds and lists keep their types, and whoever is at work has a
\* table to go on with.
THEOREM TypeCorrect == Spec => []TypeOK
<1>1. RollupsInv => TypeOK
    <2> SUFFICES ASSUME TypeInv PROVE TypeOK
        BY DEF RollupsInv
    <2>1. ASSUME NEW j \in Jobs, job[j].at \in {"ready", "writing"}
          PROVE  job[j].todo # <<>>
        BY <2>1, JobsTyped, TodoCases DEF JobTyped, JobRecord
    <2>2. view.at = "listing" => view.todo # <<>>
        BY TodoCases DEF TypeInv, ViewRecord
    <2>3. QED
        BY <2>1, <2>2 DEF TypeInv, TypeOK
<1>2. QED
    BY <1>1, RollupsInvariant, PTL

\* However rebuilds of one or both tables overlap, fail and follow each other,
\* the rows of whole groups count a request once, and a rebuild no other one
\* disturbed has counted, in each of its tables, all that was logged before.
THEOREM CountsWhole == Spec => []CountsAreWhole
<1>1. RollupsInv => CountsAreWhole
    <2> SUFFICES ASSUME RollupsInv PROVE CountsAreWhole
        OBVIOUS
    <2>1. CountedOnce
        <3>1. SUFFICES ASSUME NEW t \in Tables, NEW i \in DOMAIN rows[t], NEW k \in DOMAIN rows[t],
                              Whole(rows[t][i].group), NEW r \in rows[t][i].of \cap rows[t][k].of
                       PROVE  i = k
            BY DEF CountedOnce
        <3>2. GroupOf(t, r) = rows[t][i].group /\ GroupOf(t, r) = rows[t][k].group
            BY <3>1 DEF RollupsInv, RowsInv
        <3>3. QED
            BY <3>1, <3>2 DEF RollupsInv, RowsInv
    <2>2. RebuildIsComplete
        BY DEF RollupsInv, JobsInv, CountedSoFar, CountsAll, RebuildIsComplete
    <2>3. QED
        BY <2>1, <2>2 DEF CountsAreWhole
<1>2. QED
    BY <1>1, RollupsInvariant, PTL

\* The rows that match are different rows: their number is that of their places.
LEMMA RowsAreDistinct ==
    ASSUME RollupsInv, NEW t \in Tables, NEW S \in SUBSET DOMAIN rows[t]
    PROVE  /\ IsFiniteSet(S) /\ IsFiniteSet(DOMAIN rows[t])
           /\ Cardinality(ListedOf(t, S)) = Cardinality(S)
<1> DEFINE f == [i \in S |-> rows[t][i]]
<1>1. rows[t] \in Seq(Row(t))
    BY DEF RollupsInv, TypeInv
<1>2. DOMAIN rows[t] = 1 .. Len(rows[t]) /\ Len(rows[t]) \in Nat
    BY <1>1
<1>3. IsFiniteSet(DOMAIN rows[t])
    <2>1. PICK n \in Nat : DOMAIN rows[t] = 1 .. n
        BY <1>2
    <2>2. IsFiniteSet(1 .. n)
        BY FS_Interval
    <2>3. QED
        BY <2>1, <2>2, Zenon
<1>4. IsFiniteSet(S)
    BY <1>3, FS_Subset
<1>5. \A i, k \in S : rows[t][i] = rows[t][k] => i = k
    BY DEF RollupsInv, RowsInv
<1>6. f \in Bijection(S, ListedOf(t, S))
    BY <1>5 DEF Bijection, Injection, Surjection, IsInjective, ListedOf
<1>7. ExistsBijection(S, ListedOf(t, S))
    BY <1>6 DEF ExistsBijection
<1>8. QED
    BY <1>3, <1>4, <1>7, FS_Bijection

\* An overview of settled tables, which the limit did not cut, has a namespace
\* row for every request its usage rows count, of all tenants or of one.
THEOREM OverviewsAgree == Spec => []OverviewAgrees
<1>1. RollupsInv => OverviewAgrees
    <2>1. SUFFICES ASSUME RollupsInv, view.at = "done", view.kind = "all", view.settled,
                          Cardinality(view.rows["namespaces"]) < Limit,
                          NEW u \in view.rows["usage"], NEW r \in u.of
                   PROVE  \E n \in view.rows["namespaces"] : r \in n.of
        BY DEF OverviewAgrees
    <2> DEFINE tenant == view.tenant
               all == Matching("namespaces", tenant)
    <2>2. "usage" \in Tables /\ "namespaces" \in Tables
        BY DEF Tables
    <2>3. /\ settled /\ view.todo = <<>>
          /\ \E S \in Listed("namespaces", tenant) :
                view.rows["namespaces"] = ListedOf("namespaces", S)
        BY <2>1 DEF RollupsInv, ViewInv
    <2>4. PICK S \in Listed("namespaces", tenant) :
            view.rows["namespaces"] = ListedOf("namespaces", S)
        BY <2>3
    <2>5. <<>> # TablesOf("all")
        BY DEF TablesOf
    <2>6. u \in ListedOf("usage", Matching("usage", tenant))
        BY <2>1, <2>3, <2>5 DEF RollupsInv, ViewInv
    <2>7. PICK i \in Matching("usage", tenant) : u = rows["usage"][i]
        BY <2>6 DEF ListedOf
    <2>8. i \in DOMAIN rows["usage"] /\ (tenant = None \/ rows["usage"][i].group.tenant = tenant)
        BY <2>7 DEF Matching
    <2>9. PICK k \in DOMAIN rows["namespaces"] : r \in rows["namespaces"][k].of
        <3>1. r \in CountedIn("usage")
            BY <2>1, <2>7, <2>8 DEF CountedIn
        <3>2. QED
            BY <2>1, <2>3, <3>1 DEF RollupsInv, ViewInv, CountsAll
    <2>10. /\ GroupOf("usage", r) = rows["usage"][i].group
           /\ GroupOf("namespaces", r) = rows["namespaces"][k].group
        BY <2>1, <2>2, <2>7, <2>8, <2>9 DEF RollupsInv, RowsInv
    <2>11. GroupOf("usage", r).tenant = GroupOf("namespaces", r).tenant
        BY DEF GroupOf
    <2>12. k \in all
        BY <2>8, <2>9, <2>10, <2>11 DEF Matching
    <2>13. S \subseteq all /\ all \subseteq DOMAIN rows["namespaces"]
           /\ Cardinality(S) = IF Cardinality(all) < Limit THEN Cardinality(all) ELSE Limit
        BY DEF Listed, Matching
    <2>14. IsFiniteSet(all) /\ Cardinality(ListedOf("namespaces", S)) = Cardinality(S)
        BY <2>1, <2>2, <2>13, RowsAreDistinct
    <2>15. Cardinality(S) < Limit
        BY <2>1, <2>4, <2>14
    <2>16. Cardinality(all) = Cardinality(S)
        <3>1. Limit \in Nat /\ Cardinality(all) \in Nat
            BY <2>14, FS_CardinalityType, RollupsAssumption
        <3>2. QED
            BY <2>13, <2>15, <3>1
    <2>17. S = all
        BY <2>13, <2>14, <2>16, FS_Subset
    <2>18. QED
        BY <2>4, <2>9, <2>12, <2>17 DEF ListedOf
<1>2. QED
    BY <1>1, RollupsInvariant, PTL

\* Only the statement of a rebuild that began before another one wrote its
\* table, and wrote after it, takes a request from a row's count.
THEOREM ShrunkOnlyByLate == Spec => CountsNeverShrink
<1> DEFINE Kept == \A t \in Tables : \A i \in DOMAIN rows[t] :
                    \/ rows[t][i].of \subseteq rows'[t][i].of
                    \/ \E j \in Jobs : /\ job[j].at = "writing" /\ job[j].late
                                       /\ Head(job[j].todo) = t /\ job'[j] # job[j]
<1>1. RollupsInv /\ [Next]_vars => [Kept]_vars
    <2> SUFFICES ASSUME RollupsInv, [Next]_vars PROVE Kept
        OBVIOUS
    <2>1. TypeInv /\ RowsInv /\ JobsInv
        BY DEF RollupsInv
    <2>2. CASE NoTableWritten
        BY <2>2 DEF NoTableWritten
    <2>3. ASSUME NEW j \in Jobs, Write(j), NEW t \in Tables, NEW i \in DOMAIN rows[t]
          PROVE  \/ rows[t][i].of \subseteq rows'[t][i].of
                 \/ /\ job[j].at = "writing" /\ job[j].late
                    /\ Head(job[j].todo) = t /\ job'[j] # job[j]
        <3>1. /\ rows[Head(job[j].todo)] \in Seq(Row(Head(job[j].todo)))
              /\ job[j].at = "writing" /\ job'[j].at # "writing"
              /\ job[j].seen \in SUBSET Requests /\ IsFiniteSet(job[j].seen)
              /\ job[j].stamp \in Nat
              /\ rows'[Head(job[j].todo)]
                    = Upsert(Head(job[j].todo), job[j].seen, job[j].stamp)
              /\ \A s \in Tables \ {Head(job[j].todo)} : rows'[s] = rows[s]
            BY <2>1, <2>3, WriteFacts
        <3>2. CASE t # Head(job[j].todo)
            BY <3>1, <3>2
        <3>3. CASE t = Head(job[j].todo) /\ job[j].late
            BY <3>1, <3>3
        <3>4. CASE t = Head(job[j].todo) /\ ~job[j].late
            <4>1. rows[t][i].of \subseteq job[j].seen
                BY <2>1, <3>1, <3>4 DEF JobsInv, StatementSound, CountedIn
            <4>2. rows[t][i].of \subseteq Upsert(t, job[j].seen, job[j].stamp)[i].of
                BY <2>1, <3>1, <3>4, <4>1, UpsertGrows
            <4>3. QED
                BY <3>1, <3>4, <4>2
        <3>5. QED
            BY <3>2, <3>3, <3>4
    <2>4. QED
        BY <2>1, <2>2, <2>3, OnlyWriteWrites
<1>2. QED
    BY <1>1, RollupsInvariant, PTL DEF Spec, CountsNeverShrink
=============================================================================
