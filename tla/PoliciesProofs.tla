--------------------------- MODULE PoliciesProofs ---------------------------
(***************************************************************************)
(* Theorems about Policies, for any sets of keys, scopes, calls,           *)
(* resolutions and questions, any patterns and any bounds.                 *)
(***************************************************************************)
EXTENDS Policies, TLAPS

-----------------------------------------------------------------------------
(* Types *)

RowType == [key : Keys, active : BOOLEAN]
CallsType == call \in [Calls -> CallType]
ReadersType == reader \in [Readers -> ReaderType]
VersionsType == version \in [Scopes -> Seq(Nat \ {0})]
RowsType == row \in Seq(RowType)
HistoryType == inForce \in [Keys -> Rows] /\ overlapped \subseteq Keys

LEMMA Parts ==
  TypeOK <=> /\ VersionsType /\ RowsType /\ (row # <<>> => Versioned)
             /\ CallsType /\ ReadersType /\ HistoryType
  BY DEF TypeOK, VersionsType, RowsType, RowType, CallsType, ReadersType, HistoryType

LEMMA RowTyped ==
  ASSUME TypeOK
  PROVE  /\ DOMAIN row = 1..Len(row) /\ Len(row) \in Nat
         /\ \A i \in DOMAIN row : row[i].key \in Keys /\ row[i].active \in BOOLEAN
<1>1. row \in Seq(RowType)
  BY DEF TypeOK, RowType
<1>2. DOMAIN row = 1..Len(row) /\ Len(row) \in Nat
  BY <1>1
<1>3. \A i \in 1..Len(row) : row[i] \in RowType
  BY <1>1
<1>4. QED
  BY <1>2, <1>3 DEF RowType

LEMMA IdleType == Idle \in CallType /\ Idle.at = "idle" /\ Idle.key = GlobalKey /\ ~Idle.alone
  BY PoliciesAssumption DEF Idle, CallType, Rows

LEMMA GlobalIsNoOverride == GlobalKey \in Keys /\ ~IsOverride(GlobalKey)
  BY PoliciesAssumption DEF GlobalKey, IsOverride

\* What an appended row changes and what it leaves.
LEMMA AppendRow ==
  ASSUME RowsType, NEW k \in Keys, row' = Append(row, [key |-> k, active |-> TRUE])
  PROVE  /\ row' \in Seq(RowType) /\ row' # <<>>
         /\ Len(row') = Len(row) + 1 /\ Len(row) \in Nat
         /\ DOMAIN row = 1..Len(row) /\ DOMAIN row' = 1..(Len(row) + 1)
         /\ \A i \in DOMAIN row : row'[i] = row[i]
         /\ row'[Len(row) + 1].key = k /\ row'[Len(row) + 1].active
<1>1. [key |-> k, active |-> TRUE] \in RowType
  BY DEF RowType
<1>2. QED
  BY <1>1 DEF RowsType

\* What deactivating row p changes and what it leaves.
LEMMA ClearRow ==
  ASSUME RowsType, NEW p \in DOMAIN row, row' = [row EXCEPT ![p].active = FALSE]
  PROVE  /\ row' \in Seq(RowType)
         /\ DOMAIN row' = DOMAIN row /\ Len(row') = Len(row)
         /\ \A i \in DOMAIN row : /\ row'[i].key = row[i].key
                                  /\ row'[i].active <=> (row[i].active /\ i # p)
         /\ row # <<>>
<1>1. /\ row \in Seq(RowType) /\ DOMAIN row = 1..Len(row) /\ Len(row) \in Nat
      /\ \A i \in DOMAIN row : row[i] \in RowType
  BY DEF RowsType
<1>2. [row[p] EXCEPT !.active = FALSE] \in RowType
  BY <1>1 DEF RowType
<1>3. row' = [row EXCEPT ![p] = [row[p] EXCEPT !.active = FALSE]]
  OBVIOUS
<1>4. /\ row' \in Seq(RowType) /\ DOMAIN row' = DOMAIN row /\ Len(row') = Len(row)
  BY <1>1, <1>2, <1>3
<1>5. \A i \in DOMAIN row : row'[i] = IF i = p THEN [row[p] EXCEPT !.active = FALSE] ELSE row[i]
  BY <1>1, <1>3
<1>6. \A i \in DOMAIN row : /\ row'[i].key = row[i].key
                            /\ row'[i].active <=> (row[i].active /\ i # p)
  BY <1>1, <1>5 DEF RowType
<1>7. QED
  BY <1>1, <1>4, <1>6

-----------------------------------------------------------------------------
(* The versions *)

Numbered ==
    /\ \A s \in Scopes : \E m \in {0} \cup NumbersOf(s) : \A n \in NumbersOf(s) : n <= m
    /\ VersionsNumbered
    /\ \A c \in Calls : call[c].at = "numbered" =>
          /\ call[c].number # 0
          /\ \A n \in 1..(call[c].number - 1) : n \in NumbersOf(call[c].scope)

\* The number read is one past the numbers of the scope, of which none is missing.
LEMMA NextIsNext ==
  ASSUME VersionsType, Numbered, NEW s \in Scopes
  PROVE  /\ NextNumber(s) \in Nat \ {0}
         /\ \A n \in 1..(NextNumber(s) - 1) : n \in NumbersOf(s)
<1>1. NumbersOf(s) \subseteq Nat \ {0}
  BY DEF VersionsType, NumbersOf
<1>2. Latest(s) \in {0} \cup NumbersOf(s)
  BY DEF Numbered, Latest
<1>3. Latest(s) = 0 \/ \A n \in 1..Latest(s) : n \in NumbersOf(s)
  BY <1>2 DEF Numbered, VersionsNumbered, NumbersOf
<1>4. QED
  BY <1>1, <1>2, <1>3 DEF NextNumber

\* A number is appended to the versions of s.
LEMMA AppendVersion ==
  ASSUME VersionsType, NEW s \in Scopes, NEW n \in Nat \ {0},
         version' = [version EXCEPT ![s] = Append(@, n)]
  PROVE  /\ VersionsType' /\ Versioned'
         /\ \A t \in Scopes \ {s} : version'[t] = version[t]
         /\ DOMAIN version[s] = 1..Len(version[s]) /\ Len(version[s]) \in Nat
         /\ DOMAIN version'[s] = 1..(Len(version[s]) + 1)
         /\ \A v \in DOMAIN version[s] : version'[s][v] = version[s][v]
         /\ version'[s][Len(version[s]) + 1] = n
         /\ NumbersOf(s)' = NumbersOf(s) \cup {n}
<1>1. version[s] \in Seq(Nat \ {0}) /\ version'[s] = Append(version[s], n)
  BY DEF VersionsType
<1>2. version'[s] \in Seq(Nat \ {0}) /\ version'[s] # <<>>
  BY SMTT(60), <1>1
<1>3. VersionsType' /\ Versioned' /\ \A t \in Scopes \ {s} : version'[t] = version[t]
  BY <1>2 DEF VersionsType, Versioned
<1>4. /\ DOMAIN version[s] = 1..Len(version[s]) /\ Len(version[s]) \in Nat
      /\ DOMAIN version'[s] = 1..(Len(version[s]) + 1)
      /\ \A v \in DOMAIN version[s] : version'[s][v] = version[s][v]
      /\ version'[s][Len(version[s]) + 1] = n
  BY <1>1
<1>5. NumbersOf(s)' = NumbersOf(s) \cup {n}
  BY <1>4 DEF NumbersOf
<1>6. QED
  BY <1>3, <1>4, <1>5

\* A number up to which none is missing, and which is new where it must be, may be used.
LEMMA InsertKeeps ==
  ASSUME VersionsType, CallsType, Numbered, NEW s \in Scopes, NEW n \in Nat \ {0},
         version' = [version EXCEPT ![s] = Append(@, n)],
         \A m \in 1..(n - 1) : m \in NumbersOf(s), NumberFree(s, n),
         \A c \in Calls : call'[c].at = "numbered" => call'[c] = call[c]
  PROVE  Numbered'
<1>0. /\ \A t \in Scopes \ {s} : version'[t] = version[t]
      /\ NumbersOf(s)' = NumbersOf(s) \cup {n}
  BY AppendVersion
<1>1. /\ \A t \in Scopes \ {s} : version'[t] = version[t] /\ NumbersOf(t)' = NumbersOf(t)
      /\ NumbersOf(s)' = NumbersOf(s) \cup {n}
      /\ NumbersOf(s) \subseteq Nat
  <2>1. ASSUME NEW t \in Scopes \ {s}
        PROVE  NumbersOf(t)' = NumbersOf(t)
    BY <1>0 DEF NumbersOf
  <2>2. \A v \in DOMAIN version[s] : version[s][v] \in Nat
    BY DEF VersionsType
  <2>3. QED
    BY <1>0, <2>1, <2>2 DEF NumbersOf
<1>2. \A t \in Scopes : NumbersOf(t) \subseteq NumbersOf(t)'
  BY <1>1
<1>3. ASSUME NEW t \in Scopes
      PROVE  \E m \in {0} \cup NumbersOf(t)' : \A x \in NumbersOf(t)' : x <= m
  <2>1. PICK m \in {0} \cup NumbersOf(t) : \A x \in NumbersOf(t) : x <= m
    BY DEF Numbered
  <2>2. CASE t # s
    BY <2>1, <2>2, <1>1
  <2>3. CASE t = s
    BY <2>1, <2>3, <1>1
  <2>4. QED
    BY <2>2, <2>3
<1>4. ASSUME NEW t \in Scopes, NEW v \in DOMAIN version'[t]
      PROVE  /\ 1..version'[t][v] \subseteq NumbersOf(t)'
             /\ t.ref # None => \A w \in DOMAIN version'[t] : version'[t][w] = version'[t][v] => w = v
  <2>1. CASE t # s
    BY <2>1, <1>1 DEF Numbered, VersionsNumbered
  <2>2. CASE t = s
    <3>1. /\ DOMAIN version[s] = 1..Len(version[s]) /\ Len(version[s]) \in Nat
          /\ DOMAIN version'[s] = 1..(Len(version[s]) + 1)
          /\ \A w \in DOMAIN version[s] : version'[s][w] = version[s][w] /\ version[s][w] \in NumbersOf(s)
          /\ version'[s][Len(version[s]) + 1] = n
      BY AppendVersion DEF NumbersOf
    <3>2. 1..version'[t][v] \subseteq NumbersOf(t)'
      BY <2>2, <3>1, <1>1 DEF Numbered, VersionsNumbered
    <3>3. ASSUME t.ref # None, NEW w \in DOMAIN version'[t], version'[t][w] = version'[t][v]
          PROVE  w = v
      <4>1. n \notin NumbersOf(s)
        BY <2>2, <3>3 DEF NumberFree
      <4>2. QED
        BY <2>2, <3>1, <3>3, <4>1 DEF Numbered, VersionsNumbered
    <3>4. QED
      BY <3>2, <3>3
  <2>3. QED
    BY <2>1, <2>2
<1>5. ASSUME NEW c \in Calls, call'[c].at = "numbered"
      PROVE  /\ call'[c].number # 0
             /\ \A m \in 1..(call'[c].number - 1) : m \in NumbersOf(call[c].scope)'
  <2>1. call'[c] = call[c] /\ call[c].scope \in Scopes
    BY <1>5 DEF CallsType, CallType
  <2>2. /\ call[c].number # 0
        /\ \A m \in 1..(call[c].number - 1) : m \in NumbersOf(call[c].scope)
    BY <1>5, <2>1 DEF Numbered
  <2>3. PICK t \in Scopes : t = call[c].scope
    BY <2>1
  <2>4. NumbersOf(t) \subseteq NumbersOf(t)' /\ NumbersOf(call[c].scope)' = NumbersOf(t)'
    BY <1>2, <2>1, <2>3 DEF NumbersOf
  <2>5. QED
    BY <2>1, <2>2, <2>3, <2>4
<1>6. QED
  BY <1>3, <1>4, <1>5 DEF Numbered, VersionsNumbered

-----------------------------------------------------------------------------
(* The calls and the rows *)

CallsApart ==
    \A c \in Calls :
       /\ call[c].at = "found" /\ call[c].prev # 0 =>
             call[c].prev \in DOMAIN row /\ row[call[c].prev].key = call[c].key
       /\ call[c].at = "placed" =>
             call[c].made \in DOMAIN row /\ row[call[c].made].key = call[c].key
       /\ call[c].at = "placed" /\ call[c].alone => row[call[c].made].active
       /\ call[c].at = "unassigned" => call[c].key = GlobalKey
       /\ call[c].at \in Working /\ call[c].alone =>
             \A d \in Calls : call[d].at \in Working /\ call[d].key = call[c].key => d = c

\* While no two calls of an override overlap, it has at most one active row, and
\* its call knows which.
OneOverride ==
    \A k \in Keys \ overlapped : IsOverride(k) =>
       /\ \A i, j \in ActiveOf(k) : i = j
       /\ \A c, d \in Busy(k) : c = d
       /\ \A c \in Busy(k) :
             /\ call[c].at = "found" => \A i \in ActiveOf(k) : i = call[c].prev
             /\ call[c].at = "cleared" => ActiveOf(k) = {}
             /\ call[c].at = "placed" => \A i \in ActiveOf(k) : i = call[c].made

\* What is in force is active, and no call is about to change that.
InForceHolds ==
    \A k \in Keys : inForce[k] # 0 =>
       /\ inForce[k] \in ActiveOf(k) /\ Busy(k) = {}
       /\ IsOverride(k) => \A i \in ActiveOf(k) : i = inForce[k]

\* What a resolution is owed.
Owed ==
    \A r \in Readers : \A j \in reader[r].floor :
       /\ j # 0 /\ j \in DOMAIN row /\ inForce[row[j].key] = j
       /\ OverrideMatches(row[j].key, reader[r].q) \/ AssignmentMatches(row[j].key, reader[r].q)
       /\ reader[r].at \in {"asked", "general"} => j <= reader[r].stamp
       /\ reader[r].at = "general" => ~IsOverride(row[j].key)
       /\ reader[r].at = "answered" => reader[r].answer # 0 /\ AtLeast(reader[r].answer, j)

Inv == TypeOK /\ Numbered /\ CallsApart /\ OneOverride /\ InForceHolds /\ Owed

\* While the rows stay, what readers are owed is a matter of what they hold.
LEMMA OwedOfRows ==
  ASSUME row' = row,
         \A r \in Readers : \A j \in reader'[r].floor :
            /\ j # 0 /\ j \in DOMAIN row /\ inForce'[row[j].key] = j
            /\ OverrideMatches(row[j].key, reader'[r].q) \/ AssignmentMatches(row[j].key, reader'[r].q)
            /\ reader'[r].at \in {"asked", "general"} => j <= reader'[r].stamp
            /\ reader'[r].at = "general" => ~IsOverride(row[j].key)
            /\ reader'[r].at = "answered" => reader'[r].answer # 0 /\ AtLeast(reader'[r].answer, j)
  PROVE  Owed'
<1>1. SUFFICES ASSUME NEW r \in Readers, NEW j \in reader'[r].floor, reader'[r].at = "answered"
               PROVE  AtLeast(reader[r].answer, j)'
  BY DEF Owed
<1>2. AtLeast(reader'[r].answer, j)
  BY <1>1
<1>3. QED
  BY <1>2 DEF AtLeast, Outranks

-----------------------------------------------------------------------------
(* Steps that leave the rows alone *)

\* A call that will not touch the rows, or no longer will.
LEMMA QuietCall ==
  ASSUME Inv, NEW c \in Calls, NEW rec, rec.at \notin Working,
         call' = [call EXCEPT ![c] = rec], UNCHANGED <<row, reader, inForce, overlapped>>
  PROVE  CallsApart' /\ OneOverride' /\ InForceHolds' /\ Owed'
<1>1. /\ call'[c] = rec /\ \A d \in Calls \ {c} : call'[d] = call[d]
      /\ \A k : Busy(k)' \subseteq Busy(k) /\ \A d \in Busy(k)' : d # c
      /\ \A k : ActiveOf(k)' = ActiveOf(k)
  <2>1. call'[c] = rec /\ \A d \in Calls \ {c} : call'[d] = call[d]
    BY DEF Inv, TypeOK
  <2>2. \A k : ActiveOf(k)' = ActiveOf(k)
    BY DEF ActiveOf
  <2>3. QED
    BY <2>1, <2>2 DEF Busy
<1>2. CallsApart'
  BY <1>1 DEF Inv, CallsApart, Working
<1>3. OneOverride'
  <2>1. SUFFICES ASSUME NEW k \in Keys \ overlapped, IsOverride(k)
                 PROVE  /\ \A i, j \in ActiveOf(k)' : i = j
                        /\ \A d, e \in Busy(k)' : d = e
                        /\ \A d \in Busy(k)' :
                              /\ call'[d].at = "found" => \A i \in ActiveOf(k)' : i = call'[d].prev
                              /\ call'[d].at = "cleared" => ActiveOf(k)' = {}
                              /\ call'[d].at = "placed" => \A i \in ActiveOf(k)' : i = call'[d].made
    BY DEF OneOverride
  <2>2. \A d \in Busy(k)' : d \in Busy(k) /\ call'[d] = call[d]
    BY <1>1 DEF Busy
  <2>3. QED
    BY <1>1, <2>1, <2>2 DEF Inv, OneOverride
<1>4. InForceHolds'
  BY <1>1 DEF Inv, InForceHolds
<1>5. Owed'
  BY OwedOfRows DEF Inv, Owed
<1>6. QED
  BY <1>2, <1>3, <1>4, <1>5

\* A call enters: rec is what the lookup makes of it.
LEMMA Entering ==
  ASSUME Inv, NEW c \in Calls, NEW k \in Keys, NEW rec \in CallType,
         call[c].at \notin Working, Enter(c, k, rec), UNCHANGED <<version, row>>,
         rec.key = k, rec.at \in {"found", "unassigned"},
         rec.at = "unassigned" => k = GlobalKey,
         rec.at = "found" => IF ActiveOf(k) = {} THEN rec.prev = 0 ELSE rec.prev \in ActiveOf(k)
  PROVE  Inv'
<1> USE DEF Inv
<1>1. /\ call'[c] = [rec EXCEPT !.alone = (Busy(k) = {})]
      /\ \A d \in Calls \ {c} : call'[d] = IF d \in Busy(k) THEN [call[d] EXCEPT !.alone = FALSE]
                                           ELSE call[d]
  BY DEF Enter
<1>2. /\ call'[c].at = rec.at /\ call'[c].key = k /\ call'[c].prev = rec.prev
      /\ call'[c].alone <=> Busy(k) = {}
      /\ call'[c] \in CallType
  BY <1>1 DEF CallType
<1>3. ASSUME NEW d \in Calls, d # c
      PROVE  /\ call'[d] \in CallType
             /\ call'[d].at = call[d].at /\ call'[d].key = call[d].key
             /\ call'[d].prev = call[d].prev /\ call'[d].made = call[d].made
             /\ call'[d].number = call[d].number /\ call'[d].scope = call[d].scope
             /\ call'[d].alone <=> (call[d].alone /\ d \notin Busy(k))
  <2>1. call[d] \in CallType /\ call'[d] = IF d \in Busy(k) THEN [call[d] EXCEPT !.alone = FALSE]
                                           ELSE call[d]
    BY <1>1, <1>3 DEF TypeOK
  <2>2. QED
    BY <2>1 DEF CallType
<1>4. /\ c \notin Busy(k) /\ Busy(k)' = Busy(k) \cup {c}
      /\ \A m : m # k => Busy(m)' = Busy(m)
      /\ \A m : ActiveOf(m)' = ActiveOf(m)
  <2>1. c \notin Busy(k) /\ \A m : c \notin Busy(m)
    BY DEF Busy
  <2>2. \A m : ActiveOf(m)' = ActiveOf(m)
    BY DEF ActiveOf
  <2>3. QED
    BY <1>2, <1>3, <2>1, <2>2 DEF Busy, Working
<1>5. inForce'[k] = 0 /\ \A m \in Keys \ {k} : inForce'[m] = inForce[m]
  BY DEF Enter, TypeOK
<1>6. overlapped' = IF Busy(k) = {} THEN overlapped ELSE overlapped \cup {k}
  BY DEF Enter
<1>7. \A r \in Readers : /\ reader'[r].floor = reader[r].floor \ {inForce[k]}
                         /\ reader'[r].at = reader[r].at /\ reader'[r].q = reader[r].q
                         /\ reader'[r].stamp = reader[r].stamp /\ reader'[r].answer = reader[r].answer
                         /\ reader'[r] \in ReaderType
  BY DEF Enter, TypeOK, ReaderType
<1>8. TypeOK'
  <2>1. CallsType'
    <3>1. call' = [d \in Calls |-> call'[d]] /\ \A d \in Calls : call'[d] \in CallType
      BY <1>2, <1>3 DEF Enter
    <3>2. CallType' = CallType
      BY DEF CallType, Rows
    <3>3. QED
      BY <3>1, <3>2 DEF CallsType
  <2>2. ReadersType'
    <3>1. reader' = [r \in Readers |-> reader'[r]]
      BY DEF Enter
    <3>2. ReaderType' = ReaderType
      BY DEF ReaderType, Rows
    <3>3. QED
      BY <3>1, <3>2, <1>7 DEF ReadersType
  <2>3. HistoryType'
    BY <1>6 DEF Enter, TypeOK, HistoryType, Rows
  <2>4. VersionsType' /\ RowsType' /\ (row' # <<>> => Versioned')
    BY Parts DEF VersionsType, RowsType, RowType, Versioned
  <2>5. QED
    BY <2>1, <2>2, <2>3, <2>4, Parts DEF TypeOK, VersionsType, RowsType, RowType, CallsType, ReadersType, HistoryType
<1>9. Numbered'
  <2>1. \A s : NumbersOf(s)' = NumbersOf(s)
    BY DEF NumbersOf
  <2>2. \A d \in Calls : call'[d].at = "numbered" =>
            d # c /\ call[d].at = "numbered" /\ call'[d].number = call[d].number
            /\ call'[d].scope = call[d].scope
    BY <1>2, <1>3
  <2>3. VersionsNumbered'
    BY <2>1 DEF Numbered, VersionsNumbered
  <2>4. ASSUME NEW d \in Calls, call'[d].at = "numbered"
        PROVE  /\ call'[d].number # 0
               /\ \A n \in 1..(call'[d].number - 1) : n \in NumbersOf(call[d].scope)'
    BY <2>1, <2>2, <2>4 DEF Numbered, NumbersOf
  <2>5. QED
    BY <2>1, <2>2, <2>3, <2>4 DEF Numbered, NumbersOf
<1>10. CallsApart'
  <2>1. ASSUME NEW d \in Calls
        PROVE  /\ call'[d].at = "found" /\ call'[d].prev # 0 =>
                     call'[d].prev \in DOMAIN row /\ row[call'[d].prev].key = call'[d].key
               /\ call'[d].at = "placed" =>
                     call'[d].made \in DOMAIN row /\ row[call'[d].made].key = call'[d].key
               /\ call'[d].at = "placed" /\ call'[d].alone => row[call'[d].made].active
               /\ call'[d].at = "unassigned" => call'[d].key = GlobalKey
    <3>1. CASE d = c
      BY <3>1, <1>2 DEF ActiveOf
    <3>2. CASE d # c
      BY <3>2, <1>3 DEF CallsApart
    <3>3. QED
      BY <3>1, <3>2
  <2>2. ASSUME NEW d \in Calls, NEW e \in Calls, call'[d].at \in Working, call'[d].alone,
               call'[e].at \in Working, call'[e].key = call'[d].key
        PROVE  e = d
    <3>2. CASE d = c
      BY <3>2, <1>2, <1>3, <2>2 DEF Busy
    <3>3. CASE d # c
      <4>1. call[d].at \in Working /\ call[d].alone /\ call[d].key # k
        BY <3>3, <1>3, <2>2 DEF Busy
      <4>2. e # c
        BY <2>2, <3>3, <4>1, <1>2, <1>3
      <4>3. call[e].at \in Working /\ call[e].key = call[d].key
        BY <2>2, <3>3, <4>2, <1>3
      <4>4. QED
        BY <4>1, <4>3 DEF CallsApart
    <3>4. QED
      BY <3>2, <3>3
  <2>3. QED
    BY <2>1, <2>2 DEF CallsApart
<1>11. OneOverride'
  <2>1. SUFFICES ASSUME NEW m \in Keys \ overlapped', IsOverride(m)
                 PROVE  /\ \A i, j \in ActiveOf(m)' : i = j
                        /\ \A d, e \in Busy(m)' : d = e
                        /\ \A d \in Busy(m)' :
                              /\ call'[d].at = "found" => \A i \in ActiveOf(m)' : i = call'[d].prev
                              /\ call'[d].at = "cleared" => ActiveOf(m)' = {}
                              /\ call'[d].at = "placed" => \A i \in ActiveOf(m)' : i = call'[d].made
    BY DEF OneOverride
  <2>2. m \in Keys \ overlapped /\ \A i, j \in ActiveOf(m)' : i = j
    BY <1>4, <1>6, <2>1 DEF OneOverride
  <2>3. CASE m = k
    <3>1. Busy(k)' = {c}
      BY <1>4, <1>6, <2>1, <2>3
    <3>2. rec.at = "found" /\ \A i \in ActiveOf(k) : i = rec.prev
      BY <2>1, <2>2, <2>3, <1>4, GlobalIsNoOverride
    <3>3. QED
      BY <3>1, <3>2, <2>2, <2>3, <1>2, <1>4
  <2>4. CASE m # k
    <3>1. Busy(m)' = Busy(m) /\ \A d \in Busy(m) : d \in Calls /\ d # c
      BY <1>4, <2>4 DEF Busy
    <3>2. \A d \in Busy(m) : call'[d].at = call[d].at /\ call'[d].prev = call[d].prev
                             /\ call'[d].made = call[d].made
      BY <3>1, <1>3
    <3>3. QED
      BY <3>1, <3>2, <2>1, <2>2, <1>4 DEF OneOverride
  <2>5. QED
    BY <2>3, <2>4
<1>12. InForceHolds'
  BY <1>4, <1>5 DEF InForceHolds
<1>13. Owed'
  <2>1. SUFFICES ASSUME NEW r \in Readers, NEW j \in reader'[r].floor
                 PROVE  /\ j # 0 /\ j \in DOMAIN row /\ inForce'[row[j].key] = j
                        /\ OverrideMatches(row[j].key, reader'[r].q)
                           \/ AssignmentMatches(row[j].key, reader'[r].q)
                        /\ reader'[r].at \in {"asked", "general"} => j <= reader'[r].stamp
                        /\ reader'[r].at = "general" => ~IsOverride(row[j].key)
                        /\ reader'[r].at = "answered" =>
                              reader'[r].answer # 0 /\ AtLeast(reader'[r].answer, j)
    BY OwedOfRows
  <2>2. j \in reader[r].floor /\ j # inForce[k]
    BY <1>7
  <2>3. j \in DOMAIN row /\ inForce[row[j].key] = j /\ row[j].key \in Keys
    <3>1. j \in DOMAIN row /\ inForce[row[j].key] = j
      BY <2>2 DEF Owed
    <3>2. QED
      BY <3>1, RowTyped
  <2>4. inForce'[row[j].key] = j
    BY <2>2, <2>3, <1>5
  <2>5. QED
    BY <2>2, <2>3, <2>4, <1>7 DEF Owed
<1>14. QED
  BY <1>8, <1>9, <1>10, <1>11, <1>12, <1>13

-----------------------------------------------------------------------------
(* Steps on the rows *)

\* Growing rows keep their keys: what was owed and answered stays so.
LEMMA AnswersStand ==
  ASSUME Inv, UNCHANGED <<reader, inForce>>,
         \A i \in DOMAIN row : i \in DOMAIN row' /\ row'[i].key = row[i].key
  PROVE  Owed'
<1> USE DEF Inv
<1>1. SUFFICES ASSUME NEW r \in Readers, NEW j \in reader[r].floor
               PROVE  /\ j # 0 /\ j \in DOMAIN row' /\ inForce[row'[j].key] = j
                      /\ OverrideMatches(row'[j].key, reader[r].q)
                         \/ AssignmentMatches(row'[j].key, reader[r].q)
                      /\ reader[r].at \in {"asked", "general"} => j <= reader[r].stamp
                      /\ reader[r].at = "general" => ~IsOverride(row'[j].key)
                      /\ reader[r].at = "answered" =>
                            reader[r].answer # 0 /\ AtLeast(reader[r].answer, j)'
  BY DEF Owed
<1>2. j \in DOMAIN row /\ j \in DOMAIN row' /\ row'[j].key = row[j].key
  BY <1>1 DEF Owed
<1>3. ASSUME reader[r].at = "answered"
      PROVE  reader[r].answer # 0 /\ AtLeast(reader[r].answer, j)'
  <2>1. reader[r].answer # 0 /\ AtLeast(reader[r].answer, j)
    BY <1>1, <1>3 DEF Owed
  <2>2. reader[r].answer \in DOMAIN row
    BY <2>1, RowTyped DEF TypeOK, ReaderType, Rows
  <2>3. row'[reader[r].answer].key = row[reader[r].answer].key
    BY <2>2
  <2>4. QED
    BY <2>1, <2>3, <1>2 DEF AtLeast, Outranks
<1>4. QED
  BY <1>1, <1>2, <1>3 DEF Owed

\* The types, when one call and the rows change.
LEMMA RowStepTypes ==
  ASSUME Inv, NEW c \in Calls, NEW rec \in CallType', call' = [call EXCEPT ![c] = rec],
         UNCHANGED <<version, reader, inForce, overlapped>>,
         row' \in Seq(RowType), row' # <<>> => Versioned, Len(row) <= Len(row')
  PROVE  TypeOK'
<1>1. /\ VersionsType /\ CallsType /\ ReadersType /\ HistoryType
  BY Parts DEF Inv
<1>2. Rows \subseteq Rows' /\ DOMAIN row \subseteq DOMAIN row'
  BY RowTyped DEF Inv, Rows
<1>3. CallType \subseteq CallType' /\ ReaderType \subseteq ReaderType'
  BY <1>2 DEF CallType, ReaderType
<1>4. CallsType'
  BY <1>1, <1>3 DEF CallsType
<1>5. ReadersType' /\ HistoryType' /\ VersionsType'
  BY <1>1, <1>2, <1>3 DEF ReadersType, HistoryType, VersionsType
<1>6. Versioned' = Versioned
  BY DEF Versioned
<1>7. QED
  BY <1>4, <1>5, <1>6 DEF TypeOK, RowType, CallsType, ReadersType, HistoryType, VersionsType

LEMMA RowStepNumbered ==
  ASSUME Inv, NEW c \in Calls, NEW rec, rec.at # "numbered", call' = [call EXCEPT ![c] = rec],
         UNCHANGED version
  PROVE  Numbered'
<1>1. \A s : NumbersOf(s)' = NumbersOf(s)
  BY DEF NumbersOf
<1>2. \A d \in Calls : call'[d].at = "numbered" => call'[d] = call[d]
  BY DEF Inv, TypeOK
<1>3. VersionsNumbered' /\ \A s \in Scopes : \E m \in {0} \cup NumbersOf(s)' : \A n \in NumbersOf(s)' : n <= m
  BY <1>1 DEF Inv, Numbered, VersionsNumbered
<1>4. ASSUME NEW d \in Calls, call'[d].at = "numbered"
      PROVE  /\ call'[d].number # 0
             /\ \A n \in 1..(call'[d].number - 1) : n \in NumbersOf(call[d].scope)'
  BY <1>2, <1>4 DEF Inv, Numbered, NumbersOf
<1>5. QED
  BY <1>1, <1>3, <1>4 DEF Numbered, NumbersOf

LEMMA DeactivateKeeps ==
  ASSUME Inv, NEW c \in Calls, Deactivate(c)
  PROVE  Inv'
<1> USE DEF Inv
<1> DEFINE rec == [call[c] EXCEPT !.at = "cleared", !.prev = 0]
           k == call[c].key
<1>1. call[c] \in CallType /\ k \in Keys /\ c \in Busy(k)
  BY DEF TypeOK, CallType, Deactivate, Busy, Working
<1>2. /\ rec.at = "cleared" /\ rec.key = k /\ rec.alone = call[c].alone
      /\ rec \in CallType'
  <2>1. 0 \in Rows /\ Rows' = Rows
    <3>1. Len(row') = Len(row) /\ Len(row) \in Nat
      BY RowTyped, ClearRow DEF Deactivate, CallsApart, TypeOK, RowsType, RowType
    <3>2. QED
      BY <3>1 DEF Rows
  <2>2. QED
    BY <1>1, <2>1 DEF CallType, Working
<1>3. /\ call' = [call EXCEPT ![c] = rec] /\ call'[c] = rec
      /\ \A d \in Calls \ {c} : call'[d] = call[d]
  BY DEF Deactivate, Become, TypeOK
<1>4. /\ row' \in Seq(RowType) /\ Len(row') = Len(row) /\ DOMAIN row' = DOMAIN row
      /\ \A i \in DOMAIN row : /\ row'[i].key = row[i].key
                               /\ row'[i].active <=> (row[i].active /\ i # call[c].prev)
      /\ row' # <<>> => row # <<>>
      /\ call[c].prev # 0 => row[call[c].prev].key = k
  <2>1. row \in Seq(RowType)
    BY DEF TypeOK, RowType
  <2>2. CASE call[c].prev = 0
    BY <2>1, <2>2, RowTyped DEF Deactivate
  <2>3. CASE call[c].prev # 0
    BY <2>1, <2>3, ClearRow DEF Deactivate, CallsApart, RowsType
  <2>4. QED
    BY <2>2, <2>3
<1>5. UNCHANGED <<version, reader, inForce, overlapped>>
  BY DEF Deactivate
<1> HIDE DEF rec, k
<1>6. TypeOK'
  <2>1. row' # <<>> => Versioned
    BY <1>4 DEF TypeOK
  <2>2. Len(row) <= Len(row')
    BY <1>4, RowTyped
  <2>3. QED
    BY <1>2, <1>3, <1>4, <1>5, <2>1, <2>2, RowStepTypes
<1>7. Numbered'
  BY <1>2, <1>3, <1>5, RowStepNumbered
<1>8. /\ \A m : ActiveOf(m)' \subseteq ActiveOf(m)
      /\ \A m : m # k => ActiveOf(m)' = ActiveOf(m)
      /\ \A m : Busy(m)' = Busy(m)
  <2>1. \A m : ActiveOf(m)' \subseteq ActiveOf(m)
    BY <1>4 DEF ActiveOf
  <2>2. ASSUME NEW m, m # k, NEW i \in ActiveOf(m)
        PROVE  i \in ActiveOf(m)'
    BY <1>4, <2>2, RowTyped DEF ActiveOf
  <2>3. \A m : Busy(m)' = Busy(m)
    BY <1>1, <1>2, <1>3 DEF Busy, Working
  <2>4. QED
    BY <2>1, <2>2, <2>3
<1>9. CallsApart'
  <2>1. ASSUME NEW d \in Calls \ {c}, call[d].at = "placed", call[d].alone
        PROVE  row'[call[d].made].active
    <3>1. call[d].key # k
      BY <1>1, <2>1 DEF CallsApart, Busy, Working
    <3>2. QED
      BY <2>1, <3>1, <1>4 DEF CallsApart
  <2>2. ASSUME NEW d \in Calls
        PROVE  /\ call'[d].at = "found" /\ call'[d].prev # 0 =>
                     call'[d].prev \in DOMAIN row' /\ row'[call'[d].prev].key = call'[d].key
               /\ call'[d].at = "placed" =>
                     call'[d].made \in DOMAIN row' /\ row'[call'[d].made].key = call'[d].key
               /\ call'[d].at = "placed" /\ call'[d].alone => row'[call'[d].made].active
               /\ call'[d].at = "unassigned" => call'[d].key = GlobalKey
    BY <1>2, <1>3, <1>4, <2>1 DEF CallsApart
  <2>3. \A d \in Calls : /\ call'[d].at \in Working <=> call[d].at \in Working
                         /\ call'[d].key = call[d].key /\ call'[d].alone = call[d].alone
    BY <1>1, <1>2, <1>3 DEF Busy, k, Working
  <2>4. QED
    BY <2>2, <2>3 DEF CallsApart
<1>10. OneOverride'
  <2>1. SUFFICES ASSUME NEW m \in Keys \ overlapped, IsOverride(m)
                 PROVE  /\ \A i, j \in ActiveOf(m)' : i = j
                        /\ \A d, e \in Busy(m)' : d = e
                        /\ \A d \in Busy(m)' :
                              /\ call'[d].at = "found" => \A i \in ActiveOf(m)' : i = call'[d].prev
                              /\ call'[d].at = "cleared" => ActiveOf(m)' = {}
                              /\ call'[d].at = "placed" => \A i \in ActiveOf(m)' : i = call'[d].made
    BY <1>5 DEF OneOverride
  <2>2. CASE m = k
    <3>1. Busy(m)' = {c}
      BY <1>1, <1>8, <2>1, <2>2 DEF OneOverride
    <3>2. \A i \in ActiveOf(m) : i = call[c].prev
      BY <1>1, <2>1, <2>2 DEF OneOverride, Deactivate
    <3>3. ActiveOf(m)' = {}
      BY <3>2, <1>4, <1>8 DEF ActiveOf
    <3>4. QED
      BY <3>1, <3>3, <1>2, <1>3
  <2>3. CASE m # k
    <3>1. \A d \in Busy(m) : call'[d] = call[d]
      BY <1>3, <2>3 DEF Busy, k
    <3>2. QED
      BY <3>1, <1>8, <2>1, <2>3 DEF OneOverride
  <2>4. QED
    BY <2>2, <2>3
<1>11. InForceHolds'
  <2>1. ASSUME NEW m \in Keys, inForce[m] # 0
        PROVE  m # k
    BY <2>1, <1>1 DEF InForceHolds
  <2>2. QED
    BY <2>1, <1>5, <1>8 DEF InForceHolds
<1>12. Owed'
  BY <1>4, <1>5, AnswersStand
<1>13. QED
  BY <1>6, <1>7, <1>9, <1>10, <1>11, <1>12

\* A row is added by call c: rec is what becomes of the call.
LEMMA PlaceKeeps ==
  ASSUME Inv, NEW c \in Calls, Place(c), NEW rec \in CallType',
         call' = [call EXCEPT ![c] = rec],
         \/ call[c].at = "unassigned" /\ rec.at = "idle"
         \/ /\ call[c].at = "cleared" /\ rec.at = "placed" /\ rec.key = call[c].key
            /\ rec.made = Len(row) + 1 /\ rec.alone = call[c].alone,
         UNCHANGED <<version, reader, inForce, overlapped>>
  PROVE  Inv'
<1> USE DEF Inv
<1>0. PICK k \in Keys : k = call[c].key /\ (rec.at = "idle" => ~IsOverride(k))
  BY GlobalIsNoOverride DEF TypeOK, CallType, CallsApart
<1>1. /\ row' \in Seq(RowType) /\ row' # <<>>
      /\ Len(row') = Len(row) + 1 /\ Len(row) \in Nat
      /\ DOMAIN row = 1..Len(row) /\ DOMAIN row' = 1..(Len(row) + 1)
      /\ \A i \in DOMAIN row : i \in DOMAIN row' /\ row'[i] = row[i]
      /\ row'[Len(row) + 1].key = k /\ row'[Len(row) + 1].active
  BY <1>0, AppendRow DEF Place, TypeOK, RowsType, RowType
<1>2. call'[c] = rec /\ \A d \in Calls \ {c} : call'[d] = call[d]
  BY DEF TypeOK
<1>3. /\ c \in Busy(k) /\ \A m : Busy(m)' \subseteq Busy(m)
      /\ \A m : m # k => ActiveOf(m)' = ActiveOf(m)
      /\ ActiveOf(k)' = ActiveOf(k) \cup {Len(row) + 1}
  <2>1. c \in Busy(k)
    BY <1>0 DEF Busy, Working
  <2>2. \A m : Busy(m)' \subseteq Busy(m)
    BY <1>0, <1>2, <2>1 DEF Busy, Working
  <2>3. \A m : m # k => ActiveOf(m)' = ActiveOf(m)
    BY <1>1 DEF ActiveOf
  <2>4. ActiveOf(k)' = ActiveOf(k) \cup {Len(row) + 1}
    BY <1>1 DEF ActiveOf
  <2>5. QED
    BY <2>1, <2>2, <2>3, <2>4
<1>4. TypeOK'
  <2>1. row' \in Seq(RowType) /\ (row' # <<>> => Versioned) /\ Len(row) <= Len(row')
    BY <1>1 DEF Place
  <2>2. QED
    BY <2>1, RowStepTypes
<1>5. Numbered'
  BY RowStepNumbered, rec.at # "numbered"
<1>6. CallsApart'
  <2>1. \A d \in Calls : call'[d].at \in Working =>
             call[d].at \in Working /\ call'[d].key = call[d].key /\ call'[d].alone = call[d].alone
    BY <1>2 DEF Working
  <2>2. ASSUME NEW d \in Calls
        PROVE  /\ call'[d].at = "found" /\ call'[d].prev # 0 =>
                     call'[d].prev \in DOMAIN row' /\ row'[call'[d].prev].key = call'[d].key
               /\ call'[d].at = "placed" =>
                     call'[d].made \in DOMAIN row' /\ row'[call'[d].made].key = call'[d].key
               /\ call'[d].at = "placed" /\ call'[d].alone => row'[call'[d].made].active
               /\ call'[d].at = "unassigned" => call'[d].key = GlobalKey
    <3>1. CASE d = c
      BY <3>1, <1>0, <1>1, <1>2
    <3>2. CASE d # c
      BY <3>2, <1>1, <1>2 DEF CallsApart
    <3>3. QED
      BY <3>1, <3>2
  <2>3. QED
    BY <2>1, <2>2 DEF CallsApart
<1>7. OneOverride'
  <2>1. SUFFICES ASSUME NEW m \in Keys \ overlapped, IsOverride(m)
                 PROVE  /\ \A i, j \in ActiveOf(m)' : i = j
                        /\ \A d, e \in Busy(m)' : d = e
                        /\ \A d \in Busy(m)' :
                              /\ call'[d].at = "found" => \A i \in ActiveOf(m)' : i = call'[d].prev
                              /\ call'[d].at = "cleared" => ActiveOf(m)' = {}
                              /\ call'[d].at = "placed" => \A i \in ActiveOf(m)' : i = call'[d].made
    BY DEF OneOverride
  <2>2. \A d, e \in Busy(m)' : d = e
    BY <1>3, <2>1 DEF OneOverride
  <2>3. CASE m = k
    <3>0. call[c].at = "cleared" /\ ActiveOf(k) = {}
      BY <1>0, <1>3, <2>1, <2>3 DEF OneOverride
    <3>1. Busy(m)' \subseteq {c} /\ ActiveOf(m)' = {Len(row) + 1}
      BY <1>3, <2>1, <2>3, <3>0 DEF OneOverride
    <3>2. QED
      BY <3>1, <2>1, <2>2, <2>3, <1>0, <1>2
  <2>4. CASE m # k
    <3>1. \A d \in Busy(m)' : d \in Busy(m) /\ call'[d] = call[d]
      BY <1>0, <1>2, <1>3, <2>4 DEF Busy, Working
    <3>2. QED
      BY <3>1, <1>3, <2>1, <2>2, <2>4 DEF OneOverride
  <2>5. QED
    BY <2>3, <2>4
<1>8. InForceHolds'
  <2>1. ASSUME NEW m \in Keys, inForce[m] # 0
        PROVE  m # k
    BY <2>1, <1>3 DEF InForceHolds
  <2>2. QED
    BY <2>1, <1>3 DEF InForceHolds
<1>9. Owed'
  BY <1>1, AnswersStand
<1>10. QED
  BY <1>4, <1>5, <1>6, <1>7, <1>8, <1>9

LEMMA InsertRowKeeps ==
  ASSUME Inv, NEW c \in Calls, InsertRow(c)
  PROVE  Inv'
<1> USE DEF Inv
<1> DEFINE rec == [call[c] EXCEPT !.at = "placed", !.made = Len(row) + 1]
<1>1. call[c] \in CallType /\ Len(row) \in Nat /\ Len(row') = Len(row) + 1
  BY RowTyped, AppendRow DEF TypeOK, InsertRow, Place, CallType, RowsType, RowType
<1>2. Rows \subseteq Rows' /\ Len(row) + 1 \in Rows'
  BY <1>1 DEF Rows
<1>3. /\ rec \in CallType' /\ call' = [call EXCEPT ![c] = rec]
      /\ rec.at = "placed" /\ rec.key = call[c].key /\ call[c].key \in Keys
      /\ rec.made = Len(row) + 1 /\ rec.alone = call[c].alone
  BY <1>1, <1>2 DEF CallType, InsertRow, Become, Working
<1> HIDE DEF rec
<1>4. /\ call[c].at = "cleared" /\ Place(c)
      /\ UNCHANGED <<version, reader, inForce, overlapped>>
  BY DEF InsertRow
<1>5. QED
  BY <1>3, <1>4, PlaceKeeps

LEMMA InsertGlobalAssignmentKeeps ==
  ASSUME Inv, NEW c \in Calls, InsertGlobalAssignment(c)
  PROVE  Inv'
<1> USE DEF Inv
<1>1. call[c].key = GlobalKey /\ Len(row) \in Nat /\ Len(row') = Len(row) + 1
  BY RowTyped, AppendRow, GlobalIsNoOverride
  DEF CallsApart, InsertGlobalAssignment, Place, TypeOK, RowsType, RowType
<1>2. Idle \in CallType'
  BY IdleType, <1>1 DEF CallType, Rows, Idle
<1>3. /\ call[c].at = "unassigned" /\ Place(c) /\ call' = [call EXCEPT ![c] = Idle]
      /\ UNCHANGED <<version, reader, inForce, overlapped>>
      /\ Idle.at = "idle" /\ ~IsOverride(GlobalKey) /\ GlobalKey \in Keys
  BY IdleType, GlobalIsNoOverride DEF InsertGlobalAssignment, Become
<1>4. QED
  BY <1>1, <1>2, <1>3, PlaceKeeps

-----------------------------------------------------------------------------
(* The other steps of a call *)

\* The types, when one call and perhaps the versions change.
LEMMA CallTypes ==
  ASSUME Inv, NEW c \in Calls, NEW rec \in CallType, call' = [call EXCEPT ![c] = rec],
         UNCHANGED <<row, reader, inForce, overlapped>>, VersionsType',
         Versioned => Versioned'
  PROVE  TypeOK'
<1>1. CallsType' /\ ReadersType' /\ HistoryType' /\ RowsType'
  BY Parts DEF Inv, CallsType, CallType, ReadersType, ReaderType, HistoryType, RowsType, RowType, Rows
<1>2. row' # <<>> => Versioned'
  BY DEF Inv, TypeOK
<1>3. QED
  BY <1>1, <1>2 DEF TypeOK, RowsType, RowType, CallsType, ReadersType, HistoryType, VersionsType

LEMMA CreateVersionKeeps ==
  ASSUME Inv, NEW c \in Calls, NEW s \in Scopes, CreateVersion(c, s)
  PROVE  Inv'
<1> USE DEF Inv
<1> DEFINE rec == [Idle EXCEPT !.at = "numbered", !.scope = s, !.number = NextNumber(s)]
<1>1. /\ NextNumber(s) \in Nat \ {0}
      /\ \A n \in 1..(NextNumber(s) - 1) : n \in NumbersOf(s)
  BY NextIsNext, Parts
<1>2. /\ rec \in CallType /\ rec.at = "numbered"
      /\ rec.scope = s /\ rec.number = NextNumber(s)
  BY <1>1, IdleType DEF CallType
<1>3. /\ call' = [call EXCEPT ![c] = rec] /\ call'[c] = rec
      /\ \A d \in Calls \ {c} : call'[d] = call[d]
      /\ UNCHANGED <<version, row, reader, inForce, overlapped>>
  BY DEF CreateVersion, Become, TypeOK
<1> HIDE DEF rec
<1>4. VersionsType' /\ (Versioned => Versioned')
  BY <1>3, Parts DEF VersionsType, Versioned
<1>5. TypeOK'
  BY <1>2, <1>3, <1>4, CallTypes
<1>6. Numbered'
  <2>1. \A t : NumbersOf(t)' = NumbersOf(t)
    BY <1>3 DEF NumbersOf
  <2>2. VersionsNumbered' /\ \A t \in Scopes : \E m \in {0} \cup NumbersOf(t)' : \A n \in NumbersOf(t)' : n <= m
    BY <1>3, <2>1 DEF Numbered, VersionsNumbered
  <2>3. ASSUME NEW d \in Calls, call'[d].at = "numbered"
        PROVE  /\ call'[d].number # 0
               /\ \A n \in 1..(call'[d].number - 1) : n \in NumbersOf(call[d].scope)'
    <3>1. CASE d = c
      <4>1. NumbersOf(call[d].scope)' = NumbersOf(s)
        BY <3>1, <1>2, <1>3 DEF NumbersOf
      <4>2. QED
        BY <3>1, <4>1, <1>1, <1>2, <1>3
    <3>2. CASE d # c
      <4>1. call'[d] = call[d]
        BY <3>2, <1>3
      <4>2. NumbersOf(call[d].scope)' = NumbersOf(call[d].scope)
        BY <4>1, <1>3 DEF NumbersOf
      <4>3. QED
        BY <2>3, <4>1, <4>2 DEF Numbered
    <3>3. QED
      BY <3>1, <3>2
  <2>4. QED
    BY <1>3, <2>1, <2>2, <2>3 DEF Numbered, NumbersOf
<1>7. CallsApart' /\ OneOverride' /\ InForceHolds' /\ Owed'
  BY <1>2, <1>3, QuietCall DEF Working
<1>8. QED
  BY <1>5, <1>6, <1>7

LEMMA InsertVersionKeeps ==
  ASSUME Inv, NEW c \in Calls, InsertVersion(c)
  PROVE  Inv'
<1> USE DEF Inv
<1>1. /\ call[c].scope \in Scopes /\ call[c].number \in Nat \ {0}
      /\ \A n \in 1..(call[c].number - 1) : n \in NumbersOf(call[c].scope)
  BY DEF TypeOK, CallType, InsertVersion, Numbered
<1>2. PICK s \in Scopes, n \in Nat \ {0} : s = call[c].scope /\ n = call[c].number
  BY <1>1
<1>3. /\ version' = [version EXCEPT ![s] = Append(@, n)] /\ NumberFree(s, n)
      /\ \A m \in 1..(n - 1) : m \in NumbersOf(s)
      /\ call' = [call EXCEPT ![c] = Idle] /\ UNCHANGED <<row, reader, inForce, overlapped>>
  BY <1>1, <1>2 DEF InsertVersion, Become
<1>4. \A d \in Calls : call'[d].at = "numbered" => call'[d] = call[d]
  BY <1>3, IdleType DEF TypeOK
<1>5. Numbered'
  BY <1>3, <1>4, InsertKeeps, Parts
<1>6. VersionsType' /\ Versioned'
  BY <1>3, AppendVersion, Parts
<1>7. TypeOK'
  BY <1>3, <1>6, IdleType, CallTypes
<1>8. QED
  BY <1>3, <1>5, <1>7, IdleType, QuietCall DEF Working

LEMMA FindGlobalVersionKeeps ==
  ASSUME Inv, NEW c \in Calls, FindGlobalVersion(c)
  PROVE  Inv'
<1> USE DEF Inv
<1> DEFINE rec == [Idle EXCEPT !.at = IF 1 \in NumbersOf(Global) THEN "versioned" ELSE "unversioned"]
<1>1. rec \in CallType /\ rec.at \in {"versioned", "unversioned"}
  BY IdleType DEF CallType
<1>2. call' = [call EXCEPT ![c] = rec] /\ UNCHANGED <<version, row, reader, inForce, overlapped>>
  BY DEF FindGlobalVersion, Become
<1> HIDE DEF rec
<1>3. VersionsType' /\ (Versioned => Versioned')
  BY <1>2, Parts DEF VersionsType, Versioned
<1>4. TypeOK'
  BY <1>1, <1>2, <1>3, CallTypes
<1>5. Numbered'
  BY <1>1, <1>2, RowStepNumbered
<1>6. QED
  BY <1>1, <1>2, <1>4, <1>5, QuietCall DEF Working

LEMMA InsertGlobalVersionKeeps ==
  ASSUME Inv, NEW c \in Calls, InsertGlobalVersion(c)
  PROVE  Inv'
<1> USE DEF Inv
<1> DEFINE rec == [call[c] EXCEPT !.at = "versioned"]
<1>1. rec \in CallType /\ rec.at = "versioned"
  BY DEF TypeOK, CallType
<1>2. /\ version' = [version EXCEPT ![Global] = Append(@, 1)]
      /\ call' = [call EXCEPT ![c] = rec] /\ call'[c] = rec
      /\ \A d \in Calls \ {c} : call'[d] = call[d]
      /\ UNCHANGED <<row, reader, inForce, overlapped>>
  BY DEF InsertGlobalVersion, Become, TypeOK
<1> HIDE DEF rec
<1>3. Global \in Scopes /\ NumberFree(Global, 1) /\ 1 \in Nat \ {0} /\ 1..(1 - 1) = {}
  BY PoliciesAssumption DEF Global, NumberFree
<1>4. \A d \in Calls : call'[d].at = "numbered" => call'[d] = call[d]
  BY <1>1, <1>2
<1>5. Numbered'
  BY <1>2, <1>3, <1>4, InsertKeeps, Parts
<1>6. VersionsType' /\ Versioned'
  BY <1>2, <1>3, AppendVersion, Parts
<1>7. TypeOK'
  BY <1>1, <1>2, <1>6, CallTypes
<1>8. QED
  BY <1>1, <1>2, <1>5, <1>7, QuietCall DEF Working

LEMMA FailKeeps ==
  ASSUME Inv, NEW c \in Calls, Fail(c)
  PROVE  Inv'
<1> USE DEF Inv
<1>1. call' = [call EXCEPT ![c] = Idle] /\ UNCHANGED <<version, row, reader, inForce, overlapped>>
  BY DEF Fail, Become
<1>2. VersionsType' /\ (Versioned => Versioned')
  BY <1>1, Parts DEF VersionsType, Versioned
<1>3. TypeOK' /\ Numbered'
  BY <1>1, <1>2, IdleType, CallTypes, RowStepNumbered
<1>4. QED
  BY <1>1, <1>3, IdleType, QuietCall DEF Working

LEMMA FindPreviousKeeps ==
  ASSUME Inv, NEW c \in Calls, NEW k \in Keys, FindPrevious(c, k)
  PROVE  Inv'
<1> USE DEF Inv
<1>1. PICK p \in IF ActiveOf(k) = {} THEN {0} ELSE ActiveOf(k) :
         Enter(c, k, [Idle EXCEPT !.at = "found", !.key = k, !.prev = p])
  BY DEF FindPrevious
<1> DEFINE rec == [Idle EXCEPT !.at = "found", !.key = k, !.prev = p]
<1>2. p \in Rows
  BY <1>1, RowTyped DEF Rows, ActiveOf
<1>3. rec \in CallType /\ rec.at = "found" /\ rec.key = k /\ rec.prev = p
  BY <1>2, IdleType DEF CallType, Working
<1>4. /\ Enter(c, k, rec) /\ call[c].at \notin Working /\ UNCHANGED <<version, row>>
  BY <1>1 DEF FindPrevious, Working
<1> HIDE DEF rec
<1>5. QED
  BY <1>1, <1>3, <1>4, Entering

LEMMA FindGlobalAssignmentKeeps ==
  ASSUME Inv, NEW c \in Calls, FindGlobalAssignment(c)
  PROVE  Inv'
<1> USE DEF Inv
<1>1. CASE ActiveGlobal # {}
  <2>1. call' = [call EXCEPT ![c] = Idle] /\ UNCHANGED <<version, row, reader, inForce, overlapped>>
    BY <1>1 DEF FindGlobalAssignment, Become
  <2>2. VersionsType' /\ (Versioned => Versioned')
    BY <2>1, Parts DEF VersionsType, Versioned
  <2>3. TypeOK' /\ Numbered'
    BY <2>1, <2>2, IdleType, CallTypes, RowStepNumbered
  <2>4. QED
    BY <2>1, <2>3, IdleType, QuietCall DEF Working
<1>2. CASE ActiveGlobal = {}
  <2> DEFINE rec == [Idle EXCEPT !.at = "unassigned"]
  <2>1. rec \in CallType /\ rec.at = "unassigned" /\ rec.key = GlobalKey
    BY IdleType DEF CallType, Working
  <2>2. /\ Enter(c, GlobalKey, rec) /\ call[c].at \notin Working /\ UNCHANGED <<version, row>>
    BY <1>2 DEF FindGlobalAssignment, Working
  <2> HIDE DEF rec
  <2>3. QED
    BY <2>1, <2>2, GlobalIsNoOverride, Entering
<1>3. QED
  BY <1>1, <1>2

LEMMA LogChangeKeeps ==
  ASSUME Inv, NEW c \in Calls, LogChange(c)
  PROVE  Inv'
<1> USE DEF Inv
<1>0. PICK k \in Keys, m \in Rows : k = call[c].key /\ m = call[c].made
  BY DEF TypeOK, CallType
<1> DEFINE settles == call[c].alone /\ (IsOverride(k) => k \notin overlapped)
<1>1. /\ call' = [call EXCEPT ![c] = Idle] /\ call'[c] = Idle
      /\ \A d \in Calls \ {c} : call'[d] = call[d]
      /\ UNCHANGED <<version, row, reader, overlapped>>
  BY DEF LogChange, Become, TypeOK
<1>2. /\ m \in ActiveOf(k) \/ ~settles
      /\ settles => /\ \A d \in Busy(k) : d = c
                    /\ IsOverride(k) => \A i \in ActiveOf(k) : i = m
      /\ c \in Busy(k)
  BY <1>0 DEF LogChange, CallsApart, OneOverride, ActiveOf, Busy, Working
<1>3. inForce[k] = 0
  BY <1>2 DEF InForceHolds
<1>4. /\ settles => inForce'[k] = m
      /\ ~settles => inForce'[k] = 0
      /\ \A n \in Keys \ {k} : inForce'[n] = inForce[n]
      /\ inForce' \in [Keys -> Rows]
  BY <1>0, <1>3 DEF LogChange, TypeOK
<1> HIDE DEF settles
<1>5. TypeOK'
  <2>1. CallsType' /\ ReadersType' /\ RowsType' /\ VersionsType'
    BY <1>1, IdleType, Parts DEF CallsType, CallType, ReadersType, ReaderType, RowsType, RowType,
       VersionsType, Rows
  <2>2. HistoryType'
    BY <1>1, <1>4 DEF TypeOK, HistoryType, Rows
  <2>3. row' # <<>> => Versioned'
    BY <1>1 DEF TypeOK, Versioned
  <2>4. QED
    BY <2>1, <2>2, <2>3 DEF TypeOK, RowsType, RowType, CallsType, ReadersType, HistoryType, VersionsType
<1>6. Numbered'
  BY <1>1, IdleType, RowStepNumbered
<1>7. /\ \A n : ActiveOf(n)' = ActiveOf(n)
      /\ \A n : Busy(n)' \subseteq Busy(n) /\ \A d \in Busy(n)' : d # c /\ call'[d] = call[d]
  BY <1>1, IdleType DEF ActiveOf, Busy, Working
<1>8. CallsApart'
  BY <1>1, IdleType DEF CallsApart, Working
<1>9. OneOverride'
  <2>1. SUFFICES ASSUME NEW n \in Keys \ overlapped, IsOverride(n)
                 PROVE  /\ \A i, j \in ActiveOf(n)' : i = j
                        /\ \A d, e \in Busy(n)' : d = e
                        /\ \A d \in Busy(n)' :
                              /\ call'[d].at = "found" => \A i \in ActiveOf(n)' : i = call'[d].prev
                              /\ call'[d].at = "cleared" => ActiveOf(n)' = {}
                              /\ call'[d].at = "placed" => \A i \in ActiveOf(n)' : i = call'[d].made
    BY <1>1 DEF OneOverride
  <2>2. QED
    BY <2>1, <1>7 DEF OneOverride
<1>10. InForceHolds'
  <2>1. ASSUME NEW n \in Keys, inForce'[n] # 0
        PROVE  /\ inForce'[n] \in ActiveOf(n) /\ Busy(n)' = {}
               /\ IsOverride(n) => \A i \in ActiveOf(n) : i = inForce'[n]
    <3>1. CASE n = k
      <4>1. settles
        BY <2>1, <3>1, <1>4
      <4>2. Busy(k)' = {}
        BY <4>1, <1>2, <1>7
      <4>3. QED
        BY <3>1, <4>1, <4>2, <1>2, <1>4
    <3>2. CASE n # k
      BY <2>1, <3>2, <1>4, <1>7 DEF InForceHolds
    <3>3. QED
      BY <3>1, <3>2
  <2>2. QED
    BY <2>1, <1>7 DEF InForceHolds
<1>11. Owed'
  <2>1. ASSUME NEW r \in Readers, NEW j \in reader[r].floor PROVE inForce'[row[j].key] = j
    <3>1. j # 0 /\ j \in DOMAIN row /\ inForce[row[j].key] = j /\ row[j].key \in Keys
      BY <2>1, RowTyped DEF Owed
    <3>2. row[j].key # k
      BY <3>1, <1>3
    <3>3. QED
      BY <3>1, <3>2, <1>4
  <2>2. QED
    BY <1>1, <2>1, OwedOfRows DEF Owed
<1>12. QED
  BY <1>5, <1>6, <1>8, <1>9, <1>10, <1>11

-----------------------------------------------------------------------------
(* Resolutions *)

\* A resolution r becomes rec, to which no more is owed than it gets.
LEMMA ReaderKeeps ==
  ASSUME Inv, NEW r \in Readers, NEW rec \in ReaderType, reader' = [reader EXCEPT ![r] = rec],
         UNCHANGED <<version, row, call, inForce, overlapped>>,
         \A j \in rec.floor :
            /\ j # 0 /\ j \in DOMAIN row /\ inForce[row[j].key] = j
            /\ OverrideMatches(row[j].key, rec.q) \/ AssignmentMatches(row[j].key, rec.q)
            /\ rec.at \in {"asked", "general"} => j <= rec.stamp
            /\ rec.at = "general" => ~IsOverride(row[j].key)
            /\ rec.at = "answered" => rec.answer # 0 /\ AtLeast(rec.answer, j)
  PROVE  Inv'
<1> USE DEF Inv
<1>1. reader'[r] = rec /\ \A s \in Readers \ {r} : reader'[s] = reader[s]
  BY DEF TypeOK
<1>2. TypeOK'
  <2>1. CallsType' /\ ReadersType' /\ RowsType' /\ VersionsType' /\ HistoryType'
    BY Parts DEF CallsType, CallType, ReadersType, ReaderType, RowsType, RowType,
       VersionsType, HistoryType, Rows
  <2>2. row' # <<>> => Versioned'
    BY DEF TypeOK, Versioned
  <2>3. QED
    BY <2>1, <2>2 DEF TypeOK, RowsType, RowType, CallsType, ReadersType, HistoryType, VersionsType
<1>3. Numbered' /\ CallsApart' /\ OneOverride' /\ InForceHolds'
  BY DEF Numbered, VersionsNumbered, NumbersOf, CallsApart, OneOverride, InForceHolds, ActiveOf, Busy
<1>4. Owed'
  <2>1. SUFFICES ASSUME NEW s \in Readers, NEW j \in reader'[s].floor
                 PROVE  /\ j # 0 /\ j \in DOMAIN row /\ inForce[row[j].key] = j
                        /\ OverrideMatches(row[j].key, reader'[s].q)
                           \/ AssignmentMatches(row[j].key, reader'[s].q)
                        /\ reader'[s].at \in {"asked", "general"} => j <= reader'[s].stamp
                        /\ reader'[s].at = "general" => ~IsOverride(row[j].key)
                        /\ reader'[s].at = "answered" =>
                              reader'[s].answer # 0 /\ AtLeast(reader'[s].answer, j)
    BY OwedOfRows
  <2>2. CASE s = r
    BY <2>1, <2>2, <1>1
  <2>3. CASE s # r
    BY <2>1, <2>3, <1>1 DEF Owed
  <2>4. QED
    BY <2>2, <2>3
<1>5. QED
  BY <1>2, <1>3, <1>4

LEMMA AskKeeps ==
  ASSUME Inv, NEW r \in Readers, NEW q \in Questions, Ask(r, q)
  PROVE  Inv'
<1> USE DEF Inv
<1> DEFINE owed == {inForce[k] : k \in {m \in Keys : /\ inForce[m] # 0
                                                     /\ OverrideMatches(m, q) \/ AssignmentMatches(m, q)}}
           rec == [at |-> "asked", q |-> q, stamp |-> Len(row), answer |-> 0, floor |-> owed]
<1>1. \A j \in owed : \E k \in Keys : /\ j = inForce[k] /\ j # 0
                                      /\ OverrideMatches(k, q) \/ AssignmentMatches(k, q)
  OBVIOUS
<1>2. \A j \in owed : /\ j # 0 /\ j \in DOMAIN row /\ inForce[row[j].key] = j /\ j <= Len(row)
                      /\ OverrideMatches(row[j].key, q) \/ AssignmentMatches(row[j].key, q)
  BY <1>1, RowTyped DEF InForceHolds, ActiveOf
<1>3. rec \in ReaderType /\ reader' = [reader EXCEPT ![r] = rec]
      /\ UNCHANGED <<version, row, call, inForce, overlapped>>
  BY <1>2, RowTyped DEF ReaderType, Rows, Ask
<1>4. QED
  BY ZenonT(60), <1>2, <1>3, ReaderKeeps

LEMMA QuietType == Quiet \in ReaderType /\ Quiet.floor = {}
  BY RowTyped DEF Quiet, ReaderType, Rows

LEMMA AskUnscopedKeeps ==
  ASSUME Inv, NEW r \in Readers, NEW q \in Questions, AskUnscoped(r, q)
  PROVE  Inv'
<1> DEFINE rec == [Quiet EXCEPT !.at = "answered", !.q = q]
<1>1. rec \in ReaderType /\ rec.floor = {}
  BY QuietType DEF ReaderType
<1>2. /\ reader' = [reader EXCEPT ![r] = rec]
      /\ UNCHANGED <<version, row, call, inForce, overlapped>>
  BY DEF AskUnscoped
<1> HIDE DEF rec
<1>3. QED
  BY <1>1, <1>2, ReaderKeeps

LEMMA LeaveKeeps ==
  ASSUME Inv, NEW r \in Readers, Leave(r)
  PROVE  Inv'
  BY QuietType, ReaderKeeps DEF Leave

LEMMA ReadOverridesKeeps ==
  ASSUME Inv, NEW r \in Readers, ReadOverrides(r)
  PROVE  Inv'
<1> USE DEF Inv
<1> DEFINE q == reader[r].q
           found == {i \in DOMAIN row : row[i].active /\ OverrideMatches(row[i].key, q)}
<1>1. /\ reader[r] \in ReaderType /\ reader[r].at = "asked"
      /\ UNCHANGED <<version, row, call, inForce, overlapped>>
  BY DEF ReadOverrides, TypeOK
<1>2. \A j \in reader[r].floor :
         /\ j # 0 /\ j \in DOMAIN row /\ inForce[row[j].key] = j /\ j \in ActiveOf(row[j].key)
         /\ OverrideMatches(row[j].key, q) \/ AssignmentMatches(row[j].key, q)
         /\ j <= reader[r].stamp
         /\ IsOverride(row[j].key) => j \in found /\ \A i \in ActiveOf(row[j].key) : i = j
  <2>1. ASSUME NEW j \in reader[r].floor
        PROVE  /\ j # 0 /\ j \in DOMAIN row /\ inForce[row[j].key] = j /\ row[j].key \in Keys
               /\ OverrideMatches(row[j].key, q) \/ AssignmentMatches(row[j].key, q)
               /\ j <= reader[r].stamp
    BY <1>1, RowTyped DEF Owed
  <2>2. ASSUME NEW j \in reader[r].floor
        PROVE  /\ j \in ActiveOf(row[j].key)
               /\ IsOverride(row[j].key) => \A i \in ActiveOf(row[j].key) : i = j
    BY <2>1 DEF InForceHolds
  <2>3. QED
    BY <2>1, <2>2 DEF ActiveOf, AssignmentMatches
<1>3. CASE found = {}
  <2> DEFINE rec == [reader[r] EXCEPT !.at = "general"]
  <2>1. /\ rec \in ReaderType /\ rec.at = "general" /\ rec.q = q
        /\ rec.floor = reader[r].floor /\ rec.stamp = reader[r].stamp
    BY <1>1 DEF ReaderType
  <2>2. reader' = [reader EXCEPT ![r] = rec]
    BY <1>3 DEF ReadOverrides
  <2> HIDE DEF rec
  <2>3. \A j \in rec.floor : ~IsOverride(row[j].key)
    BY <1>2, <1>3, <2>1
  <2>4. QED
    BY ZenonT(60), <1>1, <1>2, <2>1, <2>2, <2>3, ReaderKeeps
<1>4. CASE found # {}
  <2>1. PICK i \in found : /\ \A j \in found : Length[row[j].key.namespace] <= Length[row[i].key.namespace]
                           /\ Answer(r, i)
    BY <1>4 DEF ReadOverrides
  <2> DEFINE rec == [reader[r] EXCEPT !.at = "answered", !.stamp = 0, !.answer = i]
  <2>2. i # 0 /\ i \in Rows /\ IsOverride(row[i].key) /\ i \in ActiveOf(row[i].key) /\ 0 \in Rows
    BY <2>1, RowTyped DEF Rows, OverrideMatches, ActiveOf
  <2>3. /\ rec \in ReaderType /\ rec.at = "answered" /\ rec.q = q
        /\ rec.floor = reader[r].floor /\ rec.answer = i
    BY <1>1, <2>2 DEF ReaderType
  <2>4. reader' = [reader EXCEPT ![r] = rec]
    BY <2>1 DEF Answer
  <2> HIDE DEF rec
  <2>5. ASSUME NEW j \in rec.floor
        PROVE  AtLeast(i, j)
    <3>1. CASE IsOverride(row[j].key)
      <4>1. Length[row[j].key.namespace] <= Length[row[i].key.namespace]
        BY <2>1, <2>3, <2>5, <3>1, <1>2
      <4>2. row[i].key = row[j].key => i = j
        BY <2>2, <2>3, <2>5, <3>1, <1>2
      <4>3. Length[row[i].key.namespace] \in Nat /\ Length[row[j].key.namespace] \in Nat
        <5>1. row[i].key \in KeyType /\ row[j].key \in KeyType
          BY <1>2, <2>3, <2>5, <2>2, RowTyped, PoliciesAssumption DEF ActiveOf
        <5>2. row[i].key.namespace \in Patterns /\ row[j].key.namespace \in Patterns
          BY <5>1, <2>2, <3>1 DEF KeyType, IsOverride
        <5>3. QED
          BY <5>2, PoliciesAssumption
      <4>4. i \in Nat
        BY <2>2, RowTyped DEF Rows
      <4>5. QED
        BY <3>1, <4>1, <4>2, <4>3, <4>4, <2>2 DEF AtLeast
    <3>2. CASE ~IsOverride(row[j].key)
      BY <3>2, <2>2 DEF AtLeast
    <3>3. QED
      BY <3>1, <3>2
  <2>6. QED
    BY ZenonT(60), <1>1, <1>2, <2>2, <2>3, <2>4, <2>5, ReaderKeeps
<1>5. QED
  BY <1>3, <1>4

LEMMA ReadAssignmentsKeeps ==
  ASSUME Inv, NEW r \in Readers, ReadAssignments(r)
  PROVE  Inv'
<1> USE DEF Inv
<1> DEFINE q == reader[r].q
           found == {i \in 1..reader[r].stamp : row[i].active /\ AssignmentMatches(row[i].key, q)}
<1>1. /\ reader[r] \in ReaderType /\ reader[r].at = "general"
      /\ UNCHANGED <<version, row, call, inForce, overlapped>>
  BY DEF ReadAssignments, TypeOK
<1>2. reader[r].stamp \in Rows /\ found \subseteq DOMAIN row /\ 0 \in Rows /\ DOMAIN row \subseteq Rows
  BY <1>1, RowTyped DEF ReaderType, Rows
<1>3. \A j \in reader[r].floor :
         /\ j # 0 /\ j \in DOMAIN row /\ inForce[row[j].key] = j
         /\ OverrideMatches(row[j].key, q) \/ AssignmentMatches(row[j].key, q)
         /\ ~IsOverride(row[j].key) /\ j \in found
  <2>1. ASSUME NEW j \in reader[r].floor
        PROVE  /\ j # 0 /\ j \in DOMAIN row /\ inForce[row[j].key] = j /\ row[j].key \in Keys
               /\ OverrideMatches(row[j].key, q) \/ AssignmentMatches(row[j].key, q)
               /\ j <= reader[r].stamp /\ ~IsOverride(row[j].key) /\ j \in 1..reader[r].stamp
    <3>1. /\ j # 0 /\ j \in DOMAIN row /\ inForce[row[j].key] = j
          /\ OverrideMatches(row[j].key, q) \/ AssignmentMatches(row[j].key, q)
          /\ j <= reader[r].stamp /\ ~IsOverride(row[j].key)
      BY <1>1 DEF Owed
    <3>2. QED
      BY <3>1, <1>2, RowTyped DEF Rows
  <2>2. ASSUME NEW j \in reader[r].floor
        PROVE  row[j].active
    BY <2>1 DEF InForceHolds, ActiveOf
  <2>3. QED
    BY <2>1, <2>2 DEF OverrideMatches
<1>4. PICK i \in IF found = {} THEN {0} ELSE {m \in found : \A j \in found : Outranks(m, j)} :
         Answer(r, i)
  BY DEF ReadAssignments
<1> DEFINE rec == [reader[r] EXCEPT !.at = "answered", !.stamp = 0, !.answer = i]
<1>5. i \in Rows
  BY <1>2, <1>4
<1>6. /\ rec \in ReaderType /\ rec.at = "answered" /\ rec.q = q
      /\ rec.floor = reader[r].floor /\ rec.answer = i
  BY <1>1, <1>2, <1>5 DEF ReaderType
<1>7. reader' = [reader EXCEPT ![r] = rec]
  BY <1>4 DEF Answer
<1> HIDE DEF rec
<1>8. ASSUME NEW j \in rec.floor
      PROVE  i # 0 /\ AtLeast(i, j)
  <2>1. j \in found /\ ~IsOverride(row[j].key)
    BY <1>3, <1>6
  <2>2. i \in found /\ Outranks(i, j)
    BY <2>1, <1>4
  <2>3. i # 0
    BY <2>2, <1>2, RowTyped
  <2>4. QED
    BY <2>1, <2>2, <2>3 DEF AtLeast
<1>9. QED
  BY ZenonT(60), <1>1, <1>3, <1>6, <1>7, <1>8, ReaderKeeps

-----------------------------------------------------------------------------
(* Theorems *)

LEMMA InitInv == Init => Inv
<1> SUFFICES ASSUME Init PROVE Inv
  OBVIOUS
<1> USE DEF Init
<1>1. TypeOK
  BY IdleType, QuietType DEF TypeOK, RowType, Rows
<1>2. \A s \in Scopes : DOMAIN version[s] = {} /\ NumbersOf(s) = {}
  BY DEF NumbersOf
<1>3. Numbered
  BY <1>2, IdleType DEF Numbered, VersionsNumbered
<1>4. \A k : Busy(k) = {} /\ ActiveOf(k) = {}
  BY IdleType DEF Busy, ActiveOf, Working
<1>5. CallsApart /\ OneOverride /\ InForceHolds /\ Owed
  BY <1>4, IdleType, QuietType DEF CallsApart, OneOverride, InForceHolds, Owed, Working
<1>6. QED
  BY <1>1, <1>3, <1>5 DEF Inv

LEMMA NextInv == Inv /\ [Next]_vars => Inv'
<1> SUFFICES ASSUME Inv, [Next]_vars PROVE Inv'
  OBVIOUS
<1>1. CASE UNCHANGED vars
  <2>1. TypeOK'
    BY <1>1 DEF Inv, TypeOK, CallType, ReaderType, Rows, Versioned, vars
  <2>2. Numbered' /\ CallsApart' /\ OneOverride' /\ InForceHolds'
    BY <1>1 DEF Inv, Numbered, VersionsNumbered, NumbersOf, CallsApart, OneOverride, InForceHolds,
       ActiveOf, Busy, vars
  <2>3. Owed'
    BY <1>1, OwedOfRows DEF Inv, Owed, vars
  <2>4. QED
    BY <2>1, <2>2, <2>3 DEF Inv
<1>2. ASSUME NEW c \in Calls, CallStep(c)
      PROVE  Inv'
  BY <1>2, CreateVersionKeeps, InsertVersionKeeps, FindPreviousKeeps, DeactivateKeeps, InsertRowKeeps,
     LogChangeKeeps, FindGlobalVersionKeeps, InsertGlobalVersionKeeps, FindGlobalAssignmentKeeps,
     InsertGlobalAssignmentKeeps, FailKeeps
  DEF CallStep, Create, AssignPolicy, SetNamespaceOverride
<1>3. ASSUME NEW r \in Readers, ReaderStep(r)
      PROVE  Inv'
  BY <1>3, AskKeeps, AskUnscopedKeeps, ReadOverridesKeeps, ReadAssignmentsKeeps, LeaveKeeps
  DEF ReaderStep
<1>4. QED
  BY <1>1, <1>2, <1>3 DEF Next

\* The inductive invariant: besides the types, that no number below one read is
\* missing, that a call knows the rows it found and made, that an override whose
\* calls never overlapped has one active row, and that what is in force is active
\* and not about to change.
THEOREM Inductive == Spec => []Inv
  BY InitInv, NextInv, PTL DEF Spec

\* Rows, versions, calls and resolutions keep their types.
THEOREM TypeCorrect == Spec => []TypeOK
<1>1. Inv => TypeOK
  BY DEF Inv
<1>2. QED
  BY <1>1, Inductive, PTL

\* Versions are numbered without a gap, and without a repetition where the scope
\* has a reference.
THEOREM Numbering == Spec => []VersionsNumbered
<1>1. Inv => VersionsNumbered
  BY DEF Inv, Numbered
<1>2. QED
  BY <1>1, Inductive, PTL

\* An answered assignment or override that no other call of its key overlapped or
\* followed is what a resolution uses, unless one of a higher place applies.
THEOREM InForceIsUsed == Spec => []ResolvesInForce
<1>1. Inv => ResolvesInForce
  BY DEF Inv, Owed, ResolvesInForce
<1>2. QED
  BY <1>1, Inductive, PTL
=============================================================================
