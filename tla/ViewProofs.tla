------------------------------ MODULE ViewProofs ------------------------------
(* Proofs about View, for every value of its constants. *)
EXTENDS View, FilterProofs, TLAPS

-----------------------------------------------------------------------------
(* What f says of each task is no newer than what g says.                  *)
Behind(f, g) == \A t \in Tasks : Rank[f[t]] <= Rank[g[t]]

Types ==
    /\ server \in Server
    /\ polls \subseteq Snapshot
    /\ last \in Snapshot
    /\ drawn \in Snapshot

(* The readings form a chain: what the table shows, what was delivered     *)
(* last, what a poll in flight has read, and the server.  There is one     *)
(* poll in flight at most.                                                 *)
ReadingsInOrder ==
    /\ drawn # NoRead => Good(drawn)
    /\ \A p, q \in polls : p = q
    /\ Good(last) => Behind(last.of, server)
    /\ Good(drawn) => Behind(drawn.of, server)
    /\ Good(drawn) /\ Good(last) => Behind(drawn.of, last.of)
    /\ \A p \in polls : Good(p) =>
          /\ Behind(p.of, server)
          /\ Good(last) => Behind(last.of, p.of)
          /\ Good(drawn) => Behind(drawn.of, p.of)

ReadingsInv == Types /\ ReadingsInOrder

LEMMA Ranks ==
  /\ \A s \in Stages : Rank[s] \in Nat
  /\ \A f \in Server : \A t \in Tasks : f[t] \in Stages
BY DEF Stages, Rank, Server

LEMMA SpecialSnapshots ==
  /\ {NoRead, Begun, Failed} \subseteq Snapshot
  /\ ~Good(NoRead) /\ ~Good(Begun) /\ ~Good(Failed)
BY DEF NoRead, Begun, Failed, Without, Snapshot, Server, Stages, Good

LEMMA BehindIsOrder ==
  /\ \A f \in Server : Behind(f, f)
  /\ \A f, g, h \in Server : Behind(f, g) /\ Behind(g, h) => Behind(f, h)
<1>1. ASSUME NEW f \in Server PROVE Behind(f, f)
  BY Ranks DEF Behind
<1>2. ASSUME NEW f \in Server, NEW g \in Server, NEW h \in Server,
             Behind(f, g), Behind(g, h)
      PROVE  Behind(f, h)
  <2> SUFFICES ASSUME NEW t \in Tasks PROVE Rank[f[t]] <= Rank[h[t]]
    BY DEF Behind
  <2>1. /\ Rank[f[t]] \in Nat /\ Rank[g[t]] \in Nat /\ Rank[h[t]] \in Nat
        /\ Rank[f[t]] <= Rank[g[t]] /\ Rank[g[t]] <= Rank[h[t]]
    BY <1>2, Ranks DEF Behind
  <2> QED  BY <2>1
<1> QED  BY <1>1, <1>2

(* A step of the run moves the server on.                                  *)
LEMMA ServerMovesOn ==
  ASSUME Types, TaskMoves
  PROVE  server' \in Server /\ Behind(server, server')
<1>1. PICK t \in Tasks, s \in Stages :
         Rank[s] = Rank[server[t]] + 1 /\ server' = [server EXCEPT ![t] = s]
  BY DEF TaskMoves
<1>2. server' \in Server  BY <1>1 DEF Types, Server
<1>3. ASSUME NEW u \in Tasks PROVE Rank[server[u]] <= Rank[server'[u]]
  <2>1. Rank[server[u]] \in Nat /\ Rank[server[t]] \in Nat
    BY Ranks DEF Types
  <2>2. server'[u] = IF u = t THEN s ELSE server[u]
    BY <1>1 DEF Types, Server
  <2>3. u = t => Rank[server'[u]] = Rank[server[u]] + 1
    BY <1>1, <2>2
  <2>4. u # t => server'[u] = server[u]  BY <2>2
  <2> QED  BY <2>1, <2>3, <2>4
<1> QED  BY <1>2, <1>3 DEF Behind

(* What any other step may do to the readings: nothing, or to one of them. *)
ReadingsStay == UNCHANGED <<server, polls, last, drawn>>

Polls(new) ==
    /\ polls' = new
    /\ UNCHANGED <<server, last, drawn>>

LEMMA StepShape ==
  ASSUME [Next]_vars
  PROVE  \/ ReadingsStay
         \/ TaskMoves /\ UNCHANGED <<polls, last, drawn>>
         \/ Polls({}) \/ Polls({Begun})
         \/ \E p \in polls, s \in {Read, Failed} : Polls((polls \ {p}) \cup {s})
         \/ \E p \in polls :
               /\ last' = p
               /\ \/ drawn' = drawn
                  \/ Good(p) /\ drawn' = p
               /\ polls' \in {polls \ {p}, (polls \ {p}) \cup {Begun}}
               /\ UNCHANGED server
         \/ Good(last) /\ drawn' = last /\ UNCHANGED <<server, polls, last>>
<1> USE DEF vars, serverVars, pollerVars, drawVars, filterVars
<1>1. CASE TaskMoves  BY <1>1 DEF TaskMoves
<1>2. CASE Toggle  BY <1>2 DEF Toggle, ReadingsStay
<1>3. CASE HandleChanged  BY <1>3 DEF HandleChanged, ReadingsStay
<1>4. CASE HandleCount  BY <1>4 DEF HandleCount, ReadingsStay
<1>5. CASE Mount
  BY <1>5 DEF Mount, PollNow, Quiet, Draws, ReadingsStay, Polls
<1>6. CASE Ask
  BY <1>6 DEF Ask, PollNow, Quiet, Draws, ReadingsStay, Polls
<1>7. CASE Tick
  BY <1>7 DEF Tick, PollNow, Quiet, Draws, ReadingsStay, Polls
<1>8. CASE Unmount
  BY <1>8 DEF Unmount, Quiet, Draws, Polls
<1>9. CASE Attach
  BY <1>9 DEF Attach, Show, ReadingsStay
<1>10. CASE Detach  BY <1>10 DEF Detach, ReadingsStay
<1>11. ASSUME NEW p \in polls, Collect(p)
       PROVE  \E s \in {Read, Failed} : Polls((polls \ {p}) \cup {s})
  BY <1>11 DEF Collect, Quiet, Draws, Polls
<1>12. ASSUME NEW p \in polls, Deliver(p)
       PROVE  /\ last' = p
              /\ \/ drawn' = drawn
                 \/ Good(p) /\ drawn' = p
              /\ polls' \in {polls \ {p}, (polls \ {p}) \cup {Begun}}
              /\ UNCHANGED server
  BY <1>12 DEF Deliver, Show, Draws
<1>13. CASE UNCHANGED vars  BY <1>13 DEF ReadingsStay
<1> QED
  BY <1>1, <1>2, <1>3, <1>4, <1>5, <1>6, <1>7, <1>8, <1>9, <1>10, <1>11, <1>12,
     <1>13 DEF Next, PollStep

LEMMA ReadingsInit == Init => ReadingsInv
BY SpecialSnapshots DEF Init, ReadingsInv, Types, ReadingsInOrder, Server, Stages

LEMMA ReadingsStep ==
  ASSUME ReadingsInv, [Next]_vars
  PROVE  ReadingsInv'
<1> USE DEF ReadingsInv
<1>0. \A s \in Snapshot : s.of \in Server  BY DEF Snapshot
<1>1. CASE ReadingsStay
  BY <1>1 DEF ReadingsStay, Types, ReadingsInOrder
<1>2. CASE TaskMoves /\ UNCHANGED <<polls, last, drawn>>
  <2>1. server' \in Server /\ Behind(server, server')
    BY <1>2, ServerMovesOn
  <2>2. \A s \in Snapshot : Behind(s.of, server) => Behind(s.of, server')
    BY <2>1, <1>0, BehindIsOrder DEF Types
  <2>3. Types'  BY <1>2, <2>1 DEF Types
  <2> QED
    BY <1>2, <2>2, <2>3 DEF Types, ReadingsInOrder
<1>3. CASE Polls({})
  BY <1>3 DEF Polls, Types, ReadingsInOrder
<1>4. CASE Polls({Begun})
  BY <1>4, SpecialSnapshots DEF Polls, Types, ReadingsInOrder
<1>5. ASSUME NEW p \in polls, NEW s \in {Read, Failed}, Polls((polls \ {p}) \cup {s})
      PROVE  ReadingsInv'
  <2>1. polls' = {s}  BY <1>5 DEF Polls, ReadingsInOrder
  <2>2. s \in Snapshot /\ (Good(s) => s.of = server)
    BY SpecialSnapshots DEF Read, Failed, Snapshot, Types, Good
  <2>3. Behind(server, server)  BY BehindIsOrder DEF Types
  <2> QED
    BY <1>5, <2>1, <2>2, <2>3 DEF Polls, Types, ReadingsInOrder
<1>6. ASSUME NEW p \in polls,
             last' = p,
             drawn' = drawn \/ (Good(p) /\ drawn' = p),
             polls' \in {polls \ {p}, (polls \ {p}) \cup {Begun}},
             UNCHANGED server
      PROVE  ReadingsInv'
  <2>1. polls' \subseteq {Begun}  BY <1>6 DEF ReadingsInOrder
  <2>2. p \in Snapshot  BY DEF Types
  <2>3. Types'  BY <1>6, <2>1, <2>2, SpecialSnapshots DEF Types
  <2>4. Behind(p.of, p.of)  BY <1>0, <2>2, BehindIsOrder
  <2> QED
    BY <1>6, <2>1, <2>3, <2>4, SpecialSnapshots DEF ReadingsInOrder
<1>7. CASE Good(last) /\ drawn' = last /\ UNCHANGED <<server, polls, last>>
  <2>1. Behind(last.of, last.of)  BY <1>0, BehindIsOrder DEF Types
  <2> QED  BY <1>7, <2>1 DEF Types, ReadingsInOrder
<1> QED
  BY <1>1, <1>2, <1>3, <1>4, <1>5, <1>6, <1>7, StepShape

(* The readings form a chain in every state.                               *)
THEOREM ReadingsAlwaysInOrder == Spec => []ReadingsInv
BY ReadingsInit, ReadingsStep, PTL DEF Spec

(* The table never goes back to an older reading of the server than it     *)
(* showed before: SnapshotPoller's one poll at a time, and attach, which   *)
(* shows the last delivery.                                                *)
THEOREM TableNeverGoesBack == Spec => NeverBack
<1>1. ASSUME ReadingsInv, [Next]_vars, drawn # NoRead, NEW t \in Tasks
      PROVE  Rank[drawn.of[t]] <= Rank[drawn'.of[t]]
  <2>1. drawn \in Snapshot /\ Good(drawn)
    BY <1>1 DEF ReadingsInv, Types, ReadingsInOrder
  <2>2. Behind(drawn.of, drawn.of)  BY <2>1, BehindIsOrder DEF Snapshot
  <2>3. \/ drawn' = drawn
        \/ drawn' = last /\ Good(last)
        \/ \E p \in polls : drawn' = p /\ Good(p)
    BY <1>1, StepShape DEF ReadingsStay, Polls
  <2>4. Behind(drawn.of, drawn'.of)
    BY <1>1, <2>1, <2>2, <2>3 DEF ReadingsInv, ReadingsInOrder
  <2> QED  BY <2>4 DEF Behind
<1>2. ASSUME ReadingsInv, [Next]_vars
      PROVE  [drawn # NoRead => \A t \in Tasks : Rank[drawn.of[t]] <= Rank[drawn'.of[t]]]_vars
  BY <1>1, <1>2
<1> QED
  BY <1>2, ReadingsAlwaysInOrder, PTL DEF Spec, NeverBack

-----------------------------------------------------------------------------
(* Rows.                                                                   *)

(* No task has two rows.                                                   *)
NoTwins(table) ==
    \A i, j \in 1..Len(table) : table[i].task = table[j].task => i = j

Table(table) == table \in Seq(Row) /\ NoTwins(table)

LEMMA RowFields ==
  /\ \A r \in Row : r.task \in Tasks /\ r.state \in {"open", "ended"}
                    /\ r = [task |-> r.task, state |-> r.state]
  /\ \A S \in SUBSET Tasks : \A r \in Row : r \in RowsFor(S) <=> r.task \in S
  BY DEF Row, RowsFor

LEMMA InTable ==
  ASSUME NEW table, Table(table)
  PROVE  /\ DOMAIN table = 1..Len(table) /\ Len(table) \in Nat
         /\ \A i \in 1..Len(table) : table[i] \in Row
         /\ \A x : x \in Range(table) <=> \E i \in 1..Len(table) : table[i] = x
         /\ \A t : t \in TasksOf(table) <=> \E i \in 1..Len(table) : table[i].task = t
         /\ TasksOf(table) \subseteq Tasks
<1>1. table \in Seq(Row)
  BY DEF Table
<1>2. DOMAIN table = 1..Len(table) /\ Len(table) \in Nat
  BY <1>1
<1>3. \A i \in 1..Len(table) : table[i] \in Row
  BY <1>1
<1>4. \A x : x \in Range(table) <=> \E i \in 1..Len(table) : table[i] = x
  BY <1>2 DEF Range
<1>5. \A t : t \in TasksOf(table) <=> \E i \in 1..Len(table) : table[i].task = t
  BY <1>2 DEF TasksOf
<1>6. TasksOf(table) \subseteq Tasks
  BY <1>3, <1>5, RowFields
<1> QED  BY <1>2, <1>3, <1>4, <1>5, <1>6

LEMMA InOrder ==
  ASSUME NEW T, NEW s \in Seq(T), NEW S, NEW f, f = Only(s, S)
  PROVE  \A i, j \in 1..Len(f) : i < j =>
            \E k, l \in 1..Len(s) : k < l /\ f[i] = s[k] /\ f[j] = s[l]
  BY OnlyKeepsOrder

(* Some of the rows of a table are a table, in the same order.             *)
LEMMA OnlyTable ==
  ASSUME NEW table, Table(table), NEW S
  PROVE  /\ Table(Only(table, S)) /\ Range(Only(table, S)) = Range(table) \cap S
         /\ \A i, j \in 1..Len(Only(table, S)) : i < j =>
               \E k, l \in 1..Len(table) :
                  k < l /\ Only(table, S)[i] = table[k] /\ Only(table, S)[j] = table[l]
<1> DEFINE f == Only(table, S)
<1>1. table \in Seq(Row) /\ NoTwins(table)
  BY DEF Table
<1>2. f \in Seq(Row) /\ Range(f) = Range(table) \cap S
  BY <1>1, OnlyRange
<1>3. \A i, j \in 1..Len(f) : i < j =>
         \E k, l \in 1..Len(table) : k < l /\ f[i] = table[k] /\ f[j] = table[l]
  BY <1>1, OnlyKeepsOrder
<1> HIDE DEF f
<1>4. ASSUME NEW i \in 1..Len(f), NEW j \in 1..Len(f), i < j
      PROVE  f[i].task # f[j].task
  <2>1. PICK k \in 1..Len(table), l \in 1..Len(table) :
           k < l /\ f[i] = table[k] /\ f[j] = table[l]
    BY <1>3, <1>4
  <2>2. k # l
    BY <2>1
  <2> QED  BY <1>1, <2>1, <2>2 DEF NoTwins
<1>5. NoTwins(f)
  <2> SUFFICES ASSUME NEW i \in 1..Len(f), NEW j \in 1..Len(f), i # j
               PROVE  f[i].task # f[j].task
    BY DEF NoTwins
  <2>1. i < j \/ j < i
    OBVIOUS
  <2> QED  BY <1>4, <2>1
<1> QED  BY <1>2, <1>3, <1>5 DEF f, Table

(* One table under another, with no task in both.                          *)
LEMMA TwoTables ==
  ASSUME NEW a, NEW b, Table(a), Table(b), TasksOf(a) \cap TasksOf(b) = {}
  PROVE  Table(a \o b) /\ Range(a \o b) = Range(a) \cup Range(b)
<1> DEFINE c == a \o b
<1>1. a \in Seq(Row) /\ b \in Seq(Row)
  BY DEF Table
<1>2. /\ c \in Seq(Row) /\ Len(a) \in Nat /\ Len(b) \in Nat /\ Len(c) = Len(a) + Len(b)
      /\ \A i \in 1..Len(a) : c[i] = a[i]
      /\ \A i \in 1..Len(b) : c[Len(a) + i] = b[i]
  BY <1>1
<1> HIDE DEF c
<1>3. ASSUME NEW i \in 1..Len(c)
      PROVE  \/ i \in 1..Len(a) /\ c[i] = a[i]
             \/ i - Len(a) \in 1..Len(b) /\ c[i] = b[i - Len(a)]
  <2>1. CASE i <= Len(a)
    BY <1>2, <2>1
  <2>2. CASE i > Len(a)
    <3>1. i - Len(a) \in 1..Len(b) /\ Len(a) + (i - Len(a)) = i
      BY <1>2, <2>2
    <3> QED  BY <1>2, <3>1
  <2> QED  BY <1>2, <2>1, <2>2
<1>4. NoTwins(c)
  <2> SUFFICES ASSUME NEW i \in 1..Len(c), NEW j \in 1..Len(c), c[i].task = c[j].task
               PROVE  i = j
    BY DEF NoTwins
  <2>1. \/ i \in 1..Len(a) /\ c[i] = a[i]
        \/ i - Len(a) \in 1..Len(b) /\ c[i] = b[i - Len(a)]
    BY <1>3
  <2>2. \/ j \in 1..Len(a) /\ c[j] = a[j]
        \/ j - Len(a) \in 1..Len(b) /\ c[j] = b[j - Len(a)]
    BY <1>3
  <2>3. \A k \in 1..Len(a), l \in 1..Len(b) : a[k].task # b[l].task
    BY InTable
  <2>4. /\ \A k, l \in 1..Len(a) : a[k].task = a[l].task => k = l
        /\ \A k, l \in 1..Len(b) : b[k].task = b[l].task => k = l
    BY DEF Table, NoTwins
  <2>5. CASE i \in 1..Len(a) /\ c[i] = a[i]
    BY <2>2, <2>3, <2>4, <2>5
  <2>6. CASE i - Len(a) \in 1..Len(b) /\ c[i] = b[i - Len(a)]
    <3>1. j - Len(a) \in 1..Len(b) /\ c[j] = b[j - Len(a)]
      BY <2>2, <2>3, <2>6
    <3>2. i - Len(a) = j - Len(a)
      BY <2>4, <2>6, <3>1
    <3> QED  BY <1>2, <3>2
  <2> QED  BY <2>1, <2>5, <2>6
<1>5. Table(c)
  BY <1>2, <1>4 DEF Table
<1>6. Range(c) = Range(a) \cup Range(b)
  <2>1. ASSUME NEW x \in Range(c) PROVE x \in Range(a) \cup Range(b)
    <3>1. PICK i \in 1..Len(c) : c[i] = x
      BY <1>5, <2>1, InTable
    <3> QED  BY <1>3, <3>1, InTable
  <2>2. ASSUME NEW x \in Range(a) PROVE x \in Range(c)
    <3>1. PICK i \in 1..Len(a) : a[i] = x
      BY <2>2, InTable
    <3>2. i \in 1..Len(c) /\ c[i] = x
      BY <1>2, <3>1
    <3> QED  BY <1>5, <3>2, InTable
  <2>3. ASSUME NEW x \in Range(b) PROVE x \in Range(c)
    <3>1. PICK i \in 1..Len(b) : b[i] = x
      BY <2>3, InTable
    <3>2. Len(a) + i \in 1..Len(c) /\ c[Len(a) + i] = x
      BY <1>2, <3>1
    <3> QED  BY <1>5, <3>2, InTable
  <2> QED  BY <2>1, <2>2, <2>3
<1> QED  BY <1>5, <1>6 DEF c

(* A table has a row per task at most.                                     *)
LEMMA TableLen ==
  ASSUME NEW table, Table(table)
  PROVE  Len(table) \in 0..NumTasks
<1> DEFINE g == [i \in 1..Len(table) |-> table[i].task]
<1>1. Len(table) \in Nat /\ NumTasks \in Nat
  BY InTable, ViewOK
<1>2. g \in Injection(1..Len(table), Tasks)
  <2>1. g \in [1..Len(table) -> Tasks]
    BY InTable, RowFields
  <2>2. \A i, j \in 1..Len(table) : g[i] = g[j] => i = j
    BY DEF Table, NoTwins
  <2> HIDE DEF g
  <2> QED  BY <2>1, <2>2 DEF Injection, IsInjective
<1>3. /\ IsFiniteSet(1..Len(table)) /\ Cardinality(1..Len(table)) = Len(table)
      /\ IsFiniteSet(Tasks) /\ Cardinality(Tasks) = NumTasks
  <2>1. \A n \in Nat : /\ IsFiniteSet(1..n)
                       /\ Cardinality(1..n) = IF 1 > n THEN 0 ELSE n - 1 + 1
    <3> SUFFICES ASSUME NEW n \in Nat
                 PROVE  /\ IsFiniteSet(1..n)
                        /\ Cardinality(1..n) = IF 1 > n THEN 0 ELSE n - 1 + 1
      OBVIOUS
    <3>1. n \in Int /\ 1 \in Int
      OBVIOUS
    <3> QED  BY <3>1, FS_Interval, Zenon
  <2>2. \A n \in Nat : (IF 1 > n THEN 0 ELSE n - 1 + 1) = n
    OBVIOUS
  <2> QED  BY <1>1, <2>1, <2>2 DEF Tasks
<1>4. Cardinality(1..Len(table)) <= Cardinality(Tasks)
  <2> HIDE DEF g
  <2> QED  BY <1>2, <1>3, FS_Injection
<1> QED  BY <1>1, <1>3, <1>4

-----------------------------------------------------------------------------
(* What a snapshot shows, and how the table takes it.                      *)

Shown(snapshot, chosen) ==
    {[task |-> t, state |-> snapshot.of[t]] : t \in {u \in Tasks : snapshot.of[u] \in chosen}}

LEMMA RowsShow ==
  ASSUME NEW snapshot \in Snapshot, NEW chosen \in SUBSET {"open", "ended"}
  PROVE  /\ Table(RowsOf(snapshot, chosen))
         /\ Range(RowsOf(snapshot, chosen)) = Shown(snapshot, chosen)
<1> DEFINE known == {t \in Tasks : snapshot.of[t] \in {"open", "ended"}}
           row == [t \in Tasks |-> [task |-> t, state |-> snapshot.of[t]]]
           open == Only(row, [task : Tasks, state : {"open"}])
           ended == Only(row, [task : Tasks, state : {"ended"}])
           Any == [task : Tasks, state : Stages]
<1>1. snapshot.of \in [Tasks -> Stages]
  BY DEF Snapshot, Server
<1>2. row \in Seq(Any) /\ Len(row) = NumTasks /\ NumTasks \in Nat
  <2>1. NumTasks \in Nat
    BY ViewOK
  <2>2. \A t \in Tasks : snapshot.of[t] \in Stages
    BY <1>1
  <2>3. row \in [1..NumTasks -> Any]
    BY <2>2 DEF Tasks
  <2> HIDE DEF row, Any
  <2>4. DOMAIN row = 1..NumTasks
    BY <2>3
  <2> QED  BY <2>1, <2>3, <2>4
<1>3. \A i \in 1..Len(row) : row[i].task = i /\ row[i].state = snapshot.of[i]
  BY <1>2 DEF Tasks
<1>4. \A x : x \in Range(row) <=> \E t \in Tasks : x = [task |-> t, state |-> snapshot.of[t]]
  BY DEF Range
<1> HIDE DEF row
<1>5. ASSUME NEW s \in {"open", "ended"}, NEW f, f = Only(row, [task : Tasks, state : {s}])
      PROVE  Table(f) /\ \A r \in Range(f) : r.state = s
  <2>1. f \in Seq(Any) /\ Range(f) = Range(row) \cap [task : Tasks, state : {s}]
    BY <1>2, <1>5, OnlyRange
  <2>2. \A r \in Range(f) : r \in Row /\ r.state = s
    BY <2>1 DEF Row
  <2>3. Len(f) \in Nat /\ \A i \in 1..Len(f) : f[i] \in Range(f)
    BY <2>1, RangeSeq
  <2>4. f \in Seq(Row)
    BY <2>1, <2>2, <2>3
  <2>5. ASSUME NEW i \in 1..Len(f), NEW j \in 1..Len(f), i < j
        PROVE  f[i].task # f[j].task
    <3>1. \A a, b \in 1..Len(f) : a < b =>
             \E k, l \in 1..Len(row) : k < l /\ f[a] = row[k] /\ f[b] = row[l]
      <4>1. PICK S : f = Only(row, S)
        BY <1>5
      <4> HIDE DEF Any
      <4> QED  BY <1>2, <4>1, InOrder, SMTT(20)
    <3>2. PICK k \in 1..Len(row), l \in 1..Len(row) :
             k < l /\ f[i] = row[k] /\ f[j] = row[l]
      BY <2>5, <3>1
    <3> QED  BY <1>3, <3>2
  <2>6. NoTwins(f)
    <3> SUFFICES ASSUME NEW i \in 1..Len(f), NEW j \in 1..Len(f), i # j
                 PROVE  f[i].task # f[j].task
      BY DEF NoTwins
    <3>1. i < j \/ j < i
      OBVIOUS
    <3> QED  BY <2>5, <3>1
  <2> QED  BY <2>2, <2>4, <2>6 DEF Table
<1>6. /\ Table(open) /\ \A r \in Range(open) : r.state = "open"
      /\ Table(ended) /\ \A r \in Range(ended) : r.state = "ended"
  BY <1>5
<1>7. /\ Range(open) = Range(row) \cap [task : Tasks, state : {"open"}]
      /\ Range(ended) = Range(row) \cap [task : Tasks, state : {"ended"}]
  BY <1>2, OnlyRange
<1>8. Listing(snapshot) = open \o ended
  BY DEF Listing, row
<1> HIDE DEF open, ended
<1>9. TasksOf(open) \cap TasksOf(ended) = {}
  <2> SUFFICES ASSUME NEW i \in 1..Len(open), NEW j \in 1..Len(ended),
                      open[i].task = ended[j].task
               PROVE  FALSE
    BY <1>6, InTable
  <2>1. open[i] \in Range(open) /\ ended[j] \in Range(ended)
    BY <1>6, InTable
  <2>2. PICK t \in Tasks : open[i] = [task |-> t, state |-> snapshot.of[t]]
    BY <1>4, <1>7, <2>1
  <2>3. PICK u \in Tasks : ended[j] = [task |-> u, state |-> snapshot.of[u]]
    BY <1>4, <1>7, <2>1
  <2>4. open[i].state = "open" /\ ended[j].state = "ended"
    BY <1>6, <2>1
  <2> QED  BY <2>2, <2>3, <2>4
<1>10. Table(Listing(snapshot)) /\ Range(Listing(snapshot)) = Range(open) \cup Range(ended)
  BY <1>6, <1>8, <1>9, TwoTables
<1>11. /\ Table(RowsOf(snapshot, chosen))
       /\ Range(RowsOf(snapshot, chosen))
            = Range(Listing(snapshot)) \cap [task : Tasks, state : chosen]
  BY <1>10, OnlyTable DEF RowsOf
<1>12. ASSUME NEW x
       PROVE  x \in Range(RowsOf(snapshot, chosen)) <=> x \in Shown(snapshot, chosen)
  <2>1. x \in Range(RowsOf(snapshot, chosen)) <=>
          x \in Range(row) /\ x \in [task : Tasks, state : chosen]
    BY <1>7, <1>10, <1>11
  <2>2. x \in Shown(snapshot, chosen) <=>
          \E t \in Tasks : snapshot.of[t] \in chosen
                           /\ x = [task |-> t, state |-> snapshot.of[t]]
    BY DEF Shown
  <2>3. \A t \in Tasks : [task |-> t, state |-> snapshot.of[t]] \in [task : Tasks, state : chosen]
                           <=> snapshot.of[t] \in chosen
    OBVIOUS
  <2> QED  BY <1>4, <2>1, <2>2, <2>3
<1> QED  BY <1>11, <1>12

(* sync_table gives the table the wanted rows, and keeps the order of the  *)
(* tasks that stay.                                                        *)
LEMMA SyncShows ==
  ASSUME NEW table, Table(table), NEW wanted, Table(wanted)
  PROVE  /\ Table(SyncTable(table, wanted))
         /\ Range(SyncTable(table, wanted)) = Range(wanted)
         /\ \A t, u \in TasksOf(table) : Above(table, t, u)
                                          => ~Above(SyncTable(table, wanted), u, t)
<1> DEFINE staying == Only(table, RowsFor(TasksOf(wanted)))
           old == [i \in DOMAIN staying |-> RowOf(wanted, staying[i].task)]
           new == Only(wanted, RowsFor(Tasks \ TasksOf(table)))
<1>1. SyncTable(table, wanted) = old \o new
  BY DEF SyncTable
<1>2. /\ Table(staying)
      /\ Range(staying) = Range(table) \cap RowsFor(TasksOf(wanted))
      /\ \A i, j \in 1..Len(staying) : i < j =>
            \E k, l \in 1..Len(table) :
               k < l /\ staying[i] = table[k] /\ staying[j] = table[l]
  BY OnlyTable
<1>3. /\ Table(new)
      /\ Range(new) = Range(wanted) \cap RowsFor(Tasks \ TasksOf(table))
  BY OnlyTable
<1> HIDE DEF staying, new
<1>a. /\ Len(staying) \in Nat
      /\ \A i \in 1..Len(staying) : staying[i] \in Row
      /\ \A x : x \in Range(staying) <=> \E i \in 1..Len(staying) : staying[i] = x
      /\ \A t : t \in TasksOf(staying) <=> \E i \in 1..Len(staying) : staying[i].task = t
  BY <1>2, InTable
<1>4. TasksOf(staying) = TasksOf(table) \cap TasksOf(wanted)
  <2>1. ASSUME NEW t \in TasksOf(staying) PROVE t \in TasksOf(table) \cap TasksOf(wanted)
    <3>1. PICK i \in 1..Len(staying) : staying[i].task = t
      BY <1>2, <2>1, InTable
    <3>2. staying[i] \in Range(table) /\ staying[i] \in RowsFor(TasksOf(wanted))
      BY <1>2, InTable
    <3>3. t \in TasksOf(wanted)
      BY <3>1, <3>2 DEF RowsFor
    <3>4. t \in TasksOf(table)
      <4>1. PICK k \in 1..Len(table) : table[k] = staying[i]
        BY <3>2, InTable
      <4> QED  BY <3>1, <4>1, InTable
    <3> QED  BY <3>3, <3>4
  <2>2. ASSUME NEW t \in TasksOf(table) \cap TasksOf(wanted) PROVE t \in TasksOf(staying)
    <3>1. PICK k \in 1..Len(table) : table[k].task = t
      BY <2>2, InTable
    <3>2. table[k] \in Range(table) /\ table[k] \in Row
      BY InTable
    <3>3. table[k] \in RowsFor(TasksOf(wanted))
      BY <2>2, <3>1, <3>2, InTable, RowFields
    <3>4. table[k] \in Range(staying)
      BY <1>2, <3>2, <3>3
    <3>5. PICK i \in 1..Len(staying) : staying[i] = table[k]
      BY <1>a, <3>4
    <3> QED  BY <1>a, <3>1, <3>5
  <2> QED  BY <2>1, <2>2
<1>5. ASSUME NEW t \in TasksOf(wanted)
      PROVE  RowOf(wanted, t) \in Range(wanted) /\ RowOf(wanted, t).task = t
  <2>1. \E i \in DOMAIN wanted : wanted[i].task = t
    BY InTable
  <2>2. PICK i \in DOMAIN wanted : wanted[i].task = t /\ RowOf(wanted, t) = wanted[i]
    BY <2>1 DEF RowOf
  <2> QED  BY <2>2, InTable
<1>6. /\ Len(old) = Len(staying)
      /\ \A i \in 1..Len(staying) : /\ old[i] = RowOf(wanted, staying[i].task)
                                    /\ old[i] \in Range(wanted)
                                    /\ old[i].task = staying[i].task
  <2>1. DOMAIN staying = 1..Len(staying) /\ Len(staying) \in Nat
    BY <1>2, InTable
  <2>2. Len(old) = Len(staying)
    BY <2>1
  <2>3. \A i \in 1..Len(staying) : staying[i].task \in TasksOf(wanted)
    BY <1>2, <1>4, InTable
  <2> QED  BY <1>5, <2>1, <2>2, <2>3
<1>7. Table(old)
  <2>1. Range(wanted) \subseteq Row
    BY InTable
  <2>2. DOMAIN staying = 1..Len(staying) /\ Len(staying) \in Nat
    BY <1>2, InTable
  <2>3. old \in Seq(Row)
    BY <1>6, <2>1, <2>2
  <2>4. NoTwins(old)
    BY <1>2, <1>6 DEF NoTwins, Table
  <2> QED  BY <2>3, <2>4 DEF Table
<1> HIDE DEF old
<1>8. TasksOf(old) = TasksOf(staying)
  <2>1. \A t : t \in TasksOf(old) <=> \E i \in 1..Len(old) : old[i].task = t
    BY <1>7, InTable
  <2>2. \A t : t \in TasksOf(old) <=> t \in TasksOf(staying)
    BY <1>6, <1>a, <2>1
  <2> QED  BY <2>2
<1>9. \A t \in TasksOf(new) : t \in TasksOf(wanted) /\ t \notin TasksOf(table)
  <2> SUFFICES ASSUME NEW i \in 1..Len(new)
               PROVE  new[i].task \in TasksOf(wanted) /\ new[i].task \notin TasksOf(table)
    BY <1>3, InTable
  <2>1. new[i] \in Range(wanted) /\ new[i] \in RowsFor(Tasks \ TasksOf(table))
    BY <1>3, InTable
  <2>2. PICK k \in 1..Len(wanted) : wanted[k] = new[i]
    BY <2>1, InTable
  <2> QED  BY <2>1, <2>2, InTable DEF RowsFor
<1>10. TasksOf(old) \cap TasksOf(new) = {}
  BY <1>4, <1>8, <1>9
<1>11. Table(old \o new) /\ Range(old \o new) = Range(old) \cup Range(new)
  BY <1>3, <1>7, <1>10, TwoTables
<1>12. Range(old) \cup Range(new) = Range(wanted)
  <2>1. Range(old) \subseteq Range(wanted) /\ Range(new) \subseteq Range(wanted)
    BY <1>3, <1>6, <1>7, InTable
  <2>2. ASSUME NEW r \in Range(wanted) PROVE r \in Range(old) \cup Range(new)
    <3>1. PICK k \in 1..Len(wanted) : wanted[k] = r
      BY <2>2, InTable
    <3>2. r \in Row /\ r.task \in TasksOf(wanted)
      BY <3>1, InTable
    <3>3. CASE r.task \in TasksOf(table)
      <4>1. r.task \in TasksOf(staying)
        BY <1>4, <3>2, <3>3
      <4>2. PICK i \in 1..Len(staying) : staying[i].task = r.task
        BY <1>a, <4>1
      <4>3. old[i] \in Range(wanted) /\ old[i].task = r.task
        BY <1>6, <4>2
      <4>4. PICK l \in 1..Len(wanted) : wanted[l] = old[i]
        BY <4>3, InTable
      <4>5. k = l
        BY <3>1, <4>3, <4>4 DEF Table, NoTwins
      <4>6. old[i] = r /\ i \in 1..Len(old)
        BY <1>6, <3>1, <4>4, <4>5
      <4> QED  BY <1>7, <4>6, InTable
    <3>4. CASE r.task \notin TasksOf(table)
      <4>1. r \in RowsFor(Tasks \ TasksOf(table))
        BY <3>2, <3>4, RowFields
      <4> QED  BY <1>3, <2>2, <4>1
    <3> QED  BY <3>3, <3>4
  <2> QED  BY <2>1, <2>2
<1>13. ASSUME NEW t \in TasksOf(table), NEW u \in TasksOf(table),
              Above(table, t, u), Above(old \o new, u, t)
       PROVE  FALSE
  <2> DEFINE c == old \o new
  <2>1. /\ Len(old) \in Nat /\ Len(new) \in Nat /\ Len(c) = Len(old) + Len(new)
        /\ DOMAIN c = 1..Len(c)
        /\ \A i \in 1..Len(old) : c[i] = old[i]
        /\ \A i \in 1..Len(new) : c[Len(old) + i] = new[i]
    BY <1>3, <1>7 DEF Table
  <2> HIDE DEF c
  <2>2. PICK i \in 1..Len(c), j \in 1..Len(c) : i < j /\ c[i].task = u /\ c[j].task = t
    BY <1>13, <2>1 DEF Above, c
  <2>3. ASSUME NEW k \in 1..Len(c), c[k].task \in TasksOf(table)
        PROVE  k \in 1..Len(staying) /\ c[k].task = staying[k].task
    <3>1. CASE k > Len(old)
      <4>1. k - Len(old) \in 1..Len(new) /\ c[k] = new[k - Len(old)]
        <5>1. k - Len(old) \in 1..Len(new) /\ Len(old) + (k - Len(old)) = k
          BY <2>1, <3>1
        <5> QED  BY <2>1, <5>1
      <4>2. c[k].task \in TasksOf(new)
        BY <1>3, <4>1, InTable
      <4> QED  BY <1>9, <2>3, <4>2
    <3>2. CASE k <= Len(old)
      <4>1. k \in 1..Len(old) /\ c[k] = old[k]
        BY <2>1, <3>2
      <4> QED  BY <1>6, <4>1
    <3> QED  BY <2>1, <3>1, <3>2
  <2>4. /\ i \in 1..Len(staying) /\ staying[i].task = u
        /\ j \in 1..Len(staying) /\ staying[j].task = t
    BY <2>2, <2>3
  <2>5. PICK k \in 1..Len(table), l \in 1..Len(table) :
           k < l /\ table[k].task = u /\ table[l].task = t
    <3>1. \E k, l \in 1..Len(table) : k < l /\ staying[i] = table[k] /\ staying[j] = table[l]
      BY <1>2, <2>2, <2>4
    <3> QED  BY <2>4, <3>1
  <2>6. PICK m \in 1..Len(table), n \in 1..Len(table) :
           m < n /\ table[m].task = t /\ table[n].task = u
    BY <1>13, InTable DEF Above
  <2>7. k = n /\ l = m
    BY <2>5, <2>6 DEF Table, NoTwins
  <2> QED  BY <2>5, <2>6, <2>7
<1> QED  BY <1>1, <1>11, <1>12, <1>13

-----------------------------------------------------------------------------
(* The tab.                                                                *)

(* The count that the pane shows when it has handled all messages.         *)
LatestCount(messages, shown) ==
    IF messages = <<>> THEN shown ELSE messages[Len(messages)]

TabTypes ==
    /\ mounted \in {"no", "yes", "gone"}
    /\ again \in BOOLEAN
    /\ attached \in BOOLEAN
    /\ Table(rows)
    /\ boxes \subseteq {"open", "ended"} /\ states \subseteq {"open", "ended"}
    /\ changes \in Nat /\ toggles \in 0..MaxToggles
    /\ counts \in Seq(0..NumTasks)
    /\ label \in 0..NumTasks
    /\ asks \in 0..MaxAsks
    /\ owed \subseteq {"before", "during"}

(* A table that is attached shows the last delivery, if that is good; its  *)
(* rows are those of what it shows; a state that is not the checked one    *)
(* has its message under way; and so has the number of rows.               *)
ShowsInv ==
    /\ attached /\ Good(last) => drawn = last
    /\ drawn # NoRead => Range(rows) = Shown(drawn, states)
    /\ changes <= toggles
    /\ changes = 0 => states = boxes
    /\ LatestCount(counts, label) = Len(rows)

TabInv == ReadingsInv /\ TabTypes /\ ShowsInv

LEMMA EmptyTable == Table(<<>>) /\ Len(<<>>) = 0 /\ <<>> \in Seq(0..NumTasks)
  BY DEF Table, NoTwins

LEMMA TabInit == Init => TabInv
<1> SUFFICES ASSUME Init PROVE TabInv
  OBVIOUS
<1>1. ReadingsInv
  BY ReadingsInit
<1>2. 0 \in 0..NumTasks /\ 0 \in 0..MaxToggles /\ 0 \in 0..MaxAsks
  BY ViewOK
<1>3. TabTypes
  BY <1>2, EmptyTable DEF Init, TabTypes
<1>4. ShowsInv
  BY EmptyTable, SpecialSnapshots DEF Init, ShowsInv, LatestCount
<1> QED  BY <1>1, <1>3, <1>4 DEF TabInv

(* A message that was posted last, or handled.                             *)
LEMMA LatestPosted ==
  ASSUME NEW T, NEW messages \in Seq(T), NEW x \in T, NEW shown
  PROVE  /\ Append(messages, x) \in Seq(T)
         /\ LatestCount(Append(messages, x), shown) = x
<1> DEFINE after == Append(messages, x)
<1>1. after \in Seq(T) /\ Len(after) = Len(messages) + 1 /\ Len(messages) \in Nat
      /\ after[Len(messages) + 1] = x
  OBVIOUS
<1>2. after # <<>>
  <2>1. Len(after) # 0
    BY <1>1
  <2> HIDE DEF after
  <2> QED  BY <2>1, EmptyTable
<1> HIDE DEF after
<1>3. LatestCount(after, shown) = x
  BY <1>1, <1>2 DEF LatestCount
<1> QED  BY <1>1, <1>3 DEF after

LEMMA LatestHandled ==
  ASSUME NEW T, NEW messages \in Seq(T), messages # <<>>, NEW shown
  PROVE  /\ Head(messages) \in T /\ Tail(messages) \in Seq(T)
         /\ LatestCount(Tail(messages), Head(messages)) = LatestCount(messages, shown)
<1> DEFINE rest == Tail(messages)
           first == Head(messages)
<1>1. /\ first \in T /\ rest \in Seq(T)
      /\ Len(messages) \in Nat /\ Len(messages) > 0 /\ Len(rest) = Len(messages) - 1
      /\ messages[1] = first
      /\ \A k \in 1..Len(rest) : rest[k] = messages[k + 1]
  OBVIOUS
<1> HIDE DEF rest, first
<1>2. LatestCount(rest, first) = LatestCount(messages, shown)
  <2>1. CASE rest = <<>>
    <3>1. Len(messages) = 1
      BY <1>1, <2>1, EmptyTable
    <3> QED  BY <1>1, <2>1, <3>1 DEF LatestCount
  <2>2. CASE rest # <<>>
    <3>1. Len(rest) # 0
      BY <1>1, <2>2
    <3>2. Len(rest) \in 1..Len(rest) /\ Len(rest) + 1 = Len(messages)
      BY <1>1, <3>1
    <3>3. rest[Len(rest)] = messages[Len(messages)]
      BY <1>1, <3>2
    <3> QED  BY <2>2, <3>3 DEF LatestCount
  <2> QED  BY <2>1, <2>2
<1> QED  BY <1>1, <1>2 DEF rest, first

(* What drawing a snapshot leaves.                                         *)
Drawn(snapshot, chosen) ==
    /\ Table(rows')
    /\ snapshot = NoRead => rows' = rows
    /\ snapshot # NoRead => /\ Range(rows') = Shown(snapshot, chosen)
                            /\ rows' = SyncTable(rows, RowsOf(snapshot, chosen))
    /\ counts' \in Seq(0..NumTasks)
    /\ LatestCount(counts', label) = Len(rows')

LEMMA RedrawDraws ==
  ASSUME TabInv, NEW snapshot \in Snapshot, NEW chosen \in SUBSET {"open", "ended"},
         Redraw(snapshot, chosen)
  PROVE  Drawn(snapshot, chosen)
<1>1. /\ Table(rows) /\ counts \in Seq(0..NumTasks) /\ label \in 0..NumTasks
      /\ LatestCount(counts, label) = Len(rows)
  BY DEF TabInv, TabTypes, ShowsInv
<1>2. /\ Table(rows')
      /\ snapshot = NoRead => rows' = rows
      /\ snapshot # NoRead => /\ Range(rows') = Shown(snapshot, chosen)
                              /\ rows' = SyncTable(rows, RowsOf(snapshot, chosen))
  <2>1. CASE snapshot = NoRead
    BY <1>1, <2>1 DEF Redraw
  <2>2. CASE snapshot # NoRead
    <3>1. rows' = SyncTable(rows, RowsOf(snapshot, chosen))
      BY <2>2 DEF Redraw
    <3>2. /\ Table(RowsOf(snapshot, chosen))
          /\ Range(RowsOf(snapshot, chosen)) = Shown(snapshot, chosen)
      BY RowsShow
    <3>3. /\ Table(SyncTable(rows, RowsOf(snapshot, chosen)))
          /\ Range(SyncTable(rows, RowsOf(snapshot, chosen)))
               = Range(RowsOf(snapshot, chosen))
      BY <1>1, <3>2, SyncShows
    <3> QED  BY <2>2, <3>1, <3>2, <3>3
  <2> QED  BY <2>1, <2>2
<1>3. Len(rows') \in 0..NumTasks
  BY <1>2, TableLen
<1>4. counts' \in Seq(0..NumTasks) /\ LatestCount(counts', label) = Len(rows')
  <2>1. CASE Len(rows') = Len(rows)
    <3>1. counts' = counts
      BY <2>1 DEF Redraw
    <3> QED  BY <1>1, <2>1, <3>1
  <2>2. CASE Len(rows') # Len(rows)
    <3>1. counts' = Append(counts, Len(rows'))
      BY <2>2 DEF Redraw
    <3>2. Append(counts, Len(rows')) \in Seq(0..NumTasks)
          /\ LatestCount(Append(counts, Len(rows')), label) = Len(rows')
      <4> DEFINE T == 0..NumTasks
      <4>1. counts \in Seq(T) /\ Len(rows') \in T
        BY <1>1, <1>3
      <4> HIDE DEF T
      <4>2. Append(counts, Len(rows')) \in Seq(T)
            /\ LatestCount(Append(counts, Len(rows')), label) = Len(rows')
        BY <4>1, LatestPosted
      <4> QED  BY <4>2 DEF T
    <3> QED  BY <3>1, <3>2
  <2> QED  BY <2>1, <2>2
<1> QED  BY <1>2, <1>4 DEF Drawn

(* The steps that draw nothing keep what the tab shows.                    *)
LEMMA UndrawnKeeps ==
  ASSUME TabInv, TabTypes', UNCHANGED <<drawn, rows, states>>,
         /\ attached' => attached /\ last' = last
         /\ changes' <= toggles' /\ (changes' = 0 => states = boxes')
         /\ LatestCount(counts', label') = LatestCount(counts, label)
  PROVE  ShowsInv'
  BY DEF TabInv, ShowsInv

LEMMA DrawnKeeps ==
  ASSUME TabInv, NEW snapshot \in Snapshot, Drawn(snapshot, states'), drawn' = snapshot,
         UNCHANGED label,
         attached' /\ Good(last') => drawn' = last',
         changes' <= toggles' /\ (changes' = 0 => states' = boxes')
  PROVE  ShowsInv'
  BY DEF TabInv, ShowsInv, Drawn

LEMMA TabNext == ASSUME TabInv, [Next]_vars PROVE TabInv'
<1>1. ReadingsInv /\ Types /\ TabTypes /\ ShowsInv
  BY DEF TabInv, ReadingsInv
<1>2. ReadingsInv'
  BY <1>1, ReadingsStep
<1>3. /\ MaxToggles \in Nat /\ changes \in Nat /\ toggles \in Nat /\ changes <= toggles
      /\ toggles <= MaxToggles /\ asks \in Nat /\ MaxAsks \in Nat /\ asks <= MaxAsks
  BY <1>1, ViewOK DEF TabTypes, ShowsInv
<1> USE DEF serverVars, pollerVars, drawVars, filterVars
<1>4. CASE Toggle
  <2>1. toggles' \in 0..MaxToggles /\ changes' \in Nat /\ changes' <= toggles' /\ changes' # 0
    BY <1>3, <1>4 DEF Toggle
  <2>2. boxes' \subseteq {"open", "ended"}
    BY <1>1, <1>4 DEF Toggle, TabTypes
  <2>3. TabTypes'
    BY <1>1, <1>4, <2>1, <2>2 DEF Toggle, TabTypes
  <2>4. ShowsInv'
    BY <1>4, <2>1, <2>3, UndrawnKeeps DEF Toggle
  <2> QED  BY <1>2, <2>3, <2>4 DEF TabInv
<1>5. CASE HandleChanged
  <2>1. changes' \in Nat /\ changes' <= toggles' /\ toggles' = toggles
    BY <1>3, <1>5 DEF HandleChanged
  <2>2. Drawn(drawn, boxes)
    BY <1>1, <1>5, RedrawDraws DEF HandleChanged, Types, TabTypes
  <2>3. TabTypes'
    BY <1>1, <1>5, <2>1, <2>2 DEF HandleChanged, TabTypes, Drawn
  <2>4. ShowsInv'
    BY <1>1, <1>5, <2>1, <2>2, DrawnKeeps DEF HandleChanged, Types, ShowsInv
  <2> QED  BY <1>2, <2>3, <2>4 DEF TabInv
<1>6. CASE HandleCount
  <2>1. /\ label' \in 0..NumTasks /\ counts' \in Seq(0..NumTasks)
        /\ LatestCount(counts', label') = LatestCount(counts, label)
    <3> DEFINE T == 0..NumTasks
    <3>1. /\ counts \in Seq(T) /\ counts # <<>>
          /\ label' = Head(counts) /\ counts' = Tail(counts)
      BY <1>1, <1>6 DEF HandleCount, TabTypes
    <3> HIDE DEF T
    <3>2. /\ Head(counts) \in T /\ Tail(counts) \in Seq(T)
          /\ LatestCount(Tail(counts), Head(counts)) = LatestCount(counts, label)
      BY <3>1, LatestHandled
    <3>3. label' \in T /\ counts' \in Seq(T)
          /\ LatestCount(counts', label') = LatestCount(counts, label)
      BY <3>1, <3>2
    <3> QED  BY <3>3 DEF T
  <2>2. TabTypes'
    BY <1>1, <1>6, <2>1 DEF HandleCount, TabTypes
  <2>3. ShowsInv'
    BY <1>1, <1>3, <1>6, <2>1, <2>2, UndrawnKeeps DEF HandleCount, ShowsInv
  <2> QED  BY <1>2, <2>2, <2>3 DEF TabInv
<1>7. CASE Mount \/ Ask \/ Tick \/ Unmount
  <2>1. UNCHANGED <<last, attached, drawVars, filterVars, label>>
    BY <1>7 DEF Mount, Ask, Tick, Unmount, Quiet, Draws
  <2>2. mounted' \in {"no", "yes", "gone"} /\ again' \in BOOLEAN
    BY <1>1, <1>7 DEF Mount, Ask, Tick, Unmount, PollNow, TabTypes
  <2>3. asks' \in 0..MaxAsks
    BY <1>3, <1>7 DEF Mount, Ask, Tick, Unmount
  <2>4. owed' \subseteq {"before", "during"}
    BY <1>1, <1>7 DEF Mount, Ask, Tick, Unmount, TabTypes
  <2>5. TabTypes'
    BY <1>1, <2>1, <2>2, <2>3, <2>4 DEF TabTypes
  <2>6. ShowsInv'
    BY <1>1, <1>3, <2>1, <2>5, UndrawnKeeps DEF ShowsInv
  <2> QED  BY <1>2, <2>5, <2>6 DEF TabInv
<1>8. CASE Detach \/ TaskMoves
  <2>1. /\ UNCHANGED <<mounted, again, last, asks, owed, drawVars, filterVars, label>>
        /\ attached' = FALSE \/ attached' = attached
    BY <1>8 DEF Detach, TaskMoves
  <2>2. TabTypes'
    BY <1>1, <2>1 DEF TabTypes
  <2>3. ShowsInv'
    BY <1>1, <1>3, <2>1, <2>2, UndrawnKeeps DEF ShowsInv
  <2> QED  BY <1>2, <2>2, <2>3 DEF TabInv
<1>9. CASE Attach
  <2>1. /\ UNCHANGED <<mounted, again, last, asks, owed, filterVars, label>>
        /\ attached' = TRUE /\ attached = FALSE
    BY <1>1, <1>9 DEF Attach, TabTypes
  <2>2. CASE Good(last)
    <3>1. drawn' = last /\ Drawn(last, states)
      BY <1>1, <1>9, <2>2, RedrawDraws DEF Attach, Show, Types, TabTypes
    <3>2. TabTypes'
      BY <1>1, <2>1, <3>1 DEF TabTypes, Drawn
    <3>3. ShowsInv'
      BY <1>1, <1>3, <2>1, <3>1, DrawnKeeps DEF Types, ShowsInv
    <3> QED  BY <1>2, <3>2, <3>3 DEF TabInv
  <2>3. CASE ~Good(last)
    <3>1. UNCHANGED drawVars
      BY <1>9, <2>3 DEF Attach, Show
    <3>2. TabTypes'
      BY <1>1, <2>1, <3>1 DEF TabTypes
    <3>3. ShowsInv'
      BY <1>1, <2>1, <2>3, <3>1 DEF ShowsInv
    <3> QED  BY <1>2, <3>2, <3>3 DEF TabInv
  <2> QED  BY <2>2, <2>3
<1>10. ASSUME NEW p \in polls, Collect(p) PROVE TabInv'
  <2>1. UNCHANGED <<mounted, again, last, asks, owed, attached, drawVars, filterVars, label>>
    BY <1>10 DEF Collect, Quiet, Draws
  <2>2. TabTypes'
    BY <1>1, <2>1 DEF TabTypes
  <2>3. ShowsInv'
    BY <1>1, <1>3, <2>1, <2>2, UndrawnKeeps DEF ShowsInv
  <2> QED  BY <1>2, <2>2, <2>3 DEF TabInv
<1>11. ASSUME NEW p \in polls, Deliver(p) PROVE TabInv'
  <2>1. /\ UNCHANGED <<mounted, asks, attached, filterVars, label>>
        /\ last' = p /\ again' = FALSE /\ p \in Snapshot
    BY <1>1, <1>11 DEF Deliver, Draws, Types
  <2>2. owed' \subseteq {"before", "during"}
    BY <1>11 DEF Deliver
  <2>3. CASE attached /\ Good(p)
    <3>1. drawn' = p /\ Drawn(p, states)
      BY <1>1, <1>11, <2>1, <2>3, RedrawDraws DEF Deliver, Show, TabTypes
    <3>2. TabTypes'
      BY <1>1, <2>1, <2>2, <3>1 DEF TabTypes, Drawn
    <3>3. ShowsInv'
      BY <1>1, <1>3, <2>1, <3>1, DrawnKeeps DEF ShowsInv
    <3> QED  BY <1>2, <3>2, <3>3 DEF TabInv
  <2>4. CASE ~(attached /\ Good(p))
    <3>1. UNCHANGED drawVars
      BY <1>11, <2>4 DEF Deliver, Show
    <3>2. TabTypes'
      BY <1>1, <2>1, <2>2, <3>1 DEF TabTypes
    <3>3. ShowsInv'
      BY <1>1, <2>1, <2>4, <3>1 DEF ShowsInv
    <3> QED  BY <1>2, <3>2, <3>3 DEF TabInv
  <2> QED  BY <2>3, <2>4
<1>12. CASE UNCHANGED vars
  BY <1>1, <1>2, <1>12 DEF vars, TabInv, TabTypes, ShowsInv
<1> QED
  BY <1>4, <1>5, <1>6, <1>7, <1>8, <1>9, <1>10, <1>11, <1>12 DEF Next, PollStep

THEOREM TabInvariant == Spec => []TabInv
  BY TabInit, TabNext, PTL DEF Spec

(* The poller, the table and the filter keep their types, a table has one  *)
(* row per task at most, and no more messages are under way than clicks    *)
(* posted.                                                                 *)
THEOREM TypeCorrect == Spec => []TypeOK
<1>1. TabInv => TypeOK
  <2> SUFFICES ASSUME TabInv PROVE TypeOK
    OBVIOUS
  <2>1. changes \in 0..MaxToggles
    BY ViewOK DEF TabInv, TabTypes, ShowsInv
  <2>2. \A i, j \in DOMAIN rows : rows[i].task = rows[j].task => i = j
    BY InTable DEF TabInv, TabTypes, Table, NoTwins
  <2>3. rows \in Seq(Row)
    BY DEF TabInv, TabTypes, Table
  <2> QED  BY <2>1, <2>2, <2>3 DEF TabInv, ReadingsInv, Types, TabTypes, TypeOK
<1> QED  BY <1>1, TabInvariant, PTL

(* The table holds the tasks of the snapshot it drew last in the chosen    *)
(* states, as that snapshot has them, and that is the last one delivered   *)
(* if it was good and the table is attached; once the messages are handled *)
(* the chosen states are the checked ones, and the label counts the rows.  *)
THEOREM TableAlwaysShowsTheSnapshot == Spec => []TableShowsTheSnapshot
<1>1. TabInv => TableShowsTheSnapshot
  BY DEF TabInv, ShowsInv, TableShowsTheSnapshot, Shown, LatestCount
<1> QED  BY <1>1, TabInvariant, PTL

(* Of two tasks that stay in the table, the one above stays above: through *)
(* polls that rank them anew, clicks, and late attachment.                 *)
THEOREM RowsAlwaysKeepTheirPlace == Spec => RowsKeepTheirPlace
<1>1. ASSUME TabInv, [Next]_vars
      PROVE  \/ rows' = rows
             \/ \E snapshot \in Snapshot, chosen \in SUBSET {"open", "ended"} :
                   rows' = SyncTable(rows, RowsOf(snapshot, chosen))
  <2>1. Types /\ TabTypes
    BY <1>1 DEF TabInv, ReadingsInv
  <2>2. ASSUME NEW snapshot \in Snapshot, NEW chosen \in SUBSET {"open", "ended"},
               Redraw(snapshot, chosen)
        PROVE  rows' = rows \/ rows' = SyncTable(rows, RowsOf(snapshot, chosen))
    BY <2>2 DEF Redraw
  <2>3. ASSUME NEW snapshot \in Snapshot, Show(snapshot)
        PROVE  \/ rows' = rows
               \/ rows' = SyncTable(rows, RowsOf(snapshot, states))
    BY <2>1, <2>2, <2>3 DEF Show, drawVars, TabTypes
  <2>4. CASE HandleChanged
    BY <2>1, <2>2, <2>4 DEF HandleChanged, Types, TabTypes
  <2>5. CASE Attach
    BY <2>1, <2>3, <2>5 DEF Attach, Types, TabTypes
  <2>6. ASSUME NEW p \in polls, Deliver(p)
        PROVE  \/ rows' = rows
               \/ \E snapshot \in Snapshot, chosen \in SUBSET {"open", "ended"} :
                     rows' = SyncTable(rows, RowsOf(snapshot, chosen))
    <3>1. p \in Snapshot /\ (Show(p) \/ UNCHANGED drawVars)
      BY <2>1, <2>6 DEF Deliver, Types
    <3> QED  BY <2>1, <2>3, <3>1 DEF drawVars, TabTypes
  <2>7. CASE Toggle \/ HandleCount \/ Mount \/ Ask \/ Tick \/ Unmount \/ Detach \/ TaskMoves
    BY <2>7 DEF Toggle, HandleCount, Mount, Ask, Tick, Unmount, Detach, TaskMoves,
       Quiet, Draws, drawVars
  <2>8. ASSUME NEW p \in polls, Collect(p) PROVE rows' = rows
    BY <2>8 DEF Collect, Quiet, drawVars
  <2>9. CASE UNCHANGED vars
    BY <2>9 DEF vars, drawVars
  <2> QED
    BY <1>1, <2>4, <2>5, <2>6, <2>7, <2>8, <2>9 DEF Next, PollStep
<1>2. ASSUME TabInv, [Next]_vars, NEW t \in Tasks, NEW u \in Tasks,
             Above(rows, t, u), Above(rows', u, t)
      PROVE  FALSE
  <2>1. Table(rows)
    BY <1>2 DEF TabInv, TabTypes
  <2>2. PICK i \in 1..Len(rows), j \in 1..Len(rows) :
           i < j /\ rows[i].task = t /\ rows[j].task = u
    BY <1>2, <2>1, InTable DEF Above
  <2>3. t \in TasksOf(rows) /\ u \in TasksOf(rows)
    BY <2>1, <2>2, InTable
  <2>4. CASE rows' = rows
    <3>1. PICK k \in 1..Len(rows), l \in 1..Len(rows) :
             k < l /\ rows[k].task = u /\ rows[l].task = t
      BY <1>2, <2>1, <2>4, InTable DEF Above
    <3>2. k = j /\ l = i
      BY <2>1, <2>2, <3>1 DEF Table, NoTwins
    <3> QED  BY <2>2, <3>1, <3>2
  <2>5. ASSUME NEW snapshot \in Snapshot, NEW chosen \in SUBSET {"open", "ended"},
               rows' = SyncTable(rows, RowsOf(snapshot, chosen))
        PROVE  FALSE
    <3>1. Table(RowsOf(snapshot, chosen))
      BY RowsShow
    <3>2. ~Above(SyncTable(rows, RowsOf(snapshot, chosen)), u, t)
      BY <1>2, <2>1, <2>3, <3>1, SyncShows
    <3> QED  BY <1>2, <2>5, <3>2
  <2> QED  BY <1>1, <1>2, <2>4, <2>5
<1>3. ASSUME TabInv, [Next]_vars
      PROVE  [\A t, u \in Tasks : Above(rows, t, u) => ~Above(rows', u, t)]_vars
  BY <1>2, <1>3
<1> QED  BY <1>3, TabInvariant, PTL DEF Spec, RowsKeepTheirPlace

=============================================================================
