-------------------------- MODULE HybridMemoryProofs --------------------------
(***************************************************************************)
(* Theorems about HybridMemory, for any finite set of clients, any workers, *)
(* any number of units and any bounds; and about the ranking of what a      *)
(* search finds (MemoryRanking), for any position and any candidate.        *)
(***************************************************************************)
EXTENDS HybridMemory, MemoryRanking, FiniteSetTheorems, TLAPS

-----------------------------------------------------------------------------
(* Types.                                                                   *)

PutJobs == [op : {"put"}, unit : Units, left : Stores \cup {<<"global">>}]
FindJobs == [op : {"find"}, dbs : Stores, left : Stores \cup {<<"global">>, <<>>},
             found : SUBSET Units]
BumpJobs == [op : {"bump"}, owed : SUBSET (Units \X Dbs)]

\* The four kinds of job are told apart by op.
LEMMA JobKinds ==
    ASSUME NEW j \in Job
    PROVE  /\ j.op = "idle" => j = Idle
           /\ j.op = "put"  => j \in PutJobs
           /\ j.op = "find" => j \in FindJobs
           /\ j.op = "bump" => j \in BumpJobs
           /\ j = Idle => j.op = "idle"
           /\ j.op \in {"idle", "put", "find", "bump"}
  BY DEF Job, Idle, PutJobs, FindJobs, BumpJobs

LEMMA KindsAreJobs ==
    Idle \in Job /\ PutJobs \subseteq Job /\ FindJobs \subseteq Job /\ BumpJobs \subseteq Job
  BY DEF Job, PutJobs, FindJobs, BumpJobs

\* What is left of the databases of a call.
LEMMA LeftIs ==
    /\ Stores = {<<"run">>, <<"run", "global">>}
    /\ \A s \in Stores \cup {<<"global">>} : Head(s) \in Dbs /\ s # <<>>
    /\ \A s \in Stores : Head(s) = "run"
    /\ Head(<<"global">>) = "global"
    /\ Tail(<<"run">>) = <<>> /\ Tail(<<"global">>) = <<>>
    /\ Tail(<<"run", "global">>) = <<"global">>
    /\ <<"global">> \notin Stores
  BY DEF Stores, Dbs

LEMMA KnownIsRow ==
    ASSUME TypeOK, NEW d \in Dbs
    PROVE  /\ Known(d) \subseteq Units
           /\ Active(d) \subseteq Known(d)
           /\ \A u \in Known(d) : /\ row[d][u] \in Row
                                  /\ row[d][u].reuse \in Nat
  BY DEF TypeOK, Known, Active, Row

\* The units with less than MaxItems active units before them are the first of
\* the active units, so that Nth(n) is there for every n in 1 .. Count.
LEMMA WindowIsOfActive ==
    ASSUME TypeOK
    PROVE  /\ Window \in Seq(Copy)
           /\ \A n \in DOMAIN Window : Window[n].unit \in Active("global")
<1> DEFINE A == Active("global")
           Before(u) == {v \in A : v < u}
           F == {u \in Units : u \in A /\ Cardinality(Before(u)) < MaxItems}
           Nth(n) == CHOOSE u \in Units : (u \in A /\ Cardinality(Before(u)) < MaxItems)
                                          /\ Cardinality(Before(u)) = n - 1
           rank == [u \in F |-> Cardinality(Before(u)) + 1]
<1>1. /\ A \subseteq Units /\ F \subseteq A
      /\ \A u \in A : row["global"][u].reuse \in Nat
  BY KnownIsRow DEF Dbs
<1>2. /\ IsFiniteSet(Units) /\ Units \subseteq Nat
      /\ IsFiniteSet(A) /\ IsFiniteSet(F) /\ Cardinality(F) \in Nat
      /\ \A u \in A : u \in Nat
  <2>1. IsFiniteSet(Units) /\ Units \subseteq Nat
    BY MemoryAssumption, FS_Interval DEF Units
  <2> QED
    BY <1>1, <2>1, FS_Subset, FS_CardinalityType
<1>3. \A u : IsFiniteSet(Before(u)) /\ Cardinality(Before(u)) \in Nat
  BY <1>2, FS_Subset, FS_CardinalityType
<1>4. \A u \in A : /\ IsFiniteSet(Before(u) \cup {u})
                    /\ Cardinality(Before(u) \cup {u}) = Cardinality(Before(u)) + 1
  <2> TAKE u \in A
  <2>1. u \notin Before(u)
    <3>1. u \in Nat
      BY <1>2
    <3> QED
      BY <3>1
  <2> HIDE DEF Before
  <2> QED
    BY <1>3, <2>1, FS_AddElement
<1>5. \A u, v \in A : u < v => Cardinality(Before(u)) + 1 <= Cardinality(Before(v))
  <2> SUFFICES ASSUME NEW u \in A, NEW v \in A, u < v
               PROVE  Cardinality(Before(u)) + 1 <= Cardinality(Before(v))
    OBVIOUS
  <2>1. Before(u) \cup {u} \subseteq Before(v)
    <3>1. u \in Nat /\ v \in Nat
      BY <1>2
    <3>2. ASSUME NEW t \in A, t < u PROVE t < v
      <4>1. t \in Nat
        BY <1>2
      <4> QED
        BY <3>1, <3>2, <4>1
    <3> QED
      BY <3>2
  <2> HIDE DEF Before
  <2>2. Cardinality(Before(u) \cup {u}) <= Cardinality(Before(v))
    BY <1>3, <2>1, FS_Subset
  <2> QED
    BY <1>4, <2>2
<1>6. \A u \in F : Before(u) \cup {u} \subseteq F
  <2> SUFFICES ASSUME NEW u \in F, NEW v \in Before(u) PROVE v \in F
    OBVIOUS
  <2>1. v \in A /\ v \in Units /\ v < u /\ u \in A /\ Cardinality(Before(u)) < MaxItems
    BY <1>1
  <2>2. Cardinality(Before(v)) < MaxItems
    <3>1. Cardinality(Before(v)) + 1 <= Cardinality(Before(u))
      BY <1>5, <2>1
    <3>2. Cardinality(Before(v)) \in Nat /\ Cardinality(Before(u)) \in Nat
      BY <1>3, <2>1
    <3> HIDE DEF Before
    <3> QED
      BY <2>1, <3>1, <3>2, MemoryAssumption
  <2> QED
    BY <2>1, <2>2
<1>7. rank \in [F -> 1 .. Cardinality(F)]
  <2> SUFFICES ASSUME NEW u \in F
               PROVE  Cardinality(Before(u)) + 1 \in 1 .. Cardinality(F)
    OBVIOUS
  <2>1. Cardinality(Before(u) \cup {u}) <= Cardinality(F)
    BY <1>2, <1>6, FS_Subset
  <2>2. u \in A
    BY <1>1
  <2> HIDE DEF F, Before, A
  <2> QED
    BY <1>2, <1>3, <1>4, <2>1, <2>2
<1>8. rank \in Injection(F, 1 .. Cardinality(F))
  <2>1. \A u, v \in F : rank[u] = rank[v] => u = v
    <3> SUFFICES ASSUME NEW u \in F, NEW v \in F, rank[u] = rank[v], u # v
                 PROVE  FALSE
      OBVIOUS
    <3>1. Cardinality(Before(u)) = Cardinality(Before(v))
      BY <1>3
    <3>2. u < v \/ v < u
      BY <1>1, <1>2
    <3>3. u \in A /\ v \in A
      BY <1>1
    <3> HIDE DEF Before, A
    <3> QED
      BY <1>3, <1>5, <3>1, <3>2, <3>3
  <2> QED
    BY <1>7, <2>1 DEF Injection, IsInjective
<1>9. rank \in Surjection(F, 1 .. Cardinality(F))
  <2>1. IsFiniteSet(1 .. Cardinality(F)) /\ Cardinality(1 .. Cardinality(F)) = Cardinality(F)
    BY <1>2, FS_Interval
  <2> HIDE DEF F, rank
  <2> QED
    BY <1>8, <2>1, FS_Injection
<1>10. \A n \in 1 .. Cardinality(F) : Nth(n) \in A
  <2> TAKE n \in 1 .. Cardinality(F)
  <2>1. PICK u \in F : rank[u] = n
    BY <1>9 DEF Surjection
  <2>2. Cardinality(Before(u)) = n - 1
    <3>1. Cardinality(Before(u)) + 1 = n /\ Cardinality(Before(u)) \in Nat
      BY <1>3, <2>1
    <3> HIDE DEF Before
    <3> QED
      BY <3>1
  <2>3. u \in Units /\ (u \in A /\ Cardinality(Before(u)) < MaxItems)
    OBVIOUS
  <2> QED
    BY <2>2, <2>3
<1>11. Window = [n \in 1 .. Cardinality(F) |->
                   [unit |-> Nth(n), reuse |-> row["global"][Nth(n)].reuse]]
  BY DEF Window
<1> HIDE DEF F, A, Nth
<1>12. \A n \in 1 .. Cardinality(F) :
         [unit |-> Nth(n), reuse |-> row["global"][Nth(n)].reuse] \in Copy
  BY <1>1, <1>10 DEF Copy
<1>13. Window \in Seq(Copy)
  BY <1>2, <1>11, <1>12
<1> QED
  BY <1>10, <1>11, <1>13 DEF A

LEMMA TypeInit == Init => TypeOK
  BY MemoryAssumption, KindsAreJobs DEF Init, TypeOK, Worker, Fresh, Copy

\* A round looks at units of the global database only.
TodoIsKnown ==
    \A w \in Workers : \A n \in DOMAIN worker[w].todo :
        worker[w].todo[n].unit \in Known("global")

LEMMA TypeStep == TypeOK /\ TodoIsKnown /\ [Next]_vars => TypeOK'
<1> SUFFICES ASSUME TypeOK, TodoIsKnown, [Next]_vars PROVE TypeOK'
  OBVIOUS
<1> USE MemoryAssumption DEF TypeOK, clientVars
<1>1. ASSUME NEW c \in Clients, Compose(c) PROVE TypeOK'
  <2>1. made + 1 \in Units /\ made' = made + 1
    BY <1>1 DEF Compose, Units
  <2>2. PICK scope \in Stores :
          /\ job' = [job EXCEPT ![c] = [op |-> "put", unit |-> made + 1, left |-> PutOrder(scope)]]
          /\ valued' \in IF Len(scope) = 2 THEN {valued, valued \cup {made + 1}} ELSE {valued}
    BY <1>1 DEF Compose
  <2>3. [op |-> "put", unit |-> made + 1, left |-> PutOrder(scope)] \in Job
    BY <2>1, KindsAreJobs DEF PutJobs, PutOrder
  <2>4. job' \in [Clients -> Job]
    BY <2>2, <2>3
  <2>5. valued' \subseteq Units
    BY <2>1, <2>2
  <2>6. made' \in 0 .. N /\ age' \in 0 .. made'
    BY <1>1, <2>1 DEF Compose
  <2> QED
    BY <1>1, <2>4, <2>5, <2>6 DEF Compose
<1>2. ASSUME NEW c \in Clients, PutRow(c) PROVE TypeOK'
  <2>1. job[c] \in PutJobs
    BY <1>2, JobKinds DEF PutRow
  <2>2. Head(job[c].left) \in Dbs /\ job[c].unit \in Units
    BY <2>1, LeftIs DEF PutJobs
  <2>3. row' \in [Dbs -> [Units -> Row \cup {None}]]
    BY <1>2, <2>2 DEF PutRow, Row
  <2>4. Tail(job[c].left) = <<>> \/ Tail(job[c].left) = <<"global">>
    BY <2>1, LeftIs DEF PutJobs
  <2>5. (IF Tail(job[c].left) = <<>> THEN Idle
                                ELSE [job[c] EXCEPT !.left = Tail(job[c].left)]) \in Job
    <3>1. CASE Tail(job[c].left) = <<>>
      BY <3>1, KindsAreJobs
    <3>2. CASE Tail(job[c].left) # <<>>
      <4>1. [job[c] EXCEPT !.left = <<"global">>] \in PutJobs
        BY <2>1 DEF PutJobs
      <4> QED
        BY <2>4, <3>2, <4>1, KindsAreJobs
    <3> QED
      BY <3>1, <3>2
  <2>6. job' \in [Clients -> Job]
    BY <1>2, <2>5 DEF PutRow
  <2> QED
    BY <1>2, <2>3, <2>6 DEF PutRow
<1>3. ASSUME NEW c \in Clients, BeginSearch(c) PROVE TypeOK'
  <2>1. \A dbs \in Stores : [op |-> "find", dbs |-> dbs, left |-> dbs, found |-> {}] \in Job
    BY KindsAreJobs DEF FindJobs
  <2>2. job' \in [Clients -> Job]
    BY <1>3, <2>1 DEF BeginSearch
  <2> QED
    BY <1>3, <2>2 DEF BeginSearch
<1>4. ASSUME NEW c \in Clients, ReadDb(c) PROVE TypeOK'
  <2>1. job[c] \in FindJobs
    BY <1>4, JobKinds DEF ReadDb
  <2>2. Head(job[c].left) \in Dbs /\ Tail(job[c].left) \in {<<>>, <<"global">>}
    BY <1>4, <2>1, LeftIs DEF FindJobs, ReadDb
  <2>3. Candidates(Head(job[c].left)) \subseteq Units
    BY <2>2, KnownIsRow DEF Candidates
  <2>4. job'[c] \in FindJobs
    <3>1. job'[c] = [job[c] EXCEPT !.found = @ \cup Candidates(Head(job[c].left)),
                                   !.left = Tail(@)]
      BY <1>4 DEF ReadDb
    <3> QED
      BY <2>1, <2>2, <2>3, <3>1 DEF FindJobs
  <2>5. job' \in [Clients -> Job]
    BY <1>4, <2>4, KindsAreJobs DEF ReadDb
  <2> QED
    BY <1>4, <2>5 DEF ReadDb
<1>5. ASSUME NEW c \in Clients, Serve(c) PROVE TypeOK'
  <2>1. job[c] \in FindJobs
    BY <1>5, JobKinds DEF Serve
  <2>2. PICK H \in SUBSET job[c].found :
          /\ served' = [u \in Units |-> IF u \in H THEN served[u] + 1 ELSE served[u]]
          /\ job' = [job EXCEPT ![c] =
                       IF H = {} THEN Idle
                       ELSE [op |-> "bump", owed |-> H \X CountedIn(job[c].dbs)]]
    BY <1>5 DEF Serve
  <2>3. CountedIn(job[c].dbs) \subseteq Dbs
    BY <2>1 DEF FindJobs, CountedIn, Stores, Dbs
  <2>4. H \subseteq Units
    BY <2>1, <2>2 DEF FindJobs
  <2>5. [op |-> "bump", owed |-> H \X CountedIn(job[c].dbs)] \in BumpJobs
    BY <2>3, <2>4 DEF BumpJobs
  <2>6. job' \in [Clients -> Job]
    BY <2>2, <2>5, KindsAreJobs
  <2>7. served' \in [Units -> Nat]
    BY <2>2
  <2> QED
    BY <1>5, <2>6, <2>7 DEF Serve
<1>6. ASSUME NEW c \in Clients, Bump(c) PROVE TypeOK'
  <2>1. job[c] \in BumpJobs
    BY <1>6, JobKinds DEF Bump
  <2>2. PICK x \in job[c].owed :
          /\ row' = IF x[1] \in Known(x[2]) THEN [row EXCEPT ![x[2]][x[1]] = Reused(@)] ELSE row
          /\ job' = [job EXCEPT ![c] = IF job[c].owed \ {x} = {} THEN Idle
                                       ELSE [op |-> "bump", owed |-> job[c].owed \ {x}]]
    BY <1>6 DEF Bump
  <2>3. x[1] \in Units /\ x[2] \in Dbs
    BY <2>1 DEF BumpJobs
  <2>4. x[1] \in Known(x[2]) => Reused(row[x[2]][x[1]]) \in Row
    <3> SUFFICES ASSUME x[1] \in Known(x[2]) PROVE Reused(row[x[2]][x[1]]) \in Row
      OBVIOUS
    <3>1. row[x[2]][x[1]] \in Row
      BY <2>3, KnownIsRow
    <3> QED
      BY <3>1 DEF Reused, Row
  <2>5. row' \in [Dbs -> [Units -> Row \cup {None}]]
    BY <2>2, <2>3, <2>4
  <2>6. [op |-> "bump", owed |-> job[c].owed \ {x}] \in BumpJobs
    BY <2>1 DEF BumpJobs
  <2>7. job' \in [Clients -> Job]
    BY <2>2, <2>6, KindsAreJobs
  <2> QED
    BY <1>6, <2>5, <2>7 DEF Bump
<1>7. ASSUME NEW c \in Clients, Crash(c) PROVE TypeOK'
  BY <1>7, KindsAreJobs DEF Crash
<1>8. CASE Age
  BY <1>8 DEF Age
<1>9. ASSUME NEW w \in Workers, LoopStep(w) \/ Start(w) \/ Stop(w) \/ AbortRound(w) \/ Exit(w)
      PROVE  TypeOK'
  <2>1. worker[w] \in Worker
    OBVIOUS
  <2>2. CASE BeginRound(w)
    BY <2>1, <2>2, WindowIsOfActive DEF BeginRound, Worker
  <2>3. CASE Check(w)
    <3> DEFINE copy == Head(worker[w].todo)
    <3>1. worker[w].todo \in Seq(Copy) /\ worker[w].todo # <<>>
      BY <2>1, <2>3 DEF Check, Worker
    <3>2. copy \in Copy /\ Tail(worker[w].todo) \in Seq(Copy)
      BY <3>1
    <3>3. copy.unit \in Units
      BY <3>2 DEF Copy
    <3>4. worker' = [worker EXCEPT ![w].todo = Tail(@),
                          ![w].owes = IF Archivable(copy) THEN copy.unit ELSE None]
      BY <2>3 DEF Check
    <3>5. worker' \in [Workers -> Worker]
      BY <2>1, <3>2, <3>3, <3>4 DEF Worker
    <3>6. row["global"][copy.unit] \in Row
      <4>1. 1 \in DOMAIN worker[w].todo /\ copy = worker[w].todo[1]
        BY <3>1
      <4> HIDE DEF copy
      <4> QED
        BY <4>1, KnownIsRow DEF TodoIsKnown, Dbs
    <3>7. ArchivedRow(row["global"][copy.unit], copy) \in Row
      BY <3>6 DEF ArchivedRow, Row
    <3>8. row' = IF Archivable(copy)
                 THEN [row EXCEPT !["global"][copy.unit] = ArchivedRow(@, copy)]
                 ELSE row
      BY <2>3 DEF Check
    <3>9. row' \in [Dbs -> [Units -> Row \cup {None}]]
      <4> HIDE DEF copy
      <4> QED
        BY <3>3, <3>7, <3>8 DEF Dbs
    <3> QED
      BY <2>3, <3>5, <3>9 DEF Check
  <2>4. CASE AppendLog(w)
    BY <2>1, <2>4 DEF AppendLog, Worker
  <2>5. CASE EndRound(w)
    BY <2>1, <2>5 DEF EndRound, Onward, Worker
  <2>6. CASE LeaveLoop(w)
    BY <2>1, <2>6 DEF LeaveLoop, Worker
  <2>7. CASE Start(w)
    BY <2>1, <2>7 DEF Start, Worker
  <2>8. CASE Stop(w)
    BY <2>1, <2>8 DEF Stop, Worker
  <2>9. CASE AbortRound(w)
    <3>1. [worker[w] EXCEPT !.at = Onward(w), !.todo = <<>>, !.owes = None] \in Worker
      <4>1. <<>> \in Seq(Copy) /\ Onward(w) \in {"new", "waiting"}
        BY DEF Onward
      <4> HIDE DEF TypeOK
      <4> QED
        BY <2>1, <4>1 DEF Worker
    <3> QED
      BY <2>9, <3>1 DEF AbortRound
  <2>10. CASE Exit(w)
    <3>1. Fresh \in Worker
      BY DEF Fresh, Worker
    <3> QED
      BY <2>10, <3>1 DEF Exit
  <2> QED
    BY <1>9, <2>2, <2>3, <2>4, <2>5, <2>6, <2>7, <2>8, <2>9, <2>10 DEF LoopStep
<1>10. CASE UNCHANGED vars
  BY <1>10 DEF vars
<1> QED
  BY <1>1, <1>2, <1>3, <1>4, <1>5, <1>6, <1>7, <1>8, <1>9, <1>10 DEF Next, ClientStep

-----------------------------------------------------------------------------
(* What a step does to the rows of the databases.                           *)

Stored(d, u) ==
    /\ u \notin Known(d)
    /\ row' = [row EXCEPT ![d][u] = [status |-> "active", reuse |-> 0]]

Counted(d, u) ==
    /\ u \in Known(d)
    /\ row' = [row EXCEPT ![d][u] = Reused(@)]

Archived(u) ==
    /\ u \in Known("global")
    /\ row' = [row EXCEPT !["global"][u] = [@ EXCEPT !.status = "archived"]]

LEMMA StoredRow ==
    ASSUME TypeOK, NEW d \in Dbs, NEW u \in Units, Stored(d, u)
    PROVE  /\ row'[d][u] = [status |-> "active", reuse |-> 0]
           /\ \A e \in Dbs, v \in Units : (e # d \/ v # u) => row'[e][v] = row[e][v]
           /\ Known(d)' = Known(d) \cup {u}
           /\ Active(d)' = Active(d) \cup {u}
           /\ \A e \in Dbs \ {d} : Known(e)' = Known(e) /\ Active(e)' = Active(e)
<1>1. /\ row'[d][u] = [status |-> "active", reuse |-> 0]
      /\ \A e \in Dbs, v \in Units : (e # d \/ v # u) => row'[e][v] = row[e][v]
  BY DEF TypeOK, Stored
<1>2. [status |-> "active", reuse |-> 0] # None
  BY NoneIsNoRow DEF Row
<1> QED
  BY <1>1, <1>2 DEF Known, Active, Dbs

LEMMA CountedRow ==
    ASSUME TypeOK, NEW d \in Dbs, NEW u \in Units, Counted(d, u)
    PROVE  /\ row'[d][u].reuse = row[d][u].reuse + 1
           /\ row'[d][u].status = row[d][u].status
           /\ \A e \in Dbs, v \in Units : (e # d \/ v # u) => row'[e][v] = row[e][v]
           /\ \A e \in Dbs : Known(e)' = Known(e) /\ Active(e)' = Active(e)
<1>1. /\ row'[d][u] = Reused(row[d][u])
      /\ \A e \in Dbs, v \in Units : (e # d \/ v # u) => row'[e][v] = row[e][v]
  BY DEF TypeOK, Counted
<1>2. row[d][u] \in Row /\ row[d][u] # None
  BY KnownIsRow, NoneIsNoRow DEF Counted
<1>3. /\ row'[d][u].reuse = row[d][u].reuse + 1
      /\ row'[d][u].status = row[d][u].status
      /\ row'[d][u] \in Row
  BY <1>1, <1>2 DEF Reused, Row
<1>4. row'[d][u] # None
  BY <1>3, NoneIsNoRow
<1> QED
  BY <1>1, <1>2, <1>3, <1>4 DEF Known, Active

LEMMA ArchivedRowIs ==
    ASSUME TypeOK, NEW u \in Units, Archived(u)
    PROVE  /\ row'["global"][u].reuse = row["global"][u].reuse
           /\ row'["global"][u].status = "archived"
           /\ \A e \in Dbs, v \in Units : (e # "global" \/ v # u) => row'[e][v] = row[e][v]
           /\ \A e \in Dbs : Known(e)' = Known(e)
           /\ Active("global")' = Active("global") \ {u}
<1>1. /\ row'["global"][u] = [row["global"][u] EXCEPT !.status = "archived"]
      /\ \A e \in Dbs, v \in Units : (e # "global" \/ v # u) => row'[e][v] = row[e][v]
  BY DEF TypeOK, Archived, Dbs
<1>2. row["global"][u] \in Row /\ row["global"][u] # None
  BY KnownIsRow, NoneIsNoRow DEF Archived, Dbs
<1>3. /\ row'["global"][u].reuse = row["global"][u].reuse
      /\ row'["global"][u].status = "archived"
      /\ row'["global"][u] \in Row
  BY <1>1, <1>2 DEF Row
<1>4. row'["global"][u] # None
  BY <1>3, NoneIsNoRow
<1> QED
  BY <1>1, <1>2, <1>3, <1>4 DEF Known, Active, Dbs

-----------------------------------------------------------------------------
(* What is stored where.                                                    *)

\* A unit that is being put is not stored twice: it is in the run's database
\* exactly when only the global one is left.
PutsAreFresh ==
    \A c \in Clients : job[c].op = "put" =>
        /\ job[c].unit <= made
        /\ job[c].unit \notin Known("global")
        /\ job[c].unit \in Known("run") <=> job[c].left = <<"global">>

PutsAreApart ==
    \A c, e \in Clients :
        c # e /\ job[c].op = "put" /\ job[e].op = "put" => job[c].unit # job[e].unit

KnownAreMade == \A d \in Dbs : \A u \in Known(d) : u <= made

FoundAreStored ==
    \A c \in Clients :
        /\ job[c].op = "find" => job[c].found \subseteq Known("run")
        /\ job[c].op = "bump" => \A x \in job[c].owed : x[1] \in Known("run")

GlobalIsStored == Known("global") \subseteq Known("run")

StoreInv ==
    /\ TypeOK
    /\ TodoIsKnown
    /\ PutsAreFresh
    /\ PutsAreApart
    /\ KnownAreMade
    /\ FoundAreStored
    /\ GlobalIsStored

LEMMA StoreInit == Init => StoreInv
<1> SUFFICES ASSUME Init PROVE StoreInv
  OBVIOUS
<1>1. TypeOK
  BY TypeInit
<1>2. /\ \A c \in Clients : job[c].op = "idle"
      /\ \A w \in Workers : worker[w].todo = <<>>
      /\ \A d \in Dbs : Known(d) = {}
  BY DEF Init, Idle, Fresh, Known
<1> QED
  BY <1>1, <1>2 DEF StoreInv, TodoIsKnown, PutsAreFresh, PutsAreApart, KnownAreMade,
                    FoundAreStored, GlobalIsStored, Dbs

\* put stores a unit that the database does not have yet.
LEMMA PutStores ==
    ASSUME StoreInv, NEW c \in Clients, PutRow(c)
    PROVE  /\ job[c] \in PutJobs
           /\ \E d \in Dbs, u \in Units :
                d = Head(job[c].left) /\ u = job[c].unit /\ Stored(d, u)
           /\ job' = [job EXCEPT ![c] = IF Tail(job[c].left) = <<>> THEN Idle
                                        ELSE [@ EXCEPT !.left = Tail(job[c].left)]]
<1>1. job[c] \in PutJobs
  BY JobKinds DEF PutRow, StoreInv, TypeOK
<1>2. Head(job[c].left) \in Dbs /\ job[c].unit \in Units
  BY <1>1, LeftIs DEF PutJobs
<1>3. job[c].unit \notin Known(Head(job[c].left))
  <2>1. job[c].op = "put"
    BY DEF PutRow
  <2>2. CASE job[c].left \in Stores
    BY <2>1, <2>2, LeftIs DEF StoreInv, PutsAreFresh
  <2>3. CASE job[c].left = <<"global">>
    BY <2>1, <2>3, LeftIs DEF StoreInv, PutsAreFresh
  <2> QED
    BY <1>1, <2>2, <2>3 DEF PutJobs
<1> QED
  BY <1>1, <1>2, <1>3 DEF PutRow, Stored

LEMMA ServeOwes ==
    ASSUME TypeOK, NEW c \in Clients, Serve(c)
    PROVE  /\ job[c] \in FindJobs
           /\ \E H \in SUBSET job[c].found :
                /\ H \subseteq Units
                /\ CountedIn(job[c].dbs) \in {{"run"}, {"run", "global"}}
                /\ served' = [u \in Units |-> IF u \in H THEN served[u] + 1 ELSE served[u]]
                /\ job' = [job EXCEPT ![c] =
                             IF H = {} THEN Idle
                             ELSE [op |-> "bump", owed |-> H \X CountedIn(job[c].dbs)]]
<1>1. job[c] \in FindJobs
  BY JobKinds DEF Serve, TypeOK
<1>2. CountedIn(job[c].dbs) \in {{"run"}, {"run", "global"}}
  BY <1>1 DEF FindJobs, CountedIn, Stores
<1>3. job[c].found \subseteq Units
  BY <1>1 DEF FindJobs
<1> QED
  BY <1>1, <1>2, <1>3 DEF Serve

\* One count: a row gets it, or the database has no such row.
LEMMA BumpCounts ==
    ASSUME TypeOK, NEW c \in Clients, Bump(c)
    PROVE  /\ job[c] \in BumpJobs
           /\ \E x \in job[c].owed :
                /\ x = <<x[1], x[2]>> /\ x[1] \in Units /\ x[2] \in Dbs
                /\ x[2] = "global" => <<x[1], "run">> \notin job[c].owed
                /\ \A v \in Units \ {x[1]} :
                     <<v, "global">> \in job[c].owed => <<v, "run">> \in job[c].owed
                /\ \/ Counted(x[2], x[1])
                   \/ x[1] \notin Known(x[2]) /\ row' = row
                /\ job' = [job EXCEPT ![c] = IF job[c].owed \ {x} = {} THEN Idle
                                             ELSE [op |-> "bump", owed |-> job[c].owed \ {x}]]
<1>1. job[c] \in BumpJobs
  BY JobKinds DEF Bump, TypeOK
<1>2. PICK x \in job[c].owed :
        /\ x[2] = "global" => <<x[1], "run">> \notin job[c].owed
        /\ \A v \in Units \ {x[1]} :
             <<v, "global">> \in job[c].owed => <<v, "run">> \in job[c].owed
        /\ row' = IF x[1] \in Known(x[2]) THEN [row EXCEPT ![x[2]][x[1]] = Reused(@)] ELSE row
        /\ job' = [job EXCEPT ![c] = IF job[c].owed \ {x} = {} THEN Idle
                                     ELSE [op |-> "bump", owed |-> job[c].owed \ {x}]]
  BY DEF Bump
<1>3. x = <<x[1], x[2]>> /\ x[1] \in Units /\ x[2] \in Dbs
  BY <1>1, <1>2 DEF BumpJobs
<1>4. Counted(x[2], x[1]) \/ (x[1] \notin Known(x[2]) /\ row' = row)
  BY <1>2 DEF Counted
<1> QED
  BY <1>1, <1>2, <1>3, <1>4

\* A round archives a row of the global database or leaves the rows alone.
LEMMA CheckArchives ==
    ASSUME TypeOK, TodoIsKnown, NEW w \in Workers, Check(w)
    PROVE  LET copy == Head(worker[w].todo)
           IN  /\ worker[w].todo \in Seq(Copy) /\ worker[w].todo # <<>>
               /\ copy.unit \in Units
               /\ \/ Archivable(copy) /\ Archived(copy.unit)
                  \/ ~Archivable(copy) /\ row' = row
<1> DEFINE copy == Head(worker[w].todo)
<1>1. worker[w].todo \in Seq(Copy) /\ worker[w].todo # <<>>
  BY DEF Check, Worker, TypeOK
<1>2. copy \in Copy /\ 1 \in DOMAIN worker[w].todo /\ copy = worker[w].todo[1]
  BY <1>1
<1>3. copy.unit \in Units /\ copy.unit \in Known("global")
  <2> HIDE DEF copy
  <2> QED
    BY <1>2 DEF Copy, TodoIsKnown
<1>4. row' = IF Archivable(copy)
             THEN [row EXCEPT !["global"][copy.unit] = ArchivedRow(@, copy)]
             ELSE row
  BY DEF Check
<1> HIDE DEF copy
<1>5. \/ Archivable(copy) /\ Archived(copy.unit)
      \/ ~Archivable(copy) /\ row' = row
  BY <1>3, <1>4 DEF Archived, ArchivedRow
<1> QED
  BY <1>1, <1>3, <1>5 DEF copy

LEMMA StoreStep == StoreInv /\ [Next]_vars => StoreInv'
<1> SUFFICES ASSUME StoreInv, [Next]_vars PROVE StoreInv'
  OBVIOUS
<1> USE DEF clientVars
<1>0. TypeOK /\ TodoIsKnown /\ TypeOK'
  BY TypeStep DEF StoreInv
<1>1. ASSUME NEW c \in Clients, Compose(c) PROVE StoreInv'
  <2>1. PICK scope \in Stores :
          job' = [job EXCEPT ![c] = [op |-> "put", unit |-> made + 1, left |-> scope]]
    BY <1>1 DEF Compose, PutOrder
  <2>2. row' = row /\ worker' = worker /\ made' = made + 1 /\ made \in 0 .. N
    BY <1>0, <1>1 DEF Compose, TypeOK
  <2>3. /\ job'[c] = [op |-> "put", unit |-> made + 1, left |-> scope]
        /\ \A e \in Clients \ {c} : job'[e] = job[e]
    BY <1>0, <2>1 DEF TypeOK
  <2>4. scope # <<"global">>
    BY LeftIs
  <2>5. \A d \in Dbs : Known(d)' = Known(d)
    BY <2>2 DEF Known
  <2>6. \A d \in Dbs : \A u \in Known(d) : u \in Nat /\ u <= made
    BY <1>0, KnownIsRow, MemoryAssumption DEF StoreInv, KnownAreMade, Units
  <2>7. \A d \in Dbs : made + 1 \notin Known(d)
    BY <2>2, <2>6, MemoryAssumption
  <2>8. \A e \in Clients : job[e].op = "put" => job[e].unit \in Nat /\ job[e].unit <= made
    <3> TAKE e \in Clients
    <3>1. job[e].op = "put" => job[e].unit \in Units
      BY <1>0, JobKinds DEF TypeOK, PutJobs
    <3> QED
      BY <3>1, MemoryAssumption DEF StoreInv, PutsAreFresh, Units
  <2>9. PutsAreFresh'
    <3> SUFFICES ASSUME NEW e \in Clients, job'[e].op = "put"
                 PROVE  /\ job'[e].unit <= made'
                        /\ job'[e].unit \notin Known("global")'
                        /\ job'[e].unit \in Known("run")' <=> job'[e].left = <<"global">>
      BY DEF PutsAreFresh
    <3>1. CASE e = c
      BY <2>2, <2>3, <2>4, <2>5, <2>7, <3>1, MemoryAssumption DEF Dbs
    <3>2. CASE e # c
      <4>1. /\ job[e].unit <= made /\ job[e].unit \in Nat
            /\ job[e].unit \notin Known("global")
            /\ job[e].unit \in Known("run") <=> job[e].left = <<"global">>
        BY <2>3, <2>8, <3>2 DEF StoreInv, PutsAreFresh
      <4> QED
        BY <2>2, <2>3, <2>5, <3>2, <4>1, MemoryAssumption DEF Dbs
    <3> QED
      BY <3>1, <3>2
  <2>10. PutsAreApart'
    BY <2>2, <2>3, <2>8, MemoryAssumption DEF StoreInv, PutsAreApart
  <2>11. KnownAreMade'
    BY <2>2, <2>5, <2>6, MemoryAssumption DEF KnownAreMade
  <2>12. FoundAreStored'
    BY <2>3, <2>5 DEF StoreInv, FoundAreStored, Dbs
  <2>13. GlobalIsStored' /\ TodoIsKnown'
    BY <2>2, <2>5 DEF StoreInv, GlobalIsStored, TodoIsKnown, Dbs
  <2> QED
    BY <1>0, <2>9, <2>10, <2>11, <2>12, <2>13 DEF StoreInv
<1>2. ASSUME NEW c \in Clients, PutRow(c) PROVE StoreInv'
  <2>0. PICK d \in Dbs, u \in Units :
          d = Head(job[c].left) /\ u = job[c].unit /\ Stored(d, u)
    BY <1>2, PutStores
  <2>1. /\ job[c] \in PutJobs
        /\ job' = [job EXCEPT ![c] = IF Tail(job[c].left) = <<>> THEN Idle
                                     ELSE [@ EXCEPT !.left = Tail(job[c].left)]]
    BY <1>2, PutStores
  <2>2. worker' = worker /\ made' = made /\ job[c].op = "put"
    BY <1>2 DEF PutRow
  <2>3. \A e \in Clients \ {c} : job'[e] = job[e]
    BY <1>0, <2>1 DEF TypeOK
  <2>4. /\ Known(d)' = Known(d) \cup {u}
        /\ \A e \in Dbs \ {d} : Known(e)' = Known(e)
    BY <1>0, <2>0, StoredRow
  <2>5. \/ d = "run" /\ Tail(job[c].left) = <<"global">>
           /\ job'[c] = [job[c] EXCEPT !.left = <<"global">>]
        \/ job'[c] = Idle
    <3>1. job'[c] = IF Tail(job[c].left) = <<>> THEN Idle
                    ELSE [job[c] EXCEPT !.left = Tail(job[c].left)]
      BY <1>0, <2>1 DEF TypeOK
    <3>2. CASE job[c].left = <<"run", "global">>
      BY <2>0, <3>1, <3>2, LeftIs
    <3>3. CASE job[c].left # <<"run", "global">>
      BY <2>1, <3>1, <3>3, LeftIs DEF PutJobs
    <3> QED
      BY <3>2, <3>3
  <2>6. /\ job'[c].op = "put" => /\ d = "run" /\ job'[c].unit = u
                                 /\ job'[c].left = <<"global">>
        /\ job'[c].op \in {"put", "idle"}
    BY <2>0, <2>1, <2>2, <2>5 DEF PutJobs, Idle
  <2>7. /\ u <= made /\ u \notin Known("global")
        /\ d = "global" => u \in Known("run")
    <3>1. d = "global" => job[c].left = <<"global">>
      BY <2>0, <2>1, LeftIs DEF PutJobs
    <3> QED
      BY <2>0, <2>2, <3>1 DEF StoreInv, PutsAreFresh
  <2>8. \A e \in Clients \ {c} : job[e].op = "put" => job[e].unit # u
    BY <2>0, <2>2 DEF StoreInv, PutsAreApart
  <2>9. PutsAreFresh'
    <3> SUFFICES ASSUME NEW e \in Clients, job'[e].op = "put"
                 PROVE  /\ job'[e].unit <= made'
                        /\ job'[e].unit \notin Known("global")'
                        /\ job'[e].unit \in Known("run")' <=> job'[e].left = <<"global">>
      BY DEF PutsAreFresh
    <3>1. CASE e = c
      BY <2>1, <2>2, <2>4, <2>6, <2>7, <3>1 DEF Dbs
    <3>2. CASE e # c
      BY <2>1, <2>2, <2>3, <2>4, <2>8, <3>2 DEF StoreInv, PutsAreFresh, Dbs
    <3> QED
      BY <3>1, <3>2
  <2>10. PutsAreApart'
    BY <2>3, <2>6, <2>8 DEF StoreInv, PutsAreApart
  <2>11. KnownAreMade'
    BY <2>1, <2>2, <2>4, <2>7 DEF StoreInv, KnownAreMade
  <2>12. FoundAreStored'
    BY <2>1, <2>3, <2>4, <2>6 DEF StoreInv, FoundAreStored, Dbs
  <2>13. GlobalIsStored'
    BY <2>1, <2>4, <2>7 DEF StoreInv, GlobalIsStored, Dbs
  <2>14. TodoIsKnown'
    BY <2>1, <2>2, <2>4 DEF StoreInv, TodoIsKnown, Dbs
  <2> QED
    BY <1>0, <2>9, <2>10, <2>11, <2>12, <2>13, <2>14 DEF StoreInv
<1>3. ASSUME NEW c \in Clients, UNCHANGED <<row, made, worker>>,
             \A e \in Clients \ {c} : job'[e] = job[e],
             job'[c].op # "put",
             job'[c].op = "find" => job'[c].found \subseteq Known("run"),
             job'[c].op = "bump" => \A x \in job'[c].owed : x[1] \in Known("run")
      PROVE  StoreInv'
  <2>1. \A d \in Dbs : Known(d)' = Known(d)
    BY <1>3 DEF Known
  <2>2. PutsAreFresh' /\ PutsAreApart'
    BY <1>3, <2>1 DEF StoreInv, PutsAreFresh, PutsAreApart, Dbs
  <2>3. KnownAreMade' /\ GlobalIsStored' /\ TodoIsKnown'
    BY <1>3, <2>1 DEF StoreInv, KnownAreMade, GlobalIsStored, TodoIsKnown, Dbs
  <2>4. FoundAreStored'
    BY <1>3, <2>1 DEF StoreInv, FoundAreStored, Dbs
  <2> QED
    BY <1>0, <2>2, <2>3, <2>4 DEF StoreInv
<1>4. ASSUME NEW c \in Clients, BeginSearch(c) PROVE StoreInv'
  <2>1. /\ UNCHANGED <<row, made, worker>>
        /\ \A e \in Clients \ {c} : job'[e] = job[e]
        /\ job'[c].op = "find" /\ job'[c].found = {}
    BY <1>0, <1>4 DEF BeginSearch, TypeOK
  <2> QED
    BY <1>3, <2>1
<1>5. ASSUME NEW c \in Clients, ReadDb(c) PROVE StoreInv'
  <2>1. job[c] \in FindJobs /\ job[c].op = "find" /\ Head(job[c].left) \in Dbs
    <3>1. job[c] \in FindJobs
      BY <1>0, <1>5, JobKinds DEF ReadDb, TypeOK
    <3> QED
      BY <1>5, <3>1, LeftIs DEF ReadDb, FindJobs
  <2>2. Candidates(Head(job[c].left)) \subseteq Known("run")
    BY <1>0, <2>1, KnownIsRow DEF Candidates, StoreInv, GlobalIsStored, Dbs
  <2>3. /\ UNCHANGED <<row, made, worker>>
        /\ \A e \in Clients \ {c} : job'[e] = job[e]
        /\ job'[c].op = "find"
        /\ job'[c].found = job[c].found \cup Candidates(Head(job[c].left))
    BY <1>0, <1>5, <2>1 DEF ReadDb, TypeOK, FindJobs
  <2>4. job'[c].found \subseteq Known("run")
    BY <2>1, <2>2, <2>3 DEF StoreInv, FoundAreStored
  <2> QED
    BY <1>3, <2>3, <2>4
<1>6. ASSUME NEW c \in Clients, Serve(c) PROVE StoreInv'
  <2>1. PICK H \in SUBSET job[c].found :
          /\ H \subseteq Units
          /\ job' = [job EXCEPT ![c] =
                       IF H = {} THEN Idle
                       ELSE [op |-> "bump", owed |-> H \X CountedIn(job[c].dbs)]]
    BY <1>0, <1>6, ServeOwes
  <2>2. UNCHANGED <<row, made, worker>> /\ job[c].op = "find"
    BY <1>6 DEF Serve
  <2>3. \A e \in Clients \ {c} : job'[e] = job[e]
    BY <1>0, <2>1 DEF TypeOK
  <2>4. H \subseteq Known("run")
    BY <2>1, <2>2 DEF StoreInv, FoundAreStored
  <2>5. \/ job'[c] = Idle
        \/ job'[c] = [op |-> "bump", owed |-> H \X CountedIn(job[c].dbs)]
    BY <1>0, <2>1 DEF TypeOK
  <2>6. \/ job'[c].op = "idle"
        \/ job'[c].op = "bump" /\ \A x \in job'[c].owed : x[1] \in Known("run")
    BY <2>4, <2>5 DEF Idle
  <2> QED
    BY <1>3, <2>2, <2>3, <2>6
<1>7. ASSUME NEW c \in Clients, Bump(c) PROVE StoreInv'
  <2>1. PICK x \in job[c].owed :
          /\ x[1] \in Units /\ x[2] \in Dbs
          /\ Counted(x[2], x[1]) \/ row' = row
          /\ job' = [job EXCEPT ![c] = IF job[c].owed \ {x} = {} THEN Idle
                                       ELSE [op |-> "bump", owed |-> job[c].owed \ {x}]]
    BY <1>0, <1>7, BumpCounts
  <2>2. UNCHANGED <<made, worker>> /\ job[c].op = "bump"
    BY <1>7 DEF Bump
  <2>3. \A d \in Dbs : Known(d)' = Known(d)
    <3>1. CASE Counted(x[2], x[1])
      BY <1>0, <2>1, <3>1, CountedRow
    <3>2. CASE row' = row
      BY <3>2 DEF Known
    <3> QED
      BY <2>1, <3>1, <3>2
  <2>4. /\ \A e \in Clients \ {c} : job'[e] = job[e]
        /\ \/ job'[c] = Idle
           \/ job'[c] = [op |-> "bump", owed |-> job[c].owed \ {x}]
    BY <1>0, <2>1 DEF TypeOK
  <2>5. \/ job'[c].op = "idle"
        \/ job'[c].op = "bump" /\ job'[c].owed \subseteq job[c].owed
    BY <2>4 DEF Idle
  <2>6. PutsAreFresh' /\ PutsAreApart'
    BY <2>2, <2>3, <2>4, <2>5 DEF StoreInv, PutsAreFresh, PutsAreApart, Dbs
  <2>7. KnownAreMade' /\ GlobalIsStored' /\ TodoIsKnown'
    BY <2>2, <2>3 DEF StoreInv, KnownAreMade, GlobalIsStored, TodoIsKnown, Dbs
  <2>8. FoundAreStored'
    BY <2>2, <2>3, <2>4, <2>5 DEF StoreInv, FoundAreStored, Dbs
  <2> QED
    BY <1>0, <2>6, <2>7, <2>8 DEF StoreInv
<1>8. ASSUME NEW c \in Clients, Crash(c) PROVE StoreInv'
  <2>1. /\ UNCHANGED <<row, made, worker>>
        /\ \A e \in Clients \ {c} : job'[e] = job[e]
        /\ job'[c].op = "idle"
    BY <1>0, <1>8 DEF Crash, TypeOK, Idle
  <2> QED
    BY <1>3, <2>1
<1>9. ASSUME UNCHANGED <<made, job>>,
             \A d \in Dbs : Known(d)' = Known(d),
             TodoIsKnown'
      PROVE  StoreInv'
  <2>1. PutsAreFresh' /\ PutsAreApart' /\ FoundAreStored'
    BY <1>9 DEF StoreInv, PutsAreFresh, PutsAreApart, FoundAreStored, Dbs
  <2>2. KnownAreMade' /\ GlobalIsStored'
    BY <1>9 DEF StoreInv, KnownAreMade, GlobalIsStored, Dbs
  <2> QED
    BY <1>0, <1>9, <2>1, <2>2 DEF StoreInv
<1>10. CASE Age
  <2>1. UNCHANGED <<made, job, row, worker>>
    BY <1>10 DEF Age
  <2> QED
    BY <1>9, <2>1 DEF Known, StoreInv, TodoIsKnown
<1>11. ASSUME NEW w \in Workers, LoopStep(w) \/ Start(w) \/ Stop(w) \/ AbortRound(w) \/ Exit(w)
       PROVE  StoreInv'
  <2>1. UNCHANGED <<made, job>>
    BY <1>11 DEF LoopStep, BeginRound, Check, AppendLog, EndRound, LeaveLoop, Start, Stop,
                 AbortRound, Exit
  <2>2. \A d \in Dbs : Known(d)' = Known(d)
    <3>1. CASE Check(w)
      <4>1. CASE row' = row
        BY <4>1 DEF Known
      <4>2. CASE row' # row
        <5>1. PICK u \in Units : Archived(u)
          BY <1>0, <3>1, <4>2, CheckArchives
        <5> QED
          BY <1>0, <5>1, ArchivedRowIs
      <4> QED
        BY <4>1, <4>2
    <3>2. CASE ~Check(w)
      BY <1>11, <3>2 DEF Known, LoopStep, BeginRound, AppendLog, EndRound, LeaveLoop,
                         Start, Stop, AbortRound, Exit
    <3> QED
      BY <3>1, <3>2
  <2>3. TodoIsKnown'
    <3>1. \A v \in Workers \ {w} : worker'[v] = worker[v]
      BY <1>0, <1>11 DEF TypeOK, LoopStep, BeginRound, Check, AppendLog, EndRound, LeaveLoop,
                         Start, Stop, AbortRound, Exit
    <3>2. \A n \in DOMAIN worker'[w].todo : worker'[w].todo[n].unit \in Known("global")
      <4>0. worker[w] \in Worker /\ worker[w].todo \in Seq(Copy)
        BY <1>0 DEF TypeOK, Worker
      <4>1. CASE worker'[w].todo = worker[w].todo \/ worker'[w].todo = <<>>
        BY <1>0, <4>1 DEF TodoIsKnown
      <4>2. CASE BeginRound(w)
        <5>1. worker'[w].todo = Window
          BY <1>0, <4>0, <4>2 DEF BeginRound, TypeOK, Worker
        <5> QED
          BY <1>0, <5>1, WindowIsOfActive, KnownIsRow DEF Dbs
      <4>3. CASE Check(w)
        <5>1. worker'[w].todo = Tail(worker[w].todo) /\ worker[w].todo # <<>>
          BY <1>0, <4>0, <4>3 DEF Check, TypeOK, Worker
        <5>2. \A n \in DOMAIN worker'[w].todo :
                n + 1 \in DOMAIN worker[w].todo /\ worker'[w].todo[n] = worker[w].todo[n + 1]
          BY <4>0, <5>1
        <5> QED
          BY <1>0, <5>2 DEF TodoIsKnown
      <4>4. CASE ~BeginRound(w) /\ ~Check(w)
        <5>1. worker'[w].todo = worker[w].todo \/ worker'[w].todo = <<>>
          BY <1>0, <1>11, <4>0, <4>4 DEF TypeOK, Worker, LoopStep, AppendLog, EndRound,
                                    LeaveLoop, Start, Stop, AbortRound, Exit, Fresh
        <5> QED
          BY <4>1, <5>1
      <4> QED
        BY <4>2, <4>3, <4>4
    <3> QED
      BY <1>0, <2>2, <3>1, <3>2 DEF TodoIsKnown, Dbs
  <2> QED
    BY <1>9, <2>1, <2>2, <2>3
<1>12. CASE UNCHANGED vars
  <2>1. UNCHANGED <<made, job, row, worker>>
    BY <1>12 DEF vars
  <2> QED
    BY <1>9, <2>1 DEF Known, StoreInv, TodoIsKnown
<1> QED
  BY <1>1, <1>2, <1>4, <1>5, <1>6, <1>7, <1>8, <1>10, <1>11, <1>12 DEF Next, ClientStep

LEMMA StoreInvariant == Spec => []StoreInv
  BY StoreInit, StoreStep, PTL DEF Spec

\* The state stays of its type: a round that works from copies read earlier
\* never names a unit the database does not have.
THEOREM TypeCorrect == Spec => []TypeOK
<1>1. StoreInv => TypeOK
  BY DEF StoreInv
<1> QED
  BY StoreInvariant, <1>1, PTL

-----------------------------------------------------------------------------
(* What the reuse counts mean.                                              *)

Owes(u, c)  == job[c].op = "bump" /\ <<u, "run">> \in job[c].owed
Leads(u, c) == job[c].op = "bump" /\ <<u, "global">> \in job[c].owed
                                 /\ <<u, "run">> \notin job[c].owed
Owing(u) == {c \in Clients : Owes(u, c)}
Ahead(u) == {c \in Clients : Leads(u, c)}

GlobalCount(u) == IF u \in Known("global") THEN row["global"][u].reuse ELSE 0

\* A call that has counted a reuse in the run's database but not yet in the
\* global one accounts for one of the difference.
CountsLead ==
    \A u \in Known("run") : GlobalCount(u) + Cardinality(Ahead(u)) <= row["run"][u].reuse

UnstoredAreUnserved == \A u \in Units \ Known("run") : served[u] = 0

CountInv == CountsLead /\ ReuseIsServed /\ UnstoredAreUnserved

LEMMA OwedIs == \A u : Owed(u, "run") = Cardinality(Owing(u))
  BY DEF Owed, Owing, Owes

LEMMA ClientSets ==
    ASSUME NEW u
    PROVE  /\ IsFiniteSet(Owing(u)) /\ Cardinality(Owing(u)) \in Nat
           /\ IsFiniteSet(Ahead(u)) /\ Cardinality(Ahead(u)) \in Nat
           /\ Cardinality(Owing(u))' \in Nat /\ Cardinality(Ahead(u))' \in Nat
<1>1. /\ Owing(u) \subseteq Clients /\ Ahead(u) \subseteq Clients /\ IsFiniteSet(Clients)
      /\ Owing(u)' \subseteq Clients /\ Ahead(u)' \subseteq Clients
  BY MemoryAssumption DEF Owing, Ahead
<1> QED
  BY <1>1, FS_Subset, FS_CardinalityType

LEMMA Toggled ==
    ASSUME NEW S, NEW x, IsFiniteSet(S)
    PROVE  /\ Cardinality(S \cup {x}) = Cardinality(S) + (IF x \in S THEN 0 ELSE 1)
           /\ Cardinality(S \ {x}) = Cardinality(S) - (IF x \in S THEN 1 ELSE 0)
<1>1. Cardinality(S) \in Nat
  BY FS_CardinalityType
<1>2. Cardinality(S \cup {x}) = IF x \in S THEN Cardinality(S) ELSE Cardinality(S) + 1
  BY FS_AddElement
<1>3. Cardinality(S \ {x}) = IF x \in S THEN Cardinality(S) - 1 ELSE Cardinality(S)
  BY FS_RemoveElement
<1> QED
  BY <1>1, <1>2, <1>3

\* The call of one client changes the sets by that client at most.
LEMMA OneClient ==
    ASSUME NEW u, NEW c \in Clients, \A e \in Clients \ {c} : job'[e] = job[e]
    PROVE  /\ Cardinality(Owing(u))' = Cardinality(Owing(u))
                + (IF Owes(u, c)' THEN 1 ELSE 0) - (IF Owes(u, c) THEN 1 ELSE 0)
           /\ Cardinality(Ahead(u))' = Cardinality(Ahead(u))
                + (IF Leads(u, c)' THEN 1 ELSE 0) - (IF Leads(u, c) THEN 1 ELSE 0)
<1>1. /\ Owing(u)' = IF Owes(u, c)' THEN Owing(u) \cup {c} ELSE Owing(u) \ {c}
      /\ Ahead(u)' = IF Leads(u, c)' THEN Ahead(u) \cup {c} ELSE Ahead(u) \ {c}
  BY DEF Owing, Ahead, Owes, Leads
<1>2. (c \in Owing(u) <=> Owes(u, c)) /\ (c \in Ahead(u) <=> Leads(u, c))
  BY DEF Owing, Ahead
<1>3. /\ Cardinality(Owing(u) \cup {c}) = Cardinality(Owing(u)) + (IF Owes(u, c) THEN 0 ELSE 1)
      /\ Cardinality(Owing(u) \ {c}) = Cardinality(Owing(u)) - (IF Owes(u, c) THEN 1 ELSE 0)
      /\ Cardinality(Ahead(u) \cup {c}) = Cardinality(Ahead(u)) + (IF Leads(u, c) THEN 0 ELSE 1)
      /\ Cardinality(Ahead(u) \ {c}) = Cardinality(Ahead(u)) - (IF Leads(u, c) THEN 1 ELSE 0)
  BY <1>2, ClientSets, Toggled
<1> QED
  BY <1>1, <1>3, ClientSets

LEMMA SameJobs ==
    ASSUME UNCHANGED job
    PROVE  \A u : Owing(u)' = Owing(u) /\ Ahead(u)' = Ahead(u)
  BY DEF Owing, Ahead, Owes, Leads

LEMMA CountInit == Init => CountInv
<1> SUFFICES ASSUME Init PROVE CountInv
  OBVIOUS
<1>1. Known("run") = {} /\ \A u \in Units : served[u] = 0
  BY DEF Init, Known, Dbs
<1> QED
  BY <1>1 DEF CountInv, CountsLead, ReuseIsServed, UnstoredAreUnserved

\* CountInv, unit by unit.
UnitCounts(u) ==
    /\ u \in Known("run") =>
          /\ GlobalCount(u) + Cardinality(Ahead(u)) <= row["run"][u].reuse
          /\ row["run"][u].reuse + Cardinality(Owing(u)) <= served[u]
          /\ failures = 0 => row["run"][u].reuse + Cardinality(Owing(u)) = served[u]
    /\ u \notin Known("run") => served[u] = 0

LEMMA UnitByUnit ==
    /\ CountInv <=> \A u \in Units : UnitCounts(u)
    /\ (CountInv <=> \A u \in Units : UnitCounts(u))'
<1>1. CountInv <=> \A u \in Units : UnitCounts(u)
  BY OwedIs DEF CountInv, CountsLead, ReuseIsServed, UnstoredAreUnserved, UnitCounts, Known
<1>2. (CountInv <=> \A u \in Units : UnitCounts(u))'
  BY OwedIs DEF CountInv, CountsLead, ReuseIsServed, UnstoredAreUnserved, UnitCounts, Known,
                Owed, Owing, Owes
<1> QED
  BY <1>1, <1>2

LEMMA CountTypes ==
    ASSUME TypeOK, NEW u \in Units
    PROVE  /\ u \in Known("run") => row["run"][u].reuse \in Nat
           /\ u \in Known("global") => row["global"][u].reuse \in Nat
           /\ GlobalCount(u) \in Nat /\ served[u] \in Nat /\ failures \in Nat
           /\ Cardinality(Owing(u)) \in Nat /\ Cardinality(Ahead(u)) \in Nat
  BY KnownIsRow, ClientSets, MemoryAssumption DEF TypeOK, GlobalCount, Dbs

\* A step that leaves what the counts are made of as it is.
LEMMA CountFrame ==
    ASSUME NEW u, UnitCounts(u),
           (u \in Known("run"))' <=> u \in Known("run"),
           u \in Known("run") => row'["run"][u].reuse = row["run"][u].reuse,
           GlobalCount(u)' = GlobalCount(u),
           Cardinality(Ahead(u))' = Cardinality(Ahead(u)),
           Cardinality(Owing(u))' = Cardinality(Owing(u)),
           served'[u] = served[u],
           failures' = 0 => failures = 0
    PROVE  UnitCounts(u)'
  BY DEF UnitCounts

LEMMA CountStep == StoreInv /\ StoreInv' /\ CountInv /\ [Next]_vars => CountInv'
<1> SUFFICES ASSUME StoreInv, StoreInv', CountInv, [Next]_vars, NEW u \in Units
             PROVE  UnitCounts(u)'
  BY UnitByUnit
<1> USE DEF clientVars
<1>0. TypeOK /\ TodoIsKnown /\ UnitCounts(u)
  BY UnitByUnit DEF StoreInv
<1>1. ASSUME NEW c \in Clients, Compose(c) \/ BeginSearch(c) \/ ReadDb(c) PROVE UnitCounts(u)'
  <2>1. UNCHANGED <<row, served, failures>> /\ \A e \in Clients \ {c} : job'[e] = job[e]
    BY <1>0, <1>1 DEF Compose, BeginSearch, ReadDb, TypeOK
  <2>2. job[c].op # "bump" /\ job'[c].op # "bump"
    <3>1. CASE Compose(c) \/ BeginSearch(c)
      BY <1>0, <3>1 DEF Compose, BeginSearch, TypeOK, Idle
    <3>2. CASE ReadDb(c)
      <4>1. job[c] \in FindJobs /\ job[c].op = "find"
        BY <1>0, <3>2, JobKinds DEF ReadDb, TypeOK
      <4> QED
        BY <1>0, <3>2, <4>1 DEF ReadDb, TypeOK, FindJobs
    <3> QED
      BY <1>1, <3>1, <3>2
  <2>3. Owing(u)' = Owing(u) /\ Ahead(u)' = Ahead(u)
    BY <2>1, <2>2 DEF Owing, Ahead, Owes, Leads
  <2> QED
    BY <1>0, <2>1, <2>3, CountFrame DEF Known, GlobalCount
<1>2. ASSUME NEW c \in Clients, PutRow(c) PROVE UnitCounts(u)'
  <2>0. PICK d \in Dbs, v \in Units : Stored(d, v)
    BY <1>2, PutStores
  <2>1. /\ job[c] \in PutJobs
        /\ job' = [job EXCEPT ![c] = IF Tail(job[c].left) = <<>> THEN Idle
                                     ELSE [@ EXCEPT !.left = Tail(job[c].left)]]
    BY <1>2, PutStores
  <2>2. job[c].op # "bump" /\ job'[c].op # "bump"
    BY <1>0, <2>1 DEF TypeOK, PutJobs, Idle
  <2>3. UNCHANGED <<served, failures>> /\ \A e \in Clients \ {c} : job'[e] = job[e]
    BY <1>0, <1>2, <2>1 DEF PutRow, TypeOK
  <2>4. Owing(u)' = Owing(u) /\ Ahead(u)' = Ahead(u)
    BY <2>2, <2>3 DEF Owing, Ahead, Owes, Leads
  <2>5. /\ row'[d][v] = [status |-> "active", reuse |-> 0]
        /\ \A e \in Dbs, t \in Units : (e # d \/ t # v) => row'[e][t] = row[e][t]
        /\ Known(d)' = Known(d) \cup {v}
        /\ \A e \in Dbs \ {d} : Known(e)' = Known(e)
    BY <1>0, <2>0, StoredRow
  <2>6. v \notin Known(d)
    BY <2>0 DEF Stored
  <2>7. CASE u # v
    BY <1>0, <2>1, <2>3, <2>4, <2>5, <2>7, CountFrame DEF GlobalCount, Dbs
  <2>8. CASE u = v /\ d = "global"
    <3>1. GlobalCount(u) = 0 /\ GlobalCount(u)' = 0
      BY <2>5, <2>6, <2>8 DEF GlobalCount
    <3> QED
      BY <1>0, <2>1, <2>3, <2>4, <2>5, <2>8, <3>1, CountFrame DEF Dbs
  <2>9. CASE u = v /\ d = "run"
    <3>1. u \notin Known("run") /\ u \notin Known("global")
      BY <2>6, <2>9 DEF StoreInv, GlobalIsStored
    <3>2. u \notin Known("global")' /\ u \in Known("run")' /\ row'["run"][u].reuse = 0
      BY <2>5, <2>9, <3>1 DEF Dbs
    <3>3. Owing(u) = {} /\ Ahead(u) = {}
      BY <3>1 DEF StoreInv, FoundAreStored, Owing, Ahead, Owes, Leads
    <3>4. Cardinality(Owing(u))' = 0 /\ Cardinality(Ahead(u))' = 0
      BY <2>4, <3>3, FS_EmptySet
    <3>5. GlobalCount(u)' = 0 /\ served'[u] = 0
      BY <1>0, <2>3, <3>1, <3>2 DEF GlobalCount, UnitCounts
    <3> QED
      BY <3>2, <3>4, <3>5 DEF UnitCounts
  <2> QED
    BY <2>1, <2>7, <2>8, <2>9 DEF Dbs
<1>3. ASSUME NEW c \in Clients, Serve(c) PROVE UnitCounts(u)'
  <2>1. PICK H \in SUBSET job[c].found :
          /\ H \subseteq Units
          /\ CountedIn(job[c].dbs) \in {{"run"}, {"run", "global"}}
          /\ served' = [v \in Units |-> IF v \in H THEN served[v] + 1 ELSE served[v]]
          /\ job' = [job EXCEPT ![c] =
                       IF H = {} THEN Idle
                       ELSE [op |-> "bump", owed |-> H \X CountedIn(job[c].dbs)]]
    BY <1>0, <1>3, ServeOwes
  <2>2. /\ UNCHANGED <<row, failures>> /\ job[c].op = "find"
        /\ \A e \in Clients \ {c} : job'[e] = job[e]
    BY <1>0, <1>3, <2>1 DEF Serve, TypeOK
  <2>3. \/ H = {} /\ job'[c] = Idle
        \/ job'[c] = [op |-> "bump", owed |-> H \X CountedIn(job[c].dbs)]
    BY <1>0, <2>1 DEF TypeOK
  <2>4. (Owes(u, c)' <=> u \in H) /\ ~Leads(u, c)' /\ ~Owes(u, c) /\ ~Leads(u, c)
    BY <2>1, <2>2, <2>3 DEF Owes, Leads, Idle
  <2>5. /\ Cardinality(Owing(u))' = Cardinality(Owing(u)) + (IF u \in H THEN 1 ELSE 0) - 0
        /\ Cardinality(Ahead(u))' = Cardinality(Ahead(u)) + 0 - 0
    BY <2>2, <2>4, OneClient
  <2>6. served'[u] = IF u \in H THEN served[u] + 1 ELSE served[u]
    BY <2>1
  <2>7. u \in H => u \in Known("run")
    BY <2>1, <2>2 DEF StoreInv, FoundAreStored
  <2>8. Known("run")' = Known("run") /\ GlobalCount(u)' = GlobalCount(u)
    BY <2>2 DEF Known, GlobalCount
  <2>9. /\ Cardinality(Owing(u)) \in Nat /\ Cardinality(Ahead(u)) \in Nat /\ served[u] \in Nat
        /\ row'["run"][u] = row["run"][u] /\ failures' = failures
        /\ u \in Known("run") => row["run"][u].reuse \in Nat
    BY <1>0, <2>2, CountTypes
  <2>10. Cardinality(Ahead(u))' = Cardinality(Ahead(u))
    BY <2>5, <2>9
  <2>11. CASE u \in H
    BY <1>0, <2>5, <2>6, <2>7, <2>8, <2>9, <2>10, <2>11 DEF UnitCounts
  <2>12. CASE u \notin H
    <3>1. Cardinality(Owing(u))' = Cardinality(Owing(u))
      BY <2>5, <2>9, <2>12
    <3> QED
      BY <1>0, <2>6, <2>8, <2>9, <2>10, <2>12, <3>1 DEF UnitCounts
  <2> QED
    BY <2>11, <2>12
<1>4. ASSUME NEW c \in Clients, Bump(c) PROVE UnitCounts(u)'
  <2>1. PICK x \in job[c].owed :
          /\ x = <<x[1], x[2]>> /\ x[1] \in Units /\ x[2] \in Dbs
          /\ x[2] = "global" => <<x[1], "run">> \notin job[c].owed
          /\ \/ Counted(x[2], x[1])
             \/ x[1] \notin Known(x[2]) /\ row' = row
          /\ job' = [job EXCEPT ![c] = IF job[c].owed \ {x} = {} THEN Idle
                                       ELSE [op |-> "bump", owed |-> job[c].owed \ {x}]]
    BY <1>0, <1>4, BumpCounts
  <2>2. /\ UNCHANGED <<served, failures>> /\ job[c].op = "bump"
        /\ \A e \in Clients \ {c} : job'[e] = job[e]
    BY <1>0, <1>4, <2>1 DEF Bump, TypeOK
  <2>3. \/ job[c].owed \ {x} = {} /\ job'[c] = Idle
        \/ job'[c] = [op |-> "bump", owed |-> job[c].owed \ {x}]
    BY <1>0, <2>1 DEF TypeOK
  <2>4. /\ Owes(u, c)' <=> <<u, "run">> \in job[c].owed \ {x}
        /\ Leads(u, c)' <=> /\ <<u, "global">> \in job[c].owed \ {x}
                            /\ <<u, "run">> \notin job[c].owed \ {x}
    BY <2>3 DEF Owes, Leads, Idle
  <2>5. /\ Cardinality(Owing(u))' = Cardinality(Owing(u))
              + (IF Owes(u, c)' THEN 1 ELSE 0) - (IF Owes(u, c) THEN 1 ELSE 0)
        /\ Cardinality(Ahead(u))' = Cardinality(Ahead(u))
              + (IF Leads(u, c)' THEN 1 ELSE 0) - (IF Leads(u, c) THEN 1 ELSE 0)
    BY <2>2, OneClient
  <2>6. x[1] \in Known("run")
    BY <2>1, <2>2 DEF StoreInv, FoundAreStored
  <2>7. CASE x[1] # u
    <3>1. (Owes(u, c)' <=> Owes(u, c)) /\ (Leads(u, c)' <=> Leads(u, c))
      BY <2>1, <2>2, <2>4, <2>7 DEF Owes, Leads
    <3>2. Cardinality(Owing(u))' = Cardinality(Owing(u)) /\ Cardinality(Ahead(u))' = Cardinality(Ahead(u))
      BY <1>0, <2>5, <3>1, CountTypes
    <3>3. /\ \A d \in Dbs : row'[d][u] = row[d][u]
          /\ \A d \in Dbs : Known(d)' = Known(d)
      <4>1. CASE Counted(x[2], x[1])
        BY <1>0, <2>1, <2>7, <4>1, CountedRow
      <4>2. CASE row' = row
        BY <4>2 DEF Known
      <4> QED
        BY <2>1, <4>1, <4>2
    <3> QED
      BY <1>0, <2>2, <3>2, <3>3, CountFrame DEF GlobalCount, Dbs
  <2>8. CASE x[1] = u /\ x[2] = "run"
    <3>1. Counted("run", u)
      BY <2>1, <2>6, <2>8
    <3>2. /\ row'["run"][u].reuse = row["run"][u].reuse + 1
          /\ row'["global"][u] = row["global"][u]
          /\ \A d \in Dbs : Known(d)' = Known(d)
      BY <1>0, <3>1, CountedRow DEF Dbs
    <3>3. /\ ~Owes(u, c)' /\ Owes(u, c) /\ ~Leads(u, c)
      BY <2>1, <2>2, <2>4, <2>8 DEF Owes, Leads
    <3>4. GlobalCount(u)' = GlobalCount(u) /\ Known("run")' = Known("run") /\ u \in Known("run")
      BY <2>6, <2>8, <3>2 DEF GlobalCount, Dbs
    <3>5. /\ Cardinality(Owing(u))' = Cardinality(Owing(u)) - 1
          /\ Cardinality(Ahead(u))' <= Cardinality(Ahead(u)) + 1
          /\ Cardinality(Ahead(u))' \in Nat
      BY <1>0, <2>5, <3>3, CountTypes DEF StoreInv
    <3> QED
      BY <1>0, <2>2, <3>2, <3>4, <3>5, CountTypes DEF UnitCounts
  <2>9. CASE x[1] = u /\ x[2] = "global"
    <3>1. /\ Leads(u, c) /\ ~Leads(u, c)' /\ ~Owes(u, c) /\ ~Owes(u, c)'
      BY <2>1, <2>2, <2>4, <2>9 DEF Owes, Leads
    <3>2. /\ Cardinality(Owing(u))' = Cardinality(Owing(u))
          /\ Cardinality(Ahead(u))' = Cardinality(Ahead(u)) - 1
      BY <1>0, <2>5, <3>1, CountTypes
    <3>3. /\ row'["run"][u] = row["run"][u] /\ Known("run")' = Known("run")
          /\ GlobalCount(u)' = GlobalCount(u) + 1 \/ GlobalCount(u)' = GlobalCount(u)
      <4>1. CASE Counted("global", u)
        <5>1. /\ row'["global"][u].reuse = row["global"][u].reuse + 1
              /\ row'["run"][u] = row["run"][u]
              /\ \A d \in Dbs : Known(d)' = Known(d)
          BY <1>0, <4>1, CountedRow DEF Dbs
        <5> QED
          BY <4>1, <5>1 DEF GlobalCount, Counted, Dbs
      <4>2. CASE row' = row
        BY <4>2 DEF Known, GlobalCount
      <4> QED
        BY <2>1, <2>9, <4>1, <4>2
    <3> QED
      BY <1>0, <2>2, <3>2, <3>3, CountTypes DEF UnitCounts
  <2> QED
    BY <2>1, <2>7, <2>8, <2>9 DEF Dbs
<1>5. ASSUME NEW c \in Clients, Crash(c) PROVE UnitCounts(u)'
  <2>1. /\ UNCHANGED <<row, served>> /\ failures' = failures + 1 /\ job'[c] = Idle
        /\ \A e \in Clients \ {c} : job'[e] = job[e]
    BY <1>0, <1>5 DEF Crash, TypeOK
  <2>2. ~Owes(u, c)' /\ ~Leads(u, c)'
    BY <2>1 DEF Owes, Leads, Idle
  <2>3. /\ Cardinality(Owing(u))' <= Cardinality(Owing(u)) /\ Cardinality(Owing(u))' \in Nat
        /\ Cardinality(Ahead(u))' <= Cardinality(Ahead(u)) /\ Cardinality(Ahead(u))' \in Nat
    <3>1. /\ Cardinality(Owing(u))' = Cardinality(Owing(u)) + 0 - (IF Owes(u, c) THEN 1 ELSE 0)
          /\ Cardinality(Ahead(u))' = Cardinality(Ahead(u)) + 0 - (IF Leads(u, c) THEN 1 ELSE 0)
      BY <2>1, <2>2, OneClient
    <3>2. Cardinality(Owing(u))' \in Nat /\ Cardinality(Ahead(u))' \in Nat
      BY ClientSets
    <3> QED
      BY <1>0, <3>1, <3>2, CountTypes
  <2>4. Known("run")' = Known("run") /\ GlobalCount(u)' = GlobalCount(u)
    BY <2>1 DEF Known, GlobalCount
  <2> QED
    BY <1>0, <2>1, <2>3, <2>4, CountTypes DEF UnitCounts
<1>6. CASE Age
  <2>1. UNCHANGED <<row, served, failures, job>>
    BY <1>6 DEF Age
  <2> QED
    BY <1>0, <2>1, SameJobs, CountFrame DEF Known, GlobalCount
<1>7. ASSUME NEW w \in Workers, LoopStep(w) \/ Start(w) \/ Stop(w) \/ AbortRound(w) \/ Exit(w)
      PROVE  UnitCounts(u)'
  <2>1. UNCHANGED <<served, job>>
    BY <1>7 DEF LoopStep, BeginRound, Check, AppendLog, EndRound, LeaveLoop, Start, Stop,
                AbortRound, Exit
  <2>2. failures' = failures \/ failures' = failures + 1
    BY <1>7 DEF LoopStep, BeginRound, Check, AppendLog, EndRound, LeaveLoop, Start, Stop,
                AbortRound, Exit
  <2>3. /\ \A d \in Dbs : Known(d)' = Known(d)
        /\ row'["run"][u] = row["run"][u]
        /\ u \in Known("global") => row'["global"][u].reuse = row["global"][u].reuse
    <3>1. CASE row' = row
      BY <3>1 DEF Known
    <3>2. CASE row' # row
      <4>1. Check(w)
        BY <1>7, <3>2 DEF LoopStep, BeginRound, AppendLog, EndRound, LeaveLoop, Start, Stop,
                         AbortRound, Exit
      <4>2. PICK v \in Units : Archived(v)
        BY <1>0, <3>2, <4>1, CheckArchives
      <4> QED
        BY <1>0, <4>2, ArchivedRowIs DEF Dbs
    <3> QED
      BY <3>1, <3>2
  <2>4. failures' = 0 => failures = 0
    BY <1>0, <2>2, CountTypes
  <2> QED
    BY <1>0, <2>1, <2>3, <2>4, SameJobs, CountFrame DEF GlobalCount, Dbs
<1>8. CASE UNCHANGED vars
  <2>1. UNCHANGED <<row, served, failures, job>>
    BY <1>8 DEF vars
  <2> QED
    BY <1>0, <2>1, SameJobs, CountFrame DEF Known, GlobalCount
<1> QED
  BY <1>1, <1>2, <1>3, <1>4, <1>5, <1>6, <1>7, <1>8 DEF Next, ClientStep

LEMMA CountInvariant == Spec => []CountInv
  BY StoreInvariant, CountInit, CountStep, PTL DEF Spec

\* No reuse is lost or counted twice, however the searches interleave
\* (increment_reuse is one statement, made after the search has chosen).
THEOREM NoReuseIsLost == Spec => []ReuseIsServed
<1>1. CountInv => ReuseIsServed
  BY DEF CountInv
<1> QED
  BY CountInvariant, <1>1, PTL

\* The global database never claims more reuse than the run's.
THEOREM GlobalNeverLeads == Spec => []RunCountsLead
<1>1. StoreInv /\ CountInv => RunCountsLead
  <2> SUFFICES ASSUME StoreInv, CountInv, NEW u \in Known("global")
               PROVE  u \in Known("run") /\ row["global"][u].reuse <= row["run"][u].reuse
    BY DEF RunCountsLead
  <2>1. u \in Known("run") /\ u \in Units /\ TypeOK
    BY DEF StoreInv, GlobalIsStored, Known
  <2>2. GlobalCount(u) + Cardinality(Ahead(u)) <= row["run"][u].reuse
    BY <2>1 DEF CountInv, CountsLead
  <2>3. GlobalCount(u) = row["global"][u].reuse
    BY DEF GlobalCount
  <2> QED
    BY <2>1, <2>2, <2>3, CountTypes
<1> QED
  BY StoreInvariant, CountInvariant, <1>1, PTL

-----------------------------------------------------------------------------
(* The maintenance log.                                                     *)

Shelved == Known("global") \ Active("global")

OwedIsArchived ==
    \A w \in Workers :
        /\ worker[w].owes # None => worker[w].owes \in Shelved
        /\ worker[w].at # "round" => worker[w].owes = None

LogInv == OwedIsArchived /\ LogFollowsArchive

LEMMA LogInit == Init => LogInv
<1> SUFFICES ASSUME Init PROVE LogInv
  OBVIOUS
<1>1. /\ Known("global") = {} /\ log = {}
      /\ \A w \in Workers : worker[w].at = "new" /\ worker[w].owes = None
  BY DEF Init, Known, Fresh, Dbs
<1> QED
  BY <1>1 DEF LogInv, OwedIsArchived, LogFollowsArchive

LEMMA LogStep == StoreInv /\ LogInv /\ [Next]_vars => LogInv'
<1> SUFFICES ASSUME StoreInv, LogInv, [Next]_vars PROVE LogInv'
  OBVIOUS
<1> USE DEF clientVars
<1>0. /\ TypeOK /\ TodoIsKnown
      /\ OwedIsArchived /\ LogFollowsArchive /\ failures \in Nat
      /\ Shelved \subseteq Units /\ None \notin Units
  BY MemoryAssumption DEF StoreInv, LogInv, TypeOK, Shelved, Known, Units
<1>1. ASSUME UNCHANGED <<worker, log>>, Shelved' = Shelved, failures' = 0 => failures = 0
      PROVE  LogInv'
  BY <1>0, <1>1 DEF LogInv, OwedIsArchived, LogFollowsArchive, Shelved
<1>2. ASSUME NEW c \in Clients, PutRow(c) PROVE LogInv'
  <2>1. PICK d \in Dbs, u \in Units : Stored(d, u)
    BY <1>2, PutStores
  <2>2. u \notin Known(d)
    BY <2>1 DEF Stored
  <2>3. Shelved' = Shelved
    BY <1>0, <2>1, <2>2, StoredRow, KnownIsRow DEF Shelved, Dbs
  <2> QED
    BY <1>1, <1>2, <2>3 DEF PutRow
<1>3. ASSUME NEW c \in Clients, Bump(c) PROVE LogInv'
  <2>1. PICK d \in Dbs, u \in Units : Counted(d, u) \/ row' = row
    BY <1>0, <1>3, BumpCounts
  <2>2. Shelved' = Shelved
    <3>1. CASE Counted(d, u)
      BY <1>0, <2>1, <3>1, CountedRow DEF Shelved, Dbs
    <3>2. CASE row' = row
      BY <3>2 DEF Shelved, Known, Active
    <3> QED
      BY <2>1, <3>1, <3>2
  <2> QED
    BY <1>1, <1>3, <2>2 DEF Bump
<1>4. ASSUME NEW c \in Clients,
             Compose(c) \/ BeginSearch(c) \/ ReadDb(c) \/ Serve(c) \/ Crash(c)
      PROVE  LogInv'
  <2>1. /\ UNCHANGED <<row, worker, log>>
        /\ failures' = failures \/ failures' = failures + 1
    BY <1>4 DEF Compose, BeginSearch, ReadDb, Serve, Crash
  <2> QED
    BY <1>0, <1>1, <2>1 DEF Shelved, Known, Active
<1>5. CASE Age
  BY <1>1, <1>5 DEF Age, Shelved, Known, Active
<1>6. ASSUME NEW w \in Workers, Check(w) PROVE LogInv'
  <2> DEFINE copy == Head(worker[w].todo)
  <2>0. PICK u \in Units :
          /\ \/ Archivable(copy) /\ Archived(u)
             \/ ~Archivable(copy) /\ row' = row
          /\ worker' = [worker EXCEPT ![w].todo = Tail(@),
                                      ![w].owes = IF Archivable(copy) THEN u ELSE None]
    BY <1>0, <1>6, CheckArchives DEF Check
  <2>1. /\ worker[w].owes = None /\ worker[w].at = "round"
        /\ log' = log /\ failures' = failures
    BY <1>6 DEF Check
  <2>2. \A v \in Workers \ {w} : worker'[v] = worker[v]
    BY <1>0, <2>0 DEF TypeOK
  <2>3. /\ worker'[w].owes = IF Archivable(copy) THEN u ELSE None
        /\ worker'[w].at = "round"
    BY <1>0, <2>0, <2>1 DEF TypeOK, Worker
  <2> HIDE DEF copy
  <2>4. CASE Archivable(copy)
    <3>1. Archived(u)
      BY <2>0, <2>4
    <3>2. Shelved' = Shelved \cup {u}
      <4>1. u \in Known("global")
        BY <3>1 DEF Archived
      <4> QED
        BY <1>0, <3>1, <4>1, ArchivedRowIs, KnownIsRow DEF Shelved, Dbs
    <3>3. worker'[w].owes = u
      BY <2>3, <2>4
    <3>4. OwedIsArchived'
      BY <1>0, <2>2, <2>3, <3>2, <3>3 DEF OwedIsArchived
    <3>5. log' \subseteq Shelved'
      BY <1>0, <2>1, <3>2 DEF LogFollowsArchive, Shelved
    <3>6. ASSUME failures = 0
          PROVE  Shelved' \ log' = {worker'[v].owes : v \in Workers} \ (log' \cup {None})
      <4>1. Shelved \ log = {worker[v].owes : v \in Workers} \ (log \cup {None})
        BY <1>0, <3>6 DEF LogFollowsArchive, Shelved
      <4>2. {worker'[v].owes : v \in Workers} \cup {None}
              = {worker[v].owes : v \in Workers} \cup {u, None}
        BY <2>1, <2>2, <3>3
      <4> QED
        BY <1>0, <2>1, <3>2, <4>1, <4>2
    <3> QED
      BY <2>1, <3>4, <3>5, <3>6 DEF LogInv, LogFollowsArchive, Shelved
  <2>5. CASE ~Archivable(copy)
    <3>1. Shelved' = Shelved
      BY <2>0, <2>5 DEF Shelved, Known, Active
    <3>2. \A v \in Workers : worker'[v].owes = worker[v].owes /\ worker'[v].at = worker[v].at
      BY <2>1, <2>2, <2>3, <2>5
    <3>3. OwedIsArchived'
      BY <1>0, <3>1, <3>2 DEF OwedIsArchived
    <3>4. {worker'[v].owes : v \in Workers} = {worker[v].owes : v \in Workers}
      BY <3>2
    <3> QED
      BY <1>0, <2>1, <3>1, <3>3, <3>4 DEF LogInv, LogFollowsArchive, Shelved
  <2> QED
    BY <2>4, <2>5
<1>7. ASSUME NEW w \in Workers, AppendLog(w) PROVE LogInv'
  <2>1. /\ worker[w].owes # None /\ log' = log \cup {worker[w].owes} /\ failures' = failures
        /\ Shelved' = Shelved
        /\ \A v \in Workers \ {w} : worker'[v] = worker[v]
    BY <1>0, <1>7 DEF AppendLog, TypeOK, Shelved, Known, Active
  <2>2. worker'[w].owes = None
    BY <1>0, <1>7 DEF AppendLog, TypeOK, Worker
  <2>3. worker[w].owes \in Shelved
    BY <1>0, <2>1 DEF OwedIsArchived
  <2>4. OwedIsArchived'
    BY <1>0, <2>1, <2>2 DEF OwedIsArchived
  <2>5. log' \subseteq Shelved'
    BY <1>0, <2>1, <2>3 DEF LogFollowsArchive, Shelved
  <2>6. ASSUME failures = 0
        PROVE  Shelved' \ log' = {worker'[v].owes : v \in Workers} \ (log' \cup {None})
    <3>1. Shelved \ log = {worker[v].owes : v \in Workers} \ (log \cup {None})
      BY <1>0, <2>6 DEF LogFollowsArchive, Shelved
    <3>2. {worker'[v].owes : v \in Workers} \cup {None, worker[w].owes}
            = {worker[v].owes : v \in Workers} \cup {None}
      BY <2>1, <2>2
    <3> QED
      BY <2>1, <3>1, <3>2
  <2> QED
    BY <2>1, <2>4, <2>5, <2>6 DEF LogInv, LogFollowsArchive, Shelved
<1>8. ASSUME NEW w \in Workers,
             BeginRound(w) \/ EndRound(w) \/ LeaveLoop(w) \/ Start(w) \/ Stop(w)
               \/ AbortRound(w) \/ Exit(w)
      PROVE  LogInv'
  <2>1. /\ log' = log /\ Shelved' = Shelved
        /\ \A v \in Workers \ {w} : worker'[v] = worker[v]
    BY <1>0, <1>8 DEF BeginRound, EndRound, LeaveLoop, Start, Stop, AbortRound, Exit,
                      TypeOK, Shelved, Known, Active
  <2>2. /\ worker[w] \in Worker
        /\ worker[w].at # "round" => worker[w].owes = None
    BY <1>0 DEF TypeOK, OwedIsArchived
  <2>3. /\ \/ failures' = failures /\ worker'[w].owes = worker[w].owes
           \/ failures' = failures + 1 /\ worker'[w].owes = None
        /\ worker'[w].at # "round" => worker'[w].owes = None
    <3>1. CASE BeginRound(w)
      BY <1>0, <2>2, <3>1 DEF BeginRound, TypeOK, Worker
    <3>2. CASE EndRound(w)
      BY <1>0, <2>2, <3>2 DEF EndRound, TypeOK, Worker
    <3>3. CASE LeaveLoop(w)
      BY <1>0, <2>2, <3>3 DEF LeaveLoop, TypeOK, Worker
    <3>4. CASE Start(w)
      BY <1>0, <2>2, <3>4 DEF Start, TypeOK, Worker
    <3>5. CASE Stop(w)
      BY <1>0, <2>2, <3>5 DEF Stop, TypeOK, Worker
    <3>6. CASE AbortRound(w)
      BY <1>0, <2>2, <3>6 DEF AbortRound, TypeOK, Worker
    <3>7. CASE Exit(w)
      BY <1>0, <2>2, <3>7 DEF Exit, TypeOK, Worker, Fresh
    <3> QED
      BY <1>8, <3>1, <3>2, <3>3, <3>4, <3>5, <3>6, <3>7
  <2>4. OwedIsArchived'
    BY <1>0, <2>1, <2>3 DEF OwedIsArchived
  <2>5. ASSUME failures' = 0
        PROVE  failures = 0 /\ {worker'[v].owes : v \in Workers} = {worker[v].owes : v \in Workers}
    <3>1. failures' = failures /\ worker'[w].owes = worker[w].owes
      BY <1>0, <2>3, <2>5
    <3> QED
      BY <2>1, <2>5, <3>1
  <2> QED
    BY <1>0, <2>1, <2>4, <2>5 DEF LogInv, LogFollowsArchive, Shelved
<1>9. CASE UNCHANGED vars
  BY <1>1, <1>9 DEF vars, Shelved, Known, Active
<1> QED
  BY <1>2, <1>3, <1>4, <1>5, <1>6, <1>7, <1>8, <1>9 DEF Next, ClientStep, LoopStep

\* The maintenance log names archived units only, and misses only those whose
\* worker still owes the line or was cut short.
THEOREM LogIsBehind == Spec => []LogFollowsArchive
<1>1. LogInv => LogFollowsArchive
  BY DEF LogInv
<1> QED
  BY StoreInvariant, LogInit, LogStep, <1>1, PTL DEF Spec

-----------------------------------------------------------------------------
(* The shelf.                                                               *)

Shelves == [x \in Dbs \X Units |-> row[x[1]][x[2]]]

LEMMA ShelfInit == Init => Shelf!Init
  BY DEF Init, Shelf!Init

LEMMA ShelfStep == StoreInv /\ [Next]_vars => [Shelf!Next]_Shelves
<1> SUFFICES ASSUME StoreInv, [Next]_vars PROVE Shelf!Next \/ Shelves' = Shelves
  BY DEF Shelves
<1> USE DEF clientVars
<1>0. TypeOK /\ TodoIsKnown
  BY DEF StoreInv
<1>1. ASSUME row' = row PROVE Shelves' = Shelves
  BY <1>1 DEF Shelves
<1>2. ASSUME NEW d \in Dbs, NEW u \in Units, NEW r, row' = [row EXCEPT ![d][u] = r]
      PROVE  Shelves' = [Shelves EXCEPT ![<<d, u>>] = r]
  <2>1. \A e \in Dbs, v \in Units : row'[e][v] = IF e = d /\ v = u THEN r ELSE row[e][v]
    BY <1>0, <1>2 DEF TypeOK
  <2>2. \A x \in Dbs \X Units :
          row'[x[1]][x[2]] = IF x = <<d, u>> THEN r ELSE row[x[1]][x[2]]
    BY <2>1
  <2> QED
    BY <2>2 DEF Shelves
<1>3. \A d \in Dbs, u \in Units : <<d, u>> \in Dbs \X Units /\ Shelves[<<d, u>>] = row[d][u]
  BY DEF Shelves
<1>4. ASSUME NEW c \in Clients, PutRow(c) PROVE Shelf!Next
  <2>1. PICK d \in Dbs, u \in Units : Stored(d, u)
    BY <1>4, PutStores
  <2>2. /\ row[d][u] = None
        /\ Shelves' = [Shelves EXCEPT ![<<d, u>>] = [status |-> "active", reuse |-> 0]]
    BY <1>2, <2>1 DEF Stored, Known
  <2>3. Shelf!Store(<<d, u>>)
    BY <1>3, <2>2 DEF Shelf!Store, Shelf!On, Shelves
  <2> QED
    BY <1>3, <2>3 DEF Shelf!Next
<1>5. ASSUME NEW c \in Clients, Bump(c) PROVE Shelf!Next \/ Shelves' = Shelves
  <2>1. PICK d \in Dbs, u \in Units : Counted(d, u) \/ row' = row
    BY <1>0, <1>5, BumpCounts
  <2>2. CASE Counted(d, u)
    <3>1. row' = [row EXCEPT ![d][u] = Reused(row[d][u])] /\ row[d][u] # None
      BY <2>2 DEF Counted, Known
    <3>2. Shelves' = [Shelves EXCEPT ![<<d, u>>] = Reused(row[d][u])]
      BY <1>2, <3>1
    <3>3. Shelf!Reuse(<<d, u>>)
      BY <1>3, <3>1, <3>2 DEF Shelf!Reuse, Shelf!On, Shelves, Reused
    <3> QED
      BY <1>3, <3>3 DEF Shelf!Next
  <2> QED
    BY <1>1, <2>1, <2>2
<1>6. ASSUME NEW w \in Workers, Check(w) PROVE Shelf!Next \/ Shelves' = Shelves
  <2>1. PICK u \in Units : Archived(u) \/ row' = row
    BY <1>0, <1>6, CheckArchives
  <2>2. CASE Archived(u)
    <3> DEFINE r == [row["global"][u] EXCEPT !.status = "archived"]
    <3>1. row' = [row EXCEPT !["global"][u] = r] /\ row["global"][u] # None
      BY <2>2 DEF Archived, Known
    <3>2. "global" \in Dbs
      BY DEF Dbs
    <3>3. Shelves' = [Shelves EXCEPT ![<<"global", u>>] = r]
      <4> HIDE DEF r
      <4> QED
        BY <1>2, <3>1, <3>2
    <3>4. Shelf!Archive(<<"global", u>>)
      BY <1>3, <3>1, <3>2, <3>3 DEF Shelf!Archive, Shelf!On, Shelves
    <3> QED
      BY <1>3, <3>2, <3>4 DEF Shelf!Next
  <2> QED
    BY <1>1, <2>1, <2>2
<1>7. CASE UNCHANGED vars
  BY <1>1, <1>7 DEF vars
<1>8. ASSUME NEW c \in Clients,
             Compose(c) \/ BeginSearch(c) \/ ReadDb(c) \/ Serve(c) \/ Crash(c)
      PROVE  Shelves' = Shelves
  BY <1>1, <1>8 DEF Compose, BeginSearch, ReadDb, Serve, Crash
<1>9. CASE Age
  BY <1>1, <1>9 DEF Age
<1>10. ASSUME NEW w \in Workers,
              BeginRound(w) \/ AppendLog(w) \/ EndRound(w) \/ LeaveLoop(w) \/ Start(w)
                \/ Stop(w) \/ AbortRound(w) \/ Exit(w)
       PROVE  Shelves' = Shelves
  BY <1>1, <1>10 DEF BeginRound, AppendLog, EndRound, LeaveLoop, Start, Stop, AbortRound, Exit
<1> QED
  BY <1>4, <1>5, <1>6, <1>7, <1>8, <1>9, <1>10 DEF Next, ClientStep, LoopStep

\* Every copy of a unit lives as MemoryShelf says: stored once, its reuse
\* counted one by one by any number of clients, and never active again once
\* archived, although a round decides from a copy it read earlier.
THEOREM MemoryImplementsShelf == Spec => ImplementsShelf
  BY StoreInvariant, ShelfInit, ShelfStep, PTL DEF Spec, ImplementsShelf, Shelf!Spec, Shelves

-----------------------------------------------------------------------------
(* Ranking.                                                                 *)

\* The positions' shares lie in 25 % to 95 % and fall with the position.
LEMMA BaseFalls ==
    /\ \A p \in Nat : Base(p) \in Nat /\ 2500 <= Base(p) /\ Base(p) <= 9500
    /\ \A p, q \in Nat : p < q => Base(q) <= Base(p)
    /\ Base(0) = 9500
    /\ \A p \in Nat : p >= 6 => Base(p) < 4500
<1>1. /\ Decay[1] = 9500 /\ Decay[2] = 8360 /\ Decay[3] = 7356 /\ Decay[4] = 6473
      /\ Decay[5] = 5697 /\ Decay[6] = 5013 /\ Decay[7] = 4411 /\ Decay[8] = 3882
      /\ Decay[9] = 3416 /\ Decay[10] = 3006 /\ Decay[11] = 2645
  BY SMT DEF Decay
<1>2. ASSUME NEW p \in Nat
      PROVE  \/ (p = 0 /\ Base(p) = 9500) \/ (p = 1 /\ Base(p) = 8360)
             \/ (p = 2 /\ Base(p) = 7356) \/ (p = 3 /\ Base(p) = 6473)
             \/ (p = 4 /\ Base(p) = 5697) \/ (p = 5 /\ Base(p) = 5013)
             \/ (p = 6 /\ Base(p) = 4411) \/ (p = 7 /\ Base(p) = 3882)
             \/ (p = 8 /\ Base(p) = 3416) \/ (p = 9 /\ Base(p) = 3006)
             \/ (p = 10 /\ Base(p) = 2645) \/ (p > 10 /\ Base(p) = 2500)
  BY SMT, <1>1 DEF Base
<1> QED
  BY SMT, <1>2

\* The weights of the ranking by position add up to one: a score never
\* leaves 0 to 1, whatever the candidate.
THEOREM ScoresAreShares ==
    \A p \in Nat : \A c \in Candidate : FallbackScore(p, c) \in Nat /\ FallbackScore(p, c) <= One
<1> TAKE p \in Nat
<1> TAKE c \in Candidate
<1>1. Base(p) \in Nat /\ 2500 <= Base(p) /\ Base(p) <= 9500
  BY SMT, BaseFalls
<1>2. /\ c.tag \in Nat /\ c.validity \in Nat /\ c.reuse \in Nat /\ c.recency \in Nat
      /\ c.tag <= 10000 /\ c.validity <= 10000 /\ c.reuse <= 10000 /\ c.recency <= 10000
  BY SMT DEF Candidate, Share
<1> QED
  BY SMT, <1>1, <1>2 DEF FallbackScore, Least, One

\* Of two candidates that bring the same along, the later one in the order of the
\* full text never ranks before the earlier one.
THEOREM EarlierRanksHigher ==
    \A p, q \in Nat : \A c \in Candidate :
        p < q => FallbackScore(q, c) <= FallbackScore(p, c)
<1> TAKE p, q \in Nat
<1> TAKE c \in Candidate
<1>1. p < q => Base(q) <= Base(p)
  BY SMT, BaseFalls
<1>2. Base(p) \in Nat /\ Base(q) \in Nat /\ Base(p) <= 9500 /\ Base(q) <= 9500
  BY SMT, BaseFalls
<1>3. /\ c.tag \in Nat /\ c.validity \in Nat /\ c.reuse \in Nat /\ c.recency \in Nat
      /\ c.tag <= 10000 /\ c.validity <= 10000 /\ c.reuse <= 10000 /\ c.recency <= 10000
  BY SMT DEF Candidate, Share
<1> QED
  BY SMT, <1>1, <1>2, <1>3 DEF FallbackScore, Least, One

\* _should_reuse_memory_result is a filter on the full text first of all: no
\* candidate beyond the sixth is served, whatever its tags, use and age.
THEOREM DeepHitsAreFiltered ==
    \A query \in Queries : \A p \in Nat : \A c \in Candidate :
        p >= 6 => ~ServedByPosition(query, p, c)
<1> TAKE query \in Queries
<1> TAKE p \in Nat
<1> TAKE c \in Candidate
<1>1. p >= 6 => Base(p) < 4500 /\ Base(p) \in Int
  BY SMT, BaseFalls
<1>2. c.tag \in Nat
  BY SMT DEF Candidate, Share
<1>3. query = "general" \/ query = "tagged"
  BY SMT DEF Queries
<1> QED
  BY SMT, <1>1, <1>2, <1>3 DEF ServedByPosition, ShouldReuse, AtLeast

\* The best match of the full text, once ranked, passes the retriever's filter when
\* its run succeeded and its tags meet the query's, or the query has none: age and
\* use cannot hide it.
THEOREM BestMatchIsServed ==
    \A query \in Queries : \A c \in Candidate :
        c.validity = 10000 /\ (query = "general" \/ c.tag > 0)
            => ServedByPosition(query, 0, c)
<1> TAKE query \in Queries
<1> TAKE c \in Candidate
<1>1. Base(0) = 9500
  BY SMT, BaseFalls
<1>2. /\ c.tag \in Nat /\ c.validity \in Nat /\ c.reuse \in Nat /\ c.recency \in Nat
      /\ c.tag <= 10000 /\ c.validity <= 10000 /\ c.reuse <= 10000 /\ c.recency <= 10000
  BY SMT DEF Candidate, Share
<1>3. query = "general" \/ query = "tagged"
  BY SMT DEF Queries
<1>4. FallbackScore(0, c) = LET score == 55 * 9500 + 15 * c.tag + 10 * c.validity
                                         + 10 * c.reuse + 10 * c.recency
                            IN  IF c.reuse > 0 THEN Least(One, score + 5 * c.reuse) ELSE score
  BY SMT, <1>1 DEF FallbackScore
<1>5. c.validity = 10000 => FallbackScore(0, c) >= 622500 /\ FallbackScore(0, c) \in Int
  BY SMT, <1>2, <1>4 DEF Least, One
<1> QED
  BY SMT, <1>1, <1>2, <1>3, <1>5 DEF ServedByPosition, ShouldReuse, AtLeast

\* A tagged query does not get even the best match of the full text, however
\* valid, when the tags differ and it is unused and older than a few days: the
\* thresholds the retriever applies to it are above those _rank_by_fts_fallback
\* says it is calibrated for.
THEOREM OldStrangerIsFiltered ==
    \A p \in Nat : \A c \in Candidate :
        c.tag = 0 /\ c.reuse = 0 /\ c.recency < 7750 => ~ServedByPosition("tagged", p, c)
<1> TAKE p \in Nat
<1> TAKE c \in Candidate
<1>1. Base(p) \in Nat /\ 2500 <= Base(p) /\ Base(p) <= 9500
  BY SMT, BaseFalls
<1>2. /\ c.tag \in Nat /\ c.validity \in Nat /\ c.reuse \in Nat /\ c.recency \in Nat
      /\ c.tag <= 10000 /\ c.validity <= 10000 /\ c.reuse <= 10000 /\ c.recency <= 10000
  BY SMT DEF Candidate, Share
<1>3. c.tag = 0 /\ c.reuse = 0 /\ c.recency < 7750
        => FallbackScore(p, c) < 700000 /\ FallbackScore(p, c) \in Int
  BY SMT, <1>1, <1>2 DEF FallbackScore
<1>4. ServedByPosition("tagged", p, c) /\ c.tag = 0 => FallbackScore(p, c) >= 700000
  BY SMT, <1>2 DEF ServedByPosition, ShouldReuse, AtLeast
<1> QED
  BY SMT, <1>3, <1>4

\* With vectors, the best match of the full text gets no boost: a candidate that
\* brings exactly the same along and stands second ranks before it.
THEOREM SecondOutranksFirst ==
    \A semantic \in Int : \A c \in Candidate :
        RankScore(semantic, c) < One
            => HybridScore(0, semantic, c) < HybridScore(1, semantic, c)
<1> TAKE semantic \in Int
<1> TAKE c \in Candidate
<1>1. RankScore(semantic, c) \in Int
  BY SMT DEF Candidate, Share, RankScore
<1>2. Boost(0) = 0 /\ Boost(1) = 2550
  BY SMT DEF Boost, Boosts
<1> QED
  BY SMT, <1>1, <1>2 DEF HybridScore, Least, One
=============================================================================
