---------------------------- MODULE HybridMemory ----------------------------
(***************************************************************************)
(* agentmesh.memory: HybridMemoryStore over the run's database and the      *)
(* global one, as the runs (clients) that search, reuse and store memory    *)
(* units see it, and MemoryMaintenanceWorker, the background thread that    *)
(* archives old units of the global database.  Every statement is a         *)
(* transaction of its own, so clients and workers interleave between them.  *)
(***************************************************************************)
EXTENDS Naturals, FiniteSets, Sequences

CONSTANTS
    Clients,     \* runs, each with a HybridMemoryStore
    Workers,     \* maintenance workers, each in a process of its own
    N,           \* the memory units are 1 .. N, in the order of created_at
    None,
    Limit,       \* how many units a search may reuse (_memory_reuse_limit)
    MaxItems,    \* how many units a round looks at (maintenance_max_items)
    MaxSearches, \* bound on the searches
    MaxFailures  \* bound on the calls and rounds that are cut short

ASSUME MemoryAssumption ==
    /\ N \in Nat /\ Limit \in Nat /\ MaxItems \in Nat
    /\ MaxSearches \in Nat /\ MaxFailures \in Nat
    /\ IsFiniteSet(Clients)
    /\ None \notin 1 .. N

VARIABLES
    row,      \* memory_units of each database
    made,     \* units 1 .. made have been composed
    valued,   \* the units whose importance_score reaches keep_threshold
    age,      \* units 1 .. age are archive_after_days old
    job,      \* what the call in progress of each client has left to do
    worker,   \* the thread, the stop flag and the round of each worker
    log,      \* the units in memory_maintenance.jsonl
    served,   \* how often each unit was returned by a search (history)
    searches, \* the searches so far (history)
    failures  \* the calls and rounds cut short so far (history)

vars == <<row, made, valued, age, job, worker, log, served, searches, failures>>
clientVars == <<made, valued, job, served, searches>>

-----------------------------------------------------------------------------
Units == 1 .. N
Dbs == {"run", "global"}

\* The databases of a store, in the order it uses them: the global one is left
\* out when AGENTMESH_DISABLE_GLOBAL_MEMORY is set where the store is made.
Stores == {<<"run">>, <<"run", "global">>}

Row == [status : {"active", "archived"}, reuse : Nat]

ASSUME NoneIsNoRow == None \notin Row

Idle == [op |-> "idle"]
Job == {Idle}
  \cup [op : {"put"}, unit : Units, left : Stores \cup {<<"global">>}]
  \cup [op : {"find"}, dbs : Stores, left : Stores \cup {<<"global">>, <<>>},
        found : SUBSET Units]
  \cup [op : {"bump"}, owed : SUBSET (Units \X Dbs)]

\* A worker: its thread (or the round it makes without one), what active_units
\* returned to the round, the archived unit it has not logged yet.
Copy == [unit : Units, reuse : Nat]
Worker == [at : {"new", "waiting", "round", "ended"}, thread : BOOLEAN,
           stop : BOOLEAN, todo : Seq(Copy), owes : Units \cup {None}]
Fresh == [at |-> "new", thread |-> FALSE, stop |-> FALSE,
          todo |-> <<>>, owes |-> None]

TypeOK ==
    /\ row \in [Dbs -> [Units -> Row \cup {None}]]
    /\ made \in 0 .. N
    /\ valued \subseteq Units
    /\ age \in 0 .. made
    /\ job \in [Clients -> Job]
    /\ worker \in [Workers -> Worker]
    /\ log \subseteq Units
    /\ served \in [Units -> Nat]
    /\ searches \in 0 .. MaxSearches
    /\ failures \in 0 .. MaxFailures

Known(d)  == {u \in Units : row[d][u] # None}
Active(d) == {u \in Known(d) : row[d][u].status = "active"}

Init ==
    /\ row = [d \in Dbs |-> [u \in Units |-> None]]
    /\ made = 0
    /\ valued = {}
    /\ age = 0
    /\ job = [c \in Clients |-> Idle]
    /\ worker = [w \in Workers |-> Fresh]
    /\ log = {}
    /\ served = [u \in Units |-> 0]
    /\ searches = 0
    /\ failures = 0

-----------------------------------------------------------------------------
(* Clients: put, search and reuse.                                          *)

\* Faulty: the global database first.
GlobalFirst(scope) == IF Len(scope) = 2 THEN <<"global", "run">> ELSE scope

\* HybridMemoryStore.put: the run's database, then the global one.
PutOrder(scope) == scope

\* A run composes a unit that should_write accepts; whether it also goes to the
\* global database is up to should_write_long_term and the environment.
Compose(c) ==
    /\ job[c] = Idle
    /\ made < N
    /\ made' = made + 1
    /\ \E scope \in Stores :
          /\ job' = [job EXCEPT ![c] =
                       [op |-> "put", unit |-> made + 1, left |-> PutOrder(scope)]]
          /\ valued' \in IF Len(scope) = 2 THEN {valued, valued \cup {made + 1}}
                                           ELSE {valued}
    /\ UNCHANGED <<row, age, worker, log, served, searches, failures>>

PutRow(c) ==
    /\ job[c].op = "put"
    /\ LET d == Head(job[c].left)
           rest == Tail(job[c].left)
       IN  /\ row' = [row EXCEPT ![d][job[c].unit] = [status |-> "active", reuse |-> 0]]
           /\ job' = [job EXCEPT ![c] = IF rest = <<>> THEN Idle
                                        ELSE [@ EXCEPT !.left = rest]]
    /\ UNCHANGED <<made, valued, age, worker, log, served, searches, failures>>

BeginSearch(c) ==
    /\ job[c] = Idle
    /\ searches < MaxSearches
    /\ searches' = searches + 1
    /\ \E dbs \in Stores :
          job' = [job EXCEPT ![c] =
                    [op |-> "find", dbs |-> dbs, left |-> dbs, found |-> {}]]
    /\ UNCHANGED <<row, made, valued, age, worker, log, served, failures>>

\* _semantic_candidates: the active units, or every unit when none is active.
Candidates(d) == IF Active(d) # {} THEN Active(d) ELSE Known(d)

ReadDb(c) ==
    /\ job[c].op = "find"
    /\ job[c].left # <<>>
    /\ job' = [job EXCEPT ![c].found = @ \cup Candidates(Head(job[c].left)),
                          ![c].left = Tail(@)]
    /\ UNCHANGED <<row, made, valued, age, worker, log, served, searches, failures>>

\* Faulty: the global database, or else the run's.
LastDb(dbs) == {dbs[Len(dbs)]}

\* The databases in which a hit of a search of these is counted.
CountedIn(dbs) == {dbs[n] : n \in DOMAIN dbs}

\* Scores and thresholds choose at most Limit of the candidates, each once.
Serve(c) ==
    /\ job[c].op = "find"
    /\ job[c].left = <<>>
    /\ \E H \in SUBSET job[c].found :
          /\ Cardinality(H) <= Limit
          /\ served' = [u \in Units |-> IF u \in H THEN served[u] + 1 ELSE served[u]]
          /\ job' = [job EXCEPT ![c] =
                       IF H = {} THEN Idle
                       ELSE [op |-> "bump", owed |-> H \X CountedIn(job[c].dbs)]]
    /\ UNCHANGED <<row, made, valued, age, worker, log, searches, failures>>

\* Faulty: the count is set and not added to.
SetToOne(r) == [r EXCEPT !.reuse = 1]

Reused(r) == [r EXCEPT !.reuse = @ + 1]

\* increment_reuse of one hit after another: the run's database first; a
\* database that has no such row is left as it is.
Bump(c) ==
    /\ job[c].op = "bump"
    /\ \E x \in job[c].owed :
       LET u == x[1]  d == x[2]  rest == job[c].owed \ {x} IN
          /\ d = "global" => <<u, "run">> \notin job[c].owed
          /\ \A v \in Units \ {u} :
                <<v, "global">> \in job[c].owed => <<v, "run">> \in job[c].owed
          /\ row' = IF u \in Known(d) THEN [row EXCEPT ![d][u] = Reused(@)] ELSE row
          /\ job' = [job EXCEPT ![c] = IF rest = {} THEN Idle
                                       ELSE [op |-> "bump", owed |-> rest]]
    /\ UNCHANGED <<made, valued, age, worker, log, served, searches, failures>>

\* An exception, or the end of the process, between two statements.
Crash(c) ==
    /\ job[c] # Idle
    /\ failures < MaxFailures
    /\ job' = [job EXCEPT ![c] = Idle]
    /\ failures' = failures + 1
    /\ UNCHANGED <<row, made, valued, age, worker, log, served, searches>>

\* Fourteen days pass; no put takes as long.
Age ==
    /\ age < made
    /\ \A c \in Clients : job[c].op = "put" => job[c].unit # age + 1
    /\ age' = age + 1
    /\ UNCHANGED <<row, worker, log, failures, clientVars>>

-----------------------------------------------------------------------------
(* MemoryMaintenanceWorker.                                                 *)

\* The copies a round works from: the oldest active units.
Window ==
    LET First(u) == u \in Active("global")
                    /\ Cardinality({v \in Active("global") : v < u}) < MaxItems
        Count == Cardinality({u \in Units : First(u)})
        Nth(n) == CHOOSE u \in Units :
                    First(u) /\ Cardinality({v \in Active("global") : v < u}) = n - 1
    IN  [n \in 1 .. Count |-> [unit |-> Nth(n), reuse |-> row["global"][Nth(n)].reuse]]

\* start: once for each worker.
Start(w) ==
    /\ worker[w].at = "new"
    /\ worker' = [worker EXCEPT ![w].at = "waiting", ![w].thread = TRUE]
    /\ UNCHANGED <<row, age, log, failures, clientVars>>

\* Faulty: the loop does not look at the flag.
BeginAnyway(w) ==
    /\ worker[w].at \in {"new", "waiting"}
    /\ worker' = [worker EXCEPT ![w].at = "round", ![w].todo = Window]
    /\ UNCHANGED <<row, age, log, failures, clientVars>>

\* run_once: from the thread's loop, or from the archive command.
BeginRound(w) ==
    /\ \/ worker[w].at = "new"
       \/ worker[w].at = "waiting" /\ ~worker[w].stop
    /\ worker' = [worker EXCEPT ![w].at = "round", ![w].todo = Window]
    /\ UNCHANGED <<row, age, log, failures, clientVars>>

\* MemoryLifecyclePolicy.decide on the copy the round has read.
Archivable(copy) ==
    /\ copy.unit \notin valued
    /\ copy.unit <= age
    /\ copy.reuse = 0

\* Faulty: the stale copy is written back.
ArchivedCopy(r, copy) == [status |-> "archived", reuse |-> copy.reuse]

\* UPDATE ... SET status = 'archived': the row as it is now keeps its count.
ArchivedRow(r, copy) == [r EXCEPT !.status = "archived"]

Check(w) ==
    /\ worker[w].at = "round"
    /\ worker[w].owes = None
    /\ worker[w].todo # <<>>
    /\ LET copy == Head(worker[w].todo)
           u == copy.unit
       IN  /\ row' = IF Archivable(copy)
                     THEN [row EXCEPT !["global"][u] = ArchivedRow(@, copy)]
                     ELSE row
           /\ worker' = [worker EXCEPT ![w].todo = Tail(@),
                                       ![w].owes = IF Archivable(copy) THEN u ELSE None]
    /\ UNCHANGED <<age, log, failures, clientVars>>

AppendLog(w) ==
    /\ worker[w].owes # None
    /\ log' = log \cup {worker[w].owes}
    /\ worker' = [worker EXCEPT ![w].owes = None]
    /\ UNCHANGED <<row, age, failures, clientVars>>

\* Where the end of a round leads.
Onward(w) == IF worker[w].thread THEN "waiting" ELSE "new"

\* Faulty: the last line is not waited for.
EndUnlogged(w) ==
    /\ worker[w].at = "round"
    /\ worker[w].todo = <<>>
    /\ worker' = [worker EXCEPT ![w].at = Onward(w), ![w].owes = None]
    /\ UNCHANGED <<row, age, log, failures, clientVars>>

EndRound(w) ==
    /\ worker[w].at = "round"
    /\ worker[w].owes = None
    /\ worker[w].todo = <<>>
    /\ worker' = [worker EXCEPT ![w].at = Onward(w)]
    /\ UNCHANGED <<row, age, log, failures, clientVars>>

\* Faulty: the exception ends the loop.
AbortLoop(w) ==
    /\ worker[w].at = "round"
    /\ failures < MaxFailures
    /\ failures' = failures + 1
    /\ worker' = [worker EXCEPT ![w].at = "ended", ![w].todo = <<>>, ![w].owes = None]
    /\ UNCHANGED <<row, age, log, clientVars>>

\* run_once raises (the database is locked): the loop goes on, a command ends.
AbortRound(w) ==
    /\ worker[w].at = "round"
    /\ failures < MaxFailures
    /\ failures' = failures + 1
    /\ worker' = [worker EXCEPT ![w].at = Onward(w), ![w].todo = <<>>, ![w].owes = None]
    /\ UNCHANGED <<row, age, log, clientVars>>

\* stop does not wait for the round longer than a second.
Stop(w) ==
    /\ worker[w].thread
    /\ ~worker[w].stop
    /\ worker' = [worker EXCEPT ![w].stop = TRUE]
    /\ UNCHANGED <<row, age, log, failures, clientVars>>

LeaveLoop(w) ==
    /\ worker[w].at = "waiting"
    /\ worker[w].stop
    /\ worker' = [worker EXCEPT ![w].at = "ended"]
    /\ UNCHANGED <<row, age, log, failures, clientVars>>

\* The process ends; a daemon thread ends with it wherever it is.
Exit(w) ==
    /\ worker[w].thread
    /\ IF worker[w].at = "round"
       THEN failures < MaxFailures /\ failures' = failures + 1
       ELSE UNCHANGED failures
    /\ worker' = [worker EXCEPT ![w] = Fresh]
    /\ UNCHANGED <<row, age, log, clientVars>>

ClientStep(c) ==
    \/ Compose(c)
    \/ PutRow(c)
    \/ BeginSearch(c)
    \/ ReadDb(c)
    \/ Serve(c)
    \/ Bump(c)

LoopStep(w) ==
    \/ BeginRound(w)
    \/ Check(w)
    \/ AppendLog(w)
    \/ EndRound(w)
    \/ LeaveLoop(w)

Next ==
    \/ \E c \in Clients : ClientStep(c) \/ Crash(c)
    \/ Age
    \/ \E w \in Workers : LoopStep(w) \/ Start(w) \/ Stop(w) \/ AbortRound(w) \/ Exit(w)

Spec == Init /\ [][Next]_vars

\* The loop's thread runs, and its wait has a timeout.  A command's round is
\* not begun by itself.
FairSpec == Spec /\ \A w \in Workers : WF_vars(worker[w].thread /\ LoopStep(w))
-----------------------------------------------------------------------------
(* Properties.                                                              *)

Owed(u, d) == Cardinality({c \in Clients : job[c].op = "bump" /\ <<u, d>> \in job[c].owed})

\* No reuse is lost or counted twice, however searches interleave: a unit's
\* count in the run's database is the number of searches that returned it,
\* but for those that are still counting or were cut short.
ReuseIsServed ==
    \A u \in Known("run") :
        LET counted == row["run"][u].reuse + Owed(u, "run")
        IN  /\ counted <= served[u]
            /\ failures = 0 => counted = served[u]

\* The global database never claims more reuse than the run's (put and
\* increment_reuse go to the run's database first), and has no unit of its own.
RunCountsLead ==
    \A u \in Known("global") :
        /\ u \in Known("run")
        /\ row["global"][u].reuse <= row["run"][u].reuse

\* The maintenance log never runs ahead of the database, and misses only
\* archived units whose worker still owes the line or was cut short.
LogFollowsArchive ==
    LET archived == Known("global") \ Active("global")
    IN  /\ log \subseteq archived
        /\ failures = 0 => archived \ log = {worker[w].owes : w \in Workers} \ (log \cup {None})

\* Each copy of a unit in a database lives as MemoryShelf says.
Shelf == INSTANCE MemoryShelf WITH
    Copies <- Dbs \X Units,
    shelf <- [x \in Dbs \X Units |-> row[x[1]][x[2]]]

ImplementsShelf == Shelf!Spec

\* A thread that is stopped ends after the round it is in.
StopEnds ==
    \A w \in Workers : worker[w].stop ~> worker[w].at \in {"ended", "new"}

\* While some worker's loop goes on, a unit that is due and stays among the
\* MaxItems oldest active ones is archived, unless it is reused first.
Looping(w) == worker[w].thread /\ ~worker[w].stop

Due(u) ==
    /\ u \in Active("global") \ valued
    /\ u <= age
    /\ row["global"][u].reuse = 0
    /\ Cardinality({v \in Active("global") : v < u}) < MaxItems

DueAreArchived ==
    \A w \in Workers, u \in Units : <>[]Looping(w) => (Due(u) ~> ~Due(u))

-----------------------------------------------------------------------------
(* What the program says and does not do.                                   *)

\* What is archived as "old and never reused" was never reused (lifecycle.py).
ArchivedWereUnused ==
    [][\A u \in Active("global") :
         row'["global"][u].status = "archived" => row["global"][u].reuse = 0]_vars
=============================================================================
