----------------------------- MODULE WarmSandbox -----------------------------
(***************************************************************************)
(* agentmesh.sandbox.runner with its warm worker: the threads of a process  *)
(* that run code through SandboxRunner.run_python, the table of worker      *)
(* processes (one key), and each worker's lock, pipes and life.  Requests   *)
(* and answers are lines of a pipe and carry no number.                     *)
(***************************************************************************)
EXTENDS Naturals, FiniteSets, Sequences

CONSTANTS
    Callers,  \* threads
    Codes,    \* what the code of a request may do (see CodeKinds)
    MaxCalls, \* bound on the requests, which are 1 .. MaxCalls
    None

CodeKinds == {"plain",  \* ends, well or with an exception
              "exits",  \* ends the interpreter (SystemExit is no Exception)
              "stray"}  \* writes a line past the redirected stdout, then ends

\* How run_python stands with a request: still at it, or one of four ends.
Outcomes == {"open", "answer", "timeout", "fallback", "error"}

ASSUME SandboxAssumption ==
    /\ MaxCalls \in Nat
    /\ Codes \subseteq CodeKinds
    /\ None \notin 1 .. MaxCalls
    /\ None \notin Callers
    /\ None \notin CodeKinds \cup Outcomes

VARIABLES
    caller,  \* where each thread stands, its request, its worker
    code,    \* what the code of each request does
    outcome, \* how run_python ended for each request
    answer,  \* the request whose answer it gave, if it was an answer
    table,   \* _WARM_WORKERS[base_dir]
    worker,  \* the worker processes: life, lock, pipes, request in execution
    ran,     \* how often the code of each request was started (history)
    raced    \* two threads made a worker at once (history)

vars == <<caller, code, outcome, answer, table, worker, ran, raced>>

-----------------------------------------------------------------------------
Requests == 1 .. MaxCalls
Workers  == 1 .. MaxCalls   \* a call makes at most one

\* A line of a worker's stdout: the answer to a request, or something else.
Line == [answer : Requests \cup {None}]

TypeOK ==
    /\ caller \in [Callers -> [at : {"idle", "find", "make", "publish", "lock",
                                     "read", "drop", "fallback"},
                               req : Requests \cup {None},
                               worker : Workers \cup {None}]]
    /\ code \in [Requests -> CodeKinds \cup {None}]
    /\ outcome \in [Requests -> Outcomes \cup {None}]
    /\ answer \in [Requests -> Requests \cup {None}]
    /\ table \in Workers \cup {None}
    /\ worker \in [Workers -> [life : {"unborn", "alive", "dead"},
                               lock : Callers \cup {None},
                               stdin : Seq(Requests), stdout : Seq(Line),
                               runs : Requests \cup {None}, strayed : BOOLEAN]]
    /\ ran \in [Requests -> 0 .. 2]
    /\ raced \in BOOLEAN

Init ==
    /\ caller = [c \in Callers |-> [at |-> "idle", req |-> None, worker |-> None]]
    /\ code = [r \in Requests |-> None]
    /\ outcome = [r \in Requests |-> None]
    /\ answer = [r \in Requests |-> None]
    /\ table = None
    /\ worker = [k \in Workers |-> [life |-> "unborn", lock |-> None, stdin |-> <<>>,
                                    stdout |-> <<>>, runs |-> None, strayed |-> FALSE]]
    /\ ran = [r \in Requests |-> 0]
    /\ raced = FALSE

Goto(c, at) == caller' = [caller EXCEPT ![c].at = at]
Return(c, result, of) ==
    /\ outcome' = [outcome EXCEPT ![caller[c].req] = result]
    /\ answer' = [answer EXCEPT ![caller[c].req] = of]
    /\ caller' = [caller EXCEPT ![c] = [at |-> "idle", req |-> None, worker |-> None]]

-----------------------------------------------------------------------------
(* Threads.                                                                 *)

Call(c) ==
    /\ caller[c].at = "idle"
    /\ \E r \in Requests, kind \in Codes :
          /\ code[r] = None
          /\ \A q \in 1 .. r - 1 : code[q] # None
          /\ code' = [code EXCEPT ![r] = kind]
          /\ outcome' = [outcome EXCEPT ![r] = "open"]
          /\ caller' = [caller EXCEPT ![c] = [at |-> "find", req |-> r, worker |-> None]]
    /\ UNCHANGED <<answer, table, worker, ran, raced>>

\* _get_warm_worker: the table is read and, later, written, without a lock.
FindWorker(c) ==
    /\ caller[c].at = "find"
    /\ caller' = [caller EXCEPT ![c].at = IF table = None THEN "make" ELSE "lock",
                                ![c].worker = table]
    /\ UNCHANGED <<code, outcome, answer, table, worker, ran, raced>>

\* _WarmPythonWorker: the process is started ...
StartWorker(c) ==
    /\ caller[c].at = "make"
    /\ worker' = [worker EXCEPT ![caller[c].req].life = "alive"]
    /\ caller' = [caller EXCEPT ![c].at = "publish", ![c].worker = caller[c].req]
    /\ UNCHANGED <<code, outcome, answer, table, ran, raced>>

\* Faulty: the process is there when what comes after its start raises.
StartedButFails(c) ==
    /\ caller[c].at = "make"
    /\ worker' = [worker EXCEPT ![caller[c].req].life = "alive"]
    /\ Goto(c, "fallback")
    /\ UNCHANGED <<code, outcome, answer, table, ran, raced>>

\* ... or its directory cannot be made, or the process not be started.
StartFails(c) ==
    /\ caller[c].at = "make"
    /\ Goto(c, "fallback")
    /\ UNCHANGED <<code, outcome, answer, table, worker, ran, raced>>

\* The write of the table, over whatever another thread has written meanwhile.
PublishWorker(c) ==
    /\ caller[c].at = "publish"
    /\ table' = caller[c].worker
    /\ raced' = (raced \/ table # None)
    /\ Goto(c, "lock")
    /\ UNCHANGED <<code, outcome, answer, worker, ran>>

\* run: under the worker's lock, a request to a worker that has exited raises.
Send(c) ==
    /\ caller[c].at = "lock"
    /\ LET k == caller[c].worker
       IN  /\ worker[k].lock = None
           /\ IF worker[k].life = "alive"
              THEN /\ worker' = [worker EXCEPT ![k].lock = c,
                                               ![k].stdin = Append(@, caller[c].req)]
                   /\ Goto(c, "read")
              ELSE Goto(c, "fallback") /\ UNCHANGED worker
    /\ UNCHANGED <<code, outcome, answer, table, ran, raced>>

\* The first line is the answer; one that is not JSON raises.
Receive(c) ==
    /\ caller[c].at = "read"
    /\ LET k == caller[c].worker
           line == Head(worker[k].stdout)
       IN  /\ worker[k].stdout # <<>>
           /\ worker' = [worker EXCEPT ![k].stdout = Tail(@), ![k].lock = None]
           /\ IF line.answer # None
              THEN Return(c, "answer", line.answer)
              ELSE Goto(c, "fallback") /\ UNCHANGED <<outcome, answer>>
    /\ UNCHANGED <<code, table, ran, raced>>

\* Faulty: the lock is kept when the worker is found dead.
ReadEndLocked(c) ==
    /\ caller[c].at = "read"
    /\ LET k == caller[c].worker
       IN  worker[k].life = "dead" /\ worker[k].stdout = <<>>
    /\ Goto(c, "fallback")
    /\ UNCHANGED <<code, outcome, answer, table, worker, ran, raced>>

\* readline returns nothing when the worker has exited.
ReadEnd(c) ==
    /\ caller[c].at = "read"
    /\ LET k == caller[c].worker
       IN  /\ worker[k].life = "dead"
           /\ worker[k].stdout = <<>>
           /\ worker' = [worker EXCEPT ![k].lock = None]
    /\ Goto(c, "fallback")
    /\ UNCHANGED <<code, outcome, answer, table, ran, raced>>

\* Faulty: the process is left alone.
LeftAlone(w) == w

\* close: the process is terminated; what it has written can still be read.
Closed(w) == [w EXCEPT !.life = "dead", !.stdin = <<>>, !.runs = None]

\* Faulty: the worker is kept; the code is run once more.
TimeOutOnly(c) ==
    /\ caller[c].at = "read"
    /\ worker' = [worker EXCEPT ![caller[c].worker].lock = None]
    /\ Goto(c, "drop")
    /\ UNCHANGED <<code, outcome, answer, table, ran, raced>>

TimeOutAndRetry(c) ==
    /\ caller[c].at = "read"
    /\ LET k == caller[c].worker
       IN  worker' = [worker EXCEPT ![k] = [Closed(@) EXCEPT !.lock = None]]
    /\ Goto(c, "fallback")
    /\ UNCHANGED <<code, outcome, answer, table, ran, raced>>

\* The queue is empty after timeout_seconds: close, and let go of the lock.
TimeOut(c) ==
    /\ caller[c].at = "read"
    /\ LET k == caller[c].worker
       IN  worker' = [worker EXCEPT ![k] = [Closed(@) EXCEPT !.lock = None]]
    /\ Goto(c, "drop")
    /\ UNCHANGED <<code, outcome, answer, table, ran, raced>>

\* _drop_warm_worker takes and closes the worker that is in the table now.
DropWorker(c) ==
    /\ caller[c].at = "drop"
    /\ table' = None
    /\ worker' = IF table = None THEN worker
                 ELSE [worker EXCEPT ![table] = Closed(@)]
    /\ Return(c, "timeout", None)
    /\ UNCHANGED <<code, ran, raced>>

\* Faulty: the warm worker is tried again.
FallbackRetries(c) ==
    /\ caller[c].at = "fallback"
    /\ ran' = [ran EXCEPT ![caller[c].req] = @ + 1]
    /\ Goto(c, "find")
    /\ UNCHANGED <<code, outcome, answer, table, worker, raced>>

\* Any other failure: the code is run by the first of the next backends (the
\* Rust core's, when there is one, or subprocess) that can start a process for it.
Fallback(c) ==
    /\ caller[c].at = "fallback"
    /\ ran' = [ran EXCEPT ![caller[c].req] = @ + 1]
    /\ \E result \in {"fallback", "timeout"} : Return(c, result, None)
    /\ UNCHANGED <<code, table, worker, raced>>

\* None of them can: run_python raises.
NoBackend(c) ==
    /\ caller[c].at = "fallback"
    /\ Return(c, "error", None)
    /\ UNCHANGED <<code, table, worker, ran, raced>>

-----------------------------------------------------------------------------
(* Worker processes (worker.py).                                            *)

Execute(k) ==
    /\ worker[k].life = "alive"
    /\ worker[k].runs = None
    /\ worker[k].stdin # <<>>
    /\ worker' = [worker EXCEPT ![k].runs = Head(worker[k].stdin),
                                ![k].stdin = Tail(@)]
    /\ ran' = [ran EXCEPT ![Head(worker[k].stdin)] = @ + 1]
    /\ UNCHANGED <<caller, code, outcome, answer, table, raced>>

\* A line that is not the answer, from code that goes on running.
WriteStray(k) ==
    /\ worker[k].life = "alive"
    /\ worker[k].runs # None
    /\ code[worker[k].runs] = "stray"
    /\ ~worker[k].strayed
    /\ worker' = [worker EXCEPT ![k].stdout = Append(@, [answer |-> None]),
                                ![k].strayed = TRUE]
    /\ UNCHANGED <<caller, code, outcome, answer, table, ran, raced>>

Respond(k) ==
    /\ worker[k].life = "alive"
    /\ worker[k].runs # None
    /\ code[worker[k].runs] = "plain" \/ worker[k].strayed
    /\ worker' = [worker EXCEPT ![k].stdout = Append(@, [answer |-> worker[k].runs]),
                                ![k].runs = None, ![k].strayed = FALSE]
    /\ UNCHANGED <<caller, code, outcome, answer, table, ran, raced>>

\* SystemExit passes the worker's except clause.
ExitWorker(k) ==
    /\ worker[k].life = "alive"
    /\ worker[k].runs # None
    /\ code[worker[k].runs] = "exits"
    /\ worker' = [worker EXCEPT ![k].life = "dead", ![k].runs = None]
    /\ UNCHANGED <<caller, code, outcome, answer, table, ran, raced>>

CallerStep(c) ==
    \/ FindWorker(c)
    \/ StartWorker(c)
    \/ StartFails(c)
    \/ PublishWorker(c)
    \/ Send(c)
    \/ Receive(c)
    \/ ReadEnd(c)
    \/ TimeOut(c)
    \/ DropWorker(c)
    \/ Fallback(c)
    \/ NoBackend(c)

WorkerStep(k) ==
    \/ Execute(k)
    \/ WriteStray(k)
    \/ Respond(k)
    \/ ExitWorker(k)

Next ==
    \/ \E c \in Callers : Call(c) \/ CallerStep(c)
    \/ \E k \in Workers : WorkerStep(k)

Spec == Init /\ [][Next]_vars

\* Threads run; every wait of theirs has a timeout, but the one for the lock.
\* Nothing is assumed of the workers.
FairSpec == Spec /\ \A c \in Callers : WF_vars(CallerStep(c))
-----------------------------------------------------------------------------
(* Properties.                                                              *)

\* No code has written past its stdout so far.
Clean == \A r \in Requests : ran[r] > 0 => code[r] # "stray"

\* A request never gets the answer of another one, late as that may be and
\* whichever threads share the worker, unless some code wrote to its pipe.
AnswersAreOwn ==
    Clean => \A r \in Requests : outcome[r] = "answer" => answer[r] = r

\* When run_python has returned or raised, its code is not running, and will
\* not: a timeout leaves nothing behind.
DoneIsStopped ==
    Clean => \A r \in Requests : outcome[r] \notin {None, "open"} =>
        \A k \in Workers :
            /\ worker[k].runs # r
            /\ \A n \in DOMAIN worker[k].stdin : worker[k].stdin[n] # r

\* Code is run a second time by the next backend only if it ended its worker
\* itself, or two threads had made a worker at once and one of them dropped
\* the worker of the other.
RunsOnce ==
    Clean => \A r \in Requests : ran[r] > 1 => code[r] = "exits" \/ raced

\* A worker that no longer is in the table has ended, so that nothing is left
\* at exit but what the same race left, or a thread that is about to enter its
\* worker in the table.
OrphansNeedRace ==
    \A k \in Workers : worker[k].life = "alive" =>
        k = table \/ raced \/ \E c \in Callers : caller[c].at = "publish"
                                              /\ caller[c].worker = k

\* Every call of run_python returns or raises, whatever the workers do: nobody
\* leaves with the lock of a worker.  The calls are finitely many here; the lock
\* has no order, so with endless calls of others one may wait for it for ever.
CallsEnd == \A r \in Requests : outcome[r] = "open" ~> outcome[r] # "open"

=============================================================================
