--------------------------- MODULE WarmSandboxProofs ---------------------------
(***************************************************************************)
(* Theorems about WarmSandbox, for any threads, any number of requests and  *)
(* any code.                                                                *)
(***************************************************************************)
EXTENDS WarmSandbox, TLAPS

-----------------------------------------------------------------------------
(* The inductive invariant.                                                 *)

Inbox == Seq(Requests)
Outbox == Seq(Line)
Thread == [at : {"idle", "find", "make", "publish", "lock", "read", "drop", "fallback"},
           req : Requests \cup {None}, worker : Workers \cup {None}]
Process == [life : {"unborn", "alive", "dead"}, lock : Callers \cup {None},
            stdin : Inbox, stdout : Outbox, runs : Requests \cup {None},
            strayed : BOOLEAN]

\* TypeOK without the bound on how often code is run.
Typed ==
    /\ caller \in [Callers -> Thread]
    /\ code \in [Requests -> CodeKinds \cup {None}]
    /\ outcome \in [Requests -> Outcomes \cup {None}]
    /\ answer \in [Requests -> Requests \cup {None}]
    /\ table \in Workers \cup {None}
    /\ worker \in [Workers -> Process]
    /\ ran \in [Requests -> Nat]
    /\ raced \in BOOLEAN

\* Where a thread has a worker.
Working == {"publish", "lock", "read", "drop"}

\* A thread has an open request of its own, and a worker when it needs one.
Attends(c) ==
    LET t == caller[c]
    IN  /\ t.at # "idle" => t.req \in Requests /\ outcome[t.req] = "open" /\ code[t.req] # None
        /\ t.at \in Working => t.worker \in Workers /\ worker[t.worker].life # "unborn"
        /\ t.at \in {"find", "make"} => worker[t.req].life = "unborn"
        /\ t.at # "idle" =>
              \A d \in Callers \ {c} : caller[d].at # "idle" => caller[d].req # t.req
Threads == \A c \in Callers : Attends(c)

\* The worker a thread is about to enter in the table is known to nobody else.
Unshared(c) ==
    caller[c].at = "publish" =>
        /\ table # caller[c].worker
        /\ \A d \in Callers \ {c} :
              caller[d].at \in Working => caller[d].worker # caller[c].worker
Secrets == \A c \in Callers : Unshared(c)

Unasked == \A r \in Requests : code[r] = None => ran[r] = 0 /\ worker[r].life = "unborn"

\* The thread that reads from a worker is the one with its lock.
HasLock(c, k) == worker[k].lock = c <=> caller[c].at = "read" /\ caller[c].worker = k
Locks == \A c \in Callers, k \in Workers : HasLock(c, k)

Tended(k) ==
    LET w == worker[k]
    IN  /\ w.life = "unborn" =>
              w.lock = None /\ w.stdin = <<>> /\ w.stdout = <<>> /\ w.runs = None
        /\ w.runs # None => ran[w.runs] > 0
        /\ \A n \in 1 .. Len(w.stdin) : code[w.stdin[n]] # None
        /\ k = table => w.life # "unborn"
Processes == \A k \in Workers : Tended(k)

\* A live worker has, in its pipes or in execution, the one request of the
\* thread with its lock and nothing else.
Pipes(k) ==
    LET w == worker[k]
        Mine(r) == w.lock # None /\ r = caller[w.lock].req
    IN  /\ w.lock = None =>
              w.stdin = <<>> /\ w.runs = None /\ (w.life = "alive" => w.stdout = <<>>)
        /\ w.life # "alive" => w.stdin = <<>> /\ w.runs = None
        /\ w.stdin # <<>> =>
              /\ \E r \in Requests : Mine(r) /\ w.stdin = <<r>>
              /\ w.runs = None /\ w.stdout = <<>>
        /\ w.runs # None => Mine(w.runs) /\ w.stdout = <<>>
        /\ w.lock # None /\ w.stdout # <<>> =>
              \E r \in Requests : Mine(r) /\ w.stdout = <<[answer |-> r]>>

\* Whoever drops a worker has just ended it; unless two threads have made a
\* worker at once, it is still the one in the table.
Ended(c) ==
    caller[c].at = "drop" =>
        LET k == caller[c].worker
        IN  /\ worker[k].life = "dead" /\ worker[k].lock = None
            /\ raced \/ table = k
            /\ \A d \in Callers \ {c} : caller[d].at = "drop" => caller[d].worker # k
Drops == \A c \in Callers : Ended(c)

\* A worker somebody reads from is the one in the table, but for the same race.
Held == \A k \in Workers : worker[k].lock # None => k = table \/ raced

\* How often the code of a thread's request has been started.
Starts(c) ==
    LET t == caller[c]
        Excused == code[t.req] = "exits" \/ raced
    IN  /\ t.at \in {"find", "make", "publish", "lock"} => ran[t.req] = 0
        /\ t.at \in {"read", "drop", "fallback"} => ran[t.req] <= 1
        /\ t.at = "read" =>
              /\ worker[t.worker].stdin # <<>> => ran[t.req] = 0
              /\ worker[t.worker].life = "dead" /\ worker[t.worker].stdout = <<>> /\ ran[t.req] = 1 =>
                    Excused
        /\ t.at = "fallback" /\ ran[t.req] = 1 => Excused

AllPipes == \A k \in Workers : Pipes(k)
AllStarts == \A c \in Callers : Starts(c)

Inv ==
    /\ Typed /\ Threads /\ Secrets /\ Unasked /\ Locks /\ Processes /\ Drops
    /\ OrphansNeedRace /\ Held
    /\ Clean => AllPipes /\ AllStarts
    /\ AnswersAreOwn
    /\ RunsOnce
-----------------------------------------------------------------------------
(* Types.                                                                   *)

LEMMA NoneIsNone == None \notin Requests /\ None \notin Workers /\ None \notin Callers
  BY SandboxAssumption DEF Requests, Workers

LEMMA WorkersAreRequests == Workers = Requests
  BY DEF Workers, Requests

LEMMA NoneIsNoWord ==
    /\ None \notin {"plain", "exits", "stray"}
    /\ None \notin {"open", "answer", "timeout", "fallback", "error"}
  BY SandboxAssumption DEF CodeKinds, Outcomes

LEMMA Inboxes ==
    /\ <<>> \in Inbox
    /\ \A b \in Inbox, r \in Requests : Append(b, r) \in Inbox
    /\ \A b \in Inbox : b # <<>> => Head(b) \in Requests /\ Tail(b) \in Inbox
  BY DEF Inbox

LEMMA Outboxes ==
    /\ <<>> \in Outbox
    /\ \A b \in Outbox, r \in Requests \cup {None} : Append(b, [answer |-> r]) \in Outbox
    /\ \A b \in Outbox : b # <<>> =>
          Head(b).answer \in Requests \cup {None} /\ Tail(b) \in Outbox
<1>1. <<>> \in Outbox
  BY DEF Outbox
<1>2. ASSUME NEW b \in Outbox, NEW r \in Requests \cup {None}
      PROVE  Append(b, [answer |-> r]) \in Outbox
  <2>1. [answer |-> r] \in Line
    BY DEF Line
  <2> QED
    BY <2>1 DEF Outbox
<1>3. ASSUME NEW b \in Outbox, b # <<>>
      PROVE  Head(b).answer \in Requests \cup {None} /\ Tail(b) \in Outbox
  <2>1. Head(b) \in Line /\ Tail(b) \in Outbox
    BY <1>3 DEF Outbox
  <2> QED
    BY <2>1 DEF Line
<1> QED
  BY <1>1, <1>2, <1>3

\* What the actions make of a worker process is one again.
LEMMA ProcessParts ==
    ASSUME NEW w \in Process
    PROVE  /\ [w EXCEPT !.life = "alive"] \in Process
           /\ [w EXCEPT !.lock = None] \in Process
           /\ Closed(w) \in Process
           /\ [w EXCEPT !.life = "dead", !.runs = None] \in Process
           /\ \A c \in Callers, r \in Requests :
                 [w EXCEPT !.lock = c, !.stdin = Append(@, r)] \in Process
           /\ w.stdout # <<>> => [w EXCEPT !.stdout = Tail(@), !.lock = None] \in Process
           /\ w.stdin # <<>> =>
                 [w EXCEPT !.runs = Head(w.stdin), !.stdin = Tail(@)] \in Process
           /\ [w EXCEPT !.stdout = Append(@, [answer |-> None]), !.strayed = TRUE] \in Process
           /\ [w EXCEPT !.stdout = Append(@, [answer |-> w.runs]), !.runs = None,
                        !.strayed = FALSE] \in Process
<1> USE Inboxes, Outboxes DEF Process
<1>1. [w EXCEPT !.life = "alive"] \in Process
  OBVIOUS
<1>2. [w EXCEPT !.lock = None] \in Process
  OBVIOUS
<1>3. Closed(w) \in Process
  BY DEF Closed
<1>4. [w EXCEPT !.life = "dead", !.runs = None] \in Process
  OBVIOUS
<1>5. ASSUME NEW c \in Callers, NEW r \in Requests
      PROVE  [w EXCEPT !.lock = c, !.stdin = Append(@, r)] \in Process
  OBVIOUS
<1>6. ASSUME w.stdout # <<>> PROVE [w EXCEPT !.stdout = Tail(@), !.lock = None] \in Process
  BY <1>6
<1>7. ASSUME w.stdin # <<>>
      PROVE  [w EXCEPT !.runs = Head(w.stdin), !.stdin = Tail(@)] \in Process
  BY <1>7
<1>8. [w EXCEPT !.stdout = Append(@, [answer |-> None]), !.strayed = TRUE] \in Process
  OBVIOUS
<1>9. [w EXCEPT !.stdout = Append(@, [answer |-> w.runs]), !.runs = None,
                !.strayed = FALSE] \in Process
  OBVIOUS
<1> QED
  BY <1>1, <1>2, <1>3, <1>4, <1>5, <1>6, <1>7, <1>8, <1>9

LEMMA ThreadParts ==
    /\ [at |-> "idle", req |-> None, worker |-> None] \in Thread
    /\ \A r \in Requests : [at |-> "find", req |-> r, worker |-> None] \in Thread
    /\ \A t \in Thread :
          /\ \A at \in {"lock", "read", "drop", "fallback"} : [t EXCEPT !.at = at] \in Thread
          /\ \A at \in {"make", "publish", "lock"}, k \in Workers \cup {None} :
                [t EXCEPT !.at = at, !.worker = k] \in Thread
  BY DEF Thread

LEMMA TypeInit == Init => Typed
<1>1. [life |-> "unborn", lock |-> None, stdin |-> <<>>, stdout |-> <<>>, runs |-> None,
       strayed |-> FALSE] \in Process
  BY Inboxes, Outboxes DEF Process
<1>2. [at |-> "idle", req |-> None, worker |-> None] \in Thread
  BY DEF Thread
<1> SUFFICES ASSUME Init PROVE Typed
  OBVIOUS
<1>3. caller \in [Callers -> Thread]
  BY <1>2 DEF Init
<1>4. worker \in [Workers -> Process]
  BY <1>1 DEF Init
<1> QED
  BY <1>3, <1>4 DEF Init, Typed

LEMMA TypeStep == Typed /\ Threads /\ [Next]_vars => Typed'
<1> SUFFICES ASSUME Typed, Threads, [Next]_vars PROVE Typed'
  OBVIOUS
<1> USE NoneIsNone, WorkersAreRequests DEF Typed
<1>t. ASSUME NEW c \in Callers
      PROVE  caller[c] \in Thread /\ caller[c].req \in Requests \cup {None}
             /\ caller[c].worker \in Workers \cup {None}
  BY DEF Thread
<1>w. ASSUME NEW k \in Workers PROVE worker[k] \in Process
  OBVIOUS
<1>s. ASSUME NEW k \in Workers
      PROVE  worker[k].stdin \in Inbox /\ worker[k].stdout \in Outbox
             /\ worker[k].runs \in Requests \cup {None}
  BY <1>w DEF Process
<1>1. CASE UNCHANGED vars
  BY <1>1 DEF vars
<1>2. ASSUME NEW c \in Callers, Call(c) PROVE Typed'
  BY <1>2, SandboxAssumption DEF Call, Outcomes, Thread
<1>3. ASSUME NEW c \in Callers, FindWorker(c) PROVE Typed'
  <2>1. caller' \in [Callers -> Thread]
    <3>1. CASE table = None
      BY <1>3, <1>t, <3>1, ThreadParts DEF FindWorker
    <3>2. CASE table # None
      BY <1>3, <1>t, <3>2, ThreadParts DEF FindWorker
    <3> QED
      BY <3>1, <3>2
  <2> QED
    BY <1>3, <2>1 DEF FindWorker
<1>4. ASSUME NEW c \in Callers, StartWorker(c) PROVE Typed'
  <2>1. caller[c].req \in Workers
    BY <1>4 DEF StartWorker, Threads, Attends, Working
  <2>2. [worker[caller[c].req] EXCEPT !.life = "alive"] \in Process
    BY <2>1, <1>w, ProcessParts
  <2>3. caller' \in [Callers -> Thread]
    BY <1>4, <1>t, <2>1, ThreadParts DEF StartWorker
  <2>4. worker' \in [Workers -> Process]
    BY <1>4, <2>2 DEF StartWorker
  <2> QED
    BY <1>4, <2>3, <2>4 DEF StartWorker
<1>5. ASSUME NEW c \in Callers, Send(c) PROVE Typed'
  <2>1. caller[c].worker \in Workers /\ caller[c].req \in Requests
    BY <1>5 DEF Send, Threads, Attends, Working
  <2>2. [worker[caller[c].worker] EXCEPT !.lock = c, !.stdin = Append(@, caller[c].req)] \in Process
    BY <2>1, <1>w, ProcessParts
  <2>3. worker' \in [Workers -> Process]
    BY <1>5, <2>1, <2>2 DEF Send
  <2>4. caller' \in [Callers -> Thread]
    <3>1. \E at \in {"read", "fallback"} : caller' = [caller EXCEPT ![c].at = at]
      BY <1>5, Zenon DEF Send, Goto
    <3> QED
      BY <3>1 DEF Thread
  <2> QED
    BY <1>5, <2>3, <2>4 DEF Send
<1>6. ASSUME NEW c \in Callers, Receive(c) PROVE Typed'
  <2>1. caller[c].worker \in Workers /\ caller[c].req \in Requests
    BY <1>6 DEF Receive, Threads, Attends, Working
  <2>2. worker[caller[c].worker].stdout # <<>>
    BY <1>6 DEF Receive
  <2>3. [worker[caller[c].worker] EXCEPT !.stdout = Tail(@), !.lock = None] \in Process
    BY <2>1, <2>2, <1>w, ProcessParts
  <2>4. Head(worker[caller[c].worker].stdout).answer \in Requests \cup {None}
    BY <2>1, <2>2, <1>s, Outboxes
  <2>5. worker' \in [Workers -> Process]
    BY <1>6, <2>3 DEF Receive
  <2>6. CASE Head(worker[caller[c].worker].stdout).answer = None
    <3>1. caller' \in [Callers -> Thread]
      <4>1. caller' = [caller EXCEPT ![c].at = "fallback"]
        BY <1>6, <2>6, Zenon DEF Receive, Goto
      <4> QED
        BY <4>1 DEF Thread
    <3> QED
      BY <1>6, <2>5, <2>6, <3>1 DEF Receive
  <2>7. CASE Head(worker[caller[c].worker].stdout).answer # None
    <3>1. caller' \in [Callers -> Thread]
      <4>1. caller' = [caller EXCEPT ![c] = [at |-> "idle", req |-> None, worker |-> None]]
        BY <1>6, <2>7, Zenon DEF Receive, Return
      <4> QED
        BY <4>1 DEF Thread
    <3>2. /\ outcome' = [outcome EXCEPT ![caller[c].req] = "answer"]
          /\ answer' = [answer EXCEPT ![caller[c].req] =
                                      Head(worker[caller[c].worker].stdout).answer]
          /\ UNCHANGED <<code, table, ran, raced>>
      BY <1>6, <2>7, Zenon DEF Receive, Return
    <3> QED
      BY <2>1, <2>4, <2>5, <3>1, <3>2 DEF Outcomes
  <2> QED
    BY <2>6, <2>7
<1>7. ASSUME NEW c \in Callers, ReadEnd(c) PROVE Typed'
  <2>1. caller[c].worker \in Workers
    BY <1>7 DEF ReadEnd, Threads, Attends, Working
  <2>2. [worker[caller[c].worker] EXCEPT !.lock = None] \in Process
    BY <2>1, <1>w, ProcessParts
  <2> QED
    BY <1>7, <2>1, <2>2, <1>t, ThreadParts DEF ReadEnd, Goto
<1>8. ASSUME NEW c \in Callers, TimeOut(c) PROVE Typed'
  <2>1. caller[c].worker \in Workers
    BY <1>8 DEF TimeOut, Threads, Attends, Working
  <2>2. [Closed(worker[caller[c].worker]) EXCEPT !.lock = None] \in Process
    BY <2>1, <1>w, ProcessParts
  <2> QED
    BY <1>8, <2>1, <2>2, <1>t, ThreadParts DEF TimeOut, Goto
<1>9. ASSUME NEW c \in Callers, DropWorker(c) PROVE Typed'
  <2>1. caller[c].req \in Requests
    BY <1>9 DEF DropWorker, Threads, Attends, Working
  <2>2. table # None => Closed(worker[table]) \in Process
    BY <1>w, ProcessParts
  <2> QED
    BY <1>9, <2>1, <2>2, ThreadParts DEF DropWorker, Return, Outcomes
<1>10. ASSUME NEW c \in Callers, Fallback(c) PROVE Typed'
  <2>1. caller[c].req \in Requests
    BY <1>10 DEF Fallback, Threads, Attends, Working
  <2>2. caller' \in [Callers -> Thread]
    BY <1>10 DEF Fallback, Return, Thread
  <2> QED
    BY <1>10, <2>1, <2>2 DEF Fallback, Return, Outcomes
<1>11. ASSUME NEW k \in Workers, Execute(k) PROVE Typed'
  <2>1. [worker[k] EXCEPT !.runs = Head(worker[k].stdin), !.stdin = Tail(@)] \in Process
    BY <1>11, <1>w, ProcessParts DEF Execute
  <2>2. Head(worker[k].stdin) \in Requests
    BY <1>11, <1>s, Inboxes DEF Execute
  <2> QED
    BY <1>11, <2>1, <2>2 DEF Execute
<1>12. ASSUME NEW k \in Workers, WriteStray(k) PROVE Typed'
  <2>1. [worker[k] EXCEPT !.stdout = Append(@, [answer |-> None]), !.strayed = TRUE] \in Process
    BY <1>w, ProcessParts
  <2> QED
    BY <1>12, <2>1 DEF WriteStray
<1>13. ASSUME NEW k \in Workers, Respond(k) PROVE Typed'
  <2>1. [worker[k] EXCEPT !.stdout = Append(@, [answer |-> worker[k].runs]), !.runs = None,
                          !.strayed = FALSE] \in Process
    BY <1>w, ProcessParts
  <2> QED
    BY <1>13, <2>1 DEF Respond
<1>14. ASSUME NEW k \in Workers, ExitWorker(k) PROVE Typed'
  <2>1. [worker[k] EXCEPT !.life = "dead", !.runs = None] \in Process
    BY <1>w, ProcessParts
  <2> QED
    BY <1>14, <2>1 DEF ExitWorker
<1>15. ASSUME NEW c \in Callers, StartFails(c) PROVE Typed'
  <2>1. caller' \in [Callers -> Thread]
    BY <1>15, <1>t, ThreadParts DEF StartFails, Goto
  <2> QED
    BY <1>15, <2>1 DEF StartFails
<1>16. ASSUME NEW c \in Callers, PublishWorker(c) PROVE Typed'
  <2>1. caller[c].worker \in Workers
    BY <1>16 DEF PublishWorker, Threads, Attends, Working
  <2>2. caller' \in [Callers -> Thread]
    BY <1>16, <1>t, ThreadParts DEF PublishWorker, Goto
  <2>3. raced' \in BOOLEAN
    BY <1>16, Zenon DEF PublishWorker
  <2> QED
    BY <1>16, <2>1, <2>2, <2>3 DEF PublishWorker
<1>17. ASSUME NEW c \in Callers, NoBackend(c) PROVE Typed'
  <2>1. caller[c].req \in Requests
    BY <1>17 DEF NoBackend, Threads, Attends, Working
  <2>2. caller' \in [Callers -> Thread]
    BY <1>17 DEF NoBackend, Return, Thread
  <2> QED
    BY <1>17, <2>1, <2>2 DEF NoBackend, Return, Outcomes
<1> QED
  BY <1>1, <1>2, <1>3, <1>4, <1>5, <1>6, <1>7, <1>8, <1>9, <1>10, <1>11, <1>12, <1>13,
     <1>14, <1>15, <1>16, <1>17 DEF Next, CallerStep, WorkerStep

-----------------------------------------------------------------------------
(* What the actions do, thread by thread and process by process.            *)

Moved(c, at, k) ==
    /\ caller'[c].at = at /\ caller'[c].req = caller[c].req /\ caller'[c].worker = k
    /\ \A d \in Callers \ {c} : caller'[d] = caller[d]
    /\ UNCHANGED <<code, outcome, answer>>

Returned(c, result, of) ==
    /\ caller'[c].at = "idle"
    /\ \A d \in Callers \ {c} : caller'[d] = caller[d]
    /\ outcome'[caller[c].req] = result
    /\ answer'[caller[c].req] = of
    /\ \A r \in Requests \ {caller[c].req} : outcome'[r] = outcome[r] /\ answer'[r] = answer[r]
    /\ UNCHANGED code

Becomes(k, life, lock, stdin, stdout, runs) ==
    /\ worker'[k].life = life /\ worker'[k].lock = lock /\ worker'[k].stdin = stdin
    /\ worker'[k].stdout = stdout /\ worker'[k].runs = runs
    /\ \A j \in Workers \ {k} : worker'[j] = worker[j]

Started(r) ==
    /\ ran'[r] = ran[r] + 1
    /\ \A q \in Requests \ {r} : ran'[q] = ran[q]

LEMMA MovedTo ==
    ASSUME Typed, NEW c \in Callers, NEW at, Goto(c, at), UNCHANGED <<code, outcome, answer>>
    PROVE  Moved(c, at, caller[c].worker)
  BY DEF Typed, Thread, Goto, Moved

LEMMA ReturnedWith ==
    ASSUME Typed, NEW c \in Callers, NEW result, NEW of, caller[c].req \in Requests,
           Return(c, result, of), UNCHANGED code
    PROVE  Returned(c, result, of)
  BY DEF Typed, Thread, Return, Returned

LEMMA RanOnceMore ==
    ASSUME Typed, NEW r \in Requests, ran' = [ran EXCEPT ![r] = @ + 1]
    PROVE  Started(r)
  BY DEF Typed, Started

LEMMA CallDoes ==
    ASSUME Typed, NEW c \in Callers, Call(c)
    PROVE  /\ caller[c].at = "idle"
           /\ \E r \in Requests :
                 /\ code[r] = None /\ code'[r] \in CodeKinds
                 /\ outcome'[r] = "open"
                 /\ \A q \in Requests \ {r} : code'[q] = code[q] /\ outcome'[q] = outcome[q]
                 /\ caller'[c].at = "find" /\ caller'[c].req = r
                 /\ \A d \in Callers \ {c} : caller'[d] = caller[d]
           /\ UNCHANGED <<answer, table, worker, ran, raced>>
<1>1. PICK r \in Requests, kind \in Codes :
          /\ code[r] = None
          /\ code' = [code EXCEPT ![r] = kind]
          /\ outcome' = [outcome EXCEPT ![r] = "open"]
          /\ caller' = [caller EXCEPT ![c] = [at |-> "find", req |-> r, worker |-> None]]
  BY Zenon DEF Call
<1>2. caller[c].at = "idle" /\ UNCHANGED <<answer, table, worker, ran, raced>>
  BY Zenon DEF Call
<1>3. kind \in CodeKinds
  BY SandboxAssumption
<1> QED
  BY <1>1, <1>2, <1>3 DEF Typed

LEMMA FindDoes ==
    ASSUME Typed, NEW c \in Callers, FindWorker(c)
    PROVE  /\ caller[c].at = "find"
           /\ Moved(c, IF table = None THEN "make" ELSE "lock", table)
           /\ UNCHANGED <<table, worker, ran, raced>>
  BY DEF Typed, Thread, FindWorker, Moved

LEMMA StartDoes ==
    ASSUME Typed, Threads, NEW c \in Callers, StartWorker(c)
    PROVE  LET k == caller[c].req
           IN  /\ k \in Workers
               /\ caller[c].at = "make" /\ worker[k].life = "unborn"
               /\ Becomes(k, "alive", worker[k].lock, worker[k].stdin, worker[k].stdout,
                          worker[k].runs)
               /\ Moved(c, "publish", k)
               /\ UNCHANGED <<table, ran, raced>>
<1>1. /\ caller[c].req \in Workers /\ caller[c].at = "make"
      /\ worker[caller[c].req].life = "unborn"
  BY WorkersAreRequests DEF Threads, Attends, Working, StartWorker
<1>2. /\ worker' = [worker EXCEPT ![caller[c].req].life = "alive"]
      /\ caller' = [caller EXCEPT ![c].at = "publish", ![c].worker = caller[c].req]
      /\ UNCHANGED <<code, outcome, answer, table, ran, raced>>
  BY Zenon DEF StartWorker
<1>3. Becomes(caller[c].req, "alive", worker[caller[c].req].lock, worker[caller[c].req].stdin,
              worker[caller[c].req].stdout, worker[caller[c].req].runs)
  BY <1>1, <1>2 DEF Typed, Process, Becomes
<1>4. Moved(c, "publish", caller[c].req)
  BY <1>2 DEF Typed, Thread, Moved
<1> QED
  BY <1>1, <1>2, <1>3, <1>4

LEMMA StartFailsDoes ==
    ASSUME Typed, NEW c \in Callers, StartFails(c)
    PROVE  /\ caller[c].at = "make"
           /\ Moved(c, "fallback", caller[c].worker)
           /\ UNCHANGED <<table, worker, ran, raced>>
  BY MovedTo DEF StartFails

LEMMA PublishDoes ==
    ASSUME Typed, Threads, NEW c \in Callers, PublishWorker(c)
    PROVE  /\ caller[c].at = "publish" /\ caller[c].worker \in Workers
           /\ table' = caller[c].worker
           /\ raced \/ table # None => raced'
           /\ Moved(c, "lock", caller[c].worker)
           /\ UNCHANGED <<worker, ran>>
<1>1. /\ caller[c].at = "publish" /\ table' = caller[c].worker
      /\ raced' = (raced \/ table # None)
      /\ Goto(c, "lock") /\ UNCHANGED <<code, outcome, answer, worker, ran>>
  BY Zenon DEF PublishWorker
<1>2. Moved(c, "lock", caller[c].worker)
  BY <1>1, MovedTo
<1>3. caller[c].worker \in Workers
  BY <1>1 DEF Threads, Attends, Working
<1>4. raced \/ table # None => raced'
  BY <1>1, Zenon
<1> QED
  BY <1>1, <1>2, <1>3, <1>4

LEMMA SendDoes ==
    ASSUME Typed, Threads, NEW c \in Callers, Send(c)
    PROVE  LET k == caller[c].worker
           IN  /\ k \in Workers /\ caller[c].at = "lock" /\ worker[k].lock = None
               /\ \/ /\ worker[k].life = "alive"
                     /\ Becomes(k, "alive", c, Append(worker[k].stdin, caller[c].req),
                                worker[k].stdout, worker[k].runs)
                     /\ Moved(c, "read", k)
                  \/ Moved(c, "fallback", k) /\ UNCHANGED worker
               /\ UNCHANGED <<table, ran, raced>>
<1> DEFINE k == caller[c].worker
<1>1. k \in Workers
  BY DEF Threads, Attends, Working, Send
<1>2. caller[c].at = "lock" /\ worker[k].lock = None /\ UNCHANGED <<table, ran, raced>>
  BY Zenon DEF Send
<1>3. UNCHANGED <<code, outcome, answer>>
  BY Zenon DEF Send
<1>4. CASE worker[k].life = "alive"
  <2>1. /\ worker' = [worker EXCEPT ![k].lock = c, ![k].stdin = Append(@, caller[c].req)]
        /\ Goto(c, "read")
    BY <1>4, Zenon DEF Send
  <2>2. Becomes(k, "alive", c, Append(worker[k].stdin, caller[c].req), worker[k].stdout,
                worker[k].runs)
    <3>1. worker \in [Workers -> Process] /\ worker[k] \in Process
      BY <1>1 DEF Typed
    <3>2. \A j \in Workers \ {k} : worker'[j] = worker[j]
      BY <1>1, <2>1, <3>1
    <3>3. worker'[k] = [worker[k] EXCEPT !.lock = c, !.stdin = Append(@, caller[c].req)]
      BY <1>1, <2>1, <3>1
    <3>4. /\ worker'[k].life = worker[k].life /\ worker'[k].lock = c
          /\ worker'[k].stdin = Append(worker[k].stdin, caller[c].req)
          /\ worker'[k].stdout = worker[k].stdout /\ worker'[k].runs = worker[k].runs
      BY <3>1, <3>3 DEF Process
    <3> QED
      BY <1>4, <3>2, <3>4 DEF Becomes
  <2>3. Moved(c, "read", k)
    BY <1>3, <2>1, MovedTo
  <2> QED
    BY <1>1, <1>2, <1>4, <2>2, <2>3
<1>5. CASE worker[k].life # "alive"
  <2>1. Goto(c, "fallback") /\ UNCHANGED worker
    BY <1>5, Zenon DEF Send
  <2>2. Moved(c, "fallback", k)
    BY <1>3, <2>1, MovedTo
  <2> QED
    BY <1>1, <1>2, <2>1, <2>2
<1> QED
  BY <1>4, <1>5

LEMMA ReceiveDoes ==
    ASSUME Typed, Threads, NEW c \in Callers, Receive(c)
    PROVE  LET k == caller[c].worker
               of == Head(worker[k].stdout).answer
           IN  /\ k \in Workers /\ caller[c].at = "read" /\ worker[k].stdout # <<>>
               /\ Becomes(k, worker[k].life, None, worker[k].stdin, Tail(worker[k].stdout),
                          worker[k].runs)
               /\ \/ of # None /\ Returned(c, "answer", of)
                  \/ of = None /\ Moved(c, "fallback", k)
               /\ UNCHANGED <<table, ran, raced>>
<1> DEFINE k == caller[c].worker
           of == Head(worker[k].stdout).answer
<1>1. k \in Workers /\ caller[c].req \in Requests
  BY DEF Threads, Attends, Working, Receive
<1>2. /\ caller[c].at = "read" /\ worker[k].stdout # <<>>
      /\ worker' = [worker EXCEPT ![k].stdout = Tail(@), ![k].lock = None]
      /\ UNCHANGED <<code, table, ran, raced>>
  BY Zenon DEF Receive
<1>3. Becomes(k, worker[k].life, None, worker[k].stdin, Tail(worker[k].stdout), worker[k].runs)
  BY <1>1, <1>2 DEF Typed, Process, Becomes
<1>4. CASE of # None
  <2>1. Return(c, "answer", of)
    BY <1>4, Zenon DEF Receive
  <2>2. Returned(c, "answer", of)
    BY <1>1, <1>2, <2>1, ReturnedWith
  <2> QED
    BY <1>1, <1>2, <1>3, <1>4, <2>2
<1>5. CASE of = None
  <2>1. Goto(c, "fallback") /\ UNCHANGED <<outcome, answer>>
    BY <1>5, Zenon DEF Receive
  <2>2. Moved(c, "fallback", k)
    BY <1>2, <2>1, MovedTo
  <2> QED
    BY <1>1, <1>2, <1>3, <1>5, <2>2
<1> QED
  BY <1>4, <1>5

LEMMA ReadEndDoes ==
    ASSUME Typed, Threads, NEW c \in Callers, ReadEnd(c)
    PROVE  LET k == caller[c].worker
           IN  /\ k \in Workers /\ caller[c].at = "read"
               /\ worker[k].life = "dead" /\ worker[k].stdout = <<>>
               /\ Becomes(k, "dead", None, worker[k].stdin, <<>>, worker[k].runs)
               /\ Moved(c, "fallback", k)
               /\ UNCHANGED <<table, ran, raced>>
<1> DEFINE k == caller[c].worker
<1>1. k \in Workers
  BY DEF Threads, Attends, Working, ReadEnd
<1>2. /\ caller[c].at = "read" /\ worker[k].life = "dead" /\ worker[k].stdout = <<>>
      /\ worker' = [worker EXCEPT ![k].lock = None]
      /\ Goto(c, "fallback")
      /\ UNCHANGED <<code, outcome, answer, table, ran, raced>>
  BY Zenon DEF ReadEnd
<1>3. Becomes(k, "dead", None, worker[k].stdin, <<>>, worker[k].runs)
  BY <1>1, <1>2 DEF Typed, Process, Becomes
<1>4. Moved(c, "fallback", k)
  BY <1>2, MovedTo
<1> QED
  BY <1>1, <1>2, <1>3, <1>4

LEMMA TimeOutDoes ==
    ASSUME Typed, Threads, NEW c \in Callers, TimeOut(c)
    PROVE  LET k == caller[c].worker
           IN  /\ k \in Workers /\ caller[c].at = "read"
               /\ Becomes(k, "dead", None, <<>>, worker[k].stdout, None)
               /\ Moved(c, "drop", k)
               /\ UNCHANGED <<table, ran, raced>>
<1> DEFINE k == caller[c].worker
<1>1. k \in Workers
  BY DEF Threads, Attends, Working, TimeOut
<1>2. /\ caller[c].at = "read"
      /\ worker' = [worker EXCEPT ![k] = [Closed(@) EXCEPT !.lock = None]]
      /\ Goto(c, "drop")
      /\ UNCHANGED <<code, outcome, answer, table, ran, raced>>
  BY Zenon DEF TimeOut
<1>3. Becomes(k, "dead", None, <<>>, worker[k].stdout, None)
  BY <1>1, <1>2 DEF Typed, Process, Becomes, Closed
<1>4. Moved(c, "drop", k)
  BY <1>2, MovedTo
<1> QED
  BY <1>1, <1>2, <1>3, <1>4

LEMMA DropDoes ==
    ASSUME Typed, Threads, NEW c \in Callers, DropWorker(c)
    PROVE  /\ caller[c].at = "drop"
           /\ \/ table = None /\ UNCHANGED worker
              \/ /\ table \in Workers
                 /\ Becomes(table, "dead", worker[table].lock, <<>>, worker[table].stdout, None)
           /\ table' = None
           /\ Returned(c, "timeout", None)
           /\ UNCHANGED <<ran, raced>>
<1>1. caller[c].req \in Requests
  BY DEF Threads, Attends, Working, DropWorker
<1>2. /\ caller[c].at = "drop" /\ table' = None
      /\ Return(c, "timeout", None)
      /\ UNCHANGED <<code, ran, raced>>
  BY Zenon DEF DropWorker
<1>3. Returned(c, "timeout", None)
  BY <1>1, <1>2, ReturnedWith
<1>4. CASE table = None
  BY <1>2, <1>3, <1>4, Zenon DEF DropWorker
<1>5. CASE table # None
  <2>1. table \in Workers
    BY <1>5 DEF Typed
  <2>2. worker' = [worker EXCEPT ![table] = Closed(@)]
    BY <1>5, Zenon DEF DropWorker
  <2>3. Becomes(table, "dead", worker[table].lock, <<>>, worker[table].stdout, None)
    BY <2>1, <2>2 DEF Typed, Process, Becomes, Closed
  <2> QED
    BY <1>2, <1>3, <2>1, <2>3
<1> QED
  BY <1>4, <1>5

LEMMA FallbackDoes ==
    ASSUME Typed, Threads, NEW c \in Callers, Fallback(c)
    PROVE  /\ caller[c].at = "fallback" /\ caller[c].req \in Requests
           /\ Started(caller[c].req)
           /\ \E result \in {"fallback", "timeout"} : Returned(c, result, None)
           /\ UNCHANGED <<table, worker, raced>>
<1>1. caller[c].req \in Requests
  BY DEF Threads, Attends, Working, Fallback
<1>2. /\ caller[c].at = "fallback"
      /\ ran' = [ran EXCEPT ![caller[c].req] = @ + 1]
      /\ \E result \in {"fallback", "timeout"} : Return(c, result, None)
      /\ UNCHANGED <<code, table, worker, raced>>
  BY Zenon DEF Fallback
<1>3. Started(caller[c].req)
  BY <1>1, <1>2, RanOnceMore
<1>4. \E result \in {"fallback", "timeout"} : Returned(c, result, None)
  BY <1>1, <1>2, ReturnedWith
<1> QED
  BY <1>1, <1>2, <1>3, <1>4

LEMMA NoBackendDoes ==
    ASSUME Typed, Threads, NEW c \in Callers, NoBackend(c)
    PROVE  /\ caller[c].at = "fallback" /\ caller[c].req \in Requests
           /\ Returned(c, "error", None)
           /\ UNCHANGED <<table, worker, ran, raced>>
<1>1. caller[c].req \in Requests
  BY DEF Threads, Attends, Working, NoBackend
<1>2. /\ caller[c].at = "fallback" /\ Return(c, "error", None)
      /\ UNCHANGED <<code, table, worker, ran, raced>>
  BY Zenon DEF NoBackend
<1> QED
  BY <1>1, <1>2, ReturnedWith

LEMMA ExecuteDoes ==
    ASSUME Typed, NEW k \in Workers, Execute(k)
    PROVE  LET r == Head(worker[k].stdin)
           IN  /\ worker[k].life = "alive" /\ worker[k].runs = None /\ worker[k].stdin # <<>>
               /\ r \in Requests
               /\ Becomes(k, "alive", worker[k].lock, Tail(worker[k].stdin), worker[k].stdout, r)
               /\ Started(r)
               /\ UNCHANGED <<caller, code, outcome, answer, table, raced>>
<1> DEFINE r == Head(worker[k].stdin)
<1>1. /\ worker[k].life = "alive" /\ worker[k].runs = None /\ worker[k].stdin # <<>>
      /\ worker' = [worker EXCEPT ![k].runs = r, ![k].stdin = Tail(@)]
      /\ ran' = [ran EXCEPT ![r] = @ + 1]
      /\ UNCHANGED <<caller, code, outcome, answer, table, raced>>
  BY Zenon DEF Execute
<1>2. worker[k].stdin \in Inbox
  BY DEF Typed, Process
<1>3. r \in Requests
  BY <1>1, <1>2, Inboxes
<1>4. Becomes(k, "alive", worker[k].lock, Tail(worker[k].stdin), worker[k].stdout, r)
  BY <1>1 DEF Typed, Process, Becomes
<1>5. Started(r)
  BY <1>1, <1>3, RanOnceMore
<1> QED
  BY <1>1, <1>3, <1>4, <1>5

LEMMA WriteDoes ==
    ASSUME Typed, NEW k \in Workers, WriteStray(k)
    PROVE  /\ worker[k].life = "alive" /\ worker[k].runs # None
           /\ code[worker[k].runs] = "stray"
           /\ Becomes(k, "alive", worker[k].lock, worker[k].stdin,
                      Append(worker[k].stdout, [answer |-> None]), worker[k].runs)
           /\ UNCHANGED <<caller, code, outcome, answer, table, ran, raced>>
<1>1. /\ worker[k].life = "alive" /\ worker[k].runs # None /\ code[worker[k].runs] = "stray"
      /\ worker' = [worker EXCEPT ![k].stdout = Append(@, [answer |-> None]),
                                  ![k].strayed = TRUE]
      /\ UNCHANGED <<caller, code, outcome, answer, table, ran, raced>>
  BY Zenon DEF WriteStray
<1> QED
  BY <1>1 DEF Typed, Process, Becomes

LEMMA RespondDoes ==
    ASSUME Typed, NEW k \in Workers, Respond(k)
    PROVE  /\ worker[k].life = "alive" /\ worker[k].runs # None
           /\ Becomes(k, "alive", worker[k].lock, worker[k].stdin,
                      Append(worker[k].stdout, [answer |-> worker[k].runs]), None)
           /\ UNCHANGED <<caller, code, outcome, answer, table, ran, raced>>
<1>1. /\ worker[k].life = "alive" /\ worker[k].runs # None
      /\ worker' = [worker EXCEPT ![k].stdout = Append(@, [answer |-> worker[k].runs]),
                                  ![k].runs = None, ![k].strayed = FALSE]
      /\ UNCHANGED <<caller, code, outcome, answer, table, ran, raced>>
  BY Zenon DEF Respond
<1> QED
  BY <1>1 DEF Typed, Process, Becomes

LEMMA ExitDoes ==
    ASSUME Typed, NEW k \in Workers, ExitWorker(k)
    PROVE  /\ worker[k].life = "alive" /\ worker[k].runs # None
           /\ code[worker[k].runs] = "exits"
           /\ Becomes(k, "dead", worker[k].lock, worker[k].stdin, worker[k].stdout, None)
           /\ UNCHANGED <<caller, code, outcome, answer, table, ran, raced>>
<1>1. /\ worker[k].life = "alive" /\ worker[k].runs # None /\ code[worker[k].runs] = "exits"
      /\ worker' = [worker EXCEPT ![k].life = "dead", ![k].runs = None]
      /\ UNCHANGED <<caller, code, outcome, answer, table, ran, raced>>
  BY Zenon DEF ExitWorker
<1> QED
  BY <1>1 DEF Typed, Process, Becomes

-----------------------------------------------------------------------------
(* The invariant is kept, part by part.                                     *)

LEMMA ReaderHasLock ==
    ASSUME Inv, NEW c \in Callers, caller[c].at = "read"
    PROVE  LET w == worker[caller[c].worker]
           IN  caller[c].worker \in Workers /\ w.lock = c /\ w.life # "unborn"
<1>1. caller[c].worker \in Workers
  BY DEF Inv, Threads, Attends, Working
<1>2. worker[caller[c].worker].lock = c
  BY <1>1 DEF Inv, Locks, HasLock
<1> QED
  BY <1>1, <1>2, NoneIsNone DEF Inv, Processes, Tended

\* What an answer of a worker leaves as it was.
LEMMA RespondKeeps ==
    ASSUME Inv, NEW j \in Workers, Respond(j)
    PROVE  /\ \A k \in Workers : /\ worker'[k].life = worker[k].life
                                /\ worker'[k].lock = worker[k].lock
                                /\ worker'[k].stdin = worker[k].stdin
           /\ \A k \in Workers \ {j} : worker'[k] = worker[k]
           /\ worker[j].life = "alive" /\ worker[j].runs # None /\ worker'[j].runs = None
           /\ UNCHANGED <<caller, code, outcome, answer, table, ran, raced>>
  BY RespondDoes, Zenon DEF Inv, Becomes

LEMMA ThreadsStep == Inv /\ [Next]_vars => Threads'
<1> SUFFICES ASSUME Inv, [Next]_vars, NEW c \in Callers PROVE Attends(c)'
  BY DEF Threads
<1> USE NoneIsNone, NoneIsNoWord, WorkersAreRequests DEF Inv
<1>1. CASE UNCHANGED vars
  BY <1>1 DEF vars, Threads, Attends, Working
<1>2. ASSUME NEW a \in Callers, Call(a) PROVE Attends(c)'
  <2>1. PICK r \in Requests :
          /\ code[r] = None /\ code'[r] \in CodeKinds
          /\ outcome'[r] = "open"
          /\ \A q \in Requests \ {r} : code'[q] = code[q] /\ outcome'[q] = outcome[q]
          /\ caller'[a].at = "find" /\ caller'[a].req = r
          /\ \A d \in Callers \ {a} : caller'[d] = caller[d]
          /\ UNCHANGED <<answer, table, worker, ran, raced>>
    BY <1>2, CallDoes
  <2>2. worker[r].life = "unborn" /\ code'[r] # None
    BY <2>1, SandboxAssumption DEF Unasked
  <2>3. \A d \in Callers : caller[d].at # "idle" => caller[d].req # r
    BY <2>1 DEF Threads, Attends, Working
  <2>4. CASE c = a
    BY <2>1, <2>2, <2>3, <2>4 DEF Attends, Working
  <2>5. CASE c # a
    BY <2>1, <2>3, <2>5 DEF Threads, Attends, Working
  <2> QED
    BY <2>4, <2>5
<1>3. ASSUME NEW a \in Callers, FindWorker(a) PROVE Attends(c)'
  <2>1. table \in Workers \cup {None}
    BY DEF Typed
  <2> QED
    BY <1>3, <2>1, FindDoes DEF Threads, Attends, Working, Moved, Processes, Tended
<1>4. ASSUME NEW a \in Callers, StartWorker(a) PROVE Attends(c)'
  BY <1>4, StartDoes DEF Threads, Attends, Working, Moved, Returned, Becomes, Started
<1>5. ASSUME NEW a \in Callers, Send(a) PROVE Attends(c)'
  BY <1>5, SendDoes DEF Threads, Attends, Working, Moved, Returned, Becomes, Started
<1>6. ASSUME NEW a \in Callers, Receive(a) PROVE Attends(c)'
  BY <1>6, ReceiveDoes DEF Threads, Attends, Working, Moved, Returned, Becomes, Started
<1>7. ASSUME NEW a \in Callers, ReadEnd(a) PROVE Attends(c)'
  BY <1>7, ReadEndDoes DEF Threads, Attends, Working, Moved, Returned, Becomes, Started
<1>8. ASSUME NEW a \in Callers, TimeOut(a) PROVE Attends(c)'
  BY <1>8, TimeOutDoes, ReaderHasLock DEF Threads, Attends, Working, Moved, Becomes
<1>9. ASSUME NEW a \in Callers, DropWorker(a) PROVE Attends(c)'
  <2>1. table \in Workers => worker[table].life # "unborn"
    BY DEF Processes, Tended
  <2> QED
    BY <1>9, <2>1, DropDoes DEF Threads, Attends, Working, Returned, Becomes
<1>10. ASSUME NEW a \in Callers, Fallback(a) PROVE Attends(c)'
  BY <1>10, FallbackDoes DEF Threads, Attends, Working, Moved, Returned, Becomes, Started
<1>11. ASSUME NEW j \in Workers, Execute(j) PROVE Attends(c)'
  BY <1>11, ExecuteDoes DEF Threads, Attends, Working, Moved, Returned, Becomes, Started
<1>12. ASSUME NEW j \in Workers, WriteStray(j) PROVE Attends(c)'
  BY <1>12, WriteDoes DEF Threads, Attends, Working, Moved, Returned, Becomes, Started
<1>13. ASSUME NEW j \in Workers, Respond(j) PROVE Attends(c)'
  BY <1>13, RespondKeeps DEF Threads, Attends, Working
<1>14. ASSUME NEW j \in Workers, ExitWorker(j) PROVE Attends(c)'
  BY <1>14, ExitDoes DEF Threads, Attends, Working, Moved, Returned, Becomes, Started
<1>15. ASSUME NEW a \in Callers, StartFails(a) PROVE Attends(c)'
  BY <1>15, StartFailsDoes DEF Threads, Attends, Working, Moved, Returned, Becomes, Started
<1>16. ASSUME NEW a \in Callers, PublishWorker(a) PROVE Attends(c)'
  BY <1>16, PublishDoes DEF Threads, Attends, Working, Moved, Returned, Becomes, Started
<1>17. ASSUME NEW a \in Callers, NoBackend(a) PROVE Attends(c)'
  BY <1>17, NoBackendDoes DEF Threads, Attends, Working, Moved, Returned, Becomes, Started
<1> QED
  BY <1>1, <1>2, <1>3, <1>4, <1>5, <1>6, <1>7, <1>8, <1>9, <1>10,
     <1>11, <1>12, <1>13,
     <1>14, <1>15, <1>16, <1>17 DEF Next, CallerStep, WorkerStep

LEMMA SecretsStep == Inv /\ [Next]_vars => Secrets'
<1> SUFFICES ASSUME Inv, [Next]_vars, NEW c \in Callers PROVE Unshared(c)'
  BY DEF Secrets
<1> USE NoneIsNone, NoneIsNoWord, WorkersAreRequests DEF Inv
<1>u. \A d \in Callers : Unshared(d) /\ Attends(d)
  BY DEF Secrets, Threads
<1>1. CASE UNCHANGED vars
  BY <1>1, <1>u DEF vars, Unshared, Working
<1>2. ASSUME NEW a \in Callers, Call(a) PROVE Unshared(c)'
  BY <1>2, <1>u, CallDoes DEF Unshared, Working
<1>3. ASSUME NEW a \in Callers, FindWorker(a) PROVE Unshared(c)'
  <2>1. /\ caller'[a].worker = table /\ caller'[a].at \in {"make", "lock"}
        /\ \A d \in Callers \ {a} : caller'[d] = caller[d]
        /\ UNCHANGED table
    BY <1>3, FindDoes DEF Moved
  <2> QED
    BY <1>u, <2>1 DEF Unshared, Working
<1>4. ASSUME NEW a \in Callers, StartWorker(a) PROVE Unshared(c)'
  <2> DEFINE i == caller[a].req
  <2>1. /\ i \in Workers /\ worker[i].life = "unborn"
        /\ caller'[a].at = "publish" /\ caller'[a].worker = i
        /\ \A d \in Callers \ {a} : caller'[d] = caller[d]
        /\ UNCHANGED table
    BY <1>4, StartDoes DEF Moved
  <2>2. table # i
    BY <2>1 DEF Processes, Tended
  <2>3. \A d \in Callers : caller[d].at \in Working => caller[d].worker # i
    BY <1>u, <2>1 DEF Attends
  <2> HIDE DEF i
  <2> QED
    BY <1>u, <2>1, <2>2, <2>3 DEF Unshared
<1>5. ASSUME NEW a \in Callers, Send(a) PROVE Unshared(c)'
  BY <1>5, <1>u, SendDoes DEF Unshared, Working, Moved
<1>6. ASSUME NEW a \in Callers, Receive(a) PROVE Unshared(c)'
  BY <1>6, <1>u, ReceiveDoes DEF Unshared, Working, Moved, Returned
<1>7. ASSUME NEW a \in Callers, ReadEnd(a) PROVE Unshared(c)'
  BY <1>7, <1>u, ReadEndDoes DEF Unshared, Working, Moved
<1>8. ASSUME NEW a \in Callers, TimeOut(a) PROVE Unshared(c)'
  BY <1>8, <1>u, TimeOutDoes DEF Unshared, Working, Moved
<1>9. ASSUME NEW a \in Callers, DropWorker(a) PROVE Unshared(c)'
  <2>1. /\ caller'[a].at = "idle" /\ table' = None
        /\ \A d \in Callers \ {a} : caller'[d] = caller[d]
    BY <1>9, DropDoes DEF Returned
  <2> QED
    BY <1>u, <2>1 DEF Unshared, Attends, Working
<1>10. ASSUME NEW a \in Callers, Fallback(a) PROVE Unshared(c)'
  BY <1>10, <1>u, FallbackDoes DEF Unshared, Working, Returned
<1>11. ASSUME NEW j \in Workers, Execute(j) PROVE Unshared(c)'
  BY <1>11, <1>u, ExecuteDoes DEF Unshared, Working
<1>12. ASSUME NEW j \in Workers, WriteStray(j) PROVE Unshared(c)'
  BY <1>12, <1>u, WriteDoes DEF Unshared, Working
<1>13. ASSUME NEW j \in Workers, Respond(j) PROVE Unshared(c)'
  BY <1>13, <1>u, RespondKeeps DEF Unshared, Working
<1>14. ASSUME NEW j \in Workers, ExitWorker(j) PROVE Unshared(c)'
  BY <1>14, <1>u, ExitDoes DEF Unshared, Working
<1>15. ASSUME NEW a \in Callers, StartFails(a) PROVE Unshared(c)'
  BY <1>15, <1>u, StartFailsDoes DEF Unshared, Working, Moved
<1>16. ASSUME NEW a \in Callers, PublishWorker(a) PROVE Unshared(c)'
  <2>1. /\ caller[a].at = "publish" /\ table' = caller[a].worker
        /\ caller'[a].at = "lock" /\ caller'[a].worker = caller[a].worker
        /\ \A d \in Callers \ {a} : caller'[d] = caller[d]
    BY <1>16, PublishDoes DEF Moved
  <2> QED
    BY <1>u, <2>1 DEF Unshared, Working
<1>17. ASSUME NEW a \in Callers, NoBackend(a) PROVE Unshared(c)'
  BY <1>17, <1>u, NoBackendDoes DEF Unshared, Working, Returned
<1> QED
  BY <1>1, <1>2, <1>3, <1>4, <1>5, <1>6, <1>7, <1>8, <1>9, <1>10,
     <1>11, <1>12, <1>13,
     <1>14, <1>15, <1>16, <1>17 DEF Next, CallerStep, WorkerStep

LEMMA UnaskedStep == Inv /\ [Next]_vars => Unasked'
<1> SUFFICES ASSUME Inv, [Next]_vars PROVE Unasked'
  OBVIOUS
<1> USE NoneIsNone, NoneIsNoWord, WorkersAreRequests DEF Inv
<1>1. CASE UNCHANGED vars
  BY <1>1 DEF vars, Unasked, Threads, Attends, Working
<1>2. ASSUME NEW a \in Callers, Call(a) PROVE Unasked'
  BY <1>2, CallDoes DEF Unasked, Threads, Attends, Working, Moved, Returned, Becomes, Started
<1>3. ASSUME NEW a \in Callers, FindWorker(a) PROVE Unasked'
  BY <1>3, FindDoes DEF Unasked, Threads, Attends, Working, Moved, Returned, Becomes, Started
<1>4. ASSUME NEW a \in Callers, StartWorker(a) PROVE Unasked'
  BY <1>4, StartDoes DEF Unasked, Threads, Attends, Working, Moved, Returned, Becomes, Started
<1>5. ASSUME NEW a \in Callers, Send(a) PROVE Unasked'
  BY <1>5, SendDoes DEF Unasked, Threads, Attends, Working, Moved, Returned, Becomes, Started
<1>6. ASSUME NEW a \in Callers, Receive(a) PROVE Unasked'
  BY <1>6, ReceiveDoes
     DEF Unasked, Threads, Attends, Working, Moved, Returned, Becomes, Started
<1>7. ASSUME NEW a \in Callers, ReadEnd(a) PROVE Unasked'
  BY <1>7, ReadEndDoes
     DEF Unasked, Threads, Attends, Working, Moved, Returned, Becomes, Started
<1>8. ASSUME NEW a \in Callers, TimeOut(a) PROVE Unasked'
  BY <1>8, TimeOutDoes, ReaderHasLock DEF Unasked, Moved, Becomes
<1>9. ASSUME NEW a \in Callers, DropWorker(a) PROVE Unasked'
  <2>1. table \in Workers => worker[table].life # "unborn"
    BY DEF Processes, Tended
  <2> QED
    BY <1>9, <2>1, DropDoes DEF Unasked, Returned, Becomes
<1>10. ASSUME NEW a \in Callers, Fallback(a) PROVE Unasked'
  BY <1>10, FallbackDoes
     DEF Unasked, Threads, Attends, Working, Moved, Returned, Becomes, Started
<1>11. ASSUME NEW j \in Workers, Execute(j) PROVE Unasked'
  <2> DEFINE r == Head(worker[j].stdin)
  <2>1. worker[j].stdin # <<>> /\ worker[j].stdin \in Seq(Requests)
    BY <1>11, ExecuteDoes DEF Typed, Process, Inbox
  <2>2. r = worker[j].stdin[1] /\ Len(worker[j].stdin) >= 1
    BY <2>1
  <2>3. code[r] # None
    BY <2>1, <2>2 DEF Processes, Tended
  <2>4. /\ r \in Requests /\ Started(r) /\ UNCHANGED code
        /\ \A k \in Workers : worker'[k].life = worker[k].life
    BY <1>11, ExecuteDoes, Zenon DEF Becomes
  <2> HIDE DEF r
  <2> QED
    BY <2>3, <2>4 DEF Unasked, Started
<1>12. ASSUME NEW j \in Workers, WriteStray(j) PROVE Unasked'
  BY <1>12, WriteDoes
     DEF Unasked, Threads, Attends, Working, Moved, Returned, Becomes, Started
<1>13. ASSUME NEW j \in Workers, Respond(j) PROVE Unasked'
  BY <1>13, RespondKeeps DEF Unasked
<1>14. ASSUME NEW j \in Workers, ExitWorker(j) PROVE Unasked'
  BY <1>14, ExitDoes DEF Unasked, Threads, Attends, Working, Moved, Returned, Becomes, Started
<1>15. ASSUME NEW a \in Callers, StartFails(a) PROVE Unasked'
  BY <1>15, StartFailsDoes
     DEF Unasked, Threads, Attends, Working, Moved, Returned, Becomes, Started
<1>16. ASSUME NEW a \in Callers, PublishWorker(a) PROVE Unasked'
  BY <1>16, PublishDoes
     DEF Unasked, Threads, Attends, Working, Moved, Returned, Becomes, Started
<1>17. ASSUME NEW a \in Callers, NoBackend(a) PROVE Unasked'
  BY <1>17, NoBackendDoes
     DEF Unasked, Threads, Attends, Working, Moved, Returned, Becomes, Started
<1> QED
  BY <1>1, <1>2, <1>3, <1>4, <1>5, <1>6, <1>7, <1>8, <1>9, <1>10,
     <1>11, <1>12, <1>13,
     <1>14, <1>15, <1>16, <1>17 DEF Next, CallerStep, WorkerStep

LEMMA LocksStep == Inv /\ [Next]_vars => Locks'
<1> SUFFICES ASSUME Inv, [Next]_vars, NEW c \in Callers, NEW k \in Workers
             PROVE  HasLock(c, k)'
  BY DEF Locks
<1> USE NoneIsNone, NoneIsNoWord, WorkersAreRequests DEF Inv
<1>1. CASE UNCHANGED vars
  BY <1>1 DEF vars, Locks, HasLock, Threads, Attends, Working
<1>2. ASSUME NEW a \in Callers, Call(a) PROVE HasLock(c, k)'
  BY <1>2, CallDoes
     DEF Locks, HasLock, Threads, Attends, Working, Moved, Returned, Becomes, Started
<1>3. ASSUME NEW a \in Callers, FindWorker(a) PROVE HasLock(c, k)'
  BY <1>3, FindDoes
     DEF Locks, HasLock, Threads, Attends, Working, Moved, Returned, Becomes, Started
<1>4. ASSUME NEW a \in Callers, StartWorker(a) PROVE HasLock(c, k)'
  BY <1>4, StartDoes
     DEF Locks, HasLock, Threads, Attends, Working, Moved, Returned, Becomes, Started
<1>5. ASSUME NEW a \in Callers, Send(a) PROVE HasLock(c, k)'
  BY <1>5, SendDoes
     DEF Locks, HasLock, Threads, Attends, Working, Moved, Returned, Becomes, Started
<1>6. ASSUME NEW a \in Callers, Receive(a) PROVE HasLock(c, k)'
  BY <1>6, ReceiveDoes
     DEF Locks, HasLock, Threads, Attends, Working, Moved, Returned, Becomes, Started
<1>7. ASSUME NEW a \in Callers, ReadEnd(a) PROVE HasLock(c, k)'
  BY <1>7, ReadEndDoes
     DEF Locks, HasLock, Threads, Attends, Working, Moved, Returned, Becomes, Started
<1>8. ASSUME NEW a \in Callers, TimeOut(a) PROVE HasLock(c, k)'
  BY <1>8, TimeOutDoes
     DEF Locks, HasLock, Threads, Attends, Working, Moved, Returned, Becomes, Started
<1>9. ASSUME NEW a \in Callers, DropWorker(a) PROVE HasLock(c, k)'
  BY <1>9, DropDoes
     DEF Locks, HasLock, Threads, Attends, Working, Moved, Returned, Becomes, Started
<1>10. ASSUME NEW a \in Callers, Fallback(a) PROVE HasLock(c, k)'
  BY <1>10, FallbackDoes
     DEF Locks, HasLock, Threads, Attends, Working, Moved, Returned, Becomes, Started
<1>11. ASSUME NEW j \in Workers, Execute(j) PROVE HasLock(c, k)'
  BY <1>11, ExecuteDoes
     DEF Locks, HasLock, Threads, Attends, Working, Moved, Returned, Becomes, Started
<1>12. ASSUME NEW j \in Workers, WriteStray(j) PROVE HasLock(c, k)'
  BY <1>12, WriteDoes
     DEF Locks, HasLock, Threads, Attends, Working, Moved, Returned, Becomes, Started
<1>13. ASSUME NEW j \in Workers, Respond(j) PROVE HasLock(c, k)'
  BY <1>13, RespondKeeps DEF Locks, HasLock
<1>14. ASSUME NEW j \in Workers, ExitWorker(j) PROVE HasLock(c, k)'
  BY <1>14, ExitDoes
     DEF Locks, HasLock, Threads, Attends, Working, Moved, Returned, Becomes, Started
<1>15. ASSUME NEW a \in Callers, StartFails(a) PROVE HasLock(c, k)'
  BY <1>15, StartFailsDoes
     DEF Locks, HasLock, Threads, Attends, Working, Moved, Returned, Becomes, Started
<1>16. ASSUME NEW a \in Callers, PublishWorker(a) PROVE HasLock(c, k)'
  BY <1>16, PublishDoes
     DEF Locks, HasLock, Threads, Attends, Working, Moved, Returned, Becomes, Started
<1>17. ASSUME NEW a \in Callers, NoBackend(a) PROVE HasLock(c, k)'
  BY <1>17, NoBackendDoes
     DEF Locks, HasLock, Threads, Attends, Working, Moved, Returned, Becomes, Started
<1> QED
  BY <1>1, <1>2, <1>3, <1>4, <1>5, <1>6, <1>7, <1>8, <1>9, <1>10,
     <1>11, <1>12, <1>13,
     <1>14, <1>15, <1>16, <1>17 DEF Next, CallerStep, WorkerStep

LEMMA ProcessesStep == Inv /\ [Next]_vars => Processes'
<1> SUFFICES ASSUME Inv, [Next]_vars, NEW k \in Workers PROVE Tended(k)'
  BY DEF Processes
<1> USE NoneIsNone, NoneIsNoWord, WorkersAreRequests DEF Inv
<1>t. worker[k].runs \in Requests \cup {None} /\ ran \in [Requests -> Nat]
      /\ worker[k].stdin \in Seq(Requests)
  BY DEF Typed, Process, Inbox
<1>p. Tended(k)
  BY DEF Processes
<1>1. CASE UNCHANGED vars
  BY <1>1 DEF vars, Processes, Tended, Threads, Attends, Working
<1>2. ASSUME NEW a \in Callers, Call(a) PROVE Tended(k)'
  <2>1. \A r \in Requests : code[r] # None => code'[r] = code[r]
    BY <1>2, CallDoes
  <2>2. UNCHANGED <<table, worker, ran>>
    BY <1>2, CallDoes
  <2> QED
    BY <1>p, <1>t, <2>1, <2>2 DEF Tended
<1>3. ASSUME NEW a \in Callers, FindWorker(a) PROVE Tended(k)'
  BY <1>3, FindDoes
     DEF Processes, Tended, Threads, Attends, Working, Moved, Returned, Becomes, Started
<1>4. ASSUME NEW a \in Callers, StartWorker(a) PROVE Tended(k)'
  BY <1>4, StartDoes
     DEF Processes, Tended, Threads, Attends, Working, Moved, Returned, Becomes, Started
<1>5. ASSUME NEW a \in Callers, Send(a) PROVE Tended(k)'
  <2> DEFINE i == caller[a].worker
             r == caller[a].req
  <2>1. r \in Requests /\ code[r] # None
    BY <1>5, SendDoes DEF Threads, Attends, Working
  <2>2. CASE UNCHANGED worker
    BY <1>5, <1>p, <2>2, SendDoes DEF Tended, Moved
  <2>3. CASE worker # worker'
    <3>1. /\ i \in Workers /\ worker[i].life = "alive"
          /\ Becomes(i, "alive", a, Append(worker[i].stdin, r), worker[i].stdout, worker[i].runs)
          /\ UNCHANGED <<table, ran, code>>
      BY <1>5, <2>3, SendDoes DEF Moved
    <3>2. CASE k # i
      BY <1>p, <3>1, <3>2 DEF Tended, Becomes
    <3>3. CASE k = i
      <4>1. /\ worker'[k].life = "alive" /\ worker'[k].runs = worker[k].runs
            /\ worker'[k].stdin = Append(worker[k].stdin, r)
        BY <3>1, <3>3 DEF Becomes
      <4>2. \A n \in 1 .. Len(worker'[k].stdin) : code[worker'[k].stdin[n]] # None
        BY <1>p, <1>t, <2>1, <4>1 DEF Tended
      <4> QED
        BY <1>p, <3>1, <4>1, <4>2 DEF Tended
    <3> QED
      BY <3>2, <3>3
  <2> QED
    BY <2>2, <2>3
<1>6. ASSUME NEW a \in Callers, Receive(a) PROVE Tended(k)'
  BY <1>6, ReceiveDoes
     DEF Processes, Tended, Threads, Attends, Working, Moved, Returned, Becomes, Started
<1>7. ASSUME NEW a \in Callers, ReadEnd(a) PROVE Tended(k)'
  BY <1>7, ReadEndDoes
     DEF Processes, Tended, Threads, Attends, Working, Moved, Returned, Becomes, Started
<1>8. ASSUME NEW a \in Callers, TimeOut(a) PROVE Tended(k)'
  BY <1>8, TimeOutDoes
     DEF Processes, Tended, Threads, Attends, Working, Moved, Returned, Becomes, Started
<1>9. ASSUME NEW a \in Callers, DropWorker(a) PROVE Tended(k)'
  BY <1>9, DropDoes
     DEF Processes, Tended, Threads, Attends, Working, Moved, Returned, Becomes, Started
<1>10. ASSUME NEW a \in Callers, Fallback(a) PROVE Tended(k)'
  <2>1. caller[a].req \in Requests /\ Started(caller[a].req)
        /\ UNCHANGED <<table, worker, code>>
    BY <1>10, FallbackDoes DEF Returned
  <2>2. \A q \in Requests : ran[q] > 0 => ran'[q] > 0
    BY <1>t, <2>1 DEF Started
  <2> QED
    BY <1>p, <1>t, <2>1, <2>2 DEF Tended
<1>11. ASSUME NEW j \in Workers, Execute(j) PROVE Tended(k)'
  <2> DEFINE r == Head(worker[j].stdin)
  <2>1. /\ worker[j].stdin # <<>> /\ r \in Requests
        /\ Becomes(j, "alive", worker[j].lock, Tail(worker[j].stdin), worker[j].stdout, r)
        /\ Started(r) /\ UNCHANGED <<code, table>>
    BY <1>11, ExecuteDoes
  <2>2. ran'[r] > 0 /\ \A q \in Requests : ran[q] > 0 => ran'[q] > 0
    BY <1>t, <2>1 DEF Started
  <2>3. CASE k # j
    BY <1>p, <1>t, <2>1, <2>2, <2>3 DEF Tended, Becomes
  <2>4. CASE k = j
    <3>1. /\ worker'[k].life = "alive" /\ worker'[k].runs = r
          /\ worker'[k].stdin = Tail(worker[k].stdin)
      BY <2>1, <2>4 DEF Becomes
    <3>2. \A n \in 1 .. Len(worker'[k].stdin) : code[worker'[k].stdin[n]] # None
      BY <1>p, <1>t, <2>1, <2>4, <3>1 DEF Tended
    <3> HIDE DEF r
    <3> QED
      BY <2>1, <2>2, <3>1, <3>2 DEF Tended
  <2> QED
    BY <2>3, <2>4
<1>12. ASSUME NEW j \in Workers, WriteStray(j) PROVE Tended(k)'
  BY <1>12, WriteDoes
     DEF Processes, Tended, Threads, Attends, Working, Moved, Returned, Becomes, Started
<1>13. ASSUME NEW j \in Workers, Respond(j) PROVE Tended(k)'
  BY <1>13, <1>p, RespondKeeps DEF Tended
<1>14. ASSUME NEW j \in Workers, ExitWorker(j) PROVE Tended(k)'
  BY <1>14, ExitDoes
     DEF Processes, Tended, Threads, Attends, Working, Moved, Returned, Becomes, Started
<1>15. ASSUME NEW a \in Callers, StartFails(a) PROVE Tended(k)'
  BY <1>15, StartFailsDoes
     DEF Processes, Tended, Threads, Attends, Working, Moved, Returned, Becomes, Started
<1>16. ASSUME NEW a \in Callers, PublishWorker(a) PROVE Tended(k)'
  BY <1>16, PublishDoes
     DEF Processes, Tended, Threads, Attends, Working, Moved, Returned, Becomes, Started
<1>17. ASSUME NEW a \in Callers, NoBackend(a) PROVE Tended(k)'
  BY <1>17, NoBackendDoes
     DEF Processes, Tended, Threads, Attends, Working, Moved, Returned, Becomes, Started
<1> QED
  BY <1>1, <1>2, <1>3, <1>4, <1>5, <1>6, <1>7, <1>8, <1>9, <1>10,
     <1>11, <1>12, <1>13,
     <1>14, <1>15, <1>16, <1>17 DEF Next, CallerStep, WorkerStep

LEMMA DropsStep == Inv /\ [Next]_vars => Drops'
<1> SUFFICES ASSUME Inv, [Next]_vars, NEW c \in Callers PROVE Ended(c)'
  BY DEF Drops
<1> USE NoneIsNone, NoneIsNoWord, WorkersAreRequests DEF Inv
<1>d. \A d \in Callers : Ended(d) /\ Attends(d)
  BY DEF Drops, Threads
<1>1. CASE UNCHANGED vars
  BY <1>1, <1>d DEF vars, Ended
<1>2. ASSUME NEW a \in Callers, Call(a) PROVE Ended(c)'
  BY <1>2, CallDoes, <1>d
     DEF Ended, Threads, Attends, Working, Moved, Returned, Becomes, Started
<1>3. ASSUME NEW a \in Callers, FindWorker(a) PROVE Ended(c)'
  BY <1>3, FindDoes, <1>d
     DEF Ended, Threads, Attends, Working, Moved, Returned, Becomes, Started
<1>4. ASSUME NEW a \in Callers, StartWorker(a) PROVE Ended(c)'
  <2> DEFINE i == caller[a].req
  <2>1. /\ i \in Workers /\ worker[i].life = "unborn"
        /\ caller'[a].at = "publish" /\ \A d \in Callers \ {a} : caller'[d] = caller[d]
        /\ \A k \in Workers \ {i} : worker'[k] = worker[k]
        /\ UNCHANGED <<table, raced>>
    BY <1>4, StartDoes DEF Moved, Becomes
  <2> HIDE DEF i
  <2> QED
    BY <1>d, <2>1 DEF Ended, Attends, Working
<1>5. ASSUME NEW a \in Callers, Send(a) PROVE Ended(c)'
  <2> DEFINE i == caller[a].worker
  <2>1. i \in Workers /\ worker[i].lock = None /\ UNCHANGED <<table, raced>>
    BY <1>5, SendDoes
  <2>2. \/ /\ worker[i].life = "alive"
           /\ \A k \in Workers \ {i} : worker'[k] = worker[k]
        \/ UNCHANGED worker
    BY <1>5, SendDoes DEF Becomes
  <2>3. caller'[a].at # "drop" /\ \A d \in Callers \ {a} : caller'[d] = caller[d]
    BY <1>5, SendDoes DEF Moved
  <2> HIDE DEF i
  <2> QED
    BY <1>d, <2>1, <2>2, <2>3 DEF Ended, Attends, Working
<1>6. ASSUME NEW a \in Callers, Receive(a) PROVE Ended(c)'
  <2> DEFINE i == caller[a].worker
  <2>1. /\ i \in Workers /\ worker'[i].life = worker[i].life /\ worker'[i].lock = None
        /\ \A k \in Workers \ {i} : worker'[k] = worker[k]
        /\ UNCHANGED <<table, raced>>
    BY <1>6, ReceiveDoes DEF Becomes
  <2>2. caller'[a].at # "drop" /\ \A d \in Callers \ {a} : caller'[d] = caller[d]
    BY <1>6, ReceiveDoes DEF Moved, Returned
  <2> HIDE DEF i
  <2> QED
    BY <1>d, <2>1, <2>2 DEF Ended, Attends, Working
<1>7. ASSUME NEW a \in Callers, ReadEnd(a) PROVE Ended(c)'
  BY <1>7, ReadEndDoes, <1>d
     DEF Ended, Threads, Attends, Working, Moved, Returned, Becomes, Started
<1>8. ASSUME NEW a \in Callers, TimeOut(a) PROVE Ended(c)'
  <2> DEFINE i == caller[a].worker
  <2>1. i \in Workers /\ worker[i].lock = a
    BY <1>8, TimeOutDoes, ReaderHasLock
  <2>2. raced \/ table = i
    BY <2>1 DEF Held
  <2>3. \A d \in Callers : caller[d].at = "drop" => caller[d].worker # i
    BY <1>d, <2>1 DEF Ended
  <2>4. CASE c = a
    BY <1>8, <1>d, <2>1, <2>2, <2>3, <2>4, TimeOutDoes DEF Ended, Moved, Becomes
  <2>5. CASE c # a
    BY <1>8, <1>d, <2>1, <2>2, <2>3, <2>5, TimeOutDoes
       DEF Ended, Attends, Working, Moved, Becomes
  <2> QED
    BY <2>4, <2>5
<1>9. ASSUME NEW a \in Callers, DropWorker(a) PROVE Ended(c)'
  BY <1>9, DropDoes, <1>d
     DEF Ended, Threads, Attends, Working, Moved, Returned, Becomes, Started
<1>10. ASSUME NEW a \in Callers, Fallback(a) PROVE Ended(c)'
  BY <1>10, FallbackDoes, <1>d
     DEF Ended, Threads, Attends, Working, Moved, Returned, Becomes, Started
<1>11. ASSUME NEW j \in Workers, Execute(j) PROVE Ended(c)'
  BY <1>11, ExecuteDoes, <1>d
     DEF Ended, Threads, Attends, Working, Moved, Returned, Becomes, Started
<1>12. ASSUME NEW j \in Workers, WriteStray(j) PROVE Ended(c)'
  BY <1>12, WriteDoes, <1>d
     DEF Ended, Threads, Attends, Working, Moved, Returned, Becomes, Started
<1>13. ASSUME NEW j \in Workers, Respond(j) PROVE Ended(c)'
  BY <1>13, <1>d, RespondKeeps DEF Ended, Attends, Working
<1>14. ASSUME NEW j \in Workers, ExitWorker(j) PROVE Ended(c)'
  BY <1>14, ExitDoes, <1>d
     DEF Ended, Threads, Attends, Working, Moved, Returned, Becomes, Started
<1>15. ASSUME NEW a \in Callers, StartFails(a) PROVE Ended(c)'
  BY <1>15, <1>d, StartFailsDoes
     DEF Ended, Threads, Attends, Working, Moved, Returned, Becomes, Started
<1>16. ASSUME NEW a \in Callers, PublishWorker(a) PROVE Ended(c)'
  <2>1. /\ caller'[a].at = "lock" /\ \A d \in Callers \ {a} : caller'[d] = caller[d]
        /\ UNCHANGED worker /\ caller[a].at = "publish"
        /\ raced \/ table # None => raced'
    BY <1>16, PublishDoes DEF Moved
  <2>2. CASE caller[c].at = "drop" /\ c # a
    <3>1. caller[c].worker \in Workers /\ (raced \/ table = caller[c].worker)
      BY <1>d, <2>2 DEF Ended, Attends, Working
    <3>2. raced'
      BY <2>1, <3>1
    <3> QED
      BY <1>d, <2>1, <2>2, <3>2 DEF Ended
  <2>3. CASE caller[c].at # "drop" \/ c = a
    BY <2>1, <2>3 DEF Ended
  <2> QED
    BY <2>2, <2>3
<1>17. ASSUME NEW a \in Callers, NoBackend(a) PROVE Ended(c)'
  BY <1>17, <1>d, NoBackendDoes
     DEF Ended, Threads, Attends, Working, Moved, Returned, Becomes, Started
<1> QED
  BY <1>1, <1>2, <1>3, <1>4, <1>5, <1>6, <1>7, <1>8, <1>9, <1>10,
     <1>11, <1>12, <1>13,
     <1>14, <1>15, <1>16, <1>17 DEF Next, CallerStep, WorkerStep

\* Where a live worker is known.
Kept(k) ==
    \/ k = table \/ raced
    \/ \E c \in Callers : caller[c].at = "publish" /\ caller[c].worker = k

LEMMA OrphansStep == Inv /\ [Next]_vars => OrphansNeedRace'
<1> SUFFICES ASSUME Inv, [Next]_vars, NEW k \in Workers, (worker[k].life = "alive")'
             PROVE  Kept(k)'
  BY DEF OrphansNeedRace, Kept
<1>o. worker[k].life = "alive" => Kept(k)
  BY DEF Inv, OrphansNeedRace, Kept
<1> USE NoneIsNone, NoneIsNoWord, WorkersAreRequests DEF Inv
<1>1. CASE UNCHANGED vars
  BY <1>o, <1>1 DEF vars, Kept
<1>2. ASSUME NEW a \in Callers, Call(a) PROVE Kept(k)'
  BY <1>o, <1>2, CallDoes DEF Kept, Moved, Returned, Becomes, Started
<1>3. ASSUME NEW a \in Callers, FindWorker(a) PROVE Kept(k)'
  BY <1>o, <1>3, FindDoes DEF Kept, Moved, Returned, Becomes, Started
<1>4. ASSUME NEW a \in Callers, StartWorker(a) PROVE Kept(k)'
  BY <1>4, <1>o, StartDoes DEF Kept, Moved, Returned, Becomes
<1>5. ASSUME NEW a \in Callers, Send(a) PROVE Kept(k)'
  BY <1>o, <1>5, SendDoes DEF Kept, Moved, Returned, Becomes, Started
<1>6. ASSUME NEW a \in Callers, Receive(a) PROVE Kept(k)'
  BY <1>o, <1>6, ReceiveDoes DEF Kept, Moved, Returned, Becomes, Started
<1>7. ASSUME NEW a \in Callers, ReadEnd(a) PROVE Kept(k)'
  BY <1>o, <1>7, ReadEndDoes DEF Kept, Moved, Returned, Becomes, Started
<1>8. ASSUME NEW a \in Callers, TimeOut(a) PROVE Kept(k)'
  BY <1>o, <1>8, TimeOutDoes DEF Kept, Moved, Returned, Becomes, Started
<1>9. ASSUME NEW a \in Callers, DropWorker(a) PROVE Kept(k)'
  BY <1>o, <1>9, DropDoes DEF Kept, Moved, Returned, Becomes, Started
<1>10. ASSUME NEW a \in Callers, Fallback(a) PROVE Kept(k)'
  BY <1>o, <1>10, FallbackDoes DEF Kept, Moved, Returned, Becomes, Started
<1>11. ASSUME NEW j \in Workers, Execute(j) PROVE Kept(k)'
  BY <1>o, <1>11, ExecuteDoes DEF Kept, Moved, Returned, Becomes, Started
<1>12. ASSUME NEW j \in Workers, WriteStray(j) PROVE Kept(k)'
  BY <1>o, <1>12, WriteDoes DEF Kept, Moved, Returned, Becomes, Started
<1>13. ASSUME NEW j \in Workers, Respond(j) PROVE Kept(k)'
  BY <1>o, <1>13, RespondKeeps DEF Kept
<1>14. ASSUME NEW j \in Workers, ExitWorker(j) PROVE Kept(k)'
  BY <1>o, <1>14, ExitDoes DEF Kept, Moved, Returned, Becomes, Started
<1>15. ASSUME NEW a \in Callers, StartFails(a) PROVE Kept(k)'
  BY <1>15, <1>o, StartFailsDoes DEF Kept, Moved, Returned, Becomes
<1>16. ASSUME NEW a \in Callers, PublishWorker(a) PROVE Kept(k)'
  <2>1. /\ table' = caller[a].worker /\ \A d \in Callers \ {a} : caller'[d] = caller[d]
        /\ UNCHANGED worker /\ (raced \/ table # None => raced')
    BY <1>16, PublishDoes DEF Moved
  <2>2. CASE k = table \/ raced
    BY <2>1, <2>2 DEF Kept
  <2>3. CASE \E d \in Callers : caller[d].at = "publish" /\ caller[d].worker = k
    BY <2>1, <2>3 DEF Kept
  <2> QED
    BY <1>o, <2>1, <2>2, <2>3 DEF Kept
<1>17. ASSUME NEW a \in Callers, NoBackend(a) PROVE Kept(k)'
  BY <1>17, <1>o, NoBackendDoes DEF Kept, Moved, Returned, Becomes
<1> QED
  BY <1>1, <1>2, <1>3, <1>4, <1>5, <1>6, <1>7, <1>8, <1>9, <1>10,
     <1>11, <1>12, <1>13,
     <1>14, <1>15, <1>16, <1>17 DEF Next, CallerStep, WorkerStep

LEMMA HeldStep == Inv /\ [Next]_vars => Held'
<1> SUFFICES ASSUME Inv, [Next]_vars, NEW k \in Workers, (worker[k].lock # None)'
             PROVE  (k = table \/ raced)'
  BY DEF Held
<1> USE NoneIsNone, NoneIsNoWord, WorkersAreRequests DEF Inv
<1>1. CASE UNCHANGED vars
  BY <1>1 DEF vars, Held, OrphansNeedRace
<1>2. ASSUME NEW a \in Callers, Call(a) PROVE (k = table \/ raced)'
  BY <1>2, CallDoes DEF Held, OrphansNeedRace, Moved, Returned, Becomes, Started
<1>3. ASSUME NEW a \in Callers, FindWorker(a) PROVE (k = table \/ raced)'
  BY <1>3, FindDoes DEF Held, OrphansNeedRace, Moved, Returned, Becomes, Started
<1>4. ASSUME NEW a \in Callers, StartWorker(a) PROVE (k = table \/ raced)'
  BY <1>4, StartDoes DEF Held, Moved, Returned, Becomes
<1>5. ASSUME NEW a \in Callers, Send(a) PROVE (k = table \/ raced)'
  <2> DEFINE i == caller[a].worker
  <2>1. i \in Workers /\ caller[a].at = "lock" /\ UNCHANGED <<table, raced>>
    BY <1>5, SendDoes
  <2>2. CASE worker[k].lock # None
    BY <2>1, <2>2 DEF Held
  <2>3. CASE worker[k].lock = None
    <3>1. k = i /\ worker[k].life = "alive"
      BY <1>5, <2>3, SendDoes DEF Becomes
    <3>2. \A d \in Callers : caller[d].at = "publish" => caller[d].worker # k
      BY <2>1, <3>1 DEF Secrets, Unshared, Working
    <3> QED
      BY <2>1, <3>1, <3>2 DEF OrphansNeedRace
  <2> QED
    BY <2>2, <2>3
<1>6. ASSUME NEW a \in Callers, Receive(a) PROVE (k = table \/ raced)'
  BY <1>6, ReceiveDoes DEF Held, OrphansNeedRace, Moved, Returned, Becomes, Started
<1>7. ASSUME NEW a \in Callers, ReadEnd(a) PROVE (k = table \/ raced)'
  BY <1>7, ReadEndDoes DEF Held, OrphansNeedRace, Moved, Returned, Becomes, Started
<1>8. ASSUME NEW a \in Callers, TimeOut(a) PROVE (k = table \/ raced)'
  BY <1>8, TimeOutDoes DEF Held, OrphansNeedRace, Moved, Returned, Becomes, Started
<1>9. ASSUME NEW a \in Callers, DropWorker(a) PROVE (k = table \/ raced)'
  <2>1. Ended(a) /\ caller[a].at = "drop"
    BY <1>9, DropDoes DEF Drops
  <2> QED
    BY <1>9, <2>1, DropDoes DEF Held, Ended, Becomes
<1>10. ASSUME NEW a \in Callers, Fallback(a) PROVE (k = table \/ raced)'
  BY <1>10, FallbackDoes DEF Held, OrphansNeedRace, Moved, Returned, Becomes, Started
<1>11. ASSUME NEW j \in Workers, Execute(j) PROVE (k = table \/ raced)'
  BY <1>11, ExecuteDoes DEF Held, OrphansNeedRace, Moved, Returned, Becomes, Started
<1>12. ASSUME NEW j \in Workers, WriteStray(j) PROVE (k = table \/ raced)'
  BY <1>12, WriteDoes DEF Held, OrphansNeedRace, Moved, Returned, Becomes, Started
<1>13. ASSUME NEW j \in Workers, Respond(j) PROVE (k = table \/ raced)'
  BY <1>13, RespondKeeps DEF Held
<1>14. ASSUME NEW j \in Workers, ExitWorker(j) PROVE (k = table \/ raced)'
  BY <1>14, ExitDoes DEF Held, OrphansNeedRace, Moved, Returned, Becomes, Started
<1>15. ASSUME NEW a \in Callers, StartFails(a) PROVE (k = table \/ raced)'
  BY <1>15, StartFailsDoes DEF Held, Moved, Returned, Becomes
<1>16. ASSUME NEW a \in Callers, PublishWorker(a) PROVE (k = table \/ raced)'
  <2>1. raced \/ table # None => raced'
    BY <1>16, PublishDoes
  <2>2. worker' = worker
    BY <1>16, PublishDoes
  <2> QED
    BY <2>1, <2>2 DEF Held
<1>17. ASSUME NEW a \in Callers, NoBackend(a) PROVE (k = table \/ raced)'
  BY <1>17, NoBackendDoes DEF Held, Moved, Returned, Becomes
<1> QED
  BY <1>1, <1>2, <1>3, <1>4, <1>5, <1>6, <1>7, <1>8, <1>9, <1>10,
     <1>11, <1>12, <1>13,
     <1>14, <1>15, <1>16, <1>17 DEF Next, CallerStep, WorkerStep

LEMMA CleanBack == Inv /\ [Next]_vars /\ Clean' => Clean
<1> SUFFICES ASSUME Inv, [Next]_vars, Clean', NEW r \in Requests, ran[r] > 0
             PROVE  code[r] # "stray"
  BY DEF Clean
<1> USE NoneIsNone, NoneIsNoWord, WorkersAreRequests DEF Inv
<1>t. ran \in [Requests -> Nat]
  BY DEF Typed
<1>r. (ran[r] > 0)' => (code[r] # "stray")'
  BY DEF Clean
<1>u. code[r] # None
  BY <1>t DEF Unasked
<1>1. CASE UNCHANGED vars
  BY <1>1 DEF vars, Clean
<1>2. ASSUME NEW a \in Callers, Call(a) PROVE code[r] # "stray"
  BY <1>2, CallDoes, <1>t, <1>r, <1>u DEF Clean, Moved, Returned, Becomes, Started
<1>3. ASSUME NEW a \in Callers, FindWorker(a) PROVE code[r] # "stray"
  BY <1>3, FindDoes, <1>t, <1>r, <1>u DEF Clean, Moved, Returned, Becomes, Started
<1>4. ASSUME NEW a \in Callers, StartWorker(a) PROVE code[r] # "stray"
  BY <1>4, <1>t, <1>r, <1>u, StartDoes DEF Clean, Moved, Returned, Becomes, Started
<1>5. ASSUME NEW a \in Callers, Send(a) PROVE code[r] # "stray"
  BY <1>5, SendDoes, <1>t, <1>r, <1>u DEF Clean, Moved, Returned, Becomes, Started
<1>6. ASSUME NEW a \in Callers, Receive(a) PROVE code[r] # "stray"
  BY <1>6, ReceiveDoes, <1>t, <1>r, <1>u DEF Clean, Moved, Returned, Becomes, Started
<1>7. ASSUME NEW a \in Callers, ReadEnd(a) PROVE code[r] # "stray"
  BY <1>7, ReadEndDoes, <1>t, <1>r, <1>u DEF Clean, Moved, Returned, Becomes, Started
<1>8. ASSUME NEW a \in Callers, TimeOut(a) PROVE code[r] # "stray"
  BY <1>8, TimeOutDoes, <1>t, <1>r, <1>u DEF Clean, Moved, Returned, Becomes, Started
<1>9. ASSUME NEW a \in Callers, DropWorker(a) PROVE code[r] # "stray"
  BY <1>9, DropDoes, <1>t, <1>r, <1>u DEF Clean, Moved, Returned, Becomes, Started
<1>10. ASSUME NEW a \in Callers, Fallback(a) PROVE code[r] # "stray"
  BY <1>10, FallbackDoes, <1>t, <1>r, <1>u DEF Clean, Moved, Returned, Becomes, Started
<1>11. ASSUME NEW j \in Workers, Execute(j) PROVE code[r] # "stray"
  <2>1. PICK q \in Requests : Started(q)
    BY <1>11, ExecuteDoes
  <2> QED
    BY <1>11, <1>t, <1>r, <2>1, ExecuteDoes DEF Started
<1>12. ASSUME NEW j \in Workers, WriteStray(j) PROVE code[r] # "stray"
  BY <1>12, WriteDoes, <1>t, <1>r, <1>u DEF Clean, Moved, Returned, Becomes, Started
<1>13. ASSUME NEW j \in Workers, Respond(j) PROVE code[r] # "stray"
  BY <1>13, <1>r, RespondKeeps
<1>14. ASSUME NEW j \in Workers, ExitWorker(j) PROVE code[r] # "stray"
  BY <1>14, ExitDoes, <1>t, <1>r, <1>u DEF Clean, Moved, Returned, Becomes, Started
<1>15. ASSUME NEW a \in Callers, StartFails(a) PROVE code[r] # "stray"
  BY <1>15, <1>t, <1>r, <1>u, StartFailsDoes DEF Clean, Moved, Returned, Becomes, Started
<1>16. ASSUME NEW a \in Callers, PublishWorker(a) PROVE code[r] # "stray"
  BY <1>16, <1>t, <1>r, <1>u, PublishDoes DEF Clean, Moved, Returned, Becomes, Started
<1>17. ASSUME NEW a \in Callers, NoBackend(a) PROVE code[r] # "stray"
  BY <1>17, <1>t, <1>r, <1>u, NoBackendDoes DEF Clean, Moved, Returned, Becomes, Started
<1> QED
  BY <1>1, <1>2, <1>3, <1>4, <1>5, <1>6, <1>7, <1>8, <1>9, <1>10,
     <1>11, <1>12, <1>13,
     <1>14, <1>15, <1>16, <1>17 DEF Next, CallerStep, WorkerStep

LEMMA OneLine ==
    ASSUME NEW x
    PROVE  /\ Append(<<>>, x) = <<x>> /\ Head(<<x>>) = x /\ Tail(<<x>>) = <<>>
           /\ <<x>> # <<>>
  OBVIOUS

LEMMA PipesFrame ==
    ASSUME NEW k \in Workers, Pipes(k), worker'[k] = worker[k],
           worker[k].lock # None => caller'[worker[k].lock] = caller[worker[k].lock]
    PROVE  Pipes(k)'
  BY DEF Pipes


LEMMA PipesStep == Inv /\ [Next]_vars /\ Clean' => AllPipes'
<1> SUFFICES ASSUME Inv, [Next]_vars, Clean', NEW k \in Workers PROVE Pipes(k)'
  BY DEF AllPipes
<1>c. Clean
  BY CleanBack
<1> USE NoneIsNone, NoneIsNoWord, WorkersAreRequests DEF Inv
<1>p. Pipes(k) /\ \A i \in Workers : Pipes(i)
  BY <1>c DEF AllPipes
<1>t. Tended(k)
  BY DEF Processes
<1>l. /\ worker[k].lock \in Callers \cup {None}
      /\ \A d \in Callers : worker[k].lock = d => caller[d].at = "read" /\ caller[d].worker = k
  BY DEF Typed, Process, Locks, HasLock
<1>1. CASE UNCHANGED vars
  BY <1>1, <1>p DEF vars, Pipes
<1>2. ASSUME NEW a \in Callers, Call(a) PROVE Pipes(k)'
  <2>1. UNCHANGED worker /\ worker[k].lock # a
        /\ \A d \in Callers \ {a} : caller'[d] = caller[d]
    BY <1>2, <1>l, CallDoes
  <2>2. worker[k].lock # None => worker[k].lock \in Callers \ {a}
    BY <1>l, <2>1
  <2> QED
    BY <1>p, <2>1, <2>2, PipesFrame
<1>3. ASSUME NEW a \in Callers, FindWorker(a) PROVE Pipes(k)'
  <2>1. UNCHANGED worker /\ worker[k].lock # a
        /\ \A d \in Callers \ {a} : caller'[d] = caller[d]
    BY <1>3, <1>l, FindDoes DEF Moved
  <2>2. worker[k].lock # None => worker[k].lock \in Callers \ {a}
    BY <1>l, <2>1
  <2> QED
    BY <1>p, <2>1, <2>2, PipesFrame
<1>4. ASSUME NEW a \in Callers, StartWorker(a) PROVE Pipes(k)'
  <2>1. /\ caller[a].at = "make" /\ caller[a].req \in Workers
        /\ Becomes(caller[a].req, "alive", worker[caller[a].req].lock,
                   worker[caller[a].req].stdin, worker[caller[a].req].stdout,
                   worker[caller[a].req].runs)
        /\ \A d \in Callers \ {a} : caller'[d] = caller[d]
    BY <1>4, StartDoes DEF Moved
  <2>2. worker[caller[a].req].life = "unborn"
    BY <2>1 DEF Threads, Attends, Working
  <2>3. worker[k].lock # None => worker[k].lock \in Callers \ {a}
    BY <1>l, <2>1
  <2>4. CASE k = caller[a].req
    BY <1>p, <1>t, <2>1, <2>2, <2>3, <2>4 DEF Pipes, Tended, Becomes
  <2>5. CASE k # caller[a].req
    <3>1. worker'[k] = worker[k]
      BY <2>1, <2>5 DEF Becomes
    <3> QED
      BY <1>p, <2>1, <2>3, <3>1, PipesFrame
  <2> QED
    BY <2>4, <2>5
<1>5. ASSUME NEW a \in Callers, Send(a) PROVE Pipes(k)'
  <2> DEFINE i == caller[a].worker
             r == caller[a].req
  <2>1. /\ i \in Workers /\ worker[i].lock = None /\ caller[a].at = "lock"
        /\ caller'[a].req = r /\ \A d \in Callers \ {a} : caller'[d] = caller[d]
    BY <1>5, SendDoes DEF Moved
  <2>2. worker[k].lock # None => worker[k].lock \in Callers \ {a}
    BY <1>l, <2>1
  <2>3. CASE UNCHANGED worker
    BY <1>p, <2>1, <2>2, <2>3 DEF Pipes
  <2>4. CASE worker # worker'
    <3>1. /\ worker[i].life = "alive"
          /\ Becomes(i, "alive", a, Append(worker[i].stdin, r), worker[i].stdout, worker[i].runs)
      BY <1>5, <2>4, SendDoes
    <3>2. CASE k # i
      <4>1. worker'[k] = worker[k]
        BY <3>1, <3>2 DEF Becomes
      <4> QED
        BY <1>p, <2>1, <2>2, <4>1, PipesFrame
    <3>3. CASE k = i
      <4>1. worker[k].stdin = <<>> /\ worker[k].stdout = <<>> /\ worker[k].runs = None
        BY <1>p, <2>1, <3>1, <3>3 DEF Pipes
      <4>2. /\ worker'[k].life = "alive" /\ worker'[k].lock = a /\ worker'[k].stdin = <<r>>
            /\ worker'[k].stdout = <<>> /\ worker'[k].runs = None
        BY <3>1, <3>3, <4>1, OneLine DEF Becomes
      <4>3. r \in Requests
        BY <2>1 DEF Threads, Attends, Working
      <4> QED
        BY <2>1, <4>2, <4>3 DEF Pipes
    <3> QED
      BY <3>2, <3>3
  <2> QED
    BY <2>3, <2>4
<1>6. ASSUME NEW a \in Callers, Receive(a) PROVE Pipes(k)'
  <2> DEFINE i == caller[a].worker
  <2>1. /\ i \in Workers /\ worker[i].stdout # <<>>
        /\ Becomes(i, worker[i].life, None, worker[i].stdin, Tail(worker[i].stdout),
                   worker[i].runs)
        /\ \A d \in Callers \ {a} : caller'[d] = caller[d]
    BY <1>6, ReceiveDoes DEF Moved, Returned
  <2>2. worker[i].lock = a
    BY <1>6, ReceiveDoes, ReaderHasLock
  <2>3. CASE k # i
    <3>1. worker[k].lock # None => worker[k].lock \in Callers \ {a}
      BY <1>l, <2>3
    <3>2. worker'[k] = worker[k]
      BY <2>1, <2>3 DEF Becomes
    <3> QED
      BY <1>p, <2>1, <3>1, <3>2, PipesFrame
  <2>4. CASE k = i
    <3>1. worker[k].stdin = <<>> /\ worker[k].runs = None
          /\ \E r \in Requests : worker[k].stdout = <<[answer |-> r]>>
      BY <1>p, <2>1, <2>2, <2>4 DEF Pipes
    <3>2. Tail(worker[k].stdout) = <<>>
      BY <3>1, OneLine
    <3>3. /\ worker'[k].lock = None /\ worker'[k].stdin = <<>> /\ worker'[k].stdout = <<>>
          /\ worker'[k].runs = None
      BY <2>1, <2>4, <3>1, <3>2 DEF Becomes
    <3> QED
      BY <3>3 DEF Pipes
  <2> QED
    BY <2>3, <2>4
<1>7. ASSUME NEW a \in Callers, ReadEnd(a) PROVE Pipes(k)'
  <2> DEFINE i == caller[a].worker
  <2>1. /\ i \in Workers /\ worker[i].life = "dead" /\ worker[i].stdout = <<>>
        /\ Becomes(i, "dead", None, worker[i].stdin, <<>>, worker[i].runs)
        /\ \A d \in Callers \ {a} : caller'[d] = caller[d]
    BY <1>7, ReadEndDoes DEF Moved
  <2>2. worker[i].lock = a
    BY <1>7, ReadEndDoes, ReaderHasLock
  <2>3. CASE k # i
    <3>1. worker[k].lock # None => worker[k].lock \in Callers \ {a}
      BY <1>l, <2>3
    <3>2. worker'[k] = worker[k]
      BY <2>1, <2>3 DEF Becomes
    <3> QED
      BY <1>p, <2>1, <3>1, <3>2, PipesFrame
  <2>4. CASE k = i
    <3>1. worker[k].stdin = <<>> /\ worker[k].runs = None
      BY <1>p, <2>1, <2>4 DEF Pipes
    <3> QED
      BY <2>1, <2>4, <3>1 DEF Pipes, Becomes
  <2> QED
    BY <2>3, <2>4
<1>8. ASSUME NEW a \in Callers, TimeOut(a) PROVE Pipes(k)'
  <2> DEFINE i == caller[a].worker
  <2>1. /\ i \in Workers
        /\ Becomes(i, "dead", None, <<>>, worker[i].stdout, None)
        /\ \A d \in Callers \ {a} : caller'[d] = caller[d]
    BY <1>8, TimeOutDoes DEF Moved
  <2>2. worker[i].lock = a
    BY <1>8, TimeOutDoes, ReaderHasLock
  <2>3. CASE k # i
    <3>1. worker[k].lock # None => worker[k].lock \in Callers \ {a}
      BY <1>l, <2>3
    <3>2. worker'[k] = worker[k]
      BY <2>1, <2>3 DEF Becomes
    <3> QED
      BY <1>p, <2>1, <3>1, <3>2, PipesFrame
  <2>4. CASE k = i
    BY <2>1, <2>4 DEF Pipes, Becomes
  <2> QED
    BY <2>3, <2>4
<1>9. ASSUME NEW a \in Callers, DropWorker(a) PROVE Pipes(k)'
  <2>1. caller[a].at = "drop" /\ \A d \in Callers \ {a} : caller'[d] = caller[d]
    BY <1>9, DropDoes DEF Returned
  <2>2. worker[k].lock # None => worker[k].lock \in Callers \ {a}
    BY <1>l, <2>1
  <2>3. CASE worker'[k] = worker[k]
    BY <1>p, <2>1, <2>2, <2>3, PipesFrame
  <2>4. CASE worker'[k] # worker[k]
    <3>1. Becomes(k, "dead", worker[k].lock, <<>>, worker[k].stdout, None)
      BY <1>9, <2>4, DropDoes DEF Becomes
    <3>2. worker'[k].life = "dead" /\ worker'[k].lock = worker[k].lock
          /\ worker'[k].stdin = <<>> /\ worker'[k].stdout = worker[k].stdout
          /\ worker'[k].runs = None
      BY <3>1 DEF Becomes
    <3>3. worker[k].lock # None => caller'[worker[k].lock] = caller[worker[k].lock]
      BY <2>1, <2>2
    <3>4. worker[k].lock # None /\ worker[k].stdout # <<>> =>
              \E r \in Requests : r = caller[worker[k].lock].req
                                  /\ worker[k].stdout = <<[answer |-> r]>>
      BY <1>p DEF Pipes
    <3>5. CASE worker[k].lock = None \/ worker[k].stdout = <<>>
      BY <3>2, <3>5 DEF Pipes
    <3>6. CASE worker[k].lock # None /\ worker[k].stdout # <<>>
      BY <3>2, <3>3, <3>4, <3>6 DEF Pipes
    <3> QED
      BY <3>5, <3>6
  <2> QED
    BY <2>3, <2>4
<1>10. ASSUME NEW a \in Callers, Fallback(a) PROVE Pipes(k)'
  <2>1. UNCHANGED worker /\ worker[k].lock # a
        /\ \A d \in Callers \ {a} : caller'[d] = caller[d]
    BY <1>10, <1>l, FallbackDoes DEF Returned
  <2>2. worker[k].lock # None => worker[k].lock \in Callers \ {a}
    BY <1>l, <2>1
  <2> QED
    BY <1>p, <2>1, <2>2, PipesFrame
<1>11. ASSUME NEW j \in Workers, Execute(j) PROVE Pipes(k)'
  <2> DEFINE r == Head(worker[j].stdin)
  <2>1. /\ worker[j].life = "alive" /\ worker[j].runs = None /\ worker[j].stdin # <<>>
        /\ r \in Requests /\ UNCHANGED caller
        /\ Becomes(j, "alive", worker[j].lock, Tail(worker[j].stdin), worker[j].stdout, r)
    BY <1>11, ExecuteDoes
  <2>2. CASE k # j
    <3>1. worker'[k] = worker[k]
      BY <2>1, <2>2 DEF Becomes
    <3> QED
      BY <1>p, <2>1, <3>1, PipesFrame
  <2>3. CASE k = j
    <3>1. PICK q \in Requests : worker[k].lock # None /\ q = caller[worker[k].lock].req
                               /\ worker[k].stdin = <<q>> /\ worker[k].stdout = <<>>
      BY <1>p, <2>1, <2>3 DEF Pipes
    <3>2. r = q /\ Tail(worker[k].stdin) = <<>>
      BY <2>3, <3>1, OneLine
    <3>3. /\ worker'[k].life = "alive" /\ worker'[k].lock = worker[k].lock
          /\ worker'[k].stdin = <<>> /\ worker'[k].stdout = <<>> /\ worker'[k].runs = q
      BY <2>1, <2>3, <3>1, <3>2 DEF Becomes
    <3> QED
      BY <2>1, <3>1, <3>3 DEF Pipes
  <2> QED
    BY <2>2, <2>3
<1>12. ASSUME NEW j \in Workers, WriteStray(j) PROVE Pipes(k)'
  <2>1. ran[worker[j].runs] > 0 /\ worker[j].runs \in Requests
    BY <1>12, WriteDoes DEF Processes, Tended, Typed, Process
  <2> QED
    BY <1>12, <1>c, <2>1, WriteDoes DEF Clean
<1>13. ASSUME NEW j \in Workers, Respond(j) PROVE Pipes(k)'
  <2>1. worker[j].life = "alive" /\ worker[j].runs # None /\ UNCHANGED caller
        /\ Becomes(j, "alive", worker[j].lock, worker[j].stdin,
                   Append(worker[j].stdout, [answer |-> worker[j].runs]), None)
    BY <1>13, RespondDoes
  <2>2. CASE k # j
    <3>1. worker'[k] = worker[k]
      BY <1>13, <2>2, RespondKeeps
    <3> QED
      BY <1>p, <2>1, <3>1, PipesFrame
  <2>3. CASE k = j
    <3>1. PICK r \in Requests : r = worker[k].runs
      BY <2>1, <2>3 DEF Typed, Process
    <3>2. /\ worker[k].lock # None /\ r = caller[worker[k].lock].req
          /\ worker[k].stdout = <<>> /\ worker[k].stdin = <<>>
      BY <1>p, <2>1, <2>3, <3>1 DEF Pipes
    <3>3. Append(worker[k].stdout, [answer |-> r]) = <<[answer |-> r]>>
      BY <3>2, OneLine
    <3>4. /\ worker'[k].life = "alive" /\ worker'[k].lock = worker[k].lock
          /\ worker'[k].stdin = <<>> /\ worker'[k].stdout = <<[answer |-> r]>>
          /\ worker'[k].runs = None
      BY <2>1, <2>3, <3>1, <3>2, <3>3, Zenon DEF Becomes
    <3> QED
      BY <2>1, <3>2, <3>4 DEF Pipes
  <2> QED
    BY <2>2, <2>3
<1>14. ASSUME NEW j \in Workers, ExitWorker(j) PROVE Pipes(k)'
  <2>1. /\ worker[j].life = "alive" /\ worker[j].runs # None /\ UNCHANGED caller
        /\ Becomes(j, "dead", worker[j].lock, worker[j].stdin, worker[j].stdout, None)
    BY <1>14, ExitDoes
  <2>2. CASE k # j
    <3>1. worker'[k] = worker[k]
      BY <2>1, <2>2 DEF Becomes
    <3> QED
      BY <1>p, <2>1, <3>1, PipesFrame
  <2>3. CASE k = j
    BY <1>p, <2>1, <2>3 DEF Pipes, Becomes
  <2> QED
    BY <2>2, <2>3
<1>15. ASSUME NEW a \in Callers, StartFails(a) PROVE Pipes(k)'
  <2>1. UNCHANGED worker /\ worker[k].lock # a
        /\ \A d \in Callers \ {a} : caller'[d] = caller[d]
    BY <1>15, <1>l, StartFailsDoes DEF Moved
  <2>2. worker[k].lock # None => worker[k].lock \in Callers \ {a}
    BY <1>l, <2>1
  <2> QED
    BY <1>p, <2>1, <2>2, PipesFrame
<1>16. ASSUME NEW a \in Callers, PublishWorker(a) PROVE Pipes(k)'
  <2>1. UNCHANGED worker /\ worker[k].lock # a
        /\ \A d \in Callers \ {a} : caller'[d] = caller[d]
    BY <1>16, <1>l, PublishDoes DEF Moved
  <2>2. worker[k].lock # None => worker[k].lock \in Callers \ {a}
    BY <1>l, <2>1
  <2> QED
    BY <1>p, <2>1, <2>2, PipesFrame
<1>17. ASSUME NEW a \in Callers, NoBackend(a) PROVE Pipes(k)'
  <2>1. UNCHANGED worker /\ worker[k].lock # a
        /\ \A d \in Callers \ {a} : caller'[d] = caller[d]
    BY <1>17, <1>l, NoBackendDoes DEF Returned
  <2>2. worker[k].lock # None => worker[k].lock \in Callers \ {a}
    BY <1>l, <2>1
  <2> QED
    BY <1>p, <2>1, <2>2, PipesFrame
<1> QED
  BY <1>1, <1>2, <1>3, <1>4, <1>5, <1>6, <1>7, <1>8, <1>9, <1>10,
     <1>11, <1>12, <1>13,
     <1>14, <1>15, <1>16, <1>17 DEF Next, CallerStep, WorkerStep

\* The request in execution or on its way is that of the thread with the lock.
LEMMA HeadIsMine ==
    ASSUME Inv, Clean, NEW j \in Workers, worker[j].stdin # <<>>
    PROVE  \E d \in Callers :
              /\ worker[j].lock = d /\ caller[d].at = "read" /\ caller[d].worker = j
              /\ caller[d].req \in Requests /\ Head(worker[j].stdin) = caller[d].req
              /\ Tail(worker[j].stdin) = <<>> /\ ran[caller[d].req] = 0
<1>1. worker[j].lock \in Callers \cup {None}
  BY DEF Inv, Typed, Process
<1>2. PICK r \in Requests : /\ worker[j].lock # None /\ r = caller[worker[j].lock].req
                           /\ worker[j].stdin = <<r>>
  BY DEF Inv, AllPipes, Pipes
<1>3. PICK d \in Callers : worker[j].lock = d
  BY <1>1, <1>2
<1>4. caller[d].at = "read" /\ caller[d].worker = j
  BY <1>3 DEF Inv, Locks, HasLock
<1>5. ran[caller[d].req] = 0
  BY <1>4 DEF Inv, AllStarts, Starts
<1> QED
  BY <1>2, <1>3, <1>4, <1>5, OneLine

LEMMA RunIsMine ==
    ASSUME Inv, Clean, NEW j \in Workers, worker[j].runs # None
    PROVE  \E d \in Callers : /\ worker[j].lock = d /\ caller[d].at = "read"
                              /\ caller[d].worker = j /\ worker[j].runs = caller[d].req
<1>1. worker[j].lock \in Callers /\ worker[j].runs = caller[worker[j].lock].req
  BY DEF Inv, Typed, Process, AllPipes, Pipes
<1> QED
  BY <1>1 DEF Inv, Locks, HasLock

LEMMA LineIsMine ==
    ASSUME Inv, Clean, NEW c \in Callers, caller[c].at = "read",
           worker[caller[c].worker].stdout # <<>>
    PROVE  Head(worker[caller[c].worker].stdout).answer = caller[c].req
           /\ caller[c].req \in Requests
<1>1. caller[c].worker \in Workers /\ worker[caller[c].worker].lock = c
  BY ReaderHasLock
<1>2. PICK r \in Requests : /\ r = caller[c].req
                           /\ worker[caller[c].worker].stdout = <<[answer |-> r]>>
  BY <1>1, NoneIsNone DEF Inv, AllPipes, Pipes
<1> QED
  BY <1>2, OneLine

LEMMA StartsFrame ==
    ASSUME NEW c \in Callers, Inv, Starts(c), caller'[c] = caller[c],
           caller[c].at # "idle" =>
              /\ ran'[caller[c].req] = ran[caller[c].req]
              /\ code'[caller[c].req] = code[caller[c].req],
           raced => raced',
           caller[c].at = "read" => worker'[caller[c].worker] = worker[caller[c].worker]
    PROVE  Starts(c)'
  BY DEF Starts

\* What another thread does to its own worker leaves mine as it was.
LEMMA OthersWorker ==
    ASSUME Inv, NEW a \in Callers, NEW c \in Callers \ {a}, NEW i \in Workers,
           worker[i].lock \in {a, None}, caller[c].at = "read"
    PROVE  caller[c].worker # i
  BY ReaderHasLock, NoneIsNone

LEMMA StartsStep == Inv /\ [Next]_vars /\ Clean' => AllStarts'
<1> SUFFICES ASSUME Inv, [Next]_vars, Clean', NEW c \in Callers PROVE Starts(c)'
  BY DEF AllStarts
<1>c. Clean
  BY CleanBack
<1> USE NoneIsNone, NoneIsNoWord, WorkersAreRequests
<1>s. Starts(c)
  BY <1>c DEF Inv, AllStarts
<1>a. Attends(c) /\ \A d \in Callers : Attends(d)
  BY DEF Inv, Threads
<1>t. ran \in [Requests -> Nat]
  BY DEF Inv, Typed
<1>d. Typed /\ Threads
  BY DEF Inv
<1> USE <1>d
<1>1. CASE UNCHANGED vars
  BY <1>1, <1>s, StartsFrame DEF vars
<1>2. ASSUME NEW a \in Callers, Call(a) PROVE Starts(c)'
  <2>1. PICK r \in Requests :
          /\ code[r] = None /\ caller'[a].at = "find" /\ caller'[a].req = r
          /\ \A q \in Requests \ {r} : code'[q] = code[q]
          /\ \A d \in Callers \ {a} : caller'[d] = caller[d]
          /\ UNCHANGED <<worker, ran, raced>>
    BY <1>2, CallDoes
  <2>2. CASE c # a
    <3>1. caller[c].at # "idle" => code'[caller[c].req] = code[caller[c].req]
      BY <1>a, <2>1 DEF Attends, Working
    <3> QED
      BY <1>s, <2>1, <2>2, <3>1, StartsFrame
  <2>3. CASE c = a
    <3>1. ran'[r] = 0
      BY <2>1 DEF Inv, Unasked
    <3> QED
      BY <2>1, <2>3, <3>1 DEF Starts
  <2> QED
    BY <2>2, <2>3
<1>3. ASSUME NEW a \in Callers, FindWorker(a) PROVE Starts(c)'
  <2>1. CASE c # a
    <3>1. worker' = worker /\ caller'[c] = caller[c] /\ UNCHANGED <<code, ran, raced>>
      BY <1>3, <2>1, FindDoes DEF Moved
    <3> QED
      BY <1>s, <2>1, <3>1, StartsFrame
  <2>2. CASE c = a
    BY <1>3, <1>s, <2>2, FindDoes DEF Starts, Moved
  <2> QED
    BY <2>1, <2>2
<1>4. ASSUME NEW a \in Callers, StartWorker(a) PROVE Starts(c)'
  <2> DEFINE i == caller[a].req
  <2>1. /\ i \in Workers /\ caller[a].at = "make"
        /\ \A k \in Workers \ {i} : worker'[k] = worker[k]
        /\ Moved(a, "publish", i) /\ UNCHANGED ran
    BY <1>4, StartDoes DEF Becomes
  <2>2. CASE c # a
    <3>1. worker[i].life = "unborn"
      BY <1>a, <2>1 DEF Attends, Working
    <3>2. caller[c].at = "read" => caller[c].worker \in Workers \ {i}
      BY <3>1, ReaderHasLock
    <3>3. raced' = raced
      BY <1>4, StartDoes
    <3>4. caller'[c] = caller[c] /\ UNCHANGED <<code, ran>>
      BY <2>1, <2>2 DEF Moved
    <3> QED
      BY <1>s, <2>1, <3>2, <3>3, <3>4, StartsFrame
  <2>3. CASE c = a
    BY <1>s, <2>1, <2>3 DEF Starts, Moved
  <2> QED
    BY <2>2, <2>3
<1>5. ASSUME NEW a \in Callers, Send(a) PROVE Starts(c)'
  <2> DEFINE i == caller[a].worker
  <2>1. CASE c # a
    <3>1. /\ i \in Workers /\ worker[i].lock \in {a, None}
          /\ \A k \in Workers \ {i} : worker'[k] = worker[k]
          /\ caller'[c] = caller[c] /\ UNCHANGED <<code, ran, raced>>
      BY <1>5, <2>1, SendDoes, ReaderHasLock DEF Moved, Returned, Becomes
    <3>2. caller[c].at = "read" => caller[c].worker \in Workers \ {i}
      BY <2>1, <3>1, OthersWorker, ReaderHasLock
    <3> QED
      BY <1>s, <2>1, <3>1, <3>2, StartsFrame
  <2>2. CASE c = a
    <3>1. /\ caller[c].at = "lock" /\ caller'[c].at \in {"read", "fallback"}
          /\ caller'[c].req = caller[c].req /\ UNCHANGED ran
      BY <1>5, <2>2, SendDoes DEF Moved
    <3>2. ran'[caller'[c].req] = 0
      BY <1>s, <3>1 DEF Starts
    <3> QED
      BY <3>1, <3>2 DEF Starts
  <2> QED
    BY <2>1, <2>2
<1>6. ASSUME NEW a \in Callers, Receive(a) PROVE Starts(c)'
  <2> DEFINE i == caller[a].worker
  <2>1. CASE c # a
    <3>1. /\ i \in Workers /\ worker[i].lock \in {a, None}
          /\ \A k \in Workers \ {i} : worker'[k] = worker[k]
          /\ caller'[c] = caller[c] /\ UNCHANGED <<code, ran, raced>>
      BY <1>6, <2>1, ReceiveDoes, ReaderHasLock DEF Moved, Returned, Becomes
    <3>2. caller[c].at = "read" => caller[c].worker \in Workers \ {i}
      BY <2>1, <3>1, OthersWorker, ReaderHasLock
    <3> QED
      BY <1>s, <2>1, <3>1, <3>2, StartsFrame
  <2>2. CASE c = a
    <3>1. Head(worker[i].stdout).answer # None
      BY <1>6, <1>c, ReceiveDoes, LineIsMine
    <3>2. caller'[c].at = "idle"
      BY <1>6, <2>2, <3>1, ReceiveDoes DEF Returned
    <3> QED
      BY <3>2 DEF Starts
  <2> QED
    BY <2>1, <2>2
<1>7. ASSUME NEW a \in Callers, ReadEnd(a) PROVE Starts(c)'
  <2> DEFINE i == caller[a].worker
  <2>1. CASE c # a
    <3>1. /\ i \in Workers /\ worker[i].lock \in {a, None}
          /\ \A k \in Workers \ {i} : worker'[k] = worker[k]
          /\ caller'[c] = caller[c] /\ UNCHANGED <<code, ran, raced>>
      BY <1>7, <2>1, ReadEndDoes, ReaderHasLock DEF Moved, Returned, Becomes
    <3>2. caller[c].at = "read" => caller[c].worker \in Workers \ {i}
      BY <2>1, <3>1, OthersWorker, ReaderHasLock
    <3> QED
      BY <1>s, <2>1, <3>1, <3>2, StartsFrame
  <2>2. CASE c = a
    BY <1>7, <1>s, <2>2, ReadEndDoes DEF Starts, Moved
  <2> QED
    BY <2>1, <2>2
<1>8. ASSUME NEW a \in Callers, TimeOut(a) PROVE Starts(c)'
  <2> DEFINE i == caller[a].worker
  <2>1. CASE c # a
    <3>1. /\ i \in Workers /\ worker[i].lock \in {a, None}
          /\ \A k \in Workers \ {i} : worker'[k] = worker[k]
          /\ caller'[c] = caller[c] /\ UNCHANGED <<code, ran, raced>>
      BY <1>8, <2>1, TimeOutDoes, ReaderHasLock DEF Moved, Returned, Becomes
    <3>2. caller[c].at = "read" => caller[c].worker \in Workers \ {i}
      BY <2>1, <3>1, OthersWorker, ReaderHasLock
    <3> QED
      BY <1>s, <2>1, <3>1, <3>2, StartsFrame
  <2>2. CASE c = a
    BY <1>8, <1>s, <2>2, TimeOutDoes DEF Starts, Moved
  <2> QED
    BY <2>1, <2>2
<1>9. ASSUME NEW a \in Callers, DropWorker(a) PROVE Starts(c)'
  <2>1. CASE c = a
    BY <1>9, <2>1, DropDoes DEF Starts, Returned
  <2>2. CASE c # a
    <3>1. /\ caller[a].at = "drop" /\ caller'[c] = caller[c] /\ UNCHANGED <<code, ran, raced>>
      BY <1>9, <2>2, DropDoes DEF Returned
    <3>2. CASE caller[c].at = "read" => worker'[caller[c].worker] = worker[caller[c].worker]
      BY <1>s, <3>1, <3>2, StartsFrame
    <3>3. CASE caller[c].at = "read" /\ worker'[caller[c].worker] # worker[caller[c].worker]
      <4> DEFINE k == caller[c].worker
      <4>1. k \in Workers
        BY <3>3, ReaderHasLock
      <4>2. /\ table = k /\ worker'[k].life = "dead" /\ worker'[k].stdin = <<>>
            /\ worker'[k].stdout = worker[k].stdout
        BY <1>9, <3>3, <4>1, DropDoes DEF Becomes
      <4>3. raced \/ (table = caller[a].worker /\ worker[table].life = "dead")
        BY <3>1 DEF Inv, Drops, Ended
      <4>4. raced \/ worker[k].life = "dead"
        BY <4>2, <4>3
      <4> HIDE DEF k
      <4>5. k = caller[c].worker
        BY DEF k
      <4> QED
        BY <1>s, <3>1, <3>3, <4>2, <4>4, <4>5 DEF Starts
    <3> QED
      BY <3>2, <3>3
  <2> QED
    BY <2>1, <2>2
<1>10. ASSUME NEW a \in Callers, Fallback(a) PROVE Starts(c)'
  <2>1. CASE c # a
    <3>1. /\ worker' = worker /\ caller'[c] = caller[c] /\ UNCHANGED <<code, raced>>
          /\ caller[a].at = "fallback" /\ caller[a].req \in Requests /\ Started(caller[a].req)
      BY <1>10, <2>1, FallbackDoes DEF Returned
    <3>2. caller[c].at # "idle" => ran'[caller[c].req] = ran[caller[c].req]
      BY <1>a, <2>1, <3>1 DEF Attends, Working, Started
    <3> QED
      BY <1>s, <2>1, <3>1, <3>2, StartsFrame
  <2>2. CASE c = a
    BY <1>10, <2>2, FallbackDoes DEF Starts, Returned
  <2> QED
    BY <2>1, <2>2
<1>11. ASSUME NEW j \in Workers, Execute(j) PROVE Starts(c)'
  <2>1. PICK d \in Callers :
          /\ worker[j].lock = d /\ caller[d].at = "read" /\ caller[d].worker = j
          /\ caller[d].req \in Requests /\ Head(worker[j].stdin) = caller[d].req
          /\ Tail(worker[j].stdin) = <<>> /\ ran[caller[d].req] = 0
    BY <1>11, <1>c, ExecuteDoes, HeadIsMine
  <2>2. /\ Started(caller[d].req) /\ UNCHANGED <<caller, code, raced>>
        /\ worker'[j].life = "alive" /\ worker'[j].stdin = <<>>
        /\ \A k \in Workers \ {j} : worker'[k] = worker[k]
    BY <1>11, <2>1, ExecuteDoes DEF Becomes
  <2>3. CASE c = d
    <3>1. ran'[caller[c].req] = 1
      BY <1>t, <2>1, <2>2, <2>3 DEF Started
    <3> QED
      BY <2>1, <2>2, <2>3, <3>1 DEF Starts
  <2>4. CASE c # d
    <3>1. caller[c].at # "idle" => ran'[caller[c].req] = ran[caller[c].req]
      BY <1>a, <2>1, <2>2, <2>4 DEF Attends, Working, Started
    <3>2. caller[c].at = "read" => caller[c].worker \in Workers \ {j}
      BY <2>1, <2>4, OthersWorker, ReaderHasLock
    <3> QED
      BY <1>s, <2>2, <3>1, <3>2, StartsFrame
  <2> QED
    BY <2>3, <2>4
<1>12. ASSUME NEW j \in Workers, WriteStray(j) PROVE Starts(c)'
  <2>1. ran[worker[j].runs] > 0 /\ worker[j].runs \in Requests
    BY <1>12, WriteDoes DEF Inv, Processes, Tended, Typed, Process
  <2> QED
    BY <1>12, <1>c, <2>1, WriteDoes DEF Clean
<1>13. ASSUME NEW j \in Workers, Respond(j) PROVE Starts(c)'
  <2>1. /\ \A k \in Workers : worker'[k].life = worker[k].life /\ worker'[k].stdin = worker[k].stdin
        /\ \A k \in Workers \ {j} : worker'[k] = worker[k]
        /\ worker[j].life = "alive" /\ UNCHANGED <<caller, code, ran, raced>>
    BY <1>13, RespondKeeps
  <2>2. CASE caller[c].at = "read" /\ caller[c].worker = j
    BY <1>s, <2>1, <2>2 DEF Starts
  <2>3. CASE caller[c].at = "read" => caller[c].worker # j
    <3>1. caller[c].at = "read" => caller[c].worker \in Workers \ {j}
      BY <2>3, ReaderHasLock
    <3> QED
      BY <1>s, <2>1, <3>1, StartsFrame
  <2> QED
    BY <2>2, <2>3
<1>14. ASSUME NEW j \in Workers, ExitWorker(j) PROVE Starts(c)'
  <2>1. PICK d \in Callers : /\ worker[j].lock = d /\ caller[d].at = "read"
                              /\ caller[d].worker = j /\ worker[j].runs = caller[d].req
    BY <1>14, <1>c, ExitDoes, RunIsMine
  <2>2. /\ UNCHANGED <<caller, code, ran, raced>> /\ code[caller[d].req] = "exits"
        /\ worker'[j].stdin = worker[j].stdin
        /\ \A k \in Workers \ {j} : worker'[k] = worker[k]
    BY <1>14, <2>1, ExitDoes DEF Becomes
  <2>3. CASE c = d
    BY <1>s, <2>1, <2>2, <2>3 DEF Starts
  <2>4. CASE c # d
    <3>1. caller[c].at = "read" => caller[c].worker \in Workers \ {j}
      BY <2>1, <2>4, OthersWorker, ReaderHasLock
    <3> QED
      BY <1>s, <2>2, <3>1, StartsFrame
  <2> QED
    BY <2>3, <2>4
<1>15. ASSUME NEW a \in Callers, StartFails(a) PROVE Starts(c)'
  <2>1. CASE c # a
    <3>1. /\ worker' = worker /\ caller'[c] = caller[c] /\ UNCHANGED <<code, ran>>
          /\ (raced => raced')
      BY <1>15, <2>1, StartFailsDoes DEF Moved
    <3> QED
      BY <1>s, <2>1, <3>1, StartsFrame
  <2>2. CASE c = a
    BY <1>15, <1>s, <2>2, StartFailsDoes DEF Starts, Moved
  <2> QED
    BY <2>1, <2>2
<1>16. ASSUME NEW a \in Callers, PublishWorker(a) PROVE Starts(c)'
  <2>1. CASE c # a
    <3>1. /\ worker' = worker /\ caller'[c] = caller[c] /\ UNCHANGED <<code, ran>>
          /\ (raced => raced')
      BY <1>16, <2>1, PublishDoes DEF Moved
    <3> QED
      BY <1>s, <2>1, <3>1, StartsFrame
  <2>2. CASE c = a
    BY <1>16, <1>s, <2>2, PublishDoes DEF Starts, Moved
  <2> QED
    BY <2>1, <2>2
<1>17. ASSUME NEW a \in Callers, NoBackend(a) PROVE Starts(c)'
  <2>1. CASE c # a
    <3>1. /\ worker' = worker /\ caller'[c] = caller[c] /\ UNCHANGED <<code, ran>>
          /\ (raced => raced')
      BY <1>17, <2>1, NoBackendDoes DEF Returned
    <3> QED
      BY <1>s, <2>1, <3>1, StartsFrame
  <2>2. CASE c = a
    BY <1>17, <1>s, <2>2, NoBackendDoes DEF Starts, Returned
  <2> QED
    BY <2>1, <2>2
<1> QED
  BY <1>1, <1>2, <1>3, <1>4, <1>5, <1>6, <1>7, <1>8, <1>9, <1>10,
     <1>11, <1>12, <1>13,
     <1>14, <1>15, <1>16, <1>17 DEF Next, CallerStep, WorkerStep

LEMMA OwnStep == Inv /\ [Next]_vars => AnswersAreOwn'
<1> SUFFICES ASSUME Inv, [Next]_vars, Clean', NEW r \in Requests, (outcome[r] = "answer")'
             PROVE  (answer[r] = r)'
  BY DEF AnswersAreOwn
<1>c. Clean
  BY CleanBack
<1> USE NoneIsNone, NoneIsNoWord, WorkersAreRequests
<1>q. outcome[r] = "answer" => answer[r] = r
  BY <1>c DEF Inv, AnswersAreOwn
<1>d. Typed /\ Threads
  BY DEF Inv
<1> USE <1>d
<1>1. CASE UNCHANGED vars
  BY <1>1, <1>q DEF vars
<1>2. ASSUME NEW a \in Callers, Call(a) PROVE (answer[r] = r)'
  BY <1>2, <1>q, CallDoes
<1>3. ASSUME NEW a \in Callers, FindWorker(a) PROVE (answer[r] = r)'
  BY <1>3, <1>q, FindDoes DEF Moved
<1>4. ASSUME NEW a \in Callers, StartWorker(a) PROVE (answer[r] = r)'
  BY <1>4, <1>q, StartDoes DEF Moved
<1>5. ASSUME NEW a \in Callers, Send(a) PROVE (answer[r] = r)'
  BY <1>5, <1>q, SendDoes DEF Moved
<1>6. ASSUME NEW a \in Callers, Receive(a) PROVE (answer[r] = r)'
  <2>1. /\ caller[a].at = "read" /\ worker[caller[a].worker].stdout # <<>>
    BY <1>6, ReceiveDoes
  <2>2. Head(worker[caller[a].worker].stdout).answer = caller[a].req
        /\ caller[a].req \in Requests
    BY <1>c, <2>1, LineIsMine
  <2>3. Returned(a, "answer", caller[a].req)
    BY <1>6, <2>2, ReceiveDoes
  <2> QED
    BY <1>q, <2>2, <2>3 DEF Returned
<1>7. ASSUME NEW a \in Callers, ReadEnd(a) PROVE (answer[r] = r)'
  BY <1>7, <1>q, ReadEndDoes DEF Moved
<1>8. ASSUME NEW a \in Callers, TimeOut(a) PROVE (answer[r] = r)'
  BY <1>8, <1>q, TimeOutDoes DEF Moved
<1>9. ASSUME NEW a \in Callers, DropWorker(a) PROVE (answer[r] = r)'
  <2>1. caller[a].req \in Requests /\ Returned(a, "timeout", None)
    BY <1>9, DropDoes DEF Threads, Attends, Working
  <2> QED
    BY <1>q, <2>1 DEF Returned
<1>10. ASSUME NEW a \in Callers, Fallback(a) PROVE (answer[r] = r)'
  <2>1. caller[a].req \in Requests
        /\ \E result \in {"fallback", "timeout"} : Returned(a, result, None)
    BY <1>10, FallbackDoes
  <2> QED
    BY <1>q, <2>1 DEF Returned
<1>11. ASSUME NEW j \in Workers, Execute(j) PROVE (answer[r] = r)'
  BY <1>11, <1>q, ExecuteDoes
<1>12. ASSUME NEW j \in Workers, WriteStray(j) PROVE (answer[r] = r)'
  BY <1>12, <1>q, WriteDoes
<1>13. ASSUME NEW j \in Workers, Respond(j) PROVE (answer[r] = r)'
  BY <1>13, <1>q, RespondKeeps
<1>14. ASSUME NEW j \in Workers, ExitWorker(j) PROVE (answer[r] = r)'
  BY <1>14, <1>q, ExitDoes
<1>15. ASSUME NEW a \in Callers, StartFails(a) PROVE (answer[r] = r)'
  BY <1>15, <1>q, StartFailsDoes DEF Moved
<1>16. ASSUME NEW a \in Callers, PublishWorker(a) PROVE (answer[r] = r)'
  BY <1>16, <1>q, PublishDoes DEF Moved
<1>17. ASSUME NEW a \in Callers, NoBackend(a) PROVE (answer[r] = r)'
  <2>1. caller[a].req \in Requests /\ Returned(a, "error", None)
    BY <1>17, NoBackendDoes
  <2> QED
    BY <1>q, <2>1 DEF Returned
<1> QED
  BY <1>1, <1>2, <1>3, <1>4, <1>5, <1>6, <1>7, <1>8, <1>9, <1>10,
     <1>11, <1>12, <1>13,
     <1>14, <1>15, <1>16, <1>17 DEF Next, CallerStep, WorkerStep

LEMMA OnceStep == Inv /\ [Next]_vars => RunsOnce'
<1> SUFFICES ASSUME Inv, [Next]_vars, Clean', NEW r \in Requests, (ran[r] > 1)'
             PROVE  (code[r] = "exits" \/ raced)'
  BY DEF RunsOnce
<1>c. Clean
  BY CleanBack
<1> USE NoneIsNone, NoneIsNoWord, WorkersAreRequests
<1>q. ran[r] > 1 => code[r] = "exits" \/ raced
  BY <1>c DEF Inv, RunsOnce
<1>d. Typed /\ Threads /\ ran \in [Requests -> Nat]
  BY DEF Inv, Typed
<1> USE <1>d
<1>1. CASE UNCHANGED vars
  BY <1>1, <1>q DEF vars
<1>2. ASSUME NEW a \in Callers, Call(a) PROVE (code[r] = "exits" \/ raced)'
  <2>1. code[r] # None
    BY <1>2, CallDoes DEF Inv, Unasked
  <2> QED
    BY <1>2, <1>q, <2>1, CallDoes
<1>3. ASSUME NEW a \in Callers, FindWorker(a) PROVE (code[r] = "exits" \/ raced)'
  BY <1>3, <1>q, FindDoes DEF Moved
<1>4. ASSUME NEW a \in Callers, StartWorker(a) PROVE (code[r] = "exits" \/ raced)'
  BY <1>4, <1>q, StartDoes DEF Moved
<1>5. ASSUME NEW a \in Callers, Send(a) PROVE (code[r] = "exits" \/ raced)'
  BY <1>5, <1>q, SendDoes DEF Moved
<1>6. ASSUME NEW a \in Callers, Receive(a) PROVE (code[r] = "exits" \/ raced)'
  BY <1>6, <1>q, ReceiveDoes DEF Moved, Returned
<1>7. ASSUME NEW a \in Callers, ReadEnd(a) PROVE (code[r] = "exits" \/ raced)'
  BY <1>7, <1>q, ReadEndDoes DEF Moved
<1>8. ASSUME NEW a \in Callers, TimeOut(a) PROVE (code[r] = "exits" \/ raced)'
  BY <1>8, <1>q, TimeOutDoes DEF Moved
<1>9. ASSUME NEW a \in Callers, DropWorker(a) PROVE (code[r] = "exits" \/ raced)'
  BY <1>9, <1>q, DropDoes DEF Returned
<1>10. ASSUME NEW a \in Callers, Fallback(a) PROVE (code[r] = "exits" \/ raced)'
  <2>1. /\ caller[a].at = "fallback" /\ caller[a].req \in Requests /\ Started(caller[a].req)
        /\ UNCHANGED <<code, raced>>
    BY <1>10, FallbackDoes DEF Returned
  <2>2. CASE r = caller[a].req
    <3>1. ran[r] = 1 \/ ran[r] > 1
      BY <2>1, <2>2 DEF Started
    <3>2. ran[r] = 1 => code[r] = "exits" \/ raced
      BY <1>c, <2>1, <2>2 DEF Inv, AllStarts, Starts
    <3> QED
      BY <1>q, <2>1, <3>1, <3>2
  <2>3. CASE r # caller[a].req
    BY <1>q, <2>1, <2>3 DEF Started
  <2> QED
    BY <2>2, <2>3
<1>11. ASSUME NEW j \in Workers, Execute(j) PROVE (code[r] = "exits" \/ raced)'
  <2>1. PICK d \in Callers : caller[d].req \in Requests /\ ran[caller[d].req] = 0
                            /\ Head(worker[j].stdin) = caller[d].req
    BY <1>11, <1>c, ExecuteDoes, HeadIsMine
  <2>2. Started(caller[d].req) /\ UNCHANGED <<code, raced>>
    BY <1>11, <2>1, ExecuteDoes
  <2>3. r # caller[d].req
    BY <2>1, <2>2 DEF Started
  <2> QED
    BY <1>q, <2>2, <2>3 DEF Started
<1>12. ASSUME NEW j \in Workers, WriteStray(j) PROVE (code[r] = "exits" \/ raced)'
  BY <1>12, <1>q, WriteDoes
<1>13. ASSUME NEW j \in Workers, Respond(j) PROVE (code[r] = "exits" \/ raced)'
  BY <1>13, <1>q, RespondKeeps
<1>14. ASSUME NEW j \in Workers, ExitWorker(j) PROVE (code[r] = "exits" \/ raced)'
  BY <1>14, <1>q, ExitDoes
<1>15. ASSUME NEW a \in Callers, StartFails(a) PROVE (code[r] = "exits" \/ raced)'
  BY <1>15, <1>q, StartFailsDoes DEF Moved
<1>16. ASSUME NEW a \in Callers, PublishWorker(a) PROVE (code[r] = "exits" \/ raced)'
  BY <1>16, <1>q, PublishDoes DEF Moved
<1>17. ASSUME NEW a \in Callers, NoBackend(a) PROVE (code[r] = "exits" \/ raced)'
  BY <1>17, <1>q, NoBackendDoes DEF Returned
<1> QED
  BY <1>1, <1>2, <1>3, <1>4, <1>5, <1>6, <1>7, <1>8, <1>9, <1>10,
     <1>11, <1>12, <1>13,
     <1>14, <1>15, <1>16, <1>17 DEF Next, CallerStep, WorkerStep

LEMMA InvInit == Init => Inv
<1> SUFFICES ASSUME Init PROVE Inv
  OBVIOUS
<1> USE NoneIsNone, NoneIsNoWord, WorkersAreRequests
<1>1. Typed
  BY TypeInit
<1>2. /\ \A c \in Callers : caller[c].at = "idle"
      /\ \A r \in Requests : code[r] = None /\ outcome[r] = None /\ ran[r] = 0
      /\ table = None
      /\ \A k \in Workers : /\ worker[k].life = "unborn" /\ worker[k].lock = None
                            /\ worker[k].stdin = <<>> /\ worker[k].stdout = <<>>
                            /\ worker[k].runs = None
  BY DEF Init
<1>3. Threads /\ Drops /\ AllStarts
  BY <1>2 DEF Threads, Attends, Working, Drops, Ended, AllStarts, Starts
<1>9. Secrets
  BY <1>2 DEF Secrets, Unshared
<1>4. Unasked /\ Locks
  BY <1>2 DEF Unasked, Locks, HasLock
<1>5. Processes
  BY <1>2 DEF Processes, Tended
<1>6. OrphansNeedRace /\ Held
  BY <1>2 DEF OrphansNeedRace, Held
<1>7. AllPipes
  BY <1>2 DEF AllPipes, Pipes
<1>8. AnswersAreOwn /\ RunsOnce
  BY <1>2 DEF AnswersAreOwn, RunsOnce
<1> QED
  BY <1>1, <1>3, <1>4, <1>5, <1>6, <1>7, <1>8, <1>9 DEF Inv

LEMMA InvStep == Inv /\ [Next]_vars => Inv'
<1> SUFFICES ASSUME Inv, [Next]_vars PROVE Inv'
  OBVIOUS
<1>1. Typed'
  BY TypeStep DEF Inv
<1>2. /\ Threads' /\ Secrets' /\ Unasked' /\ Locks' /\ Processes' /\ Drops'
      /\ OrphansNeedRace' /\ Held'
  BY ThreadsStep, SecretsStep, UnaskedStep, LocksStep, ProcessesStep, DropsStep, OrphansStep,
     HeldStep
<1>3. Clean' => AllPipes' /\ AllStarts'
  BY PipesStep, StartsStep
<1>4. AnswersAreOwn' /\ RunsOnce'
  BY OwnStep, OnceStep
<1> QED
  BY <1>1, <1>2, <1>3, <1>4 DEF Inv

\* The invariant above, which the theorems below rest on, always holds.
THEOREM Invariance == Spec => []Inv
  BY InvInit, InvStep, PTL DEF Spec

-----------------------------------------------------------------------------
(* What a caller of run_python relies on.                                   *)

\* For any threads and requests: as long as no code has written past its stdout,
\* a request is answered with its own answer, although the lines of the pipes
\* carry no number, workers die, and answers come after their timeout.
THEOREM NobodyElsesAnswer == Spec => []AnswersAreOwn
  BY Invariance, PTL DEF Inv

\* Whatever is in execution or on its way to a worker is the request of a thread
\* that still waits: a timeout or a failure leaves nothing behind.
THEOREM NothingIsLeftBehind == Spec => []DoneIsStopped
<1>1. Inv => DoneIsStopped
  <2> SUFFICES ASSUME Inv, Clean, NEW r \in Requests, outcome[r] # "open", NEW k \in Workers
               PROVE  /\ worker[k].runs # r
                      /\ \A n \in DOMAIN worker[k].stdin : worker[k].stdin[n] # r
    BY DEF DoneIsStopped
  <2>1. \A d \in Callers : caller[d].at = "read" => caller[d].req # r
    BY DEF Inv, Threads, Attends, Working
  <2>2. worker[k].runs # r
    BY <2>1, RunIsMine, NoneIsNone
  <2>3. CASE worker[k].stdin = <<>>
    BY <2>2, <2>3
  <2>4. CASE worker[k].stdin # <<>>
    <3>1. PICK q \in Requests : worker[k].stdin = <<q>>
      BY <2>4 DEF Inv, AllPipes, Pipes
    <3>2. Head(worker[k].stdin) # r
      BY <2>1, <2>4, HeadIsMine
    <3> QED
      BY <2>2, <3>1, <3>2
  <2> QED
    BY <2>3, <2>4
<1> QED
  BY <1>1, Invariance, PTL

\* Code is started a second time by the next backend only if it ended its worker
\* itself, or two threads had made a worker at once.
THEOREM SecondRunIsExcused == Spec => []RunsOnce
  BY Invariance, PTL DEF Inv

\* A live worker is in the table, but for the same race and for the moment between
\* its start and the write of the table.
THEOREM NoWorkerIsLost == Spec => []OrphansNeedRace
  BY Invariance, PTL DEF Inv

-----------------------------------------------------------------------------
(* How often code is run, clean or not.                                     *)

\* The request waits in the pipe of some worker.
Queued(r) ==
    \E k \in Workers : \E n \in 1 .. Len(worker[k].stdin) : worker[k].stdin[n] = r

\* A request is written to one pipe, once.
SentOnce ==
    \A j, k \in Workers :
        \A m \in 1 .. Len(worker[j].stdin), n \in 1 .. Len(worker[k].stdin) :
            worker[j].stdin[m] = worker[k].stdin[n] => j = k /\ m = n

\* Its code has been started b times at most, the start it waits for included.
AtMost(r, b) == ran[r] <= b /\ (Queued(r) => ran[r] < b)

Allowed(c) ==
    /\ caller[c].at \in {"find", "make", "publish", "lock"} => AtMost(caller[c].req, 0)
    /\ caller[c].at \in {"read", "drop", "fallback"} => AtMost(caller[c].req, 1)

Budget ==
    /\ SentOnce
    /\ \A c \in Callers : Allowed(c)
    /\ \A r \in Requests : AtMost(r, 2)

LEMMA AllowanceGrows ==
    ASSUME Typed, NEW r \in Requests
    PROVE  /\ AtMost(r, 0) => AtMost(r, 1)
           /\ AtMost(r, 1) => AtMost(r, 2)
           /\ ran[r] \in Nat
<1>1. ran[r] \in Nat BY DEF Typed
<1> QED BY <1>1 DEF AtMost

\* A pipe that is emptied or left alone, and no start: nothing is used up.
LEMMA NothingUsed ==
    ASSUME SentOnce, UNCHANGED ran,
           \A k \in Workers : worker'[k].stdin \in {worker[k].stdin, <<>>}
    PROVE  /\ SentOnce'
           /\ \A r \in Requests, b \in 0 .. 2 : AtMost(r, b) => AtMost(r, b)'
<1>1. \A k \in Workers : 1 .. Len(worker'[k].stdin) # {} => worker'[k].stdin = worker[k].stdin
  OBVIOUS
<1>2. SentOnce'
  <2> SUFFICES ASSUME NEW i \in Workers, NEW j \in Workers,
                      NEW m \in 1 .. Len(worker'[i].stdin), NEW n \in 1 .. Len(worker'[j].stdin),
                      worker'[i].stdin[m] = worker'[j].stdin[n]
               PROVE  i = j /\ m = n
    BY DEF SentOnce
  <2>1. worker'[i].stdin = worker[i].stdin /\ worker'[j].stdin = worker[j].stdin
    BY <1>1
  <2>2. /\ m \in 1 .. Len(worker[i].stdin) /\ n \in 1 .. Len(worker[j].stdin)
        /\ worker[i].stdin[m] = worker[j].stdin[n]
    BY <2>1
  <2> QED BY <2>2 DEF SentOnce
<1>3. \A r \in Requests : Queued(r)' => Queued(r) BY <1>1 DEF Queued
<1> QED BY <1>2, <1>3 DEF AtMost

\* The threads but one stand where they stood, and that one has gone on.
LEMMA AllowedFrame ==
    ASSUME Typed, Budget, NEW c \in Callers,
           \A r \in Requests, b \in 0 .. 2 : AtMost(r, b) => AtMost(r, b)',
           SentOnce', Threads,
           \A d \in Callers \ {c} : caller'[d] = caller[d],
           Allowed(c)'
    PROVE  Budget'
<1>1. ASSUME NEW d \in Callers, d # c PROVE Allowed(d)'
  <2>1. caller'[d] = caller[d] /\ (caller[d].at # "idle" => caller[d].req \in Requests)
    BY <1>1 DEF Threads, Attends, Working
  <2> QED BY <2>1 DEF Budget, Allowed
<1> QED BY <1>1 DEF Budget

\* The worker takes its next request: one start for one line of its pipe.
LEMMA ExecuteUses ==
    ASSUME Typed, Typed', Threads, Budget, NEW k \in Workers, Execute(k)
    PROVE  Budget'
<1>0. PICK q \in Requests : q = Head(worker[k].stdin)
  BY ExecuteDoes
<1>1. /\ worker[k].stdin # <<>>
      /\ worker'[k].stdin = Tail(worker[k].stdin)
      /\ \A j \in Workers \ {k} : worker'[j] = worker[j]
      /\ Started(q)
      /\ caller' = caller
  BY <1>0, ExecuteDoes DEF Becomes
<1>2. worker[k].stdin \in Inbox BY DEF Typed, Process
<1>3. /\ Len(worker'[k].stdin) = Len(worker[k].stdin) - 1
      /\ Len(worker[k].stdin) \in Nat \ {0}
      /\ q = worker[k].stdin[1]
      /\ \A n \in 1 .. Len(worker[k].stdin) - 1 :
            worker'[k].stdin[n] = worker[k].stdin[n + 1]
  <2> DEFINE b == worker[k].stdin
  <2>1. b \in Seq(Requests) /\ b # <<>> /\ worker'[k].stdin = Tail(b) /\ q = Head(b)
    BY <1>0, <1>1, <1>2 DEF Inbox
  <2> HIDE DEF b
  <2>2. /\ Len(Tail(b)) = Len(b) - 1 /\ Len(b) \in Nat \ {0} /\ Head(b) = b[1]
        /\ \A n \in 1 .. Len(b) - 1 : Tail(b)[n] = b[n + 1]
    BY <2>1
  <2> QED BY <2>1, <2>2 DEF b
<1>i. ASSUME NEW j \in Workers, NEW n \in 1 .. Len(worker'[j].stdin)
      PROVE  \E m \in 1 .. Len(worker[j].stdin) :
                /\ worker'[j].stdin[n] = worker[j].stdin[m]
                /\ j = k => m = n + 1
                /\ j # k => m = n
  <2>1. CASE j = k
    <3>1. n + 1 \in 1 .. Len(worker[j].stdin) /\ n \in 1 .. Len(worker[k].stdin) - 1
      BY <1>3, <2>1
    <3> QED BY <1>3, <2>1, <3>1
  <2>2. CASE j # k
    BY <1>1, <2>2
  <2> QED BY <2>1, <2>2
<1>4. SentOnce'
  <2> SUFFICES ASSUME NEW i \in Workers, NEW j \in Workers,
                      NEW m \in 1 .. Len(worker'[i].stdin), NEW n \in 1 .. Len(worker'[j].stdin),
                      worker'[i].stdin[m] = worker'[j].stdin[n]
               PROVE  i = j /\ m = n
    BY DEF SentOnce
  <2>1. PICK mm \in 1 .. Len(worker[i].stdin) :
           /\ worker'[i].stdin[m] = worker[i].stdin[mm]
           /\ i = k => mm = m + 1
           /\ i # k => mm = m
    BY <1>i
  <2>2. PICK nn \in 1 .. Len(worker[j].stdin) :
           /\ worker'[j].stdin[n] = worker[j].stdin[nn]
           /\ j = k => nn = n + 1
           /\ j # k => nn = n
    BY <1>i
  <2>0. worker[i].stdin[mm] = worker[j].stdin[nn]
    BY <2>1, <2>2
  <2>3. i = j /\ mm = nn
    BY <2>0 DEF Budget, SentOnce
  <2>4. m \in Nat /\ n \in Nat
    OBVIOUS
  <2> QED BY <2>1, <2>2, <2>3, <2>4
<1>5. Queued(q) /\ ~Queued(q)'
  <2>1. 1 \in 1 .. Len(worker[k].stdin) BY <1>3
  <2>2. Queued(q) BY <1>3, <2>1 DEF Queued
  <2>3. ASSUME NEW j \in Workers, NEW n \in 1 .. Len(worker'[j].stdin), worker'[j].stdin[n] = q
        PROVE  FALSE
    <3>1. PICK m \in 1 .. Len(worker[j].stdin) :
             /\ worker'[j].stdin[n] = worker[j].stdin[m]
             /\ j = k => m = n + 1
      BY <1>i
    <3>2. worker[j].stdin[m] = worker[k].stdin[1] BY <1>3, <2>3, <3>1
    <3>3. j = k /\ m = 1 BY <2>1, <3>2 DEF Budget, SentOnce
    <3> QED BY <3>1, <3>3
  <2> QED BY <2>2, <2>3 DEF Queued
<1>6. ASSUME NEW r \in Requests, Queued(r)' PROVE Queued(r)
  <2>0. PICK j \in Workers : \E n \in 1 .. Len(worker'[j].stdin) : worker'[j].stdin[n] = r
    BY <1>6 DEF Queued
  <2>1. PICK n \in 1 .. Len(worker'[j].stdin) : worker'[j].stdin[n] = r
    BY <2>0
  <2>2. \E m \in 1 .. Len(worker[j].stdin) : worker'[j].stdin[n] = worker[j].stdin[m]
    BY <1>i
  <2> QED BY <2>1, <2>2 DEF Queued
<1>7. ASSUME NEW r \in Requests, NEW b \in 0 .. 2, AtMost(r, b) PROVE AtMost(r, b)'
  <2>1. CASE r = q
    <3>1. ran[r] < b /\ ran[r] \in Nat /\ ran'[r] = ran[r] + 1
      BY <1>1, <1>5, <1>7, <2>1 DEF AtMost, Typed, Started
    <3> QED BY <1>5, <2>1, <3>1 DEF AtMost
  <2>2. CASE r # q
    <3>1. ran'[r] = ran[r] BY <1>1, <2>2 DEF Started
    <3> QED BY <1>6, <1>7, <3>1 DEF AtMost
  <2> QED BY <2>1, <2>2
<1> QED
  BY <1>1, <1>4, <1>7 DEF Budget, Allowed, Threads, Attends, Working

\* A request is written to its worker once (WarmWorker.run).
LEMMA SendUses ==
    ASSUME Typed, Typed', Threads, Budget, NEW c \in Callers, Send(c)
    PROVE  Budget'
<1>0. PICK k \in Workers, q \in Requests : k = caller[c].worker /\ q = caller[c].req
  BY SendDoes DEF Threads, Attends, Working
<1>1. AtMost(q, 0) /\ UNCHANGED ran
  BY <1>0, SendDoes DEF Budget, Allowed
<1>2. ~Queued(q) /\ ran[q] = 0
  BY <1>1, AllowanceGrows DEF AtMost
<1>3. CASE UNCHANGED worker /\ Moved(c, "fallback", k)
  <2>1. SentOnce' /\ \A r \in Requests, b \in 0 .. 2 : AtMost(r, b) => AtMost(r, b)'
    BY <1>1, <1>3, NothingUsed DEF Budget
  <2>2. Allowed(c)'
    BY <1>0, <1>1, <1>3, <2>1, AllowanceGrows DEF Moved, Allowed
  <2> QED BY <1>3, <2>1, <2>2, AllowedFrame DEF Moved
<1>4. CASE /\ Becomes(k, "alive", c, Append(worker[k].stdin, q), worker[k].stdout,
                      worker[k].runs)
           /\ Moved(c, "read", k)
  <2>2. PICK s \in Seq(Requests) : s = worker[k].stdin
    BY DEF Typed, Process, Inbox
  <2>1. /\ worker'[k].stdin = Append(s, q)
        /\ \A j \in Workers \ {k} : worker'[j] = worker[j]
    BY <1>4, <2>2 DEF Becomes
  <2>3. /\ Len(s) \in Nat /\ Len(Append(s, q)) = Len(s) + 1
        /\ Append(s, q)[Len(s) + 1] = q
        /\ \A n \in 1 .. Len(s) : Append(s, q)[n] = s[n]
    OBVIOUS
  <2>4. \A j \in Workers : \A n \in 1 .. Len(worker'[j].stdin) :
           \/ j = k /\ n = Len(s) + 1 /\ worker'[j].stdin[n] = q
           \/ n \in 1 .. Len(worker[j].stdin) /\ worker'[j].stdin[n] = worker[j].stdin[n]
    <3> SUFFICES ASSUME NEW j \in Workers, NEW n \in 1 .. Len(worker'[j].stdin)
                 PROVE  \/ j = k /\ n = Len(s) + 1 /\ worker'[j].stdin[n] = q
                        \/ /\ n \in 1 .. Len(worker[j].stdin)
                           /\ worker'[j].stdin[n] = worker[j].stdin[n]
      OBVIOUS
    <3>1. CASE j = k
      <4>1. worker'[j].stdin = Append(s, q) /\ worker[j].stdin = s
        BY <2>1, <2>2, <3>1
      <4>2. n \in 1 .. Len(s) + 1
        BY <2>3, <4>1
      <4>3. CASE n = Len(s) + 1
        BY <2>3, <3>1, <4>1, <4>3
      <4>4. CASE n \in 1 .. Len(s)
        BY <2>3, <4>1, <4>4
      <4> QED BY <2>3, <4>2, <4>3, <4>4
    <3>2. CASE j # k
      BY <2>1, <3>2
    <3> QED BY <3>1, <3>2
  <2>5. \A j \in Workers : \A n \in 1 .. Len(worker[j].stdin) : worker[j].stdin[n] # q
    BY <1>2 DEF Queued
  <2>11. ASSUME NEW j \in Workers, NEW n \in 1 .. Len(worker'[j].stdin), worker'[j].stdin[n] = q
        PROVE  j = k /\ n = Len(s) + 1
    <3>1. \/ j = k /\ n = Len(s) + 1
          \/ n \in 1 .. Len(worker[j].stdin) /\ worker[j].stdin[n] = q
      BY <2>4, <2>11
    <3> QED BY <2>5, <3>1
  <2>6. SentOnce'
    <3> SUFFICES ASSUME NEW i \in Workers, NEW j \in Workers,
                        NEW m \in 1 .. Len(worker'[i].stdin), NEW n \in 1 .. Len(worker'[j].stdin),
                        worker'[i].stdin[m] = worker'[j].stdin[n]
                 PROVE  i = j /\ m = n
      BY DEF SentOnce
    <3>1. CASE worker'[i].stdin[m] = q
      <4>1. i = k /\ m = Len(s) + 1
        BY <2>11, <3>1
      <4>2. j = k /\ n = Len(s) + 1
        BY <2>11, <3>1
      <4> QED BY <4>1, <4>2
    <3>2. CASE worker'[i].stdin[m] # q
      <4>1. /\ m \in 1 .. Len(worker[i].stdin)
            /\ worker'[i].stdin[m] = worker[i].stdin[m]
        BY <2>4, <3>2
      <4>2. /\ n \in 1 .. Len(worker[j].stdin)
            /\ worker'[j].stdin[n] = worker[j].stdin[n]
        BY <2>4, <3>2
      <4>3. worker[i].stdin[m] = worker[j].stdin[n]
        BY <4>1, <4>2
      <4> QED BY <4>1, <4>2, <4>3 DEF Budget, SentOnce
    <3> QED BY <3>1, <3>2
  <2>7. \A r \in Requests \ {q} : Queued(r)' => Queued(r)
    BY <2>4 DEF Queued
  <2>8. \A r \in Requests \ {q}, b \in 0 .. 2 : AtMost(r, b) => AtMost(r, b)'
    BY <1>1, <2>7 DEF AtMost
  <2>9. AtMost(q, 1)' /\ AtMost(q, 2)'
    BY <1>1, <1>2 DEF AtMost
  <2>10. ASSUME NEW d \in Callers PROVE Allowed(d)'
    <3>1. CASE d = c
      BY <1>0, <1>4, <2>9, <3>1 DEF Moved, Allowed
    <3>2. CASE d # c
      <4>1. caller'[d] = caller[d] BY <1>4, <3>2 DEF Moved
      <4>2. caller[d].at # "idle" => caller[d].req \in Requests \ {q}
        BY <1>0, <3>2, SendDoes DEF Threads, Attends, Working
      <4> QED BY <2>8, <4>1, <4>2 DEF Allowed, Budget
    <3> QED BY <3>1, <3>2
  <2> QED BY <2>6, <2>8, <2>9, <2>10 DEF Budget
<1> QED BY <1>0, <1>3, <1>4, SendDoes

\* The next backend starts the code once more, and the call is over.
LEMMA FallbackUses ==
    ASSUME Typed, Typed', Threads, Budget, NEW c \in Callers, Fallback(c)
    PROVE  Budget'
<1>0. PICK q \in Requests : q = caller[c].req
  BY FallbackDoes
<1>1. /\ Started(q) /\ UNCHANGED worker
      /\ caller'[c].at = "idle" /\ \A d \in Callers \ {c} : caller'[d] = caller[d]
      /\ AtMost(q, 1)
  BY <1>0, FallbackDoes DEF Returned, Budget, Allowed
<1>2. \A r \in Requests : Queued(r)' = Queued(r) BY <1>1 DEF Queued
<1>3. SentOnce' BY <1>1 DEF Budget, SentOnce
<1>4. AtMost(q, 2)'
  <2>1. ran[q] \in Nat /\ ran'[q] = ran[q] + 1
    BY <1>1 DEF Typed, Started
  <2> QED BY <1>1, <1>2, <2>1 DEF AtMost
<1>5. \A r \in Requests \ {q}, b \in 0 .. 2 : AtMost(r, b) => AtMost(r, b)'
  BY <1>1, <1>2 DEF AtMost, Started
<1>6. ASSUME NEW d \in Callers PROVE Allowed(d)'
  <2>1. CASE d = c
    BY <1>1, <2>1 DEF Allowed
  <2>2. CASE d # c
    <3>1. caller[d].at # "idle" => caller[d].req \in Requests \ {q}
      BY <1>0, <2>2, FallbackDoes DEF Threads, Attends, Working
    <3> QED BY <1>1, <1>5, <2>2, <3>1 DEF Allowed, Budget
  <2> QED BY <2>1, <2>2
<1> QED BY <1>3, <1>4, <1>5, <1>6 DEF Budget

LEMMA BudgetStep == Inv /\ Inv' /\ Budget /\ [Next]_vars => Budget'
<1> SUFFICES ASSUME Inv, Inv', Budget, [Next]_vars PROVE Budget'
  OBVIOUS
<1> USE DEF Inv
\* Steps that write to no pipe and start nothing.
<1>a. ASSUME NEW c \in Callers, UNCHANGED ran,
             \A k \in Workers : worker'[k].stdin \in {worker[k].stdin, <<>>},
             \A d \in Callers \ {c} : caller'[d] = caller[d],
             \/ caller'[c].at = "idle"
             \/ caller'[c].req = caller[c].req /\ caller'[c].at \in {"drop", "fallback"}
                /\ caller[c].at \in {"make", "read"}
             \/ caller'[c].req = caller[c].req /\ caller'[c].at \in {"make", "publish", "lock"}
                /\ caller[c].at \in {"find", "make", "publish"}
             \/ caller'[c].req = caller[c].req /\ caller'[c].at = caller[c].at
      PROVE  Budget'
  <2>1. SentOnce' /\ \A r \in Requests, b \in 0 .. 2 : AtMost(r, b) => AtMost(r, b)'
    BY <1>a, NothingUsed DEF Budget
  <2>2. caller[c].at # "idle" => caller[c].req \in Requests
    BY DEF Threads, Attends, Working
  <2>3. Allowed(c)'
    BY <1>a, <2>1, <2>2, AllowanceGrows DEF Allowed, Budget
  <2> QED BY <1>a, <2>1, <2>3, AllowedFrame
<1>b. ASSUME UNCHANGED <<ran, caller>>,
             \A k \in Workers : worker'[k].stdin \in {worker[k].stdin, <<>>}
      PROVE  Budget'
  <2>1. SentOnce' /\ \A r \in Requests, b \in 0 .. 2 : AtMost(r, b) => AtMost(r, b)'
    BY <1>b, NothingUsed DEF Budget
  <2>2. ASSUME NEW c \in Callers PROVE Allowed(c)'
    <3>1. caller[c].at # "idle" => caller[c].req \in Requests
      BY DEF Threads, Attends, Working
    <3> QED BY <1>b, <2>1, <3>1 DEF Allowed, Budget
  <2> QED BY <2>1, <2>2 DEF Budget
<1>1. CASE UNCHANGED vars
  BY <1>b, <1>1 DEF vars
<1>2. ASSUME NEW a \in Callers, Call(a) PROVE Budget'
  <2>1. PICK r \in Requests :
          /\ code[r] = None /\ code'[r] \in CodeKinds
          /\ outcome'[r] = "open"
          /\ \A q \in Requests \ {r} : code'[q] = code[q] /\ outcome'[q] = outcome[q]
          /\ caller'[a].at = "find" /\ caller'[a].req = r
          /\ \A d \in Callers \ {a} : caller'[d] = caller[d]
          /\ UNCHANGED <<answer, table, worker, ran, raced>>
    BY <1>2, CallDoes
  <2>2. ran[r] = 0 /\ ~Queued(r)
    BY <2>1 DEF Unasked, Processes, Tended, Queued
  <2>3. SentOnce' /\ \A q \in Requests, b \in 0 .. 2 : AtMost(q, b) => AtMost(q, b)'
    BY <2>1, NothingUsed DEF Budget
  <2>4. AtMost(r, 0) BY <2>2 DEF AtMost
  <2>5. Allowed(a)' BY <2>1, <2>3, <2>4 DEF Allowed
  <2> QED BY <2>1, <2>3, <2>5, AllowedFrame
<1>3. ASSUME NEW a \in Callers, FindWorker(a) PROVE Budget'
  BY <1>a, <1>3, FindDoes DEF Moved
<1>4. ASSUME NEW a \in Callers, StartWorker(a) PROVE Budget'
  <2>1. \A k \in Workers : worker'[k].stdin = worker[k].stdin
    BY <1>4, StartDoes DEF Becomes
  <2> QED BY <1>a, <1>4, <2>1, StartDoes DEF Moved
<1>5. ASSUME NEW a \in Callers, Send(a) PROVE Budget'
  BY <1>5, SendUses
<1>6. ASSUME NEW a \in Callers, Receive(a) PROVE Budget'
  <2>1. \A k \in Workers : worker'[k].stdin = worker[k].stdin
    BY <1>6, ReceiveDoes DEF Becomes
  <2> QED BY <1>a, <1>6, <2>1, ReceiveDoes DEF Moved, Returned
<1>7. ASSUME NEW a \in Callers, ReadEnd(a) PROVE Budget'
  <2>1. \A k \in Workers : worker'[k].stdin = worker[k].stdin
    BY <1>7, ReadEndDoes DEF Becomes
  <2> QED BY <1>a, <1>7, <2>1, ReadEndDoes DEF Moved
<1>8. ASSUME NEW a \in Callers, TimeOut(a) PROVE Budget'
  <2>1. \A k \in Workers : worker'[k].stdin \in {worker[k].stdin, <<>>}
    BY <1>8, TimeOutDoes DEF Becomes
  <2> QED BY <1>a, <1>8, <2>1, TimeOutDoes DEF Moved
<1>9. ASSUME NEW a \in Callers, DropWorker(a) PROVE Budget'
  <2>1. \A k \in Workers : worker'[k].stdin \in {worker[k].stdin, <<>>}
    BY <1>9, DropDoes DEF Becomes
  <2> QED BY <1>a, <1>9, <2>1, DropDoes DEF Returned
<1>10. ASSUME NEW a \in Callers, Fallback(a) PROVE Budget'
  BY <1>10, FallbackUses
<1>11. ASSUME NEW j \in Workers, Execute(j) PROVE Budget'
  BY <1>11, ExecuteUses
<1>12. ASSUME NEW j \in Workers, WriteStray(j) PROVE Budget'
  BY <1>b, <1>12, WriteDoes DEF Becomes
<1>13. ASSUME NEW j \in Workers, Respond(j) PROVE Budget'
  BY <1>b, <1>13, RespondKeeps
<1>14. ASSUME NEW j \in Workers, ExitWorker(j) PROVE Budget'
  BY <1>b, <1>14, ExitDoes DEF Becomes
<1>15. ASSUME NEW a \in Callers, StartFails(a) PROVE Budget'
  BY <1>15, <1>a, StartFailsDoes DEF Moved
<1>16. ASSUME NEW a \in Callers, PublishWorker(a) PROVE Budget'
  BY <1>16, <1>a, PublishDoes DEF Moved
<1>17. ASSUME NEW a \in Callers, NoBackend(a) PROVE Budget'
  BY <1>17, <1>a, NoBackendDoes DEF Returned
<1> QED
  BY <1>1, <1>2, <1>3, <1>4, <1>5, <1>6, <1>7, <1>8, <1>9, <1>10,
     <1>11, <1>12, <1>13,
     <1>14, <1>15, <1>16, <1>17 DEF Next, CallerStep, WorkerStep

LEMMA BudgetInit == Init => Budget
<1> SUFFICES ASSUME Init PROVE Budget
  OBVIOUS
<1>1. \A k \in Workers : worker[k].stdin = <<>> BY DEF Init
<1>2. \A r \in Requests : ran[r] = 0 BY DEF Init
<1>3. \A r \in Requests : ~Queued(r) BY <1>1 DEF Queued
<1> QED BY <1>1, <1>2, <1>3 DEF Init, Budget, SentOnce, Allowed, AtMost

\* Every variable keeps its type; what says most of it is that no code is ever
\* started more than twice, once by a worker and once by the next backend,
\* whatever the code writes, whichever worker dies and however threads race.
THEOREM TypeCorrect == Spec => []TypeOK
<1>1. Spec => []Budget
  BY BudgetInit, BudgetStep, Invariance, PTL DEF Spec
<1>2. Inv /\ Budget => TypeOK
  <2> SUFFICES ASSUME Inv, Budget PROVE TypeOK
    OBVIOUS
  <2>1. ran \in [Requests -> 0 .. 2]
    BY DEF Inv, Typed, Budget, AtMost
  <2> QED BY <2>1 DEF Inv, Typed, TypeOK, Thread, Process, Inbox, Outbox
<1> QED BY <1>1, <1>2, Invariance, PTL
=============================================================================
