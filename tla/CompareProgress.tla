--------------------------- MODULE CompareProgress ---------------------------
(***************************************************************************)
(* agentmesh.eval.compare: the progress of run_prompt_compare (two modes)   *)
(* and of run_protocol_with_progress (one).  The calling thread starts the  *)
(* runs in a pool, reads each mode's agent_io.jsonl again and again while    *)
(* the run appends to it, and passes each new output on.                     *)
(***************************************************************************)
EXTENDS JsonLines, FiniteSets

CONSTANTS
    Order,       \* the modes that run side by side, in the order of their files
    MaxRows,     \* bound on the agents a run asks
    MaxOtherRows \* bound on the rows another process appends

ASSUME CompareAssumption ==
    /\ Order \in {<<"protocol">>, <<"text", "protocol">>}
    /\ MaxRows \in Nat
    /\ MaxOtherRows \in Nat

VARIABLES
    run,      \* where the run of each mode stands
    io,       \* agent_io.jsonl of each mode
    begun,    \* the rows each run has begun to append
    others,   \* the rows another process has appended (history)
    pc,       \* where the calling thread stands
    todo,     \* the files it has still to read in this round
    offset,   \* the rows of each file it has dealt with
    fresh,    \* the rows it has read from each file and not passed on
    finished, \* the futures the last wait has returned, not yet looked at
    shown,    \* the steps of each run it has passed on, in order (history)
    complete  \* the modes whose end it has announced

vars == <<run, io, begun, others, pc, todo, offset, fresh, finished, shown, complete>>
callerVars == <<pc, todo, offset, fresh, finished, shown, complete>>

-----------------------------------------------------------------------------
Modes == {Order[n] : n \in DOMAIN Order}

RunEnded(m) == run[m] \in {"done", "failed"}

\* A row belongs to the run this thread has started, or to another one.
OwnRow(step) == [trace |-> "own", step |-> step]
OtherRow == [trace |-> "other", step |-> 0]

Init ==
    /\ run = [m \in Modes |-> "new"]
    /\ io = [m \in Modes |-> EmptyLog]
    /\ begun = [m \in Modes |-> 0]
    /\ others = 0
    /\ pc = "begin"
    /\ todo = <<>>
    /\ offset = [m \in Modes |-> 0]
    /\ fresh = [m \in Modes |-> <<>>]
    /\ finished = {}
    /\ shown = [m \in Modes |-> <<>>]
    /\ complete = {}

-----------------------------------------------------------------------------
(* The runs and the other process.                                          *)

\* append_text_agent_io, append_protocol_agent_io: once for each agent asked.
AppendRow(m) ==
    /\ run[m] = "running"
    /\ ~Writing(io[m])
    /\ begun[m] < MaxRows
    /\ begun' = [begun EXCEPT ![m] = @ + 1]
    /\ \/ io' = [io EXCEPT ![m] = PutRow(@, OwnRow(begun'[m]))]
       \/ io' = [io EXCEPT ![m] = BeginRow(@, OwnRow(begun'[m]))]
    /\ UNCHANGED <<run, others, callerVars>>

WriteOn(m) ==
    /\ run[m] = "running"
    /\ Writing(io[m])
    /\ io' = [io EXCEPT ![m] = ContinueRow(@)]
    /\ UNCHANGED <<run, begun, others, callerVars>>

\* The run returns, or raises wherever it is.
EndRun(m) ==
    /\ run[m] = "running"
    /\ \/ ~Writing(io[m]) /\ run' = [run EXCEPT ![m] = "done"]
       \/ run' = [run EXCEPT ![m] = "failed"]
    /\ io' = [io EXCEPT ![m].todo = <<>>]
    /\ UNCHANGED <<begun, others, callerVars>>

RunStep(m) == AppendRow(m) \/ WriteOn(m) \/ EndRun(m)

\* A run of another process over the same directory appends a row of its own.
OtherProcess(m) ==
    /\ others < MaxOtherRows
    /\ others' = others + 1
    /\ io' = [io EXCEPT ![m] = PutRow(@, OtherRow)]
    /\ UNCHANGED <<run, begun, callerVars>>

-----------------------------------------------------------------------------
(* The calling thread.                                                      *)

\* Faulty: rows of other runs are passed on as well.
Unfiltered(rows) == rows

\* Only the rows of the run's own trace are shown.
Relevant(rows) ==
    LET own == {n \in DOMAIN rows : rows[n].trace = "own"}
        place(n) == Cardinality({p \in own : p <= n})
    IN  [k \in 1 .. Cardinality(own) |-> rows[CHOOSE n \in own : place(n) = k]]

\* The rows there are before the runs begin; each mode's start is announced
\* and the pool starts the runs.  A line that is no JSON object raises.
Begin ==
    /\ pc = "begin"
    /\ IF \A m \in Modes : Readable(io[m])
       THEN /\ offset' = [m \in Modes |-> Len(RowsOf(io[m]))]
            /\ run' = [m \in Modes |-> "running"]
            /\ todo' = Order
            /\ pc' = "read"
       ELSE /\ pc' = "raised"
            /\ UNCHANGED <<offset, run, todo>>
    /\ UNCHANGED <<io, begun, others, fresh, finished, shown, complete>>

\* _emit_new_agent_outputs reads one file after the other, then passes on what
\* is new.  A line that cannot be parsed raises; the pool waits for both runs.
ReadFile ==
    /\ pc = "read"
    /\ todo # <<>>
    /\ LET m == Head(todo)
       IN  IF Readable(io[m])
           THEN LET rows == RowsOf(io[m])
                IN  /\ fresh' = [fresh EXCEPT ![m] = SubSeq(rows, offset[m] + 1, Len(rows))]
                    /\ todo' = Tail(todo)
                    /\ UNCHANGED pc
           ELSE pc' = "join" /\ UNCHANGED <<fresh, todo>>
    /\ UNCHANGED <<run, io, begun, others, offset, finished, shown, complete>>

\* Faulty: the loop does not look at what is still pending.
WaitAgain == IF finished # {} THEN "reap" ELSE "wait"

\* What comes after an emission: the ends that were seen before it, the next
\* wait, or the return once the end of every mode is announced.
AfterEmit ==
    IF finished # {} THEN "reap" ELSE IF complete = Modes THEN "returned" ELSE "wait"

Emit ==
    /\ pc = "read"
    /\ todo = <<>>
    /\ shown' = [m \in Modes |->
                   LET rows == Relevant(fresh[m])
                   IN  shown[m] \o [n \in DOMAIN rows |-> rows[n].step]]
    /\ offset' = [m \in Modes |-> offset[m] + Len(fresh[m])]
    /\ fresh' = [m \in Modes |-> <<>>]
    /\ pc' = AfterEmit
    /\ UNCHANGED <<run, io, begun, others, todo, finished, complete>>

\* Faulty: what is done is reaped at once.
ReapAtOnce(done) == IF done = {} THEN "read" ELSE "reap"

\* After a wait the files are read in any case: for the outputs that came
\* before the end of a run, or because the round begins anew.
AfterWait(done) == "read"

\* wait(..., timeout=0.1, return_when=FIRST_COMPLETED).
Wait ==
    /\ pc = "wait"
    /\ finished' = {m \in Modes \ complete : RunEnded(m)}
    /\ pc' = AfterWait(finished')
    /\ todo' = IF pc' = "read" THEN Order ELSE <<>>
    /\ UNCHANGED <<run, io, begun, others, offset, fresh, shown, complete>>

\* future.result() of one of them raises what the run has raised.  With one
\* mode that is the end; with two the files are read once more.
Reap ==
    /\ pc = "reap"
    /\ \E m \in finished :
          /\ finished' = finished \ {m}
          /\ IF run[m] = "done"
             THEN /\ complete' = complete \cup {m}
                  /\ pc' = IF finished' # {} THEN "reap"
                           ELSE IF Len(Order) = 1 THEN "returned" ELSE "read"
             ELSE pc' = "join" /\ UNCHANGED complete
    /\ todo' = IF pc' = "read" THEN Order ELSE <<>>
    /\ UNCHANGED <<run, io, begun, others, offset, fresh, shown>>

\* The end of the pool's block: every run is waited for before it raises.
Join ==
    /\ pc = "join"
    /\ \A m \in Modes : RunEnded(m)
    /\ pc' = "raised"
    /\ UNCHANGED <<run, io, begun, others, todo, offset, fresh, finished, shown, complete>>

CallerStep == Begin \/ ReadFile \/ Emit \/ Wait \/ Reap \/ Join

Next ==
    \/ \E m \in Modes : RunStep(m) \/ OtherProcess(m)
    \/ CallerStep

Spec == Init /\ [][Next]_vars

\* Each thread runs; a model's call has a timeout and so has the sandbox.
FairSpec == Spec /\ (\A m \in Modes : WF_vars(RunStep(m))) /\ WF_vars(CallerStep)

-----------------------------------------------------------------------------
(* Properties.                                                              *)

Ended == pc \in {"returned", "raised"}

TypeOK ==
    /\ run \in [Modes -> {"new", "running", "done", "failed"}]
    /\ begun \in [Modes -> 0 .. MaxRows]
    /\ others \in 0 .. MaxOtherRows
    /\ pc \in {"begin", "read", "wait", "reap", "join", "returned", "raised"}
    /\ todo \in Seq(Modes)
    /\ offset \in [Modes -> Nat]
    /\ finished \subseteq Modes
    /\ shown \in [Modes -> Seq(Nat)]
    /\ complete \subseteq Modes

\* Each output of a run is shown once and in order, never one of another run;
\* when the end of a mode is announced all its outputs have been shown; and the
\* comparison neither returns nor raises while a run is still going on.
OutputsInOrder ==
    /\ \A m \in Modes :
          /\ shown[m] = [n \in 1 .. Len(shown[m]) |-> n]
          /\ Len(shown[m]) <= begun[m]
          /\ m \in complete => Len(shown[m]) = begun[m]
    /\ pc = "returned" => complete = Modes
    /\ Ended => \A m \in Modes : run[m] # "running"

\* The comparison ends.
CompareEnds == <>Ended
=============================================================================
