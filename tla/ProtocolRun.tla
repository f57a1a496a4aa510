----------------------------- MODULE ProtocolRun -----------------------------
(***************************************************************************)
(* agentmesh.modes.protocol_mode: one task through planner, retriever,      *)
(* executor and summarizer, by way of ProtocolScheduler, the agents'        *)
(* handlers, the shared states, the sandbox and the shared memory.  Several *)
(* runs may share one runs directory and one global memory; any of them may *)
(* be cut short by an exception or a crash between two steps.               *)
(***************************************************************************)
EXTENDS Naturals, FiniteSets, Sequences

CONSTANTS
    Runs,         \* the traces; a run stores at most one memory unit, named after it
    Prior,        \* memory units of earlier runs
    None,
    Limit,        \* how many hits a search may reuse (_memory_reuse_limit)
    Handshake,    \* ~ skip_handshake_for_inproc
    GlobalMemory  \* AGENTMESH_DISABLE_GLOBAL_MEMORY is not set

ASSUME RunsAssumption ==
    /\ IsFiniteSet(Runs) /\ IsFiniteSet(Prior) /\ Runs \cap Prior = {}
    /\ None \notin Runs \cup Prior
    /\ Limit \in Nat
    /\ Handshake \in BOOLEAN /\ GlobalMemory \in BOOLEAN

VARIABLES
    pc,       \* where _run_protocol_mode_impl stands
    task,     \* what the prompts below tell apart in the task text
    decision, \* the planner's decision
    state,    \* the StateRecords of each run, by what they hold
    messages, \* the message list of each run
    route,    \* selected_agents of each run's scheduler
    call,     \* the invocation a run waits for
    hits,     \* memory_hits of each run
    outcome,  \* exit and feedback of each run's sandbox
    memory,   \* the databases each memory unit is in
    reuse,    \* reuse_count of each unit
    searches, \* how many searches each run has made (history)
    logged,   \* how many messages of each run messages.jsonl holds
    agentIo,  \* the rows of each run in agent_io.jsonl: who has answered
    hitLog,   \* the rows of each run in memory_hits.jsonl, a unit each
    trace     \* the row of each run in trace.jsonl

vars == <<pc, task, decision, state, messages, route, call, hits, outcome,
          memory, reuse, searches, logged, agentIo, hitLog, trace>>

-----------------------------------------------------------------------------
Units == Runs \cup Prior
Agents == {"planner", "retriever", "executor", "summarizer"}
Kinds == {"task", "plan", "evidence", "code_result",
          "refined_plan", "refined_evidence", "summary"}

\* The stages that invoke an agent, and the action each invokes.
Stages == {"plan", "search", "execute", "replan", "research", "summarize"}
ActionOf == [plan      |-> "plan.create",
             search    |-> "memory.semantic_search",
             execute   |-> "tool.run_python",
             replan    |-> "plan.refine",
             research  |-> "evidence.refine",
             summarize |-> "summary.create"]
Actions == {ActionOf[s] : s \in Stages}

\* require_capability: the first agent registered for the action.
AgentOf == [plan      |-> "planner",
            search    |-> "retriever",
            execute   |-> "executor",
            replan    |-> "planner",
            research  |-> "retriever",
            summarize |-> "summarizer"]

\* What a finished invocation leads to.
AfterCall == [plan      |-> "put_plan",
              search    |-> "put_evidence",
              execute   |-> "sandbox",
              replan    |-> "put_refined_plan",
              research  |-> "put_refined_evidence",
              summarize |-> "put_summary"]

PCs == Stages \cup {AfterCall[s] : s \in Stages} \cup
       {"start", "put_task", "put_result", "commit", "mark", "announce",
        "log", "close", "done", "failed"}

MsgTypes == {"HELLO", "CAPABILITY_ADVERTISE", "CAPABILITY_QUERY",
             "PROTOCOL_MAP", "INVOKE", "RESULT", "STATE_REF", "MEMORY_PUT"}
Parties == Agents \cup {"runtime"}

Message == [type : MsgTypes, source : Parties, target : Parties,
            action : Actions \cup {""}, refs : SUBSET Kinds]
Msg(type, source, target, action, refs) ==
    [type |-> type, source |-> source, target |-> target,
     action |-> action, refs |-> refs]

Entry == [parents : SUBSET Kinds, consumers : SUBSET Agents, memory : BOOLEAN]

ASSUME NoneIsNoEntry == None \notin Entry

Feedback == {"plan.refine", "evidence.refine", "memory.semantic_search"}

Call == [source : Parties, refs : SUBSET Kinds,
         unread : SUBSET Kinds,     \* refs the handler has still to read
         unbumped : SUBSET Units,   \* hits whose reuse_count is not yet raised
         unlogged : SUBSET Units,   \* hits not yet in the log of hits
         searched : BOOLEAN, answered : BOOLEAN]

ASSUME NoneIsNoCall == None \notin Call

TypeOK ==
    /\ pc \in [Runs -> PCs]
    /\ task \in [Runs -> [blank : BOOLEAN, gaps : BOOLEAN]]
    /\ decision \in [Runs -> [retrieval : BOOLEAN, tool : BOOLEAN]]
    /\ state \in [Runs -> [Kinds -> Entry \cup {None}]]
    /\ messages \in [Runs -> Seq(Message)]
    /\ route \in [Runs -> Seq(Agents)]
    /\ call \in [Runs -> Call \cup {None}]
    /\ hits \in [Runs -> SUBSET Units]
    /\ outcome \in [Runs -> [exit : {"none", "ok", "error", "timeout"},
                             gaps : BOOLEAN, advice : SUBSET Feedback]]
    /\ memory \in [Units -> SUBSET {"run", "global"}]
    /\ reuse \in [Units -> Nat]
    /\ searches \in [Runs -> Nat]
    /\ logged \in [Runs -> Nat]
    /\ agentIo \in [Runs -> Seq(Agents)]
    /\ hitLog \in [Runs -> SUBSET (Actions \X Units)]
    /\ trace \in [Runs -> [queries : Nat, reused : Nat, rounds : Nat, scored : Nat]
                            \cup {None}]

Has(r, k) == state[r][k] # None
Present(r, K) == {k \in K : Has(r, k)}
Made(r) == Present(r, Kinds)

Init ==
    /\ pc = [r \in Runs |-> "start"]
    /\ task \in [Runs -> {t \in [blank : BOOLEAN, gaps : BOOLEAN] :
                            t.blank => ~t.gaps}]
    /\ decision = [r \in Runs |-> [retrieval |-> FALSE, tool |-> FALSE]]
    /\ state = [r \in Runs |-> [k \in Kinds |-> None]]
    /\ messages = [r \in Runs |-> <<>>]
    /\ route = [r \in Runs |-> <<>>]
    /\ call = [r \in Runs |-> None]
    /\ hits = [r \in Runs |-> {}]
    /\ outcome = [r \in Runs |-> [exit |-> "none", gaps |-> FALSE, advice |-> {}]]
    /\ memory = [u \in Units |-> IF u \in Prior THEN {"run"} ELSE {}]
    /\ reuse = [u \in Units |-> 0]
    /\ searches = [r \in Runs |-> 0]
    /\ logged = [r \in Runs |-> 0]
    /\ agentIo = [r \in Runs |-> <<>>]
    /\ hitLog = [r \in Runs |-> {}]
    /\ trace = [r \in Runs |-> None]

Goto(r, next) == pc' = [pc EXCEPT ![r] = next]
Say(r, msg) == messages' = [messages EXCEPT ![r] = Append(@, msg)]

-----------------------------------------------------------------------------
(* States: StateStore.put_*, each announced to an agent or not.             *)

Put(r, k, parents) ==
    state' = [state EXCEPT ![r][k] =
                [parents |-> parents, consumers |-> {}, memory |-> FALSE]]

\* Faulty: refs that may not be there; refs left out.
UnfilteredRefs(r) == {"plan", "evidence", "code_result"}
FirstRoundRefs(r) == Present(r, Kinds \ {"summary", "refined_evidence"})

FeedbackRefs(r) == Present(r, {"plan", "evidence", "code_result"})
SummaryRefs(r) == Present(r, Kinds \ {"summary"})

\* The handshake: hello and capabilities of each agent, the query, the map.
HandshakeMessages ==
    LET Speaker == <<"planner", "retriever", "executor", "summarizer">>
        FromAgent(n) == Msg(IF n % 2 = 1 THEN "HELLO" ELSE "CAPABILITY_ADVERTISE",
                            Speaker[(n + 1) \div 2], "runtime", "", {})
    IN  [n \in 1 .. 10 |->
           CASE n \in 1 .. 8 -> FromAgent(n)
             [] n = 9  -> Msg("CAPABILITY_QUERY", "runtime", "runtime", "", {})
             [] n = 10 -> Msg("PROTOCOL_MAP", "runtime", "runtime", "", {})]

Start(r) ==
    /\ pc[r] = "start"
    /\ messages' = [messages EXCEPT ![r] = IF Handshake THEN HandshakeMessages ELSE <<>>]
    /\ Goto(r, "put_task")
    /\ UNCHANGED <<task, decision, state, route, call, hits, outcome,
                   memory, reuse, searches, logged, agentIo, hitLog, trace>>

PutTask(r) ==
    /\ pc[r] = "put_task"
    /\ Put(r, "task", {})
    /\ Say(r, Msg("STATE_REF", "runtime", "planner", "", {"task"}))
    /\ Goto(r, "plan")
    /\ UNCHANGED <<task, decision, route, call, hits, outcome,
                   memory, reuse, searches, logged, agentIo, hitLog, trace>>

\* Faulty: a plan without retrieval is taken to need the tool.
RetrieverOrTool(d) == IF d.retrieval THEN "retriever" ELSE "executor"

\* The decision comes from a model's answer or from the keyword rules, and
\* after normalisation any route may come out.
NextAgent(d) ==
    CASE d.retrieval             -> "retriever"
      [] ~d.retrieval /\ d.tool  -> "executor"
      [] ~d.retrieval /\ ~d.tool -> "summarizer"

StageAfterPlan(d) ==
    CASE d.retrieval             -> "search"
      [] ~d.retrieval /\ d.tool  -> "execute"
      [] ~d.retrieval /\ ~d.tool -> "summarize"

\* _planner_decision: the planner's, normalised, or the one of the rules.
Decisions == [retrieval : BOOLEAN, tool : BOOLEAN]

PutPlan(r) ==
    /\ pc[r] = "put_plan"
    /\ \E d \in Decisions :
          /\ decision' = [decision EXCEPT ![r] = d]
          /\ Say(r, Msg("STATE_REF", "planner", NextAgent(d), "", {"plan"}))
          /\ Goto(r, StageAfterPlan(d))
    /\ Put(r, "plan", {"task"})
    /\ UNCHANGED <<task, route, call, hits, outcome,
                   memory, reuse, searches, logged, agentIo, hitLog, trace>>

PutEvidence(r) ==
    /\ pc[r] = "put_evidence"
    /\ Put(r, "evidence", {"task", "plan"})
    /\ LET next == IF decision[r].tool THEN "executor" ELSE "summarizer"
       IN  Say(r, Msg("STATE_REF", "retriever", next, "", {"evidence"}))
    /\ Goto(r, IF decision[r].tool THEN "execute" ELSE "summarize")
    /\ UNCHANGED <<task, decision, route, call, hits, outcome,
                   memory, reuse, searches, logged, agentIo, hitLog, trace>>

\* _tool_feedback: gaps found by the task's keywords or in the tool's own JSON
\* add a replan and a research, unless the tool already asked for a replan.
Advice(gaps, own) ==
    IF gaps /\ "plan.refine" \notin own
    THEN own \cup {"plan.refine", "evidence.refine"}
    ELSE own

\* The executor's code, a model's or its own, may print any JSON; code that is
\* stopped has printed nothing.
Printed ==
    {p \in [exit : {"ok", "error", "timeout"}, gaps : BOOLEAN, own : SUBSET Feedback] :
        p.exit = "timeout" => ~p.gaps /\ p.own = {}}

RunSandbox(r) ==
    /\ pc[r] = "sandbox"
    /\ \E p \in Printed :
          LET gaps == task[r].gaps \/ p.gaps
          IN  outcome' = [outcome EXCEPT ![r] =
                [exit |-> p.exit, gaps |-> gaps, advice |-> Advice(gaps, p.own)]]
    /\ Goto(r, "put_result")
    /\ UNCHANGED <<task, decision, state, messages, route, call, hits,
                   memory, reuse, searches, logged, agentIo, hitLog, trace>>

ShouldRefineEvidence(r) ==
    outcome[r].advice \cap {"evidence.refine", "memory.semantic_search"} # {}

PutCodeResult(r) ==
    /\ pc[r] = "put_result"
    /\ Put(r, "code_result", Present(r, {"evidence"}))
    /\ Say(r, Msg("STATE_REF", "executor", "summarizer", "", {"code_result"}))
    /\ Goto(r, IF "plan.refine" \in outcome[r].advice THEN "replan"
               ELSE IF ShouldRefineEvidence(r) THEN "research" ELSE "summarize")
    /\ UNCHANGED <<task, decision, route, call, hits, outcome,
                   memory, reuse, searches, logged, agentIo, hitLog, trace>>

\* Faulty: the tool is asked again.
PutEvidenceAndRerun(r) ==
    /\ pc[r] = "put_refined_evidence"
    /\ Put(r, "refined_evidence", FeedbackRefs(r) \cup Present(r, {"refined_plan"}))
    /\ Goto(r, "execute")
    /\ UNCHANGED <<task, decision, messages, route, call, hits, outcome,
                   memory, reuse, searches, logged, agentIo, hitLog, trace>>

PutRefinedPlan(r) ==
    /\ pc[r] = "put_refined_plan"
    /\ Put(r, "refined_plan", FeedbackRefs(r))
    /\ Goto(r, IF ShouldRefineEvidence(r) THEN "research" ELSE "summarize")
    /\ UNCHANGED <<task, decision, messages, route, call, hits, outcome,
                   memory, reuse, searches, logged, agentIo, hitLog, trace>>

PutRefinedEvidence(r) ==
    /\ pc[r] = "put_refined_evidence"
    /\ Put(r, "refined_evidence", FeedbackRefs(r) \cup Present(r, {"refined_plan"}))
    /\ Goto(r, "summarize")
    /\ UNCHANGED <<task, decision, messages, route, call, hits, outcome,
                   memory, reuse, searches, logged, agentIo, hitLog, trace>>

PutSummary(r) ==
    /\ pc[r] = "put_summary"
    /\ Put(r, "summary", SummaryRefs(r))
    /\ Goto(r, "commit")
    /\ UNCHANGED <<task, decision, messages, route, call, hits, outcome,
                   memory, reuse, searches, logged, agentIo, hitLog, trace>>

-----------------------------------------------------------------------------
(* Invocations: ProtocolScheduler.invoke and the handlers.                  *)

\* Faulty: as if there had always been a search.
AfterSearch(r) == "retriever"

ToolSource(r) == IF Has(r, "evidence") THEN "retriever" ELSE "planner"

SourceOf(r) ==
    CASE pc[r] = "plan"      -> "runtime"
      [] pc[r] = "search"    -> "planner"
      [] pc[r] = "execute"   -> ToolSource(r)
      [] pc[r] = "replan"    -> "executor"
      [] pc[r] = "research"  -> IF Has(r, "refined_plan") THEN "planner" ELSE "executor"
      [] pc[r] = "summarize" -> route[r][Len(route[r])]

RefsOf(r) ==
    CASE pc[r] = "plan"      -> {"task"}
      [] pc[r] = "search"    -> {"task", "plan"}
      [] pc[r] = "execute"   -> Present(r, {"task", "evidence"})
      [] pc[r] = "replan"    -> {"task"} \cup FeedbackRefs(r)
      [] pc[r] = "research"  -> {"task"} \cup FeedbackRefs(r)
                                         \cup Present(r, {"refined_plan"})
      [] pc[r] = "summarize" -> SummaryRefs(r)

\* The handlers take the task, the evidence and the code result from params
\* and read the states only when the param they want is empty.
ExecutorReads(r) == task[r].blank \/ ~Has(r, "evidence")
SummarizerReads(r) == ~Has(r, "code_result")

ReadsStates(r) ==
    CASE pc[r] \in {"plan", "search", "replan", "research"} -> task[r].blank
      [] pc[r] = "execute"   -> ExecutorReads(r)
      [] pc[r] = "summarize" -> SummarizerReads(r)

Invoke(r) ==
    /\ pc[r] \in Stages
    /\ call[r] = None
    /\ Say(r, Msg("INVOKE", SourceOf(r), AgentOf[pc[r]], ActionOf[pc[r]], RefsOf(r)))
    /\ call' = [call EXCEPT ![r] =
                  [source |-> SourceOf(r), refs |-> RefsOf(r),
                   unread |-> IF ReadsStates(r) THEN RefsOf(r) ELSE {},
                   unbumped |-> {}, unlogged |-> {},
                   searched |-> FALSE, answered |-> FALSE]]
    /\ UNCHANGED <<pc, task, decision, state, route, hits, outcome,
                   memory, reuse, searches, logged, agentIo, hitLog, trace>>

\* read_state_payloads: get and add_consumer, one ref after another.
ReadOrder == <<"task", "plan", "evidence", "code_result", "refined_plan">>

ReadState(r) ==
    /\ call[r] # None
    /\ \E n \in 1 .. Len(ReadOrder) :
       LET k == ReadOrder[n] IN
          /\ k \in call[r].unread
          /\ \A m \in 1 .. n - 1 : ReadOrder[m] \notin call[r].unread
          /\ state' = [state EXCEPT ![r][k].consumers = @ \cup {AgentOf[pc[r]]}]
          /\ call' = [call EXCEPT ![r].unread = @ \ {k}]
    /\ UNCHANGED <<pc, task, decision, messages, route, hits, outcome,
                   memory, reuse, searches, logged, agentIo, hitLog, trace>>

\* _run_memory_search: up to Limit stored units that pass the thresholds.  An
\* empty query (a task may also be blank without being empty) is not searched for.
Stored == {u \in Units : memory[u] # {}}

SearchMemory(r) ==
    /\ pc[r] \in {"search", "research"}
    /\ call[r] # None
    /\ call[r].unread = {}
    /\ ~call[r].searched
    /\ \E H \in SUBSET Stored :
          /\ Cardinality(H) <= Limit
          /\ call' = [call EXCEPT ![r].searched = TRUE,
                                  ![r].unbumped = H, ![r].unlogged = H]
          /\ hits' = IF pc[r] = "search" THEN [hits EXCEPT ![r] = H] ELSE hits
          /\ \/ searches' = [searches EXCEPT ![r] = @ + 1]
             \/ task[r].blank /\ H = {} /\ UNCHANGED searches
    /\ UNCHANGED <<pc, task, decision, state, messages, route, outcome,
                   memory, reuse, logged, agentIo, hitLog, trace>>

IncrementReuse(r) ==
    /\ call[r] # None
    /\ \E u \in call[r].unbumped :
          /\ reuse' = [reuse EXCEPT ![u] = @ + 1]
          /\ call' = [call EXCEPT ![r].unbumped = @ \ {u}]
    /\ UNCHANGED <<pc, task, decision, state, messages, route, hits, outcome,
                   memory, searches, logged, agentIo, hitLog, trace>>

\* Faulty: the hits are logged before they are counted.
LogHitsFirst(r) ==
    /\ call[r] # None
    /\ call[r].unlogged # {}
    /\ hitLog' = [hitLog EXCEPT ![r] = @ \cup ({ActionOf[pc[r]]} \X call[r].unlogged)]
    /\ call' = [call EXCEPT ![r].unlogged = {}]
    /\ UNCHANGED <<pc, task, decision, state, messages, route, hits, outcome,
                   memory, reuse, searches, logged, agentIo, trace>>

\* _append_memory_hit_log, once all hits are counted.
LogHits(r) ==
    /\ call[r] # None
    /\ call[r].unbumped = {}
    /\ call[r].unlogged # {}
    /\ hitLog' = [hitLog EXCEPT ![r] = @ \cup ({ActionOf[pc[r]]} \X call[r].unlogged)]
    /\ call' = [call EXCEPT ![r].unlogged = {}]
    /\ UNCHANGED <<pc, task, decision, state, messages, route, hits, outcome,
                   memory, reuse, searches, logged, agentIo, trace>>

Reply(r) ==
    Msg("RESULT", AgentOf[pc[r]], call[r].source, ActionOf[pc[r]], call[r].refs)

\* The handler's RESULT, which the scheduler appends.
Answer(r) ==
    /\ call[r] # None
    /\ ~call[r].answered
    /\ call[r].unread = {} /\ call[r].unlogged = {}
    /\ pc[r] \in {"search", "research"} => call[r].searched
    /\ Say(r, Reply(r))
    /\ call' = [call EXCEPT ![r].answered = TRUE]
    /\ UNCHANGED <<pc, task, decision, state, route, hits, outcome,
                   memory, reuse, searches, logged, agentIo, hitLog, trace>>

\* append_protocol_agent_io, whose step is the number of the agents selected so
\* far; then the agent is selected and invoke returns.
Select(r) ==
    /\ call[r] # None
    /\ call[r].answered
    /\ agentIo' = [agentIo EXCEPT ![r] = Append(@, AgentOf[pc[r]])]
    /\ route' = [route EXCEPT ![r] = Append(@, AgentOf[pc[r]])]
    /\ call' = [call EXCEPT ![r] = None]
    /\ Goto(r, AfterCall[pc[r]])
    /\ UNCHANGED <<task, decision, state, messages, hits, outcome,
                   memory, reuse, searches, logged, hitLog, trace>>

-----------------------------------------------------------------------------
(* The end of a run: memory, log, metrics.                                  *)

\* MemoryWritePolicy.should_write: the summary may be too short.
CommitRunMemory(r) ==
    /\ pc[r] = "commit"
    /\ \/ /\ memory' = [memory EXCEPT ![r] = @ \cup {"run"}]
          /\ Goto(r, "mark")
       \/ /\ Goto(r, "log")
          /\ UNCHANGED memory
    /\ UNCHANGED <<task, decision, state, messages, route, call, hits, outcome,
                   reuse, searches, logged, agentIo, hitLog, trace>>

\* SQLiteMemoryStore.put marks the unit's states one by one after the commit.
MarkOrder == <<"task", "plan", "refined_plan", "code_result", "summary",
               "evidence", "refined_evidence">>
Unmarked(r) == {k \in Made(r) : ~state[r][k].memory}

MarkState(r) ==
    /\ pc[r] = "mark"
    /\ \E n \in 1 .. Len(MarkOrder) :
       LET k == MarkOrder[n] IN
          /\ k \in Unmarked(r)
          /\ \A m \in 1 .. n - 1 : MarkOrder[m] \notin Unmarked(r)
          /\ state' = [state EXCEPT ![r][k].memory = TRUE]
    /\ UNCHANGED <<pc, task, decision, messages, route, call, hits, outcome,
                   memory, reuse, searches, logged, agentIo, hitLog, trace>>

\* Faulty: failed runs are remembered too.
AnyOutcome(r) == GlobalMemory

\* should_write_long_term: the tool did not fail; the importance and the type
\* of the unit, which the tagger chooses, may still forbid it.
Valid(r) == outcome[r].exit \in {"none", "ok"}
LongTerm(r) == GlobalMemory /\ Valid(r)

CommitGlobalMemory(r) ==
    /\ pc[r] = "mark"
    /\ Unmarked(r) = {}
    /\ \/ /\ LongTerm(r)
          /\ memory' = [memory EXCEPT ![r] = @ \cup {"global"}]
       \/ UNCHANGED memory
    /\ Goto(r, "announce")
    /\ UNCHANGED <<task, decision, state, messages, route, call, hits, outcome,
                   reuse, searches, logged, agentIo, hitLog, trace>>

AnnounceMemory(r) ==
    /\ pc[r] = "announce"
    /\ Say(r, Msg("MEMORY_PUT", "summarizer", "runtime", "", Made(r)))
    /\ Goto(r, "log")
    /\ UNCHANGED <<task, decision, state, route, call, hits, outcome,
                   memory, reuse, searches, logged, agentIo, hitLog, trace>>

\* messages.jsonl is written when the run is over, one line after another.
LogMessage(r) ==
    /\ pc[r] = "log"
    /\ logged[r] < Len(messages[r])
    /\ logged' = [logged EXCEPT ![r] = @ + 1]
    /\ UNCHANGED <<pc, task, decision, state, messages, route, call, hits,
                   outcome, memory, reuse, searches, agentIo, hitLog, trace>>

\* _memory_quality_from_log averages the scores of all the run's logged hits.
Scored(r) == Cardinality(hitLog[r])

\* Faulty: the unit of the run itself is taken off the hits.
MetricsLessOne(r) ==
    [queries |-> IF decision[r].retrieval THEN 1 ELSE 0,
     reused  |-> Cardinality(hits[r]) - 1,
     rounds  |-> IF Has(r, "refined_plan") \/ Has(r, "refined_evidence") THEN 1 ELSE 0,
     scored  |-> Scored(r)]

Metrics(r) ==
    [queries |-> IF decision[r].retrieval THEN 1 ELSE 0,
     reused  |-> Cardinality(hits[r]),
     rounds  |-> IF Has(r, "refined_plan") \/ Has(r, "refined_evidence") THEN 1 ELSE 0,
     scored  |-> Scored(r)]

\* Faulty: the row is written once the log has begun.
LogBegun(r) == logged[r] > 0

LogComplete(r) == logged[r] = Len(messages[r])

WriteTrace(r) ==
    /\ pc[r] = "log"
    /\ LogComplete(r)
    /\ trace' = [trace EXCEPT ![r] = Metrics(r)]
    /\ Goto(r, "close")
    /\ UNCHANGED <<task, decision, state, messages, route, call, hits, outcome,
                   memory, reuse, searches, logged, agentIo, hitLog>>

Finish(r) ==
    /\ pc[r] = "close"
    /\ Goto(r, "done")
    /\ UNCHANGED <<task, decision, state, messages, route, call, hits, outcome,
                   memory, reuse, searches, logged, agentIo, hitLog, trace>>

\* An exception, or the end of the process: whatever is durable stays.
Fail(r) ==
    /\ pc[r] \notin {"start", "done", "failed"}
    /\ Goto(r, "failed")
    /\ call' = [call EXCEPT ![r] = None]
    /\ UNCHANGED <<task, decision, state, messages, route, hits, outcome,
                   memory, reuse, searches, logged, agentIo, hitLog, trace>>

RunStep(r) ==
    \/ Start(r)
    \/ PutTask(r)
    \/ PutPlan(r)
    \/ PutEvidence(r)
    \/ RunSandbox(r)
    \/ PutCodeResult(r)
    \/ PutRefinedPlan(r)
    \/ PutRefinedEvidence(r)
    \/ PutSummary(r)
    \/ Invoke(r)
    \/ ReadState(r)
    \/ SearchMemory(r)
    \/ IncrementReuse(r)
    \/ LogHits(r)
    \/ Answer(r)
    \/ Select(r)
    \/ CommitRunMemory(r)
    \/ MarkState(r)
    \/ CommitGlobalMemory(r)
    \/ AnnounceMemory(r)
    \/ LogMessage(r)
    \/ WriteTrace(r)
    \/ Finish(r)

Next == \E r \in Runs : RunStep(r) \/ Fail(r)

Spec == Init /\ [][Next]_vars

-----------------------------------------------------------------------------
(* Safety.                                                                  *)

Ended == {"done", "failed"}
Invocations(r) == {n \in DOMAIN messages[r] : messages[r][n].type = "INVOKE"}
AskedFor(r, action) == {n \in Invocations(r) : messages[r][n].action = action}
Nth(r, n) == Cardinality({m \in Invocations(r) : m <= n})

\* No message, no parent link and no stored memory unit ever names a state
\* the run has not put yet (the optional refs of every prompt are filtered).
NoDanglingRefs ==
    \A r \in Runs :
        /\ \A n \in DOMAIN messages[r] : messages[r][n].refs \subseteq Made(r)
        /\ \A k \in Made(r) : state[r][k].parents \subseteq Made(r)
        /\ memory[r] # {} => {"task", "plan", "summary"} \subseteq Made(r)

\* The summary of a run descends from every other state the run ever puts,
\* whatever the route and the feedback were: its lineage leaves nothing out.
\* Where the tool has found gaps a new plan is among them.
SummaryCovers ==
    \A r \in Runs : Has(r, "summary") =>
        /\ state[r]["summary"].parents = Made(r) \ {"summary"}
        /\ outcome[r].gaps => Has(r, "refined_plan")

\* Calls are nested in time: an agent is only ever invoked on behalf of the
\* runtime or of an agent that has already answered in this run (source_agent is
\* computed at each stage from what happened before it), and every invocation is
\* answered at once, to the agent it came from and with the refs it carried; only
\* the last one of a run cut short may stay open.
CallsAreAnswered ==
    \A r \in Runs : \A n \in Invocations(r) :
        LET m == messages[r][n]
        IN  /\ \/ m.source = "runtime"
               \/ \E k \in 1 .. n - 1 : /\ messages[r][k].type = "RESULT"
                                        /\ messages[r][k].source = m.source
            /\ IF n = Len(messages[r])
               THEN call[r] # None \/ pc[r] = "failed"
               ELSE messages[r][n + 1] = Msg("RESULT", m.target, m.source, m.action, m.refs)

\* In a run that ends well, every state announced to an agent is followed by
\* an invocation of that agent (next_agent and the targets of the STATE_REF
\* messages are computed apart from the stages that invoke).
AnnouncedAreInvoked ==
    \A r \in Runs : pc[r] = "done" =>
        \A n \in DOMAIN messages[r] : messages[r][n].type = "STATE_REF" =>
            \E m \in Invocations(r) :
                n < m /\ messages[r][m].target = messages[r][n].target

\* The mark and the announcement follow the unit: a state is marked only after
\* the unit that names it is stored; a unit reaches the long-term store only when
\* all its states are marked and the tool, if any, succeeded; and a run announces
\* the unit it has stored, with every state marked, and no other.
MarkFollowsUnit ==
    \A r \in Runs :
        LET announced == \E n \in DOMAIN messages[r] : messages[r][n].type = "MEMORY_PUT"
        IN  /\ (\E k \in Made(r) : state[r][k].memory) => "run" \in memory[r]
            /\ "global" \in memory[r] => outcome[r].exit \notin {"error", "timeout"}
            /\ "global" \in memory[r] \/ announced => "run" \in memory[r] /\ Unmarked(r) = {}
            /\ pc[r] = "done" /\ memory[r] # {} => announced

\* The uses of a unit: those in the logs of hits, and those an open search has
\* counted and is still to log.
LoggedUses(u) == {x \in Runs \X Actions : <<x[2], u>> \in hitLog[x[1]]}
OpenUses(u) ==
    {x \in Runs \X Actions :
        /\ call[x[1]] # None
        /\ x[2] = ActionOf[pc[x[1]]]
        /\ u \in call[x[1]].unlogged \ call[x[1]].unbumped}

\* The count of a unit and the logs of hits of all runs tell the same uses,
\* however the counting of several runs interleaves (_run_memory_search counts,
\* _append_memory_hit_log follows): no log tells of a use that is not counted,
\* and the count is ahead only by the searches in progress, and by no more than
\* one use for each run that was cut short.
CountsMatchLogs ==
    \A u \in Units :
        LET uses == Cardinality(LoggedUses(u) \cup OpenUses(u))
        IN  /\ uses <= reuse[u]
            /\ reuse[u] <= uses + Cardinality({r \in Runs : pc[r] = "failed"})

\* A row in trace.jsonl means that messages.jsonl and agent_io.jsonl hold the
\* whole run; a run cut short before its log stage leaves no message at all, and
\* its agent_io.jsonl has the agents it asked, in order, but for the last.  The
\* row leaves out no search but the one evidence.refine makes, scores every hit
\* it counts, and counts a feedback round exactly when there was one.
TraceIsTrue ==
    \A r \in Runs :
        LET asked == Cardinality(Invocations(r))
            refined == AskedFor(r, "evidence.refine")
            replanned == AskedFor(r, "plan.refine")
        IN  /\ logged[r] > 0 => Has(r, "summary")
            /\ Len(agentIo[r]) <= asked /\ asked <= Len(agentIo[r]) + 1
            /\ \A n \in Invocations(r) : Nth(r, n) <= Len(agentIo[r]) =>
                  agentIo[r][Nth(r, n)] = messages[r][n].target
            /\ trace[r] # None =>
                  /\ logged[r] = Len(messages[r])
                  /\ Len(agentIo[r]) = asked
                  /\ searches[r] <= trace[r].queries + Cardinality(refined)
                  /\ trace[r].reused <= trace[r].scored
                  /\ trace[r].rounds = IF refined \cup replanned = {} THEN 0 ELSE 1

\* The order of the invocations of each run is a collaboration route: in
\* particular there is at most one round of feedback.
Route == INSTANCE CollaborationRoute WITH
    asked <- [r \in Runs |-> {messages[r][n].action : n \in Invocations(r)}],
    outcome <- [r \in Runs |-> CASE pc[r] = "done"   -> "answered"
                                  [] pc[r] = "failed" -> "failed"
                                  [] OTHER            -> "open"]

ImplementsRoute == Route!Spec

=============================================================================
