------------------------------ MODULE TextMode ------------------------------
(***************************************************************************)
(* agentmesh.modes.text_mode: one run of Text Mode.  The planner answers     *)
(* first and its answer decides the route; then each agent of the route gets *)
(* the whole text so far and its answer is added to it.  A model that fails  *)
(* is replaced by a fixed text or, for the summarizer, by what an agent      *)
(* before it has said.                                                       *)
(***************************************************************************)
EXTENDS PlannerDecision, Sequences

CONSTANTS
    Tasks,   \* the tasks to run
    Answers  \* the decisions a planner's text may contain, and None

ASSUME TextAssumption ==
    /\ Tasks \subseteq SUBSET Words
    /\ Answers \subseteq Decision \cup {None}
    /\ Owner \in [Capabilities -> DOMAIN DefaultCapability] \* default_registry

VARIABLES
    task,     \* the text of the task
    model,    \* whether a model's client is configured
    agents,   \* the agents of the run, in order
    said,     \* the outputs so far, in the order of agents
    pc,       \* where the run stands
    handoffs, \* the rows of messages.jsonl: who hands the text to whom
    outputs,  \* the rows of agent_io.jsonl: who said something in which step
    answer    \* the answer in the row of trace.jsonl

vars == <<task, model, agents, said, pc, handoffs, outputs, answer>>

-----------------------------------------------------------------------------
\* What a text is, as far as the run looks into it: a fixed text, a plain one,
\* one with a line that begins with a bracket, an empty one, or a text of the
\* runtime that quotes the output of an agent, whole or cut.
Texts == [kind : {"fixed", "plain", "bracketed", "blank", "label"}]
Quotes == [kind : {"quote"}, of : Agents, whole : BOOLEAN]
Text(kind) == [kind |-> kind]

Init ==
    /\ task \in Tasks
    /\ model \in BOOLEAN
    /\ agents = <<"planner">>
    /\ said = <<>>
    /\ pc = "respond"
    /\ handoffs = <<>>
    /\ outputs = <<>>
    /\ answer = None

Step == Len(said)

\* The agent whose turn it is, and whom it hands the text to.
Speaker == agents[Step + 1]
Target(n) == IF n < Len(agents) THEN agents[n + 1] ELSE "runtime"

-----------------------------------------------------------------------------
(* What an agent says.                                                      *)

\* _text_agent_route: the route of the decision, with planner and summarizer.
TextRoute(decision) ==
    LET listed(agent) == IF agent \in decision.route THEN <<agent>> ELSE <<>>
    IN  <<"planner">> \o listed("retriever") \o listed("executor") \o <<"summarizer">>

\* _latest_agent_output: the last text of an agent, up to the next line that
\* begins with a bracket; "" when there is none or it is empty.
Spoken(agent) ==
    {n \in DOMAIN said : agents[n] = agent /\ said[n].kind # "blank"}

Quote(n) ==
    [kind |-> "quote", of |-> agents[n], whole |-> said[n].kind # "bracketed"]

\* Faulty: the agents are tried in the order of the route.
FirstSpeaker(n) ==
    n \in Spoken(agents[n]) /\ \A m \in 1 .. n - 1 : m \notin Spoken(agents[m])

\* _fallback_text_agent_response asks for executor, retriever and planner.
UpstreamOrder == <<"executor", "retriever", "planner">>

LatestSpeaker(n) ==
    \E k \in DOMAIN UpstreamOrder :
        /\ n \in Spoken(UpstreamOrder[k])
        /\ \A j \in 1 .. k - 1 : Spoken(UpstreamOrder[j]) = {}

Fallback(agent) ==
    IF agent # "summarizer" \/ {n \in DOMAIN said : LatestSpeaker(n)} = {}
    THEN {Text("fixed")}
    ELSE {Quote(n) : n \in {m \in DOMAIN said : LatestSpeaker(m)}}

\* _text_agent_response: without a client a fixed text; a call that fails is
\* replaced; and whatever else a model writes.
Responses(agent) ==
    IF ~model THEN {Text("fixed")}
    ELSE Fallback(agent) \cup {Text(k) : k \in {"plain", "bracketed", "blank"}}

\* The planner's text is read for a decision; no other agent's is.
Decisions(response) ==
    IF response.kind \in {"plain", "bracketed"} THEN Answers ELSE {None}

Respond ==
    /\ pc = "respond"
    /\ Step < Len(agents)
    /\ \E response \in Responses(Speaker) :
          /\ said' = Append(said, response)
          /\ IF Step = 0
             THEN \E decision \in Decisions(response) :
                     agents' = TextRoute(FromLlmOrTask(task, decision))
             ELSE UNCHANGED agents
    /\ pc' = "handoff"
    /\ UNCHANGED <<task, model, handoffs, outputs, answer>>

-----------------------------------------------------------------------------
(* What is written down.                                                    *)

LogHandoff ==
    /\ pc = "handoff"
    /\ handoffs' = Append(handoffs, [source |-> agents[Step], target |-> Target(Step)])
    /\ pc' = "io"
    /\ UNCHANGED <<task, model, agents, said, outputs, answer>>

\* append_text_agent_io.
LogOutput ==
    /\ pc = "io"
    /\ outputs' = Append(outputs, [step |-> Step, agent |-> agents[Step]])
    /\ pc' = "respond"
    /\ UNCHANGED <<task, model, agents, said, handoffs, answer>>

\* The last text is the answer; an empty one is replaced by a line of the text.
WriteTrace ==
    /\ pc = "respond"
    /\ Step = Len(agents)
    /\ answer' = IF said[Step].kind = "blank" THEN Text("label") ELSE said[Step]
    /\ pc' = "done"
    /\ UNCHANGED <<task, model, agents, said, handoffs, outputs>>

\* The file system refuses, or the process ends.
Fail ==
    /\ pc \in {"respond", "handoff", "io"}
    /\ pc' = "failed"
    /\ UNCHANGED <<task, model, agents, said, handoffs, outputs, answer>>

Next == Respond \/ LogHandoff \/ LogOutput \/ WriteTrace \/ Fail

Spec == Init /\ [][Next]_vars

-----------------------------------------------------------------------------
(* Safety.                                                                  *)

TypeOK ==
    /\ task \in Tasks
    /\ model \in BOOLEAN
    /\ agents \in Seq(Agents)
    /\ said \in Seq(Texts \cup Quotes)
    /\ pc \in {"respond", "handoff", "io", "done", "failed"}
    /\ handoffs \in Seq([source : Agents, target : Agents \cup {"runtime"}])
    /\ outputs \in Seq([step : Nat, agent : Agents])
    /\ answer \in Texts \cup Quotes \cup {None}

\* A task whose words need the tool is executed, whatever the planner's model
\* answers, and what its executor said stands in the handoffs that lead, agent
\* by agent and without a gap, from the planner to the runtime.
ToolTasksAreExecuted ==
    pc = "done" =>
        /\ FromTask(task).tool => \E n \in DOMAIN handoffs : handoffs[n].source = "executor"
        /\ handoffs[1].source = "planner"
        /\ \A n \in 2 .. Len(handoffs) : handoffs[n].source = handoffs[n - 1].target
        /\ handoffs[Len(handoffs)].target = "runtime"

\* When the summarizer's model is not available the answer is the output of the
\* agent that spoke last before it, and all of it unless a bracket ends it early;
\* it is the fixed text only when no agent before has said anything.
AnswerKeepsWork ==
    pc = "done" /\ model /\ answer.kind \in {"quote", "fixed"} =>
        LET before == {n \in 1 .. Step - 1 : said[n].kind # "blank"}
        IN  /\ answer.kind = "fixed" <=> before = {}
            /\ before # {} =>
                 \E n \in before : /\ \A m \in before : m <= n
                                   /\ answer = Quote(n)
=============================================================================
