--------------------------- MODULE PlannerDecision ---------------------------
(***************************************************************************)
(* agentmesh.runtime.decision: which agents a task needs.  The rules read   *)
(* the words of the task; the planner's model may answer with a decision of *)
(* its own; either is normalised to a route of agents through the map from  *)
(* capabilities to the agents that advertise them.                          *)
(*                                                                          *)
(* A task is the set of the keywords it contains.  Of each list of keywords *)
(* the model has one that no other list has and those it shares with        *)
(* others.  Routes and capability lists are sets: their order is the one of *)
(* Leads, and the code removes duplicates.                                  *)
(***************************************************************************)
EXTENDS Naturals

CONSTANTS
    Agents, \* the agents, and any other name a model may write in a route
    Owner,  \* AgentRegistry.capability_owner_map: the agent of a capability
    First,  \* the first capability of that map which the agent owns
    None    \* a text in which no decision is found

DefaultCapability ==
    [planner |-> "plan.create", retriever |-> "memory.semantic_search",
     executor |-> "tool.run_python", summarizer |-> "summary.create"]

\* The capabilities the stages of a run ask for, in the order of the stages.
Leads == {DefaultCapability[a] : a \in DOMAIN DefaultCapability}
Capabilities == Leads \cup {"plan.refine", "evidence.refine", "codeact.generate"}

Decision == [intent : {"analysis", "validation", "other", ""},
             route : SUBSET Agents, capabilities : SUBSET Capabilities,
             retrieval : BOOLEAN, tool : BOOLEAN, summary : BOOLEAN]

ASSUME DecisionAssumption ==
    /\ DOMAIN DefaultCapability \subseteq Agents
    /\ Owner \in [Capabilities -> Agents]
    /\ First \in [Agents -> Capabilities]
    /\ \A c \in Capabilities : Owner[First[Owner[c]]] = Owner[c]
    /\ None \notin Decision

-----------------------------------------------------------------------------
(* Normalisation.                                                           *)

\* The agents with a default capability keep it, whatever else they advertise.
CapabilityOf(agent) ==
    IF agent \in DOMAIN DefaultCapability THEN DefaultCapability[agent]
                                          ELSE First[agent]

CapabilitiesForRoute(route) == {CapabilityOf(a) : a \in route}

NeedsRetrieval(d) ==
    \/ d.retrieval
    \/ "retriever" \in d.route
    \/ {"memory.semantic_search", "evidence.refine"} \cap d.capabilities # {}

NeedsTool(d) ==
    \/ d.tool
    \/ "executor" \in d.route
    \/ {"tool.run_python", "codeact.generate"} \cap d.capabilities # {}

NeedsSummary(d) == d.summary \/ "summarizer" \in d.route

Normalized(d) ==
    LET need  == {"plan.create"}
                   \cup {c \in {"memory.semantic_search"} : NeedsRetrieval(d)}
                   \cup {c \in {"tool.run_python"} : NeedsTool(d)}
                   \cup {c \in {"summary.create"} : NeedsSummary(d)}
        route == {Owner[c] : c \in need}
    IN  [intent |-> IF NeedsTool(d) /\ d.intent \in {"", "analysis"} THEN "validation"
                    ELSE IF d.intent = "" THEN "analysis" ELSE d.intent,
         route |-> route,
         capabilities |-> CapabilitiesForRoute(route),
         retrieval |-> NeedsRetrieval(d),
         tool |-> NeedsTool(d),
         summary |-> NeedsSummary(d)]

-----------------------------------------------------------------------------
(* The rules.                                                               *)

DirectWords      == {"hello"}
WorkWords        == {"please", "fix", "test", "code", "analyze", "search", "report"}
MemoryWords      == {"remember"}
BenchmarkWords   == {"verify", "benchmark"}
ReviewWords      == {"review"}
CodeWords        == {"run", "fix", "test", "code", "sort"}
CalculationWords == {"calculate", "sort"}
SummaryWords     == {"summary only"}
RetrievalWords   == {"find", "search"}
ReportWords      == {"design", "analyze", "report", "benchmark"}

Words == UNION {DirectWords, WorkWords, MemoryWords, BenchmarkWords, ReviewWords,
                CodeWords, CalculationWords, SummaryWords, RetrievalWords, ReportWords}

ContainsAny(task, words) == task \cap words # {}

IsDirectConversation(task) ==
    ContainsAny(task, DirectWords) /\ ~ContainsAny(task, WorkWords)

Rule(intent, retrieval, tool) ==
    [intent |-> intent, route |-> {}, capabilities |-> {},
     retrieval |-> retrieval, tool |-> tool, summary |-> TRUE]

\* "other" stands for the intents that no code asks about.
Rules ==
    << [words |-> MemoryWords,      gives |-> Rule("other", TRUE, FALSE)],
       [words |-> BenchmarkWords,   gives |-> Rule("validation", TRUE, TRUE)],
       [words |-> ReviewWords,      gives |-> Rule("other", TRUE, FALSE)],
       [words |-> CodeWords,        gives |-> Rule("validation", TRUE, TRUE)],
       [words |-> CalculationWords, gives |-> Rule("validation", FALSE, TRUE)],
       [words |-> SummaryWords,     gives |-> Rule("other", FALSE, FALSE)],
       [words |-> RetrievalWords,   gives |-> Rule("other", TRUE, FALSE)],
       [words |-> ReportWords,      gives |-> Rule("analysis", TRUE, FALSE)] >>

\* The first rule that matches decides; an empty task is asked back about, and
\* a task of no kind gets evidence before its summary.
RuleBasedPolicy(task) ==
    LET matching == {n \in DOMAIN Rules : ContainsAny(task, Rules[n].words)}
    IN  CASE task = {} \/ IsDirectConversation(task) -> Rule("other", FALSE, FALSE)
          [] OTHER ->
             IF matching = {} THEN Rule("analysis", TRUE, FALSE)
             ELSE Rules[CHOOSE n \in matching : \A m \in matching : n <= m].gives

FromTask(task) == Normalized(RuleBasedPolicy(task))

\* Faulty: the answer of the model is taken as it is.
TrustingDecision(task, answer) ==
    IF answer = None THEN FromTask(task) ELSE Normalized(answer)

\* The model's decision counts, but cannot talk a task out of its tool.
FromLlmOrTask(task, answer) ==
    LET fallback == FromTask(task)
        decision == Normalized(answer)
    IN  IF answer = None THEN fallback
        ELSE IF fallback.tool /\ ~decision.tool
             THEN Normalized([decision EXCEPT !.intent = "validation", !.tool = TRUE])
             ELSE decision
=============================================================================
