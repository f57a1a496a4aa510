------------------------------ MODULE MCTextMode ------------------------------
(* The agents of default_registry and one name no agent has; tasks of one    *)
(* and two keywords; answers without a route, with odd names and without the *)
(* tool.                                                                     *)
EXTENDS TextMode

MCOwner ==
    [c \in Capabilities |->
        CASE c \in {"plan.create", "plan.refine"}                   -> "planner"
          [] c \in {"memory.semantic_search", "evidence.refine"}    -> "retriever"
          [] c \in {"tool.run_python", "codeact.generate"}          -> "executor"
          [] c = "summary.create"                                   -> "summarizer"]

MCFirst == [a \in Agents |-> IF a \in DOMAIN DefaultCapability THEN DefaultCapability[a]
                             ELSE "summary.create"]

MCAnswer(route, capabilities, summary) ==
    [intent |-> "analysis", route |-> route, capabilities |-> capabilities,
     retrieval |-> FALSE, tool |-> FALSE, summary |-> summary]

MCTasks == {{}} \cup {{a, b} : a, b \in Words}

MCAnswers ==
    {None, MCAnswer({}, {}, FALSE), MCAnswer({"coder"}, {"evidence.refine"}, TRUE),
     MCAnswer({"executor", "summarizer"}, {}, FALSE), MCAnswer({}, {"codeact.generate"}, FALSE)}
=============================================================================
