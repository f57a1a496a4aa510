---------------------------- MODULE DecisionProofs ----------------------------
(***************************************************************************)
(* Theorems about PlannerDecision, for every registry of agents, and about  *)
(* TextMode, for every task and every answer of the models.                 *)
(***************************************************************************)
EXTENDS TextMode, SequenceTheorems, TLAPS

\* The registry gives each capability a stage asks for to the agent that the
\* code names for it, or to one that advertises it first of all (default_registry
\* does).
RolesApart == \A l \in Leads : CapabilityOf(Owner[l]) = l

Replies == Decision \cup {None}
Lead(agent) == DefaultCapability[agent]

LEMMA LeadsAre ==
    Leads = {"plan.create", "memory.semantic_search", "tool.run_python", "summary.create"}
<1>1. DOMAIN DefaultCapability = {"planner", "retriever", "executor", "summarizer"}
  BY DEF DefaultCapability
<1> QED
  BY <1>1 DEF Leads, DefaultCapability

\* Normalisation returns a decision.
THEOREM NormalizedIsDecision ==
    \A d \in Decision : Normalized(d) \in Decision
<1> TAKE d \in Decision
<1>1. Owner \in [Capabilities -> Agents] /\ First \in [Agents -> Capabilities]
  BY DecisionAssumption
<1>2. Leads \subseteq Capabilities
  BY DEF Capabilities
<1>3. \A a \in Agents : CapabilityOf(a) \in Capabilities
  <2> TAKE a \in Agents
  <2>1. CASE a \in DOMAIN DefaultCapability
    BY <1>2, <2>1 DEF CapabilityOf, Leads
  <2>2. CASE a \notin DOMAIN DefaultCapability
    BY <1>1, <2>2 DEF CapabilityOf
  <2> QED
    BY <2>1, <2>2
<1> DEFINE n == Normalized(d)
<1>4. n.route \in SUBSET Agents
  BY <1>1, <1>2, LeadsAre DEF Normalized
<1>5. n.capabilities \in SUBSET Capabilities
  BY <1>3, <1>4 DEF Normalized, CapabilitiesForRoute
<1>6. n.retrieval \in BOOLEAN /\ n.tool \in BOOLEAN /\ n.summary \in BOOLEAN
  BY DEF Decision, Normalized, NeedsRetrieval, NeedsTool, NeedsSummary
<1>7. n.intent \in {"analysis", "validation", "other", ""}
  BY DEF Decision, Normalized
<1>8. n = [intent |-> n.intent, route |-> n.route, capabilities |-> n.capabilities,
           retrieval |-> n.retrieval, tool |-> n.tool, summary |-> n.summary]
  BY DEF Normalized
<1> QED
  BY <1>4, <1>5, <1>6, <1>7, <1>8 DEF Decision

\* The flags of a normalised decision and its route say the same, so that it
\* does not matter which of them a caller reads (Protocol Mode reads the flags,
\* Text Mode the route).
THEOREM FlagsMatchRoute ==
    ASSUME RolesApart, NEW d \in Decision
    PROVE  LET n == Normalized(d)
           IN  /\ n.retrieval <=> Owner["memory.semantic_search"] \in n.route
               /\ n.tool <=> Owner["tool.run_python"] \in n.route
               /\ n.summary <=> Owner["summary.create"] \in n.route
               /\ Owner["plan.create"] \in n.route
               /\ n.capabilities \subseteq Leads
<1>1. \A l, k \in Leads : Owner[l] = Owner[k] => l = k
  BY DEF RolesApart
<1> QED
  BY <1>1, LeadsAre DEF RolesApart, Normalized, CapabilitiesForRoute

\* Normalising again changes nothing: _planner_decision normalises once more
\* what the planner has already normalised.
THEOREM NormalizedIsStable ==
    ASSUME RolesApart, NEW d \in Decision
    PROVE  Normalized(Normalized(d)) = Normalized(d)
<1> DEFINE n == Normalized(d)
           need == {"plan.create"}
                   \cup {c \in {"memory.semantic_search"} : NeedsRetrieval(d)}
                   \cup {c \in {"tool.run_python"} : NeedsTool(d)}
                   \cup {c \in {"summary.create"} : NeedsSummary(d)}
<1>1. need \subseteq Leads
  BY LeadsAre
<1>2. n.route = {Owner[c] : c \in need}
  BY DEF Normalized
<1>3. n.capabilities = need
  BY <1>1, <1>2 DEF RolesApart, Normalized, CapabilitiesForRoute
<1>4. \A l \in Leads : Owner[l] \in {"retriever", "executor", "summarizer"} =>
          l = Lead(Owner[l])
  BY DEF RolesApart, CapabilityOf, DefaultCapability, Lead
<1>5. /\ "retriever" \in n.route => NeedsRetrieval(d)
      /\ "executor" \in n.route => NeedsTool(d)
      /\ "summarizer" \in n.route => NeedsSummary(d)
  BY <1>1, <1>2, <1>4 DEF Lead, DefaultCapability
<1>6. NeedsRetrieval(n) = NeedsRetrieval(d)
  <2>1. n.retrieval = NeedsRetrieval(d)
    BY DEF Normalized
  <2> QED
    BY <1>3, <1>5, <2>1 DEF NeedsRetrieval
<1>7. NeedsTool(n) = NeedsTool(d)
  <2>1. n.tool = NeedsTool(d)
    BY DEF Normalized
  <2> QED
    BY <1>3, <1>5, <2>1 DEF NeedsTool
<1>8. NeedsSummary(n) = NeedsSummary(d)
  <2>1. n.summary = NeedsSummary(d)
    BY DEF Normalized
  <2> QED
    BY <1>5, <2>1 DEF NeedsSummary
<1>9. Normalized(n).intent = n.intent
  BY <1>7 DEF Normalized
<1>10. Normalized(n).route = n.route
  BY <1>6, <1>7, <1>8 DEF Normalized
<1>11. Normalized(n).capabilities = n.capabilities
  BY <1>6, <1>7, <1>8 DEF Normalized
<1>12. ASSUME NEW x
       PROVE  Normalized(x) = [intent |-> Normalized(x).intent, route |-> Normalized(x).route,
                 capabilities |-> Normalized(x).capabilities, retrieval |-> NeedsRetrieval(x),
                 tool |-> NeedsTool(x), summary |-> NeedsSummary(x)]
  BY DEF Normalized
<1> HIDE DEF n
<1>13. Normalized(n) = [intent |-> n.intent, route |-> n.route,
                 capabilities |-> n.capabilities, retrieval |-> NeedsRetrieval(d),
                 tool |-> NeedsTool(d), summary |-> NeedsSummary(d)]
  BY <1>6, <1>7, <1>8, <1>9, <1>10, <1>11, <1>12, Zenon
<1>14. n = [intent |-> n.intent, route |-> n.route,
                 capabilities |-> n.capabilities, retrieval |-> NeedsRetrieval(d),
                 tool |-> NeedsTool(d), summary |-> NeedsSummary(d)]
  BY <1>12, Zenon DEF n
<1>15. Normalized(n) = n
  BY <1>13, <1>14, Zenon
<1> QED
  BY <1>15 DEF n

\* The first rule that matches decides.
LEMMA RuleIsOneOf ==
    ASSUME NEW wording
    PROVE  \E r \in BOOLEAN, t \in BOOLEAN, i \in {"analysis", "validation", "other"} :
               RuleBasedPolicy(wording) = Rule(i, r, t)
<1> DEFINE matching == {n \in DOMAIN Rules : ContainsAny(wording, Rules[n].words)}
<1>1. CASE wording = {} \/ IsDirectConversation(wording) \/ matching = {}
  BY <1>1 DEF RuleBasedPolicy
<1>2. CASE ~(wording = {} \/ IsDirectConversation(wording)) /\ matching # {}
  <2>1. DOMAIN Rules = 1 .. 8
    BY DEF Rules
  <2>2. \E n \in matching : \A m \in matching : n <= m
    <3>1. matching \subseteq 1 .. 8
      BY <2>1
    <3> QED
      BY <1>2, <3>1
  <2>3. PICK n \in 1 .. 8 : RuleBasedPolicy(wording) = Rules[n].gives
    BY <1>2, <2>1, <2>2 DEF RuleBasedPolicy
  <2>4. n \in {1, 2, 3, 4, 5, 6, 7, 8}
    OBVIOUS
  <2>5. \E r \in BOOLEAN, t \in BOOLEAN, i \in {"analysis", "validation", "other"} :
            Rules[n].gives = Rule(i, r, t)
    <3>1. /\ Rules[1].gives = Rule("other", TRUE, FALSE)
          /\ Rules[2].gives = Rule("validation", TRUE, TRUE)
          /\ Rules[3].gives = Rule("other", TRUE, FALSE)
          /\ Rules[4].gives = Rule("validation", TRUE, TRUE)
          /\ Rules[5].gives = Rule("validation", FALSE, TRUE)
          /\ Rules[6].gives = Rule("other", FALSE, FALSE)
          /\ Rules[7].gives = Rule("other", TRUE, FALSE)
          /\ Rules[8].gives = Rule("analysis", TRUE, FALSE)
      BY DEF Rules
    <3> QED
      BY <2>4, <3>1, Zenon
  <2> QED
    BY <2>3, <2>5
<1> QED
  BY <1>1, <1>2

\* What comes out of a task and an answer, of a model or of none, is a decision
\* whose tool flag the rules can only raise: no answer talks a task out of its tool.
THEOREM ToolTasksKeepTheirTool ==
    ASSUME NEW wording, NEW reply \in Replies, FromTask(wording).tool
    PROVE  FromLlmOrTask(wording, reply).tool
<1>1. CASE reply = None
  BY <1>1 DEF FromLlmOrTask
<1>2. CASE reply # None /\ Normalized(reply).tool
  BY <1>2 DEF FromLlmOrTask
<1>3. CASE reply # None /\ ~Normalized(reply).tool
  <2> DEFINE d == [Normalized(reply) EXCEPT !.intent = "validation", !.tool = TRUE]
  <2>1. d.tool = TRUE
    BY DEF Normalized
  <2>2. FromLlmOrTask(wording, reply) = Normalized(d)
    BY <1>3 DEF FromLlmOrTask
  <2>3. Normalized(d).tool = NeedsTool(d)
    BY DEF Normalized
  <2>4. NeedsTool(d)
    BY <2>1 DEF NeedsTool
  <2> QED
    BY <2>2, <2>3, <2>4
<1> QED
  BY <1>1, <1>2, <1>3

\* Whatever a model answers, the outcome is a normalised decision: it is what
\* normalising it again gives, and FlagsMatchRoute holds of it.
THEOREM OutcomeIsNormalized ==
    ASSUME RolesApart, NEW wording, NEW reply \in Replies
    PROVE  /\ FromLlmOrTask(wording, reply) \in Decision
           /\ Normalized(FromLlmOrTask(wording, reply)) = FromLlmOrTask(wording, reply)
<1>1. RuleBasedPolicy(wording) \in Decision
  <2>1. \A r, t \in BOOLEAN : \A i \in {"analysis", "validation", "other"} :
            Rule(i, r, t) \in Decision
    BY DEF Rule, Decision
  <2> QED
    BY <2>1, RuleIsOneOf
<1>2. \E d \in Decision : FromLlmOrTask(wording, reply) = Normalized(d)
  <2>1. CASE reply = None
    BY <1>1, <2>1 DEF FromLlmOrTask, FromTask
  <2>2. CASE reply # None
    <3>1. reply \in Decision /\ Normalized(reply) \in Decision
      BY <2>2, NormalizedIsDecision DEF Replies
    <3>2. [Normalized(reply) EXCEPT !.intent = "validation", !.tool = TRUE] \in Decision
      BY <3>1 DEF Decision
    <3> QED
      BY <2>2, <3>1, <3>2 DEF FromLlmOrTask
  <2> QED
    BY <2>1, <2>2
<1> QED
  BY <1>2, NormalizedIsDecision, NormalizedIsStable

-----------------------------------------------------------------------------
(* Text Mode: the routes.                                                   *)

Names == {"planner", "retriever", "executor", "summarizer"}

Routes ==
    { <<"planner", "summarizer">>,
      <<"planner", "retriever", "summarizer">>,
      <<"planner", "executor", "summarizer">>,
      <<"planner", "retriever", "executor", "summarizer">> }

\* The route of a decision is one of them, with the executor if it names it.
LEMMA RouteOfDecision ==
    ASSUME NEW d
    PROVE  /\ TextRoute(d) \in Routes
           /\ "executor" \in d.route =>
                 TextRoute(d) \in { <<"planner", "executor", "summarizer">>,
                                    <<"planner", "retriever", "executor", "summarizer">> }
<1>1. \A s \in Seq(Names), a \in Names : s \o <<a>> = Append(s, a) /\ s \o <<>> = s /\ s \o <<a>> \in Seq(Names)
  OBVIOUS
<1>2. <<"planner">> \in Seq(Names) BY DEF Names
<1>3. Names = {"planner", "retriever", "executor", "summarizer"} BY DEF Names
<1>4. \A a, b \in Names : <<a>> \o <<b>> = <<a, b>> /\ <<a, b>> \in Seq(Names)
  <2> TAKE a, b \in Names
  <2> DEFINE s == <<a>> \o <<b>>  t == <<a, b>>
  <2>1. s \in Seq(Names) /\ Len(s) = 2 /\ s[1] = a /\ s[2] = b BY <1>1
  <2>2. t \in Seq(Names) /\ Len(t) = 2 /\ t[1] = a /\ t[2] = b OBVIOUS
  <2> HIDE DEF s, t
  <2>3. s = t BY <2>1, <2>2, SeqEqual
  <2> QED BY <2>2, <2>3 DEF s, t
<1>5. \A a, b, c \in Names : <<a, b>> \o <<c>> = <<a, b, c>> /\ <<a, b, c>> \in Seq(Names)
  <2> TAKE a, b, c \in Names
  <2> DEFINE s == <<a, b>> \o <<c>>  t == <<a, b, c>>
  <2>1. s \in Seq(Names) /\ Len(s) = 3 /\ s[1] = a /\ s[2] = b /\ s[3] = c BY <1>1
  <2>2. t \in Seq(Names) /\ Len(t) = 3 /\ t[1] = a /\ t[2] = b /\ t[3] = c OBVIOUS
  <2> HIDE DEF s, t
  <2>3. s = t BY <2>1, <2>2, SeqEqual
  <2> QED BY <2>2, <2>3 DEF s, t
<1>6. \A a, b, c, e \in Names : <<a, b, c>> \o <<e>> = <<a, b, c, e>>
  <2> TAKE a, b, c, e \in Names
  <2> DEFINE s == <<a, b, c>> \o <<e>>  t == <<a, b, c, e>>
  <2>1. s \in Seq(Names) /\ Len(s) = 4 /\ s[1] = a /\ s[2] = b /\ s[3] = c /\ s[4] = e BY <1>1
  <2>2. t \in Seq(Names) /\ Len(t) = 4 /\ t[1] = a /\ t[2] = b /\ t[3] = c /\ t[4] = e OBVIOUS
  <2> HIDE DEF s, t
  <2>3. s = t BY <2>1, <2>2, SeqEqual
  <2> QED BY <2>2, <2>3 DEF s, t
<1>8. /\ <<"planner">> \o <<>> = <<"planner">>
      /\ <<"planner">> \o <<"retriever">> = <<"planner", "retriever">>
      /\ <<"planner", "retriever">> \o <<>> = <<"planner", "retriever">>
      /\ <<"planner">> \o <<"executor">> = <<"planner", "executor">>
      /\ <<"planner", "retriever">> \o <<"executor">> = <<"planner", "retriever", "executor">>
      /\ <<"planner">> \o <<"summarizer">> = <<"planner", "summarizer">>
      /\ <<"planner", "retriever">> \o <<"summarizer">>
           = <<"planner", "retriever", "summarizer">>
      /\ <<"planner", "executor">> \o <<"summarizer">> = <<"planner", "executor", "summarizer">>
      /\ <<"planner", "retriever", "executor">> \o <<"summarizer">>
           = <<"planner", "retriever", "executor", "summarizer">>
  <2>1. <<"planner", "retriever">> \in Seq(Names) BY <1>3, <1>4
  <2> QED BY <1>1, <1>2, <1>3, <1>4, <1>5, <1>6, <2>1
<1>7. ASSUME NEW R, NEW E, TextRoute(d) = ((<<"planner">> \o R) \o E) \o <<"summarizer">>,
             R = <<>> \/ R = <<"retriever">>, E = <<>> \/ E = <<"executor">>
      PROVE  /\ TextRoute(d) \in Routes
             /\ E = <<"executor">> =>
                   TextRoute(d) \in { <<"planner", "executor", "summarizer">>,
                                      <<"planner", "retriever", "executor", "summarizer">> }
  BY <1>7, <1>8 DEF Routes
<1>9. CASE "retriever" \in d.route /\ "executor" \in d.route
  BY <1>7, <1>9 DEF TextRoute
<1>10. CASE "retriever" \in d.route /\ "executor" \notin d.route
  BY <1>7, <1>10 DEF TextRoute
<1>11. CASE "retriever" \notin d.route /\ "executor" \in d.route
  BY <1>7, <1>11 DEF TextRoute
<1>12. CASE "retriever" \notin d.route /\ "executor" \notin d.route
  BY <1>7, <1>12 DEF TextRoute
<1> QED BY <1>9, <1>10, <1>11, <1>12

\* A decision with the tool has a route with the executor, in a registry in which
\* the executor runs code.
LEMMA ToolHasExecutor ==
    ASSUME RolesApart, NEW t, NEW a \in Replies, FromTask(t).tool
    PROVE  "executor" \in FromLlmOrTask(t, a).route
<1> DEFINE d == FromLlmOrTask(t, a)
<1>1. d.tool /\ d \in Decision /\ Normalized(d) = d
  BY ToolTasksKeepTheirTool, OutcomeIsNormalized
<1> HIDE DEF d
<1>2. Owner["tool.run_python"] \in d.route
  BY <1>1, FlagsMatchRoute
<1>3. Owner["tool.run_python"] = "executor"
  <2>1. Owner["tool.run_python"] \in DOMAIN DefaultCapability
    BY TextAssumption, LeadsAre DEF Capabilities
  <2>2. CapabilityOf(Owner["tool.run_python"]) = "tool.run_python"
    BY LeadsAre DEF RolesApart
  <2> QED BY <2>1, <2>2 DEF CapabilityOf, DefaultCapability
<1> QED BY <1>2, <1>3 DEF d

-----------------------------------------------------------------------------
(* Text Mode: types.                                                        *)

LEMMA NamesAreAgents == Names \subseteq Agents
<1>1. DOMAIN DefaultCapability = Names
  BY DEF DefaultCapability, Names
<1> QED BY <1>1, DecisionAssumption

LEMMA RoutesTyped ==
    \A r \in Routes : r \in Seq(Agents) /\ Len(r) >= 2
<1>1. \A a, b, c, d \in Agents : /\ <<a, b>> \in Seq(Agents) /\ Len(<<a, b>>) = 2
                                 /\ <<a, b, c>> \in Seq(Agents) /\ Len(<<a, b, c>>) = 3
                                 /\ <<a, b, c, d>> \in Seq(Agents) /\ Len(<<a, b, c, d>>) = 4
  OBVIOUS
<1>2. {"planner", "retriever", "executor", "summarizer"} \subseteq Agents
  BY NamesAreAgents DEF Names
<1>3. ASSUME NEW r \in Routes PROVE r \in Seq(Agents) /\ Len(r) \in {2, 3, 4}
  BY <1>1, <1>2, <1>3 DEF Routes
<1>4. \A n \in {2, 3, 4} : n >= 2
  OBVIOUS
<1> QED BY <1>3, <1>4

Said == Texts \cup Quotes

LEMMA ResponsesTyped ==
    ASSUME TypeOK, NEW a, NEW r \in Responses(a), Len(said) <= Len(agents)
    PROVE  r \in Said
<1>1. \A k \in {"fixed", "plain", "bracketed", "blank", "label"} : Text(k) \in Said
  BY DEF Text, Said, Texts
<1>2. \A n \in DOMAIN said : Quote(n) \in Said
  BY DEF TypeOK, Quote, Said, Quotes
<1> QED BY <1>1, <1>2 DEF Responses, Fallback

TextTyped == TypeOK /\ Len(said) <= Len(agents) /\ agents # <<>> /\ (pc \in {"handoff", "io"} => said # <<>>)

LEMMA TextTypeInit == Init => TextTyped
<1>1. "planner" \in Agents BY NamesAreAgents DEF Names
<1>2. /\ <<"planner">> \in Seq(Agents) /\ <<"planner">> # <<>>
      /\ Len(<<>>) = 0 /\ Len(<<"planner">>) = 1
  BY <1>1
<1>3. \A S : <<>> \in Seq(S)
  OBVIOUS
<1> QED BY <1>2, <1>3 DEF Init, TextTyped, TypeOK

LEMMA TextTypeStep == TextTyped /\ [Next]_vars => TextTyped'
<1> SUFFICES ASSUME TextTyped, [Next]_vars PROVE TextTyped'
  OBVIOUS
<1>0. TypeOK BY DEF TextTyped
<1>1. CASE Respond
  <2>1. PICK r \in Responses(Speaker) :
          /\ said' = Append(said, r)
          /\ Step = 0 => \E d \in Decisions(r) : agents' = TextRoute(FromLlmOrTask(task, d))
          /\ Step # 0 => agents' = agents
    BY <1>1, Zenon DEF Respond
  <2>2. r \in Said
    BY ResponsesTyped DEF TextTyped
  <2>3. Len(said) \in Nat /\ Len(said') = Len(said) + 1 /\ said' \in Seq(Said)
    BY <1>0, <2>1, <2>2 DEF TypeOK, Said
  <2>4. agents' \in Seq(Agents) /\ Len(said') <= Len(agents')
    <3>1. CASE Step = 0
      <4>1. PICK d : agents' = TextRoute(FromLlmOrTask(task, d))
        BY <2>1, <3>1
      <4>2. agents' \in Routes
        BY <4>1, RouteOfDecision
      <4>3. agents' \in Seq(Agents) /\ Len(agents') >= 2
        BY <4>2, RoutesTyped
      <4> QED BY <2>3, <3>1, <4>3 DEF Step
    <3>2. CASE Step # 0
      BY <1>0, <1>1, <2>1, <2>3, <3>2 DEF Respond, Step, TypeOK
    <3> QED BY <3>1, <3>2
  <2>5. said' # <<>> /\ agents' # <<>>
    BY <2>3, <2>4
  <2> QED BY <1>0, <1>1, <2>3, <2>4, <2>5 DEF Respond, TextTyped, TypeOK, Said
<1>2. CASE LogHandoff
  <2>1. Step \in 1 .. Len(agents) /\ agents \in Seq(Agents)
    BY <1>0, <1>2 DEF LogHandoff, TextTyped, TypeOK, Step
  <2>2. agents[Step] \in Agents /\ Target(Step) \in Agents \cup {"runtime"}
    BY <2>1 DEF Target
  <2>3. [source |-> agents[Step], target |-> Target(Step)]
          \in [source : Agents, target : Agents \cup {"runtime"}]
    BY <2>2
  <2> QED BY <1>0, <1>2, <2>3 DEF LogHandoff, TextTyped, TypeOK
<1>3. CASE LogOutput
  <2>1. Step \in 1 .. Len(agents) /\ agents \in Seq(Agents)
    BY <1>0, <1>3 DEF LogOutput, TextTyped, TypeOK, Step
  <2>2. [step |-> Step, agent |-> agents[Step]] \in [step : Nat, agent : Agents]
    BY <2>1
  <2> QED BY <1>0, <1>3, <2>2 DEF LogOutput, TextTyped, TypeOK
<1>4. CASE WriteTrace
  <2>1. Step \in 1 .. Len(said)
    BY <1>0, <1>4 DEF WriteTrace, TextTyped, TypeOK, Step
  <2>2. said[Step] \in Said /\ Text("label") \in Said
    BY <1>0, <2>1 DEF TypeOK, Said, Text, Texts
  <2> QED BY <1>0, <1>4, <2>2 DEF WriteTrace, TextTyped, TypeOK, Said
<1>5. CASE Fail
  BY <1>0, <1>5 DEF Fail, TextTyped, TypeOK
<1>6. CASE UNCHANGED vars
  BY <1>0, <1>6 DEF vars, TextTyped, TypeOK
<1> QED BY <1>1, <1>2, <1>3, <1>4, <1>5, <1>6 DEF Next

-----------------------------------------------------------------------------
(* Text Mode: the invariant.                                                *)

HasExecutor(s) == \E n \in DOMAIN s : s[n] = "executor"

\* The first answer fixes the route, and a task that needs the tool has it.
RouteDecided ==
    IF said = <<>>
    THEN agents = <<"planner">> /\ pc \in {"respond", "failed"}
    ELSE agents \in Routes /\ (FromTask(task).tool => HasExecutor(agents))

\* A handoff is logged for every answer, in order, before the next is asked for.
HandoffsLogged ==
    /\ pc \in {"respond", "io", "done"} => Len(handoffs) = Step
    /\ pc = "handoff" => Len(handoffs) = Step - 1
    /\ pc = "done" => Step = Len(agents)
    /\ said = <<>> => handoffs = <<>>
    /\ \A n \in DOMAIN handoffs :
          n \in 1 .. Len(agents) /\ handoffs[n] = [source |-> agents[n], target |-> Target(n)]

\* What the summarizer quotes when its model is not available.
Nonblank(n) == said[n].kind # "blank"
KeepsWork(text) ==
    LET before == {n \in 1 .. Step - 1 : Nonblank(n)}
    IN  /\ text.kind = "fixed" <=> before = {}
        /\ before # {} => \E n \in before : /\ \A m \in before : m <= n
                                            /\ text = Quote(n)

LastKeepsWork ==
    said # <<>> /\ Step = Len(agents) /\ model /\ said[Step].kind \in {"quote", "fixed"} =>
        KeepsWork(said[Step])

AnswerIsLast ==
    pc = "done" =>
        answer = IF said[Step].kind = "blank" THEN Text("label") ELSE said[Step]

TextInv ==
    /\ TextTyped
    /\ RouteDecided
    /\ HandoffsLogged
    /\ LastKeepsWork
    /\ AnswerIsLast

\* What the places of a route are.
LEMMA RoutePlaces ==
    ASSUME NEW s \in Routes
    PROVE  /\ Len(s) \in {2, 3, 4} /\ DOMAIN s = 1 .. Len(s)
           /\ s[1] = "planner" /\ s[Len(s)] = "summarizer"
           /\ \A n \in 1 .. Len(s) - 1 : s[n] # "summarizer"
           /\ Len(s) = 3 => s[2] \in {"retriever", "executor"}
           /\ Len(s) = 4 => s[2] = "retriever" /\ s[3] = "executor"
<1>1. CASE s = <<"planner", "summarizer">>
  <2>1. Len(s) = 2 /\ DOMAIN s = 1 .. 2 /\ s[1] = "planner" /\ s[2] = "summarizer"
    BY <1>1
  <2>2. 1 .. Len(s) - 1 = {1} BY <2>1
  <2> QED BY <2>1, <2>2
<1>2. ASSUME NEW a \in {"retriever", "executor"}, s = <<"planner", a, "summarizer">>
      PROVE  /\ Len(s) = 3 /\ DOMAIN s = 1 .. 3 /\ s[1] = "planner" /\ s[2] = a
             /\ s[3] = "summarizer" /\ \A n \in 1 .. Len(s) - 1 : s[n] # "summarizer"
  <2>1. Len(s) = 3 /\ DOMAIN s = 1 .. 3 /\ s[1] = "planner" /\ s[2] = a /\ s[3] = "summarizer"
    BY <1>2
  <2>2. 1 .. Len(s) - 1 = {1, 2} BY <2>1
  <2> QED BY <2>1, <2>2
<1>3. CASE s = <<"planner", "retriever", "executor", "summarizer">>
  <2>1. /\ Len(s) = 4 /\ DOMAIN s = 1 .. 4 /\ s[1] = "planner" /\ s[2] = "retriever"
        /\ s[3] = "executor" /\ s[4] = "summarizer"
    BY <1>3
  <2>2. 1 .. Len(s) - 1 = {1, 2, 3} BY <2>1
  <2> QED BY <2>1, <2>2
<1>4. \/ s = <<"planner", "summarizer">>
      \/ s = <<"planner", "retriever", "summarizer">>
      \/ s = <<"planner", "executor", "summarizer">>
      \/ s = <<"planner", "retriever", "executor", "summarizer">>
  BY DEF Routes
<1>5. CASE \E a \in {"retriever", "executor"} : s = <<"planner", a, "summarizer">>
  BY <1>2, <1>5
<1> QED BY <1>1, <1>3, <1>4, <1>5

\* The agents are asked for in the reverse of the order of the route, so that the
\* latest speaker is the last one that said anything (_fallback_text_agent_response).
LEMMA LatestIsLast ==
    ASSUME TypeOK, agents \in Routes, Len(said) = Len(agents) - 1, NEW n \in DOMAIN said
    PROVE  LatestSpeaker(n) <=>
               Nonblank(n) /\ \A m \in DOMAIN said : Nonblank(m) => m <= n
<1>1. DOMAIN said = 1 .. Len(agents) - 1
  BY DEF TypeOK
<1>2. DOMAIN UpstreamOrder = 1 .. 3 /\ UpstreamOrder[1] = "executor"
      /\ UpstreamOrder[2] = "retriever" /\ UpstreamOrder[3] = "planner"
  BY DEF UpstreamOrder
<1>3. LatestSpeaker(n) <=>
         \/ n \in Spoken("executor")
         \/ n \in Spoken("retriever") /\ Spoken("executor") = {}
         \/ n \in Spoken("planner") /\ Spoken("executor") = {} /\ Spoken("retriever") = {}
  <2> DEFINE Speaks(k) == /\ n \in Spoken(UpstreamOrder[k])
                            /\ \A j \in 1 .. k - 1 : Spoken(UpstreamOrder[j]) = {}
  <2>1. LatestSpeaker(n) <=> \E k \in 1 .. 3 : Speaks(k)
    BY <1>2 DEF LatestSpeaker
  <2>3. \A k : k \in 1 .. 3 <=> k = 1 \/ k = 2 \/ k = 3
    OBVIOUS
  <2>2. /\ \A j : j \in 1 .. 1 - 1 => FALSE
        /\ \A j : j \in 1 .. 2 - 1 <=> j = 1
        /\ \A j : j \in 1 .. 3 - 1 <=> j = 1 \/ j = 2
        /\ 1 \in 1 .. 3 /\ 2 \in 1 .. 3 /\ 3 \in 1 .. 3
    OBVIOUS
  <2>4. /\ Speaks(1) <=> n \in Spoken("executor")
        /\ Speaks(2) <=> n \in Spoken("retriever") /\ Spoken("executor") = {}
        /\ Speaks(3) <=> /\ n \in Spoken("planner")
                         /\ Spoken("executor") = {} /\ Spoken("retriever") = {}
    BY <1>2, <2>2, Zenon
  <2> HIDE DEF Speaks
  <2> QED BY <2>1, <2>3, <2>4
<1>4. \A a : Spoken(a) = {m \in 1 .. Len(agents) - 1 : agents[m] = a /\ Nonblank(m)}
  BY <1>1 DEF Spoken, Nonblank
<1>5. CASE Len(agents) = 2
  <2>1. 1 .. Len(agents) - 1 = {1} /\ n = 1 BY <1>1, <1>5
  <2> QED BY <1>1, <1>3, <1>4, <2>1, RoutePlaces
<1>6. CASE Len(agents) = 3
  <2>1. 1 .. Len(agents) - 1 = {1, 2} /\ n \in {1, 2} BY <1>1, <1>6
  <2>2. agents[1] = "planner" /\ agents[2] \in {"retriever", "executor"}
    BY <1>6, RoutePlaces
  <2>3. \A a, m : m \in Spoken(a) <=> m \in {1, 2} /\ agents[m] = a /\ Nonblank(m)
    BY <1>4, <2>1
  <2>4. DOMAIN said = {1, 2}
    BY <1>1, <2>1
  <2>5. LatestSpeaker(n) <=>
          \/ n = 2 /\ Nonblank(2)
          \/ n = 1 /\ Nonblank(1) /\ ~Nonblank(2)
    <3>1. CASE agents[2] = "retriever"
      <4>1. /\ Spoken("executor") = {}
            /\ \A m : m \in Spoken("retriever") <=> m = 2 /\ Nonblank(2)
            /\ \A m : m \in Spoken("planner") <=> m = 1 /\ Nonblank(1)
        BY <2>2, <2>3, <3>1
      <4>2. Spoken("retriever") = {} <=> ~Nonblank(2)
        BY <4>1
      <4> QED BY <1>3, <4>1, <4>2, Zenon
    <3>2. CASE agents[2] = "executor"
      <4>1. /\ Spoken("retriever") = {}
            /\ \A m : m \in Spoken("executor") <=> m = 2 /\ Nonblank(2)
            /\ \A m : m \in Spoken("planner") <=> m = 1 /\ Nonblank(1)
        BY <2>2, <2>3, <3>2
      <4>2. Spoken("executor") = {} <=> ~Nonblank(2)
        BY <4>1
      <4> QED BY <1>3, <4>1, <4>2, Zenon
    <3> QED BY <2>2, <3>1, <3>2
  <2>6. (\A m \in DOMAIN said : Nonblank(m) => m <= n)
           <=> (Nonblank(1) => 1 <= n) /\ (Nonblank(2) => 2 <= n)
    BY <2>4
  <2>7. CASE n = 1
    BY <2>5, <2>6, <2>7
  <2>8. CASE n = 2
    BY <2>5, <2>6, <2>8
  <2> QED BY <2>1, <2>7, <2>8
<1>7. CASE Len(agents) = 4
  <2>1. 1 .. Len(agents) - 1 = {1, 2, 3} /\ n \in {1, 2, 3} BY <1>1, <1>7
  <2>2. agents[1] = "planner" /\ agents[2] = "retriever" /\ agents[3] = "executor"
    BY <1>7, RoutePlaces
  <2>3. /\ \A m : m \in Spoken("executor") <=> m = 3 /\ Nonblank(3)
        /\ \A m : m \in Spoken("retriever") <=> m = 2 /\ Nonblank(2)
        /\ \A m : m \in Spoken("planner") <=> m = 1 /\ Nonblank(1)
    BY <1>4, <2>1, <2>2
  <2>4. DOMAIN said = {1, 2, 3}
    BY <1>1, <2>1
  <2>8. LatestSpeaker(n) <=>
          \/ n = 3 /\ Nonblank(3)
          \/ n = 2 /\ Nonblank(2) /\ ~Nonblank(3)
          \/ n = 1 /\ Nonblank(1) /\ ~Nonblank(2) /\ ~Nonblank(3)
    <3>1. /\ Spoken("executor") = {} <=> ~Nonblank(3)
          /\ Spoken("retriever") = {} <=> ~Nonblank(2)
      BY <2>3
    <3> QED BY <1>3, <2>3, <3>1, Zenon
  <2>9. (\A m \in DOMAIN said : Nonblank(m) => m <= n)
           <=> (Nonblank(1) => 1 <= n) /\ (Nonblank(2) => 2 <= n) /\ (Nonblank(3) => 3 <= n)
    BY <2>4
  <2>5. CASE n = 1
    BY <2>8, <2>9, <2>5
  <2>6. CASE n = 2
    BY <2>8, <2>9, <2>6
  <2>7. CASE n = 3
    BY <2>8, <2>9, <2>7
  <2> QED BY <2>1, <2>5, <2>6, <2>7
<1> QED BY <1>5, <1>6, <1>7, RoutePlaces

\* The quotes of the summarizer are of the last agent that has said anything.
LEMMA FallbackKeepsWork ==
    ASSUME TypeOK, agents \in Routes, Len(said) = Len(agents) - 1,
           NEW text \in Fallback("summarizer")
    PROVE  LET before == {n \in DOMAIN said : Nonblank(n)}
           IN  /\ text.kind = "fixed" <=> before = {}
               /\ before # {} => \E n \in before : /\ \A m \in before : m <= n
                                                   /\ text = Quote(n)
<1> DEFINE before == {n \in DOMAIN said : Nonblank(n)}
           latest == {n \in DOMAIN said : LatestSpeaker(n)}
<1>1. latest = {n \in before : \A m \in before : m <= n}
  BY LatestIsLast
<1>2. before \subseteq 1 .. 3
  <2>1. Len(agents) \in {2, 3, 4}
    BY RoutePlaces
  <2>2. DOMAIN said = 1 .. Len(said)
    BY DEF TypeOK
  <2>3. Len(said) = 1 \/ Len(said) = 2 \/ Len(said) = 3
    BY <2>1
  <2>4. DOMAIN said \subseteq 1 .. 3
    <3>1. /\ \A n \in 1 .. 1 : n \in 1 .. 3
          /\ \A n \in 1 .. 2 : n \in 1 .. 3
      OBVIOUS
    <3> QED BY <2>2, <2>3, <3>1
  <2> QED BY <2>4
<1>3. before # {} => latest # {}
  <2>1. ASSUME NEW b \in before PROVE \E n \in before : \A m \in before : m <= n
    <3>1. CASE 3 \in before BY <1>2, <3>1
    <3>2. CASE 3 \notin before /\ 2 \in before BY <1>2, <3>2
    <3>3. CASE 3 \notin before /\ 2 \notin before BY <1>2, <2>1, <3>3
    <3> QED BY <3>1, <3>2, <3>3
  <2> QED BY <1>1, <2>1
<1>4. \A n : Quote(n).kind = "quote"
  BY DEF Quote
<1>5. Text("fixed").kind = "fixed"
  BY DEF Text
<1>6. CASE before = {}
  <2>1. text = Text("fixed") BY <1>1, <1>6 DEF Fallback
  <2> QED BY <1>5, <1>6, <2>1
<1>7. CASE before # {}
  <2>1. PICK n \in latest : text = Quote(n)
    BY <1>3, <1>7 DEF Fallback
  <2> QED BY <1>1, <1>4, <1>7, <2>1
<1> QED BY <1>6, <1>7

\* An answer of an agent fixes or keeps the route.
LEMMA RespondStep ==
    ASSUME TextInv, Respond, TextTyped'
    PROVE  /\ agents' \in Routes
           /\ FromTask(task).tool /\ RolesApart => HasExecutor(agents')
           /\ said # <<>> => agents' = agents
           /\ \E r \in Responses(agents[Len(said) + 1]) : said' = Append(said, r)
<1>1. PICK r \in Responses(Speaker) :
          /\ said' = Append(said, r)
          /\ Step = 0 => \E d \in Decisions(r) : agents' = TextRoute(FromLlmOrTask(task, d))
          /\ Step # 0 => agents' = agents
  BY Zenon DEF Respond
<1>2. said = <<>> <=> Step = 0
  BY DEF TextInv, TextTyped, TypeOK, Step
<1>3. CASE Step = 0
  <2>1. PICK d \in Decisions(r) : agents' = TextRoute(FromLlmOrTask(task, d))
    BY <1>1, <1>3
  <2>2. d \in Replies
    BY TextAssumption DEF Decisions, Replies
  <2>3. ASSUME FromTask(task).tool, RolesApart PROVE HasExecutor(agents')
    <3>1. agents' \in { <<"planner", "executor", "summarizer">>,
                        <<"planner", "retriever", "executor", "summarizer">> }
      BY <2>1, <2>2, <2>3, ToolHasExecutor, RouteOfDecision
    <3> QED BY <3>1 DEF HasExecutor
  <2> QED BY <1>1, <1>2, <1>3, <2>1, <2>3, RouteOfDecision DEF Speaker, Step
<1>4. CASE Step # 0
  BY <1>1, <1>2, <1>4 DEF TextInv, RouteDecided, Speaker, Step
<1> QED BY <1>3, <1>4

LEMMA TextInvInit == Init => TextInv
<1>1. Init => TextTyped BY TextTypeInit
<1> QED
  BY <1>1 DEF Init, TextInv, RouteDecided, HandoffsLogged, LastKeepsWork, AnswerIsLast, Step

LEMMA TextInvStep ==
    ASSUME RolesApart, TextInv, [Next]_vars
    PROVE  TextInv'
<1>0. TextTyped /\ TextTyped' /\ TypeOK /\ TypeOK'
  BY TextTypeStep DEF TextInv, TextTyped
<1>1. CASE Respond
  <2>1. PICK r \in Responses(agents[Len(said) + 1]) : said' = Append(said, r)
    BY <1>0, <1>1, RespondStep
  <2>2. /\ agents' \in Routes /\ (FromTask(task).tool => HasExecutor(agents'))
        /\ said # <<>> => agents' = agents
    BY <1>0, <1>1, RespondStep
  <2>3. /\ pc = "respond" /\ pc' = "handoff" /\ Step < Len(agents)
        /\ UNCHANGED <<task, model, handoffs, outputs, answer>>
    BY <1>1, Zenon DEF Respond
  <2>a. r \in Said /\ said \in Seq(Said)
    BY <1>0, <2>1, ResponsesTyped DEF TypeOK, TextTyped, Said
  <2>4. /\ Len(said) \in Nat /\ Len(said') = Len(said) + 1 /\ said' # <<>>
        /\ said'[Len(said) + 1] = r
        /\ \A n \in DOMAIN said : said'[n] = said[n]
        /\ DOMAIN said = 1 .. Len(said)
        /\ said = <<>> <=> Len(said) = 0
    BY <2>1, <2>a
  <2>5. RouteDecided'
    BY <2>2, <2>3, <2>4 DEF RouteDecided
  <2>6. HandoffsLogged'
    <3>1. CASE said = <<>>
      <4>1. handoffs = <<>> /\ Len(handoffs) = 0
        BY <3>1 DEF TextInv, HandoffsLogged
      <4> QED BY <2>3, <2>4, <3>1, <4>1 DEF HandoffsLogged, Step
    <3>2. CASE said # <<>>
      BY <2>2, <2>3, <2>4, <3>2 DEF TextInv, HandoffsLogged, Step, Target
    <3> QED BY <3>1, <3>2
  <2>7. LastKeepsWork'
    <3> SUFFICES ASSUME Len(said') = Len(agents'), model, r.kind \in {"quote", "fixed"}
                 PROVE  KeepsWork(r)'
      BY <2>3, <2>4 DEF LastKeepsWork, Step
    <3>0. Len(agents') \in {2, 3, 4}
      BY <2>2, RoutePlaces
    <3>1. said # <<>>
      BY <2>4, <3>0
    <3>2. agents' = agents /\ agents \in Routes /\ Len(said) = Len(agents) - 1
      <4>1. agents' = agents BY <2>2, <3>1
      <4>2. agents \in Routes BY <3>1 DEF TextInv, RouteDecided
      <4>3. Len(said) + 1 = Len(agents) BY <2>4, <4>1
      <4> QED BY <2>4, <4>1, <4>2, <4>3
    <3>3. agents[Len(said) + 1] = "summarizer"
      BY <2>4, <3>2, RoutePlaces
    <3>4. r \in Fallback("summarizer")
      BY <2>1, <3>3 DEF Responses, Text
    <3> DEFINE before == {n \in DOMAIN said : Nonblank(n)}
    <3>5. /\ r.kind = "fixed" <=> before = {}
          /\ before # {} => \E n \in before : /\ \A m \in before : m <= n
                                              /\ r = Quote(n)
      BY <1>0, <3>2, <3>4, FallbackKeepsWork
    <3>6. before = {n \in 1 .. Step' - 1 : Nonblank(n)'}
      BY <2>4 DEF Step, Nonblank
    <3>7. \A n \in DOMAIN said : Quote(n)' = Quote(n)
      BY <2>4, <3>2 DEF Quote
    <3> QED BY <3>5, <3>6, <3>7 DEF KeepsWork
  <2>8. AnswerIsLast'
    BY <2>3 DEF AnswerIsLast
  <2> QED BY <1>0, <2>5, <2>6, <2>7, <2>8 DEF TextInv
<1>2. CASE LogHandoff
  <2>1. /\ pc = "handoff" /\ pc' = "io" /\ UNCHANGED <<task, model, agents, said>>
        /\ handoffs' = Append(handoffs, [source |-> agents[Step], target |-> Target(Step)])
        /\ said # <<>>
    BY <1>0, <1>2 DEF LogHandoff, TextTyped
  <2>2. /\ Len(handoffs) = Step - 1 /\ Step \in 1 .. Len(agents) /\ Len(handoffs') = Step
        /\ \A n \in 1 .. Step - 1 : handoffs'[n] = handoffs[n]
        /\ handoffs'[Step] = [source |-> agents[Step], target |-> Target(Step)]
        /\ DOMAIN handoffs' = 1 .. Step /\ DOMAIN handoffs = 1 .. Step - 1
        /\ Len(agents) \in Nat
    BY <1>0, <2>1 DEF TextInv, HandoffsLogged, TypeOK, TextTyped, Step
  <2>3. HandoffsLogged'
    <3>1. \A n : Target(n)' = Target(n) BY <2>1 DEF Target
    <3>2. ASSUME NEW n \in 1 .. Step
          PROVE  n \in 1 .. Len(agents) /\ handoffs'[n] = [source |-> agents[n], target |-> Target(n)]
      <4>1. CASE n = Step BY <2>2, <4>1
      <4>2. CASE n \in 1 .. Step - 1 BY <2>2, <4>2 DEF TextInv, HandoffsLogged
      <4> QED BY <2>2, <3>2, <4>1, <4>2
    <3>3. Step' = Step BY <2>1 DEF Step
    <3> QED BY <2>1, <2>2, <3>1, <3>2, <3>3 DEF HandoffsLogged
  <2>4. RouteDecided' /\ LastKeepsWork' /\ AnswerIsLast'
    BY <2>1 DEF TextInv, RouteDecided, LastKeepsWork, AnswerIsLast, KeepsWork, Nonblank, Quote,
                Step
  <2> QED BY <1>0, <2>3, <2>4 DEF TextInv
<1>3. CASE LogOutput
  <2>1. /\ pc = "io" /\ pc' = "respond" /\ UNCHANGED <<task, model, agents, said, handoffs>>
        /\ said # <<>>
    BY <1>0, <1>3 DEF LogOutput, TextTyped
  <2>2. HandoffsLogged'
    BY <2>1 DEF TextInv, HandoffsLogged, Step, Target
  <2>4. RouteDecided' /\ LastKeepsWork' /\ AnswerIsLast'
    BY <2>1 DEF TextInv, RouteDecided, LastKeepsWork, AnswerIsLast, KeepsWork, Nonblank, Quote,
                Step
  <2> QED BY <1>0, <2>2, <2>4 DEF TextInv
<1>4. CASE WriteTrace
  <2>1. /\ pc = "respond" /\ pc' = "done" /\ UNCHANGED <<task, model, agents, said, handoffs>>
        /\ Step = Len(agents) /\ said # <<>>
        /\ answer' = IF said[Step].kind = "blank" THEN Text("label") ELSE said[Step]
    BY <1>0, <1>4 DEF WriteTrace, TextTyped, TypeOK, Step
  <2>2. HandoffsLogged'
    BY <2>1 DEF TextInv, HandoffsLogged, Step, Target
  <2>4. RouteDecided' /\ LastKeepsWork' /\ AnswerIsLast'
    BY <2>1 DEF TextInv, RouteDecided, LastKeepsWork, AnswerIsLast, KeepsWork, Nonblank, Quote,
                Step
  <2> QED BY <1>0, <2>2, <2>4 DEF TextInv
<1>5. CASE Fail
  <2>1. /\ pc' = "failed" /\ UNCHANGED <<task, model, agents, said, handoffs, answer>>
    BY <1>5 DEF Fail
  <2>2. HandoffsLogged'
    BY <2>1 DEF TextInv, HandoffsLogged, Step, Target
  <2>4. RouteDecided' /\ LastKeepsWork' /\ AnswerIsLast'
    BY <2>1 DEF TextInv, RouteDecided, LastKeepsWork, AnswerIsLast, KeepsWork, Nonblank, Quote,
                Step
  <2> QED BY <1>0, <2>2, <2>4 DEF TextInv
<1>6. CASE UNCHANGED vars
  <2>2. HandoffsLogged'
    BY <1>6 DEF vars, TextInv, HandoffsLogged, Step, Target
  <2>4. RouteDecided' /\ LastKeepsWork' /\ AnswerIsLast'
    BY <1>6 DEF vars, TextInv, RouteDecided, LastKeepsWork, AnswerIsLast, KeepsWork, Nonblank,
                Quote, Step
  <2> QED BY <1>0, <2>2, <2>4 DEF TextInv
<1> QED BY <1>1, <1>2, <1>3, <1>4, <1>5, <1>6 DEF Next

\* In every registry whose executor runs code, and whatever the models answer, the
\* invariant above holds in a run of Text Mode.
THEOREM TextInvariance ==
    ASSUME RolesApart
    PROVE  Spec => []TextInv
  BY TextInvInit, TextInvStep, PTL DEF Spec

\* Every variable keeps its type: no answer of a model takes a run out of the
\* agents there are.
THEOREM TextTypeCorrect == Spec => []TypeOK
<1>1. TextTyped => TypeOK BY DEF TextTyped
<1> QED BY <1>1, TextTypeInit, TextTypeStep, PTL DEF Spec

\* A task whose words need the tool is executed in Text Mode, and the handoffs
\* lead without a gap from the planner to the runtime.
THEOREM ToolTasksExecuted ==
    ASSUME RolesApart
    PROVE  Spec => []ToolTasksAreExecuted
<1>1. TextInv => ToolTasksAreExecuted
  <2> SUFFICES ASSUME TextInv, pc = "done"
               PROVE  ToolTasksAreExecuted
    BY DEF ToolTasksAreExecuted
  <2>1. /\ agents \in Routes /\ (FromTask(task).tool => HasExecutor(agents))
        /\ Len(handoffs) = Len(agents) /\ DOMAIN handoffs = 1 .. Len(agents)
        /\ Len(agents) \in {2, 3, 4}
        /\ agents[1] = "planner" /\ DOMAIN agents = 1 .. Len(agents)
    <3>1. said # <<>> BY DEF TextInv, RouteDecided
    <3>2. agents \in Routes /\ (FromTask(task).tool => HasExecutor(agents))
      BY <3>1 DEF TextInv, RouteDecided
    <3>3. Len(handoffs) = Len(agents) BY DEF TextInv, HandoffsLogged
    <3>4. DOMAIN handoffs = 1 .. Len(handoffs) BY DEF TextInv, TextTyped, TypeOK
    <3>5. /\ Len(agents) \in {2, 3, 4} /\ agents[1] = "planner"
          /\ DOMAIN agents = 1 .. Len(agents)
      BY <3>2, RoutePlaces
    <3> QED BY <3>2, <3>3, <3>4, <3>5
  <2>2. \A n \in 1 .. Len(agents) : handoffs[n].source = agents[n] /\ handoffs[n].target = Target(n)
    BY <2>1 DEF TextInv, HandoffsLogged
  <2>3. FromTask(task).tool => \E n \in DOMAIN handoffs : handoffs[n].source = "executor"
    BY <2>1, <2>2 DEF HasExecutor
  <2>4. handoffs[1].source = "planner" /\ handoffs[Len(handoffs)].target = "runtime"
    BY <2>1, <2>2 DEF Target
  <2>5. \A n \in 2 .. Len(handoffs) : handoffs[n].source = handoffs[n - 1].target
    BY <2>1, <2>2 DEF Target
  <2> QED BY <2>3, <2>4, <2>5 DEF ToolTasksAreExecuted
<1> QED BY <1>1, TextInvariance, PTL

\* When the summarizer's model is not available, the answer of Text Mode is what
\* the agent that spoke last before it has said (_fallback_text_agent_response).
THEOREM AnswersKeepWork ==
    ASSUME RolesApart
    PROVE  Spec => []AnswerKeepsWork
<1>1. TextInv => AnswerKeepsWork
  <2> SUFFICES ASSUME TextInv, pc = "done", model, answer.kind \in {"quote", "fixed"}
               PROVE  KeepsWork(answer)
    BY DEF AnswerKeepsWork, KeepsWork, Nonblank
  <2>1. said # <<>> /\ Step = Len(agents)
    BY DEF TextInv, RouteDecided, HandoffsLogged
  <2>2. answer = said[Step]
    BY DEF TextInv, AnswerIsLast, Text
  <2> QED BY <2>1, <2>2 DEF TextInv, LastKeepsWork
<1> QED BY <1>1, TextInvariance, PTL
=============================================================================
