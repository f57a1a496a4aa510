-------------------------- MODULE ProtocolRunProofs --------------------------
(***************************************************************************)
(* Theorems about ProtocolRun, for any runs, any stored memory units, any   *)
(* number of reused hits and both settings of the handshake and of the      *)
(* global memory.  First the run by itself: its invariants, and what a step *)
(* may do.  Then the specification it implements (the route of              *)
(* CollaborationRoute), and what the announcements, the rows a run leaves   *)
(* and the counts of the memory units promise.                              *)
(***************************************************************************)
EXTENDS ProtocolRun, FiniteSetTheorems, TLAPS

-----------------------------------------------------------------------------
(* What the steps are made of.                                              *)

LEMMA Constants ==
    /\ Runs \subseteq Units /\ IsFiniteSet(Units) /\ IsFiniteSet(Actions)
    /\ AgentOf \in [Stages -> Agents] /\ ActionOf \in [Stages -> Actions]
    /\ AfterCall \in [Stages -> PCs]
    /\ Agents \subseteq Parties
<1>1. IsFiniteSet(Units)
  BY RunsAssumption, FS_Union DEF Units
<1>2. IsFiniteSet({"plan", "search", "execute"}) /\ IsFiniteSet({"replan", "research", "summarize"})
  <2>1. IsFiniteSet({"plan"}) /\ IsFiniteSet({"search"}) /\ IsFiniteSet({"execute"})
        /\ IsFiniteSet({"replan"}) /\ IsFiniteSet({"research"}) /\ IsFiniteSet({"summarize"})
    BY FS_Singleton
  <2>2. IsFiniteSet({"plan"} \cup {"search"}) /\ IsFiniteSet({"replan"} \cup {"research"})
    BY <2>1, FS_Union
  <2>3. IsFiniteSet(({"plan"} \cup {"search"}) \cup {"execute"})
        /\ IsFiniteSet(({"replan"} \cup {"research"}) \cup {"summarize"})
    BY <2>1, <2>2, FS_Union
  <2>4. /\ ({"plan"} \cup {"search"}) \cup {"execute"} = {"plan", "search", "execute"}
        /\ ({"replan"} \cup {"research"}) \cup {"summarize"} = {"replan", "research", "summarize"}
    OBVIOUS
  <2> QED
    BY <2>3, <2>4
<1>3. IsFiniteSet(Stages)
  <2>1. Stages = {"plan", "search", "execute"} \cup {"replan", "research", "summarize"}
    BY DEF Stages
  <2> QED
    BY <1>2, <2>1, FS_Union
<1>4. AgentOf \in [Stages -> Agents] /\ Agents \subseteq Parties
  BY DEF AgentOf, Stages, Agents, Parties
<1>5. ActionOf \in [Stages -> Actions]
  BY DEF ActionOf, Stages, Actions
<1>6. AfterCall \in [Stages -> PCs]
  BY DEF AfterCall, Stages, PCs
<1>7. IsFiniteSet(Actions)
  <2> DEFINE f == [s \in Stages |-> ActionOf[s]]
  <2>1. f \in Surjection(Stages, Actions)
    BY DEF Surjection, Actions
  <2> HIDE DEF f
  <2> QED
    BY <1>3, <2>1, FS_Surjection
<1> QED
  BY <1>1, <1>4, <1>5, <1>6, <1>7 DEF Units

\* Every message the program builds is one.
LEMMA MsgIsMessage ==
    ASSUME NEW type \in MsgTypes, NEW source \in Parties, NEW target \in Parties,
           NEW action \in Actions \cup {""}, NEW refs \in SUBSET Kinds
    PROVE  /\ Msg(type, source, target, action, refs) \in Message
           /\ Msg(type, source, target, action, refs).refs = refs
           /\ Msg(type, source, target, action, refs).type = type
  BY DEF Msg, Message

Greetings == {"HELLO", "CAPABILITY_ADVERTISE", "CAPABILITY_QUERY", "PROTOCOL_MAP"}

LEMMA Hello ==
    /\ HandshakeMessages \in Seq(Message)
    /\ \A n \in DOMAIN HandshakeMessages : /\ HandshakeMessages[n].refs = {}
                                           /\ HandshakeMessages[n].type \in Greetings
<1> DEFINE Speaker == <<"planner", "retriever", "executor", "summarizer">>
           FromAgent(n) == Msg(IF n % 2 = 1 THEN "HELLO" ELSE "CAPABILITY_ADVERTISE",
                               Speaker[(n + 1) \div 2], "runtime", "", {})
           Greeting(n) == CASE n \in 1 .. 8 -> FromAgent(n)
                       [] n = 9  -> Msg("CAPABILITY_QUERY", "runtime", "runtime", "", {})
                       [] n = 10 -> Msg("PROTOCOL_MAP", "runtime", "runtime", "", {})
<1>1. HandshakeMessages = [n \in 1 .. 10 |-> Greeting(n)]
  BY DEF HandshakeMessages
<1> DEFINE Fine(m) == m \in Message /\ m.refs = {} /\ m.type \in Greetings
<1>2. \A type \in Greetings, source \in Parties :
        Fine(Msg(type, source, "runtime", "", {}))
  BY DEF Msg, Message, Parties, Greetings, MsgTypes
<1>3. \A n \in 1 .. 8 : Fine(FromAgent(n))
  <2> TAKE n \in 1 .. 8
  <2> DEFINE type == IF n % 2 = 1 THEN "HELLO" ELSE "CAPABILITY_ADVERTISE"
             source == Speaker[(n + 1) \div 2]
  <2>1. source \in Parties
    <3>1. (n + 1) \div 2 \in 1 .. 4
      OBVIOUS
    <3>2. \A m \in 1 .. 4 : Speaker[m] \in Parties
      BY DEF Parties, Agents
    <3> HIDE DEF Speaker
    <3> QED
      BY <3>1, <3>2
  <2>2. type \in Greetings
    BY DEF Greetings
  <2>3. FromAgent(n) = Msg(type, source, "runtime", "", {})
    OBVIOUS
  <2> HIDE DEF type, source, FromAgent, Fine
  <2> QED
    BY <1>2, <2>1, <2>2, <2>3
<1>4. \A n \in 1 .. 10 : Fine(Greeting(n))
  <2> TAKE n \in 1 .. 10
  <2>1. CASE n \in 1 .. 8
    <3> HIDE DEF FromAgent, Fine
    <3>0. n # 9 /\ n # 10
      BY <2>1
    <3>1. Greeting(n) = FromAgent(n)
      BY <2>1, <3>0
    <3> HIDE DEF Greeting
    <3> QED
      BY <1>3, <2>1, <3>1
  <2>2. CASE n = 9
    <3>1. Greeting(n) = Msg("CAPABILITY_QUERY", "runtime", "runtime", "", {})
      BY <2>2
    <3> HIDE DEF Greeting, Fine
    <3> QED
      BY <1>2, <3>1 DEF Greetings, Parties
  <2>3. CASE n = 10
    <3>1. Greeting(n) = Msg("PROTOCOL_MAP", "runtime", "runtime", "", {})
      BY <2>3
    <3> HIDE DEF Greeting, Fine
    <3> QED
      BY <1>2, <3>1 DEF Greetings, Parties
  <2> HIDE DEF Greeting, Fine
  <2> QED
    BY <2>1, <2>2, <2>3
<1> HIDE DEF Greeting
<1>5. [n \in 1 .. 10 |-> Greeting(n)] \in Seq(Message)
  BY <1>4
<1> QED
  BY <1>1, <1>4, <1>5

-----------------------------------------------------------------------------
(* Types.                                                                   *)

\* The stages after the summary.
Last == {"commit", "mark", "announce", "log", "close", "done"}

\* What each stage finds: a call belongs to a stage that invokes and names
\* states that are there; the task, the plan and the summary are there from
\* the stage that puts them on.
Shape(r) ==
    /\ call[r] # None => /\ pc[r] \in Stages
                         /\ call[r].unread \subseteq call[r].refs
                         /\ call[r].refs \subseteq Made(r)
    /\ pc[r] \notin {"start", "put_task", "failed"} => Has(r, "task")
    /\ pc[r] \notin {"start", "put_task", "plan", "put_plan", "failed"} => Has(r, "plan")
    /\ pc[r] \notin {"start", "put_task", "plan", "failed"} => route[r] # <<>>
    /\ pc[r] \in Last => Has(r, "summary")
    /\ Has(r, "summary") => pc[r] \in Last \cup {"failed"}

\* What the step of a run can reach of its own.
Own(r) == <<pc[r], decision[r], state[r], messages[r], route[r], call[r], outcome[r],
            memory[r]>>

\* Putting a state adds one to those that are there.
LEMMA PutAdds ==
    ASSUME TypeOK, NEW r \in Runs, NEW k \in Kinds, NEW parents \in SUBSET Kinds,
           Put(r, k, parents)
    PROVE  /\ state' \in [Runs -> [Kinds -> Entry \cup {None}]]
           /\ state'[r][k] = [parents |-> parents, consumers |-> {}, memory |-> FALSE]
           /\ \A j \in Kinds \ {k} : state'[r][j] = state[r][j]
           /\ \A q \in Runs \ {r} : state'[q] = state[q]
           /\ Made(r)' = Made(r) \cup {k}
           /\ Has(r, k)' /\ \A j \in Kinds \ {k} : Has(r, j)' <=> Has(r, j)
<1> DEFINE entry == [parents |-> parents, consumers |-> {}, memory |-> FALSE]
<1>1. entry \in Entry /\ entry # None
  <2>1. entry \in Entry
    BY DEF Entry
  <2> HIDE DEF entry
  <2> QED
    BY <2>1, NoneIsNoEntry
<1> HIDE DEF entry
<1>2. state' = [state EXCEPT ![r][k] = entry] /\ state \in [Runs -> [Kinds -> Entry \cup {None}]]
  BY DEF Put, TypeOK, entry
<1>3. /\ state' \in [Runs -> [Kinds -> Entry \cup {None}]]
      /\ state'[r][k] = entry
      /\ \A j \in Kinds \ {k} : state'[r][j] = state[r][j]
      /\ \A q \in Runs \ {r} : state'[q] = state[q]
  BY <1>1, <1>2
<1> QED
  BY <1>1, <1>3 DEF Made, Present, Has, entry

LEMMA RefsAreKinds ==
    ASSUME NEW r \in Runs
    PROVE  /\ FeedbackRefs(r) \subseteq Made(r) /\ SummaryRefs(r) = Made(r) \ {"summary"}
           /\ Made(r) \subseteq Kinds
           /\ \A K \in SUBSET Kinds : Present(r, K) \subseteq Made(r)
  BY DEF FeedbackRefs, SummaryRefs, Made, Present, Kinds

LEMMA InvokeIs ==
    ASSUME TypeOK, NEW r \in Runs, Shape(r), pc[r] \in Stages
    PROVE  SourceOf(r) \in Parties /\ RefsOf(r) \subseteq Made(r)
<1>1. /\ pc[r] \in {"plan", "search", "execute", "replan", "research", "summarize"}
      /\ Has(r, "task") /\ (pc[r] # "plan" => Has(r, "plan"))
      /\ pc[r] # "plan" => route[r] # <<>>
  BY DEF Shape, Stages
<1>2. RefsOf(r) \subseteq Made(r)
  <2>1. {"task"} \subseteq Made(r) /\ (pc[r] # "plan" => {"task", "plan"} \subseteq Made(r))
    BY <1>1 DEF Made, Present, Kinds
  <2>2. /\ Present(r, {"task", "evidence"}) \subseteq Made(r)
        /\ Present(r, {"refined_plan"}) \subseteq Made(r)
    BY DEF Made, Present, Kinds
  <2> QED
    BY <1>1, <2>1, <2>2, RefsAreKinds DEF RefsOf
<1>3. SourceOf(r) \in Parties
  <2>1. CASE pc[r] = "summarize"
    <3>1. route[r] \in Seq(Agents) /\ route[r] # <<>>
      BY <1>1, <2>1 DEF TypeOK
    <3>2. route[r][Len(route[r])] \in Agents
      BY <3>1
    <3> QED
      BY <2>1, <3>2 DEF SourceOf, Parties
  <2>2. CASE pc[r] # "summarize"
    BY <1>1, <2>2 DEF SourceOf, ToolSource, Parties, Agents
  <2> QED
    BY <2>1, <2>2
<1> QED
  BY <1>2, <1>3

\* A run leaves the others alone.
LEMMA OthersStay ==
    ASSUME TypeOK, NEW r \in Runs, RunStep(r) \/ Fail(r), NEW q \in Runs \ {r}
    PROVE  Own(q)' = Own(q)
<1> USE DEF TypeOK, Goto, Say, Put, Own
<1>1. r \in Units /\ q \in Units
  BY Constants
<1>2. CASE Start(r) \/ PutTask(r) \/ PutPlan(r) \/ PutEvidence(r)
  BY <1>2 DEF Start, PutTask, PutPlan, PutEvidence
<1>7. CASE RunSandbox(r) \/ PutCodeResult(r) \/ PutRefinedPlan(r) \/ PutRefinedEvidence(r)
             \/ PutSummary(r)
  BY <1>7 DEF RunSandbox, PutCodeResult, PutRefinedPlan, PutRefinedEvidence, PutSummary
<1>3. CASE Invoke(r) \/ ReadState(r) \/ SearchMemory(r)
  BY <1>3 DEF Invoke, ReadState, SearchMemory
<1>8. CASE IncrementReuse(r) \/ LogHits(r) \/ Answer(r) \/ Select(r)
  BY <1>8 DEF IncrementReuse, LogHits, Answer, Select
<1>4. CASE CommitRunMemory(r)
  BY <1>1, <1>4 DEF CommitRunMemory
<1>5. CASE CommitGlobalMemory(r)
  BY <1>1, <1>5 DEF CommitGlobalMemory
<1>6. CASE MarkState(r) \/ AnnounceMemory(r) \/ LogMessage(r)
  BY <1>6 DEF MarkState, AnnounceMemory, LogMessage
<1>9. CASE WriteTrace(r) \/ Finish(r) \/ Fail(r)
  BY <1>9 DEF WriteTrace, Finish, Fail
<1> QED
  BY <1>2, <1>3, <1>4, <1>5, <1>6, <1>7, <1>8, <1>9 DEF RunStep

LEMMA ShapeOfOthers ==
    ASSUME NEW q \in Runs, Own(q)' = Own(q), Shape(q)
    PROVE  Shape(q)'
  BY DEF Own, Shape, Made, Present, Has

TypeInv == TypeOK /\ \A r \in Runs : Shape(r)

LEMMA TypeInit == Init => TypeInv
<1> SUFFICES ASSUME Init PROVE TypeInv
  OBVIOUS
<1>1. TypeOK
  <2>1. /\ pc \in [Runs -> PCs] /\ state \in [Runs -> [Kinds -> Entry \cup {None}]]
        /\ messages \in [Runs -> Seq(Message)] /\ route \in [Runs -> Seq(Agents)]
        /\ agentIo \in [Runs -> Seq(Agents)]
    BY DEF Init, PCs
  <2>2. /\ task \in [Runs -> [blank : BOOLEAN, gaps : BOOLEAN]]
        /\ decision \in [Runs -> [retrieval : BOOLEAN, tool : BOOLEAN]]
        /\ outcome \in [Runs -> [exit : {"none", "ok", "error", "timeout"},
                                 gaps : BOOLEAN, advice : SUBSET Feedback]]
    BY DEF Init
  <2>3. /\ memory \in [Units -> SUBSET {"run", "global"}] /\ reuse \in [Units -> Nat]
        /\ hits \in [Runs -> SUBSET Units] /\ hitLog \in [Runs -> SUBSET (Actions \X Units)]
        /\ call \in [Runs -> Call \cup {None}] /\ searches \in [Runs -> Nat]
        /\ logged \in [Runs -> Nat]
        /\ trace \in [Runs -> [queries : Nat, reused : Nat, rounds : Nat, scored : Nat]
                                \cup {None}]
    BY DEF Init
  <2> QED
    BY <2>1, <2>2, <2>3 DEF TypeOK
<1>2. \A r \in Runs : Shape(r)
  <2>1. \A r \in Runs : /\ pc[r] = "start" /\ call[r] = None
                         /\ \A k \in Kinds : ~Has(r, k)
    BY DEF Init, Has
  <2>2. "summary" \in Kinds
    BY DEF Kinds
  <2> QED
    BY <2>1, <2>2 DEF Shape, Last
<1> QED
  BY <1>1, <1>2 DEF TypeInv

LEMMA StageIs ==
    ASSUME TypeOK, NEW r \in Runs, Shape(r), call[r] # None
    PROVE  /\ call[r] \in Call /\ pc[r] \in Stages
           /\ AgentOf[pc[r]] \in Agents /\ ActionOf[pc[r]] \in Actions
           /\ call[r].refs \subseteq Made(r) /\ call[r].unread \subseteq call[r].refs
  BY Constants DEF TypeOK, Shape

LEMMA TypeStep ==
    ASSUME TypeOK, NEW r \in Runs, Shape(r), RunStep(r) \/ Fail(r)
    PROVE  TypeOK' /\ Shape(r)'
<1>0. TypeOK /\ Shape(r)
  OBVIOUS
<1>1. CASE Start(r)
  <2>1. messages' \in [Runs -> Seq(Message)]
    BY <1>0, <1>1, Hello DEF Start, TypeOK
  <2>2. /\ pc' \in [Runs -> PCs] /\ pc'[r] = "put_task" /\ pc[r] = "start"
        /\ UNCHANGED <<state, call, route>>
    BY <1>0, <1>1 DEF Start, Goto, TypeOK, PCs
  <2>3. TypeOK'
    BY <1>0, <1>1, <2>1, <2>2 DEF Start, TypeOK
  <2> QED
    BY <1>0, <2>2, <2>3 DEF Shape, Last, Stages, Made, Present, Has
<1>2. CASE PutTask(r)
  <2>1. PICK parents \in SUBSET Kinds : Put(r, "task", parents)
    BY <1>2, RefsAreKinds DEF PutTask, Kinds, Present
  <2>2. /\ state' \in [Runs -> [Kinds -> Entry \cup {None}]]
        /\ Has(r, "task")' /\ \A j \in Kinds \ {"task"} : Has(r, j)' <=> Has(r, j)
    BY <1>0, <2>1, PutAdds DEF Kinds
  <2>3. /\ pc'[r] \in {"plan"} /\ pc' \in [Runs -> PCs]
        /\ pc[r] = "put_task" /\ UNCHANGED <<call, route>> /\ call[r] = None
    BY <1>0, <1>2 DEF PutTask, Goto, Shape, Stages, TypeOK, PCs
  <2>4. messages' \in [Runs -> Seq(Message)]
    <3>1. PICK m \in Message : messages' = [messages EXCEPT ![r] = Append(@, m)]
      BY <1>2 DEF PutTask, Say, Msg, Message, MsgTypes, Parties, Agents, Kinds
    <3> QED
      BY <1>0, <3>1 DEF TypeOK
  <2>5. TypeOK'
    BY <1>0, <1>2, <2>2, <2>3, <2>4 DEF PutTask, TypeOK
  <2> QED
    BY <1>0, <2>2, <2>3, <2>5 DEF Shape, Last, Kinds
<1>3. CASE PutPlan(r)
  <2>1. PICK parents \in SUBSET Kinds : Put(r, "plan", parents)
    BY <1>3, RefsAreKinds DEF PutPlan, Kinds, Present
  <2>2. /\ state' \in [Runs -> [Kinds -> Entry \cup {None}]]
        /\ Has(r, "plan")' /\ \A j \in Kinds \ {"plan"} : Has(r, j)' <=> Has(r, j)
    BY <1>0, <2>1, PutAdds DEF Kinds
  <2>3. /\ pc'[r] \in {"search", "execute", "summarize"} /\ pc' \in [Runs -> PCs]
        /\ pc[r] = "put_plan" /\ UNCHANGED <<call, route>> /\ call[r] = None
    BY <1>0, <1>3 DEF PutPlan, Goto, Shape, Stages, TypeOK, PCs, StageAfterPlan
  <2>4. messages' \in [Runs -> Seq(Message)]
    <3>1. PICK m \in Message : messages' = [messages EXCEPT ![r] = Append(@, m)]
      BY <1>3 DEF PutPlan, Say, Msg, Message, MsgTypes, Parties, Agents, Kinds, NextAgent
    <3> QED
      BY <1>0, <3>1 DEF TypeOK
  <2>5. TypeOK'
    <3>1. decision' \in [Runs -> [retrieval : BOOLEAN, tool : BOOLEAN]]
      BY <1>0, <1>3 DEF PutPlan, TypeOK, Decisions
    <3> QED
      BY <1>0, <1>3, <2>2, <2>3, <2>4, <3>1 DEF PutPlan, TypeOK
  <2> QED
    BY <1>0, <2>2, <2>3, <2>5 DEF Shape, Last, Kinds
<1>4. CASE PutEvidence(r)
  <2>1. PICK parents \in SUBSET Kinds : Put(r, "evidence", parents)
    BY <1>4, RefsAreKinds DEF PutEvidence, Kinds, Present
  <2>2. /\ state' \in [Runs -> [Kinds -> Entry \cup {None}]]
        /\ Has(r, "evidence")' /\ \A j \in Kinds \ {"evidence"} : Has(r, j)' <=> Has(r, j)
    BY <1>0, <2>1, PutAdds DEF Kinds
  <2>3. /\ pc'[r] \in {"execute", "summarize"} /\ pc' \in [Runs -> PCs]
        /\ pc[r] = "put_evidence" /\ UNCHANGED <<call, route>> /\ call[r] = None
    BY <1>0, <1>4 DEF PutEvidence, Goto, Shape, Stages, TypeOK, PCs
  <2>4. messages' \in [Runs -> Seq(Message)]
    <3>1. PICK m \in Message : messages' = [messages EXCEPT ![r] = Append(@, m)]
      BY <1>4 DEF PutEvidence, Say, Msg, Message, MsgTypes, Parties, Agents, Kinds
    <3> QED
      BY <1>0, <3>1 DEF TypeOK
  <2>5. TypeOK'
    BY <1>0, <1>4, <2>2, <2>3, <2>4 DEF PutEvidence, TypeOK
  <2> QED
    BY <1>0, <2>2, <2>3, <2>5 DEF Shape, Last, Kinds
<1>5. CASE RunSandbox(r)
  <2>1. \A gaps \in BOOLEAN, own \in SUBSET Feedback : Advice(gaps, own) \subseteq Feedback
    BY DEF Advice, Feedback
  <2>2. outcome' \in [Runs -> [exit : {"none", "ok", "error", "timeout"},
                               gaps : BOOLEAN, advice : SUBSET Feedback]]
    <3>1. PICK p \in Printed :
            outcome' = [outcome EXCEPT ![r] =
                          [exit |-> p.exit, gaps |-> task[r].gaps \/ p.gaps,
                           advice |-> Advice(task[r].gaps \/ p.gaps, p.own)]]
      BY <1>5 DEF RunSandbox
    <3>2. /\ p.exit \in {"ok", "error", "timeout"} /\ p.own \in SUBSET Feedback
          /\ (task[r].gaps \/ p.gaps) \in BOOLEAN
      BY DEF Printed
    <3> QED
      BY <1>0, <2>1, <3>1, <3>2 DEF TypeOK
  <2> QED
    BY <1>0, <1>5, <2>2 DEF RunSandbox, Goto, TypeOK, Shape, PCs, Last, Stages, Made, Present, Has
<1>6. CASE PutCodeResult(r)
  <2>1. PICK parents \in SUBSET Kinds : Put(r, "code_result", parents)
    BY <1>6, RefsAreKinds DEF PutCodeResult, Kinds, Present
  <2>2. /\ state' \in [Runs -> [Kinds -> Entry \cup {None}]]
        /\ Has(r, "code_result")' /\ \A j \in Kinds \ {"code_result"} : Has(r, j)' <=> Has(r, j)
    BY <1>0, <2>1, PutAdds DEF Kinds
  <2>3. /\ pc'[r] \in {"replan", "research", "summarize"} /\ pc' \in [Runs -> PCs]
        /\ pc[r] = "put_result" /\ UNCHANGED <<call, route>> /\ call[r] = None
    BY <1>0, <1>6 DEF PutCodeResult, Goto, Shape, Stages, TypeOK, PCs
  <2>4. messages' \in [Runs -> Seq(Message)]
    <3>1. PICK m \in Message : messages' = [messages EXCEPT ![r] = Append(@, m)]
      BY <1>6 DEF PutCodeResult, Say, Msg, Message, MsgTypes, Parties, Agents, Kinds
    <3> QED
      BY <1>0, <3>1 DEF TypeOK
  <2>5. TypeOK'
    BY <1>0, <1>6, <2>2, <2>3, <2>4 DEF PutCodeResult, TypeOK
  <2> QED
    BY <1>0, <2>2, <2>3, <2>5 DEF Shape, Last, Kinds
<1>7. CASE PutRefinedPlan(r)
  <2>1. PICK parents \in SUBSET Kinds : Put(r, "refined_plan", parents)
    BY <1>7, RefsAreKinds DEF PutRefinedPlan, Kinds, Present
  <2>2. /\ state' \in [Runs -> [Kinds -> Entry \cup {None}]]
        /\ Has(r, "refined_plan")' /\ \A j \in Kinds \ {"refined_plan"} : Has(r, j)' <=> Has(r, j)
    BY <1>0, <2>1, PutAdds DEF Kinds
  <2>3. /\ pc'[r] \in {"research", "summarize"} /\ pc' \in [Runs -> PCs]
        /\ pc[r] = "put_refined_plan" /\ UNCHANGED <<call, route>> /\ call[r] = None
    BY <1>0, <1>7 DEF PutRefinedPlan, Goto, Shape, Stages, TypeOK, PCs
  <2>4. messages' \in [Runs -> Seq(Message)]
    BY <1>0, <1>7 DEF PutRefinedPlan, TypeOK
  <2>5. TypeOK'
    BY <1>0, <1>7, <2>2, <2>3, <2>4 DEF PutRefinedPlan, TypeOK
  <2> QED
    BY <1>0, <2>2, <2>3, <2>5 DEF Shape, Last, Kinds
<1>8. CASE PutRefinedEvidence(r)
  <2>1. PICK parents \in SUBSET Kinds : Put(r, "refined_evidence", parents)
    BY <1>8, RefsAreKinds DEF PutRefinedEvidence, Kinds, Present
  <2>2. /\ state' \in [Runs -> [Kinds -> Entry \cup {None}]]
        /\ Has(r, "refined_evidence")' /\ \A j \in Kinds \ {"refined_evidence"} : Has(r, j)' <=> Has(r, j)
    BY <1>0, <2>1, PutAdds DEF Kinds
  <2>3. /\ pc'[r] \in {"summarize"} /\ pc' \in [Runs -> PCs]
        /\ pc[r] = "put_refined_evidence" /\ UNCHANGED <<call, route>> /\ call[r] = None
    BY <1>0, <1>8 DEF PutRefinedEvidence, Goto, Shape, Stages, TypeOK, PCs
  <2>4. messages' \in [Runs -> Seq(Message)]
    BY <1>0, <1>8 DEF PutRefinedEvidence, TypeOK
  <2>5. TypeOK'
    BY <1>0, <1>8, <2>2, <2>3, <2>4 DEF PutRefinedEvidence, TypeOK
  <2> QED
    BY <1>0, <2>2, <2>3, <2>5 DEF Shape, Last, Kinds
<1>9. CASE PutSummary(r)
  <2>1. PICK parents \in SUBSET Kinds : Put(r, "summary", parents)
    BY <1>9, RefsAreKinds DEF PutSummary, Kinds, Present
  <2>2. /\ state' \in [Runs -> [Kinds -> Entry \cup {None}]]
        /\ Has(r, "summary")' /\ \A j \in Kinds \ {"summary"} : Has(r, j)' <=> Has(r, j)
    BY <1>0, <2>1, PutAdds DEF Kinds
  <2>3. /\ pc'[r] \in {"commit"} /\ pc' \in [Runs -> PCs]
        /\ pc[r] = "put_summary" /\ UNCHANGED <<call, route>> /\ call[r] = None
    BY <1>0, <1>9 DEF PutSummary, Goto, Shape, Stages, TypeOK, PCs
  <2>4. messages' \in [Runs -> Seq(Message)]
    BY <1>0, <1>9 DEF PutSummary, TypeOK
  <2>5. TypeOK'
    BY <1>0, <1>9, <2>2, <2>3, <2>4 DEF PutSummary, TypeOK
  <2> QED
    BY <1>0, <2>2, <2>3, <2>5 DEF Shape, Last, Kinds
<1>10. CASE Invoke(r)
  <2>1. /\ pc[r] \in Stages /\ SourceOf(r) \in Parties /\ RefsOf(r) \subseteq Made(r)
        /\ RefsOf(r) \subseteq Kinds
    BY <1>0, <1>10, InvokeIs, RefsAreKinds DEF Invoke
  <2>2. messages' \in [Runs -> Seq(Message)]
    <3>1. Msg("INVOKE", SourceOf(r), AgentOf[pc[r]], ActionOf[pc[r]], RefsOf(r)) \in Message
      <4>1. /\ AgentOf[pc[r]] \in Parties /\ ActionOf[pc[r]] \in Actions \cup {""}
            /\ "INVOKE" \in MsgTypes
        BY <2>1, Constants DEF MsgTypes
      <4> QED
        BY <2>1, <4>1, MsgIsMessage
    <3>2. messages' = [messages EXCEPT ![r] =
                Append(@, Msg("INVOKE", SourceOf(r), AgentOf[pc[r]], ActionOf[pc[r]], RefsOf(r)))]
      BY <1>10, Zenon DEF Invoke, Say
    <3>3. messages \in [Runs -> Seq(Message)]
      BY <1>0 DEF TypeOK
    <3> QED
      BY <3>1, <3>2, <3>3
  <2>3. PICK c \in Call : /\ call' = [call EXCEPT ![r] = c]
                          /\ c.refs = RefsOf(r) /\ c.unread \subseteq c.refs
    <3> DEFINE c == [source |-> SourceOf(r), refs |-> RefsOf(r),
                     unread |-> IF ReadsStates(r) THEN RefsOf(r) ELSE {},
                     unbumped |-> {}, unlogged |-> {},
                     searched |-> FALSE, answered |-> FALSE]
    <3>1. c \in Call /\ c.refs = RefsOf(r) /\ c.unread \subseteq c.refs
      BY <2>1 DEF Call
    <3>2. call' = [call EXCEPT ![r] = c]
      BY <1>10 DEF Invoke
    <3> QED
      BY <3>1, <3>2
  <2>4. TypeOK'
    <3>1. call' \in [Runs -> Call \cup {None}]
      BY <1>0, <2>3 DEF TypeOK
    <3> QED
      BY <1>0, <1>10, <2>2, <3>1 DEF Invoke, TypeOK
  <2>5. UNCHANGED <<pc, route, state>> /\ call'[r] = c
    BY <1>0, <1>10, <2>3 DEF Invoke, TypeOK
  <2> QED
    BY <1>0, <2>1, <2>3, <2>4, <2>5 DEF Shape, Made, Present, Has
<1>11. CASE ReadState(r)
  <2>1. PICK k \in call[r].unread :
          /\ state' = [state EXCEPT ![r][k].consumers = @ \cup {AgentOf[pc[r]]}]
          /\ call' = [call EXCEPT ![r].unread = @ \ {k}]
    BY <1>11 DEF ReadState
  <2>2. /\ call[r] \in Call /\ pc[r] \in Stages /\ AgentOf[pc[r]] \in Agents
        /\ call[r].refs \subseteq Made(r) /\ call[r].unread \subseteq call[r].refs
    BY <1>0, <1>11, StageIs DEF ReadState
  <2>3. k \in Kinds /\ state[r][k] \in Entry
    BY <1>0, <2>1, <2>2 DEF Made, Present, Has, TypeOK
  <2>4. /\ state' \in [Runs -> [Kinds -> Entry \cup {None}]]
        /\ \A j \in Kinds : Has(r, j)' <=> Has(r, j)
    <3> DEFINE entry == [state[r][k] EXCEPT !.consumers = @ \cup {AgentOf[pc[r]]}]
    <3>1. entry \in Entry
      BY <2>2, <2>3 DEF Entry
    <3>2. state' = [state EXCEPT ![r][k] = entry]
      BY <2>1
    <3> HIDE DEF entry
    <3> QED
      BY <1>0, <2>3, <3>1, <3>2, NoneIsNoEntry DEF TypeOK, Has
  <2>5. /\ call' \in [Runs -> Call \cup {None}]
        /\ call'[r].refs = call[r].refs /\ call'[r].unread \subseteq call[r].unread
    BY <1>0, <2>1, <2>2 DEF TypeOK, Call
  <2>6. TypeOK'
    BY <1>0, <1>11, <2>4, <2>5 DEF ReadState, TypeOK
  <2>7. UNCHANGED <<pc, route>> /\ call[r] # None
    BY <1>11 DEF ReadState
  <2> QED
    BY <1>0, <2>2, <2>4, <2>5, <2>6, <2>7 DEF Shape, Made, Present, Kinds
<1>12. CASE SearchMemory(r)
  <2>1. PICK H \in SUBSET Stored :
          /\ call' = [call EXCEPT ![r].searched = TRUE, ![r].unbumped = H, ![r].unlogged = H]
          /\ hits' = IF pc[r] = "search" THEN [hits EXCEPT ![r] = H] ELSE hits
    BY <1>12 DEF SearchMemory
  <2>2. H \subseteq Units /\ call[r] \in Call /\ call[r] # None
    BY <1>0, <1>12 DEF Stored, TypeOK, SearchMemory
  <2>3. /\ call' \in [Runs -> Call \cup {None}]
        /\ call'[r].refs = call[r].refs /\ call'[r].unread = call[r].unread
    <3> DEFINE c == [call[r] EXCEPT !.searched = TRUE, !.unbumped = H, !.unlogged = H]
    <3>1. c \in Call /\ c.refs = call[r].refs /\ c.unread = call[r].unread
      BY <2>2 DEF Call
    <3>2. call' = [call EXCEPT ![r] = c]
      BY <1>0, <2>1 DEF TypeOK
    <3> HIDE DEF c
    <3> QED
      BY <1>0, <3>1, <3>2 DEF TypeOK
  <2>4. hits' \in [Runs -> SUBSET Units] /\ searches' \in [Runs -> Nat]
    <3>1. hits' \in [Runs -> SUBSET Units]
      BY <1>0, <2>1, <2>2 DEF TypeOK
    <3>2. searches' = [searches EXCEPT ![r] = @ + 1] \/ searches' = searches
      BY <1>12 DEF SearchMemory
    <3>3. searches \in [Runs -> Nat]
      BY <1>0 DEF TypeOK
    <3>4. searches' \in [Runs -> Nat]
      BY <3>2, <3>3
    <3> QED
      BY <3>1, <3>4
  <2>5. TypeOK'
    BY <1>0, <1>12, <2>3, <2>4 DEF SearchMemory, TypeOK
  <2>6. UNCHANGED <<pc, route, state>>
    BY <1>12 DEF SearchMemory
  <2> QED
    BY <1>0, <2>2, <2>3, <2>5, <2>6 DEF Shape, Made, Present, Has
<1>13. CASE IncrementReuse(r)
  <2>1. PICK u \in call[r].unbumped :
          /\ reuse' = [reuse EXCEPT ![u] = @ + 1]
          /\ call' = [call EXCEPT ![r].unbumped = @ \ {u}]
    BY <1>13 DEF IncrementReuse
  <2>2. call[r] \in Call /\ call[r] # None
    BY <1>0, <1>13 DEF TypeOK, IncrementReuse
  <2>3. /\ call' \in [Runs -> Call \cup {None}]
        /\ call'[r].refs = call[r].refs /\ call'[r].unread = call[r].unread
    <3> DEFINE c == [call[r] EXCEPT !.unbumped = @ \ {u}]
    <3>1. c \in Call /\ c.refs = call[r].refs /\ c.unread = call[r].unread
      BY <2>2 DEF Call
    <3>2. call' = [call EXCEPT ![r] = c]
      BY <2>1
    <3> HIDE DEF c
    <3> QED
      BY <1>0, <3>1, <3>2 DEF TypeOK
  <2>4. reuse' \in [Units -> Nat]
    BY <1>0, <2>1, <2>2 DEF TypeOK, Call
  <2>5. TypeOK'
    BY <1>0, <1>13, <2>3, <2>4 DEF IncrementReuse, TypeOK
  <2>6. UNCHANGED <<pc, route, state>>
    BY <1>13 DEF IncrementReuse
  <2> QED
    BY <1>0, <2>2, <2>3, <2>5, <2>6 DEF Shape, Made, Present, Has
<1>14. CASE LogHits(r)
  <2>1. /\ call[r] \in Call /\ call[r] # None /\ ActionOf[pc[r]] \in Actions
    BY <1>0, <1>14, StageIs DEF LogHits
  <2>2. /\ call' \in [Runs -> Call \cup {None}]
        /\ call'[r].refs = call[r].refs /\ call'[r].unread = call[r].unread
    BY <1>0, <1>14, <2>1 DEF LogHits, TypeOK, Call
  <2>3. hitLog' \in [Runs -> SUBSET (Actions \X Units)]
    <3>1. call[r].unlogged \subseteq Units
      BY <2>1 DEF Call
    <3>2. {ActionOf[pc[r]]} \X call[r].unlogged \subseteq Actions \X Units
      BY <2>1, <3>1
    <3> QED
      BY <1>0, <1>14, <3>2 DEF LogHits, TypeOK
  <2>4. TypeOK'
    BY <1>0, <1>14, <2>2, <2>3 DEF LogHits, TypeOK
  <2>5. UNCHANGED <<pc, route, state>>
    BY <1>14 DEF LogHits
  <2> QED
    BY <1>0, <2>1, <2>2, <2>4, <2>5 DEF Shape, Made, Present, Has
<1>15. CASE Answer(r)
  <2>1. /\ call[r] \in Call /\ call[r] # None
        /\ AgentOf[pc[r]] \in Agents /\ ActionOf[pc[r]] \in Actions
    BY <1>0, <1>15, StageIs DEF Answer
  <2>2. messages' \in [Runs -> Seq(Message)]
    <3>1. Reply(r) \in Message
      <4>1. call[r].source \in Parties /\ call[r].refs \in SUBSET Kinds
        BY <2>1 DEF Call
      <4> QED
        BY <2>1, <4>1, Constants, MsgIsMessage DEF Reply, MsgTypes
    <3> QED
      BY <1>0, <1>15, <3>1 DEF Answer, Say, TypeOK
  <2>3. /\ call' \in [Runs -> Call \cup {None}]
        /\ call'[r].refs = call[r].refs /\ call'[r].unread = call[r].unread
    BY <1>0, <1>15, <2>1 DEF Answer, TypeOK, Call
  <2>4. TypeOK'
    BY <1>0, <1>15, <2>2, <2>3 DEF Answer, TypeOK
  <2>5. UNCHANGED <<pc, route, state>>
    BY <1>15 DEF Answer
  <2> QED
    BY <1>0, <2>1, <2>3, <2>4, <2>5 DEF Shape, Made, Present, Has
<1>16. CASE Select(r)
  <2>1. pc[r] \in Stages /\ AgentOf[pc[r]] \in Agents /\ AfterCall[pc[r]] \in PCs
    BY <1>0, <1>16, StageIs, Constants DEF Select
  <2>2. /\ pc' = [pc EXCEPT ![r] = AfterCall[pc[r]]] /\ call' = [call EXCEPT ![r] = None]
        /\ route' = [route EXCEPT ![r] = Append(@, AgentOf[pc[r]])]
        /\ agentIo' = [agentIo EXCEPT ![r] = Append(@, AgentOf[pc[r]])]
        /\ UNCHANGED state
    BY <1>16 DEF Select, Goto
  <2>3. TypeOK'
    <3>1. /\ pc' \in [Runs -> PCs] /\ call' \in [Runs -> Call \cup {None}]
          /\ state' \in [Runs -> [Kinds -> Entry \cup {None}]]
      BY <1>0, <2>1, <2>2 DEF TypeOK
    <3>2. route' \in [Runs -> Seq(Agents)] /\ agentIo' \in [Runs -> Seq(Agents)]
      BY <1>0, <2>1, <2>2 DEF TypeOK
    <3> QED
      BY <1>0, <1>16, <3>1, <3>2 DEF Select, TypeOK
  <2>4. route'[r] # <<>> /\ call'[r] = None /\ pc'[r] = AfterCall[pc[r]]
    BY <1>0, <2>1, <2>2 DEF TypeOK
  <2>5. \/ pc[r] = "plan" /\ pc'[r] = "put_plan"
        \/ pc[r] # "plan" /\ pc'[r] \in {"put_evidence", "sandbox", "put_refined_plan",
                                          "put_refined_evidence", "put_summary"}
    BY <2>1, <2>4 DEF Stages, AfterCall
  <2>6. \A k \in Kinds : Has(r, k)' <=> Has(r, k)
    BY <2>2 DEF Has
  <2>7. Has(r, "task") /\ (pc[r] # "plan" => Has(r, "plan")) /\ ~Has(r, "summary")
    BY <1>0, <2>1 DEF Shape, Stages, Last
  <2> QED
    BY <2>3, <2>4, <2>5, <2>6, <2>7 DEF Shape, Last, Kinds
<1>17. CASE CommitRunMemory(r) \/ CommitGlobalMemory(r)
  <2>1. memory' \in [Units -> SUBSET {"run", "global"}]
    <3>1. r \in Units
      BY Constants
    <3>2. \/ memory' = [memory EXCEPT ![r] = @ \cup {"run"}]
          \/ memory' = [memory EXCEPT ![r] = @ \cup {"global"}]
          \/ memory' = memory
      BY <1>17 DEF CommitRunMemory, CommitGlobalMemory
    <3>3. memory \in [Units -> SUBSET {"run", "global"}]
      BY <1>0 DEF TypeOK
    <3>4. CASE memory' = [memory EXCEPT ![r] = @ \cup {"run"}]
      BY <3>1, <3>3, <3>4
    <3>5. CASE memory' = [memory EXCEPT ![r] = @ \cup {"global"}]
      BY <3>1, <3>3, <3>5
    <3> QED
      BY <3>2, <3>3, <3>4, <3>5
  <2>2. /\ pc' \in [Runs -> PCs] /\ pc'[r] \in {"mark", "log", "announce"}
        /\ pc[r] \in {"commit", "mark"} /\ UNCHANGED <<state, route, call>>
    BY <1>0, <1>17 DEF CommitRunMemory, CommitGlobalMemory, Goto, TypeOK, PCs
  <2>3. TypeOK'
    BY <1>0, <1>17, <2>1, <2>2 DEF CommitRunMemory, CommitGlobalMemory, TypeOK
  <2> QED
    BY <1>0, <2>2, <2>3 DEF Shape, Last, Stages, Made, Present, Has
<1>18. CASE MarkState(r)
  <2>1. PICK k \in Unmarked(r) : state' = [state EXCEPT ![r][k].memory = TRUE]
    BY <1>18 DEF MarkState
  <2>2. k \in Kinds /\ state[r][k] \in Entry
    BY <1>0, <2>1 DEF Unmarked, Made, Present, Has, TypeOK
  <2>3. /\ state' \in [Runs -> [Kinds -> Entry \cup {None}]]
        /\ \A j \in Kinds : Has(r, j)' <=> Has(r, j)
    <3> DEFINE entry == [state[r][k] EXCEPT !.memory = TRUE]
    <3>1. entry \in Entry
      BY <2>2 DEF Entry
    <3>2. state' = [state EXCEPT ![r][k] = entry]
      BY <2>1
    <3> HIDE DEF entry
    <3> QED
      BY <1>0, <2>2, <3>1, <3>2, NoneIsNoEntry DEF TypeOK, Has
  <2>4. TypeOK'
    BY <1>0, <1>18, <2>3 DEF MarkState, TypeOK
  <2>5. UNCHANGED <<pc, route, call>> /\ pc[r] = "mark"
    BY <1>18 DEF MarkState
  <2> QED
    BY <1>0, <2>3, <2>4, <2>5 DEF Shape, Last, Kinds, Stages
<1>19. CASE AnnounceMemory(r)
  <2>1. messages' \in [Runs -> Seq(Message)]
    <3>1. Msg("MEMORY_PUT", "summarizer", "runtime", "", Made(r)) \in Message
      <4>1. /\ "MEMORY_PUT" \in MsgTypes /\ "summarizer" \in Parties /\ "runtime" \in Parties
            /\ Made(r) \in SUBSET Kinds
        BY RefsAreKinds DEF MsgTypes, Parties, Agents
      <4> QED
        BY <4>1, MsgIsMessage
    <3>2. PICK m \in Message : messages' = [messages EXCEPT ![r] = Append(@, m)]
      BY <1>19, <3>1, Zenon DEF AnnounceMemory, Say
    <3>3. messages \in [Runs -> Seq(Message)]
      BY <1>0 DEF TypeOK
    <3> QED
      BY <3>2, <3>3
  <2>2. TypeOK'
    BY <1>0, <1>19, <2>1 DEF AnnounceMemory, Goto, TypeOK, PCs
  <2> QED
    BY <1>0, <1>19, <2>2 DEF AnnounceMemory, Goto, TypeOK, Shape, Last, Stages, Made, Present, Has
<1>20. CASE LogMessage(r)
  <2>1. logged' \in [Runs -> Nat]
    BY <1>0, <1>20 DEF LogMessage, TypeOK
  <2> QED
    BY <1>0, <1>20, <2>1 DEF LogMessage, TypeOK, Shape, Made, Present, Has
<1>21. CASE WriteTrace(r)
  <2>1. Metrics(r) \in [queries : Nat, reused : Nat, rounds : Nat, scored : Nat]
    <3>1. IsFiniteSet(hits[r]) /\ IsFiniteSet(hitLog[r])
      <4>1. IsFiniteSet(Actions \X Units)
        BY Constants, FS_Product
      <4> QED
        BY <1>0, <4>1, Constants, FS_Subset DEF TypeOK
    <3>2. Cardinality(hits[r]) \in Nat /\ Cardinality(hitLog[r]) \in Nat
      BY <3>1, FS_CardinalityType
    <3> QED
      BY <3>2 DEF Metrics, Scored
  <2>2. TypeOK'
    BY <1>0, <1>21, <2>1 DEF WriteTrace, Goto, TypeOK, PCs
  <2> QED
    BY <1>0, <1>21, <2>2 DEF WriteTrace, Goto, TypeOK, Shape, Last, Stages, Made, Present, Has
<1>22. CASE Finish(r)
  <2>1. TypeOK'
    BY <1>0, <1>22 DEF Finish, Goto, TypeOK, PCs
  <2> QED
    BY <1>0, <1>22, <2>1 DEF Finish, Goto, TypeOK, Shape, Last, Stages, Made, Present, Has
<1>23. CASE Fail(r)
  <2>1. TypeOK'
    BY <1>0, <1>23 DEF Fail, Goto, TypeOK, PCs
  <2> QED
    BY <1>0, <1>23, <2>1 DEF Fail, Goto, TypeOK, Shape, Last, Stages, Made, Present, Has
<1> QED
  BY <1>1, <1>2, <1>3, <1>4, <1>5, <1>6, <1>7, <1>8, <1>9, <1>10, <1>11, <1>12, <1>13, <1>14, <1>15, <1>16, <1>17, <1>18, <1>19, <1>20, <1>21, <1>22, <1>23 DEF RunStep

\* The types, and the places a run can be in with each kind of call: what the
\* theorems below rest on.
THEOREM TypeInvariant == Spec => []TypeInv
<1>1. TypeInv /\ [Next]_vars => TypeInv'
  <2> SUFFICES ASSUME TypeInv, [Next]_vars PROVE TypeInv'
    OBVIOUS
  <2>1. CASE Next
    <3>1. PICK r \in Runs : RunStep(r) \/ Fail(r)
      BY <2>1 DEF Next
    <3>2. TypeOK' /\ Shape(r)'
      BY <3>1, TypeStep DEF TypeInv
    <3>3. ASSUME NEW q \in Runs \ {r} PROVE Shape(q)'
      <4>1. Own(q)' = Own(q)
        BY <3>1, OthersStay DEF TypeInv
      <4> QED
        BY <4>1, ShapeOfOthers DEF TypeInv
    <3> QED
      BY <3>2, <3>3 DEF TypeInv
  <2>2. CASE UNCHANGED vars
    <3>1. TypeOK'
      BY <2>2 DEF TypeInv, TypeOK, vars
    <3>2. \A r \in Runs : Own(r)' = Own(r)
      BY <2>2 DEF Own, vars
    <3>3. \A r \in Runs : Shape(r)'
      BY <3>2, ShapeOfOthers DEF TypeInv
    <3> QED
      BY <3>1, <3>3 DEF TypeInv
  <2> QED
    BY <2>1, <2>2
<1> QED
  BY TypeInit, <1>1, PTL DEF Spec

\* Every variable of every run keeps its type: among the rest, a call, a message
\* and a state are always of the shape the handlers and the scheduler expect.
THEOREM TypeCorrect == Spec => []TypeOK
<1>1. TypeInv => TypeOK
  BY DEF TypeInv
<1> QED
  BY <1>1, TypeInvariant, PTL

-----------------------------------------------------------------------------
(* Lineage.                                                                 *)

\* The stage that puts a state on.
PutStage == [task             |-> "put_task",
             plan             |-> "put_plan",
             evidence         |-> "put_evidence",
             code_result      |-> "put_result",
             refined_plan     |-> "put_refined_plan",
             refined_evidence |-> "put_refined_evidence",
             summary          |-> "put_summary"]

\* A step of a run either puts one more state, which descends from states that
\* are there, before there is a summary or as the summary of all of them;
Adds(r) ==
    \E k \in Kinds, parents \in SUBSET Made(r) :
        /\ Put(r, k, parents)
        /\ pc[r] = PutStage[k]
        /\ ~Has(r, "summary")
        /\ k = "summary" => parents = Made(r)

\* or leaves the states and what they descend from.
Keeps(r) ==
    \A k \in Kinds : /\ state'[r][k] # None <=> Has(r, k)
                     /\ Has(r, k) => state'[r][k].parents = state[r][k].parents

LEMMA PutIsAdd ==
    ASSUME TypeOK, NEW r \in Runs, Shape(r),
           \/ PutTask(r) \/ PutPlan(r) \/ PutEvidence(r) \/ PutCodeResult(r)
           \/ PutRefinedPlan(r) \/ PutRefinedEvidence(r) \/ PutSummary(r)
    PROVE  Adds(r)
<1>0. /\ TypeOK /\ Shape(r)
      /\ pc[r] \in {"put_task", "put_plan", "put_evidence", "put_result", "put_refined_plan",
                    "put_refined_evidence", "put_summary"} => ~Has(r, "summary")
      /\ pc[r] \in {"put_plan", "put_evidence"} => {"task"} \subseteq Made(r)
      /\ pc[r] = "put_evidence" => {"task", "plan"} \subseteq Made(r)
  BY DEF Shape, Last, Made, Present, Kinds
<1>1. CASE PutTask(r)
  BY <1>0, <1>1 DEF PutTask, Adds, Kinds, PutStage
<1>2. CASE PutPlan(r)
  BY <1>0, <1>2 DEF PutPlan, Adds, Kinds, PutStage
<1>3. CASE PutEvidence(r)
  BY <1>0, <1>3 DEF PutEvidence, Adds, Kinds, PutStage
<1>4. CASE PutCodeResult(r)
  <2>1. Present(r, {"evidence"}) \subseteq Made(r)
    BY RefsAreKinds DEF Kinds
  <2> QED
    BY <1>0, <1>4, <2>1 DEF PutCodeResult, Adds, Kinds, PutStage
<1>5. CASE PutRefinedPlan(r)
  BY <1>0, <1>5, RefsAreKinds DEF PutRefinedPlan, Adds, Kinds, PutStage
<1>6. CASE PutRefinedEvidence(r)
  <2>1. FeedbackRefs(r) \cup Present(r, {"refined_plan"}) \subseteq Made(r)
    BY RefsAreKinds DEF Kinds
  <2> QED
    BY <1>0, <1>6, <2>1 DEF PutRefinedEvidence, Adds, Kinds, PutStage
<1>7. CASE PutSummary(r)
  <2>1. SummaryRefs(r) = Made(r)
    BY <1>0, <1>7, RefsAreKinds DEF PutSummary, Made, Present
  <2> QED
    BY <1>0, <1>7, <2>1 DEF PutSummary, Adds, Kinds, PutStage
<1> QED
  BY <1>1, <1>2, <1>3, <1>4, <1>5, <1>6, <1>7

LEMMA StateStep ==
    ASSUME TypeOK, NEW r \in Runs, Shape(r), RunStep(r) \/ Fail(r)
    PROVE  Adds(r) \/ Keeps(r)
<1>0. TypeOK /\ Shape(r)
  OBVIOUS
<1>1. CASE PutTask(r) \/ PutPlan(r) \/ PutEvidence(r) \/ PutCodeResult(r) \/ PutRefinedPlan(r)
             \/ PutRefinedEvidence(r) \/ PutSummary(r)
  BY <1>0, <1>1, PutIsAdd
<1>2. CASE ReadState(r)
  <2>1. PICK k \in call[r].unread :
          state' = [state EXCEPT ![r][k].consumers = @ \cup {AgentOf[pc[r]]}]
    BY <1>2 DEF ReadState
  <2>2. k \in Kinds /\ state[r][k] \in Entry
    <3>1. k \in Made(r)
      BY <1>0, <1>2, <2>1, StageIs DEF ReadState
    <3> QED
      BY <1>0, <3>1 DEF Made, Present, Has, TypeOK
  <2> DEFINE entry == [state[r][k] EXCEPT !.consumers = @ \cup {AgentOf[pc[r]]}]
  <2>3. entry.parents = state[r][k].parents /\ entry # None /\ state[r][k] # None
    <3>1. state[r][k].consumers \subseteq Agents /\ AgentOf[pc[r]] \in Agents
      BY <1>0, <1>2, <2>2, StageIs DEF Entry, ReadState
    <3>2. entry \in Entry /\ entry.parents = state[r][k].parents
      BY <2>2, <3>1 DEF Entry
    <3> HIDE DEF entry
    <3> QED
      BY <2>2, <3>2, NoneIsNoEntry
  <2>4. state' = [state EXCEPT ![r][k] = entry]
    BY <2>1
  <2>5. state \in [Runs -> [Kinds -> Entry \cup {None}]]
    BY <1>0 DEF TypeOK
  <2> HIDE DEF entry
  <2> QED
    BY <2>2, <2>3, <2>4, <2>5 DEF Keeps, Has
<1>3. CASE MarkState(r)
  <2>1. PICK k \in Unmarked(r) : state' = [state EXCEPT ![r][k].memory = TRUE]
    BY <1>3 DEF MarkState
  <2>2. k \in Kinds /\ state[r][k] \in Entry
    BY <1>0, <2>1 DEF Unmarked, Made, Present, Has, TypeOK
  <2> DEFINE entry == [state[r][k] EXCEPT !.memory = TRUE]
  <2>3. entry.parents = state[r][k].parents /\ entry # None /\ state[r][k] # None
    <3>1. entry \in Entry /\ entry.parents = state[r][k].parents
      BY <2>2 DEF Entry
    <3> HIDE DEF entry
    <3> QED
      BY <2>2, <3>1, NoneIsNoEntry
  <2>4. state' = [state EXCEPT ![r][k] = entry]
    BY <2>1
  <2>5. state \in [Runs -> [Kinds -> Entry \cup {None}]]
    BY <1>0 DEF TypeOK
  <2> HIDE DEF entry
  <2> QED
    BY <2>2, <2>3, <2>4, <2>5 DEF Keeps, Has
<1>4. CASE UNCHANGED state
  BY <1>4 DEF Keeps, Has
<1> QED
  BY <1>1, <1>2, <1>3, <1>4 DEF RunStep, Start, RunSandbox, Invoke, SearchMemory, IncrementReuse,
     LogHits, Answer, Select, CommitRunMemory, CommitGlobalMemory, AnnounceMemory, LogMessage,
     WriteTrace, Finish, Fail

\* A message of a run is one it had, or carries states that are there by now;
\* only the announcement of a unit is a MEMORY_PUT.
Fresh(r, m) == /\ m.refs \subseteq Made(r)'
               /\ m.type = "MEMORY_PUT" => pc[r] = "announce"

Follows(r) ==
    \A n \in DOMAIN messages'[r] :
        \/ n \in DOMAIN messages[r] /\ messages'[r][n] = messages[r][n]
        \/ Fresh(r, messages'[r][n])

\* What the message of a step is.
Spoken(r, m) ==
    \/ /\ Invoke(r)
       /\ m = Msg("INVOKE", SourceOf(r), AgentOf[pc[r]], ActionOf[pc[r]], RefsOf(r))
    \/ Answer(r) /\ m = Reply(r)
    \/ pc[r] \notin Stages /\ m.type \in {"STATE_REF", "MEMORY_PUT"}

Says(r, m) ==
    /\ m \in Message
    /\ messages' = [messages EXCEPT ![r] = Append(@, m)]
    /\ Fresh(r, m)
    /\ Spoken(r, m)

LEMMA MessageIs ==
    ASSUME TypeOK, NEW r \in Runs, Shape(r), RunStep(r) \/ Fail(r)
    PROVE  \/ Start(r) /\ messages'[r] \in {<<>>, HandshakeMessages}
           \/ \E m : Says(r, m)
           \/ UNCHANGED messages
<1>0. TypeOK /\ Shape(r)
  OBVIOUS
<1>1. CASE Start(r)
  BY <1>0, <1>1 DEF Start, TypeOK
<1>2. CASE PutTask(r) \/ PutPlan(r) \/ PutEvidence(r) \/ PutCodeResult(r)
  <2>1. PICK k \in Kinds, parents \in SUBSET Kinds : Put(r, k, parents) /\
               \E source \in Parties, target \in Parties :
                  Say(r, Msg("STATE_REF", source, target, "", {k}))
    <3>1. CASE PutTask(r)
      BY <3>1 DEF PutTask, Kinds, Parties, Agents
    <3>2. CASE PutPlan(r)
      BY <3>2 DEF PutPlan, Kinds, Parties, Agents, NextAgent
    <3>3. CASE PutEvidence(r)
      BY <3>3 DEF PutEvidence, Kinds, Parties, Agents
    <3>4. CASE PutCodeResult(r)
      BY <3>4 DEF PutCodeResult, Kinds, Parties, Agents, Present
    <3> QED
      BY <1>2, <3>1, <3>2, <3>3, <3>4
  <2>2. PICK source \in Parties, target \in Parties :
                Say(r, Msg("STATE_REF", source, target, "", {k}))
    BY <2>1
  <2> DEFINE m == Msg("STATE_REF", source, target, "", {k})
  <2>3. m \in Message /\ m.refs = {k} /\ m.type = "STATE_REF"
    BY DEF Msg, Message, MsgTypes
  <2>4. messages' = [messages EXCEPT ![r] = Append(@, m)]
    BY <2>2 DEF Say
  <2> HIDE DEF m
  <2>5. Fresh(r, m)
    <3>1. k \in Made(r)'
      BY <1>0, <2>1, PutAdds
    <3> QED
      BY <2>3, <3>1 DEF Fresh
  <2>6. pc[r] \notin Stages
    BY <1>2 DEF PutTask, PutPlan, PutEvidence, PutCodeResult, Stages
  <2> QED
    BY <2>3, <2>4, <2>5, <2>6 DEF Says, Spoken
<1>3. CASE Invoke(r)
  <2>1. /\ pc[r] \in Stages /\ SourceOf(r) \in Parties /\ RefsOf(r) \subseteq Made(r)
        /\ RefsOf(r) \in SUBSET Kinds
    BY <1>0, <1>3, InvokeIs, RefsAreKinds DEF Invoke
  <2>2. /\ "INVOKE" \in MsgTypes /\ ActionOf[pc[r]] \in Actions \cup {""}
        /\ AgentOf[pc[r]] \in Parties
    BY <2>1, Constants DEF MsgTypes
  <2> DEFINE m == Msg("INVOKE", SourceOf(r), AgentOf[pc[r]], ActionOf[pc[r]], RefsOf(r))
  <2>3. m \in Message /\ m.refs = RefsOf(r) /\ m.type = "INVOKE"
    BY <2>1, <2>2 DEF Msg, Message
  <2>4. messages' = [messages EXCEPT ![r] = Append(@, m)]
    BY <1>3 DEF Invoke, Say
  <2>5. Spoken(r, m)
    BY <1>3 DEF Spoken
  <2> HIDE DEF m
  <2>6. Made(r)' = Made(r)
    BY <1>3 DEF Invoke, Made, Present, Has
  <2>7. Fresh(r, m)
    BY <2>1, <2>3, <2>6 DEF Fresh
  <2> QED
    BY <2>3, <2>4, <2>5, <2>7 DEF Says
<1>4. CASE Answer(r)
  <2>1. /\ call[r] \in Call /\ AgentOf[pc[r]] \in Agents /\ ActionOf[pc[r]] \in Actions
        /\ call[r].refs \subseteq Made(r)
    BY <1>0, <1>4, StageIs DEF Answer
  <2>2. /\ "RESULT" \in MsgTypes /\ ActionOf[pc[r]] \in Actions \cup {""}
        /\ AgentOf[pc[r]] \in Parties /\ call[r].source \in Parties
        /\ call[r].refs \in SUBSET Kinds
    BY <2>1, Constants DEF MsgTypes, Call
  <2>3. /\ Reply(r) \in Message /\ Reply(r).refs = call[r].refs /\ Reply(r).type = "RESULT"
    BY <2>2 DEF Reply, Msg, Message
  <2>4. messages' = [messages EXCEPT ![r] = Append(@, Reply(r))]
    BY <1>4 DEF Answer, Say
  <2>5. Made(r)' = Made(r)
    BY <1>4 DEF Answer, Made, Present, Has
  <2>6. Fresh(r, Reply(r))
    BY <2>1, <2>3, <2>5 DEF Fresh
  <2>7. Spoken(r, Reply(r))
    BY <1>4 DEF Spoken
  <2> QED
    BY <2>3, <2>4, <2>6, <2>7 DEF Says
<1>5. CASE AnnounceMemory(r)
  <2>1. /\ "MEMORY_PUT" \in MsgTypes /\ "summarizer" \in Parties /\ "runtime" \in Parties
        /\ Made(r) \in SUBSET Kinds
    BY RefsAreKinds DEF MsgTypes, Parties, Agents
  <2> DEFINE m == Msg("MEMORY_PUT", "summarizer", "runtime", "", Made(r))
  <2>2. m \in Message /\ m.refs = Made(r) /\ m.type = "MEMORY_PUT"
    BY <2>1 DEF Msg, Message
  <2>3. messages' = [messages EXCEPT ![r] = Append(@, m)] /\ pc[r] = "announce"
    BY <1>5 DEF AnnounceMemory, Say
  <2>4. Made(r)' = Made(r)
    BY <1>5 DEF AnnounceMemory, Made, Present, Has
  <2> HIDE DEF m
  <2>5. Fresh(r, m)
    BY <2>2, <2>3, <2>4 DEF Fresh
  <2> QED
    BY <2>2, <2>3, <2>5 DEF Says, Spoken, Stages
<1>6. CASE UNCHANGED messages
  BY <1>6
<1> QED
  BY <1>1, <1>2, <1>3, <1>4, <1>5, <1>6 DEF RunStep, PutRefinedPlan, PutRefinedEvidence,
     PutSummary, RunSandbox, ReadState, SearchMemory, IncrementReuse, LogHits, Select,
     CommitRunMemory, MarkState, CommitGlobalMemory, LogMessage, WriteTrace, Finish, Fail

\* What is said is added at the end.
LEMMA SaidLast ==
    ASSUME TypeOK, NEW r \in Runs, NEW m, Says(r, m)
    PROVE  /\ Len(messages'[r]) = Len(messages[r]) + 1
           /\ DOMAIN messages'[r] = DOMAIN messages[r] \cup {Len(messages[r]) + 1}
           /\ \A n \in DOMAIN messages[r] : messages'[r][n] = messages[r][n]
           /\ messages'[r][Len(messages[r]) + 1] = m
           /\ DOMAIN messages[r] = 1 .. Len(messages[r])
           /\ Len(messages[r]) \in Nat
<1>1. /\ messages[r] \in Seq(Message) /\ m \in Message
      /\ messages' = [messages EXCEPT ![r] = Append(@, m)]
      /\ messages \in [Runs -> Seq(Message)]
  BY DEF TypeOK, Says
<1>2. messages'[r] = Append(messages[r], m)
  BY <1>1
<1> QED
  BY <1>1, <1>2

LEMMA MessageStep ==
    ASSUME TypeOK, NEW r \in Runs, Shape(r), RunStep(r) \/ Fail(r)
    PROVE  Follows(r)
<1>1. CASE Start(r) /\ messages'[r] \in {<<>>, HandshakeMessages}
  BY <1>1, Hello DEF Follows, Fresh, Greetings
<1>2. ASSUME NEW m, Says(r, m) PROVE Follows(r)
  BY <1>2, SaidLast DEF Follows, Says
<1>3. CASE UNCHANGED messages
  BY <1>3 DEF Follows
<1> QED
  BY <1>1, <1>2, <1>3, MessageIs

\* The lineage of a run: what its messages, its states and its unit name is there;
\* the summary descends from all other states;
Lineage(r) ==
    /\ \A n \in DOMAIN messages[r] : messages[r][n].refs \subseteq Made(r)
    /\ \A k \in Made(r) : state[r][k].parents \subseteq Made(r)
    /\ memory[r] # {} => {"task", "plan", "summary"} \subseteq Made(r)
    /\ Has(r, "summary") => state[r]["summary"].parents = Made(r) \ {"summary"}

LEMMA LineageStep ==
    ASSUME TypeOK, NEW r \in Runs, Shape(r), Lineage(r), RunStep(r) \/ Fail(r)
    PROVE  Lineage(r)'
<1>0. TypeOK /\ Shape(r) /\ Lineage(r)
  OBVIOUS
<1>1. /\ Made(r) \subseteq Made(r)'
      /\ \A k \in Made(r)' : state'[r][k].parents \subseteq Made(r)'
      /\ Has(r, "summary")' => state'[r]["summary"].parents = Made(r)' \ {"summary"}
  <2>1. CASE Adds(r)
    <3>1. PICK k \in Kinds, parents \in SUBSET Made(r) :
             /\ Put(r, k, parents) /\ ~Has(r, "summary")
             /\ k = "summary" => parents = Made(r)
      BY <2>1 DEF Adds
    <3>2. /\ state'[r][k].parents = parents
          /\ \A j \in Kinds \ {k} : state'[r][j] = state[r][j]
          /\ Made(r)' = Made(r) \cup {k}
          /\ \A j \in Kinds \ {k} : Has(r, j)' <=> Has(r, j)
      <4>1. parents \in SUBSET Kinds
        BY <3>1, RefsAreKinds
      <4>2. Put(r, k, parents)
        BY <3>1
      <4>3. state'[r][k] = [parents |-> parents, consumers |-> {}, memory |-> FALSE]
        BY <1>0, <4>1, <4>2, PutAdds, ZenonT(30)
      <4>4. /\ \A j \in Kinds \ {k} : state'[r][j] = state[r][j]
            /\ Made(r)' = Made(r) \cup {k}
            /\ \A j \in Kinds \ {k} : Has(r, j)' <=> Has(r, j)
        BY <1>0, <4>1, <4>2, PutAdds, ZenonT(30)
      <4> QED
        BY <4>3, <4>4
    <3>3. \A j \in Made(r)' : state'[r][j].parents \subseteq Made(r)'
      BY <1>0, <3>1, <3>2, RefsAreKinds DEF Lineage
    <3>4. Has(r, "summary")' => k = "summary"
      BY <3>1, <3>2 DEF Kinds
    <3>5. "summary" \notin Made(r)
      BY <3>1 DEF Made, Present
    <3> QED
      BY <3>1, <3>2, <3>3, <3>4, <3>5
  <2>2. CASE Keeps(r)
    <3>1. /\ Made(r)' = Made(r)
          /\ \A k \in Made(r) : state'[r][k].parents = state[r][k].parents
          /\ Has(r, "summary")' <=> "summary" \in Made(r)
      BY <2>2 DEF Keeps, Made, Present, Has, Kinds
    <3>2. "summary" \in Made(r) => Has(r, "summary")
      BY DEF Made, Present
    <3> QED
      BY <1>0, <3>1, <3>2 DEF Lineage
  <2> QED
    BY <1>0, <2>1, <2>2, StateStep
<1>2. \A n \in DOMAIN messages'[r] : messages'[r][n].refs \subseteq Made(r)'
  <2>1. Follows(r)
    BY <1>0, MessageStep
  <2> QED
    BY <1>0, <1>1, <2>1 DEF Follows, Fresh, Lineage
<1>3. memory'[r] # {} => {"task", "plan", "summary"} \subseteq Made(r)'
  <2>1. memory'[r] = memory[r] \/ pc[r] \in {"commit", "mark"}
    BY DEF RunStep, Start, PutTask, PutPlan, PutEvidence, RunSandbox, PutCodeResult,
           PutRefinedPlan, PutRefinedEvidence, PutSummary, Invoke, ReadState, SearchMemory,
           IncrementReuse, LogHits, Answer, Select, CommitRunMemory, MarkState,
           CommitGlobalMemory, AnnounceMemory, LogMessage, WriteTrace, Finish, Fail
  <2>2. pc[r] \in {"commit", "mark"} => {"task", "plan", "summary"} \subseteq Made(r)
    BY <1>0 DEF Shape, Last, Made, Present, Kinds
  <2> QED
    BY <1>0, <1>1, <2>1, <2>2 DEF Lineage
<1> QED
  BY <1>1, <1>2, <1>3 DEF Lineage

\* where the tool has found gaps a new plan is on its way before any summary.
GapsLead(r) ==
    outcome[r].gaps =>
        /\ pc[r] \notin {"start", "put_task", "plan", "put_plan", "search", "put_evidence",
                         "execute", "sandbox"}
        /\ pc[r] = "put_result" => "plan.refine" \in outcome[r].advice
        /\ pc[r] \in {"research", "put_refined_evidence", "summarize", "put_summary"} =>
              Has(r, "refined_plan")
        /\ Has(r, "summary") => Has(r, "refined_plan")

LEMMA Grows ==
    ASSUME TypeOK, NEW r \in Runs, Shape(r), RunStep(r) \/ Fail(r), NEW k \in Kinds, Has(r, k)
    PROVE  Has(r, k)'
<1>1. CASE Adds(r)
  <2>1. PICK j \in Kinds, parents \in SUBSET Made(r) : Put(r, j, parents)
    BY <1>1 DEF Adds
  <2>2. parents \in SUBSET Kinds
    BY RefsAreKinds
  <2> QED
    BY <2>1, <2>2, PutAdds
<1>2. CASE Keeps(r)
  BY <1>2 DEF Keeps, Has
<1> QED
  BY <1>1, <1>2, StateStep

LEMMA GapsStep ==
    ASSUME TypeOK, NEW r \in Runs, Shape(r), GapsLead(r), RunStep(r) \/ Fail(r)
    PROVE  GapsLead(r)'
<1>0. /\ TypeOK /\ Shape(r) /\ GapsLead(r)
      /\ Has(r, "refined_plan") => Has(r, "refined_plan")'
      /\ pc \in [Runs -> PCs]
  BY Grows DEF Kinds, TypeOK
<1>1. CASE PutTask(r) \/ PutPlan(r) \/ PutEvidence(r) \/ PutRefinedEvidence(r)
  <2>1. \E k \in Kinds \ {"summary"}, parents \in SUBSET Kinds : Put(r, k, parents)
    <3>1. CASE PutTask(r)
      BY <3>1 DEF PutTask, Kinds
    <3>2. CASE PutPlan(r)
      BY <3>2 DEF PutPlan, Kinds
    <3>3. CASE PutEvidence(r)
      BY <3>3 DEF PutEvidence, Kinds
    <3>4. CASE PutRefinedEvidence(r)
      BY <3>4 DEF PutRefinedEvidence, Kinds, FeedbackRefs, Present
    <3> QED
      BY <1>1, <3>1, <3>2, <3>3, <3>4
  <2>2. Has(r, "summary")' <=> Has(r, "summary")
    BY <1>0, <2>1, PutAdds DEF Kinds
  <2>3. /\ UNCHANGED outcome
        /\ \/ pc[r] \in {"put_task", "put_plan", "put_evidence"}
           \/ pc[r] = "put_refined_evidence" /\ pc'[r] = "summarize"
    BY <1>0, <1>1 DEF PutTask, PutPlan, PutEvidence, PutRefinedEvidence, Goto
  <2> QED
    BY <1>0, <2>2, <2>3 DEF GapsLead
<1>2. CASE PutCodeResult(r)
  <2>1. /\ UNCHANGED outcome /\ pc[r] = "put_result"
        /\ pc'[r] \in {"replan", "research", "summarize"}
        /\ "plan.refine" \in outcome[r].advice => pc'[r] = "replan"
    BY <1>0, <1>2 DEF PutCodeResult, Goto
  <2>2. Has(r, "summary")' <=> Has(r, "summary")
    <3>1. Put(r, "code_result", Present(r, {"evidence"})) /\ Present(r, {"evidence"}) \in SUBSET Kinds
      BY <1>2 DEF PutCodeResult, Present, Kinds
    <3> QED
      BY <1>0, <3>1, PutAdds DEF Kinds
  <2> QED
    BY <1>0, <2>1, <2>2 DEF GapsLead
<1>3. CASE PutRefinedPlan(r)
  <2>1. Has(r, "refined_plan")'
    <3>1. Put(r, "refined_plan", FeedbackRefs(r)) /\ FeedbackRefs(r) \in SUBSET Kinds
      BY <1>3 DEF PutRefinedPlan, FeedbackRefs, Present, Kinds
    <3> QED
      BY <1>0, <3>1, PutAdds DEF Kinds
  <2>2. pc'[r] \in {"research", "summarize"}
    BY <1>0, <1>3 DEF PutRefinedPlan, Goto
  <2> QED
    BY <2>1, <2>2 DEF GapsLead
<1>4. CASE PutSummary(r)
  <2>1. UNCHANGED outcome /\ pc[r] = "put_summary" /\ pc'[r] = "commit"
    BY <1>0, <1>4 DEF PutSummary, Goto
  <2> QED
    BY <1>0, <2>1 DEF GapsLead
<1>5. CASE RunSandbox(r)
  <2>1. /\ outcome'[r].gaps => "plan.refine" \in outcome'[r].advice
        /\ pc'[r] = "put_result" /\ UNCHANGED state /\ pc[r] = "sandbox"
    <3>1. /\ pc'[r] = "put_result" /\ UNCHANGED state /\ pc[r] = "sandbox"
      BY <1>0, <1>5 DEF RunSandbox, Goto
    <3>2. PICK p \in Printed :
             outcome' = [outcome EXCEPT ![r] = [exit |-> p.exit, gaps |-> task[r].gaps \/ p.gaps,
                                   advice |-> Advice(task[r].gaps \/ p.gaps, p.own)]]
      BY <1>5 DEF RunSandbox
    <3>3. (task[r].gaps \/ p.gaps) => "plan.refine" \in Advice(task[r].gaps \/ p.gaps, p.own)
      BY DEF Advice
    <3>4. /\ outcome'[r].gaps = (task[r].gaps \/ p.gaps)
          /\ outcome'[r].advice = Advice(task[r].gaps \/ p.gaps, p.own)
      BY <1>0, <3>2 DEF TypeOK
    <3> QED
      BY <3>1, <3>3, <3>4
  <2>2. ~Has(r, "summary")'
    BY <1>0, <2>1 DEF Shape, Last, Has
  <2> QED
    BY <2>1, <2>2 DEF GapsLead
<1>6. CASE Invoke(r) \/ ReadState(r) \/ SearchMemory(r) \/ IncrementReuse(r) \/ LogHits(r)
             \/ Answer(r) \/ MarkState(r) \/ LogMessage(r)
  <2>1. UNCHANGED <<pc, outcome>>
    BY <1>6 DEF Invoke, ReadState, SearchMemory, IncrementReuse, LogHits, Answer, MarkState,
                LogMessage
  <2>2. Has(r, "summary")' => Has(r, "summary")
    <3>1. pc[r] # "failed"
      BY <1>0, <1>6 DEF Invoke, ReadState, SearchMemory, IncrementReuse, LogHits, Answer,
         MarkState, LogMessage, Shape, Stages
    <3>2. Shape(r)'
      BY <1>0, TypeStep
    <3>3. Has(r, "summary")' => pc[r] \in Last
      BY <2>1, <3>1, <3>2 DEF Shape
    <3> QED
      BY <1>0, <3>3 DEF Shape
  <2> QED
    BY <1>0, <2>1, <2>2 DEF GapsLead
<1>7. CASE Select(r)
  <2>1. pc'[r] = AfterCall[pc[r]] /\ pc[r] \in Stages /\ UNCHANGED <<outcome, state>>
    BY <1>0, <1>7, StageIs DEF Select, Goto
  <2>2. \/ pc[r] \in {"plan", "search", "execute"}
        \/ pc[r] = "replan" /\ pc'[r] = "put_refined_plan"
        \/ pc[r] = "research" /\ pc'[r] = "put_refined_evidence"
        \/ pc[r] = "summarize" /\ pc'[r] = "put_summary"
    BY <2>1 DEF Stages, AfterCall
  <2> QED
    BY <1>0, <2>1, <2>2 DEF GapsLead, Has
<1>8. CASE Start(r)
  <2>1. pc[r] = "start" /\ UNCHANGED <<outcome, state>>
    BY <1>8 DEF Start
  <2> QED
    BY <1>0, <2>1 DEF GapsLead, Has
<1>9. CASE CommitRunMemory(r) \/ CommitGlobalMemory(r) \/ AnnounceMemory(r) \/ WriteTrace(r)
             \/ Finish(r) \/ Fail(r)
  <2>1. pc'[r] \in Last \cup {"failed"} /\ UNCHANGED <<outcome, state>>
    BY <1>0, <1>9 DEF CommitRunMemory, CommitGlobalMemory, AnnounceMemory, WriteTrace, Finish,
                      Fail, Goto, Last
  <2> QED
    BY <1>0, <2>1 DEF GapsLead, Has, Last
<1> QED
  BY <1>1, <1>2, <1>3, <1>4, <1>5, <1>6, <1>7, <1>8, <1>9 DEF RunStep

LEMMA LineageInvariant ==
    Spec => [](TypeInv /\ \A r \in Runs : Lineage(r) /\ GapsLead(r))
<1> DEFINE Inv == \A r \in Runs : Lineage(r) /\ GapsLead(r)
<1>1. Init => Inv
  <2> SUFFICES ASSUME Init, NEW r \in Runs PROVE Lineage(r) /\ GapsLead(r)
    OBVIOUS
  <2>1. /\ \A k \in Kinds : ~Has(r, k) /\ messages[r] = <<>> /\ ~outcome[r].gaps
        /\ memory[r] = {}
    BY Constants, RunsAssumption DEF Init, Has
  <2>2. "summary" \in Kinds /\ ~outcome[r].gaps /\ messages[r] = <<>>
    BY <2>1 DEF Kinds
  <2> QED
    BY <2>1, <2>2 DEF Lineage, GapsLead, Made, Present
<1>2. TypeInv /\ Inv /\ [Next]_vars => Inv'
  <2> SUFFICES ASSUME TypeInv, Inv, [Next]_vars, NEW q \in Runs
               PROVE  Lineage(q)' /\ GapsLead(q)'
    OBVIOUS
  <2>1. CASE Own(q)' = Own(q)
    BY <2>1 DEF Own, Lineage, GapsLead, Made, Present, Has
  <2>2. CASE Next
    <3>1. PICK r \in Runs : RunStep(r) \/ Fail(r)
      BY <2>2 DEF Next
    <3>2. CASE q = r
      BY <3>1, <3>2, LineageStep, GapsStep DEF TypeInv
    <3>3. CASE q # r
      BY <2>1, <3>1, <3>3, OthersStay DEF TypeInv
    <3> QED
      BY <3>2, <3>3
  <2>3. CASE UNCHANGED vars
    BY <2>1, <2>3 DEF Own, vars
  <2> QED
    BY <2>2, <2>3
<1> QED
  BY <1>1, <1>2, TypeInvariant, PTL DEF Spec

\* No message, no parent link and no stored unit ever names a state its run has
\* not put: what the refs of every prompt are filtered for.
THEOREM RefsAreThere == Spec => []NoDanglingRefs
<1>1. (\A r \in Runs : Lineage(r)) => NoDanglingRefs
  BY DEF Lineage, NoDanglingRefs
<1>2. TypeInv /\ (\A r \in Runs : Lineage(r) /\ GapsLead(r)) => NoDanglingRefs
  BY <1>1
<1> QED
  BY <1>2, LineageInvariant, PTL

\* The summary descends from all other states of its run, whatever the planner
\* decided and the tool printed, and from a new plan where the tool found gaps.
THEOREM SummaryIsOfAll == Spec => []SummaryCovers
<1>1. TypeInv /\ (\A r \in Runs : Lineage(r) /\ GapsLead(r)) => SummaryCovers
  BY DEF Lineage, GapsLead, SummaryCovers
<1> QED
  BY <1>1, LineageInvariant, PTL

-----------------------------------------------------------------------------
(* The unit, its marks and its announcement.                                *)

Announced(r) == \E n \in DOMAIN messages[r] : messages[r][n].type = "MEMORY_PUT"
Marked(r) == {k \in Made(r) : state[r][k].memory}

\* Up to its commit a run has no unit, no mark and no announcement; then they
\* come in this order, and only what has failed may stop between them.
Marks(r) ==
    /\ pc[r] \notin {"mark", "announce", "log", "close", "done", "failed"} =>
          memory[r] = {} /\ Marked(r) = {} /\ ~Announced(r)
    /\ pc[r] = "mark" => memory[r] = {"run"} /\ ~Announced(r)
    /\ pc[r] = "announce" => "run" \in memory[r] /\ Unmarked(r) = {} /\ ~Announced(r)
    /\ pc[r] \in {"log", "close", "done"} /\ memory[r] # {} => Announced(r)
    /\ Marked(r) # {} => "run" \in memory[r]
    /\ "global" \in memory[r] => outcome[r].exit \notin {"error", "timeout"}
    /\ "global" \in memory[r] \/ Announced(r) => "run" \in memory[r] /\ Unmarked(r) = {}

\* The steps up to the summary mark nothing.
LEMMA MarksNothing ==
    ASSUME TypeOK, NEW r \in Runs, Shape(r), Marked(r) = {}, RunStep(r) \/ Fail(r),
           pc[r] # "mark"
    PROVE  Marked(r)' = {}
<1>0. TypeOK /\ Shape(r) /\ Marked(r) = {}
  OBVIOUS
<1>1. CASE Adds(r)
  <2>1. PICK j \in Kinds, parents \in SUBSET Made(r) : Put(r, j, parents)
    BY <1>1 DEF Adds
  <2>2. parents \in SUBSET Kinds
    BY RefsAreKinds
  <2>3. /\ state'[r][j] = [parents |-> parents, consumers |-> {}, memory |-> FALSE]
        /\ \A k \in Kinds \ {j} : state'[r][k] = state[r][k]
        /\ Made(r)' = Made(r) \cup {j}
    BY <1>0, <2>1, <2>2, PutAdds, ZenonT(30)
  <2>4. ~state'[r][j].memory
    BY <2>3
  <2> QED
    BY <1>0, <2>3, <2>4, RefsAreKinds DEF Marked
<1>2. CASE ReadState(r)
  <2>1. PICK k \in call[r].unread :
          state' = [state EXCEPT ![r][k].consumers = @ \cup {AgentOf[pc[r]]}]
    BY <1>2 DEF ReadState
  <2>2. k \in Made(r)
    BY <1>0, <1>2, <2>1, StageIs DEF ReadState
  <2>3. k \in Kinds /\ state[r][k] \in Entry
    BY <1>0, <2>2 DEF Made, Present, Has, TypeOK
  <2> DEFINE entry == [state[r][k] EXCEPT !.consumers = @ \cup {AgentOf[pc[r]]}]
  <2>4. entry.memory = state[r][k].memory
    BY <2>3 DEF Entry
  <2>5. state' = [state EXCEPT ![r][k] = entry]
    BY <2>1
  <2>6. state \in [Runs -> [Kinds -> Entry \cup {None}]]
    BY <1>0 DEF TypeOK
  <2> HIDE DEF entry
  <2>7. \A j \in Kinds : state'[r][j] = IF j = k THEN entry ELSE state[r][j]
    BY <2>3, <2>5, <2>6
  <2>8. ~state[r][k].memory
    BY <1>0, <2>2 DEF Marked
  <2> QED
    BY <1>0, <2>2, <2>4, <2>7, <2>8 DEF Marked, Made, Present, Has
<1>3. CASE UNCHANGED state
  BY <1>0, <1>3 DEF Marked, Made, Present, Has
<1>4. Adds(r) \/ ReadState(r) \/ UNCHANGED state
  <2>1. CASE PutTask(r) \/ PutPlan(r) \/ PutEvidence(r) \/ PutCodeResult(r)
               \/ PutRefinedPlan(r) \/ PutRefinedEvidence(r) \/ PutSummary(r)
    <3>1. Adds(r)
      BY <2>1, PutIsAdd
    <3> QED
      BY <3>1
  <2>2. ~MarkState(r)
    BY DEF MarkState
  <2> QED
    BY <2>1, <2>2 DEF RunStep, Start, RunSandbox, Invoke, SearchMemory, IncrementReuse,
       LogHits, Answer, Select, CommitRunMemory, CommitGlobalMemory, AnnounceMemory, LogMessage,
       WriteTrace, Finish, Fail
<1> QED
  BY <1>1, <1>2, <1>3, <1>4

LEMMA MarksStep ==
    ASSUME TypeOK, NEW r \in Runs, Shape(r), Marks(r), RunStep(r) \/ Fail(r)
    PROVE  Marks(r)'
<1>0. /\ TypeOK /\ Shape(r) /\ Marks(r) /\ pc \in [Runs -> PCs] /\ r \in Units
      /\ memory \in [Units -> SUBSET {"run", "global"}]
  BY Constants DEF TypeOK
<1>1. CASE pc[r] \notin {"commit", "mark", "announce", "log", "close", "done", "failed"}
  <2>1. memory[r] = {} /\ Marked(r) = {} /\ ~Announced(r)
    BY <1>0, <1>1 DEF Marks
  <2>2. Marked(r)' = {}
    BY <1>0, <1>1, <2>1, MarksNothing
  <2>3. ~Announced(r)'
    BY <1>0, <1>1, <2>1, MessageStep DEF Announced, Follows, Fresh
  <2>4. /\ memory'[r] = memory[r]
        /\ pc'[r] \notin {"mark", "announce", "log", "close", "done"}
    <3>1. CASE Start(r) \/ PutTask(r) \/ PutPlan(r) \/ PutEvidence(r) \/ RunSandbox(r)
               \/ PutCodeResult(r) \/ PutRefinedPlan(r) \/ PutRefinedEvidence(r) \/ PutSummary(r)
      BY <1>0, <3>1 DEF Start, PutTask, PutPlan, PutEvidence, RunSandbox, PutCodeResult,
         PutRefinedPlan, PutRefinedEvidence, PutSummary, Goto, StageAfterPlan
    <3>2. CASE Invoke(r) \/ ReadState(r) \/ SearchMemory(r) \/ IncrementReuse(r) \/ LogHits(r)
               \/ Answer(r)
      BY <1>0, <1>1, <3>2 DEF Invoke, ReadState, SearchMemory, IncrementReuse, LogHits, Answer
    <3>3. CASE Select(r)
      <4>1. pc'[r] = AfterCall[pc[r]] /\ pc[r] \in Stages /\ UNCHANGED memory
        BY <1>0, <3>3, StageIs DEF Select, Goto
      <4> QED
        BY <4>1 DEF Stages, AfterCall
    <3>4. CASE Fail(r)
      BY <1>0, <3>4 DEF Fail, Goto
    <3> QED
      BY <1>1, <3>1, <3>2, <3>3, <3>4 DEF RunStep, CommitRunMemory, MarkState,
         CommitGlobalMemory, AnnounceMemory, LogMessage, WriteTrace, Finish
  <2> QED
    BY <2>1, <2>2, <2>3, <2>4 DEF Marks
<1>2. CASE CommitRunMemory(r)
  <2>1. /\ pc[r] = "commit" /\ memory[r] = {} /\ Marked(r) = {} /\ ~Announced(r)
        /\ UNCHANGED <<state, messages, outcome>>
    BY <1>0, <1>2 DEF CommitRunMemory, Marks
  <2>2. \/ memory'[r] = {"run"} /\ pc'[r] = "mark"
        \/ memory'[r] = {} /\ pc'[r] = "log"
    <3>1. CASE memory' = [memory EXCEPT ![r] = @ \cup {"run"}] /\ Goto(r, "mark")
      BY <1>0, <2>1, <3>1 DEF Goto
    <3>2. CASE UNCHANGED memory /\ Goto(r, "log")
      BY <1>0, <2>1, <3>2 DEF Goto
    <3> QED
      BY <1>2, <3>1, <3>2 DEF CommitRunMemory
  <2>3. Marked(r)' = {} /\ ~Announced(r)'
    BY <2>1 DEF Marked, Made, Present, Has, Announced
  <2> QED
    BY <2>2, <2>3 DEF Marks
<1>3. CASE MarkState(r)
  <2>1. /\ pc[r] = "mark" /\ memory[r] = {"run"} /\ ~Announced(r)
        /\ UNCHANGED <<pc, memory, messages, outcome>>
    BY <1>0, <1>3 DEF MarkState, Marks
  <2>2. ~Announced(r)' /\ pc'[r] = "mark" /\ memory'[r] = {"run"}
    BY <2>1 DEF Announced
  <2> QED
    BY <2>2 DEF Marks
<1>4. CASE CommitGlobalMemory(r)
  <2>1. /\ pc[r] = "mark" /\ memory[r] = {"run"} /\ ~Announced(r) /\ Unmarked(r) = {}
        /\ UNCHANGED <<state, messages, outcome>> /\ pc'[r] = "announce"
    BY <1>0, <1>4 DEF CommitGlobalMemory, Marks, Goto
  <2>2. /\ "run" \in memory'[r]
        /\ "global" \in memory'[r] => outcome[r].exit \notin {"error", "timeout"}
    <3>1. CASE LongTerm(r) /\ memory' = [memory EXCEPT ![r] = @ \cup {"global"}]
      BY <1>0, <2>1, <3>1 DEF LongTerm, Valid
    <3>2. CASE UNCHANGED memory
      BY <2>1, <3>2
    <3> QED
      BY <1>4, <3>1, <3>2 DEF CommitGlobalMemory
  <2>3. Unmarked(r)' = {} /\ ~Announced(r)'
    BY <2>1 DEF Unmarked, Made, Present, Has, Announced
  <2> QED
    BY <2>1, <2>2, <2>3 DEF Marks
<1>5. CASE AnnounceMemory(r)
  <2>1. /\ pc[r] = "announce" /\ "run" \in memory[r] /\ Unmarked(r) = {}
        /\ UNCHANGED <<state, memory, outcome>> /\ pc'[r] = "log"
    BY <1>0, <1>5 DEF AnnounceMemory, Marks, Goto
  <2>2. Announced(r)'
    <3> DEFINE m == Msg("MEMORY_PUT", "summarizer", "runtime", "", Made(r))
    <3>1. m.type = "MEMORY_PUT"
      BY DEF Msg
    <3>2. messages'[r] = Append(messages[r], m) /\ messages[r] \in Seq(Message)
      BY <1>0, <1>5 DEF AnnounceMemory, Say, TypeOK
    <3> HIDE DEF m
    <3>3. Len(messages[r]) + 1 \in DOMAIN messages'[r]
          /\ messages'[r][Len(messages[r]) + 1] = m
      BY <3>2
    <3> QED
      BY <3>1, <3>3 DEF Announced
  <2>3. Unmarked(r)' = {} /\ Marked(r)' = Marked(r)
    BY <2>1 DEF Unmarked, Marked, Made, Present, Has
  <2> QED
    BY <1>0, <2>1, <2>2, <2>3 DEF Marks
<1>6. CASE LogMessage(r) \/ WriteTrace(r) \/ Finish(r) \/ Fail(r)
  <2>1. /\ UNCHANGED <<state, memory, messages, outcome>>
        /\ \/ pc[r] \in {"log", "close"} /\ pc'[r] \in {"log", "close", "done"}
           \/ pc'[r] = "failed"
    BY <1>0, <1>6 DEF LogMessage, WriteTrace, Finish, Fail, Goto
  <2>2. /\ Unmarked(r)' = Unmarked(r) /\ Marked(r)' = Marked(r)
        /\ Announced(r)' <=> Announced(r)
    BY <2>1 DEF Unmarked, Marked, Made, Present, Has, Announced
  <2> QED
    BY <1>0, <2>1, <2>2 DEF Marks
<1>7. pc[r] \in {"commit", "mark", "announce", "log", "close", "done", "failed"} =>
        \/ CommitRunMemory(r) \/ MarkState(r) \/ CommitGlobalMemory(r) \/ AnnounceMemory(r)
        \/ LogMessage(r) \/ WriteTrace(r) \/ Finish(r) \/ Fail(r)
  BY <1>0 DEF RunStep, Start, PutTask, PutPlan, PutEvidence, RunSandbox, PutCodeResult,
     PutRefinedPlan, PutRefinedEvidence, PutSummary, Invoke, ReadState, SearchMemory,
     IncrementReuse, LogHits, Answer, Select, Shape, Stages
<1> QED
  BY <1>1, <1>2, <1>3, <1>4, <1>5, <1>6, <1>7

LEMMA MarksInvariant == Spec => []((\A r \in Runs : Marks(r)))
<1> DEFINE Inv == \A r \in Runs : Marks(r)
<1>1. Init => Inv
  <2> SUFFICES ASSUME Init, NEW r \in Runs PROVE Marks(r)
    OBVIOUS
  <2>1. /\ \A k \in Kinds : ~Has(r, k)
        /\ messages[r] = <<>> /\ memory[r] = {} /\ pc[r] = "start"
    BY Constants, RunsAssumption DEF Init, Has
  <2> QED
    BY <2>1 DEF Marks, Marked, Unmarked, Announced, Made, Present
<1>2. TypeInv /\ Inv /\ [Next]_vars => Inv'
  <2> SUFFICES ASSUME TypeInv, Inv, [Next]_vars, NEW q \in Runs
               PROVE  Marks(q)'
    OBVIOUS
  <2>1. CASE Own(q)' = Own(q)
    BY <2>1 DEF Own, Marks, Marked, Unmarked, Announced, Made, Present, Has
  <2>2. CASE Next
    <3>1. PICK r \in Runs : RunStep(r) \/ Fail(r)
      BY <2>2 DEF Next
    <3>2. CASE q = r
      BY <3>1, <3>2, MarksStep DEF TypeInv
    <3>3. CASE q # r
      BY <2>1, <3>1, <3>3, OthersStay DEF TypeInv
    <3> QED
      BY <3>2, <3>3
  <2>3. CASE UNCHANGED vars
    BY <2>1, <2>3 DEF Own, vars
  <2> QED
    BY <2>2, <2>3
<1> QED
  BY <1>1, <1>2, TypeInvariant, PTL DEF Spec

\* A state is marked only for a unit that is stored, only a run whose tool did
\* not fail reaches the long-term memory, with all its states marked, and a run
\* that ends well has announced the unit it has stored, and no other.
THEOREM MarksFollow == Spec => []MarkFollowsUnit
<1>1. (\A r \in Runs : Marks(r)) => MarkFollowsUnit
  BY DEF Marks, Marked, Announced, MarkFollowsUnit
<1> QED
  BY <1>1, MarksInvariant, PTL

-----------------------------------------------------------------------------
(* The route.                                                               *)

Asked(r) == {messages[r][n].action : n \in Invocations(r)}

\* What a run has asked for before the stage it is in.
Done(r) == IF call[r] = None THEN Asked(r) ELSE Asked(r) \ {ActionOf[pc[r]]}

Planned == {"plan.create"}
Searched == Planned \cup {"memory.semantic_search"}
Executed == Planned \cup {"tool.run_python"}
Replanned == Executed \cup {"memory.semantic_search", "plan.refine"}

\* What each stage may find asked for.
AskedFits(r) ==
    /\ call[r] # None => ActionOf[pc[r]] \in Asked(r)
    /\ pc[r] \in {"start", "put_task", "plan"} => Done(r) = {}
    /\ pc[r] \in {"put_plan", "search"} => Done(r) = Planned
    /\ pc[r] = "put_evidence" => Done(r) = Searched
    /\ pc[r] = "execute" => Done(r) \in {Planned, Searched}
    /\ pc[r] \in {"sandbox", "put_result", "replan"} =>
          Executed \subseteq Done(r) /\ Done(r) \subseteq Executed \cup Searched
    /\ pc[r] \in {"put_refined_plan", "research"} =>
          Executed \subseteq Done(r) /\ Done(r) \subseteq Replanned
    /\ pc[r] \in {"put_refined_evidence", "summarize"} =>
          Planned \subseteq Done(r) /\ "summary.create" \notin Done(r)
    /\ pc[r] \in Last \cup {"put_summary"} => "summary.create" \in Done(r)

\* An invocation leaves a call.
LEMMA InvokeCalls ==
    ASSUME TypeOK, NEW r \in Runs, Shape(r), Invoke(r)
    PROVE  call'[r] # None
<1> DEFINE c == [source |-> SourceOf(r), refs |-> RefsOf(r),
                 unread |-> IF ReadsStates(r) THEN RefsOf(r) ELSE {},
                 unbumped |-> {}, unlogged |-> {}, searched |-> FALSE, answered |-> FALSE]
<1>1. SourceOf(r) \in Parties /\ RefsOf(r) \subseteq Kinds
  BY InvokeIs, RefsAreKinds DEF Invoke
<1>2. c \in Call
  BY <1>1 DEF Call
<1>3. call' = [call EXCEPT ![r] = c] /\ call \in [Runs -> Call \cup {None}]
  BY DEF Invoke, TypeOK
<1> HIDE DEF c
<1> QED
  BY <1>2, <1>3, NoneIsNoCall

\* An invocation asks for one more capability; nothing else does, but that a
\* run forgets at its start what it cannot have said.
LEMMA AskStep ==
    ASSUME TypeOK, NEW r \in Runs, Shape(r), AskedFits(r), RunStep(r) \/ Fail(r)
    PROVE  Asked(r)' = IF Invoke(r) THEN Asked(r) \cup {ActionOf[pc[r]]} ELSE Asked(r)
<1>0. TypeOK /\ Shape(r) /\ AskedFits(r)
  OBVIOUS
<1>1. CASE Start(r) /\ messages'[r] \in {<<>>, HandshakeMessages}
  <2>1. Asked(r)' = {}
    BY <1>1, Hello DEF Asked, Invocations, Greetings
  <2>2. pc[r] = "start"
    BY <1>1 DEF Start
  <2>3. call[r] = None /\ ~Invoke(r)
    BY <1>0, <2>2 DEF Shape, Invoke, Stages
  <2>4. Asked(r) = {}
    BY <1>0, <2>2, <2>3 DEF AskedFits, Done
  <2> QED
    BY <2>1, <2>3, <2>4
<1>2. ASSUME NEW m, Says(r, m)
      PROVE  Asked(r)' = IF Invoke(r) THEN Asked(r) \cup {ActionOf[pc[r]]} ELSE Asked(r)
  <2> DEFINE last == Len(messages[r]) + 1
  <2>1. /\ DOMAIN messages'[r] = DOMAIN messages[r] \cup {last}
        /\ \A n \in DOMAIN messages[r] : messages'[r][n] = messages[r][n]
        /\ messages'[r][last] = m /\ last \notin DOMAIN messages[r]
    BY <1>0, <1>2, SaidLast
  <2> HIDE DEF last
  <2>2. Asked(r)' = Asked(r) \cup (IF m.type = "INVOKE" THEN {m.action} ELSE {})
    <3>1. Invocations(r)' = Invocations(r) \cup (IF m.type = "INVOKE" THEN {last} ELSE {})
      BY <2>1 DEF Invocations
    <3> QED
      BY <2>1, <3>1 DEF Asked, Invocations
  <2>3. \/ Invoke(r) /\ m.type = "INVOKE" /\ m.action = ActionOf[pc[r]]
        \/ Answer(r) /\ ~Invoke(r) /\ m.type = "RESULT"
        \/ ~Invoke(r) /\ m.type \in {"STATE_REF", "MEMORY_PUT"}
    BY <1>2 DEF Says, Spoken, Reply, Msg, Invoke, Answer
  <2> QED
    BY <2>2, <2>3
<1>3. CASE UNCHANGED messages
  <2>1. ~Invoke(r)
    <3>1. SUFFICES ASSUME Invoke(r) PROVE FALSE
      OBVIOUS
    <3>2. Len(messages'[r]) = Len(messages[r]) + 1
      BY <1>0, <3>1 DEF Invoke, Say, TypeOK
    <3>3. Len(messages[r]) \in Nat
      BY <1>0 DEF TypeOK
    <3> QED
      BY <1>3, <3>2, <3>3
  <2> QED
    BY <1>3, <2>1 DEF Asked, Invocations
<1> QED
  BY <1>0, <1>1, <1>2, <1>3, MessageIs

\* Where a step between two calls leads.
Moves(r) ==
    \/ pc[r] = "start" /\ pc'[r] = "put_task"
    \/ pc[r] = "put_task" /\ pc'[r] = "plan"
    \/ pc[r] = "put_plan" /\ pc'[r] \in {"search", "execute", "summarize"}
    \/ pc[r] = "put_evidence" /\ pc'[r] \in {"execute", "summarize"}
    \/ pc[r] = "sandbox" /\ pc'[r] = "put_result"
    \/ pc[r] = "put_result" /\ pc'[r] \in {"replan", "research", "summarize"}
    \/ pc[r] = "put_refined_plan" /\ pc'[r] \in {"research", "summarize"}
    \/ pc[r] = "put_refined_evidence" /\ pc'[r] = "summarize"
    \/ pc[r] = "put_summary" /\ pc'[r] = "commit"
    \/ pc[r] \in Last \ {"done"} /\ pc'[r] \in Last \ {"commit"}
         /\ (pc'[r] = "done" <=> pc[r] = "close")

\* A step makes a call, goes on with one, ends one, lies between two, or fails.
LEMMA StepsAre ==
    ASSUME TypeOK, NEW r \in Runs, Shape(r), RunStep(r) \/ Fail(r)
    PROVE  \/ Invoke(r)
           \/ UNCHANGED pc /\ call'[r] # None /\ call[r] # None /\ ~Invoke(r)
           \/ Select(r)
           \/ pc[r] \notin Stages /\ call[r] = None /\ call'[r] = None /\ Moves(r)
           \/ Fail(r)
<1>0. /\ TypeOK /\ Shape(r)
      /\ pc \in [Runs -> PCs] /\ call \in [Runs -> Call \cup {None}]
      /\ pc[r] \notin Stages => call[r] = None
  BY DEF TypeOK, Shape
<1>1. CASE ReadState(r) \/ SearchMemory(r) \/ IncrementReuse(r) \/ LogHits(r) \/ Answer(r)
  <2>1. UNCHANGED pc /\ call[r] # None
    BY <1>1 DEF ReadState, SearchMemory, IncrementReuse, LogHits, Answer
  <2>2. ~Invoke(r)
    BY <2>1 DEF Invoke
  <2>3. call'[r] # None
    <3>1. call[r] \in Call
      BY <1>0, <2>1
    <3>2. \E c \in Call : call' = [call EXCEPT ![r] = c]
      <4>1. CASE ReadState(r)
        <5>1. PICK k : call' = [call EXCEPT ![r].unread = @ \ {k}]
          BY <4>1 DEF ReadState
        <5> QED
          BY <3>1, <5>1 DEF Call
      <4>2. CASE SearchMemory(r)
        <5>1. PICK H \in SUBSET Stored :
                 call' = [call EXCEPT ![r].searched = TRUE, ![r].unbumped = H, ![r].unlogged = H]
          BY <4>2 DEF SearchMemory
        <5> DEFINE c == [call[r] EXCEPT !.searched = TRUE, !.unbumped = H, !.unlogged = H]
        <5>2. c \in Call
          BY <3>1 DEF Call, Stored
        <5>3. call' = [call EXCEPT ![r] = c]
          BY <1>0, <5>1
        <5> QED
          BY <5>2, <5>3
      <4>3. CASE IncrementReuse(r)
        <5>1. PICK u : call' = [call EXCEPT ![r].unbumped = @ \ {u}]
          BY <4>3 DEF IncrementReuse
        <5> QED
          BY <3>1, <5>1 DEF Call
      <4>4. CASE LogHits(r)
        BY <3>1, <4>4 DEF LogHits, Call
      <4>5. CASE Answer(r)
        BY <3>1, <4>5 DEF Answer, Call
      <4> QED
        BY <1>1, <4>1, <4>2, <4>3, <4>4, <4>5
    <3> QED
      BY <1>0, <3>2, NoneIsNoCall
  <2> QED
    BY <2>1, <2>2, <2>3
<1>2. CASE Start(r) \/ PutTask(r) \/ PutPlan(r) \/ PutEvidence(r) \/ RunSandbox(r)
             \/ PutCodeResult(r) \/ PutRefinedPlan(r) \/ PutRefinedEvidence(r) \/ PutSummary(r)
  <2>1. UNCHANGED call /\ pc[r] \notin Stages
    BY <1>2 DEF Start, PutTask, PutPlan, PutEvidence, RunSandbox, PutCodeResult, PutRefinedPlan,
       PutRefinedEvidence, PutSummary, Stages
  <2>2. Moves(r)
    BY <1>0, <1>2 DEF Start, PutTask, PutPlan, PutEvidence, RunSandbox, PutCodeResult,
       PutRefinedPlan, PutRefinedEvidence, PutSummary, Goto, StageAfterPlan, Moves
  <2> QED
    BY <1>0, <2>1, <2>2
<1>3. CASE CommitRunMemory(r) \/ MarkState(r) \/ CommitGlobalMemory(r) \/ AnnounceMemory(r)
             \/ LogMessage(r) \/ WriteTrace(r) \/ Finish(r)
  <2>1. UNCHANGED call /\ pc[r] \notin Stages
    BY <1>3 DEF CommitRunMemory, MarkState, CommitGlobalMemory, AnnounceMemory, LogMessage,
       WriteTrace, Finish, Stages
  <2>2. Moves(r)
    BY <1>0, <1>3 DEF CommitRunMemory, MarkState, CommitGlobalMemory, AnnounceMemory, LogMessage,
       WriteTrace, Finish, Goto, Moves, Last
  <2> QED
    BY <1>0, <2>1, <2>2
<1> QED
  BY <1>1, <1>2, <1>3 DEF RunStep

LEMMA FitsStep ==
    ASSUME TypeOK, NEW r \in Runs, Shape(r), AskedFits(r), RunStep(r) \/ Fail(r)
    PROVE  AskedFits(r)'
<1>0. /\ TypeOK /\ Shape(r) /\ AskedFits(r)
      /\ pc \in [Runs -> PCs] /\ call \in [Runs -> Call \cup {None}]
  BY DEF TypeOK
<1>1. CASE Invoke(r)
  <2>1. /\ Asked(r)' = Asked(r) \cup {ActionOf[pc[r]]} /\ UNCHANGED pc
        /\ call[r] = None /\ pc[r] \in Stages
    BY <1>0, <1>1, AskStep DEF Invoke
  <2>2. ActionOf[pc[r]] \notin Asked(r)
    BY <1>0, <2>1 DEF AskedFits, Done, Stages, ActionOf, Planned, Searched, Executed, Replanned
  <2>3. call'[r] # None
    BY <1>0, <1>1, InvokeCalls
  <2>4. Done(r)' = Done(r)
    BY <2>1, <2>2, <2>3 DEF Done
  <2> QED
    BY <1>0, <2>1, <2>4 DEF AskedFits
<1>2. CASE Select(r)
  <2>1. /\ pc[r] \in Stages /\ call[r] # None /\ call'[r] = None /\ pc'[r] = AfterCall[pc[r]]
    BY <1>0, <1>2, StageIs DEF Select, Goto
  <2>2. Asked(r)' = Asked(r)
    BY <1>0, <1>2, <2>1, AskStep DEF Invoke
  <2>3. Done(r)' = Done(r) \cup {ActionOf[pc[r]]} /\ call'[r] = None
    BY <1>0, <2>1, <2>2 DEF Done, AskedFits
  <2>4. \/ pc[r] = "plan" /\ pc'[r] = "put_plan" /\ Done(r)' = Done(r) \cup {"plan.create"}
        \/ pc[r] = "search" /\ pc'[r] = "put_evidence"
             /\ Done(r)' = Done(r) \cup {"memory.semantic_search"}
        \/ pc[r] = "execute" /\ pc'[r] = "sandbox" /\ Done(r)' = Done(r) \cup {"tool.run_python"}
        \/ pc[r] = "replan" /\ pc'[r] = "put_refined_plan"
             /\ Done(r)' = Done(r) \cup {"plan.refine"}
        \/ pc[r] = "research" /\ pc'[r] = "put_refined_evidence"
             /\ Done(r)' = Done(r) \cup {"evidence.refine"}
        \/ pc[r] = "summarize" /\ pc'[r] = "put_summary"
             /\ Done(r)' = Done(r) \cup {"summary.create"}
    BY <2>1, <2>3 DEF Stages, AfterCall, ActionOf
  <2> QED
    BY <1>0, <2>3, <2>4 DEF AskedFits, Planned, Searched, Executed, Replanned, Last
<1>3. CASE UNCHANGED pc /\ call'[r] # None /\ call[r] # None /\ ~Invoke(r)
  <2>1. Asked(r)' = Asked(r)
    BY <1>0, <1>3, AskStep
  <2>2. Done(r)' = Done(r)
    BY <1>3, <2>1 DEF Done
  <2> QED
    BY <1>0, <1>3, <2>1, <2>2 DEF AskedFits
<1>4. CASE Fail(r)
  <2>1. pc'[r] = "failed" /\ call'[r] = None
    BY <1>0, <1>4 DEF Fail, Goto
  <2> QED
    BY <2>1 DEF AskedFits, Last
<1>5. CASE pc[r] \notin Stages /\ call[r] = None /\ call'[r] = None /\ Moves(r)
  <2>1. Asked(r)' = Asked(r)
    BY <1>0, <1>5, AskStep DEF Invoke
  <2>2. Done(r)' = Done(r)
    BY <1>5, <2>1 DEF Done
  <2> QED
    BY <1>0, <1>5, <2>1, <2>2 DEF AskedFits, Moves, Planned, Searched, Executed, Replanned, Last
<1> QED
  BY <1>0, <1>1, <1>2, <1>3, <1>4, <1>5, StepsAre

AskedInv == \A r \in Runs : AskedFits(r)

LEMMA AskedInvariant == Spec => []AskedInv
<1>1. Init => AskedInv
  <2> SUFFICES ASSUME Init, NEW r \in Runs PROVE AskedFits(r)
    BY DEF AskedInv
  <2>1. pc[r] = "start" /\ call[r] = None /\ messages[r] = <<>>
    BY DEF Init
  <2>2. Done(r) = {}
    BY <2>1 DEF Done, Asked, Invocations
  <2> QED
    BY <2>1, <2>2 DEF AskedFits, Last
<1>2. TypeInv /\ AskedInv /\ [Next]_vars => AskedInv'
  <2> SUFFICES ASSUME TypeInv, AskedInv, [Next]_vars, NEW q \in Runs
               PROVE  AskedFits(q)'
    BY DEF AskedInv
  <2>1. CASE Own(q)' = Own(q)
    <3>1. pc'[q] = pc[q] /\ messages'[q] = messages[q] /\ call'[q] = call[q]
      BY <2>1 DEF Own
    <3>2. Asked(q)' = Asked(q)
      BY <3>1 DEF Asked, Invocations
    <3>3. Done(q)' = Done(q)
      BY <3>1, <3>2 DEF Done
    <3> QED
      BY <3>1, <3>2, <3>3 DEF AskedInv, AskedFits
  <2>2. CASE Next
    <3>1. PICK r \in Runs : RunStep(r) \/ Fail(r)
      BY <2>2 DEF Next
    <3>2. CASE q = r
      BY <3>1, <3>2, FitsStep DEF TypeInv, AskedInv
    <3>3. CASE q # r
      BY <2>1, <3>1, <3>3, OthersStay DEF TypeInv
    <3> QED
      BY <3>2, <3>3
  <2>3. CASE UNCHANGED vars
    BY <2>1, <2>3 DEF Own, vars
  <2> QED
    BY <2>2, <2>3
<1> QED
  BY <1>1, <1>2, TypeInvariant, PTL DEF Spec

AllAsked == [r \in Runs |-> {messages[r][n].action : n \in Invocations(r)}]
Outcomes == [r \in Runs |-> CASE pc[r] = "done"   -> "answered"
                               [] pc[r] = "failed" -> "failed"
                               [] OTHER            -> "open"]

LEMMA RouteInit == Init => Route!Init
<1> SUFFICES ASSUME Init PROVE Route!Init
  OBVIOUS
<1>1. \A r \in Runs : pc[r] = "start" /\ Invocations(r) = {}
  BY DEF Init, Invocations
<1> QED
  BY <1>1 DEF Route!Init

LEMMA RouteStep ==
    TypeInv /\ AskedInv /\ [Next]_vars => [Route!Next]_<<AllAsked, Outcomes>>
<1> SUFFICES ASSUME TypeInv, AskedInv, [Next]_vars
             PROVE  Route!Next \/ (AllAsked' = AllAsked /\ Outcomes' = Outcomes)
  OBVIOUS
<1>1. CASE Next
  <2>1. PICK r \in Runs : RunStep(r) \/ Fail(r)
    BY <1>1 DEF Next
  <2>2. TypeOK /\ Shape(r) /\ AskedFits(r) /\ pc \in [Runs -> PCs]
    BY DEF TypeInv, AskedInv, TypeOK
  <2>3. ASSUME NEW q \in Runs \ {r}
        PROVE  AllAsked'[q] = AllAsked[q] /\ Outcomes'[q] = Outcomes[q]
    <3>1. Own(q)' = Own(q)
      BY <2>1, <2>2, OthersStay
    <3> QED
      BY <3>1 DEF AllAsked, Outcomes, Invocations, Own
  <2>4. AllAsked'[r] = IF Invoke(r) THEN AllAsked[r] \cup {ActionOf[pc[r]]} ELSE AllAsked[r]
    BY <2>1, <2>2, AskStep DEF AllAsked, Asked
  <2>5. CASE Invoke(r)
    <3>1. pc[r] \in Stages /\ call[r] = None /\ UNCHANGED pc
      BY <2>5 DEF Invoke
    <3>2. Outcomes' = Outcomes
      BY <3>1 DEF Outcomes
    <3>3. AllAsked' = [AllAsked EXCEPT ![r] = @ \cup {ActionOf[pc[r]]}]
      BY <2>3, <2>4, <2>5 DEF AllAsked
    <3>4. Outcomes[r] = "open"
      BY <3>1 DEF Outcomes, Stages
    <3>5. PICK a \in Route!Actions : a = ActionOf[pc[r]] /\ a \in Route!Allowed(AllAsked[r])
      <4>1. AllAsked[r] = Done(r)
        BY <3>1 DEF AllAsked, Done, Asked
      <4> QED
        BY <2>2, <3>1, <4>1 DEF AskedFits, Stages, ActionOf, Route!Allowed, Route!Actions,
           Planned, Searched, Executed, Replanned
    <3>6. Route!Ask(r, a)
      BY <3>2, <3>3, <3>4, <3>5 DEF Route!Ask, AllAsked, Outcomes
    <3> QED
      BY <3>6 DEF Route!Next
  <2>6. CASE ~Invoke(r)
    <3>1. AllAsked' = AllAsked
      BY <2>3, <2>4, <2>6 DEF AllAsked
    <3>2. CASE Fail(r)
      <4>1. pc[r] \notin {"done", "failed"} /\ pc'[r] = "failed"
        BY <2>2, <3>2 DEF Fail, Goto
      <4>2. Outcomes[r] = "open" /\ Outcomes'[r] = "failed"
        BY <4>1 DEF Outcomes
      <4>3. Outcomes' = [Outcomes EXCEPT ![r] = "failed"]
        BY <2>3, <4>2 DEF Outcomes
      <4>4. Route!Fail(r)
        BY <3>1, <4>2, <4>3 DEF Route!Fail, AllAsked, Outcomes
      <4> QED
        BY <4>4 DEF Route!Next
    <3>3. CASE pc[r] = "close" /\ pc'[r] = "done"
      <4>1. Outcomes[r] = "open" /\ Outcomes'[r] = "answered"
        BY <3>3 DEF Outcomes
      <4>2. Outcomes' = [Outcomes EXCEPT ![r] = "answered"]
        BY <2>3, <4>1 DEF Outcomes
      <4>3. "summary.create" \in AllAsked[r]
        <5>1. call[r] = None
          BY <2>2, <3>3 DEF Shape, Stages
        <5> QED
          BY <2>2, <3>3, <5>1 DEF AskedFits, Done, Asked, AllAsked, Last
      <4>4. Route!Answer(r)
        BY <3>1, <4>1, <4>2, <4>3 DEF Route!Answer, AllAsked, Outcomes
      <4> QED
        BY <4>4 DEF Route!Next
    <3>4. CASE ~Fail(r) /\ ~(pc[r] = "close" /\ pc'[r] = "done")
      <4>1. Outcomes'[r] = Outcomes[r]
        <5>1. CASE UNCHANGED pc
          BY <5>1 DEF Outcomes
        <5>2. CASE Select(r)
          <6>1. pc[r] \in Stages /\ pc'[r] = AfterCall[pc[r]]
            BY <2>2, <5>2, StageIs DEF Select, Goto
          <6> QED
            BY <6>1 DEF Outcomes, Stages, AfterCall
        <5>3. CASE Moves(r)
          BY <3>4, <5>3 DEF Moves, Outcomes, Last
        <5> QED
          BY <2>1, <2>2, <2>6, <3>4, <5>1, <5>2, <5>3, StepsAre
      <4>2. Outcomes' = Outcomes
        BY <2>3, <4>1 DEF Outcomes
      <4> QED
        BY <3>1, <4>2
    <3> QED
      BY <3>2, <3>3, <3>4
  <2> QED
    BY <2>5, <2>6
<1>2. CASE UNCHANGED vars
  BY <1>2 DEF vars, AllAsked, Outcomes, Invocations
<1> QED
  BY <1>1, <1>2

\* Every run is a collaboration as CollaborationRoute promises it: each
\* capability is asked for once at most, the planner's first, feedback after the
\* tool only, and no run answers without its summarizer.
THEOREM RunsFollowRoute == Spec => ImplementsRoute
  BY TypeInvariant, AskedInvariant, RouteInit, RouteStep, PTL
     DEF Spec, ImplementsRoute, Route!Spec, AllAsked, Outcomes

-----------------------------------------------------------------------------
(* Calls.                                                                   *)

\* Only one step says one thing.
LEMMA SpeechIs ==
    ASSUME TypeOK, NEW r \in Runs, Shape(r), RunStep(r) \/ Fail(r)
    PROVE  \/ Start(r) /\ messages'[r] \in {<<>>, HandshakeMessages}
           \/ /\ Invoke(r)
              /\ Says(r, Msg("INVOKE", SourceOf(r), AgentOf[pc[r]], ActionOf[pc[r]], RefsOf(r)))
           \/ Answer(r) /\ Says(r, Reply(r))
           \/ /\ \E m : Says(r, m) /\ m.type \in {"STATE_REF", "MEMORY_PUT"}
              /\ pc[r] \notin Stages
           \/ UNCHANGED messages /\ ~Invoke(r) /\ ~Answer(r)
<1>1. CASE UNCHANGED messages
  <2>1. ~Invoke(r) /\ ~Answer(r)
    <3>1. SUFFICES ASSUME Invoke(r) \/ Answer(r) PROVE FALSE
      OBVIOUS
    <3>2. Len(messages'[r]) = Len(messages[r]) + 1
      BY <3>1 DEF Invoke, Answer, Say, TypeOK
    <3>3. Len(messages[r]) \in Nat
      BY DEF TypeOK
    <3> QED
      BY <1>1, <3>2, <3>3
  <2> QED
    BY <1>1, <2>1
<1>2. ASSUME NEW m, Says(r, m)
      PROVE  \/ /\ Invoke(r)
                /\ Says(r, Msg("INVOKE", SourceOf(r), AgentOf[pc[r]], ActionOf[pc[r]], RefsOf(r)))
             \/ Answer(r) /\ Says(r, Reply(r))
             \/ m.type \in {"STATE_REF", "MEMORY_PUT"} /\ pc[r] \notin Stages
  <2>1. Spoken(r, m)
    BY <1>2 DEF Says
  <2> QED
    BY <1>2, <2>1 DEF Spoken
<1> QED
  BY <1>1, <1>2, MessageIs

\* A call keeps where it comes from and what it carries until it ends.
LEMMA CallGoesOn ==
    ASSUME TypeOK, NEW r \in Runs, Shape(r), RunStep(r), call[r] # None, ~Select(r)
    PROVE  /\ call'[r].source = call[r].source /\ call'[r].refs = call[r].refs
           /\ call'[r].answered = (call[r].answered \/ Answer(r))
           /\ UNCHANGED pc
<1>0. /\ TypeOK /\ Shape(r) /\ pc[r] \in Stages /\ call[r] \in Call
      /\ call \in [Runs -> Call \cup {None}]
  BY StageIs DEF TypeOK
<1>1. CASE ReadState(r)
  <2>1. PICK k : call' = [call EXCEPT ![r].unread = @ \ {k}]
    BY <1>1 DEF ReadState
  <2> QED
    BY <1>0, <1>1, <2>1 DEF Call, ReadState, Answer
<1>2. CASE SearchMemory(r)
  BY <1>0, <1>2 DEF Call, SearchMemory, Answer
<1>3. CASE IncrementReuse(r)
  BY <1>0, <1>3 DEF Call, IncrementReuse, Answer
<1>4. CASE LogHits(r)
  BY <1>0, <1>4 DEF Call, LogHits, Answer
<1>5. CASE Answer(r)
  BY <1>0, <1>5 DEF Call, Answer
<1> QED
  BY <1>0, <1>1, <1>2, <1>3, <1>4, <1>5 DEF RunStep, Stages, Start, PutTask, PutPlan, PutEvidence,
     RunSandbox, PutCodeResult, PutRefinedPlan, PutRefinedEvidence, PutSummary, Invoke,
     CommitRunMemory, MarkState, CommitGlobalMemory, AnnounceMemory, LogMessage, WriteTrace, Finish

\* Who has answered in a run.
Results(r) == {n \in DOMAIN messages[r] : messages[r][n].type = "RESULT"}
Heard(r) == {messages[r][n].source : n \in Results(r)}

\* The messages and the open call of a run: the call is the last message until
\* it is answered; every other invocation has its answer.
Served(r, n) ==
    LET m == messages[r][n]
    IN  /\ m.source = "runtime" \/ \E k \in 1 .. n - 1 : k \in Results(r) /\ messages[r][k].source = m.source
        /\ IF n = Len(messages[r])
           THEN (call[r] # None /\ ~call[r].answered) \/ pc[r] = "failed"
           ELSE messages[r][n + 1] = Msg("RESULT", m.target, m.source, m.action, m.refs)

Open(r) == Msg("INVOKE", call[r].source, AgentOf[pc[r]], ActionOf[pc[r]], call[r].refs)

Dialogue(r) ==
    /\ pc[r] = "start" => messages[r] = <<>>
    /\ call[r] # None /\ ~call[r].answered =>
          messages[r] # <<>> /\ messages[r][Len(messages[r])] = Open(r)
    /\ \A n \in Invocations(r) : Served(r, n)

\* Whoever a stage may invoke for has answered.
Sources(r) ==
    /\ \A n \in DOMAIN route[r] : route[r][n] \in Heard(r)
    /\ call[r] # None /\ call[r].answered => AgentOf[pc[r]] \in Heard(r)
    /\ pc[r] \notin {"start", "put_task", "plan", "failed"} => "planner" \in Heard(r)
    /\ Has(r, "evidence") \/ pc[r] = "put_evidence" => "retriever" \in Heard(r)
    /\ pc[r] \in {"sandbox", "put_result", "replan", "put_refined_plan", "research"} =>
          "executor" \in Heard(r)

LEMMA SourceHasAnswered ==
    ASSUME TypeOK, NEW r \in Runs, Shape(r), Sources(r), pc[r] \in Stages
    PROVE  SourceOf(r) = "runtime" \/ SourceOf(r) \in Heard(r)
<1>1. CASE pc[r] = "summarize"
  <2>1. route[r] \in Seq(Agents) /\ route[r] # <<>>
    BY <1>1 DEF TypeOK, Shape
  <2>2. Len(route[r]) \in DOMAIN route[r]
    BY <2>1
  <2> QED
    BY <1>1, <2>2 DEF SourceOf, Sources
<1>2. CASE pc[r] # "summarize"
  BY <1>2 DEF SourceOf, ToolSource, Sources, Stages
<1> QED
  BY <1>1, <1>2

\* What has been heard stays heard, and an answer is.
LEMMA HeardStep ==
    ASSUME TypeOK, NEW r \in Runs, Shape(r), Dialogue(r), RunStep(r) \/ Fail(r)
    PROVE  /\ Heard(r) \subseteq Heard(r)'
           /\ Answer(r) => AgentOf[pc[r]] \in Heard(r)'
<1>0. TypeOK /\ Shape(r) /\ Dialogue(r)
  OBVIOUS
<1>1. CASE Start(r) /\ messages'[r] \in {<<>>, HandshakeMessages}
  <2>1. Heard(r) = {} /\ pc[r] = "start"
    BY <1>1 DEF Start, Dialogue, Heard, Results
  <2>2. call[r] = None
    BY <2>1 DEF Shape, Stages
  <2> QED
    BY <2>1, <2>2 DEF Answer
<1>2. ASSUME NEW m, Says(r, m)
      PROVE  Heard(r) \subseteq Heard(r)' /\ (m.type = "RESULT" => m.source \in Heard(r)')
  BY <1>0, <1>2, SaidLast DEF Heard, Results
<1>3. CASE Answer(r) /\ Says(r, Reply(r))
  <2>1. Reply(r).type = "RESULT" /\ Reply(r).source = AgentOf[pc[r]]
    BY DEF Reply, Msg
  <2> QED
    BY <1>2, <1>3, <2>1
<1>4. CASE UNCHANGED messages /\ ~Answer(r)
  BY <1>4 DEF Heard, Results
<1>5. CASE Invoke(r) \/ pc[r] \notin Stages
  <2>1. ~Answer(r)
    BY <1>5 DEF Invoke, Answer, Shape
  <2>2. CASE \E m : Says(r, m)
    BY <1>2, <2>1, <2>2
  <2>3. CASE UNCHANGED messages
    BY <2>1, <2>3, <1>4
  <2> QED
    BY <1>0, <1>1, <2>2, <2>3, MessageIs
<1> QED
  BY <1>0, <1>1, <1>3, <1>4, <1>5, SpeechIs

\* A run that has begun does not begin again, and one that failed is over.
LEMMA GoesForward ==
    ASSUME TypeOK, NEW r \in Runs, Shape(r), RunStep(r) \/ Fail(r)
    PROVE  pc[r] # "failed" /\ pc'[r] # "start"
<1>0. TypeOK /\ Shape(r) /\ pc \in [Runs -> PCs]
  BY DEF TypeOK
<1>1. CASE Invoke(r)
  BY <1>1 DEF Invoke, Stages
<1>2. CASE UNCHANGED pc /\ call'[r] # None /\ call[r] # None /\ ~Invoke(r)
  BY <1>0, <1>2, StageIs DEF Stages
<1>3. CASE Select(r)
  <2>1. pc[r] \in Stages /\ pc'[r] = AfterCall[pc[r]]
    BY <1>0, <1>3, StageIs DEF Select, Goto
  <2> QED
    BY <2>1 DEF Stages, AfterCall
<1>4. CASE Moves(r)
  BY <1>4 DEF Moves, Last
<1>5. CASE Fail(r)
  BY <1>0, <1>5 DEF Fail, Goto
<1> QED
  BY <1>0, <1>1, <1>2, <1>3, <1>4, <1>5, StepsAre

\* What has been served stays so.
LEMMA ServedStays ==
    ASSUME TypeOK, NEW r \in Runs, NEW m, Says(r, m),
           NEW n \in DOMAIN messages[r], Served(r, n), n # Len(messages[r])
    PROVE  Served(r, n)'
<1>1. /\ DOMAIN messages[r] = 1 .. Len(messages[r]) /\ Len(messages[r]) \in Nat
      /\ Len(messages'[r]) = Len(messages[r]) + 1
      /\ \A k \in DOMAIN messages[r] : messages'[r][k] = messages[r][k]
      /\ DOMAIN messages[r] \subseteq DOMAIN messages'[r]
  BY SaidLast
<1>2. n + 1 \in DOMAIN messages[r] /\ n # Len(messages'[r]) /\ 1 .. n - 1 \subseteq DOMAIN messages[r]
  BY <1>1
<1>3. Results(r) \subseteq Results(r)'
  BY <1>1 DEF Results
<1> QED
  BY <1>1, <1>2, <1>3 DEF Served

LEMMA DialogueStep ==
    ASSUME TypeOK, NEW r \in Runs, Shape(r), Dialogue(r), Sources(r), RunStep(r) \/ Fail(r)
    PROVE  Dialogue(r)'
<1>0. /\ TypeOK /\ Shape(r) /\ Dialogue(r) /\ Sources(r)
      /\ pc \in [Runs -> PCs] /\ call \in [Runs -> Call \cup {None}]
      /\ pc[r] # "failed" /\ pc'[r] # "start"
  BY GoesForward DEF TypeOK
<1>1. CASE Start(r) /\ messages'[r] \in {<<>>, HandshakeMessages}
  <2>1. Invocations(r)' = {}
    BY <1>1, Hello DEF Invocations, Greetings
  <2>2. call'[r] = None
    BY <1>0, <1>1 DEF Start, Shape, Stages
  <2> QED
    BY <1>0, <2>1, <2>2 DEF Dialogue
<1>2. ASSUME NEW m, Says(r, m), m.type # "INVOKE",
             call[r] # None /\ ~call[r].answered =>
                m = Msg("RESULT", AgentOf[pc[r]], call[r].source, ActionOf[pc[r]], call[r].refs)
      PROVE  \A n \in Invocations(r)' : Served(r, n)'
  <2> DEFINE last == Len(messages[r]) + 1
  <2>1. /\ DOMAIN messages'[r] = DOMAIN messages[r] \cup {last}
        /\ \A n \in DOMAIN messages[r] : messages'[r][n] = messages[r][n]
        /\ messages'[r][last] = m /\ Len(messages'[r]) = last
        /\ DOMAIN messages[r] = 1 .. Len(messages[r]) /\ Len(messages[r]) \in Nat
    BY <1>0, <1>2, SaidLast
  <2>2. Invocations(r)' = Invocations(r)
    BY <1>2, <2>1 DEF Invocations
  <2>3. SUFFICES ASSUME NEW n \in Invocations(r) PROVE Served(r, n)'
    BY <2>2
  <2>4. n \in DOMAIN messages[r] /\ Served(r, n)
    BY <1>0 DEF Invocations, Dialogue
  <2>5. CASE n # Len(messages[r])
    BY <1>0, <1>2, <2>4, <2>5, ServedStays
  <2>6. CASE n = Len(messages[r])
    <3>1. call[r] # None /\ ~call[r].answered
      BY <1>0, <2>4, <2>6 DEF Served
    <3>2. messages[r][n] = Open(r)
      BY <1>0, <2>6, <3>1 DEF Dialogue
    <3>3. messages'[r][n] = Open(r) /\ n # Len(messages'[r]) /\ n + 1 = last
      BY <2>1, <2>4, <2>6, <3>2
    <3>4. /\ Open(r).target = AgentOf[pc[r]] /\ Open(r).source = call[r].source
          /\ Open(r).action = ActionOf[pc[r]] /\ Open(r).refs = call[r].refs
      BY DEF Open, Msg
    <3>5. messages'[r][n + 1] = Msg("RESULT", Open(r).target, Open(r).source, Open(r).action,
                                    Open(r).refs)
      BY <1>2, <2>1, <3>1, <3>3, <3>4
    <3>6. \A k \in 1 .. n - 1 : k \in Results(r) => k \in Results(r)'
                                   /\ messages'[r][k] = messages[r][k]
      BY <2>1, <2>4 DEF Results
    <3> QED
      BY <2>4, <3>2, <3>3, <3>5, <3>6 DEF Served
  <2> QED
    BY <2>5, <2>6
<1>3. CASE /\ Invoke(r)
           /\ Says(r, Msg("INVOKE", SourceOf(r), AgentOf[pc[r]], ActionOf[pc[r]], RefsOf(r)))
  <2> DEFINE m == Msg("INVOKE", SourceOf(r), AgentOf[pc[r]], ActionOf[pc[r]], RefsOf(r))
  <2> PICK last : last = Len(messages[r]) + 1
    OBVIOUS
  <2>0. m.type = "INVOKE" /\ m.source = SourceOf(r)
    BY DEF Msg
  <2>1. /\ call[r] = None /\ pc[r] \in Stages /\ UNCHANGED pc
        /\ SourceOf(r) = "runtime" \/ SourceOf(r) \in Heard(r)
    BY <1>0, <1>3, SourceHasAnswered DEF Invoke
  <2>2. /\ call'[r] # None /\ ~call'[r].answered
        /\ call'[r].source = SourceOf(r) /\ call'[r].refs = RefsOf(r)
    BY <1>0, <1>3, InvokeCalls DEF Invoke
  <2>3. Says(r, m)
    BY <1>3
  <2> HIDE DEF m
  <2>4. /\ DOMAIN messages'[r] = DOMAIN messages[r] \cup {last}
        /\ \A n \in DOMAIN messages[r] : messages'[r][n] = messages[r][n]
        /\ messages'[r][last] = m /\ Len(messages'[r]) = last
        /\ DOMAIN messages[r] = 1 .. Len(messages[r]) /\ Len(messages[r]) \in Nat
    BY <1>0, <2>3, SaidLast
  <2>5. ASSUME NEW n \in Invocations(r) PROVE Served(r, n)'
    <3>1. n \in DOMAIN messages[r] /\ Served(r, n)
      BY <1>0, <2>5 DEF Invocations, Dialogue
    <3>2. n # Len(messages[r])
      BY <1>0, <2>1, <3>1 DEF Served
    <3> QED
      BY <1>0, <2>3, <3>1, <3>2, ServedStays
  <2>6. Served(r, last)'
    <3>1. \/ m.source = "runtime"
          \/ \E k \in 1 .. last - 1 : k \in Results(r)' /\ messages'[r][k].source = m.source
      <4>1. CASE SourceOf(r) \in Heard(r)
        <5>1. PICK k \in Results(r) : messages[r][k].source = m.source
          BY <2>0, <4>1 DEF Heard
        <5>2. k \in 1 .. last - 1 /\ k \in Results(r)' /\ messages'[r][k].source = m.source
          BY <2>4, <5>1 DEF Results
        <5> QED
          BY <5>2
      <4> QED
        BY <2>0, <2>1, <4>1
    <3> QED
      BY <2>2, <2>4, <3>1 DEF Served
  <2>7. messages'[r] # <<>> /\ messages'[r][Len(messages'[r])] = Open(r)'
    <3>1. Open(r)' = m
      BY <2>1, <2>2 DEF Open, m
    <3>2. messages'[r] # <<>>
      <4>1. Len(<<>>) = 0 /\ last # 0
        BY <2>4
      <4> QED
        BY <2>4, <4>1
    <3> QED
      BY <2>4, <3>1, <3>2
  <2>8. Invocations(r)' \subseteq Invocations(r) \cup {last}
    BY <2>4 DEF Invocations
  <2> QED
    BY <1>0, <2>5, <2>6, <2>7, <2>8 DEF Dialogue
<1>4. CASE Answer(r) /\ Says(r, Reply(r))
  <2>1. call[r] # None /\ ~Select(r) /\ RunStep(r)
    BY <1>4 DEF Answer, Select, RunStep
  <2>2. call'[r].answered
    BY <1>0, <1>4, <2>1, CallGoesOn
  <2>3. /\ Reply(r).type = "RESULT"
        /\ Reply(r) = Msg("RESULT", AgentOf[pc[r]], call[r].source, ActionOf[pc[r]], call[r].refs)
    BY DEF Reply, Msg
  <2> QED
    BY <1>0, <1>2, <1>4, <2>2, <2>3 DEF Dialogue
<1>5. ASSUME NEW m, Says(r, m), m.type \in {"STATE_REF", "MEMORY_PUT"}, pc[r] \notin Stages
      PROVE  Dialogue(r)'
  <2>1. call[r] = None
    BY <1>0, <1>5 DEF Shape
  <2>2. call'[r] = None
    <3>1. CASE Fail(r)
      BY <1>0, <3>1 DEF Fail
    <3>2. CASE ~Fail(r)
      BY <1>0, <1>5, <2>1, <3>2, StepsAre DEF Invoke, Select
    <3> QED
      BY <3>1, <3>2
  <2>3. \A n \in Invocations(r)' : Served(r, n)'
    BY <1>2, <1>5, <2>1
  <2> QED
    BY <1>0, <2>2, <2>3 DEF Dialogue
<1>6. CASE UNCHANGED messages /\ ~Invoke(r) /\ ~Answer(r)
  <2>1. Invocations(r)' = Invocations(r) /\ Results(r)' = Results(r)
    BY <1>6 DEF Invocations, Results
  <2>2. CASE RunStep(r) /\ call[r] # None /\ ~Select(r)
    <3>1. /\ call'[r].source = call[r].source /\ call'[r].refs = call[r].refs
          /\ call'[r].answered = call[r].answered /\ UNCHANGED pc
      <4>1. call[r] \in Call
        BY <1>0, <2>2
      <4> QED
        BY <1>0, <1>6, <2>2, <4>1, CallGoesOn DEF Call
    <3>2. call'[r] # None
      <4>1. pc[r] \in Stages
        BY <1>0, <2>2, StageIs
      <4>2. ~Fail(r)
        BY <1>0, <3>1 DEF Fail, Goto
      <4> QED
        BY <1>0, <1>6, <2>2, <4>1, <4>2, StepsAre
    <3>3. Open(r)' = Open(r)
      BY <3>1 DEF Open
    <3> QED
      BY <1>0, <1>6, <2>1, <2>2, <3>1, <3>2, <3>3 DEF Dialogue, Served
  <2>3. CASE Select(r) \/ call[r] = None
    <3>1. call[r] = None \/ call[r].answered
      BY <2>3 DEF Select
    <3>2. call'[r] = None
      <4>1. CASE Select(r)
        BY <1>0, <4>1 DEF Select
      <4>2. CASE Fail(r)
        BY <1>0, <4>2 DEF Fail
      <4> QED
        BY <1>0, <1>6, <2>3, <4>1, <4>2, StepsAre
    <3>3. \A n \in Invocations(r) : n # Len(messages[r])
      BY <1>0, <3>1 DEF Dialogue, Served
    <3> QED
      BY <1>0, <1>6, <2>1, <3>2, <3>3 DEF Dialogue, Served
  <2>4. CASE Fail(r)
    <3>1. call'[r] = None /\ pc'[r] = "failed"
      BY <1>0, <2>4 DEF Fail, Goto
    <3> QED
      BY <1>0, <1>6, <2>1, <3>1 DEF Dialogue, Served
  <2> QED
    BY <2>2, <2>3, <2>4
<1> QED
  BY <1>0, <1>1, <1>3, <1>4, <1>5, <1>6, SpeechIs

\* An agent is selected when its call ends; the evidence comes at its stage.
LEMMA RouteAndEvidence ==
    ASSUME TypeOK, NEW r \in Runs, Shape(r), RunStep(r) \/ Fail(r)
    PROVE  /\ Select(r) \/ UNCHANGED route
           /\ Has(r, "evidence")' => Has(r, "evidence") \/ pc[r] = "put_evidence"
<1>1. Select(r) \/ UNCHANGED route
  BY DEF RunStep, Start, PutTask, PutPlan, PutEvidence, RunSandbox, PutCodeResult,
     PutRefinedPlan, PutRefinedEvidence, PutSummary, Invoke, ReadState, SearchMemory,
     IncrementReuse, LogHits, Answer, Select, CommitRunMemory, MarkState,
     CommitGlobalMemory, AnnounceMemory, LogMessage, WriteTrace, Finish, Fail
<1>2. CASE Keeps(r)
  BY <1>1, <1>2 DEF Keeps, Has, Kinds
<1>3. CASE Adds(r)
  <2>1. PICK k \in Kinds, parents \in SUBSET Made(r) : Put(r, k, parents) /\ pc[r] = PutStage[k]
    BY <1>3 DEF Adds
  <2>2. parents \in SUBSET Kinds
    BY RefsAreKinds
  <2>3. \A j \in Kinds \ {k} : Has(r, j)' <=> Has(r, j)
    BY <2>1, <2>2, PutAdds
  <2> QED
    BY <1>1, <2>1, <2>3 DEF Kinds, PutStage
<1> QED
  BY <1>2, <1>3, StateStep

LEMMA SourcesStep ==
    ASSUME TypeOK, NEW r \in Runs, Shape(r), Dialogue(r), Sources(r), RunStep(r) \/ Fail(r)
    PROVE  Sources(r)'
<1>0. /\ TypeOK /\ Shape(r) /\ Dialogue(r) /\ Sources(r)
      /\ pc \in [Runs -> PCs] /\ call \in [Runs -> Call \cup {None}]
      /\ Heard(r) \subseteq Heard(r)' /\ (Answer(r) => AgentOf[pc[r]] \in Heard(r)')
      /\ Select(r) \/ UNCHANGED route
      /\ Has(r, "evidence")' => Has(r, "evidence") \/ pc[r] = "put_evidence"
  BY HeardStep, RouteAndEvidence DEF TypeOK
<1>1. Has(r, "evidence")' => "retriever" \in Heard(r)'
  BY <1>0 DEF Sources
<1>2. ~Select(r) => \A n \in DOMAIN route'[r] : route'[r][n] \in Heard(r)'
  BY <1>0 DEF Sources
<1>3. CASE Invoke(r)
  <2>1. UNCHANGED pc /\ ~call'[r].answered
    BY <1>0, <1>3 DEF Invoke
  <2>2. ~Select(r)
    BY <1>3 DEF Invoke, Select
  <2> QED
    BY <1>0, <1>1, <1>2, <2>1, <2>2 DEF Sources
<1>4. CASE UNCHANGED pc /\ call'[r] # None /\ call[r] # None /\ ~Invoke(r)
  <2>1. ~Select(r) /\ RunStep(r)
    BY <1>0, <1>4 DEF Select, Fail
  <2>2. call'[r].answered = (call[r].answered \/ Answer(r))
    BY <1>0, <1>4, <2>1, CallGoesOn
  <2>3. call'[r].answered => AgentOf[pc[r]] \in Heard(r)'
    BY <1>0, <1>4, <2>2 DEF Sources
  <2> QED
    BY <1>0, <1>1, <1>2, <1>4, <2>1, <2>3 DEF Sources
<1>5. CASE Select(r)
  <2>1. /\ pc[r] \in Stages /\ pc'[r] = AfterCall[pc[r]] /\ call'[r] = None
        /\ call[r] # None /\ call[r].answered
        /\ route' = [route EXCEPT ![r] = Append(@, AgentOf[pc[r]])]
    BY <1>0, <1>5, StageIs DEF Select, Goto
  <2>2. AgentOf[pc[r]] \in Heard(r)'
    BY <1>0, <2>1 DEF Sources
  <2>3. \A n \in DOMAIN route'[r] : route'[r][n] \in Heard(r)'
    <3>1. route[r] \in Seq(Agents) /\ route'[r] = Append(route[r], AgentOf[pc[r]])
      BY <1>0, <2>1 DEF TypeOK
    <3>2. \A n \in DOMAIN route'[r] :
             \/ n \in DOMAIN route[r] /\ route'[r][n] = route[r][n]
             \/ route'[r][n] = AgentOf[pc[r]]
      BY <3>1
    <3> QED
      BY <1>0, <2>2, <3>2 DEF Sources
  <2>4. \/ pc[r] = "plan" /\ pc'[r] = "put_plan" /\ "planner" \in Heard(r)'
        \/ pc[r] = "search" /\ pc'[r] = "put_evidence" /\ "retriever" \in Heard(r)'
        \/ pc[r] = "execute" /\ pc'[r] = "sandbox" /\ "executor" \in Heard(r)'
        \/ pc[r] = "replan" /\ pc'[r] = "put_refined_plan"
        \/ pc[r] = "research" /\ pc'[r] = "put_refined_evidence"
        \/ pc[r] = "summarize" /\ pc'[r] = "put_summary"
    BY <2>1, <2>2 DEF Stages, AfterCall, AgentOf
  <2> QED
    BY <1>0, <1>1, <2>1, <2>3, <2>4 DEF Sources
<1>6. CASE pc[r] \notin Stages /\ call[r] = None /\ call'[r] = None /\ Moves(r)
  <2>1. ~Select(r)
    BY <1>6 DEF Select
  <2> QED
    BY <1>0, <1>1, <1>2, <1>6, <2>1 DEF Sources, Moves, Last
<1>7. CASE Fail(r)
  <2>1. pc'[r] = "failed" /\ call'[r] = None /\ UNCHANGED route
    BY <1>0, <1>7 DEF Fail, Goto
  <2> QED
    BY <1>0, <1>1, <2>1 DEF Sources
<1> QED
  BY <1>0, <1>3, <1>4, <1>5, <1>6, <1>7, StepsAre

DialogueInv == \A r \in Runs : Dialogue(r) /\ Sources(r)

LEMMA DialogueInvariant == Spec => []DialogueInv
<1>1. Init => DialogueInv
  <2> SUFFICES ASSUME Init, NEW r \in Runs PROVE Dialogue(r) /\ Sources(r)
    BY DEF DialogueInv
  <2>1. /\ pc[r] = "start" /\ call[r] = None /\ messages[r] = <<>> /\ route[r] = <<>>
        /\ ~Has(r, "evidence")
    BY DEF Init, Has, Kinds
  <2> QED
    BY <2>1 DEF Dialogue, Sources, Invocations
<1>2. TypeInv /\ DialogueInv /\ [Next]_vars => DialogueInv'
  <2> SUFFICES ASSUME TypeInv, DialogueInv, [Next]_vars, NEW q \in Runs
               PROVE  Dialogue(q)' /\ Sources(q)'
    BY DEF DialogueInv
  <2>1. CASE Own(q)' = Own(q)
    <3>1. /\ pc'[q] = pc[q] /\ messages'[q] = messages[q] /\ call'[q] = call[q]
          /\ route'[q] = route[q] /\ state'[q] = state[q]
      BY <2>1 DEF Own
    <3>2. /\ Invocations(q)' = Invocations(q) /\ Results(q)' = Results(q)
          /\ Heard(q)' = Heard(q) /\ Open(q)' = Open(q)
      BY <3>1 DEF Invocations, Results, Heard, Open
    <3>3. Dialogue(q)'
      BY <3>1, <3>2 DEF DialogueInv, Dialogue, Served
    <3>4. Sources(q)'
      BY <3>1, <3>2 DEF DialogueInv, Sources, Has
    <3> QED
      BY <3>3, <3>4
  <2>2. CASE Next
    <3>1. PICK r \in Runs : RunStep(r) \/ Fail(r)
      BY <2>2 DEF Next
    <3>2. CASE q = r
      BY <3>1, <3>2, DialogueStep, SourcesStep DEF TypeInv, DialogueInv
    <3>3. CASE q # r
      BY <2>1, <3>1, <3>3, OthersStay DEF TypeInv
    <3> QED
      BY <3>2, <3>3
  <2>3. CASE UNCHANGED vars
    BY <2>1, <2>3 DEF Own, vars
  <2> QED
    BY <2>2, <2>3
<1> QED
  BY <1>1, <1>2, TypeInvariant, PTL DEF Spec

\* Whatever the route, an agent is invoked only for one that has answered, and
\* each invocation is answered at once (source_agent of the stages, invoke).
THEOREM CallsAreServed == Spec => []CallsAreAnswered
<1>1. TypeInv /\ DialogueInv => CallsAreAnswered
  BY DEF DialogueInv, Dialogue, Served, Results, Invocations, TypeInv, TypeOK, CallsAreAnswered
<1> QED
  BY <1>1, TypeInvariant, DialogueInvariant, PTL

-----------------------------------------------------------------------------
(* Announcements.                                                           *)

\* Whom a stage is still to invoke for what has been announced.
Due(r) ==
    IF pc[r] \in {"replan", "put_refined_plan", "research", "put_refined_evidence"}
    THEN {"summarizer"}
    ELSE IF pc[r] \in Stages /\ call[r] = None THEN {AgentOf[pc[r]]} ELSE {}

\* An announced state is one its agent has been invoked after, or is due for.
Attended(r) ==
    pc[r] # "failed" =>
        \A n \in DOMAIN messages[r] : messages[r][n].type = "STATE_REF" =>
            \/ messages[r][n].target \in Due(r)
            \/ \E m \in Invocations(r) :
                  n < m /\ messages[r][m].target = messages[r][n].target

LEMMA Appended ==
    ASSUME TypeOK, NEW r \in Runs, NEW m \in Message, Say(r, m)
    PROVE  /\ Len(messages'[r]) = Len(messages[r]) + 1
           /\ DOMAIN messages'[r] = DOMAIN messages[r] \cup {Len(messages[r]) + 1}
           /\ \A n \in DOMAIN messages[r] : messages'[r][n] = messages[r][n]
           /\ messages'[r][Len(messages[r]) + 1] = m
           /\ DOMAIN messages[r] = 1 .. Len(messages[r])
           /\ Len(messages[r]) \in Nat
<1>1. messages[r] \in Seq(Message) /\ messages \in [Runs -> Seq(Message)]
  BY DEF TypeOK
<1>2. messages'[r] = Append(messages[r], m)
  BY <1>1 DEF Say
<1> QED
  BY <1>1, <1>2

\* An announcement is for one who is due; an invocation settles what was.
LEMMA SaidAttended ==
    ASSUME TypeOK, NEW r \in Runs, Attended(r), pc[r] # "failed",
           NEW m \in Message, Say(r, m),
           m.type = "STATE_REF" => m.target \in Due(r)',
           \A a \in Due(r) : a \in Due(r)' \/ (m.type = "INVOKE" /\ m.target = a)
    PROVE  Attended(r)'
<1> PICK last : last = Len(messages[r]) + 1
  OBVIOUS
<1>1. /\ DOMAIN messages'[r] = DOMAIN messages[r] \cup {last}
      /\ \A n \in DOMAIN messages[r] : messages'[r][n] = messages[r][n] /\ n < last
      /\ messages'[r][last] = m
  BY Appended
<1>2. ASSUME NEW n \in DOMAIN messages[r], messages[r][n].type = "STATE_REF"
      PROVE  \/ messages[r][n].target \in Due(r)'
             \/ \E k \in Invocations(r)' :
                   n < k /\ messages'[r][k].target = messages[r][n].target
  <2>1. CASE messages[r][n].target \in Due(r)
    <3>1. CASE m.type = "INVOKE" /\ m.target = messages[r][n].target
      <4>1. last \in Invocations(r)' /\ n < last /\ messages'[r][last].target = messages[r][n].target
        BY <1>1, <3>1 DEF Invocations
      <4> QED
        BY <4>1
    <3> QED
      BY <2>1, <3>1
  <2>2. CASE \E k \in Invocations(r) : n < k /\ messages[r][k].target = messages[r][n].target
    <3>1. Invocations(r) \subseteq Invocations(r)'
      BY <1>1 DEF Invocations
    <3>2. \A k \in Invocations(r) : messages'[r][k] = messages[r][k]
      BY <1>1 DEF Invocations
    <3> QED
      BY <2>2, <3>1, <3>2
  <2> QED
    BY <1>2, <2>1, <2>2 DEF Attended
<1> QED
  BY <1>1, <1>2 DEF Attended

LEMMA AttendedStep ==
    ASSUME TypeOK, NEW r \in Runs, Shape(r), Attended(r), RunStep(r) \/ Fail(r)
    PROVE  Attended(r)'
<1>0. /\ TypeOK /\ Shape(r) /\ Attended(r)
      /\ pc \in [Runs -> PCs] /\ call \in [Runs -> Call \cup {None}]
      /\ pc[r] # "failed"
  BY GoesForward DEF TypeOK
<1>1. CASE Start(r)
  <2>1. messages'[r] \in {<<>>, HandshakeMessages}
    BY <1>0, <1>1 DEF Start, TypeOK
  <2>2. \A n \in DOMAIN messages'[r] : messages'[r][n].type # "STATE_REF"
    BY <2>1, Hello DEF Greetings
  <2> QED
    BY <2>2 DEF Attended
<1>2. ASSUME NEW source \in Parties, NEW target \in Parties, NEW k \in Kinds,
             Say(r, Msg("STATE_REF", source, target, "", {k})),
             pc[r] \in {"put_task", "put_plan", "put_evidence", "put_result"},
             target \in Due(r)'
      PROVE  Attended(r)'
  <2> DEFINE m == Msg("STATE_REF", source, target, "", {k})
  <2>1. m \in Message /\ m.type = "STATE_REF" /\ m.target = target
    BY DEF Msg, Message, MsgTypes
  <2>2. Say(r, m)
    BY <1>2
  <2>3. Due(r) = {}
    BY <1>2 DEF Due, Stages
  <2> HIDE DEF m
  <2> QED
    BY <1>0, <1>2, <2>1, <2>2, <2>3, SaidAttended
<1>3. CASE PutTask(r)
  <2>1. pc'[r] = "plan" /\ call'[r] = None /\ pc[r] = "put_task"
    BY <1>0, <1>3 DEF PutTask, Goto, Shape, Stages
  <2>2. "planner" \in Due(r)'
    BY <2>1 DEF Due, Stages, AgentOf
  <2> QED
    BY <1>2, <1>3, <2>1, <2>2 DEF PutTask, Parties, Agents, Kinds
<1>4. CASE PutPlan(r)
  <2>1. PICK d \in Decisions : /\ Say(r, Msg("STATE_REF", "planner", NextAgent(d), "", {"plan"}))
                               /\ Goto(r, StageAfterPlan(d))
    BY <1>4 DEF PutPlan
  <2>2. call'[r] = None /\ pc[r] = "put_plan" /\ pc'[r] = StageAfterPlan(d)
    BY <1>0, <1>4, <2>1 DEF PutPlan, Goto, Shape, Stages
  <2>3. \/ StageAfterPlan(d) = "search" /\ NextAgent(d) = "retriever"
        \/ StageAfterPlan(d) = "execute" /\ NextAgent(d) = "executor"
        \/ StageAfterPlan(d) = "summarize" /\ NextAgent(d) = "summarizer"
    BY DEF StageAfterPlan, NextAgent
  <2>4. NextAgent(d) \in Due(r)'
    BY <2>2, <2>3 DEF Due, Stages, AgentOf
  <2>5. NextAgent(d) \in Parties /\ "planner" \in Parties /\ "plan" \in Kinds
    BY <2>3 DEF Parties, Agents, Kinds
  <2> QED
    BY <1>2, <2>1, <2>2, <2>4, <2>5
<1>5. CASE PutEvidence(r)
  <2>1. PICK next \in {"executor", "summarizer"} :
          /\ Say(r, Msg("STATE_REF", "retriever", next, "", {"evidence"}))
          /\ pc'[r] = IF next = "executor" THEN "execute" ELSE "summarize"
    BY <1>0, <1>5 DEF PutEvidence, Goto
  <2>2. call'[r] = None /\ pc[r] = "put_evidence"
    BY <1>0, <1>5 DEF PutEvidence, Shape, Stages
  <2>3. next \in Due(r)'
    <3>1. \/ pc'[r] = "execute" /\ next = "executor"
          \/ pc'[r] = "summarize" /\ next = "summarizer"
      BY <2>1
    <3> QED
      BY <2>2, <3>1 DEF Due, Stages, AgentOf
  <2>4. next \in Parties /\ "retriever" \in Parties /\ "evidence" \in Kinds
    BY DEF Parties, Agents, Kinds
  <2> QED
    BY <1>2, <2>1, <2>2, <2>3, <2>4
<1>6. CASE PutCodeResult(r)
  <2>1. /\ call'[r] = None /\ pc[r] = "put_result"
        /\ pc'[r] \in {"replan", "research", "summarize"}
    BY <1>0, <1>6 DEF PutCodeResult, Goto, Shape, Stages
  <2>2. "summarizer" \in Due(r)'
    BY <2>1 DEF Due, Stages, AgentOf
  <2> QED
    BY <1>2, <1>6, <2>1, <2>2 DEF PutCodeResult, Parties, Agents, Kinds
<1>7. CASE Invoke(r)
  <2>1. /\ pc[r] \in Stages /\ call[r] = None /\ UNCHANGED pc /\ call'[r] # None
        /\ SourceOf(r) \in Parties /\ RefsOf(r) \in SUBSET Kinds
    BY <1>0, <1>7, InvokeCalls, InvokeIs, RefsAreKinds DEF Invoke
  <2> DEFINE m == Msg("INVOKE", SourceOf(r), AgentOf[pc[r]], ActionOf[pc[r]], RefsOf(r))
  <2>2. m.type = "INVOKE" /\ m.target = AgentOf[pc[r]]
    BY DEF Msg
  <2>3. m \in Message
    <3>1. /\ AgentOf[pc[r]] \in Parties /\ ActionOf[pc[r]] \in Actions \cup {""}
          /\ "INVOKE" \in MsgTypes
      BY <2>1, Constants DEF MsgTypes
    <3> QED
      BY <2>1, <3>1, MsgIsMessage
  <2>4. Say(r, m)
    BY <1>7 DEF Invoke
  <2> HIDE DEF m
  <2>5. \A a \in Due(r) : a \in Due(r)' \/ a = AgentOf[pc[r]]
    BY <2>1 DEF Due
  <2> QED
    BY <1>0, <2>2, <2>3, <2>4, <2>5, SaidAttended
<1>8. CASE Answer(r)
  <2>1. /\ call[r] # None /\ UNCHANGED pc /\ call'[r] # None
    <3>1. ~Invoke(r) /\ ~Select(r) /\ ~Fail(r) /\ call[r] # None /\ pc[r] \in Stages
      BY <1>0, <1>8, StageIs DEF Answer, Invoke, Select, Fail, Goto
    <3> QED
      BY <1>0, <1>8, <3>1, StepsAre
  <2>2. Reply(r) \in Message /\ Reply(r).type = "RESULT"
    <3>1. /\ call[r] \in Call /\ AgentOf[pc[r]] \in Agents /\ ActionOf[pc[r]] \in Actions
      BY <1>0, <2>1, StageIs
    <3>2. /\ "RESULT" \in MsgTypes /\ ActionOf[pc[r]] \in Actions \cup {""}
          /\ AgentOf[pc[r]] \in Parties /\ call[r].source \in Parties
          /\ call[r].refs \in SUBSET Kinds
      BY <3>1, Constants DEF MsgTypes, Call
    <3> QED
      BY <3>2 DEF Reply, Msg, Message
  <2>3. Say(r, Reply(r))
    BY <1>8 DEF Answer
  <2>4. Due(r)' = Due(r)
    BY <2>1 DEF Due
  <2> QED
    BY <1>0, <2>2, <2>3, <2>4, SaidAttended
<1>9. CASE AnnounceMemory(r)
  <2> DEFINE m == Msg("MEMORY_PUT", "summarizer", "runtime", "", Made(r))
  <2>1. m \in Message /\ m.type = "MEMORY_PUT"
    <3>1. /\ "MEMORY_PUT" \in MsgTypes /\ "summarizer" \in Parties /\ "runtime" \in Parties
          /\ Made(r) \in SUBSET Kinds /\ "" \in Actions \cup {""}
      BY RefsAreKinds DEF MsgTypes, Parties, Agents
    <3>2. Msg("MEMORY_PUT", "summarizer", "runtime", "", Made(r)) \in Message
      BY <3>1, MsgIsMessage
    <3> QED
      BY <3>2 DEF Msg
  <2>2. Say(r, m) /\ pc[r] = "announce"
    BY <1>9 DEF AnnounceMemory
  <2>3. Due(r) = {}
    BY <2>2 DEF Due, Stages
  <2> HIDE DEF m
  <2> QED
    BY <1>0, <2>1, <2>2, <2>3, SaidAttended
<1>10. CASE Fail(r)
  BY <1>0, <1>10 DEF Fail, Goto, Attended
<1>11. CASE UNCHANGED messages /\ ~Fail(r) /\ ~Invoke(r)
  <2>1. Due(r) \subseteq Due(r)'
    <3>1. CASE UNCHANGED pc /\ call'[r] # None /\ call[r] # None
      BY <3>1 DEF Due
    <3>2. CASE Select(r)
      <4>1. pc[r] \in Stages /\ call[r] # None /\ call'[r] = None /\ pc'[r] = AfterCall[pc[r]]
        BY <1>0, <3>2, StageIs DEF Select, Goto
      <4> QED
        BY <4>1 DEF Due, Stages, AfterCall
    <3>3. CASE pc[r] \notin Stages /\ call'[r] = None /\ Moves(r)
      BY <3>3 DEF Due, Moves, Stages, AgentOf, Last
    <3> QED
      BY <1>0, <1>11, <3>1, <3>2, <3>3, StepsAre
  <2> QED
    BY <1>0, <1>11, <2>1 DEF Attended, Invocations
<1> QED
  <2>1. CASE Start(r) \/ PutTask(r) \/ PutPlan(r) \/ PutEvidence(r) \/ PutCodeResult(r)
             \/ Invoke(r) \/ Answer(r) \/ AnnounceMemory(r) \/ Fail(r)
    BY <2>1, <1>1, <1>3, <1>4, <1>5, <1>6, <1>7, <1>8, <1>9, <1>10
  <2>2. CASE ~(Start(r) \/ PutTask(r) \/ PutPlan(r) \/ PutEvidence(r) \/ PutCodeResult(r)
               \/ Invoke(r) \/ Answer(r) \/ AnnounceMemory(r) \/ Fail(r))
    <3>1. UNCHANGED messages
      BY <2>2 DEF RunStep, PutRefinedPlan, PutRefinedEvidence, PutSummary, RunSandbox, ReadState,
         SearchMemory, IncrementReuse, LogHits, Select, CommitRunMemory, MarkState,
         CommitGlobalMemory, LogMessage, WriteTrace, Finish
    <3> QED
      BY <2>2, <3>1, <1>11
  <2> QED
    BY <2>1, <2>2

AttendedInv == \A r \in Runs : Attended(r)

LEMMA AttendedInvariant == Spec => []AttendedInv
<1>1. Init => AttendedInv
  BY DEF Init, AttendedInv, Attended
<1>2. TypeInv /\ AttendedInv /\ [Next]_vars => AttendedInv'
  <2> SUFFICES ASSUME TypeInv, AttendedInv, [Next]_vars, NEW q \in Runs
               PROVE  Attended(q)'
    BY DEF AttendedInv
  <2>1. CASE Own(q)' = Own(q)
    <3>1. pc'[q] = pc[q] /\ call'[q] = call[q] /\ messages'[q] = messages[q]
      BY <2>1 DEF Own
    <3>2. Due(q)' = Due(q) /\ Invocations(q)' = Invocations(q)
      BY <3>1 DEF Due, Invocations
    <3> QED
      BY <3>1, <3>2 DEF AttendedInv, Attended
  <2>2. CASE Next
    <3>1. PICK r \in Runs : RunStep(r) \/ Fail(r)
      BY <2>2 DEF Next
    <3>2. CASE q = r
      BY <3>1, <3>2, AttendedStep DEF TypeInv, AttendedInv
    <3>3. CASE q # r
      BY <2>1, <3>1, <3>3, OthersStay DEF TypeInv
    <3> QED
      BY <3>2, <3>3
  <2>3. CASE UNCHANGED vars
    BY <2>1, <2>3 DEF Own, vars
  <2> QED
    BY <2>2, <2>3
<1> QED
  BY <1>1, <1>2, TypeInvariant, PTL DEF Spec

\* Whatever the planner decides and the tool advises, an agent to whom a state was
\* announced has been invoked after it by the time the run is done.
THEOREM AnnouncementsAreHeeded == Spec => []AnnouncedAreInvoked
<1>1. AttendedInv => AnnouncedAreInvoked
  BY DEF AttendedInv, Attended, AnnouncedAreInvoked, Due, Stages
<1> QED
  BY <1>1, AttendedInvariant, PTL

-----------------------------------------------------------------------------
(* The rows a run leaves.                                                   *)

\* agent_io has a row for each invocation but the one that is open, the last.
RowsFit(r) ==
    LET asked == Cardinality(Invocations(r))
    IN  /\ pc[r] # "failed" =>
              asked = Len(agentIo[r]) + IF call[r] = None THEN 0 ELSE 1
        /\ Len(agentIo[r]) <= asked /\ asked <= Len(agentIo[r]) + 1
        /\ \A n \in Invocations(r) :
              /\ Nth(r, n) <= Len(agentIo[r]) => agentIo[r][Nth(r, n)] = messages[r][n].target
              /\ call[r] # None /\ Nth(r, n) = asked => messages[r][n].target = AgentOf[pc[r]]

\* The call is to search and has not yet.
ToSearch(r) == pc[r] \in {"search", "research"} /\ call[r] # None /\ ~call[r].searched

\* Every search belongs to an invocation that searches.
SearchesFit(r) ==
    /\ searches[r] + (IF ToSearch(r) THEN 1 ELSE 0)
          <= (IF "memory.semantic_search" \in Asked(r) THEN 1 ELSE 0)
             + (IF "evidence.refine" \in Asked(r) THEN 1 ELSE 0)
    /\ "memory.semantic_search" \in Asked(r) \/ pc[r] \in {"search", "put_evidence"} =>
          decision[r].retrieval

\* The hits the open search has still to log.
Unlogged(r) == IF pc[r] = "search" /\ call[r] # None THEN call[r].unlogged ELSE {}

\* Every hit is logged before the search is answered.
HitsFit(r) ==
    /\ call[r] # None /\ call[r].answered =>
          call[r].unlogged = {} /\ ~ToSearch(r)
    /\ pc[r] # "failed" =>
          {"memory.semantic_search"} \X (hits[r] \ Unlogged(r)) \subseteq hitLog[r]

\* A round of feedback leaves its state, and nothing else does.
FeedbackFits(r) ==
    /\ Has(r, "refined_plan") => "plan.refine" \in Asked(r)
    /\ Has(r, "refined_evidence") => "evidence.refine" \in Asked(r)
    /\ pc[r] = "put_refined_plan" => "plan.refine" \in Done(r)
    /\ pc[r] = "put_refined_evidence" => "evidence.refine" \in Done(r)
    /\ pc[r] \notin {"failed", "put_refined_plan"} /\ "plan.refine" \in Done(r) =>
          Has(r, "refined_plan")
    /\ pc[r] \notin {"failed", "put_refined_evidence"} /\ "evidence.refine" \in Done(r) =>
          Has(r, "refined_evidence")

\* The row of the trace is written at the end, and stays true.
TraceFits(r) ==
    trace[r] # None =>
        /\ pc[r] \in {"close", "done", "failed"}
        /\ logged[r] = Len(messages[r])
        /\ Len(agentIo[r]) = Cardinality(Invocations(r))
        /\ searches[r] <= trace[r].queries + Cardinality(AskedFor(r, "evidence.refine"))
        /\ trace[r].reused <= trace[r].scored
        /\ trace[r].rounds = IF AskedFor(r, "evidence.refine") \cup AskedFor(r, "plan.refine") = {}
                             THEN 0 ELSE 1

Recorded(r) ==
    /\ logged[r] > 0 => Has(r, "summary")
    /\ RowsFit(r) /\ SearchesFit(r) /\ HitsFit(r) /\ FeedbackFits(r) /\ TraceFits(r)

\* What a step of another run leaves alone besides.
Rows(q) == <<hits[q], searches[q], logged[q], agentIo[q], hitLog[q], trace[q]>>

LEMMA RowsOfOthersStay ==
    ASSUME TypeOK, NEW r \in Runs, RunStep(r) \/ Fail(r), NEW q \in Runs \ {r}
    PROVE  Rows(q)' = Rows(q)
<1>1. /\ hits'[q] = hits[q] /\ searches'[q] = searches[q] /\ logged'[q] = logged[q]
      /\ agentIo'[q] = agentIo[q] /\ hitLog'[q] = hitLog[q] /\ trace'[q] = trace[q]
  <2> USE DEF TypeOK
  <2>1. CASE SearchMemory(r)
    BY <2>1 DEF SearchMemory
  <2>2. CASE LogHits(r) \/ Select(r) \/ LogMessage(r) \/ WriteTrace(r)
    BY <2>2 DEF LogHits, Select, LogMessage, WriteTrace
  <2>3. CASE UNCHANGED <<hits, searches, logged, agentIo, hitLog, trace>>
    BY <2>3
  <2> QED
    BY <2>1, <2>2, <2>3 DEF RunStep, Start, PutTask, PutPlan, PutEvidence, RunSandbox,
       PutCodeResult, PutRefinedPlan, PutRefinedEvidence, PutSummary, Invoke, ReadState,
       IncrementReuse, Answer, CommitRunMemory, MarkState, CommitGlobalMemory, AnnounceMemory,
       Finish, Fail
<1> QED
  BY <1>1 DEF Rows

\* The invocations of a run are counted.
LEMMA InvocationsCount ==
    ASSUME TypeOK, NEW r \in Runs
    PROVE  /\ IsFiniteSet(Invocations(r)) /\ Cardinality(Invocations(r)) \in Nat
           /\ \A n \in Invocations(r) : Nth(r, n) \in Nat /\ Nth(r, n) <= Cardinality(Invocations(r))
           /\ \A n \in Invocations(r) : n \in Nat /\ n <= Len(messages[r])
<1>1. /\ messages[r] \in Seq(Message) /\ Len(messages[r]) \in Nat
      /\ DOMAIN messages[r] = 1 .. Len(messages[r])
  BY DEF TypeOK
<1>2. IsFiniteSet(1 .. Len(messages[r])) /\ Invocations(r) \subseteq 1 .. Len(messages[r])
  BY <1>1, FS_Interval DEF Invocations
<1>3. IsFiniteSet(Invocations(r)) /\ Cardinality(Invocations(r)) \in Nat
  BY <1>2, FS_Subset, FS_CardinalityType
<1>4. ASSUME NEW n \in Invocations(r)
      PROVE  Nth(r, n) \in Nat /\ Nth(r, n) <= Cardinality(Invocations(r))
  <2>1. {m \in Invocations(r) : m <= n} \subseteq Invocations(r)
    OBVIOUS
  <2> QED
    BY <1>3, <2>1, FS_Subset, FS_CardinalityType DEF Nth
<1> QED
  BY <1>1, <1>2, <1>3, <1>4

\* One step invokes, at the end of the messages; the others leave them as they are.
LEMMA InvocationsStep ==
    ASSUME TypeOK, NEW r \in Runs, Shape(r), AskedFits(r), RunStep(r) \/ Fail(r)
    PROVE  /\ \A n \in Invocations(r) : messages'[r][n] = messages[r][n] /\ Nth(r, n)' = Nth(r, n)
           /\ ~Invoke(r) => Invocations(r)' = Invocations(r)
           /\ Invoke(r) => \E last \in Invocations(r)' :
                 /\ Invocations(r)' = Invocations(r) \cup {last} /\ last \notin Invocations(r)
                 /\ messages'[r][last].target = AgentOf[pc[r]]
                 /\ Cardinality(Invocations(r)') = Cardinality(Invocations(r)) + 1
                 /\ Nth(r, last)' = Cardinality(Invocations(r)) + 1
<1>0. TypeOK /\ Shape(r) /\ AskedFits(r)
  OBVIOUS
<1>1. CASE Start(r) /\ messages'[r] \in {<<>>, HandshakeMessages}
  <2>1. Invocations(r)' = {}
    BY <1>1, Hello DEF Invocations, Greetings
  <2>2. call[r] = None /\ ~Invoke(r) /\ pc[r] = "start"
    BY <1>0, <1>1 DEF Start, Shape, Invoke, Stages
  <2>3. Invocations(r) = {}
    BY <1>0, <2>2 DEF AskedFits, Done, Asked
  <2> QED
    BY <2>1, <2>2, <2>3
<1>2. ASSUME NEW m, Says(r, m)
      PROVE  \E last \in Nat :
               /\ \A n \in Invocations(r) : messages'[r][n] = messages[r][n] /\ n < last
               /\ messages'[r][last] = m
               /\ Invocations(r)' = Invocations(r) \cup (IF m.type = "INVOKE" THEN {last} ELSE {})
  BY <1>0, <1>2, SaidLast DEF Invocations
<1>3. ASSUME NEW m, Says(r, m), m.type # "INVOKE", ~Invoke(r)
      PROVE  /\ \A n \in Invocations(r) : messages'[r][n] = messages[r][n] /\ Nth(r, n)' = Nth(r, n)
             /\ Invocations(r)' = Invocations(r)
  BY <1>2, <1>3 DEF Nth
<1>4. CASE Invoke(r) /\ Says(r, Msg("INVOKE", SourceOf(r), AgentOf[pc[r]], ActionOf[pc[r]], RefsOf(r)))
  <2> DEFINE msg == Msg("INVOKE", SourceOf(r), AgentOf[pc[r]], ActionOf[pc[r]], RefsOf(r))
  <2>1. PICK m : Says(r, m) /\ m.type = "INVOKE" /\ m.target = AgentOf[pc[r]]
    <3>1. msg.type = "INVOKE" /\ msg.target = AgentOf[pc[r]]
      BY DEF Msg
    <3>2. Says(r, msg)
      BY <1>4
    <3> HIDE DEF msg
    <3> QED
      BY <3>1, <3>2
  <2> HIDE DEF msg
  <2>2. PICK last \in Nat :
          /\ \A n \in Invocations(r) : messages'[r][n] = messages[r][n] /\ n < last
          /\ messages'[r][last] = m
          /\ Invocations(r)' = Invocations(r) \cup {last}
    BY <1>2, <2>1
  <2>3. \A n \in Invocations(r) : n \in Nat
    BY <1>0, InvocationsCount
  <2>4. last \notin Invocations(r)
    BY <2>2, <2>3
  <2>5. Cardinality(Invocations(r)') = Cardinality(Invocations(r)) + 1
    BY <1>0, <2>2, <2>4, InvocationsCount, FS_AddElement
  <2>6. {k \in Invocations(r)' : k <= last} = Invocations(r)'
    BY <2>2, <2>3
  <2>7. \A n \in Invocations(r) :
          {k \in Invocations(r)' : k <= n} = {k \in Invocations(r) : k <= n}
    BY <2>2, <2>3
  <2>8. /\ Nth(r, last)' = Cardinality(Invocations(r)')
        /\ \A n \in Invocations(r) : Nth(r, n)' = Nth(r, n)
    BY <2>6, <2>7 DEF Nth
  <2> QED
    BY <1>4, <2>1, <2>2, <2>4, <2>5, <2>8
<1>5. CASE Answer(r) /\ Says(r, Reply(r))
  <2>1. Reply(r).type # "INVOKE" /\ ~Invoke(r)
    BY <1>5 DEF Reply, Msg, Answer, Invoke
  <2> QED
    BY <1>3, <1>5, <2>1
<1>6. CASE UNCHANGED messages /\ ~Invoke(r)
  BY <1>6 DEF Invocations, Nth
<1>7. CASE pc[r] \notin Stages /\ \E m : Says(r, m) /\ m.type \in {"STATE_REF", "MEMORY_PUT"}
  <2>1. ~Invoke(r)
    BY <1>7 DEF Invoke
  <2> QED
    BY <1>3, <1>7, <2>1
<1> QED
  BY <1>0, <1>1, <1>4, <1>5, <1>6, <1>7, SpeechIs

\* Only the end of an invocation adds to agent_io.
LEMMA AgentIoStep ==
    ASSUME TypeOK, NEW r \in Runs, RunStep(r) \/ Fail(r)
    PROVE  /\ ~Select(r) => agentIo'[r] = agentIo[r]
           /\ Select(r) => /\ Len(agentIo'[r]) = Len(agentIo[r]) + 1
                           /\ \A n \in 1 .. Len(agentIo[r]) : agentIo'[r][n] = agentIo[r][n]
                           /\ agentIo'[r][Len(agentIo[r]) + 1] = AgentOf[pc[r]]
           /\ Len(agentIo[r]) \in Nat
<1>0. agentIo \in [Runs -> Seq(Agents)] /\ Len(agentIo[r]) \in Nat
  BY DEF TypeOK
<1>1. CASE Select(r)
  <2>1. agentIo'[r] = Append(agentIo[r], AgentOf[pc[r]]) /\ agentIo[r] \in Seq(Agents)
    BY <1>0, <1>1 DEF Select
  <2> QED
    BY <1>0, <1>1, <2>1
<1>2. CASE ~Select(r)
  BY <1>0, <1>2 DEF RunStep, Start, PutTask, PutPlan, PutEvidence, RunSandbox,
     PutCodeResult, PutRefinedPlan, PutRefinedEvidence, PutSummary, Invoke, ReadState, SearchMemory,
     IncrementReuse, LogHits, Answer, CommitRunMemory, MarkState, CommitGlobalMemory, AnnounceMemory,
     LogMessage, WriteTrace, Finish, Fail
<1> QED
  BY <1>0, <1>1, <1>2

LEMMA RowsStep ==
    ASSUME TypeOK, NEW r \in Runs, Shape(r), AskedFits(r), RowsFit(r), RunStep(r) \/ Fail(r)
    PROVE  RowsFit(r)'
<1>0. /\ TypeOK /\ Shape(r) /\ AskedFits(r) /\ RowsFit(r)
      /\ pc \in [Runs -> PCs] /\ call \in [Runs -> Call \cup {None}] /\ pc[r] # "failed"
  BY GoesForward DEF TypeOK
<1> DEFINE asked == Cardinality(Invocations(r))
           rows == agentIo[r]
<1>1. /\ asked \in Nat /\ Len(rows) \in Nat
      /\ \A n \in Invocations(r) : Nth(r, n) \in Nat /\ Nth(r, n) <= asked
  BY <1>0, InvocationsCount, AgentIoStep
<1>2. /\ asked = Len(rows) + IF call[r] = None THEN 0 ELSE 1
      /\ \A n \in Invocations(r) :
            /\ Nth(r, n) <= Len(rows) => rows[Nth(r, n)] = messages[r][n].target
            /\ call[r] # None /\ Nth(r, n) = asked => messages[r][n].target = AgentOf[pc[r]]
  BY <1>0 DEF RowsFit
<1>3. \A n \in Invocations(r) : messages'[r][n] = messages[r][n] /\ Nth(r, n)' = Nth(r, n)
  BY <1>0, InvocationsStep
<1>4. CASE Invoke(r)
  <2>1. call[r] = None /\ call'[r] # None /\ UNCHANGED pc /\ agentIo'[r] = rows
    BY <1>0, <1>4, InvokeCalls DEF Invoke
  <2>2. PICK last \in Invocations(r)' :
          /\ Invocations(r)' = Invocations(r) \cup {last} /\ last \notin Invocations(r)
          /\ messages'[r][last].target = AgentOf[pc[r]]
          /\ Cardinality(Invocations(r)') = asked + 1
          /\ Nth(r, last)' = asked + 1
    BY <1>0, <1>4, InvocationsStep
  <2>3. asked = Len(rows)
    BY <1>2, <2>1
  <2>4. ASSUME NEW n \in Invocations(r)'
        PROVE  /\ Nth(r, n)' <= Len(rows) => rows[Nth(r, n)'] = messages'[r][n].target
               /\ Nth(r, n)' = asked + 1 => messages'[r][n].target = AgentOf[pc[r]]
    <3>1. CASE n = last
      BY <1>1, <2>2, <2>3, <3>1
    <3>2. CASE n \in Invocations(r)
      <4>1. Nth(r, n)' # asked + 1
        BY <1>1, <1>3, <3>2
      <4> QED
        BY <1>2, <1>3, <3>2, <4>1
    <3> QED
      BY <2>2, <3>1, <3>2
  <2>5. /\ Len(agentIo'[r]) = asked /\ Cardinality(Invocations(r)') = asked + 1
        /\ pc'[r] = pc[r]
    BY <2>1, <2>2, <2>3
  <2>6. \A n \in Invocations(r)' :
           /\ Nth(r, n)' <= Len(agentIo'[r]) => agentIo'[r][Nth(r, n)'] = messages'[r][n].target
           /\ Nth(r, n)' = asked + 1 => messages'[r][n].target = AgentOf[pc'[r]]
    BY <2>1, <2>4
  <2> HIDE DEF asked, rows
  <2> QED
    BY <1>1, <2>1, <2>5, <2>6 DEF RowsFit
<1>5. CASE ~Invoke(r)
  <2>1. Invocations(r)' = Invocations(r)
    BY <1>0, <1>5, InvocationsStep
  <2>2. CASE Select(r)
    <3>1. call[r] # None /\ call'[r] = None
      BY <1>0, <2>2 DEF Select
    <3>2. /\ Len(agentIo'[r]) = Len(rows) + 1
          /\ \A n \in 1 .. Len(rows) : agentIo'[r][n] = rows[n]
          /\ agentIo'[r][Len(rows) + 1] = AgentOf[pc[r]]
      BY <1>0, <2>2, AgentIoStep
    <3>3. asked = Len(rows) + 1
      BY <1>2, <3>1
    <3>4. ASSUME NEW n \in Invocations(r)
          PROVE  agentIo'[r][Nth(r, n)] = messages[r][n].target
      <4>0. Nth(r, n) >= 1
        <5>1. n \in {m \in Invocations(r) : m <= n}
          BY <1>0, InvocationsCount
        <5>2. IsFiniteSet({m \in Invocations(r) : m <= n})
          BY <1>0, InvocationsCount, FS_Subset
        <5>3. Cardinality({m \in Invocations(r) : m <= n}) # 0
          BY <5>1, <5>2, FS_EmptySet
        <5> QED
          BY <1>1, <5>3 DEF Nth
      <4>1. CASE Nth(r, n) = asked
        BY <1>2, <3>1, <3>2, <3>3, <4>1
      <4>2. CASE Nth(r, n) # asked
        <5>1. Nth(r, n) \in 1 .. Len(rows)
          BY <1>1, <3>3, <4>0, <4>2
        <5>2. Nth(r, n) <= Len(rows)
          BY <1>1, <3>3, <4>2
        <5>3. rows[Nth(r, n)] = messages[r][n].target
          BY <1>2, <5>2
        <5>4. agentIo'[r][Nth(r, n)] = rows[Nth(r, n)]
          BY <3>2, <5>1
        <5> QED
          BY <5>3, <5>4
      <4> QED
        BY <4>1, <4>2
    <3> HIDE DEF asked, rows
    <3> QED
      BY <1>1, <1>3, <2>1, <3>1, <3>2, <3>3, <3>4 DEF RowsFit, asked, rows
  <2>3. CASE ~Select(r)
    <3>1. agentIo'[r] = rows
      BY <1>0, <2>3, AgentIoStep
    <3>2. CASE Fail(r)
      <4>1. call'[r] = None /\ pc'[r] = "failed"
        BY <1>0, <3>2 DEF Fail, Goto
      <4> QED
        BY <1>0, <1>3, <2>1, <3>1, <4>1 DEF RowsFit
    <3>3. CASE call'[r] # None /\ call[r] # None /\ UNCHANGED pc
      BY <1>0, <1>3, <2>1, <3>1, <3>3 DEF RowsFit
    <3>4. CASE call'[r] = None /\ call[r] = None
      BY <1>0, <1>3, <2>1, <3>1, <3>4 DEF RowsFit
    <3> QED
      BY <1>0, <1>5, <2>3, <3>2, <3>3, <3>4, StepsAre
  <2> QED
    BY <2>2, <2>3
<1> QED
  BY <1>4, <1>5

\* No capability is asked for twice.
LEMMA ActionIsNew ==
    ASSUME TypeOK, NEW r \in Runs, Shape(r), AskedFits(r), Invoke(r)
    PROVE  /\ ActionOf[pc[r]] \notin Asked(r) /\ Asked(r)' = Asked(r) \cup {ActionOf[pc[r]]}
           /\ call[r] = None /\ pc[r] \in Stages /\ UNCHANGED pc
<1>1. call[r] = None /\ pc[r] \in Stages /\ UNCHANGED pc /\ RunStep(r)
  BY DEF Invoke, RunStep
<1>2. Asked(r)' = Asked(r) \cup {ActionOf[pc[r]]}
  BY <1>1, AskStep
<1>3. ActionOf[pc[r]] \notin Asked(r)
  BY <1>1 DEF AskedFits, Done, Stages, ActionOf, Planned, Searched, Executed, Replanned
<1> QED
  BY <1>1, <1>2, <1>3

\* The steps that do not work on a call leave it alone, and the hits too.
LEMMA CallStays ==
    ASSUME TypeOK, NEW r \in Runs, Shape(r), RunStep(r),
           ~Invoke(r), ~SearchMemory(r), ~LogHits(r), ~Answer(r), ~Select(r)
    PROVE  /\ UNCHANGED <<hits, searches, hitLog>>
           /\ call'[r] = None <=> call[r] = None
           /\ call[r] # None => /\ UNCHANGED pc
                                /\ call'[r].searched = call[r].searched
                                /\ call'[r].unlogged = call[r].unlogged
                                /\ call'[r].answered = call[r].answered
<1>0. /\ TypeOK /\ Shape(r) /\ call \in [Runs -> Call \cup {None}]
      /\ call[r] # None => call[r] \in Call
  BY StageIs DEF TypeOK
<1>1. CASE ReadState(r)
  <2>1. PICK k : call' = [call EXCEPT ![r].unread = @ \ {k}]
    BY <1>1 DEF ReadState
  <2>2. call[r] # None /\ UNCHANGED <<pc, hits, searches, hitLog>> /\ ~Invoke(r)
    BY <1>1 DEF ReadState, Invoke
  <2>3. call'[r] # None
    <3>1. call[r] \in Call
      BY <1>0, <2>2
    <3>2. call'[r] = [call[r] EXCEPT !.unread = @ \ {k}]
      BY <1>0, <2>1
    <3>3. [call[r] EXCEPT !.unread = @ \ {k}] \in Call
      BY <3>1 DEF Call
    <3> QED
      BY <3>2, <3>3, NoneIsNoCall
  <2> QED
    BY <1>0, <2>1, <2>2, <2>3 DEF Call
<1>2. CASE IncrementReuse(r)
  <2>1. PICK u : call' = [call EXCEPT ![r].unbumped = @ \ {u}]
    BY <1>2 DEF IncrementReuse
  <2>2. call[r] # None /\ UNCHANGED <<pc, hits, searches, hitLog>> /\ ~Invoke(r)
    BY <1>2 DEF IncrementReuse, Invoke
  <2>3. call'[r] # None
    <3>1. call[r] \in Call
      BY <1>0, <2>2
    <3>2. call'[r] = [call[r] EXCEPT !.unbumped = @ \ {u}]
      BY <1>0, <2>1
    <3>3. [call[r] EXCEPT !.unbumped = @ \ {u}] \in Call
      BY <3>1 DEF Call
    <3> QED
      BY <3>2, <3>3, NoneIsNoCall
  <2> QED
    BY <1>0, <2>1, <2>2, <2>3 DEF Call
<1>3. CASE UNCHANGED <<call, hits, searches, hitLog>>
  <2>1. SUFFICES ASSUME call[r] # None PROVE UNCHANGED pc
    BY <1>3
  <2>2. call'[r] # None
    BY <1>3, <2>1
  <2>3. ~Fail(r)
    BY <1>0, <2>2 DEF Fail
  <2> QED
    BY <1>0, <2>1, <2>2, <2>3, StepsAre
<1> QED
  BY <1>1, <1>2, <1>3 DEF RunStep, Start, PutTask, PutPlan, PutEvidence, RunSandbox,
     PutCodeResult, PutRefinedPlan, PutRefinedEvidence, PutSummary,
     CommitRunMemory, MarkState, CommitGlobalMemory, AnnounceMemory,
     LogMessage, WriteTrace, Finish

\* The call that Invoke makes is fresh, and the others keep what they do not change.
LEMMA CallIs ==
    ASSUME TypeOK, NEW r \in Runs, Shape(r)
    PROVE  /\ Invoke(r) => /\ call'[r] # None /\ call'[r].unlogged = {}
                           /\ ~call'[r].searched /\ ~call'[r].answered
           /\ SearchMemory(r) => \E H \in SUBSET Units :
                 /\ call'[r] # None /\ call'[r].searched /\ call'[r].unlogged = H
                 /\ call'[r].answered = call[r].answered
                 /\ hits'[r] = IF pc[r] = "search" THEN H ELSE hits[r]
           /\ LogHits(r) => /\ call'[r] # None /\ call'[r].unlogged = {}
                            /\ call'[r].searched = call[r].searched
                            /\ call'[r].answered = call[r].answered
           /\ Answer(r) => /\ call'[r] # None /\ call'[r].unlogged = {}
                           /\ call'[r].searched = call[r].searched
           /\ Select(r) => call'[r] = None
<1>0. /\ TypeOK /\ Shape(r) /\ call \in [Runs -> Call \cup {None}]
      /\ hits \in [Runs -> SUBSET Units]
      /\ call[r] # None => call[r] \in Call
  BY StageIs DEF TypeOK
<1>1. ASSUME Invoke(r)
      PROVE  /\ call'[r] # None /\ call'[r].unlogged = {}
             /\ ~call'[r].searched /\ ~call'[r].answered
  <2>1. call'[r] # None
    BY <1>0, <1>1, InvokeCalls
  <2>2. call'[r] = [source |-> SourceOf(r), refs |-> RefsOf(r),
                    unread |-> IF ReadsStates(r) THEN RefsOf(r) ELSE {},
                    unbumped |-> {}, unlogged |-> {},
                    searched |-> FALSE, answered |-> FALSE]
    BY <1>0, <1>1 DEF Invoke
  <2>3. call'[r].unlogged = {} /\ ~call'[r].searched /\ ~call'[r].answered
    BY <2>2
  <2> QED
    BY <2>1, <2>3
<1>2. ASSUME SearchMemory(r)
      PROVE  \E H \in SUBSET Units :
                 /\ call'[r] # None /\ call'[r].searched /\ call'[r].unlogged = H
                 /\ call'[r].answered = call[r].answered
                 /\ hits'[r] = IF pc[r] = "search" THEN H ELSE hits[r]
  <2>1. PICK H \in SUBSET Stored :
           /\ call' = [call EXCEPT ![r].searched = TRUE, ![r].unbumped = H, ![r].unlogged = H]
           /\ hits' = IF pc[r] = "search" THEN [hits EXCEPT ![r] = H] ELSE hits
    BY <1>2 DEF SearchMemory
  <2> DEFINE c == [call[r] EXCEPT !.searched = TRUE, !.unbumped = H, !.unlogged = H]
  <2>2. call[r] \in Call /\ H \in SUBSET Units
    BY <1>0, <1>2 DEF SearchMemory, Stored
  <2>3. /\ c \in Call /\ c.searched /\ c.unlogged = H /\ c.answered = call[r].answered
    BY <2>2 DEF Call
  <2>4. call'[r] = c
    BY <1>0, <2>1
  <2>5. hits'[r] = IF pc[r] = "search" THEN H ELSE hits[r]
    BY <1>0, <2>1
  <2> HIDE DEF c
  <2> QED
    BY <2>2, <2>3, <2>4, <2>5, NoneIsNoCall
<1>3. ASSUME LogHits(r)
      PROVE  /\ call'[r] # None /\ call'[r].unlogged = {}
             /\ call'[r].searched = call[r].searched
             /\ call'[r].answered = call[r].answered
  <2> DEFINE c == [call[r] EXCEPT !.unlogged = {}]
  <2>1. call[r] \in Call /\ call'[r] = c
    BY <1>0, <1>3 DEF LogHits
  <2>2. /\ c \in Call /\ c.unlogged = {} /\ c.searched = call[r].searched
        /\ c.answered = call[r].answered
    BY <2>1 DEF Call
  <2> HIDE DEF c
  <2> QED
    BY <2>1, <2>2, NoneIsNoCall
<1>4. ASSUME Answer(r)
      PROVE  /\ call'[r] # None /\ call'[r].unlogged = {}
             /\ call'[r].searched = call[r].searched
  <2> DEFINE c == [call[r] EXCEPT !.answered = TRUE]
  <2>1. call[r] \in Call /\ call'[r] = c /\ call[r].unlogged = {}
    BY <1>0, <1>4 DEF Answer
  <2>2. /\ c \in Call /\ c.unlogged = {} /\ c.searched = call[r].searched
    BY <2>1 DEF Call
  <2> HIDE DEF c
  <2> QED
    BY <2>1, <2>2, NoneIsNoCall
<1>5. ASSUME Select(r) PROVE call'[r] = None
  BY <1>0, <1>5 DEF Select
<1> QED
  BY <1>1, <1>2, <1>3, <1>4, <1>5

LEMMA SearchesStep ==
    ASSUME TypeOK, NEW r \in Runs, Shape(r), AskedFits(r), SearchesFit(r), RunStep(r) \/ Fail(r)
    PROVE  SearchesFit(r)'
<1>0. /\ TypeOK /\ Shape(r) /\ AskedFits(r) /\ SearchesFit(r)
      /\ pc \in [Runs -> PCs] /\ call \in [Runs -> Call \cup {None}]
      /\ searches \in [Runs -> Nat] /\ searches[r] \in Nat
  BY DEF TypeOK
<1> DEFINE semantic == "memory.semantic_search"
           refine == "evidence.refine"
           Allowed(A) == (IF semantic \in A THEN 1 ELSE 0) + (IF refine \in A THEN 1 ELSE 0)
<1>1. searches[r] + (IF ToSearch(r) THEN 1 ELSE 0) <= Allowed(Asked(r))
  BY <1>0 DEF SearchesFit
<1>2. Asked(r)' = IF Invoke(r) THEN Asked(r) \cup {ActionOf[pc[r]]} ELSE Asked(r)
  BY <1>0, AskStep
<1>3. searches'[r] + (IF ToSearch(r)' THEN 1 ELSE 0) <= Allowed(Asked(r)')
  <2>1. CASE Invoke(r)
    <3>1. /\ ActionOf[pc[r]] \notin Asked(r) /\ call[r] = None /\ UNCHANGED <<pc, searches>>
          /\ Asked(r)' = Asked(r) \cup {ActionOf[pc[r]]} /\ pc[r] \in Stages
      BY <1>0, <2>1, ActionIsNew DEF Invoke
    <3>2. ~ToSearch(r) /\ (ToSearch(r)' <=> pc[r] \in {"search", "research"})
      BY <1>0, <2>1, <3>1, CallIs DEF ToSearch
    <3>3. CASE pc[r] \in {"search", "research"}
      <4>1. Allowed(Asked(r)') = Allowed(Asked(r)) + 1
        BY <3>1, <3>3 DEF ActionOf
      <4> HIDE DEF Allowed
      <4>2. Allowed(Asked(r)) \in Nat
        BY DEF Allowed
      <4> QED
        BY <1>0, <1>1, <3>1, <3>2, <3>3, <4>1, <4>2
    <3>4. CASE pc[r] \notin {"search", "research"}
      <4>1. Allowed(Asked(r)) <= Allowed(Asked(r)')
        BY <3>1
      <4>2. Allowed(Asked(r)) \in Nat /\ Allowed(Asked(r)') \in Nat
        OBVIOUS
      <4> HIDE DEF Allowed
      <4> QED
        BY <1>0, <1>1, <3>1, <3>2, <3>4, <4>1, <4>2
    <3> QED
      BY <3>3, <3>4
  <2>2. CASE ~Invoke(r)
    <3>1. Asked(r)' = Asked(r)
      BY <1>2, <2>2
    <3>2. searches'[r] + (IF ToSearch(r)' THEN 1 ELSE 0)
             <= searches[r] + (IF ToSearch(r) THEN 1 ELSE 0)
      <4>1. CASE SearchMemory(r)
        <5>1. ToSearch(r) /\ ~ToSearch(r)'
          BY <1>0, <4>1, CallIs DEF SearchMemory, ToSearch
        <5>2. searches'[r] = searches[r] + 1 \/ searches'[r] = searches[r]
          BY <1>0, <4>1 DEF SearchMemory
        <5> QED
          BY <1>0, <5>1, <5>2
      <4>2. CASE ~SearchMemory(r)
        <5>1. searches'[r] = searches[r]
          BY <4>2 DEF RunStep, Start, PutTask, PutPlan, PutEvidence, RunSandbox,
             PutCodeResult, PutRefinedPlan, PutRefinedEvidence, PutSummary, Invoke, ReadState,
             IncrementReuse, LogHits, Answer, Select, CommitRunMemory, MarkState,
             CommitGlobalMemory, AnnounceMemory, LogMessage, WriteTrace, Finish, Fail
        <5>2. ToSearch(r)' => ToSearch(r)
          <6>1. CASE Fail(r) \/ Select(r)
            <7>1. call'[r] = None
              BY <1>0, <6>1 DEF Fail, Select
            <7> QED
              BY <7>1 DEF ToSearch
          <6>2. CASE LogHits(r) \/ Answer(r)
            <7>1. call[r] # None /\ UNCHANGED pc /\ call'[r].searched = call[r].searched
              BY <1>0, <6>2, CallIs DEF LogHits, Answer
            <7> QED
              BY <7>1 DEF ToSearch
          <6>3. CASE ~(Fail(r) \/ Select(r) \/ LogHits(r) \/ Answer(r))
            BY <1>0, <2>2, <4>2, <6>3, CallStays DEF ToSearch
          <6> QED
            BY <6>1, <6>2, <6>3
        <5> QED
          BY <1>0, <5>1, <5>2
      <4> QED
        BY <4>1, <4>2
    <3>3. Allowed(Asked(r)) \in Nat /\ searches'[r] \in Nat
      <4>1. TypeOK'
        BY <1>0, TypeStep
      <4>2. searches'[r] \in Nat
        BY <4>1 DEF TypeOK
      <4> QED
        BY <4>2
    <3> HIDE DEF Allowed
    <3> QED
      BY <1>0, <1>1, <3>1, <3>2, <3>3
  <2> QED
    BY <2>1, <2>2
<1>4. semantic \in Asked(r)' \/ pc'[r] \in {"search", "put_evidence"} => decision'[r].retrieval
  <2>1. CASE PutPlan(r)
    <3>1. PICK d \in Decisions : decision' = [decision EXCEPT ![r] = d] /\ pc'[r] = StageAfterPlan(d)
      BY <1>0, <2>1 DEF PutPlan, Goto
    <3>2. decision'[r] = d
      BY <1>0, <3>1 DEF TypeOK
    <3>3. pc[r] = "put_plan" /\ ~Invoke(r) /\ call[r] = None
      BY <1>0, <2>1 DEF PutPlan, Invoke, Stages, Shape
    <3>4. Asked(r)' = Planned
      BY <1>0, <1>2, <3>3 DEF AskedFits, Done
    <3>5. pc'[r] \in {"search", "put_evidence"} => d.retrieval
      BY <3>1 DEF StageAfterPlan, Decisions
    <3> QED
      BY <3>2, <3>4, <3>5 DEF Planned
  <2>2. CASE ~PutPlan(r)
    <3>1. decision'[r] = decision[r]
      BY <2>2 DEF RunStep, Start, PutTask, PutEvidence, RunSandbox,
         PutCodeResult, PutRefinedPlan, PutRefinedEvidence, PutSummary, Invoke, ReadState, SearchMemory,
         IncrementReuse, LogHits, Answer, Select, CommitRunMemory, MarkState,
         CommitGlobalMemory, AnnounceMemory, LogMessage, WriteTrace, Finish, Fail
    <3>2. semantic \in Asked(r)' => semantic \in Asked(r) \/ pc[r] = "search"
      <4>1. Invoke(r) => (pc[r] \in Stages)
        BY DEF Invoke
      <4> QED
        BY <1>2, <4>1 DEF ActionOf, Stages
    <3>3. pc'[r] \in {"search", "put_evidence"} => pc[r] \in {"search", "put_evidence"}
      <4>1. CASE Select(r)
        <5>1. pc[r] \in Stages /\ pc'[r] = AfterCall[pc[r]]
          BY <1>0, <4>1, StageIs DEF Select, Goto
        <5> QED
          BY <5>1 DEF Stages, AfterCall
      <4>2. CASE Moves(r)
        <5>1. pc[r] # "put_plan"
          <6>1. SUFFICES ASSUME pc[r] = "put_plan" PROVE FALSE
            OBVIOUS
          <6>2. pc'[r] = "failed"
            <7>1. Fail(r)
              BY <1>0, <2>2, <6>1 DEF RunStep, Start, PutTask, PutEvidence, RunSandbox,
                 PutCodeResult, PutRefinedPlan, PutRefinedEvidence, PutSummary, Invoke, ReadState,
                 SearchMemory, IncrementReuse, LogHits, Answer, Select, CommitRunMemory, MarkState,
                 CommitGlobalMemory, AnnounceMemory, LogMessage, WriteTrace, Finish, Shape, Stages
            <7> QED
              BY <1>0, <7>1 DEF Fail, Goto
          <6> QED
            BY <4>2, <6>1, <6>2 DEF Moves, Last
        <5> QED
          BY <4>2, <5>1 DEF Moves, Last
      <4>3. CASE Fail(r)
        BY <1>0, <4>3 DEF Fail, Goto
      <4>4. CASE Invoke(r)
        BY <4>4 DEF Invoke
      <4> QED
        BY <1>0, <4>1, <4>2, <4>3, <4>4, StepsAre
    <3> QED
      BY <1>0, <3>1, <3>2, <3>3 DEF SearchesFit
  <2> QED
    BY <2>1, <2>2
<1> QED
  BY <1>3, <1>4 DEF SearchesFit

LEMMA HitsStep ==
    ASSUME TypeOK, NEW r \in Runs, Shape(r), HitsFit(r), RunStep(r) \/ Fail(r)
    PROVE  HitsFit(r)'
<1>0. /\ TypeOK /\ Shape(r) /\ HitsFit(r)
      /\ call \in [Runs -> Call \cup {None}] /\ pc \in [Runs -> PCs]
      /\ hitLog \in [Runs -> SUBSET (Actions \X Units)] /\ pc[r] # "failed"
  BY GoesForward DEF TypeOK
<1> DEFINE ToLog == {"memory.semantic_search"} \X (hits[r] \ Unlogged(r))
<1>1. /\ call[r] # None /\ call[r].answered => call[r].unlogged = {} /\ ~ToSearch(r)
      /\ ToLog \subseteq hitLog[r]
  BY <1>0 DEF HitsFit
<1>2. CASE Fail(r)
  <2>1. pc'[r] = "failed" /\ call'[r] = None
    BY <1>0, <1>2 DEF Fail, Goto
  <2> QED
    BY <2>1 DEF HitsFit
<1>3. CASE Invoke(r)
  <2>1. /\ call'[r] # None /\ ~call'[r].answered /\ call'[r].unlogged = {}
        /\ call[r] = None /\ UNCHANGED <<hits, hitLog>>
    BY <1>0, <1>3, CallIs DEF Invoke
  <2>2. Unlogged(r) = {} /\ Unlogged(r)' = {}
    BY <2>1 DEF Unlogged
  <2> QED
    BY <1>1, <2>1, <2>2 DEF HitsFit
<1>4. CASE SearchMemory(r)
  <2>1. PICK H \in SUBSET Units :
          /\ call'[r] # None /\ call'[r].searched /\ call'[r].unlogged = H
          /\ call'[r].answered = call[r].answered
          /\ hits'[r] = IF pc[r] = "search" THEN H ELSE hits[r]
    BY <1>0, <1>4, CallIs
  <2>2. call[r] # None /\ ToSearch(r) /\ UNCHANGED <<pc, hitLog>>
    BY <1>4 DEF SearchMemory, ToSearch
  <2>3. ~call'[r].answered
    BY <1>1, <2>1, <2>2
  <2>4. hits'[r] \ Unlogged(r)' \subseteq hits[r] \ Unlogged(r)
    <3>1. CASE pc[r] = "search"
      BY <2>1, <2>2, <3>1 DEF Unlogged
    <3>2. CASE pc[r] # "search"
      BY <2>1, <2>2, <3>2 DEF Unlogged
    <3> QED
      BY <3>1, <3>2
  <2> QED
    BY <1>1, <2>2, <2>3, <2>4 DEF HitsFit
<1>5. CASE LogHits(r)
  <2>1. /\ call'[r] # None /\ call'[r].unlogged = {}
        /\ call'[r].searched = call[r].searched /\ call'[r].answered = call[r].answered
        /\ call[r] # None /\ UNCHANGED <<pc, hits>>
    BY <1>0, <1>5, CallIs DEF LogHits
  <2>2. hitLog'[r] = hitLog[r] \cup ({ActionOf[pc[r]]} \X call[r].unlogged)
    BY <1>0, <1>5 DEF LogHits
  <2>3. ToSearch(r)' <=> ToSearch(r)
    BY <2>1 DEF ToSearch
  <2>4. {"memory.semantic_search"} \X (hits'[r] \ Unlogged(r)') \subseteq hitLog'[r]
    <3>1. CASE pc[r] = "search"
      <4>1. ActionOf[pc[r]] = "memory.semantic_search" /\ Unlogged(r) = call[r].unlogged
        BY <2>1, <3>1 DEF ActionOf, Unlogged
      <4> QED
        BY <1>1, <2>1, <2>2, <4>1
    <3>2. CASE pc[r] # "search"
      BY <1>1, <2>1, <2>2, <3>2 DEF Unlogged
    <3> QED
      BY <3>1, <3>2
  <2> QED
    BY <1>1, <2>1, <2>3, <2>4 DEF HitsFit
<1>6. CASE Answer(r)
  <2>1. /\ call'[r] # None /\ call'[r].unlogged = {} /\ call'[r].searched = call[r].searched
        /\ call[r] # None /\ call[r].unlogged = {} /\ UNCHANGED <<pc, hits, hitLog>>
        /\ pc[r] \in {"search", "research"} => call[r].searched
    BY <1>0, <1>6, CallIs DEF Answer
  <2>2. ~ToSearch(r)' /\ Unlogged(r)' = Unlogged(r)
    BY <2>1 DEF ToSearch, Unlogged
  <2> QED
    BY <1>1, <2>1, <2>2 DEF HitsFit
<1>7. CASE Select(r)
  <2>1. call'[r] = None /\ call[r] # None /\ call[r].answered /\ UNCHANGED <<hits, hitLog>>
    BY <1>0, <1>7, CallIs DEF Select
  <2>2. Unlogged(r) = {} /\ Unlogged(r)' = {}
    BY <1>1, <2>1 DEF Unlogged
  <2> QED
    BY <1>1, <2>1, <2>2 DEF HitsFit
<1>8. CASE RunStep(r) /\ ~(Invoke(r) \/ SearchMemory(r) \/ LogHits(r) \/ Answer(r) \/ Select(r))
  <2>1. /\ UNCHANGED <<hits, hitLog>> /\ (call'[r] = None <=> call[r] = None)
        /\ call[r] # None => /\ UNCHANGED pc
                             /\ call'[r].searched = call[r].searched
                             /\ call'[r].unlogged = call[r].unlogged
                             /\ call'[r].answered = call[r].answered
    BY <1>0, <1>8, CallStays
  <2>2. Unlogged(r)' = Unlogged(r) /\ (ToSearch(r)' <=> ToSearch(r))
    BY <2>1 DEF Unlogged, ToSearch
  <2> QED
    BY <1>1, <2>1, <2>2 DEF HitsFit
<1> QED
  BY <1>2, <1>3, <1>4, <1>5, <1>6, <1>7, <1>8

\* An invocation that has ended is done; nothing else is.
LEMMA DoneStep ==
    ASSUME TypeOK, NEW r \in Runs, Shape(r), AskedFits(r), RunStep(r)
    PROVE  /\ Done(r)' = IF Select(r) THEN Done(r) \cup {ActionOf[pc[r]]} ELSE Done(r)
           /\ Asked(r) \subseteq Asked(r)'
<1>0. TypeOK /\ Shape(r) /\ AskedFits(r)
  OBVIOUS
<1>1. Asked(r)' = IF Invoke(r) THEN Asked(r) \cup {ActionOf[pc[r]]} ELSE Asked(r)
  BY <1>0, AskStep
<1>2. CASE Invoke(r)
  <2>1. ActionOf[pc[r]] \notin Asked(r) /\ call[r] = None /\ UNCHANGED pc
    BY <1>0, <1>2, ActionIsNew
  <2>2. call'[r] # None /\ ~Select(r)
    BY <1>0, <1>2, <2>1, InvokeCalls DEF Select
  <2> QED
    BY <1>1, <1>2, <2>1, <2>2 DEF Done
<1>3. CASE Select(r)
  <2>1. call[r] # None /\ call'[r] = None /\ ~Invoke(r)
    BY <1>0, <1>3, CallIs DEF Select, Invoke
  <2>2. ActionOf[pc[r]] \in Asked(r)
    BY <1>0, <2>1 DEF AskedFits
  <2> QED
    BY <1>1, <1>3, <2>1, <2>2 DEF Done
<1>4. CASE ~Invoke(r) /\ ~Select(r)
  <2>1. Asked(r)' = Asked(r)
    BY <1>1, <1>4
  <2>2. (call'[r] = None <=> call[r] = None) /\ (call[r] # None => UNCHANGED pc)
    <3>1. CASE SearchMemory(r) \/ LogHits(r) \/ Answer(r)
      <4>1. call[r] # None /\ UNCHANGED pc
        BY <3>1 DEF SearchMemory, LogHits, Answer
      <4>2. call'[r] # None
        BY <1>0, <3>1, CallIs
      <4> QED
        BY <4>1, <4>2
    <3>2. CASE ~(SearchMemory(r) \/ LogHits(r) \/ Answer(r))
      BY <1>0, <1>4, <3>2, CallStays
    <3> QED
      BY <3>1, <3>2
  <2> QED
    BY <1>4, <2>1, <2>2 DEF Done
<1> QED
  BY <1>2, <1>3, <1>4

\* The stages that put the states of a feedback round do nothing else.
LEMMA FeedbackPuts ==
    ASSUME TypeOK, NEW r \in Runs, Shape(r), RunStep(r)
    PROVE  /\ pc[r] = "put_refined_plan" => Has(r, "refined_plan")'
           /\ pc[r] = "put_refined_evidence" => Has(r, "refined_evidence")'
<1>0. call[r] # None => pc[r] \in Stages
  BY DEF Shape
<1>1. CASE pc[r] = "put_refined_plan"
  <2>1. PutRefinedPlan(r)
    BY <1>0, <1>1 DEF RunStep, Start, PutTask, PutPlan, PutEvidence, RunSandbox,
       PutCodeResult, PutRefinedEvidence, PutSummary, Invoke, ReadState, SearchMemory,
       IncrementReuse, LogHits, Answer, Select, CommitRunMemory, MarkState, CommitGlobalMemory,
       AnnounceMemory, LogMessage, WriteTrace, Finish, Shape, Stages
  <2>2. FeedbackRefs(r) \in SUBSET Kinds
    BY RefsAreKinds
  <2>3. Put(r, "refined_plan", FeedbackRefs(r))
    BY <2>1 DEF PutRefinedPlan
  <2>4. Has(r, "refined_plan")'
    BY <2>2, <2>3, PutAdds DEF Kinds
  <2> QED
    BY <1>1, <2>4
<1>2. CASE pc[r] = "put_refined_evidence"
  <2>1. PutRefinedEvidence(r)
    BY <1>0, <1>2 DEF RunStep, Start, PutTask, PutPlan, PutEvidence, RunSandbox,
       PutCodeResult, PutRefinedPlan, PutSummary, Invoke, ReadState, SearchMemory,
       IncrementReuse, LogHits, Answer, Select, CommitRunMemory, MarkState, CommitGlobalMemory,
       AnnounceMemory, LogMessage, WriteTrace, Finish, Shape, Stages
  <2>2. PICK parents \in SUBSET Kinds : Put(r, "refined_evidence", parents)
    <3>1. FeedbackRefs(r) \cup Present(r, {"refined_plan"}) \in SUBSET Kinds
      BY RefsAreKinds DEF Kinds, Present
    <3> QED
      BY <2>1, <3>1 DEF PutRefinedEvidence
  <2>3. Has(r, "refined_evidence")'
    BY <2>2, PutAdds DEF Kinds
  <2> QED
    BY <1>2, <2>3
<1> QED
  BY <1>1, <1>2

LEMMA FeedbackStep ==
    ASSUME TypeOK, NEW r \in Runs, Shape(r), AskedFits(r), FeedbackFits(r), RunStep(r) \/ Fail(r)
    PROVE  FeedbackFits(r)'
<1>0. /\ TypeOK /\ Shape(r) /\ AskedFits(r) /\ FeedbackFits(r)
      /\ pc \in [Runs -> PCs] /\ call \in [Runs -> Call \cup {None}] /\ pc[r] # "failed"
  BY GoesForward DEF TypeOK
<1>1. CASE Fail(r)
  <2>1. pc'[r] = "failed" /\ UNCHANGED <<state, messages>>
    BY <1>0, <1>1 DEF Fail, Goto
  <2>2. Asked(r)' = Asked(r) /\ (Has(r, "refined_plan")' <=> Has(r, "refined_plan"))
        /\ (Has(r, "refined_evidence")' <=> Has(r, "refined_evidence"))
    BY <2>1 DEF Asked, Invocations, Has
  <2> QED
    BY <1>0, <2>1, <2>2 DEF FeedbackFits
<1>2. CASE RunStep(r)
  <2>1. /\ Done(r)' = IF Select(r) THEN Done(r) \cup {ActionOf[pc[r]]} ELSE Done(r)
        /\ Asked(r) \subseteq Asked(r)' /\ Done(r) \subseteq Asked(r)
    BY <1>0, <1>2, DoneStep DEF Done
  <2>2. Select(r) => pc[r] \in Stages /\ pc'[r] = AfterCall[pc[r]] /\ UNCHANGED state
    BY <1>0, StageIs DEF Select, Goto
  \* A state of a feedback round is put by its stage;
  <2>3. ASSUME NEW k \in {"refined_plan", "refined_evidence"}, Has(r, k)', ~Has(r, k)
        PROVE  pc[r] = PutStage[k]
    <3>1. k \in Kinds
      BY DEF Kinds
    <3>2. Adds(r)
      BY <1>0, <1>2, <2>3, <3>1, StateStep DEF Keeps, Has
    <3>3. PICK j \in Kinds, parents \in SUBSET Made(r) : Put(r, j, parents) /\ pc[r] = PutStage[j]
      BY <3>2 DEF Adds
    <3>4. parents \in SUBSET Kinds
      BY RefsAreKinds
    <3>5. j = k
      BY <1>0, <2>3, <3>1, <3>3, <3>4, PutAdds
    <3> QED
      BY <3>3, <3>5
  \* its stage comes after the invocation;
  <2>4. pc'[r] \in {"put_refined_plan", "put_refined_evidence"} =>
          Select(r) \/ (UNCHANGED pc /\ pc[r] \in Stages)
    <3>1. CASE Moves(r)
      BY <3>1 DEF Moves, Last
    <3>2. CASE Fail(r)
      BY <1>0, <3>2 DEF Fail, Goto
    <3>3. CASE Invoke(r)
      BY <3>3 DEF Invoke
    <3>4. CASE UNCHANGED pc /\ call[r] # None
      BY <1>0, <3>4, StageIs
    <3> QED
      BY <1>0, <1>2, <3>1, <3>2, <3>3, <3>4, StepsAre
  <2>5. /\ pc'[r] = "put_refined_plan" => Select(r) /\ pc[r] = "replan"
        /\ pc'[r] = "put_refined_evidence" => Select(r) /\ pc[r] = "research"
    BY <2>2, <2>4 DEF Stages, AfterCall
  \* and what an invocation has done the next stage puts.
  <2>6. ASSUME NEW p \in {<<"plan.refine", "refined_plan", "put_refined_plan">>,
                          <<"evidence.refine", "refined_evidence", "put_refined_evidence">>},
               pc'[r] \notin {"failed", p[3]}, p[1] \in Done(r)'
        PROVE  Has(r, p[2])'
    <3>1. p[2] \in Kinds
      BY DEF Kinds
    <3>2. CASE p[1] \in Done(r) /\ pc[r] # p[3]
      <4>1. Has(r, p[2])
        BY <1>0, <3>2 DEF FeedbackFits
      <4> QED
        BY <1>0, <1>2, <3>1, <4>1, Grows
    <3>3. CASE pc[r] = p[3]
      BY <1>0, <1>2, <3>3, FeedbackPuts
    <3>4. CASE p[1] \notin Done(r)
      <4>1. Select(r) /\ p[1] = ActionOf[pc[r]]
        BY <2>1, <2>6, <3>4
      <4>2. pc'[r] = p[3]
        BY <2>2, <4>1 DEF Stages, AfterCall, ActionOf
      <4> QED
        BY <2>6, <4>2
    <3> QED
      BY <3>2, <3>3, <3>4
  <2>7. /\ Has(r, "refined_plan")' => "plan.refine" \in Asked(r)'
        /\ Has(r, "refined_evidence")' => "evidence.refine" \in Asked(r)'
    <3>1. /\ Has(r, "refined_plan")' => "plan.refine" \in Asked(r)
          /\ Has(r, "refined_evidence")' => "evidence.refine" \in Asked(r)
      BY <1>0, <2>1, <2>3 DEF FeedbackFits, PutStage
    <3> QED
      BY <2>1, <3>1
  <2>8. /\ pc'[r] = "put_refined_plan" => "plan.refine" \in Done(r)'
        /\ pc'[r] = "put_refined_evidence" => "evidence.refine" \in Done(r)'
    BY <2>1, <2>5 DEF ActionOf
  <2>9. /\ pc'[r] \notin {"failed", "put_refined_plan"} /\ "plan.refine" \in Done(r)' =>
              Has(r, "refined_plan")'
        /\ pc'[r] \notin {"failed", "put_refined_evidence"} /\ "evidence.refine" \in Done(r)' =>
              Has(r, "refined_evidence")'
    BY <2>6
  <2> QED
    BY <2>7, <2>8, <2>9 DEF FeedbackFits
<1> QED
  BY <1>1, <1>2

\* A run whose row is written has only its end to come.
LEMMA ClosedStep ==
    ASSUME TypeOK, NEW r \in Runs, Shape(r), pc[r] \in {"close", "done", "failed"},
           RunStep(r) \/ Fail(r)
    PROVE  /\ pc'[r] \in {"done", "failed"}
           /\ UNCHANGED <<state, messages, searches, logged, agentIo, trace>>
<1>1. call[r] = None /\ pc \in [Runs -> PCs]
  BY DEF Shape, Stages, TypeOK
<1>2. Finish(r) \/ Fail(r)
  BY <1>1 DEF RunStep, Start, PutTask, PutPlan, PutEvidence, RunSandbox, PutCodeResult,
     PutRefinedPlan, PutRefinedEvidence, PutSummary, Invoke, ReadState, SearchMemory,
     IncrementReuse, LogHits, Answer, Select, CommitRunMemory, MarkState, CommitGlobalMemory,
     AnnounceMemory, LogMessage, WriteTrace, Stages
<1> QED
  BY <1>1, <1>2 DEF Finish, Fail, Goto

\* The row that is written is true.
LEMMA MetricsFit ==
    ASSUME TypeOK, NEW r \in Runs, Shape(r), AskedFits(r), RowsFit(r), SearchesFit(r),
           HitsFit(r), FeedbackFits(r), WriteTrace(r)
    PROVE  TraceFits(r)'
<1>0. /\ TypeOK /\ Shape(r) /\ RowsFit(r) /\ SearchesFit(r) /\ HitsFit(r) /\ FeedbackFits(r)
      /\ trace'[r] = Metrics(r) /\ pc[r] = "log" /\ pc'[r] = "close"
      /\ logged[r] = Len(messages[r])
      /\ UNCHANGED <<messages, agentIo, searches, logged>>
  BY DEF WriteTrace, Goto, LogComplete, TypeOK
<1>1. call[r] = None
  BY <1>0 DEF Shape, Stages
<1>2. Done(r) = Asked(r)
  BY <1>1 DEF Done
<1>3. Len(agentIo[r]) = Cardinality(Invocations(r))
  <2>1. Cardinality(Invocations(r)) \in Nat
    BY <1>0, InvocationsCount
  <2>2. Len(agentIo[r]) \in Nat
    <3>1. agentIo[r] \in Seq(Agents)
      BY <1>0 DEF TypeOK
    <3> QED
      BY <3>1
  <2> QED
    BY <1>0, <1>1, <2>1, <2>2 DEF RowsFit
<1>4. \A a : a \in Asked(r) <=> AskedFor(r, a) # {}
  BY DEF Asked, AskedFor
<1>5. searches[r] <= Metrics(r).queries + Cardinality(AskedFor(r, "evidence.refine"))
  <2> DEFINE refined == AskedFor(r, "evidence.refine")
  <2>1. IsFiniteSet(refined) /\ Cardinality(refined) \in Nat
    BY <1>0, InvocationsCount, FS_Subset, FS_CardinalityType DEF AskedFor
  <2>2. "evidence.refine" \in Asked(r) => Cardinality(refined) # 0
    BY <1>4, <2>1, FS_EmptySet
  <2>3. /\ searches[r] <= (IF "memory.semantic_search" \in Asked(r) THEN 1 ELSE 0)
                          + (IF "evidence.refine" \in Asked(r) THEN 1 ELSE 0)
        /\ "memory.semantic_search" \in Asked(r) => decision[r].retrieval
    <3>1. ~ToSearch(r) /\ searches[r] + 0 = searches[r]
      BY <1>0, <1>1 DEF ToSearch, TypeOK
    <3> QED
      BY <1>0, <3>1 DEF SearchesFit
  <2>4. Metrics(r).queries = IF decision[r].retrieval THEN 1 ELSE 0
    BY DEF Metrics
  <2>5. searches[r] \in Nat
    BY <1>0 DEF TypeOK
  <2> HIDE DEF refined
  <2> QED
    BY <2>1, <2>2, <2>3, <2>4, <2>5 DEF refined
<1>6. Metrics(r).reused <= Metrics(r).scored
  <2> DEFINE pairs == {"memory.semantic_search"} \X hits[r]
  <2>1. pairs \subseteq hitLog[r]
    BY <1>0, <1>1 DEF HitsFit, Unlogged
  <2>2. IsFiniteSet(hits[r]) /\ IsFiniteSet(hitLog[r])
    <3>1. IsFiniteSet(Actions \X Units)
      BY Constants, FS_Product
    <3> QED
      BY <1>0, <3>1, Constants, FS_Subset DEF TypeOK
  <2>3. IsFiniteSet({"memory.semantic_search"}) /\ Cardinality({"memory.semantic_search"}) = 1
    BY FS_Singleton
  <2>4. Cardinality(pairs) = 1 * Cardinality(hits[r])
    BY <2>2, <2>3, FS_Product
  <2>5. Cardinality(pairs) <= Cardinality(hitLog[r])
    BY <2>1, <2>2, FS_Subset
  <2>6. Cardinality(hits[r]) \in Nat
    BY <2>2, FS_CardinalityType
  <2> HIDE DEF pairs
  <2>7. Cardinality(hits[r]) <= Cardinality(hitLog[r])
    BY <2>4, <2>5, <2>6
  <2> QED
    BY <2>7 DEF Metrics, Scored
<1>7. Metrics(r).rounds = IF AskedFor(r, "evidence.refine") \cup AskedFor(r, "plan.refine") = {}
                          THEN 0 ELSE 1
  <2>1. /\ Has(r, "refined_plan") <=> "plan.refine" \in Asked(r)
        /\ Has(r, "refined_evidence") <=> "evidence.refine" \in Asked(r)
    BY <1>0, <1>2 DEF FeedbackFits
  <2>2. Metrics(r).rounds = IF Has(r, "refined_plan") \/ Has(r, "refined_evidence") THEN 1 ELSE 0
    BY DEF Metrics
  <2> QED
    BY <1>4, <2>1, <2>2
<1>8. Invocations(r)' = Invocations(r) /\ \A a : AskedFor(r, a)' = AskedFor(r, a)
  BY <1>0 DEF Invocations, AskedFor
<1> QED
  BY <1>0, <1>3, <1>5, <1>6, <1>7, <1>8 DEF TraceFits

LEMMA RecordedStep ==
    ASSUME TypeOK, NEW r \in Runs, Shape(r), AskedFits(r), Recorded(r), RunStep(r) \/ Fail(r)
    PROVE  Recorded(r)'
<1>0. /\ TypeOK /\ Shape(r) /\ AskedFits(r) /\ Recorded(r)
      /\ RowsFit(r) /\ SearchesFit(r) /\ HitsFit(r) /\ FeedbackFits(r) /\ TraceFits(r)
      /\ logged[r] > 0 => Has(r, "summary")
  BY DEF Recorded
<1>1. RowsFit(r)' /\ SearchesFit(r)' /\ HitsFit(r)' /\ FeedbackFits(r)'
  BY <1>0, RowsStep, SearchesStep, HitsStep, FeedbackStep
<1>2. logged'[r] > 0 => Has(r, "summary")'
  <2>1. "summary" \in Kinds
    BY DEF Kinds
  <2>2. Has(r, "summary") => Has(r, "summary")'
    BY <1>0, <2>1, Grows
  <2>3. CASE LogMessage(r)
    <3>1. pc[r] \in Last
      BY <2>3 DEF LogMessage, Last
    <3> QED
      BY <1>0, <2>2, <3>1 DEF Shape
  <2>4. CASE ~LogMessage(r)
    <3>1. UNCHANGED logged
      BY <2>4 DEF RunStep, Start, PutTask, PutPlan, PutEvidence, RunSandbox,
         PutCodeResult, PutRefinedPlan, PutRefinedEvidence, PutSummary, Invoke, ReadState,
         SearchMemory, IncrementReuse, LogHits, Answer, Select, CommitRunMemory, MarkState,
         CommitGlobalMemory, AnnounceMemory, WriteTrace, Finish, Fail
    <3> QED
      BY <1>0, <2>2, <3>1
  <2> QED
    BY <2>3, <2>4
<1>3. TraceFits(r)'
  <2>1. CASE WriteTrace(r)
    BY <1>0, <2>1, MetricsFit
  <2>2. CASE ~WriteTrace(r)
    <3>1. trace' = trace
      BY <2>2 DEF RunStep, Start, PutTask, PutPlan, PutEvidence, RunSandbox,
         PutCodeResult, PutRefinedPlan, PutRefinedEvidence, PutSummary, Invoke, ReadState,
         SearchMemory, IncrementReuse, LogHits, Answer, Select, CommitRunMemory, MarkState,
         CommitGlobalMemory, AnnounceMemory, LogMessage, Finish, Fail
    <3>2. CASE trace[r] = None
      BY <3>1, <3>2 DEF TraceFits
    <3>3. CASE trace[r] # None
      <4>1. pc[r] \in {"close", "done", "failed"}
        BY <1>0, <3>3 DEF TraceFits
      <4>2. /\ pc'[r] \in {"done", "failed"}
            /\ UNCHANGED <<messages, searches, logged, agentIo, trace>>
        BY <1>0, <4>1, ClosedStep
      <4> QED
        BY <1>0, <3>3, <4>2 DEF TraceFits, Invocations, AskedFor
    <3> QED
      BY <3>2, <3>3
  <2> QED
    BY <2>1, <2>2
<1> QED
  BY <1>1, <1>2, <1>3 DEF Recorded

RecordedInv == \A r \in Runs : Recorded(r)

LEMMA RecordedInit == Init => RecordedInv
<1> SUFFICES ASSUME Init, NEW r \in Runs PROVE Recorded(r)
  BY DEF RecordedInv
<1>1. /\ pc[r] = "start" /\ call[r] = None /\ messages[r] = <<>> /\ hits[r] = {}
      /\ searches[r] = 0 /\ logged[r] = 0 /\ agentIo[r] = <<>> /\ trace[r] = None
      /\ \A k \in Kinds : ~Has(r, k)
  BY DEF Init, Has
<1>2. Invocations(r) = {} /\ Asked(r) = {} /\ Done(r) = {}
  BY <1>1 DEF Invocations, Asked, Done
<1>3. Cardinality(Invocations(r)) = 0
  BY <1>2, FS_EmptySet
<1>4. RowsFit(r)
  BY <1>1, <1>2, <1>3 DEF RowsFit
<1>5. SearchesFit(r) /\ HitsFit(r)
  BY <1>1, <1>2 DEF SearchesFit, HitsFit, ToSearch
<1>6. FeedbackFits(r) /\ TraceFits(r)
  BY <1>1, <1>2 DEF FeedbackFits, TraceFits, Kinds
<1> QED
  BY <1>1, <1>4, <1>5, <1>6 DEF Recorded

LEMMA RecordedInvariant == Spec => []RecordedInv
<1>1. TypeInv /\ AskedInv /\ RecordedInv /\ [Next]_vars => RecordedInv'
  <2> SUFFICES ASSUME TypeInv, AskedInv, RecordedInv, [Next]_vars, NEW q \in Runs
               PROVE  Recorded(q)'
    BY DEF RecordedInv
  <2>1. CASE Own(q)' = Own(q) /\ Rows(q)' = Rows(q)
    <3>1. /\ pc'[q] = pc[q] /\ decision'[q] = decision[q] /\ state'[q] = state[q]
          /\ messages'[q] = messages[q] /\ call'[q] = call[q]
          /\ hits'[q] = hits[q] /\ searches'[q] = searches[q] /\ logged'[q] = logged[q]
          /\ agentIo'[q] = agentIo[q] /\ hitLog'[q] = hitLog[q] /\ trace'[q] = trace[q]
      BY <2>1 DEF Own, Rows
    <3>2. /\ Invocations(q)' = Invocations(q)
          /\ \A n : Nth(q, n)' = Nth(q, n)
          /\ \A a : AskedFor(q, a)' = AskedFor(q, a)
          /\ \A k : Has(q, k)' <=> Has(q, k)
      BY <3>1 DEF Invocations, Nth, AskedFor, Has
    <3>3. Asked(q)' = Asked(q)
      BY <3>1, <3>2 DEF Asked
    <3>4. Done(q)' = Done(q) /\ (ToSearch(q)' <=> ToSearch(q)) /\ Unlogged(q)' = Unlogged(q)
      BY <3>1, <3>3 DEF Done, ToSearch, Unlogged
    <3>5. /\ Recorded(q) /\ RowsFit(q) /\ SearchesFit(q) /\ HitsFit(q) /\ FeedbackFits(q)
          /\ TraceFits(q)
      BY DEF RecordedInv, Recorded
    <3>6. RowsFit(q)'
      BY <3>1, <3>2, <3>5 DEF RowsFit
    <3>7. SearchesFit(q)' /\ HitsFit(q)'
      BY <3>1, <3>3, <3>4, <3>5 DEF SearchesFit, HitsFit
    <3>8. FeedbackFits(q)' /\ TraceFits(q)'
      BY <3>1, <3>2, <3>3, <3>4, <3>5 DEF FeedbackFits, TraceFits
    <3> QED
      BY <3>1, <3>2, <3>5, <3>6, <3>7, <3>8 DEF Recorded
  <2>2. CASE Next
    <3>1. PICK r \in Runs : RunStep(r) \/ Fail(r)
      BY <2>2 DEF Next
    <3>2. CASE q = r
      BY <3>1, <3>2, RecordedStep DEF TypeInv, AskedInv, RecordedInv
    <3>3. CASE q # r
      BY <2>1, <3>1, <3>3, OthersStay, RowsOfOthersStay DEF TypeInv
    <3> QED
      BY <3>2, <3>3
  <2>3. CASE UNCHANGED vars
    BY <2>1, <2>3 DEF Own, Rows, vars
  <2> QED
    BY <2>2, <2>3
<1> QED
  BY <1>1, RecordedInit, TypeInvariant, AskedInvariant, PTL DEF Spec

\* The row of a run in trace.jsonl speaks of a whole log and a whole agent_io, counts
\* the searches and the feedback rounds there were, and scores all the hits it counts.
THEOREM TracesAreTrue == Spec => []TraceIsTrue
<1>1. RecordedInv => TraceIsTrue
  <2> SUFFICES ASSUME RecordedInv, NEW r \in Runs
      PROVE LET asked == Cardinality(Invocations(r))
                refined == AskedFor(r, "evidence.refine")
                replanned == AskedFor(r, "plan.refine")
            IN  /\ logged[r] > 0 => Has(r, "summary")
                /\ Len(agentIo[r]) <= asked /\ asked <= Len(agentIo[r]) + 1
                /\ \A n \in Invocations(r) : Nth(r, n) <= Len(agentIo[r]) =>
                      agentIo[r][Nth(r, n)] = messages[r][n].target
                /\ trace[r] # None =>
                      /\ logged[r] = Len(messages[r])
                      /\ Len(agentIo[r]) = asked
                      /\ searches[r] <= trace[r].queries + Cardinality(refined)
                      /\ trace[r].reused <= trace[r].scored
                      /\ trace[r].rounds = IF refined \cup replanned = {} THEN 0 ELSE 1
    BY DEF TraceIsTrue
  <2>1. Recorded(r)
    BY DEF RecordedInv
  <2> QED
    BY <2>1 DEF Recorded, RowsFit, TraceFits
<1> QED
  BY <1>1, RecordedInvariant, PTL

-----------------------------------------------------------------------------
(* The uses that are counted and logged.                                    *)

\* The uses of a unit: those that are logged, and those of open calls that have
\* been counted and are still to be logged.
Uses(u) == LoggedUses(u) \cup OpenUses(u)

\* The log has a row only of what a run has asked for, and of what an open search
\* has found it has none until all is counted and logged.
Tidy(r) ==
    /\ \A a \in Actions, v \in Units : <<a, v>> \in hitLog[r] => a \in Asked(r)
    /\ call[r] # None =>
          /\ call[r].unbumped \subseteq call[r].unlogged
          /\ call[r].unlogged # {} => call[r].searched
          /\ ~call[r].searched \/ call[r].unlogged # {} =>
                \A v \in Units : <<ActionOf[pc[r]], v>> \notin hitLog[r]

TidyInv == \A r \in Runs : Tidy(r)

\* The hits that are still to be counted, over a step of an open call.
LEMMA UnbumpedIs ==
    ASSUME TypeOK, NEW r \in Runs, Shape(r)
    PROVE  /\ Invoke(r) => call'[r].unbumped = {}
           /\ SearchMemory(r) => call'[r].unbumped = call'[r].unlogged
           /\ IncrementReuse(r) => \E v \in call[r].unbumped :
                 /\ call'[r].unbumped = call[r].unbumped \ {v}
                 /\ reuse' = [reuse EXCEPT ![v] = @ + 1]
           /\ LogHits(r) \/ Answer(r) \/ ReadState(r) =>
                 call'[r].unbumped = call[r].unbumped
<1>0. /\ TypeOK /\ Shape(r) /\ call \in [Runs -> Call \cup {None}]
      /\ call[r] # None => call[r] \in Call
  BY StageIs DEF TypeOK
<1>1. ASSUME Invoke(r) PROVE call'[r].unbumped = {}
  <2>1. call'[r] = [source |-> SourceOf(r), refs |-> RefsOf(r),
                    unread |-> IF ReadsStates(r) THEN RefsOf(r) ELSE {},
                    unbumped |-> {}, unlogged |-> {},
                    searched |-> FALSE, answered |-> FALSE]
    BY <1>0, <1>1 DEF Invoke
  <2> QED
    BY <2>1
<1>2. ASSUME SearchMemory(r) PROVE call'[r].unbumped = call'[r].unlogged
  <2>1. PICK H \in SUBSET Stored :
           call' = [call EXCEPT ![r].searched = TRUE, ![r].unbumped = H, ![r].unlogged = H]
    BY <1>2 DEF SearchMemory
  <2>2. call[r] \in Call
    BY <1>0, <1>2 DEF SearchMemory
  <2> QED
    BY <1>0, <2>1, <2>2 DEF Call
<1>3. ASSUME IncrementReuse(r)
      PROVE  \E v \in call[r].unbumped :
                 /\ call'[r].unbumped = call[r].unbumped \ {v}
                 /\ reuse' = [reuse EXCEPT ![v] = @ + 1]
  <2>1. PICK v \in call[r].unbumped :
          /\ reuse' = [reuse EXCEPT ![v] = @ + 1]
          /\ call' = [call EXCEPT ![r].unbumped = @ \ {v}]
    BY <1>3 DEF IncrementReuse
  <2>2. call[r] \in Call
    BY <1>0, <1>3 DEF IncrementReuse
  <2>3. call'[r].unbumped = call[r].unbumped \ {v}
    BY <1>0, <2>1, <2>2 DEF Call
  <2> QED
    BY <2>1, <2>3
<1>4. ASSUME LogHits(r) PROVE call'[r].unbumped = call[r].unbumped
  BY <1>0, <1>4 DEF LogHits, Call
<1>5. ASSUME Answer(r) PROVE call'[r].unbumped = call[r].unbumped
  BY <1>0, <1>5 DEF Answer, Call
<1>6. ASSUME ReadState(r) PROVE call'[r].unbumped = call[r].unbumped
  <2>1. PICK k : call' = [call EXCEPT ![r].unread = @ \ {k}]
    BY <1>6 DEF ReadState
  <2>2. call[r] \in Call
    BY <1>0, <1>6 DEF ReadState
  <2> QED
    BY <1>0, <2>1, <2>2 DEF Call
<1> QED
  BY <1>1, <1>2, <1>3, <1>4, <1>5, <1>6

LEMMA TidyStep ==
    ASSUME TypeOK, NEW r \in Runs, Shape(r), AskedFits(r), Tidy(r), RunStep(r) \/ Fail(r)
    PROVE  Tidy(r)'
<1>0. /\ TypeOK /\ Shape(r) /\ AskedFits(r) /\ Tidy(r)
      /\ call \in [Runs -> Call \cup {None}]
      /\ hitLog \in [Runs -> SUBSET (Actions \X Units)]
      /\ call[r] # None => call[r] \in Call /\ call[r].unlogged \subseteq Units
  BY StageIs DEF TypeOK, Call
<1> DEFINE a == ActionOf[pc[r]]
           FreeOf(log, b) == \A v \in Units : <<b, v>> \notin log[r]
           AskedIn(log, asked) ==
               \A b \in Actions, v \in Units : <<b, v>> \in log[r] => b \in asked
<1>1. /\ AskedIn(hitLog, Asked(r))
      /\ call[r] # None =>
            /\ call[r].unbumped \subseteq call[r].unlogged
            /\ call[r].unlogged # {} => call[r].searched
            /\ ~call[r].searched \/ call[r].unlogged # {} => FreeOf(hitLog, a)
  BY <1>0 DEF Tidy
<1>2. Asked(r) \subseteq Asked(r)'
  <2>1. Asked(r)' = IF Invoke(r) THEN Asked(r) \cup {a} ELSE Asked(r)
    BY <1>0, AskStep
  <2> QED
    BY <2>1
<1>3. ASSUME AskedIn(hitLog', Asked(r)'),
             call'[r] # None =>
               /\ call'[r].unbumped \subseteq call'[r].unlogged
               /\ call'[r].unlogged # {} => call'[r].searched
               /\ ~call'[r].searched \/ call'[r].unlogged # {} => FreeOf(hitLog', ActionOf[pc'[r]])
      PROVE  Tidy(r)'
  BY <1>3 DEF Tidy
<1>4. ASSUME UNCHANGED hitLog PROVE AskedIn(hitLog', Asked(r)')
  BY <1>1, <1>2, <1>4
<1>5. CASE Fail(r) \/ Select(r)
  <2>1. call'[r] = None /\ UNCHANGED hitLog
    BY <1>0, <1>5 DEF Fail, Select
  <2> HIDE DEF FreeOf, AskedIn
  <2> QED
    BY <1>3, <1>4, <2>1
<1>6. CASE Invoke(r)
  <2>1. /\ call'[r].unbumped = {} /\ call'[r].unlogged = {} /\ ~call'[r].searched
        /\ UNCHANGED <<hitLog, pc>> /\ a \notin Asked(r) /\ a \in Actions
    <3>1. a \notin Asked(r) /\ pc[r] \in Stages
      BY <1>0, <1>6, ActionIsNew
    <3> QED
      BY <1>0, <1>6, <3>1, CallIs, UnbumpedIs, Constants DEF Invoke
  <2>2. FreeOf(hitLog', ActionOf[pc'[r]])
    BY <1>1, <2>1
  <2> HIDE DEF FreeOf, AskedIn
  <2> QED
    BY <1>3, <1>4, <2>1, <2>2
<1>7. CASE SearchMemory(r)
  <2>1. /\ call'[r].unbumped = call'[r].unlogged /\ call'[r].searched
        /\ UNCHANGED <<hitLog, pc>> /\ call[r] # None /\ ~call[r].searched
    BY <1>0, <1>7, CallIs, UnbumpedIs DEF SearchMemory
  <2>2. FreeOf(hitLog', ActionOf[pc'[r]])
    BY <1>1, <2>1
  <2> HIDE DEF FreeOf, AskedIn
  <2> QED
    BY <1>3, <1>4, <2>1, <2>2
<1>8. CASE LogHits(r)
  <2>1. /\ call'[r].unlogged = {} /\ call'[r].searched = call[r].searched
        /\ call'[r].unbumped = {} /\ call[r] # None /\ call[r].unlogged # {} /\ UNCHANGED pc
        /\ hitLog'[r] = hitLog[r] \cup ({a} \X call[r].unlogged)
    BY <1>0, <1>8, CallIs, UnbumpedIs DEF LogHits
  <2>2. call'[r].searched
    BY <1>1, <2>1
  <2>3. a \in Asked(r)
    BY <1>0, <2>1 DEF AskedFits
  <2>4. AskedIn(hitLog', Asked(r)')
    BY <1>1, <1>2, <2>1, <2>3
  <2> HIDE DEF FreeOf, AskedIn
  <2> QED
    BY <1>3, <2>1, <2>2, <2>4
<1>9. CASE Answer(r) \/ ReadState(r) \/ IncrementReuse(r)
  <2>1. /\ call[r] # None /\ UNCHANGED <<hitLog, pc>>
        /\ call'[r].searched = call[r].searched /\ call'[r].unlogged = call[r].unlogged
    <3>1. CASE Answer(r)
      BY <1>0, <3>1, CallIs DEF Answer
    <3>2. CASE ReadState(r)
      <4>1. PICK k : call' = [call EXCEPT ![r].unread = @ \ {k}]
        BY <3>2 DEF ReadState
      <4> QED
        BY <1>0, <3>2, <4>1 DEF ReadState, Call
    <3>3. CASE IncrementReuse(r)
      <4>1. PICK k : call' = [call EXCEPT ![r].unbumped = @ \ {k}]
        BY <3>3 DEF IncrementReuse
      <4> QED
        BY <1>0, <3>3, <4>1 DEF IncrementReuse, Call
    <3> QED
      BY <1>9, <3>1, <3>2, <3>3
  <2>2. call'[r].unbumped \subseteq call[r].unbumped
    BY <1>0, <1>9, UnbumpedIs
  <2> HIDE DEF FreeOf, AskedIn
  <2> QED
    BY <1>1, <1>3, <1>4, <2>1, <2>2
<1>10. CASE RunStep(r) /\ ~(Invoke(r) \/ SearchMemory(r) \/ LogHits(r) \/ Answer(r) \/ Select(r)
                            \/ ReadState(r) \/ IncrementReuse(r))
  <2>1. /\ UNCHANGED hitLog /\ (call[r] # None => UNCHANGED pc)
    BY <1>0, <1>10, CallStays
  <2>2. UNCHANGED call
    BY <1>10 DEF RunStep, Start, PutTask, PutPlan, PutEvidence, RunSandbox,
       PutCodeResult, PutRefinedPlan, PutRefinedEvidence, PutSummary, CommitRunMemory,
       MarkState, CommitGlobalMemory, AnnounceMemory, LogMessage, WriteTrace, Finish
  <2> HIDE DEF FreeOf, AskedIn
  <2> QED
    BY <1>1, <1>3, <1>4, <2>1, <2>2
<1> QED
  BY <1>5, <1>6, <1>7, <1>8, <1>9, <1>10

LEMMA TidyInvariant == Spec => []TidyInv
<1>1. Init => TidyInv
  <2> SUFFICES ASSUME Init, NEW r \in Runs PROVE Tidy(r)
    BY DEF TidyInv
  <2>1. hitLog[r] = {} /\ call[r] = None
    BY DEF Init
  <2> QED
    BY <2>1 DEF Tidy
<1>2. TypeInv /\ AskedInv /\ TidyInv /\ [Next]_vars => TidyInv'
  <2> SUFFICES ASSUME TypeInv, AskedInv, TidyInv, [Next]_vars, NEW q \in Runs
               PROVE  Tidy(q)'
    BY DEF TidyInv
  <2>1. CASE Own(q)' = Own(q) /\ Rows(q)' = Rows(q)
    <3>1. /\ pc'[q] = pc[q] /\ messages'[q] = messages[q]
          /\ call'[q] = call[q] /\ hitLog'[q] = hitLog[q]
      BY <2>1 DEF Own, Rows
    <3>2. Asked(q)' = Asked(q) /\ Tidy(q)
      BY <3>1 DEF Asked, Invocations, TidyInv
    <3> QED
      BY <3>1, <3>2 DEF Tidy
  <2>2. CASE Next
    <3>1. PICK r \in Runs : RunStep(r) \/ Fail(r)
      BY <2>2 DEF Next
    <3>2. CASE q = r
      BY <3>1, <3>2, TidyStep DEF TypeInv, AskedInv, TidyInv
    <3>3. CASE q # r
      BY <2>1, <3>1, <3>3, OthersStay, RowsOfOthersStay DEF TypeInv
    <3> QED
      BY <3>2, <3>3
  <2>3. CASE UNCHANGED vars
    BY <2>1, <2>3 DEF Own, Rows, vars
  <2> QED
    BY <2>2, <2>3
<1> QED
  BY <1>1, <1>2, TypeInvariant, AskedInvariant, PTL DEF Spec

\* A use is of the log or of an open search; the steps of a run leave the uses of the
\* other runs alone.
LEMMA UsesOf ==
    ASSUME TypeOK, NEW r \in Runs, Shape(r), RunStep(r) \/ Fail(r), NEW u
    PROVE  /\ Uses(u) \subseteq Runs \X Actions /\ Uses(u)' \subseteq Runs \X Actions
           /\ \A q \in Runs, b \in Actions : <<q, b>> \in Uses(u) <=>
                 \/ <<b, u>> \in hitLog[q]
                 \/ call[q] # None /\ b = ActionOf[pc[q]]
                                   /\ u \in call[q].unlogged \ call[q].unbumped
           /\ \A b \in Actions : <<r, b>> \in Uses(u)' <=>
                 \/ <<b, u>> \in hitLog'[r]
                 \/ call'[r] # None /\ b = ActionOf[pc'[r]]
                                    /\ u \in call'[r].unlogged \ call'[r].unbumped
           /\ \A q \in Runs \ {r}, b \in Actions : <<q, b>> \in Uses(u)' <=> <<q, b>> \in Uses(u)
<1>1. \A q \in Runs, b \in Actions : <<q, b>> \in Uses(u)' <=>
         \/ <<b, u>> \in hitLog'[q]
         \/ call'[q] # None /\ b = ActionOf[pc'[q]]
                            /\ u \in call'[q].unlogged \ call'[q].unbumped
  BY DEF Uses, LoggedUses, OpenUses
<1>2. \A q \in Runs, b \in Actions : <<q, b>> \in Uses(u) <=>
         \/ <<b, u>> \in hitLog[q]
         \/ call[q] # None /\ b = ActionOf[pc[q]]
                           /\ u \in call[q].unlogged \ call[q].unbumped
  BY DEF Uses, LoggedUses, OpenUses
<1>3. ASSUME NEW q \in Runs \ {r}
      PROVE  pc'[q] = pc[q] /\ call'[q] = call[q] /\ hitLog'[q] = hitLog[q]
  <2>1. Own(q)' = Own(q) /\ Rows(q)' = Rows(q)
    BY OthersStay, RowsOfOthersStay
  <2> QED
    BY <2>1 DEF Own, Rows
<1>4. Uses(u) \subseteq Runs \X Actions /\ Uses(u)' \subseteq Runs \X Actions
  BY DEF Uses, LoggedUses, OpenUses
<1>5. ASSUME NEW q \in Runs \ {r}, NEW b \in Actions
      PROVE  <<q, b>> \in Uses(u)' <=> <<q, b>> \in Uses(u)
  <2> DEFINE Used(log, c, p) == \/ <<b, u>> \in log
                                \/ c # None /\ b = ActionOf[p] /\ u \in c.unlogged \ c.unbumped
  <2>1. q \in Runs
    OBVIOUS
  <2>2. <<q, b>> \in Uses(u)' <=> Used(hitLog'[q], call'[q], pc'[q])
    BY <1>1, <2>1
  <2>3. <<q, b>> \in Uses(u) <=> Used(hitLog[q], call[q], pc[q])
    BY <1>2, <2>1
  <2>4. Used(hitLog'[q], call'[q], pc'[q]) <=> Used(hitLog[q], call[q], pc[q])
    BY <1>3
  <2> HIDE DEF Used
  <2> QED
    BY <2>2, <2>3, <2>4
<1> QED
  BY <1>1, <1>2, <1>4, <1>5

LEMMA UsesAreFinite ==
    ASSUME NEW u
    PROVE  /\ IsFiniteSet(Uses(u)) /\ Cardinality(Uses(u)) \in Nat
           /\ IsFiniteSet(Uses(u)') /\ Cardinality(Uses(u)') \in Nat
<1>1. /\ IsFiniteSet(Runs \X Actions)
      /\ Uses(u) \subseteq Runs \X Actions /\ Uses(u)' \subseteq Runs \X Actions
  BY Constants, RunsAssumption, FS_Product DEF Uses, LoggedUses, OpenUses
<1> QED
  BY <1>1, FS_Subset, FS_CardinalityType

\* A step of a run makes a use exactly where it counts one, and loses none.
LEMMA UsesStep ==
    ASSUME TypeOK, NEW r \in Runs, Shape(r), Tidy(r), HitsFit(r), RunStep(r), NEW u \in Units
    PROVE  \/ Uses(u)' = Uses(u) /\ reuse'[u] = reuse[u]
           \/ \E x : /\ x \notin Uses(u) /\ Uses(u)' = Uses(u) \cup {x}
                     /\ reuse'[u] = reuse[u] + 1
<1>0. /\ TypeOK /\ Shape(r) /\ reuse \in [Units -> Nat] /\ reuse[u] \in Nat
      /\ call \in [Runs -> Call \cup {None}]
      /\ hitLog \in [Runs -> SUBSET (Actions \X Units)]
      /\ call[r] # None => call[r] \in Call /\ ActionOf[pc[r]] \in Actions
  BY StageIs DEF TypeOK
<1> DEFINE a == ActionOf[pc[r]]
           UsedAs(b) == <<r, b>> \in Uses(u)
           NowUsedAs(b) == <<r, b>> \in Uses(u)'
<1>1. /\ Uses(u) \subseteq Runs \X Actions /\ Uses(u)' \subseteq Runs \X Actions
      /\ \A q \in Runs \ {r}, b \in Actions : <<q, b>> \in Uses(u)' <=> <<q, b>> \in Uses(u)
      /\ \A b \in Actions : UsedAs(b) <=>
            \/ <<b, u>> \in hitLog[r]
            \/ call[r] # None /\ b = a /\ u \in call[r].unlogged \ call[r].unbumped
      /\ \A b \in Actions : NowUsedAs(b) <=>
            \/ <<b, u>> \in hitLog'[r]
            \/ call'[r] # None /\ b = ActionOf[pc'[r]]
                               /\ u \in call'[r].unlogged \ call'[r].unbumped
  BY <1>0, UsesOf
<1>2. ASSUME \A b \in Actions : NowUsedAs(b) <=> UsedAs(b) PROVE Uses(u)' = Uses(u)
  BY <1>1, <1>2
<1>3. call[r] # None =>
        /\ call[r].unbumped \subseteq call[r].unlogged
        /\ call[r].unlogged # {} => call[r].searched
        /\ ~call[r].searched \/ call[r].unlogged # {} =>
              \A v \in Units : <<a, v>> \notin hitLog[r]
  BY DEF Tidy
<1>4. CASE IncrementReuse(r)
  <2>1. PICK v \in call[r].unbumped : /\ call'[r].unbumped = call[r].unbumped \ {v}
                                      /\ reuse' = [reuse EXCEPT ![v] = @ + 1]
    BY <1>0, <1>4, UnbumpedIs
  <2>2. /\ call[r] # None /\ UNCHANGED <<pc, hitLog>> /\ a \in Actions
        /\ call'[r] # None /\ call'[r].unlogged = call[r].unlogged
    <3>1. PICK w \in call[r].unbumped : call' = [call EXCEPT ![r].unbumped = @ \ {w}]
      BY <1>4 DEF IncrementReuse
    <3> DEFINE c == [call[r] EXCEPT !.unbumped = @ \ {w}]
    <3>2. call[r] \in Call /\ call[r] # None /\ UNCHANGED <<pc, hitLog>>
      BY <1>0, <1>4 DEF IncrementReuse
    <3>3. call'[r] = c
      BY <1>0, <3>1
    <3>4. c \in Call /\ c.unlogged = call[r].unlogged
      BY <3>2 DEF Call
    <3> HIDE DEF c
    <3> QED
      BY <1>0, <3>2, <3>3, <3>4, NoneIsNoCall
  <2>3. CASE v = u
    <3>1. reuse'[u] = reuse[u] + 1
      BY <1>0, <2>1, <2>3
    <3>2. u \in call[r].unbumped /\ u \in call[r].unlogged /\ <<a, u>> \notin hitLog[r]
      BY <1>3, <2>2, <2>3
    <3>3. ~UsedAs(a) /\ NowUsedAs(a)
      BY <1>1, <2>1, <2>2, <2>3, <3>2
    <3>4. \A b \in Actions \ {a} : NowUsedAs(b) <=> UsedAs(b)
      BY <1>1, <2>2
    <3>5. Uses(u)' = Uses(u) \cup {<<r, a>>}
      <4> HIDE DEF a
      <4> QED
        BY <1>1, <2>2, <3>3, <3>4
    <3> QED
      BY <3>1, <3>3, <3>5
  <2>4. CASE v # u
    <3>1. reuse'[u] = reuse[u]
      BY <1>0, <2>1, <2>4
    <3>2. \A b \in Actions : NowUsedAs(b) <=> UsedAs(b)
      BY <1>1, <2>1, <2>2, <2>4
    <3> QED
      BY <1>2, <3>1, <3>2
  <2> QED
    BY <2>3, <2>4
<1>5. CASE ~IncrementReuse(r)
  <2>1. reuse'[u] = reuse[u]
    BY <1>5 DEF RunStep, Start, PutTask, PutPlan, PutEvidence, RunSandbox,
       PutCodeResult, PutRefinedPlan, PutRefinedEvidence, PutSummary, Invoke, ReadState, SearchMemory,
       LogHits, Answer, Select, CommitRunMemory, MarkState, CommitGlobalMemory,
       AnnounceMemory, LogMessage, WriteTrace, Finish
  <2>2. \A b \in Actions : NowUsedAs(b) <=> UsedAs(b)
    <3>1. CASE Select(r)
      <4>1. /\ call'[r] = None /\ UNCHANGED hitLog
            /\ call[r] # None /\ call[r].unlogged = {}
        BY <1>0, <3>1 DEF Select, HitsFit
      <4> QED
        BY <1>1, <4>1
    <3>2. CASE Invoke(r)
      <4>1. call'[r].unlogged = {} /\ UNCHANGED hitLog /\ call[r] = None
        BY <1>0, <3>2, CallIs DEF Invoke
      <4> QED
        BY <1>1, <4>1
    <3>3. CASE SearchMemory(r)
      <4>1. /\ call'[r].unbumped = call'[r].unlogged /\ UNCHANGED hitLog
            /\ call[r] # None /\ ~call[r].searched
        BY <1>0, <3>3, UnbumpedIs DEF SearchMemory
      <4>2. call[r].unlogged = {}
        BY <1>3, <4>1
      <4> QED
        BY <1>1, <4>1, <4>2
    <3>4. CASE LogHits(r)
      <4>1. /\ call[r] # None /\ call[r].unbumped = {} /\ call'[r].unlogged = {}
            /\ hitLog'[r] = hitLog[r] \cup ({a} \X call[r].unlogged)
        BY <1>0, <3>4, CallIs DEF LogHits
      <4> QED
        BY <1>1, <4>1
    <3>5. CASE Answer(r)
      <4>1. /\ call'[r].unlogged = {} /\ UNCHANGED hitLog
            /\ call[r] # None /\ call[r].unlogged = {}
        BY <1>0, <3>5, CallIs DEF Answer
      <4> QED
        BY <1>1, <4>1
    <3>6. CASE ~(Invoke(r) \/ SearchMemory(r) \/ LogHits(r) \/ Answer(r) \/ Select(r))
      <4>1. /\ UNCHANGED hitLog /\ (call'[r] = None <=> call[r] = None)
            /\ call[r] # None => UNCHANGED pc /\ call'[r].unlogged = call[r].unlogged
        BY <1>0, <3>6, CallStays
      <4>2. call[r] # None => call'[r].unbumped = call[r].unbumped
        <5>1. CASE ReadState(r)
          BY <1>0, <5>1, UnbumpedIs
        <5>2. CASE ~ReadState(r)
          BY <1>5, <3>6, <5>2 DEF RunStep, Start, PutTask, PutPlan, PutEvidence, RunSandbox,
             PutCodeResult, PutRefinedPlan, PutRefinedEvidence, PutSummary, CommitRunMemory,
             MarkState, CommitGlobalMemory, AnnounceMemory, LogMessage, WriteTrace, Finish
        <5> QED
          BY <5>1, <5>2
      <4> QED
        BY <1>1, <4>1, <4>2
    <3> QED
      BY <3>1, <3>2, <3>3, <3>4, <3>5, <3>6
  <2> QED
    BY <1>2, <2>1, <2>2
<1> QED
  BY <1>4, <1>5

\* The runs that were cut short, and what they may have counted and not logged.
Failed == {r \in Runs : pc[r] = "failed"}

CountFits(u) ==
    LET uses == Cardinality(Uses(u))
    IN  uses <= reuse[u] /\ reuse[u] <= uses + Cardinality(Failed)

CountInv == \A u \in Units : CountFits(u)

LEMMA FailedStep ==
    ASSUME TypeOK, NEW r \in Runs, Shape(r), RunStep(r) \/ Fail(r)
    PROVE  /\ IsFiniteSet(Failed) /\ Cardinality(Failed) \in Nat
           /\ IsFiniteSet(Failed') /\ Cardinality(Failed') \in Nat
           /\ Cardinality(Failed) <= Cardinality(Failed')
           /\ Fail(r) => Cardinality(Failed') = Cardinality(Failed) + 1
<1>1. IsFiniteSet(Failed) /\ IsFiniteSet(Failed')
  BY RunsAssumption, FS_Subset DEF Failed
<1>2. Cardinality(Failed) \in Nat /\ Cardinality(Failed') \in Nat
  BY <1>1, FS_CardinalityType
<1>3. \A q \in Runs \ {r} : pc'[q] = pc[q]
  BY OthersStay DEF Own
<1>4. CASE Fail(r)
  <2>1. pc[r] # "failed" /\ pc'[r] = "failed"
    BY <1>4 DEF Fail, Goto, TypeOK
  <2>2. Failed' = Failed \cup {r} /\ r \notin Failed
    BY <1>3, <2>1 DEF Failed
  <2> QED
    BY <1>1, <1>2, <2>2, FS_AddElement
<1>5. CASE ~Fail(r)
  <2>1. pc[r] # "failed"
    BY <1>5 DEF Shape, Stages, RunStep, Start, PutTask, PutPlan, PutEvidence, RunSandbox,
       PutCodeResult, PutRefinedPlan, PutRefinedEvidence, PutSummary, Invoke, ReadState,
       SearchMemory, IncrementReuse, LogHits, Answer, Select, CommitRunMemory, MarkState,
       CommitGlobalMemory, AnnounceMemory, LogMessage, WriteTrace, Finish
  <2>2. Failed \subseteq Failed'
    BY <1>3, <2>1 DEF Failed
  <2> QED
    BY <1>1, <1>2, <1>5, <2>2, FS_Subset
<1> QED
  BY <1>4, <1>5

\* A run that is cut short loses at most the use of its open call.
LEMMA UsesFail ==
    ASSUME TypeOK, NEW r \in Runs, Shape(r), Fail(r), NEW u \in Units
    PROVE  /\ Cardinality(Uses(u)') <= Cardinality(Uses(u))
           /\ Cardinality(Uses(u)) <= Cardinality(Uses(u)') + 1
           /\ reuse'[u] = reuse[u]
<1> DEFINE a == ActionOf[pc[r]]
<1>1. call'[r] = None /\ UNCHANGED <<hitLog, reuse>>
  BY DEF Fail, TypeOK
<1>2. /\ Uses(u) \subseteq Runs \X Actions /\ Uses(u)' \subseteq Runs \X Actions
      /\ \A q \in Runs \ {r}, b \in Actions : <<q, b>> \in Uses(u)' <=> <<q, b>> \in Uses(u)
      /\ \A b \in Actions : <<r, b>> \in Uses(u)' => <<r, b>> \in Uses(u)
      /\ \A b \in Actions : <<r, b>> \in Uses(u) => <<r, b>> \in Uses(u)' \/ b = a
  BY <1>1, UsesOf
<1> HIDE DEF a
<1>3. Uses(u)' \subseteq Uses(u) /\ Uses(u) \subseteq Uses(u)' \cup {<<r, a>>}
  BY <1>2
<1>4. /\ IsFiniteSet(Uses(u)) /\ Cardinality(Uses(u)) \in Nat
      /\ IsFiniteSet(Uses(u)') /\ Cardinality(Uses(u)') \in Nat
  BY UsesAreFinite
<1>5. Cardinality(Uses(u)') <= Cardinality(Uses(u))
  BY <1>3, <1>4, FS_Subset
<1>6. /\ IsFiniteSet(Uses(u)' \cup {<<r, a>>})
      /\ Cardinality(Uses(u)' \cup {<<r, a>>}) <= Cardinality(Uses(u)') + 1
  BY <1>4, FS_AddElement
<1>7. Cardinality(Uses(u)) <= Cardinality(Uses(u)' \cup {<<r, a>>})
  BY <1>3, <1>6, FS_Subset
<1>8. Cardinality(Uses(u)' \cup {<<r, a>>}) \in Nat
  BY <1>6, FS_CardinalityType
<1> QED
  BY <1>1, <1>4, <1>5, <1>6, <1>7, <1>8

LEMMA CountsStep ==
    ASSUME TypeOK, NEW r \in Runs, Shape(r), Tidy(r), HitsFit(r), RunStep(r) \/ Fail(r),
           NEW u \in Units, CountFits(u)
    PROVE  CountFits(u)'
<1> DEFINE m == Cardinality(Uses(u))
           n == Cardinality(Uses(u)')
           f == Cardinality(Failed)
           g == Cardinality(Failed')
<1>1. /\ reuse[u] \in Nat /\ reuse'[u] \in Nat
      /\ m \in Nat /\ n \in Nat /\ f \in Nat /\ g \in Nat /\ f <= g
      /\ m <= reuse[u] /\ reuse[u] <= m + f
  BY UsesAreFinite, TypeStep, FailedStep DEF TypeOK, CountFits
<1>2. SUFFICES n <= reuse'[u] /\ reuse'[u] <= n + g
  BY DEF CountFits
<1>3. CASE Fail(r)
  <2>1. n <= m /\ m <= n + 1 /\ reuse'[u] = reuse[u] /\ g = f + 1
    BY <1>3, UsesFail, FailedStep
  <2> HIDE DEF m, n, f, g
  <2> QED
    BY <1>1, <2>1
<1>4. CASE RunStep(r)
  <2>1. CASE Uses(u)' = Uses(u) /\ reuse'[u] = reuse[u]
    <3>1. n = m
      BY <2>1
    <3> HIDE DEF m, n, f, g
    <3> QED
      BY <1>1, <2>1, <3>1
  <2>2. ASSUME NEW x, x \notin Uses(u), Uses(u)' = Uses(u) \cup {x}, reuse'[u] = reuse[u] + 1
        PROVE  n <= reuse'[u] /\ reuse'[u] <= n + g
    <3>1. n = m + 1
      BY <2>2, UsesAreFinite, FS_AddElement
    <3> HIDE DEF m, n, f, g
    <3> QED
      BY <1>1, <2>2, <3>1
  <2> QED
    BY <1>4, <2>1, <2>2, UsesStep
<1> QED
  BY <1>3, <1>4

LEMMA CountInvariant == Spec => []CountInv
<1>1. Init => CountInv
  <2> SUFFICES ASSUME Init, NEW u \in Units PROVE CountFits(u)
    BY DEF CountInv
  <2>1. Uses(u) = {} /\ Failed = {} /\ reuse[u] = 0
    BY DEF Init, Uses, LoggedUses, OpenUses, Failed
  <2> QED
    BY <2>1, FS_EmptySet DEF CountFits
<1>2. TypeInv /\ RecordedInv /\ TidyInv /\ CountInv /\ [Next]_vars => CountInv'
  <2> SUFFICES ASSUME TypeInv, RecordedInv, TidyInv, CountInv, [Next]_vars
               PROVE  CountInv'
    OBVIOUS
  <2>1. CASE Next
    <3>1. PICK r \in Runs : RunStep(r) \/ Fail(r)
      BY <2>1 DEF Next
    <3>2. TypeOK /\ Shape(r) /\ Tidy(r) /\ HitsFit(r)
      BY DEF TypeInv, RecordedInv, Recorded, TidyInv
    <3> QED
      BY <3>1, <3>2, CountsStep DEF CountInv
  <2>2. CASE UNCHANGED vars
    <3>1. \A u : Uses(u)' = Uses(u) /\ UNCHANGED <<reuse, pc>>
      BY <2>2 DEF vars, Uses, LoggedUses, OpenUses
    <3> QED
      BY <3>1 DEF CountInv, CountFits, Failed
  <2> QED
    BY <2>1, <2>2
<1> QED
  BY <1>1, <1>2, TypeInvariant, RecordedInvariant, TidyInvariant, PTL DEF Spec

\* Whatever the interleaving of the runs and wherever they are cut short, the count of
\* a unit and the logs of hits tell the same uses, but for those of the open searches
\* and at most one use for each run that was cut short.
THEOREM CountsAreLogged == Spec => []CountsMatchLogs
<1>1. CountInv => CountsMatchLogs
  BY DEF CountInv, CountFits, CountsMatchLogs, Uses, Failed
<1> QED
  BY <1>1, CountInvariant, PTL

=============================================================================
