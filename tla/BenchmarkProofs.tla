--------------------------- MODULE BenchmarkProofs ---------------------------
(***************************************************************************)
(* Theorems about BenchmarkShell: its types, that a suite is isolated from  *)
(* all that ran before it, that its progress is told in order, and that a   *)
(* summary is the sum of the rows beside it, for any suites, any number of  *)
(* commands and any limits.                                                 *)
(***************************************************************************)
EXTENDS BenchmarkShell, FiniteSetTheorems, TLAPS

-----------------------------------------------------------------------------
(* Types.                                                                   *)

InTask == {"text", "protocol", "text_row", "protocol_row"}
Typed == TypeOK /\ (pc \in InTask => current >= 1)

LEMMA TotalIsNat ==
    ASSUME NEW s \in Suites PROVE Total(s) \in Nat
<1>1. s.repeat \in Nat /\ Len(s.tasks) \in Nat
  BY BenchmarkAssumption
<1>2. \A m, n \in Nat : m * n \in Nat
  OBVIOUS
<1> QED
  BY <1>1, <1>2 DEF Total

LEMMA FoundIsCounted ==
    ASSUME TypeOK PROVE Cardinality(run.found) \in Nat
<1>1. IsFiniteSet(Units)
  BY BenchmarkAssumption, FS_Interval DEF Units
<1>2. IsFiniteSet(run.found)
  BY <1>1, FS_Subset DEF TypeOK
<1> QED
  BY <1>2, FS_CardinalityType

LEMMA ToldIsEvent ==
    ASSUME TypeOK, NEW phase \in Phases, NEW stage \in Nat
    PROVE  Append(events, Event(phase, stage)) \in Seq([phase : Phases, stage : Nat])
  BY DEF TypeOK, Event

LEMMA StagesAreNat ==
    ASSUME NEW task \in Nat, task >= 1
    PROVE  StageBefore(task) \in Nat /\ StageBefore(task) + 1 \in Nat /\ StageBefore(task) + 2 \in Nat
  BY DEF StageBefore

LEMMA TypeInit == Init => Typed
  BY BenchmarkAssumption DEF Init, Typed, TypeOK, InTask, SuitePhases, Idle, Zero, Totals, Names, Units

LEMMA TypeStep == Typed /\ [Next]_vars => Typed'
<1> SUFFICES ASSUME Typed, [Next]_vars PROVE Typed'
  OBVIOUS
<1> USE BenchmarkAssumption DEF Typed, TypeOK, InTask, SuitePhases, suiteVars, memoryVars
<1>1. CASE Search
  <2>1. Visible \subseteq Units
    BY DEF Visible
  <2> QED
    BY <1>1, <2>1 DEF Search
<1>2. CASE Store
  <2>1. made + 1 \in Units /\ made' \in 0 .. MaxUnits
    BY <1>2 DEF Store, Units
  <2>2. runMem' \subseteq Units /\ fresh' \subseteq Units /\ globalMem' \subseteq Units
    BY <1>2, <2>1 DEF Store
  <2>3. run' = [run EXCEPT !.at = "end"]
        /\ UNCHANGED <<pc, setting, events, commands, suiteVars>>
    BY <1>2 DEF Store
  <2> QED
    BY <2>1, <2>2, <2>3
<1>3. CASE StoreNothing
  BY <1>3 DEF StoreNothing
<1>4. CASE Command
  BY <1>4 DEF Command, OpenStore, Disabled
<1>5. CASE Answer
  BY <1>5 DEF Answer, Idle
<1>6. CASE Raise
  BY <1>6 DEF Raise, Idle
<1>7. CASE Leave
  BY <1>7 DEF Leave, Idle
<1>8. CASE Restart
  BY <1>8 DEF Restart
<1>9. CASE LoadSuite
  <2>1. PICK s \in Suites \cup {Missing} :
          IF s = Missing
          THEN UNCHANGED <<pc, suite, runMem, fresh, kept, events>>
          ELSE /\ suite' = s
               /\ pc' = "cleared"
               /\ runMem' = ResetRunMemory(runMem)
               /\ fresh' = {}
               /\ kept' = globalMem
               /\ events' = <<>>
    BY <1>9 DEF LoadSuite
  <2>2. commands' \in 0 .. MaxCommands
    BY <1>9 DEF LoadSuite
  <2>3. UNCHANGED <<setting, own, saved, current, run, globalMem, made, totals, rows, summary>>
        /\ pc = "prompt"
    BY <1>9 DEF LoadSuite
  <2>4. CASE s = Missing
    BY <2>1, <2>2, <2>3, <2>4
  <2>5. CASE s # Missing
    BY <2>1, <2>2, <2>3, <2>5 DEF ResetRunMemory
  <2> QED
    BY <2>4, <2>5
<1>10. CASE StartSuite
  <2>1. suite \in Suites /\ suite.name \in Names
    BY <1>10 DEF StartSuite, Names
  <2>2. totals' \in Totals /\ saved' = setting /\ setting' = "1" /\ current' = 0
        /\ UNCHANGED <<own, suite, run, kept, commands, runMem, globalMem, made, fresh>>
    BY <1>10 DEF StartSuite, Zero, Totals
  <2>3. CASE suite.valid
    <3>1. /\ pc' = "task" /\ rows' = [rows EXCEPT ![suite.name] = <<>>]
          /\ summary' = [summary EXCEPT ![suite.name] = None]
          /\ events' = <<Event("suite_start", 0)>>
      BY <1>10, <2>3 DEF StartSuite, NoSummary
    <3>2. events' \in Seq([phase : Phases, stage : Nat])
      BY <3>1 DEF Event, Phases
    <3> QED
      BY <2>1, <2>2, <3>1, <3>2
  <2>4. CASE ~suite.valid
    BY <1>10, <2>1, <2>2, <2>4 DEF StartSuite
  <2> QED
    BY <2>3, <2>4
<1>11. CASE BeginTask
  <2>1. current' = current + 1 /\ current' \in Nat /\ current' >= 1 /\ pc' = "text"
    BY <1>11 DEF BeginTask
  <2>2. "cold_start" \in Phases
    BY DEF Phases
  <2>3. events' \in Seq([phase : Phases, stage : Nat])
    <3>1. StageBefore(current') \in Nat
      BY <2>1, StagesAreNat
    <3>2. Append(events, Event("cold_start", StageBefore(current')))
            \in Seq([phase : Phases, stage : Nat])
      BY <2>2, <3>1, ToldIsEvent
    <3> QED
      BY <1>11, <3>2 DEF BeginTask
  <2>4. runMem' \subseteq Units /\ fresh' \subseteq Units
    BY <1>11 DEF BeginTask, ResetRunMemory
  <2> QED
    BY <1>11, <2>1, <2>3, <2>4 DEF BeginTask
<1>12. CASE TextRun
  <2>1. "text" \in Phases
    BY DEF Phases
  <2>2. events' \in Seq([phase : Phases, stage : Nat])
    BY <1>12, <2>1, ToldIsEvent, StagesAreNat DEF TextRun
  <2> QED
    BY <1>12, <2>2 DEF TextRun, OpenStore, Disabled
<1>13. CASE EndProtocolRun
  <2>1. "protocol" \in Phases
    BY DEF Phases
  <2>2. events' \in Seq([phase : Phases, stage : Nat])
    BY <1>13, <2>1, ToldIsEvent, StagesAreNat DEF EndProtocolRun
  <2>3. totals' \in Totals
    <3>1. (IF run.found = {} THEN 0 ELSE 1) \in Nat /\ Cardinality(run.found) \in Nat
      BY FoundIsCounted
    <3>2. totals.runs \in Nat /\ totals.reused \in Nat /\ totals.hits \in Nat
      BY DEF Totals
    <3>3. totals' = [runs |-> totals.runs + 1,
                     reused |-> totals.reused + Cardinality(run.found),
                     hits |-> totals.hits + IF run.found = {} THEN 0 ELSE 1]
      BY <1>13 DEF EndProtocolRun
    <3> QED
      BY <3>1, <3>2, <3>3 DEF Totals
  <2> QED
    BY <1>13, <2>2, <2>3 DEF EndProtocolRun
<1>14. CASE TextRow
  <2>1. suite.name \in Names
    BY <1>14 DEF TextRow, Names
  <2>2. rows' \in [Names -> Seq([task : Nat, mode : {"text", "protocol"}, reused : Nat])]
    BY <1>14, <2>1 DEF TextRow, DetailRow
  <2> QED
    BY <1>14, <2>2 DEF TextRow
<1>15. CASE ProtocolRow
  <2>1. suite.name \in Names
    BY <1>15 DEF ProtocolRow, Names
  <2>2. rows' \in [Names -> Seq([task : Nat, mode : {"text", "protocol"}, reused : Nat])]
    BY <1>15, <2>1, FoundIsCounted DEF ProtocolRow, DetailRow
  <2> QED
    BY <1>15, <2>2 DEF ProtocolRow, Idle
<1>16. CASE WriteSummary
  <2>1. suite \in Suites /\ suite.name \in Names /\ Total(suite) \in Nat
    BY <1>16, TotalIsNat DEF WriteSummary, Names
  <2>2. "suite_complete" \in Phases /\ 2 * Total(suite) \in Nat
    BY <2>1 DEF Phases
  <2>3. events' \in Seq([phase : Phases, stage : Nat])
    BY <1>16, <2>2, ToldIsEvent DEF WriteSummary
  <2>4. summary' \in [Names -> [of : Suites, totals : Totals] \cup {None}]
    BY <1>16, <2>1 DEF WriteSummary
  <2> QED
    BY <1>16, <2>3, <2>4 DEF WriteSummary
<1>17. CASE RestoreSetting
  BY <1>17 DEF RestoreSetting
<1>18. CASE UNCHANGED vars
  BY <1>18 DEF vars
<1> QED
  BY <1>1, <1>2, <1>3, <1>4, <1>5, <1>6, <1>7, <1>8, <1>9, <1>10, <1>11, <1>12, <1>13,
     <1>14, <1>15, <1>16, <1>17, <1>18 DEF Next, RunStep, ShellStep, SuiteStep

\* Every variable keeps its type: no unit beyond MaxUnits is ever named, and every
\* stage told is a natural number, the first cold start of a suite included.
THEOREM TypeCorrect == Spec => []TypeOK
<1>1. Typed => TypeOK
  BY DEF Typed
<1> QED
  BY <1>1, TypeInit, TypeStep, PTL DEF Spec

-----------------------------------------------------------------------------
(* Isolation.                                                               *)

\* No run is in progress, and none has left anything behind.
Quiet == {"prompt", "gone", "cleared", "task", "text", "restore"}
QuietIsIdle == pc \in Quiet => run = Idle

\* Once the files are cleared, there is nothing to reuse.
ClearedIsEmpty ==
    pc = "cleared" => runMem = {} /\ fresh = {} /\ globalMem = kept

\* In a suite the global memory is hidden and stays as it was, the run's memory
\* has only the suite's own units, and so has what its runs have found.
SuiteIsHidden ==
    pc \in SuitePhases =>
        /\ setting = "1"
        /\ ~run.global
        /\ runMem \subseteq fresh
        /\ run.found \subseteq fresh
        /\ globalMem = kept

Isolated == QuietIsIdle /\ ClearedIsEmpty /\ SuiteIsHidden

LEMMA IsolatedInit == Init => Isolated
  BY DEF Init, Isolated, QuietIsIdle, ClearedIsEmpty, SuiteIsHidden, SuitePhases

LEMMA IsolatedStep ==
    ASSUME CanUnlink = TRUE, Typed, Isolated, [Next]_vars PROVE Isolated'
<1> USE DEF Typed, TypeOK, Isolated, QuietIsIdle, ClearedIsEmpty, SuiteIsHidden, SuitePhases,
            Quiet, Idle, suiteVars, memoryVars
<1>1. CASE Search
  BY <1>1 DEF Search, Visible
<1>2. CASE Store
  BY <1>2 DEF Store
<1>3. CASE StoreNothing
  BY <1>3 DEF StoreNothing
<1>4. CASE Command
  BY <1>4 DEF Command
<1>5. CASE Answer
  BY <1>5 DEF Answer
<1>6. CASE Raise
  BY <1>6 DEF Raise
<1>7. CASE Leave
  BY <1>7 DEF Leave
<1>8. CASE Restart
  BY <1>8 DEF Restart
<1>9. CASE LoadSuite
  BY <1>9, CanUnlink = TRUE DEF LoadSuite, ResetRunMemory
<1>10. CASE StartSuite
  BY <1>10 DEF StartSuite
<1>11. CASE BeginTask
  BY <1>11, CanUnlink = TRUE DEF BeginTask, ResetRunMemory
<1>12. CASE TextRun
  BY <1>12 DEF TextRun, OpenStore, Disabled
<1>13. CASE EndProtocolRun
  BY <1>13 DEF EndProtocolRun
<1>14. CASE TextRow
  BY <1>14 DEF TextRow
<1>15. CASE ProtocolRow
  BY <1>15 DEF ProtocolRow
<1>16. CASE WriteSummary
  BY <1>16 DEF WriteSummary
<1>17. CASE RestoreSetting
  BY <1>17 DEF RestoreSetting
<1>18. CASE UNCHANGED vars
  BY <1>18 DEF vars
<1> QED
  BY <1>1, <1>2, <1>3, <1>4, <1>5, <1>6, <1>7, <1>8, <1>9, <1>10, <1>11, <1>12, <1>13,
     <1>14, <1>15, <1>16, <1>17, <1>18 DEF Next, RunStep, ShellStep, SuiteStep

\* Where an open file can be removed, what the runs of a suite reuse was stored
\* by the same suite since its last cold start, and none of them touches the global
\* memory, whatever commands, exceptions and restarts came before.
THEOREM SuitesAreIsolated ==
    ASSUME CanUnlink = TRUE PROVE Spec => []SuiteIsIsolated
<1>1. Typed /\ Isolated /\ [Next]_vars => (Typed /\ Isolated)'
  BY TypeStep, IsolatedStep
<1>2. Isolated => SuiteIsIsolated
  BY DEF Isolated, SuiteIsHidden, SuiteIsIsolated
<1> QED
  BY <1>1, <1>2, TypeInit, IsolatedInit, PTL DEF Spec

-----------------------------------------------------------------------------
(* Progress.                                                                *)

\* Stages are told in their order, and none beyond the number of those told.
EventsAdvance ==
    /\ \A m, n \in DOMAIN events : m < n => events[m].stage <= events[n].stage
    /\ \A n \in DOMAIN events : events[n].stage <= Cardinality(Told)
    /\ \A n \in Told : events[n].stage = Cardinality(ToldBy(n))

\* How many runs of a task have been told, written down and added up.
ToldUpTo ==
    IF pc = "text" THEN 2 * current - 2
    ELSE IF pc = "protocol" THEN 2 * current - 1 ELSE 2 * current
RowsUpTo ==
    IF pc \in {"text", "protocol", "text_row"} THEN 2 * current - 2
    ELSE IF pc = "protocol_row" THEN 2 * current - 1 ELSE 2 * current
RunsUpTo == IF pc \in {"text", "protocol"} THEN current - 1 ELSE current

\* What the run in progress has added to the totals and to no row as yet.
Pending == IF pc \in {"text_row", "protocol_row"} THEN run.found ELSE {}

\* Events, rows and totals each stand where the task in progress has brought them.
SuiteKeepsCount ==
    pc \in SuitePhases =>
        /\ current <= Total(suite)
        /\ pc = "restore" => current = Total(suite)
        /\ Cardinality(Told) = ToldUpTo
        /\ Len(rows[suite.name]) = RowsUpTo
        /\ totals.runs = RunsUpTo

\* The rows of the suite in progress add up, with the run that has none, and
\* there is no summary beside them before the last.
SuiteAddsUp ==
    pc \in SuitePhases =>
        /\ InOrder(suite.name)
        /\ totals.reused = Cardinality(ReusedIn(suite.name)) + Cardinality(Pending)
        /\ totals.hits = Cardinality(HitsIn(suite.name)) + IF Pending = {} THEN 0 ELSE 1
        /\ pc # "restore" => summary[suite.name] = None

\* A run of a task that is over keeps what it has found and finds nothing more.
RunIsOver == pc \in {"text_row", "protocol_row"} => run.at = "none"

Counted == EventsAdvance /\ SuiteKeepsCount /\ SuiteAddsUp /\ RunIsOver

-----------------------------------------------------------------------------
(* What telling an event and adding a row do to the counts.                 *)

LEMMA ToldIsFinite ==
    ASSUME TypeOK
    PROVE  /\ IsFiniteSet(Told) /\ Cardinality(Told) \in Nat
           /\ DOMAIN events = 1 .. Len(events) /\ Len(events) \in Nat
<1>1. DOMAIN events = 1 .. Len(events) /\ Len(events) \in Nat
  BY DEF TypeOK
<1>2. IsFiniteSet(Told)
  <2>1. Told \subseteq 1 .. Len(events)
    BY <1>1 DEF Told
  <2>2. IsFiniteSet(1 .. Len(events))
    BY <1>1, FS_Interval
  <2> QED
    BY <2>1, <2>2, FS_Subset
<1> QED
  BY <1>1, <1>2, FS_CardinalityType

LEMMA StagesAreNumbers ==
    ASSUME TypeOK, NEW n \in DOMAIN events PROVE events[n].stage \in Nat
<1> DEFINE E == [phase : Phases, stage : Nat]
<1>1. events \in Seq(E)
  BY DEF TypeOK
<1>2. events[n] \in E
  <2> HIDE DEF E
  <2> QED
    BY <1>1
<1> QED
  BY <1>2

\* What an appended event leaves of those before it.
LEMMA EventsKept ==
    ASSUME TypeOK, NEW e, events' = Append(events, e)
    PROVE  /\ Len(events') = Len(events) + 1
           /\ DOMAIN events' = DOMAIN events \cup {Len(events) + 1}
           /\ events'[Len(events) + 1] = e
           /\ \A n \in DOMAIN events : events'[n] = events[n]
  BY DEF TypeOK

LEMMA Tell ==
    ASSUME TypeOK, EventsAdvance,
           NEW phase \in {"text", "protocol"}, NEW stage,
           stage = Cardinality(Told) + 1,
           events' = Append(events, Event(phase, stage))
    PROVE  EventsAdvance' /\ Cardinality(Told)' = Cardinality(Told) + 1
<1> DEFINE new == Len(events) + 1
<1>1. /\ DOMAIN events' = DOMAIN events \cup {new}
      /\ events'[new].phase = phase /\ events'[new].stage = stage
      /\ \A n \in DOMAIN events : events'[n] = events[n] /\ n < new
      /\ new \notin DOMAIN events /\ new \in Nat
  BY EventsKept, ToldIsFinite DEF Event
<1>2. Told' = Told \cup {new} /\ new \notin Told
  BY <1>1 DEF Told
<1>3. Cardinality(Told') = Cardinality(Told) + 1
  BY <1>2, ToldIsFinite, FS_AddElement
<1>4. \A n \in Told : ToldBy(n)' = ToldBy(n)
  BY <1>1, <1>2 DEF ToldBy, Told
<1>5. \A m \in Told' : m <= new
  BY <1>1, <1>2, ToldIsFinite DEF Told
<1>6. {m \in Told' : m <= new} = Told'
  BY <1>5
<1>7. \A n \in DOMAIN events : events[n].stage \in Nat
  BY StagesAreNumbers
<1> HIDE DEF new
<1>8. \A n \in DOMAIN events' : events'[n].stage <= Cardinality(Told')
  BY <1>1, <1>3, <1>7, ToldIsFinite DEF EventsAdvance
<1>9. \A m, n \in DOMAIN events' : m < n => events'[m].stage <= events'[n].stage
  BY <1>1, <1>7, ToldIsFinite DEF EventsAdvance
<1>10. \A n \in Told' : events'[n].stage = Cardinality({m \in Told' : m <= n})
  <2>1. ASSUME NEW n \in Told PROVE events'[n].stage = Cardinality({m \in Told' : m <= n})
    BY <1>1, <1>4, <2>1 DEF EventsAdvance, Told, ToldBy
  <2> QED
    BY <2>1, <1>1, <1>2, <1>3, <1>6
<1> QED
  BY <1>3, <1>8, <1>9, <1>10 DEF EventsAdvance, ToldBy

LEMMA Announce ==
    ASSUME TypeOK, EventsAdvance,
           NEW phase, phase \notin {"text", "protocol"}, NEW stage,
           stage = Cardinality(Told),
           events' = Append(events, Event(phase, stage))
    PROVE  EventsAdvance' /\ Cardinality(Told)' = Cardinality(Told)
<1> DEFINE new == Len(events) + 1
<1>1. /\ DOMAIN events' = DOMAIN events \cup {new}
      /\ events'[new].phase = phase /\ events'[new].stage = stage
      /\ \A n \in DOMAIN events : events'[n] = events[n] /\ n < new
      /\ new \notin DOMAIN events /\ new \in Nat
  BY EventsKept, ToldIsFinite DEF Event
<1>2. Told' = Told
  BY <1>1 DEF Told
<1>3. \A n \in DOMAIN events : events[n].stage \in Nat
  BY StagesAreNumbers
<1> HIDE DEF new
<1>4. \A m, n \in DOMAIN events' : m < n => events'[m].stage <= events'[n].stage
  BY <1>1, <1>3, ToldIsFinite DEF EventsAdvance
<1>5. \A n \in DOMAIN events' : events'[n].stage <= Cardinality(Told')
  BY <1>1, <1>2, <1>3, ToldIsFinite DEF EventsAdvance
<1>6. \A n \in Told' : events'[n].stage = Cardinality({m \in Told' : m <= n})
  <2>1. ASSUME NEW n \in Told PROVE events'[n].stage = Cardinality({m \in Told : m <= n})
    BY <1>1 DEF EventsAdvance, Told, ToldBy
  <2> QED
    BY <2>1, <1>2
<1> QED
  BY <1>2, <1>4, <1>5, <1>6 DEF EventsAdvance, ToldBy

LEMMA ReusedIsFinite ==
    ASSUME TypeOK, NEW n \in Names
    PROVE  /\ DOMAIN rows[n] = 1 .. Len(rows[n]) /\ Len(rows[n]) \in Nat
           /\ IsFiniteSet(ReusedIn(n)) /\ Cardinality(ReusedIn(n)) \in Nat
           /\ IsFiniteSet(HitsIn(n)) /\ Cardinality(HitsIn(n)) \in Nat
<1>1. DOMAIN rows[n] = 1 .. Len(rows[n]) /\ Len(rows[n]) \in Nat
      /\ \A r \in DOMAIN rows[n] : rows[n][r].reused \in Nat
  <2> DEFINE R == [task : Nat, mode : {"text", "protocol"}, reused : Nat]
  <2>1. rows[n] \in Seq(R)
    BY DEF TypeOK
  <2>2. \A x \in R : x.reused \in Nat
    OBVIOUS
  <2> HIDE DEF R
  <2> QED
    BY <2>1, <2>2
<1>2. IsFiniteSet(DOMAIN rows[n])
  <2>1. 1 \in Int /\ Len(rows[n]) \in Int
    BY <1>1
  <2>2. IsFiniteSet(1 .. Len(rows[n]))
    BY <2>1, FS_Interval
  <2> QED
    BY <1>1, <2>2
<1>3. IsFiniteSet(HitsIn(n))
  BY <1>2, FS_Subset DEF HitsIn
<1> DEFINE S == {{r} \X (1 .. rows[n][r].reused) : r \in DOMAIN rows[n]}
<1>4. IsFiniteSet(S)
  <2> DEFINE f == [r \in DOMAIN rows[n] |-> {r} \X (1 .. rows[n][r].reused)]
  <2>1. S = {f[r] : r \in DOMAIN rows[n]}
    OBVIOUS
  <2>2. f \in [DOMAIN rows[n] -> S] /\ \A x \in S : \E r \in DOMAIN rows[n] : f[r] = x
    OBVIOUS
  <2>3. f \in Surjection(DOMAIN rows[n], S)
    BY <2>2 DEF Surjection
  <2> QED
    BY <1>2, <2>3, FS_Surjection
<1>5. \A x \in S : IsFiniteSet(x)
  <2>1. ASSUME NEW r \in DOMAIN rows[n] PROVE IsFiniteSet({r} \X (1 .. rows[n][r].reused))
    <3>1. 1 \in Int /\ rows[n][r].reused \in Int
      BY <1>1
    <3>2. IsFiniteSet(1 .. rows[n][r].reused)
      BY <3>1, FS_Interval
    <3>3. IsFiniteSet({r})
      BY FS_Singleton
    <3> QED
      BY <3>2, <3>3, FS_Product
  <2> QED
    BY <2>1
<1>6. IsFiniteSet(ReusedIn(n))
  BY <1>4, <1>5, FS_UNION DEF ReusedIn
<1> QED
  BY <1>1, <1>3, <1>6, FS_CardinalityType

\* DetailRow, of any row of any name.
AddRow(n, row) == rows' = [rows EXCEPT ![n] = Append(@, row)]

LEMMA RowAdded ==
    ASSUME TypeOK, NEW n \in Names, NEW row,
           row \in [task : Nat, mode : {"text", "protocol"}, reused : Nat],
           AddRow(n, row)
    PROVE  /\ Len(rows'[n]) = Len(rows[n]) + 1
           /\ DOMAIN rows'[n] = DOMAIN rows[n] \cup {Len(rows[n]) + 1}
           /\ rows'[n][Len(rows[n]) + 1] = row
           /\ \A r \in DOMAIN rows[n] : rows'[n][r] = rows[n][r]
           /\ \A m \in Names \ {n} : rows'[m] = rows[m]
<1> DEFINE R == [task : Nat, mode : {"text", "protocol"}, reused : Nat]
<1>1. rows \in [Names -> Seq(R)] /\ row \in R
  BY DEF TypeOK
<1>2. rows[n] \in Seq(R) /\ rows'[n] = Append(rows[n], row)
      /\ \A m \in Names \ {n} : rows'[m] = rows[m]
  BY <1>1 DEF AddRow
<1> HIDE DEF R
<1> QED
  BY <1>1, <1>2

\* A row adds the units its run has reused, and a hit when there are any.
LEMMA RowCounts ==
    ASSUME TypeOK, NEW n \in Names, NEW row,
           row \in [task : Nat, mode : {"text", "protocol"}, reused : Nat],
           AddRow(n, row)
    PROVE  /\ Cardinality(ReusedIn(n))' = Cardinality(ReusedIn(n)) + row.reused
           /\ Cardinality(HitsIn(n))' =
                 Cardinality(HitsIn(n)) + IF row.reused = 0 THEN 0 ELSE 1
<1> DEFINE new == Len(rows[n]) + 1
           added == {new} \X (1 .. row.reused)
<1>1. /\ DOMAIN rows'[n] = DOMAIN rows[n] \cup {new}
      /\ rows'[n][new] = row
      /\ \A r \in DOMAIN rows[n] : rows'[n][r] = rows[n][r]
  BY RowAdded
<1>2. new \notin DOMAIN rows[n]
  BY ReusedIsFinite
<1>3. row.reused \in Nat
  OBVIOUS
<1> HIDE DEF new
<1>4. ReusedIn(n)' = ReusedIn(n) \cup added
  BY <1>1, <1>2 DEF ReusedIn
<1>5. ReusedIn(n) \cap added = {}
  BY <1>2 DEF ReusedIn
<1>6. IsFiniteSet(1 .. row.reused) /\ Cardinality(1 .. row.reused) = row.reused
  <2>1. 1 \in Int /\ row.reused \in Int /\ row.reused - 1 + 1 = row.reused
    BY <1>3
  <2>2. (IF 1 > row.reused THEN 0 ELSE row.reused - 1 + 1) = row.reused
    BY <1>3
  <2> QED
    BY <2>1, <2>2, FS_Interval
<1>7. IsFiniteSet({new}) /\ Cardinality({new}) = 1
  BY FS_Singleton
<1>8. IsFiniteSet(added) /\ Cardinality(added) = row.reused
  <2>1. IsFiniteSet(added) /\ Cardinality(added) = 1 * row.reused
    <3>1. /\ IsFiniteSet(added)
          /\ Cardinality(added) = Cardinality({new}) * Cardinality(1 .. row.reused)
      BY <1>6, <1>7, FS_Product, Zenon
    <3> QED
      BY <1>6, <1>7, <3>1, Zenon
  <2>2. 1 * row.reused = row.reused
    BY <1>3
  <2> QED
    BY <2>1, <2>2
<1> HIDE DEF added
<1>9. Cardinality(ReusedIn(n) \cup added) = Cardinality(ReusedIn(n)) + row.reused
  <2>1. Cardinality(ReusedIn(n) \cup added)
          = Cardinality(ReusedIn(n)) + Cardinality(added) - Cardinality({})
    BY <1>5, <1>8, ReusedIsFinite, FS_Union
  <2>2. Cardinality({}) = 0
    BY FS_EmptySet
  <2> QED
    BY <2>1, <2>2, <1>3, <1>8, ReusedIsFinite
<1>10. Cardinality(HitsIn(n)') = Cardinality(HitsIn(n)) + IF row.reused = 0 THEN 0 ELSE 1
  <2>1. CASE row.reused = 0
    <3>1. HitsIn(n)' = HitsIn(n)
      BY <1>1, <1>2, <2>1 DEF HitsIn
    <3> QED
      BY <2>1, <3>1, ReusedIsFinite
  <2>2. CASE row.reused # 0
    <3>1. HitsIn(n)' = HitsIn(n) \cup {new} /\ new \notin HitsIn(n)
      BY <1>1, <1>2, <1>3, <2>2 DEF HitsIn
    <3> QED
      BY <2>2, <3>1, ReusedIsFinite, FS_AddElement
  <2> QED
    BY <2>1, <2>2
<1> QED
  BY <1>4, <1>9, <1>10

\* The row of a task's text run and that of its protocol run follow its order.
LEMMA TextRowInOrder ==
    ASSUME NEW c \in Nat, c >= 1
    PROVE  (2 * c - 2 + 1 + 1) \div 2 = c /\ (2 * c - 2 + 1) % 2 = 1
  OBVIOUS

LEMMA ProtocolRowInOrder ==
    ASSUME NEW c \in Nat, c >= 1
    PROVE  (2 * c - 1 + 1 + 1) \div 2 = c /\ (2 * c - 1 + 1) % 2 = 0
  OBVIOUS

-----------------------------------------------------------------------------
(* Every step keeps the count.                                              *)

LEMMA QuietStep ==
    ASSUME Typed, QuietIsIdle, [Next]_vars PROVE QuietIsIdle'
<1> USE DEF QuietIsIdle, Quiet
<1>1. CASE RunStep
  <2>1. run.at \in {"search", "store"} /\ pc' = pc
    BY <1>1 DEF RunStep, Search, Store, StoreNothing
  <2>2. run # Idle
    BY <2>1 DEF Idle
  <2> QED
    BY <2>1, <2>2
<1>2. CASE ShellStep
  BY <1>2 DEF ShellStep, Command, Answer, Raise, Leave, Restart
<1>3. CASE LoadSuite \/ StartSuite \/ BeginTask
  BY <1>3 DEF LoadSuite, StartSuite, BeginTask, memoryVars
<1>4. CASE TextRun \/ EndProtocolRun \/ TextRow \/ ProtocolRow \/ WriteSummary \/ RestoreSetting
  BY <1>4 DEF TextRun, EndProtocolRun, TextRow, ProtocolRow, WriteSummary, RestoreSetting
<1>5. CASE UNCHANGED vars
  BY <1>5 DEF vars
<1> QED
  BY <1>1, <1>2, <1>3, <1>4, <1>5 DEF Next, SuiteStep

\* The steps that leave the suite's events, rows and totals as they are.
LEMMA CountKept ==
    ASSUME Counted, UNCHANGED <<events, suiteVars>>,
           \/ pc' = pc /\ Pending' = Pending /\ RunIsOver'
           \/ pc' \notin SuitePhases
    PROVE  Counted'
<1>1. EventsAdvance' /\ Told' = Told
  BY DEF Counted, EventsAdvance, Told, ToldBy
<1>2. CASE pc' = pc /\ Pending' = Pending /\ RunIsOver'
  <2>1. UNCHANGED <<suite, current, totals, rows, summary, pc>>
    BY <1>2 DEF suiteVars
  <2>2. SuiteKeepsCount'
    BY <1>1, <2>1 DEF Counted, SuiteKeepsCount, ToldUpTo, RowsUpTo, RunsUpTo, Total
  <2>3. SuiteAddsUp'
    BY <1>2, <2>1 DEF Counted, SuiteAddsUp, InOrder, ReusedIn, HitsIn
  <2> QED
    BY <1>1, <1>2, <2>2, <2>3 DEF Counted
<1>3. CASE pc' \notin SuitePhases
  BY <1>1, <1>3 DEF Counted, SuiteKeepsCount, SuiteAddsUp, RunIsOver, SuitePhases
<1> QED
  BY <1>2, <1>3

LEMMA CountedInit == Init => Counted
<1> SUFFICES ASSUME Init PROVE Counted
  OBVIOUS
<1>1. DOMAIN events = {} /\ Told = {}
  BY DEF Init, Told
<1>2. pc = "prompt"
  BY DEF Init
<1> QED
  BY <1>1, <1>2 DEF Counted, EventsAdvance, SuiteKeepsCount, SuiteAddsUp, RunIsOver, SuitePhases

\* The runs themselves, and the shell's ordinary commands.
LEMMA RunsKeepCount ==
    ASSUME Typed, QuietIsIdle, Counted, RunStep PROVE Counted'
<1>1. run.at \in {"search", "store"} /\ UNCHANGED <<pc, events, suiteVars>>
  BY DEF RunStep, Search, Store, StoreNothing, suiteVars
<1>2. pc \notin Quiet \cup {"text_row", "protocol_row"}
  BY <1>1 DEF QuietIsIdle, Idle, Counted, RunIsOver
<1>3. pc' = pc /\ Pending' = Pending /\ RunIsOver'
  BY <1>1, <1>2 DEF Pending, RunIsOver
<1> QED
  BY <1>1, <1>3, CountKept

LEMMA ShellKeepsCount ==
    ASSUME Counted, ShellStep PROVE Counted'
<1>1. pc' \notin SuitePhases
  BY DEF ShellStep, Command, Answer, Raise, Leave, Restart, SuitePhases
<1>2. UNCHANGED <<events, suiteVars>>
  BY DEF ShellStep, Command, Answer, Raise, Leave, Restart, suiteVars
<1> QED
  BY <1>1, <1>2, CountKept

LEMMA LoadKeepsCount ==
    ASSUME Counted, LoadSuite PROVE Counted'
<1>1. pc' \in {"prompt", "cleared"} /\ events' \in {events, <<>>}
  BY DEF LoadSuite
<1>2. EventsAdvance'
  <2>1. CASE events' = events
    BY <2>1 DEF Counted, EventsAdvance, Told, ToldBy
  <2>2. CASE events' = <<>>
    <3>1. DOMAIN events' = {} /\ Told' = {}
      BY <2>2 DEF Told
    <3> QED
      BY <3>1 DEF EventsAdvance
  <2> QED
    BY <1>1, <2>1, <2>2
<1> QED
  BY <1>1, <1>2 DEF Counted, SuiteKeepsCount, SuiteAddsUp, RunIsOver, SuitePhases

LEMMA StartKeepsCount ==
    ASSUME Typed, Counted, StartSuite PROVE Counted'
<1>1. CASE ~suite.valid
  <2>1. pc' = "prompt" /\ events' = events
    BY <1>1 DEF StartSuite
  <2>2. EventsAdvance'
    BY <2>1 DEF Counted, EventsAdvance, Told, ToldBy
  <2> QED
    BY <2>1, <2>2 DEF Counted, SuiteKeepsCount, SuiteAddsUp, RunIsOver, SuitePhases
<1>2. CASE suite.valid
  <2>1. suite \in Suites /\ suite.name \in Names /\ suite' = suite
    BY DEF StartSuite, Typed, TypeOK, Names
  <2>2. pc' = "task" /\ current' = 0 /\ totals' = Zero
    BY <1>2 DEF StartSuite
  <2>3. rows'[suite.name] = <<>> /\ summary'[suite.name] = None
    BY <1>2, <2>1 DEF StartSuite, NoSummary, Typed, TypeOK
  <2>4. events' = <<Event("suite_start", 0)>>
    BY <1>2 DEF StartSuite
  <2>5. DOMAIN events' = {1} /\ events'[1].stage = 0 /\ Told' = {}
    BY <2>4 DEF Told, Event
  <2>6. Cardinality({}) = 0
    BY FS_EmptySet
  <2>7. EventsAdvance'
    BY <2>5, <2>6 DEF EventsAdvance
  <2>8. InOrder(suite.name)' /\ ReusedIn(suite.name)' = {} /\ HitsIn(suite.name)' = {}
        /\ Pending' = {}
    BY <2>1, <2>2, <2>3 DEF InOrder, ReusedIn, HitsIn, Pending
  <2>9. SuiteKeepsCount'
    BY <2>1, <2>2, <2>3, <2>5, <2>6, TotalIsNat DEF SuiteKeepsCount, ToldUpTo, RowsUpTo, RunsUpTo, Zero, Total
  <2>10. SuiteAddsUp'
    BY <2>1, <2>2, <2>3, <2>6, <2>8 DEF SuiteAddsUp, Zero
  <2> QED
    BY <2>2, <2>7, <2>9, <2>10 DEF Counted, RunIsOver
<1> QED
  BY <1>1, <1>2

\* Where the suite's rows and summary stay, so do their sums.
LEMMA SumsKept ==
    ASSUME UNCHANGED <<rows, summary, suite>>
    PROVE  /\ InOrder(suite.name)' = InOrder(suite.name)
           /\ ReusedIn(suite.name)' = ReusedIn(suite.name)
           /\ HitsIn(suite.name)' = HitsIn(suite.name)
  BY DEF InOrder, ReusedIn, HitsIn

LEMMA BeginKeepsCount ==
    ASSUME Typed, Counted, BeginTask PROVE Counted'
<1>1. /\ pc = "task" /\ pc' = "text" /\ current < Total(suite) /\ current' = current + 1
      /\ UNCHANGED <<suite, totals, rows, summary>>
  BY DEF BeginTask
<1>2. current \in Nat /\ suite \in Suites /\ Total(suite) \in Nat
  BY <1>1, TotalIsNat DEF Typed, TypeOK, SuitePhases
<1>3. Cardinality(Told) = 2 * current /\ Len(rows[suite.name]) = 2 * current
      /\ totals.runs = current
  BY <1>1 DEF Counted, SuiteKeepsCount, SuitePhases, ToldUpTo, RowsUpTo, RunsUpTo
<1>4. EventsAdvance' /\ Cardinality(Told)' = Cardinality(Told)
  <2>1. CASE events' = events
    BY <2>1 DEF Counted, EventsAdvance, Told, ToldBy
  <2>2. CASE events' = Append(events, Event("cold_start", StageBefore(current')))
    <3>1. StageBefore(current') = Cardinality(Told)
      BY <1>1, <1>2, <1>3 DEF StageBefore
    <3> QED
      BY <2>2, <3>1, Announce DEF Typed, Counted
  <2> QED
    BY <2>1, <2>2 DEF BeginTask
<1>5. Pending = {} /\ Pending' = {}
  BY <1>1 DEF Pending
<1>6. SuiteKeepsCount'
  BY <1>1, <1>2, <1>3, <1>4 DEF SuiteKeepsCount, ToldUpTo, RowsUpTo, RunsUpTo, Total
<1>7. SuiteAddsUp'
  BY <1>1, <1>5, SumsKept DEF Counted, SuiteAddsUp, SuitePhases
<1> QED
  BY <1>1, <1>4, <1>6, <1>7 DEF Counted, RunIsOver

LEMMA TextKeepsCount ==
    ASSUME Typed, Counted, TextRun PROVE Counted'
<1>1. /\ pc = "text" /\ pc' = "protocol"
      /\ UNCHANGED <<suite, current, totals, rows, summary>>
  BY DEF TextRun, suiteVars
<1>2. current \in Nat /\ current >= 1
  BY <1>1 DEF Typed, TypeOK, InTask
<1>3. Cardinality(Told) = 2 * current - 2
  BY <1>1 DEF Counted, SuiteKeepsCount, SuitePhases, ToldUpTo
<1>4. EventsAdvance' /\ Cardinality(Told)' = Cardinality(Told) + 1
  <2>1. StageBefore(current) + 1 = Cardinality(Told) + 1
    BY <1>2, <1>3 DEF StageBefore
  <2>2. events' = Append(events, Event("text", StageBefore(current) + 1))
    BY DEF TextRun
  <2> QED
    BY <2>1, <2>2, Tell DEF Typed, Counted
<1>5. Pending = {} /\ Pending' = {}
  BY <1>1 DEF Pending
<1>6. SuiteKeepsCount'
  BY <1>1, <1>2, <1>3, <1>4 DEF Counted, SuiteKeepsCount, SuitePhases, ToldUpTo, RowsUpTo, RunsUpTo, Total
<1>7. SuiteAddsUp'
  BY <1>1, <1>5, SumsKept DEF Counted, SuiteAddsUp, SuitePhases
<1> QED
  BY <1>1, <1>4, <1>6, <1>7 DEF Counted, RunIsOver

LEMMA EndKeepsCount ==
    ASSUME Typed, Counted, EndProtocolRun PROVE Counted'
<1>1. /\ pc = "protocol" /\ pc' = "text_row" /\ run'.at = "none" /\ run'.found = run.found
      /\ UNCHANGED <<suite, current, rows, summary>>
      /\ totals' = [runs |-> totals.runs + 1,
                    reused |-> totals.reused + Cardinality(run.found),
                    hits |-> totals.hits + IF run.found = {} THEN 0 ELSE 1]
  BY DEF EndProtocolRun, Typed, TypeOK
<1>2. /\ current \in Nat /\ current >= 1
      /\ totals.runs \in Nat /\ totals.reused \in Nat /\ totals.hits \in Nat
  BY <1>1 DEF Typed, TypeOK, InTask, Totals
<1>3. Cardinality(Told) = 2 * current - 1
  BY <1>1 DEF Counted, SuiteKeepsCount, SuitePhases, ToldUpTo
<1>4. EventsAdvance' /\ Cardinality(Told)' = Cardinality(Told) + 1
  <2>1. StageBefore(current) + 2 = Cardinality(Told) + 1
    BY <1>2, <1>3 DEF StageBefore
  <2>2. events' = Append(events, Event("protocol", StageBefore(current) + 2))
    BY DEF EndProtocolRun
  <2> QED
    BY <2>1, <2>2, Tell DEF Typed, Counted
<1>5. Pending = {} /\ Pending' = run.found /\ Cardinality({}) = 0
  BY <1>1, FS_EmptySet DEF Pending
<1>6. SuiteKeepsCount'
  BY <1>1, <1>2, <1>3, <1>4 DEF Counted, SuiteKeepsCount, SuitePhases, ToldUpTo, RowsUpTo, RunsUpTo, Total
<1>7. SuiteAddsUp'
  <2>1. suite.name \in Names
    BY <1>1 DEF Typed, TypeOK, Names, SuitePhases
  <2>2. Cardinality(ReusedIn(suite.name)) \in Nat /\ Cardinality(HitsIn(suite.name)) \in Nat
    BY <2>1, ReusedIsFinite DEF Typed
  <2>3. /\ totals.reused = Cardinality(ReusedIn(suite.name))
        /\ totals.hits = Cardinality(HitsIn(suite.name))
        /\ InOrder(suite.name) /\ summary[suite.name] = None
    BY <1>1, <1>2, <1>5, <2>2 DEF Counted, SuiteAddsUp, SuitePhases
  <2> QED
    BY <1>1, <1>5, <2>3, SumsKept DEF SuiteAddsUp
<1> QED
  BY <1>1, <1>4, <1>6, <1>7 DEF Counted, RunIsOver

LEMMA RowsKeepCount ==
    ASSUME Typed, Counted, TextRow \/ ProtocolRow PROVE Counted'
<1>1. /\ pc \in {"text_row", "protocol_row"}
      /\ UNCHANGED <<suite, current, totals, events, summary>>
  BY DEF TextRow, ProtocolRow
<1>2. /\ current \in Nat /\ current >= 1 /\ suite.name \in Names
      /\ Cardinality(run.found) \in Nat
  BY <1>1, FoundIsCounted DEF Typed, TypeOK, InTask, Names, SuitePhases
<1> PICK n \in Names : n = suite.name
  BY <1>2
<1> DEFINE mode == IF pc = "text_row" THEN "text" ELSE "protocol"
           reused == IF pc = "text_row" THEN 0 ELSE Cardinality(run.found)
<1>3. PICK row : row = [task |-> current, mode |-> mode, reused |-> reused]
  OBVIOUS
<1>4. /\ row \in [task : Nat, mode : {"text", "protocol"}, reused : Nat]
      /\ row.task = current /\ row.mode = mode /\ row.reused = reused
  BY <1>2, <1>3
<1>5. AddRow(n, row)
  <2>1. CASE TextRow
    BY <2>1, <1>3 DEF TextRow, DetailRow, AddRow
  <2>2. CASE ProtocolRow
    BY <2>2, <1>3 DEF ProtocolRow, DetailRow, AddRow
  <2> QED
    BY <2>1, <2>2
<1>6. /\ Len(rows'[n]) = Len(rows[n]) + 1
      /\ DOMAIN rows'[n] = DOMAIN rows[n] \cup {Len(rows[n]) + 1}
      /\ rows'[n][Len(rows[n]) + 1] = row
      /\ \A r \in DOMAIN rows[n] : rows'[n][r] = rows[n][r]
  <2> HIDE DEF mode, reused
  <2>1. TypeOK
    BY DEF Typed
  <2>2. row \in [task : Nat, mode : {"text", "protocol"}, reused : Nat]
    BY <1>4
  <2> QED
    BY <2>1, <2>2, <1>5, RowAdded
<1>7. /\ Cardinality(ReusedIn(n)') = Cardinality(ReusedIn(n)) + reused
      /\ Cardinality(HitsIn(n)') = Cardinality(HitsIn(n)) + IF reused = 0 THEN 0 ELSE 1
  BY <1>4, <1>5, RowCounts DEF Typed
<1>8. EventsAdvance' /\ Told' = Told
  BY <1>1 DEF Counted, EventsAdvance, Told, ToldBy
<1>9. Len(rows[n]) = IF pc = "text_row" THEN 2 * current - 2 ELSE 2 * current - 1
  BY <1>1 DEF Counted, SuiteKeepsCount, SuitePhases, RowsUpTo
<1>10. InOrder(n)'
  <2>1. InOrder(n)
    BY <1>1 DEF Counted, SuiteAddsUp, SuitePhases
  <2>2. DEFINE new == Len(rows[n]) + 1
  <2>3. row.task = (new + 1) \div 2 /\ row.mode = IF new % 2 = 1 THEN "text" ELSE "protocol"
    <3>1. CASE pc = "text_row"
      BY <3>1, <1>2, <1>4, <1>9, TextRowInOrder
    <3>2. CASE pc # "text_row"
      BY <3>2, <1>2, <1>4, <1>9, ProtocolRowInOrder
    <3> QED
      BY <3>1, <3>2
  <2> HIDE DEF mode
  <2>4. ASSUME NEW r \in DOMAIN rows'[n]
        PROVE  /\ rows'[n][r].task = (r + 1) \div 2
               /\ rows'[n][r].mode = IF r % 2 = 1 THEN "text" ELSE "protocol"
    <3>1. CASE r = Len(rows[n]) + 1
      BY <1>6, <2>3, <3>1
    <3>2. CASE r \in DOMAIN rows[n]
      <4>1. rows'[n][r] = rows[n][r]
        BY <1>6, <3>2
      <4> QED
        BY <2>1, <3>2, <4>1 DEF InOrder
    <3> QED
      BY <1>6, <2>4, <3>1, <3>2
  <2> QED
    BY <2>4 DEF InOrder
<1>11. /\ ReusedIn(suite.name)' = ReusedIn(n)' /\ HitsIn(suite.name)' = HitsIn(n)'
       /\ InOrder(suite.name)' = InOrder(n)' /\ rows'[suite'.name] = rows'[n]
  BY <1>1
<1>12. /\ InOrder(n) /\ summary[n] = None /\ Pending = run.found
       /\ totals.reused = Cardinality(ReusedIn(n)) + Cardinality(run.found)
       /\ totals.hits = Cardinality(HitsIn(n)) + IF run.found = {} THEN 0 ELSE 1
       /\ Cardinality(ReusedIn(n)) \in Nat /\ Cardinality(HitsIn(n)) \in Nat
  BY <1>1, ReusedIsFinite DEF Typed, Counted, SuiteAddsUp, SuitePhases, Pending
<1>13. CASE TextRow
  <2>1. pc = "text_row" /\ pc' = "protocol_row" /\ run' = run /\ reused = 0
    BY <1>13 DEF TextRow
  <2>2. SuiteKeepsCount'
    BY <1>1, <1>2, <1>6, <1>8, <1>9, <1>11, <2>1
    DEF Counted, SuiteKeepsCount, SuitePhases, ToldUpTo, RowsUpTo, RunsUpTo, Total
  <2>3. SuiteAddsUp'
    BY <1>1, <1>7, <1>10, <1>11, <1>12, <2>1 DEF SuiteAddsUp, Pending
  <2>4. RunIsOver'
    BY <2>1 DEF Counted, RunIsOver
  <2> QED
    BY <1>8, <2>2, <2>3, <2>4 DEF Counted
<1>14. CASE ProtocolRow
  <2>1. pc = "protocol_row" /\ pc' = "task" /\ reused = Cardinality(run.found)
    BY <1>14 DEF ProtocolRow
  <2>2. SuiteKeepsCount'
    BY <1>1, <1>2, <1>6, <1>8, <1>9, <1>11, <2>1
    DEF Counted, SuiteKeepsCount, SuitePhases, ToldUpTo, RowsUpTo, RunsUpTo, Total
  <2>3. Cardinality({}) = 0 /\ (Cardinality(run.found) = 0 <=> run.found = {})
    <3>1. IsFiniteSet(Units)
      BY BenchmarkAssumption, FS_Interval DEF Units
    <3>2. run.found \subseteq Units
      BY DEF Typed, TypeOK
    <3>3. IsFiniteSet(run.found)
      BY <3>1, <3>2, FS_Subset
    <3> QED
      BY <3>3, FS_EmptySet
  <2>4. Pending' = {}
    BY <2>1 DEF Pending
  <2>5. SuiteAddsUp'
    BY <1>1, <1>2, <1>7, <1>10, <1>11, <1>12, <2>1, <2>3, <2>4 DEF SuiteAddsUp
  <2> QED
    BY <1>8, <2>1, <2>2, <2>5 DEF Counted, RunIsOver
<1> QED
  BY <1>13, <1>14

LEMMA SummaryKeepsCount ==
    ASSUME Typed, Counted, WriteSummary PROVE Counted'
<1>1. /\ pc = "task" /\ pc' = "restore" /\ current = Total(suite)
      /\ UNCHANGED <<suite, current, totals, rows>>
  BY DEF WriteSummary
<1>2. current \in Nat
  BY DEF Typed, TypeOK
<1>3. Cardinality(Told) = 2 * current
  BY <1>1 DEF Counted, SuiteKeepsCount, SuitePhases, ToldUpTo
<1>4. EventsAdvance' /\ Cardinality(Told)' = Cardinality(Told)
  <2>1. events' = Append(events, Event("suite_complete", 2 * Total(suite)))
    BY DEF WriteSummary
  <2>2. 2 * Total(suite) = Cardinality(Told)
    BY <1>1, <1>3
  <2> QED
    BY <2>1, <2>2, Announce DEF Typed, Counted
<1>5. Pending = {} /\ Pending' = {}
  BY <1>1 DEF Pending
<1>6. SuiteKeepsCount'
  BY <1>1, <1>2, <1>3, <1>4 DEF Counted, SuiteKeepsCount, SuitePhases, ToldUpTo, RowsUpTo, RunsUpTo, Total
<1>7. InOrder(suite.name)' = InOrder(suite.name) /\ ReusedIn(suite.name)' = ReusedIn(suite.name)
      /\ HitsIn(suite.name)' = HitsIn(suite.name)
  BY <1>1 DEF InOrder, ReusedIn, HitsIn
<1>8. SuiteAddsUp'
  BY <1>1, <1>5, <1>7 DEF Counted, SuiteAddsUp, SuitePhases
<1> QED
  BY <1>1, <1>4, <1>6, <1>8 DEF Counted, RunIsOver

LEMMA CountedStep ==
    ASSUME Typed, QuietIsIdle, Counted, [Next]_vars PROVE Counted'
<1>1. CASE RunStep
  BY <1>1, RunsKeepCount
<1>2. CASE ShellStep
  BY <1>2, ShellKeepsCount
<1>3. CASE LoadSuite
  BY <1>3, LoadKeepsCount
<1>4. CASE StartSuite
  BY <1>4, StartKeepsCount
<1>5. CASE BeginTask
  BY <1>5, BeginKeepsCount
<1>6. CASE TextRun
  BY <1>6, TextKeepsCount
<1>7. CASE EndProtocolRun
  BY <1>7, EndKeepsCount
<1>8. CASE TextRow \/ ProtocolRow
  BY <1>8, RowsKeepCount
<1>9. CASE WriteSummary
  BY <1>9, SummaryKeepsCount
<1>10. CASE RestoreSetting
  <2>1. pc' \notin SuitePhases /\ UNCHANGED <<events, suiteVars>>
    BY <1>10 DEF RestoreSetting, SuitePhases, suiteVars
  <2> QED
    BY <2>1, CountKept
<1>11. CASE UNCHANGED vars
  <2>1. UNCHANGED <<events, suiteVars, pc, run>>
    BY <1>11 DEF vars, suiteVars
  <2>2. Pending' = Pending /\ RunIsOver'
    BY <2>1 DEF Pending, RunIsOver, Counted
  <2> QED
    BY <2>1, <2>2, CountKept
<1> QED
  BY <1>1, <1>2, <1>3, <1>4, <1>5, <1>6, <1>7, <1>8, <1>9, <1>10, <1>11 DEF Next, SuiteStep

\* What has been told is bound to what has been written down.
LEMMA CountedAdvances ==
    ASSUME Typed, Counted PROVE ProgressAdvances
<1>1. ASSUME pc \in SuitePhases
      PROVE  /\ Len(rows[suite.name]) <= Cardinality(Told)
             /\ Cardinality(Told) <= Len(rows[suite.name]) + 2
             /\ pc = "restore" => Cardinality(Told) = 2 * Total(suite)
  <2>1. current \in Nat
    BY DEF Typed, TypeOK
  <2> QED
    BY <1>1, <2>1 DEF Counted, SuiteKeepsCount, ToldUpTo, RowsUpTo
<1>2. EventsAdvance
  BY DEF Counted
<1> QED
  BY <1>1, <1>2 DEF ProgressAdvances, EventsAdvance

\* Where the rows and the summary of a name stay, the summary is still theirs.
LEMMA WholeKept ==
    ASSUME SummaryIsWhole, NEW n \in Names,
           rows'[n] = rows[n], summary'[n] = summary[n], summary'[n] # None
    PROVE  /\ Len(rows'[n]) = 2 * Total(summary'[n].of)
           /\ InOrder(n)'
           /\ summary'[n].totals = [runs |-> Total(summary'[n].of),
                                    reused |-> Cardinality(ReusedIn(n)'),
                                    hits |-> Cardinality(HitsIn(n)')]
<1>1. InOrder(n)' = InOrder(n) /\ ReusedIn(n)' = ReusedIn(n) /\ HitsIn(n)' = HitsIn(n)
  BY DEF InOrder, ReusedIn, HitsIn
<1> QED
  BY <1>1 DEF SummaryIsWhole

LEMMA WholeStep ==
    ASSUME Typed, Counted, SummaryIsWhole, [Next]_vars PROVE SummaryIsWhole'
<1> SUFFICES ASSUME NEW n \in Names, summary'[n] # None
    PROVE  /\ Len(rows'[n]) = 2 * Total(summary'[n].of)
           /\ InOrder(n)'
           /\ summary'[n].totals = [runs |-> Total(summary'[n].of),
                                    reused |-> Cardinality(ReusedIn(n)'),
                                    hits |-> Cardinality(HitsIn(n)')]
  BY DEF SummaryIsWhole, Total
<1>1. CASE rows' = rows /\ summary' = summary
  BY <1>1, WholeKept
<1>2. CASE StartSuite
  <2>1. CASE suite.valid
    <3>1. suite.name \in Names /\ summary \in [Names -> [of : Suites, totals : Totals] \cup {None}]
          /\ DOMAIN rows = Names
      BY <1>2 DEF StartSuite, Typed, TypeOK, Names
    <3>2. summary' = [summary EXCEPT ![suite.name] = None]
          /\ rows' = [rows EXCEPT ![suite.name] = <<>>]
      BY <1>2, <2>1 DEF StartSuite, NoSummary
    <3>3. n # suite.name
      BY <3>1, <3>2
    <3> QED
      BY <3>1, <3>2, <3>3, WholeKept
  <2>2. CASE ~suite.valid
    BY <1>2, <2>2, WholeKept DEF StartSuite
  <2> QED
    BY <2>1, <2>2
<1>3. CASE TextRow \/ ProtocolRow
  <2>1. /\ pc \in SuitePhases \ {"restore"} /\ summary' = summary
        /\ \A m \in Names : m # suite.name => rows'[m] = rows[m]
    BY <1>3 DEF TextRow, ProtocolRow, DetailRow, SuitePhases, Typed, TypeOK
  <2>2. summary[suite.name] = None
    BY <2>1 DEF Counted, SuiteAddsUp
  <2> QED
    BY <2>1, <2>2, WholeKept
<1>4. CASE WriteSummary
  <2>1. /\ pc = "task" /\ current = Total(suite) /\ rows' = rows
        /\ suite.name \in Names
        /\ summary \in [Names -> [of : Suites, totals : Totals] \cup {None}]
        /\ summary' = [summary EXCEPT ![suite.name] = [of |-> suite, totals |-> totals]]
    BY <1>4 DEF WriteSummary, Typed, TypeOK, Names, SuitePhases
  <2>2. CASE n # suite.name
    BY <2>1, <2>2, WholeKept
  <2>3. CASE n = suite.name
    <3>1. summary'[n].of = suite /\ summary'[n].totals = totals
      BY <2>1, <2>3
    <3>2. /\ totals \in Totals /\ current \in Nat
          /\ Cardinality(ReusedIn(n)) \in Nat /\ Cardinality(HitsIn(n)) \in Nat
      BY ReusedIsFinite DEF Typed, TypeOK
    <3>3. Pending = {} /\ Cardinality({}) = 0
      BY <2>1, FS_EmptySet DEF Pending
    <3>4. /\ Len(rows[n]) = 2 * current /\ totals.runs = current
          /\ InOrder(n)
          /\ totals.reused = Cardinality(ReusedIn(n))
          /\ totals.hits = Cardinality(HitsIn(n))
      BY <2>1, <2>3, <3>2, <3>3
      DEF Counted, SuiteKeepsCount, SuiteAddsUp, SuitePhases, RowsUpTo, RunsUpTo
    <3>5. totals = [runs |-> current, reused |-> Cardinality(ReusedIn(n)),
                    hits |-> Cardinality(HitsIn(n))]
      BY <3>2, <3>4 DEF Totals
    <3>6. InOrder(n)' = InOrder(n) /\ ReusedIn(n)' = ReusedIn(n) /\ HitsIn(n)' = HitsIn(n)
      BY <2>1 DEF InOrder, ReusedIn, HitsIn
    <3> QED
      BY <2>1, <3>1, <3>4, <3>5, <3>6
  <2> QED
    BY <2>2, <2>3
<1> QED
  <2>1. CASE ~(StartSuite \/ TextRow \/ ProtocolRow \/ WriteSummary)
    <3>1. rows' = rows /\ summary' = summary
      BY <2>1 DEF Next, RunStep, ShellStep, SuiteStep, vars, suiteVars, Search, Store, StoreNothing,
        Command, Answer, Raise, Leave, Restart, LoadSuite, BeginTask, TextRun, EndProtocolRun,
        RestoreSetting
    <3> QED
      BY <3>1, <1>1
  <2> QED
    BY <2>1, <1>2, <1>3, <1>4

\* For any suites and any number of commands, exceptions and restarts: the stages
\* run_benchmark tells never go back, none is skipped or told twice, and the detail
\* rows are at most the task in progress behind.
THEOREM ProgressIsTold == Spec => []ProgressAdvances
<1>1. Typed /\ QuietIsIdle /\ Counted /\ [Next]_vars => (Typed /\ QuietIsIdle /\ Counted)'
  BY TypeStep, QuietStep, CountedStep
<1>2. Init => QuietIsIdle
  BY DEF Init, QuietIsIdle
<1>3. Typed /\ Counted => ProgressAdvances
  BY CountedAdvances
<1> QED
  BY <1>1, <1>2, <1>3, TypeInit, CountedInit, PTL DEF Spec

\* A summary is always beside the rows of its own suite, all of them and in order,
\* and its totals are what those rows add up to: a suite of the same name that
\* fails leaves rows without a summary and never a summary with other rows.
THEOREM SummariesAreWhole == Spec => []SummaryIsWhole
<1>1. Typed /\ QuietIsIdle /\ Counted /\ [Next]_vars => (Typed /\ QuietIsIdle /\ Counted)'
  BY TypeStep, QuietStep, CountedStep
<1>2. Init => QuietIsIdle /\ SummaryIsWhole
  BY DEF Init, QuietIsIdle, SummaryIsWhole
<1>3. Typed /\ Counted /\ SummaryIsWhole /\ [Next]_vars => SummaryIsWhole'
  BY WholeStep
<1> QED
  BY <1>1, <1>2, <1>3, TypeInit, CountedInit, PTL DEF Spec
=============================================================================
