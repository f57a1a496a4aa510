---------------------------- MODULE BenchmarkShell ----------------------------
(***************************************************************************)
(* agentmesh.eval.benchmark.run_benchmark as the shell runs it, between      *)
(* commands that run Protocol Mode outside of a suite.  A suite hides the    *)
(* global memory through an environment variable of the process, clears the  *)
(* run's memory, runs each task in both modes, and leaves a detail file and  *)
(* a summary.  An exception ends the command and not the shell.              *)
(***************************************************************************)
EXTENDS Naturals, Sequences, FiniteSets

CONSTANTS
    Suites,     \* the suite files a command may name
    Missing,    \* a suite file that is not there or is no mapping
    None,
    CanUnlink,  \* a file that is still open can be removed (POSIX)
    Limit,      \* how many units a run may reuse (_memory_reuse_limit)
    MaxCommands,\* bound on the commands
    MaxUnits    \* bound on the memory units stored

\* tasks: whether each task is a cold start; valid: repeat and tasks are well
\* formed; name: what the artifacts' directory is called.
ASSUME BenchmarkAssumption ==
    /\ \A s \in Suites :
          /\ s.repeat \in Nat
          /\ s.tasks \in Seq(BOOLEAN) \ {<<>>}
          /\ s.valid \in BOOLEAN
    /\ Missing \notin Suites
    /\ None \notin Suites
    /\ CanUnlink \in BOOLEAN
    /\ Limit \in Nat /\ MaxCommands \in Nat /\ MaxUnits \in Nat

VARIABLES
    pc,        \* where the shell's thread stands
    setting,   \* AGENTMESH_DISABLE_GLOBAL_MEMORY
    own,       \* the user's setting, which each process begins with
    saved,     \* previous_global_memory_setting
    suite,     \* the suite of the command, or None
    current,   \* current_task
    run,       \* the Protocol Mode run in progress
    runMem,    \* the units in the run's database
    globalMem, \* the units in the global database
    made,      \* units 1 .. made have been stored
    totals,    \* what run_benchmark has added up of the metrics of its runs
    events,    \* the progress events of the suite
    rows,      \* benchmark_detail.jsonl of each suite's name
    summary,   \* benchmark_summary.csv of each name, with its suite
    fresh,     \* the units stored by this suite since its last reset (history)
    kept,      \* the global database when the suite began (history)
    commands   \* the commands so far (history)

vars == <<pc, setting, own, saved, suite, current, run, runMem, globalMem, made,
          totals, events, rows, summary, fresh, kept, commands>>

\* What neither a run nor an ordinary command touches.
suiteVars == <<own, saved, suite, current, totals, rows, summary, kept>>
memoryVars == <<runMem, globalMem, made, fresh>>

-----------------------------------------------------------------------------
Names == {s.name : s \in Suites}
Units == 1 .. MaxUnits

Total(s) == s.repeat * Len(s.tasks)
ColdStart(n) == suite.tasks[((n - 1) % Len(suite.tasks)) + 1]

Event(phase, stage) == [phase |-> phase, stage |-> stage]
Phases == {"suite_start", "cold_start", "text", "protocol", "suite_complete"}

\* Of the metrics: the runs, the units they have reused, and the queries that
\* have hit one.  The others are added up, or averaged by their counts, alike.
Totals == [runs : Nat, reused : Nat, hits : Nat]
Zero == [runs |-> 0, reused |-> 0, hits |-> 0]

\* A run: its HybridMemoryStore has the global database or not; what it reuses.
Idle == [at |-> "none", global |-> FALSE, found |-> {}]

Init ==
    /\ pc = "prompt"
    /\ own \in {"unset", "1"}
    /\ setting = own
    /\ saved = "unset"
    /\ suite = None
    /\ current = 0
    /\ run = Idle
    /\ runMem = {}
    /\ globalMem = {}
    /\ made = 0
    /\ totals = Zero
    /\ events = <<>>
    /\ rows = [n \in Names |-> <<>>]
    /\ summary = [n \in Names |-> None]
    /\ fresh = {}
    /\ kept = {}
    /\ commands = 0

-----------------------------------------------------------------------------
(* A Protocol Mode run, as far as its memory goes.                          *)

Disabled(value) == value = "1"

\* HybridMemoryStore.__init__ reads the environment once.
OpenStore == [at |-> "search", global |-> ~Disabled(setting), found |-> {}]

Visible == runMem \cup (IF run.global THEN globalMem ELSE {})

Search ==
    /\ run.at = "search"
    /\ \E H \in SUBSET Visible :
          /\ Cardinality(H) <= Limit
          /\ run' = [run EXCEPT !.at = "store", !.found = H]
    /\ UNCHANGED <<pc, setting, events, commands, suiteVars, memoryVars>>

\* HybridMemoryStore.put when the policies accept the unit for the run, for the
\* long term, or not at all; a run cut short between the two puts is the first.
Store ==
    /\ run.at = "store"
    /\ made < MaxUnits
    /\ \E inRun, longTerm \in BOOLEAN :
          /\ runMem' = IF inRun THEN runMem \cup {made + 1} ELSE runMem
          /\ fresh' = IF inRun THEN fresh \cup {made + 1} ELSE fresh
          /\ globalMem' = IF longTerm /\ run.global THEN globalMem \cup {made + 1}
                                                    ELSE globalMem
    /\ made' = made + 1
    /\ run' = [run EXCEPT !.at = "end"]
    /\ UNCHANGED <<pc, setting, events, commands, suiteVars>>

\* The run stores nothing.
StoreNothing ==
    /\ run.at = "store"
    /\ run' = [run EXCEPT !.at = "end"]
    /\ UNCHANGED <<pc, setting, events, commands, suiteVars, memoryVars>>

-----------------------------------------------------------------------------
(* The shell's ordinary commands.                                           *)

\* /ask, /run protocol and /compare.
Command ==
    /\ pc = "prompt"
    /\ commands < MaxCommands
    /\ commands' = commands + 1
    /\ pc' = "ordinary"
    /\ run' = OpenStore
    /\ UNCHANGED <<setting, events, suiteVars, memoryVars>>

Answer ==
    /\ pc = "ordinary"
    /\ run.at = "end"
    /\ pc' = "prompt"
    /\ run' = Idle
    /\ UNCHANGED <<setting, events, commands, suiteVars, memoryVars>>

\* handle_line: an exception is printed and the shell goes on.
Raise ==
    /\ pc \notin {"prompt", "gone"}
    /\ pc' = "prompt"
    /\ run' = Idle
    /\ UNCHANGED <<setting, events, commands, suiteVars, memoryVars>>

\* /exit, the end of the input, an interrupt during a command, a command that
\* cannot be split into words, or the end of the process.
Leave ==
    /\ pc # "gone"
    /\ pc' = "gone"
    /\ run' = Idle
    /\ UNCHANGED <<setting, events, commands, suiteVars, memoryVars>>

Restart ==
    /\ pc = "gone"
    /\ pc' = "prompt"
    /\ setting' = own
    /\ UNCHANGED <<run, events, commands, suiteVars, memoryVars>>

-----------------------------------------------------------------------------
(* run_benchmark.                                                           *)

\* Faulty: the transaction is all there is to it.
RolledBack(units) == units

\* _reset_run_memory: VACUUM is refused in the transaction the DELETEs have
\* begun, so they are rolled back; what clears the units is that the file is
\* then removed, which is refused in silence where an open file cannot be.
ResetRunMemory(units) == IF CanUnlink THEN {} ELSE units

\* _load_suite raises, or the working directories and the memory are cleared.
LoadSuite ==
    /\ pc = "prompt"
    /\ commands < MaxCommands
    /\ commands' = commands + 1
    /\ \E s \in Suites \cup {Missing} :
          IF s = Missing
          THEN UNCHANGED <<pc, suite, runMem, fresh, kept, events>>
          ELSE /\ suite' = s
               /\ pc' = "cleared"
               /\ runMem' = ResetRunMemory(runMem)
               /\ fresh' = {}
               /\ kept' = globalMem
               /\ events' = <<>>
    /\ UNCHANGED <<setting, own, saved, current, run, globalMem, made, totals, rows,
                   summary>>

\* Faulty: the summary of the suite before stays until there is a new one.
KeepSummary(name) == summary

\* _reset_suite_artifacts removes the summary with the details.
NoSummary(name) == [summary EXCEPT ![name] = None]

\* The variable is set; then the suite is checked, and raises with it set.
StartSuite ==
    /\ pc = "cleared"
    /\ saved' = setting
    /\ setting' = "1"
    /\ current' = 0
    /\ totals' = Zero
    /\ IF suite.valid
       THEN /\ pc' = "task"
            /\ rows' = [rows EXCEPT ![suite.name] = <<>>]
            /\ summary' = NoSummary(suite.name)
            /\ events' = <<Event("suite_start", 0)>>
       ELSE pc' = "prompt" /\ UNCHANGED <<rows, summary, events>>
    /\ UNCHANGED <<own, suite, run, kept, commands, memoryVars>>

\* Faulty: the stage of the task that is to come.
NextStage(task) == 2 * task

\* The stage at which a task begins: all of the tasks before it.
StageBefore(task) == 2 * (task - 1)

BeginTask ==
    /\ pc = "task"
    /\ current < Total(suite)
    /\ current' = current + 1
    /\ IF ColdStart(current')
       THEN /\ runMem' = ResetRunMemory(runMem)
            /\ fresh' = {}
            /\ events' = Append(events, Event("cold_start", StageBefore(current')))
       ELSE UNCHANGED <<runMem, fresh, events>>
    /\ pc' = "text"
    /\ UNCHANGED <<setting, own, saved, suite, run, globalMem, made, totals, rows,
                   summary, kept, commands>>

\* Text Mode has no memory.
TextRun ==
    /\ pc = "text"
    /\ events' = Append(events, Event("text", StageBefore(current) + 1))
    /\ pc' = "protocol"
    /\ run' = OpenStore
    /\ UNCHANGED <<setting, commands, suiteVars, memoryVars>>

EndProtocolRun ==
    /\ pc = "protocol"
    /\ run.at = "end"
    /\ run' = [run EXCEPT !.at = "none"]
    /\ totals' = [runs |-> totals.runs + 1,
                  reused |-> totals.reused + Cardinality(run.found),
                  hits |-> totals.hits + IF run.found = {} THEN 0 ELSE 1]
    /\ events' = Append(events, Event("protocol", StageBefore(current) + 2))
    /\ pc' = "text_row"
    /\ UNCHANGED <<setting, own, saved, suite, current, rows, summary, kept, commands,
                   memoryVars>>

DetailRow(mode, reused) ==
    rows' = [rows EXCEPT ![suite.name] =
               Append(@, [task |-> current, mode |-> mode, reused |-> reused])]

TextRow ==
    /\ pc = "text_row"
    /\ DetailRow("text", 0)
    /\ pc' = "protocol_row"
    /\ UNCHANGED <<setting, own, saved, suite, current, run, totals, events, summary, kept,
                   commands, memoryVars>>

ProtocolRow ==
    /\ pc = "protocol_row"
    /\ DetailRow("protocol", Cardinality(run.found))
    /\ run' = Idle
    /\ pc' = "task"
    /\ UNCHANGED <<setting, own, saved, suite, current, totals, events, summary, kept,
                   commands, memoryVars>>

WriteSummary ==
    /\ pc = "task"
    /\ current = Total(suite)
    /\ summary' = [summary EXCEPT ![suite.name] = [of |-> suite, totals |-> totals]]
    /\ events' = Append(events, Event("suite_complete", 2 * Total(suite)))
    /\ pc' = "restore"
    /\ UNCHANGED <<setting, own, saved, suite, current, run, totals, rows, kept, commands,
                   memoryVars>>

\* _restore_global_memory_setting, the last statement.
RestoreSetting ==
    /\ pc = "restore"
    /\ setting' = saved
    /\ pc' = "prompt"
    /\ UNCHANGED <<run, events, commands, suiteVars, memoryVars>>

RunStep == Search \/ Store \/ StoreNothing

ShellStep == Command \/ Answer \/ Raise \/ Leave \/ Restart

SuiteStep ==
    \/ LoadSuite \/ StartSuite \/ BeginTask \/ TextRun \/ EndProtocolRun
    \/ TextRow \/ ProtocolRow \/ WriteSummary \/ RestoreSetting

Next == RunStep \/ ShellStep \/ SuiteStep

Spec == Init /\ [][Next]_vars

-----------------------------------------------------------------------------
(* Properties.                                                              *)

SuitePhases == {"task", "text", "protocol", "text_row", "protocol_row", "restore"}

TypeOK ==
    /\ pc \in {"prompt", "gone", "ordinary", "cleared"} \cup SuitePhases
    /\ {setting, own, saved} \subseteq {"unset", "1"}
    /\ suite \in Suites \cup {None}
    /\ pc \in {"cleared"} \cup SuitePhases => suite # None
    /\ current \in Nat
    /\ run \in [at : {"none", "search", "store", "end"}, global : BOOLEAN,
                found : SUBSET Units]
    /\ runMem \subseteq Units /\ globalMem \subseteq Units
    /\ fresh \subseteq Units /\ kept \subseteq Units
    /\ made \in 0 .. MaxUnits
    /\ totals \in Totals
    /\ events \in Seq([phase : Phases, stage : Nat])
    /\ rows \in [Names -> Seq([task : Nat, mode : {"text", "protocol"}, reused : Nat])]
    /\ summary \in [Names -> [of : Suites, totals : Totals] \cup {None}]
    /\ commands \in 0 .. MaxCommands

\* A suite uses only memory of its own: what its runs reuse was stored by the
\* same suite since the last cold start, whatever earlier commands, failed
\* suites and processes have left, and no run of it touches the global memory.
SuiteIsIsolated ==
    pc \in SuitePhases => run.found \subseteq fresh /\ globalMem = kept

\* The progress events that tell the end of a mode's run of a task.
Told == {n \in DOMAIN events : events[n].phase \in {"text", "protocol"}}
ToldBy(n) == {m \in Told : m <= n}

\* Progress never goes back, no stage is skipped or told twice, and the detail
\* rows are never ahead of it nor more than the task in progress behind.
ProgressAdvances ==
    /\ \A m, n \in DOMAIN events : m < n => events[m].stage <= events[n].stage
    /\ \A n \in Told : events[n].stage = Cardinality(ToldBy(n))
    /\ pc \in SuitePhases =>
          /\ Len(rows[suite.name]) <= Cardinality(Told)
          /\ Cardinality(Told) <= Len(rows[suite.name]) + 2
          /\ pc = "restore" => Cardinality(Told) = 2 * Total(suite)

\* Of the rows of a name: the units each says its run has reused, one by one,
\* and the rows of the runs that have reused any.
ReusedIn(n) == UNION {{r} \X (1 .. rows[n][r].reused) : r \in DOMAIN rows[n]}
HitsIn(n) == {r \in DOMAIN rows[n] : rows[n][r].reused > 0}

\* The rows of whole tasks, and of their modes in turn.
InOrder(n) ==
    \A r \in DOMAIN rows[n] :
        /\ rows[n][r].task = (r + 1) \div 2
        /\ rows[n][r].mode = IF r % 2 = 1 THEN "text" ELSE "protocol"

\* Where there is a summary, the rows beside it are those of its suite, all of
\* them and no other, whichever suites of that name have failed before, and its
\* totals are what the rows add up to.
SummaryIsWhole ==
    \A n \in Names : summary[n] # None =>
        /\ Len(rows[n]) = 2 * Total(summary[n].of)
        /\ InOrder(n)
        /\ summary[n].totals = [runs |-> Total(summary[n].of),
                                reused |-> Cardinality(ReusedIn(n)),
                                hits |-> Cardinality(HitsIn(n))]

-----------------------------------------------------------------------------
(* What the program says and does not do.                                   *)

\* The global memory is hidden while a benchmark runs (README.md), not after
\* it: an ordinary run has the global database as the user has set it.
SettingIsRestored == pc = "ordinary" => run.global = ~Disabled(own)
=============================================================================
