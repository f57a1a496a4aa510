# A TLA+ verification of AgentMesh-Runtime

This directory holds a formal model of the runtime under `src/src/agentmesh`
(paths below are relative to it), the TLC runs that check it on small instances,
and TLAPS proofs of what matters most for every instance. `PROJECT.json` lists
the components, the runs, the map from definitions to source lines, the hazards
and the theorems.

## 1. The system

| Component | State it keeps | Operations | Talks to |
|---|---|---|---|
| State store (`state/store.py`) | payload files, shared-memory segments, `state_index.sqlite`, `states.jsonl`, a cache of records per object | `put_*`, `get`, `add_consumer`, `mark_written_to_memory`, `close`, load on open | every run and every agent; memory marks its records |
| Protocol Mode (`modes/protocol_mode.py`) | message list, refs of the states it put, decision, feedback | one linear run: plan, search, tool, feedback, summary, memory, log, metrics | scheduler, state store, memory, sandbox |
| Scheduler, registry (`runtime/`) | selected agents, capability owners | `invoke`, `register`, `require_capability` | agents through a transport |
| Agents (`agents/`) | none | `handle` | state store, memory, the model's client |
| Shared memory (`memory/hybrid_store.py`, `sqlite_store.py`, `policy.py`) | a run database and a global one: rows, FTS rows, vector index | `put`, searches, `increment_reuse`, `archive` | state store (marks) |
| Memory maintenance (`maintenance.py`, `lifecycle.py`) | a thread, a stop flag | `start`, `stop`, `run_once` | memory databases |
| Sandbox (`sandbox/runner.py`) | a global warm worker process and its pipes | `run_python` | Protocol Mode |
| Transport (`protocol/transport.py`) | a socket, its timeout, metrics | `send`, `send_frame`, `receive_frame` | scheduler, a peer |
| Planner decision (`runtime/decision.py`) | none (pure) | `from_task`, `from_llm_or_task`, `normalized` | planner, both modes |
| Envelope, codec (`protocol/`) | a dictionary of a session's names | build, encode and measure | metrics |
| Ranking (`memory/scorer.py`, `sqlite_store.py`, `agents/retriever.py`) | none (pure) | score, filter | shared memory |
| Text Mode (`modes/text_mode.py`) | the text so far, the agents of the route | four agents in line, fallbacks | model's client |
| Compare (`eval/compare.py`, `storage/jsonl.py`) | threads, offsets into two logs | run both modes, show outputs while they run | both modes, their logs |
| Benchmark, shell (`eval/benchmark.py`, `shell/session.py`) | an environment variable, rows, totals, a summary | suites, cold starts, ordinary commands | both modes, memory |
| Chat, CLI, reports, dashboard | a session | presentation | everything above |

What is hard in this code: several `StateStore` objects over one directory, each
with its own cache of whole rows; processes that die between a payload, a row and
a log line; a run whose stages are optional and whose refs, sources and targets
are computed in many places; a memory that several runs read and write; a unit
whose states are marked one by one after it is stored; a warm worker and a
socket whose late answers outlive a timeout; a log read while it is written.
`PROJECT.json` has each of these at its line under `hazards`.

What makes each component correct:

- **State store**: lineage read back after any crash is closed; a record's payload
  exists; lineage only grows, and a reference leads to the bytes of its state (for one
  store over a directory: section 3 says what several do); the log trails the index by one
  call at most.
- **Protocol Mode**: no dangling ref anywhere; the summary descends from every
  state; every invocation is answered, at once and to whom it came from; an
  announced agent is invoked; one feedback round, when there are gaps; a log that
  is complete whenever the trace row exists; the counts of reuse and the logs of
  hits tell the same, but for calls in progress and runs cut short.
- **Planner decision**: the route and the `need_*` flags say the same, whatever a
  model answers; a task that needs the tool keeps it.
- **Memory**: a mark on a state implies a stored unit; the long-term store has
  only units of successful runs. The count of a unit is the number of searches that
  returned it. A candidate's score lies between 0 and 1 and falls with its position.
- **Maintenance**: the log never claims an archive that did not happen; a stopped
  thread ends; what is due is archived, and what was archived as unused was unused.
- **Sandbox**: a request gets its own answer; a call that has ended left nothing
  running; code runs once; every call ends.
- **Transport**: replies are the requests' own until a call fails on a timeout and in
  order ever after; a call with a timeout ends and leaves the socket as it was.
- **Envelope**: every lookup succeeds, and an envelope with its payload loses
  `message_id` and `created_at` of its message and nothing else.
- **Text Mode**: the handoffs are one chain; a summarizer that fails loses no work.
- **Compare**: outputs are shown once, in order and completely; no run is abandoned.
- **Benchmark**: a suite is isolated from all that ran before it; progress never goes
  back; a summary has its rows beside it; the user's setting comes back.

## 2. The modules

| Module | Models | Role |
|---|---|---|
| `StateRegistry` | what the state store promises: one durable table whose lineage only grows | abstract specification |
| `StateStore` | `state/store.py`: any number of stores over one directory | implements `StateRegistry` |
| `CollaborationRoute` | the order in which a run may ask for capabilities | abstract specification |
| `ProtocolRun` | `_run_protocol_mode_impl`, the scheduler, the handlers and what they do to states, memory and logs, for any number of runs | implements `CollaborationRoute` |
| `PlannerDecision` | `runtime/decision.py` | pure operators |
| `TextMode` | one run of Text Mode, over `PlannerDecision` | state machine |
| `MemoryShelf` | what the memory promises of each copy of a unit: stored once, counted without loss, archived for good | abstract specification |
| `HybridMemory` | the two databases of `memory/`, the runs that search, reuse and store, and the maintenance worker that archives | implements `MemoryShelf` |
| `MemoryRanking` | both ranking formulas and the retriever's filter | pure operators |
| `WarmSandbox` | `SandboxRunner.run_python` with warm workers, any number of threads | state machine |
| `RequestReply` | what a caller of a transport may expect | abstract specification |
| `SocketTransport` | `SocketFrameTransport.send` over a stream of bytes | implements `RequestReply` |
| `TypedEnvelope` | the dictionary and the envelopes of a session | pure operators |
| `JsonLines` | `storage/jsonl.py`: a file of lines read while it is written | operators on a log |
| `CompareProgress` | both progress loops of `eval/compare.py`, over two `JsonLines` logs | state machine |
| `BenchmarkShell` | `run_benchmark` and the shell's commands around it | state machine |
| `StateStoreProofs`, `ProtocolRunProofs`, `HybridMemoryProofs`, `WarmSandboxProofs`, `BenchmarkProofs`, `DecisionProofs`, `WireProofs`, `CompareProofs` | | theorems (section 4) |
| `MC...` | | instances for TLC |

### StateStore

`cache`, `owned` are `_records`, `_owned_shm` of each store; `index`, `journal`
are the SQLite table and the last line of `states.jsonl` for each id; `payload`
says where the bytes of an id are and `blob` which state a numbered blob file
holds. A put is three actions because a process can die between them:
`PutPayload` (a fresh id, the payload), `PutIndex` (cache and row), `AppendJournal`.
`AddConsumer` updates cache and row and owes a log line; `MarkWrittenToMemory`
does the same and owes none. `Close` unlinks what the store owns; `Drop` is the
end of the object or its process, at any point of a call. `maker` is history: the
live store that created a record.

The constant `OwnerOnly` says who updates a record. A run puts its states through
one store and hands that store to its agents and its memory, so a record is
updated through the store that created it (TRUE). `agents/state_refs.py` opens a
store of its own when the context carries none; then any store may (FALSE).

Details left out: the backfill of an index made before the `record_json` column
existed, rows that no longer validate, and the time at which CPython's resource
tracker removes a segment (`TrackerUnlink` does it at any time once no live store
owns it; it is external code).

### ProtocolRun

`pc` is where the run stands. A stage that invokes an agent (`plan`, `search`,
`execute`, `replan`, `research`, `summarize`) is `Invoke`, then what the handler
does (`ReadState` one ref at a time, `SearchMemory`, `IncrementReuse` one unit at a
time), then `Answer`; what follows a stage is one `Put...` action, named for the
state it puts, which also sends the `STATE_REF` message and branches as the code
does. `RunSandbox` returns any exit, any gaps and any advice. The end of a run is
`CommitRunMemory`, `MarkState` one state at a time, `CommitGlobalMemory`,
`AnnounceMemory`, `LogMessage` one line at a time, `WriteTrace`, `Finish`. `Fail`
may happen at every point: an exception leaves the function without a handler, and
a crash is the same to what is durable. A memory unit has the name of its run; the
texts are not modelled, except that a task may be blank (`task.blank`: the params
built from it are empty, so the handlers read the states) and may ask for feedback
(`task.gaps`). Model answers, classification and scores are choices.

`logged`, `agentIo`, `hitLog` and `trace` are the rows of the run in `messages.jsonl`,
`agent_io.jsonl`, `memory_hits.jsonl` and `trace.jsonl`. `agentIo` grows with each
answer, `hitLog` by one unit at a time once the counts of all hits of its search are
raised (`LogHits`), the messages only at the end, and the trace row last; it carries what the run has counted of
its searches, its reuse and its feedback.

The states of a run are atomic here: what a store does inside one put is
`StateStore`'s subject, and a run that has one store of its own is where `OwnerOnly` comes
from. Memory, too, is abstract here: its concurrency is the subject of `HybridMemory`.

### HybridMemory

`row` is the table `memory_units` of each database: a status and a reuse count.
`job` is what a call has left to do. A put writes the run's database and then, if
the unit is long-term, the global one (`PutRow` twice); a search reads one database
after another (`ReadDb`, whose `Candidates` are the active units or, when there are
none, all of them, as in `_semantic_candidates`), chooses any hits up to `Limit`
(`Serve`) and counts each in both databases (`Bump`). Each statement is a transaction,
so calls interleave between them and may be cut short there (`Crash`). Scores are
choices.

`worker` is a `MemoryMaintenanceWorker`: a round works from copies of rows read at
its start (`Window`, at most `MaxItems`, oldest first), so a copy may be stale when
`Check` archives its unit; `AppendLog` comes later. `Exit` ends the process, and a
worker also makes a round without a thread when a command asks for one. `age` and
`valued` stand for the two inputs of `MemoryLifecyclePolicy.decide`; its branch for
low-value units is out of reach in the global database, where `should_write_long_term`
lets nothing in below the threshold of that branch. Archiving touches only the global
database: the copy in the run's own database stays active and is still found.

Details left out: the FTS table and the vector index (choices of a hit), the
tagger, rows written by other versions.

### WarmSandbox

`caller` is where a thread stands in `run_python`; `table` is `_WARM_WORKERS` for one
directory, which `FindWorker` reads; a thread that finds none starts a process
(`StartWorker`) and then enters it in the table (`PublishWorker`), without a lock, so that
several threads may do so at once. `StartFails` is the exception of a directory that cannot be
made or a process that cannot be started. `worker` is each process: its lock, its two pipes
and the request it executes. `TimeOut` may happen whenever a thread waits for an answer: the
process is closed and then dropped from the table, two steps, of which the second
(`DropWorker`) closes whatever the table then holds. `Fallback` is the first of the next
backends (the Rust core's where it is installed, then `subprocess`) that can start a process:
they are one step, because a backend that cannot has changed nothing, and `NoBackend` is the
exception when the last of them cannot. A request's code is *plain*, *exits*
(which ends the interpreter) or is *stray* (writes a line of its own to the pipe); for
stray code no promise about answers is checked, since the protocol has no number
(`Clean`). Protocol Mode uses this class with `use_warm_worker=False`: the warm
worker is opt-in, and `ProtocolRun` sees the sandbox as one step.

### PlannerDecision and TextMode

A task is the set of the keywords it contains; of each list in the code there is one
keyword no other list has, and those it shares with others. `FromTask` are the rules,
`Normalized` is `normalized`, `FromLlmOrTask` the choice between the rules and a model's
answer. Routes are sets because the code removes duplicates and orders by stage.

`TextMode` is one run: `Respond`, `LogHandoff`, `LogOutput` for each agent, `WriteTrace`,
and `Fail` where a write may fail. A text is what the run can tell of it: fixed (the
runtime's own), plain, blank, *bracketed* (it has a line that begins with "[", where
`_latest_agent_output` cuts it) or a quote of an agent's output. It is assumed that no
task and no answer contains an agent's own marker line (`[executor]` alone at the start
of a line), which the code would take for the start of that agent's text.

### SocketTransport

`up` and `down` are the two directions of a stream socket, cut into pieces: two of a
header, two of a payload. `SendTimesOut` may have sent any part of a frame,
`ReceiveTimesOut` discards what it has read of one. Afterwards a header may begin in the
middle of an older frame (`Misread`): a length that means nothing, whose bytes arrive
some day or never. The peer answers with the same class and has no timeout; it may close
at any moment. The in-process transport is the invocation of `ProtocolRun`.

### CompareProgress

`JsonLines` is a file as its lines, a line as its pieces: a small row reaches the file
with its newline, a large one in parts, and `Readable` says when `read_jsonl` does not
raise. `CompareProgress` has a log for each mode, a run that appends to it (`AppendRow`,
`WriteOn`, `EndRun`), another process that may append to the same file (`OtherProcess`)
and the calling thread: `Begin`, then `ReadFile` for each file and `Emit`, `Wait`, `Reap`,
and `Join` when something has raised. `Order` is `<<"text", "protocol">>` for
`run_prompt_compare` and `<<"protocol">>` for `run_protocol_with_progress`. `Begin` takes
the offsets of both files in one step: no run has begun by then.

### BenchmarkShell

`setting` is the process's `AGENTMESH_DISABLE_GLOBAL_MEMORY`, `own` what the user's
environment gives each new process, `saved` what the suite has put aside. A suite is
`LoadSuite`, `StartSuite`, then for each task `BeginTask`, `TextRun`, a Protocol Mode run
(`Search`, `Store` or `StoreNothing`, `EndProtocolRun`), the two rows, and at the end
`WriteSummary` and `RestoreSetting`. The phases "text" and "protocol" of an event are the
code's `mode_complete` with its mode. `Raise` ends a command anywhere and leaves the
shell, `Leave` ends the process, `Restart` begins a new one over the same files. Of the
totals three stand for all that are added up. `CanUnlink` says whether an open database
file can be removed: `_reset_run_memory` depends on it, because its `VACUUM` is refused
inside the transaction its deletes have begun. Where it is FALSE (Windows, with a
connection still open), a cold start may keep what it should clear; the runs and the
theorem have it TRUE. It is assumed that no other
process runs a suite in the same directory.

### TypedEnvelope and MemoryRanking

Both are operators only. `Message` has the fields of `AMPMessage`; of these
`build_typed_envelope` takes neither `message_id` nor `created_at`. `Dictionary` numbers the
sorted names of a session's messages; `Envelope` replaces names by numbers. `MemoryRanking` computes in integers: floats between
0 and 1 in ten-thousandths, weighted sums in millionths; the exponentials of a position
are tabulated for the positions 0 to 10, after which the floor of 0.25 holds (without
vectors) or nothing depends on them (with vectors).

## 3. The runs

| Run | Instance | Shows |
|---|---|---|
| `state_store` | 2 stores, 2 ids, 2 agents, `OwnerOnly`, symmetric | six properties; two ids give a parent and a child, or two blobs; two stores give a stale reader and a crash beside a survivor |
| `protocol_run` | 1 run, 2 earlier units, handshake | nine properties over every route; the two searches of a run may reuse the same unit or two, and the run may end between a count and its line |
| `hybrid_memory` | 2 clients, 1 worker, 2 units, 2 searches, symmetric | two overlapping searches and a round: counts are exact, `MemoryShelf` is implemented |
| `maintenance` | 1 client, 1 worker, 2 units, rounds of 1 unit | the log, the end after `stop`, and that due units are archived |
| `warm_sandbox` | 2 threads, 3 requests, every kind of code | six properties; three requests let one thread use a worker the other has timed out or replaced; the workers may hang or die |
| `text_mode` | tasks of up to 2 keywords, 5 answers of the planner, any failure | a task that needs the tool is executed; a missing summarizer loses no work |
| `compare` | 2 modes, 2 rows each, 1 row of another process | outputs once, in order, completely; the comparison ends |
| `benchmark` | 4 suites, 3 commands, 4 units, open files removable | isolation, progress, summaries, whatever fails in between |
| `transport` | 3 requests | `RequestReply` is implemented; a call with a timeout ends |
| `maintenance_stale` | 1 client, 1 worker, 1 unit | `ArchivedWereUnused` fails (finding) |
| `benchmark_setting` | as `benchmark` | `SettingIsRestored` fails (finding) |
| `shared_records` | 2 stores, 1 id, 2 agents, `OwnerOnly` FALSE | `LineageKept` fails (finding) |

Every property of a passing run has a mutant: an operator, beside the definition it
replaces and marked *Faulty*, that makes the property fail.

Bounds.

- A run of Protocol Mode is finite, so `protocol_run` has no bound but the number of
  earlier units and `Limit`, the hits of one search. Several runs are the
  theorems' subject, and `HybridMemory`'s where they share a memory.
- In `state_store` ids are used once and nothing else grows.
- In `HybridMemory` they are `N` (units), `Limit` (hits of one search), `MaxItems` (units
  of a round, the code's own setting), `MaxSearches` and `MaxFailures` (calls and rounds
  cut short). A lost update needs two searches and one unit; a window that hides a due
  unit needs two units and rounds of one.
- In `WarmSandbox` the bound is `MaxCalls`; a request makes at most one worker, which has
  its name.
- In `CompareProgress`, `MaxRows` rows of each run and `MaxOtherRows` of another process:
  one row in the middle of being written, one complete before it, and one foreign row
  between two halves.
- In `BenchmarkShell`, `MaxCommands`, `MaxUnits` and `Limit`: a failed suite, an ordinary
  command and a suite of the same name; the longest suite has three tasks with a cold
  start in the middle, another is repeated.
- In `SocketTransport`, `N`: a request that times out, one that takes its reply, one that
  takes the reply after it.
- `text_mode` has every task of at most two keywords and five answers: none, an empty one,
  one with an unknown agent, one with a route but no capabilities, one that asks for the
  tool by a capability.

Deadlock is not checked where the system ends: runs of both modes, calls of the sandbox,
a comparison, the requests of a connection, and the shell's bounded commands.
`StateStore` and `HybridMemory` are checked for it.

Fairness.

- `HybridMemory`: the steps of the maintenance thread's loop are fair, since its wait has a
  timeout. `StopEnds` holds after `Exit`, too, because that ends the thread.
  `DueAreArchived` assumes a worker that from some time on is neither stopped nor ended,
  and promises only units among the `MaxItems` oldest active ones: others may wait for
  ever behind units that stay.
- `WarmSandbox`: the steps of each thread are fair and nothing is assumed of the workers,
  which may hang. `CallsEnd` says that nobody leaves with a lock; with endless calls it
  would need a fair lock, which Python's is not.
- `CompareProgress`: the calling thread's steps and those of each run, whose models and
  sandbox have timeouts. Nothing is assumed of the other process.
- `SocketTransport`: the client's steps, the timeout of its socket included. Nothing is
  assumed of the peer, nor that a meaningless length is ever reached (`ReturnGarbage`).

### Where the code and its documentation disagree

Shown by a run:

1. *Archived while in use* (`memory/maintenance.py:63`): a round decides on the count it
   read at its start, and `archive` does not look again; a unit reused in between is
   archived with the reason "old and never reused" (`memory/lifecycle.py:38`).
2. *The setting of a benchmark* (`eval/benchmark.py:103`): the variable that hides the
   global memory is set before the suite is checked and restored by the last statement.
   A suite that raises leaves it set; the shell goes on and its later commands run
   without the global memory, and the next suite saves and restores that value.
   README.md:415 says that the memory is isolated while a benchmark runs.
3. *Lineage across stores* (`state/store.py:318`): a row is replaced whole by a copy that
   may be old, so when an agent without `context.state_store` opens a store of its own, a
   consumer or a memory mark that one store has recorded is lost to a write of the other
   (`shared_records`), while README.md:224 says that the lineage can be traced by the
   consumers each record keeps.

Seen while modelling, without a run of their own:

4. *Blobs of two stores* (`state/store.py:125`): a blob's file is numbered by the records
   its store knows, and written without a look whether it is there. Two stores over one
   directory that know equally many overwrite each other's bytes, and both records point to
   the file, while README.md:222 says that `get` reads the payload of the reference. No
   command of the program puts blobs. `KnownBlobKept` is what does hold: a store spares the
   blobs it knows; `PayloadBeforeRecord` says that a blob was written, not that it still is
   the one.
5. *`memory_query_count`* (`modes/protocol_mode.py:572`): README.md:303 says it counts the
   searches; the one `evidence.refine` makes is not counted. `TraceIsTrue` says that no other
   is left out.
6. *Counts of hits* (`modes/protocol_mode.py:573-576`): README.md:306 says that
   `memory_reused_unit_count` counts the units whose reuse was raised; the hits of the second
   search, whose counts are raised too, are not among them. The averages of `memory_hits` are
   over the hits of both searches, while the benchmark weights them by the first one's count.
7. *Consumers* (`agents/planner.py:15`): docs/state_lifecycle.md:5-12 says the downstream
   agent resolves the ref and the store records it; the handlers take task, evidence and
   code result from `params` and then read no ref.
8. *Dead warm workers* (`sandbox/runner.py:158`): a worker that its code has ended raises at
   every later call and stays in the table, which only a timeout clears, while
   docs/architecture.md:61 says that workers are reused to avoid cold starts.
9. *Thresholds* (`memory/sqlite_store.py:253-256`): the docstring names 0.60 and 0.60 for a
   tagged query whose tags a unit does not share; the retriever asks for 0.72 and 0.70
   (`agents/retriever.py:270`; theorem `OldStrangerIsFiltered`).
10. *The best match of the full text* (`memory/sqlite_store.py:215`): position 0 is taken for
    no position, so it gets no boost and an equal candidate in second place outranks it
    (theorem `SecondOutranksFirst`).

## 4. The proofs

Every theorem holds for any values of the constants that satisfy the named assumptions.
None of the invariants below is inductive by itself; what is added to it is why it holds.
In each module there is one lemma for each conjunct of the invariant, with one step for
each action.

**`StateStoreProofs`** (`StoresAssumption`: ids are finite, `None` is no store or id;
`NoneIsNoRecord`). `TypeCorrect`; `InductiveHolds`; then

- `LineageIsClosed` needs that a parent named in a half-done put is cached (`PutHalfDone`)
  and that a cached record is in the index with the same parents and kind
  (`CacheIndexed`). `PayloadsAreWritten` needs the payload of a half-done put and that a
  store owns only segments it made (`OwnedLive`). Both are unconditional.
- `KnownBlobsAreKept`, about steps, is unconditional too: the numbers of the blobs that a
  store knows are below its own counter (`SlotsBelowCount`), so its next blob is none of
  them.
- `JournalTrailsIndex`, `LineageIsKept`, `IndexIsRegistry` hold under `OwnerOnly`;
  disagreement 3 is why. They need that a live maker is open and a closed store holds nothing
  (`DroppedHoldNothing`), that a maker's copy is the row (`OwnerFresh`) and which record is
  owed a line (`RowOwed`). `JournalTrails` is about records whose store has died, too: such a
  record may lack the line of one call for ever, and never of two. `IndexIsRegistry` is the
  refinement: every step of the stores is a step of `StateRegistry` on the index, or leaves
  it alone.

**`ProtocolRunProofs`** (`RunsAssumption`, and that `None` is no entry and no call).
`TypeInv` is `TypeOK` with `Shape`: which states and which open call there are at each `pc`.
All that follows rests on it.

- The run by itself. The lineage invariant (parents and refs name states already put, gaps
  lead to a new plan) gives `RefsAreThere` and `SummaryIsOfAll`, and `Marks` (how the memory
  of a run and its marks stand at each `pc` of the end) gives `MarksFollow`.
- What it implements. `AskedFits` says which actions have been asked for at each `pc`, which
  makes every step one of `CollaborationRoute` (`RunsFollowRoute`). `Dialogue` and `Sources`
  say what the message list ends with and who has answered (`CallsAreServed`).
- `AnnouncementsAreHeeded`. An announced state is one its agent has been invoked after, or
  one for an agent that is due at this `pc` (`Attended`, `Due`): the code announces to
  `next_agent` and branches on the decision apart from it, and the invariant says that both
  choose the same.
- `TracesAreTrue`. `Recorded` says at each `pc` how far each of the four logs is
  (`RowsFit`), and what the run has counted against what it has done (`SearchesFit`,
  `HitsFit`, `FeedbackFits`). `TraceIsTrue` numbers the invocations by counting those up to
  each one, which the provers can reason about, not by filtering the sequence.
- `CountsAreLogged`, for any number of interleaved runs. `Uses` of a unit are those in the
  logs and those an open search has counted and is still to log; a step that raises the count
  adds one use, a step that writes a line moves one from the second kind to the first
  (`TidyInv` says that a search has no line before it has counted all, so that the two never
  overlap), and `Fail` takes away at most one, the open search's (`CountFits`).

**`HybridMemoryProofs`** (`MemoryAssumption`, `NoneIsNoRow`). `StoreInv`: puts are of
fresh units, each unit by one put, hits are of stored units, and the global database
holds only units of the run's. `CountInv`: the counts, with what the jobs under way still owe
(`Owed`), are what was served. `LogInv`: what a worker owes to the log is archived. They
give `NoReuseIsLost`, `GlobalNeverLeads`, `LogIsBehind` and, from `StoreInv`, the
refinement `MemoryImplementsShelf`. Of the ranking, which needs no assumption:
`ScoresAreShares`, `EarlierRanksHigher`, `DeepHitsAreFiltered`, `BestMatchIsServed`,
`OldStrangerIsFiltered`, `SecondOutranksFirst`, where "served" is: passes the retriever's
filter, once ranked. The scores without vectors depend on a position, and those with vectors
on a similarity that is an input.

**`WarmSandboxProofs`** (`SandboxAssumption`). `Inv` is: types; every thread attends to an
open request of its own (`Threads`); the reader of a worker is the one with its lock
(`Locks`); a worker that is started and not yet in the table is known to its maker alone
(`Secrets`); the worker a thread drops has ended (`Drops`); a worker in use is in the table
unless two threads have raced (`Held`); and while no code has written past its stdout
(`Clean`), what is in a live worker's pipes or running is the one request of the thread
with its lock (`Pipes`), started at most once (`Starts`). `CleanBack` shows that a step
into a clean state comes from one. It gives `NobodyElsesAnswer`, `NothingIsLeftBehind`,
`SecondRunIsExcused`, `NoWorkerIsLost`. `TypeCorrect` needs a second one, because not even
stray code makes a request start a third time: `Budget` counts with the starts of a request
what is in the pipes of its worker, and says how much of it its thread has used where it
stands.

**`BenchmarkProofs`** (`BenchmarkAssumption`). `TypeCorrect`; `SuitesAreIsolated` under
`CanUnlink`, by `Isolated`: outside a run nothing is found, a suite's database holds only
what it has stored since it was cleared, and the setting hides the global one.
`ProgressIsTold` and `SummariesAreWhole` by `Counted`: at each `pc` of a suite the events
told, the rows written and the totals kept are those of the tasks before the one in progress
and of as much of this one as is done (`EventsAdvance`, `SuiteKeepsCount`, `SuiteAddsUp`).

**`DecisionProofs`** (`DecisionAssumption`). What `Normalized` returns for any decision:
`NormalizedIsDecision`, `FlagsMatchRoute`, `ToolTasksKeepTheirTool`, `OutcomeIsNormalized`.
`NormalizedIsStable` also assumes `RolesApart`, that each stage's capability is the one its
agent leads with, as in the default registry. Of a run of Text Mode: `TextTypeCorrect`, and
under `RolesApart` `TextInvariance`, which gives `ToolTasksExecuted` and `AnswersKeepWork`.
`TextInv` says that the route is that of a normalised decision, that the handoffs so far
are the route's first steps, and, of the two fallbacks, what the last agent before the
summarizer has left (`LastKeepsWork`) and what the answer was made from (`AnswerIsLast`).

**`WireProofs`**. The stream transport (`TransportAssumption`) implements `RequestReply`:
`TransportIsChannel`. Three things are needed. `Asking`: one send at a time, with chunks of
its own, and the socket's timeout restored between two. `Order`: along the whole way, from
what the peer sends back of what it has heard to what is still to reach it, the messages
rise, and they are all later than any reply that was returned; a piece is compared with a
piece (`Precedes`), so that the parts of a frame that a timeout left behind are in order
too, and the order survives a reader that starts in the middle of one. `Clean`: until a call
ends in a timeout, the streams hold the frame of the open call and nothing else, so its reply
is its own. `StreamsAreOrdered` is the invariant, `TimeoutIsRestored` the safety half of
`TimedSendsEnd`. The typed envelopes (names are finite in each session and strictly ordered,
`None` is no name): `NumbersAreDistinct`, `LookupsSucceed`, and
`EnvelopesDropIdAndTime`: two messages have the same envelope and payload exactly when they
differ at most in the two fields that are not carried.

**`CompareProofs`** (`CompareAssumption`). `OutputsAreInOrder`, for any number of rows. `Filed`
says that in each file the run's own rows begin in the order of their steps and without a gap,
whatever another process writes into the middle of one, and that all begun rows are there
unless the run has failed or is still to write the last. `Seen` says that what the caller has
dealt with is a beginning of the file's lines, and what it has shown is exactly the rows that
begin there; it survives every append, because no line that exists begins anew (`Grows`).
`Followed` says why an announced end is not too early: a future is looked at only after each
file was read once more since it had ended. `Relevant` counts places, because `SelectSeq`
is opaque to the provers.

Where an induction was wanted, a least element (the naturals are well-founded: `LastOfSome`)
or a bijection with an interval (`NumberedInTurn`) stands for it.

Only model-checked are the liveness properties: `StopEnds`, `DueAreArchived`, `CallsEnd`,
`CompareEnds` and the first half of `TimedSendsEnd`. They are out of the prover's reach.
`ArchivedWereUnused`, `SettingIsRestored` and, without `OwnerOnly`, `LineageKept` fail, which
their runs show. The type
invariants of `HybridMemory`, `BenchmarkShell`, `TextMode`, `SocketTransport` and
`CompareProgress` are proved and no run repeats them.

## 5. Not modelled, and what is left

Not modelled: byte and token metrics and their averages, embeddings, the tagger and its
model (floating point and model answers; they are choices), the encoding of an envelope in
bytes, the files a run generates and `memory.jsonl`, the sandbox's guard prelude and the end of
the process, reports, dashboard, chat and rendering, configuration, prompts and the
models' clients (read once, or nondeterministic input), the Rust core (optional
replacements of pure functions and of the sandbox's subprocess). In `HybridMemory` the reset
of the run's database is left out: it is `BenchmarkShell`'s subject. The full-text
table and the vector index are choices of a hit. `memory/maintenance.py` archives only in
the global database, so the copy in a run's own stays active.

What is left, in this order:

1. `StateStore` with `OwnerOnly` FALSE: `shared_records` shows what is lost when agents open
   stores of their own; what survives is to be stated as a weaker promise than `LineageKept`
   and proved.
2. `ProtocolRun` takes the planner's route as a choice. A refinement that takes it from
   `PlannerDecision`, as `TextMode` does, would show that both modes consult the same agents.
3. The reset of a run's database beside a search in progress, which `HybridMemory` and
   `BenchmarkShell` each see from their own side only.
