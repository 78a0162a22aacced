# A TLA+ model of DeerFlow's shared state

This directory specifies the parts of the repository in which several actors
change shared state: the runs of the gateway, their rows, streams and journals,
the subagents, sandboxes, MCP sessions and memory they use, what keeps an agent
from going on for ever, the chat channels in front of the gateway, and the write
capability of the writing service. The modules are translated from the Python
source; `PROJECT.json` ("map") names the lines each definition stands for.

## 1. The system

The gateway (`backend/app/gateway`) is a FastAPI process. A request creates a
*run* on a *thread* (a conversation); the run is executed by an asyncio task
that drives a LangGraph agent, writes the thread's checkpoint, and publishes
events that clients read over SSE. The harness package
(`backend/packages/harness/deerflow`) holds the run engine and everything the
agent uses.

| Component | State | Operations | Hard behaviours | What makes it correct |
|---|---|---|---|---|
| Run registry `runtime/runs/manager.py` | records: status, abort event, abort action, task | create_or_reject, cancel, set_status, reconcile | a record without a task; unconditional overwrite of the status; a registry per process | one unaborted inflight run per thread; a final status is final |
| Run worker `runtime/runs/worker.py` | position in run_agent, snapshot, the thread's checkpoint | start, snapshot, stream, final status, rollback, close | cancellation at any await or before the first step; rollback next to a newer run | aborts are honoured; a started run ends its stream; rollback restores |
| Run requests `app/gateway/services.py`, `routers/thread_runs.py` | where a request is suspended; thread status | start_run, cancel, stream, join, disconnect | record inserted before the body is checked; on_disconnect=cancel | an admitted request reaches a task; thread status settles |
| Run store `persistence/run/sql.py`, recovery `deps.py` | rows | put, update_status, update_run_completion, list_inflight | calls reordered, repeated, given up; crash; several processes | rows agree with runs; a recovery fails only what it must: orphans, or, beside other processes, never a run of its own |
| Stream bridge `runtime/stream_bridge` | bounded event log, start offset, condition | publish, publish_end, subscribe, cleanup | slow and reconnecting readers; wake-ups; late joiners | no loss but by capacity, no repetition, no sleeper left behind |
| Subagents `subagents/executor.py`, `tools/builtins/task_tool.py` | result holder, registry, thread pool | execute_async, poll, cancel, cleanup | three threads on one holder; timeout against answer; full pool | first terminal status wins; every task ends; entries are removed |
| Sandboxes `community/aio_sandbox`, `sandbox/middleware.py` | active and warm sandboxes of each process, thread locks, lock file, containers | acquire, release, destroy, reap, shutdown, reconcile | check under a lock, destroy outside it; two processes; kills; cancelled waiters | one maker of a container; never active and warm; none forgotten |
| Memory `agents/memory`, `routers/memory.py` | queue, timers, flag; file and cache of each process | add, process, update, REST edits | timer against a batch in progress; load, model call, save | one batch at a time; no conversation or correction left behind |
| IM channels `app/channels/manager.py`, `message_bus.py`, `store.py` | queue, places, thread of each conversation | publish, dispatch, chat, commands | check, await, store; a busy thread; a crash | conversations do not mix; every message is answered |
| Circuit breaker `middlewares/llm_error_handling_middleware.py` | state, failures, probe | check, retry, success, failure | answers of calls let through before; a probe that reports nothing | only a probe keeps the others out |
| Loop guard `middlewares/loop_detection_middleware.py`, `todo_middleware.py` | window, counts, pending warnings, reminders | track, warn, stop, remind | what leaves the window; retries; aborted runs | a stop is announced; a run ends |
| Transcript: dangling calls, limits, errors, summaries | the messages of a thread | ask, answer, patch, summarise | aborts between calls and results; ids used twice | every call is followed by its result |
| Run journal `runtime/journal.py`, `runtime/events/store/db.py` | buffer, writes in flight, rows | put, write, flush | failed batch returned during a flush; colliding transactions | events are stored in order and completely |
| MCP sessions `mcp/session_pool.py`, `cache.py`, `tools/sync.py` | sessions and their loops | get, evict, reset | check, await, register; loops that end | a call gets an open session of its own |
| Thread history, frontend `core/threads/hooks.ts` | list of runs, loads in flight, what is loaded and shown | change of thread, list, load more, answers, failures, merge | answers for a thread that was left; overlapping loads; flags cleared by an older load | the page shows its own thread; all runs get loaded |
| Writing service `writing-service/app/harness/runners.py` | section tasks, events, drafts | start, write, collect, assemble | timeouts, failures, cycles | a complete report is whole; the sections end |

How they interact: a request calls the registry and then creates the worker
task; the worker calls the registry (set_status), the checkpointer, the bridge,
the journal and the store; the tool `task_tool` runs inside the worker's graph
and starts subagents on other threads; an agent's tools use the sandbox of its
thread and the MCP sessions of its scope; the end of an agent's turn queues its
conversation for the memory; a client's disconnect calls the registry's cancel; a
starting process reads the store and rewrites rows. The channel manager is a
client of the gateway like any other. Platform adapters, models, configuration,
skills, authentication, other routers and the rest of the frontend are sequential code or
I/O without a protocol of their own and are not modelled; `PROJECT.json` gives
the reason for each. Two facts of the code need no model: `RunManager.cleanup`
has no caller, so records live as long as the process, and the status `timeout`
of `RunStatus` is never assigned.

## 2. Modules

| Module | Models | Uses |
|---|---|---|
| `RunManager` | the fields of a record and the sections under RunManager's lock | |
| `RunLifecycle` | start_run, cancel, run_agent and the rollback | `RunManager` |
| `RunStore` | store calls, rows, crash and reconciliation | `RunManager` |
| `StreamBridge` | MemoryStreamBridge and its SSE clients | `EventLog` (INSTANCE) |
| `EventLog` | the contract of a bridge: an append-only log with limited retention | |
| `SubagentTasks` | executor, result holder, task_tool | |
| `SandboxPool` | the AIO sandbox provider in every gateway process, and the container runtime | |
| `MemoryUpdates` | queue, updater, REST edits, file and caches of one user's memory | |
| `ChannelDispatch` | message bus, dispatch loop and handlers of the channel manager, thread store | |
| `CircuitBreaker` | breaker and retries around a model call | |
| `LoopGuard` | loop detection, todo reminders and retries in one turn of the agent | |
| `Transcript` | the message list of a thread and the requests made of it | |
| `RunJournal` | the journals of a thread's runs and the event table | |
| `SessionPool` | MCP sessions, the loops they live on, the reset of the tool cache | |
| `WriteReport` | run_write with its section tasks | |
| `ThreadHistory` | useThreadHistory and mergeMessages, the two endpoints they read | |
| `RunLifecycleProofs`, `RunStoreProofs`, `StreamBridgeProofs`, `SandboxPoolProofs`, `RunJournalProofs`, `SubagentTasksProofs` | theorems about the module of that name | TLAPS |
| `QueuesProofs` | theorems about `MemoryUpdates` and `ChannelDispatch` | TLAPS |
| `ChosenPlaces` | what a filter leaves of a sequence, for `Transcript` and `ThreadHistory` | |
| `HarnessProofs` | theorems about `CircuitBreaker`, `LoopGuard`, `Transcript`, `SessionPool`, `WriteReport` and `ThreadHistory` | TLAPS |
| `MC*` | constants for the runs; `MCHarness` puts seven modules side by side, `MCQueues` two | |

**Steps.** In `RunLifecycle`, `RunStore` and `StreamBridge` everything runs on
one event loop: a step is the code between two awaits. The sections under
RunManager's lock and under a stream's condition contain no await, so each is
one step. `task.cancel()` raises at the await the worker is suspended in:
`cancelReq` disables the worker's ordinary steps and enables `WorkerCancelled`,
or `WorkerNeverStarts` for a coroutine that has not entered its try block. In
`SubagentTasks` the actors are threads, and `try_set_terminal` is two steps
(the payload with `completed_at`, then the status), because readers do not take
its lock.

In `SandboxPool`, `MemoryUpdates`, `CircuitBreaker` and `SessionPool`
several threads act: a step is a section under the component's lock, a call of
something outside the process, or a lock taken or given back. In
`ChannelDispatch`, `RunJournal` and `WriteReport` a step ends at an await.
In `ThreadHistory` a step is a handler of the browser, up to its next await.
`LoopGuard` and `Transcript` are sequential: what interleaves are the choices of
the model, the user's aborts and the failures of calls.

**Data.** A checkpoint is the set of turns it holds; an event is its number; a
row is its status; token usage is whether there is any. Store calls are
records `[op, run, val, payload]` that the store answers in any order, answers
and forgets to acknowledge (the call is made again), or gives up. A `RunStore`
step that fails to list rows starts the process without recovery, as the code
does. A sandbox is named by its thread, whose hash is its id; a container is its
number. A memory file is the number of the save that wrote it. A topic is the
key of the thread store, a thread is named by the message it was created for. A
tool call of `LoopGuard` is its tool and the argument its hash is made of, one of
`Transcript` is its id. A section is its id, a draft its kind. Time is reduced to
whether a deadline may have passed: debounce delays, idle times, recovery and
section timeouts may elapse at any moment, so what holds does not rest on any
relation between them.

**Correspondence of state.** `status`, `abort`, `action`, `task` are fields of
RunRecord; `req` and `pc` are where `start_run` and `run_agent` are suspended;
`snap` and `capture` are `pre_run_snapshot` and `snapshot_capture_failed`;
`meta` is `threads_meta.status`; `view` is the state the graph loaded. In
`SandboxPool`, `active` is `_sandboxes` with the tables that change with it and
`warm` is `_warm_pool`; in `MemoryUpdates`, `queue` and `processing` are the
fields of the queue, `phase` and `batch` its timer threads and the local
variable of `_process_queue`, `cache` is `_memory_cache`; in `ChannelDispatch`,
`store` is the JSON mapping and `at` where a handler is suspended; `circuit`,
`failures`, `probing` are the breaker's fields; `window`, `warned`, `freq`,
`freqWarned`, `warnings` those of the loop detection; `registry` is `_entries`
with `_context_managers`, one per pool; `buffer` and `batch` are the journal's; `hook`
holds the refs and the state of `useThreadHistory`.
`base`, `touched`, `restored`, `metaLost`, `inserted`, `saved`, `recovered`,
`missed`, `lost`, `probes`, `dropped` and `due` are history variables that only
properties read.

## 3. Runs

Passing runs:

* `MCRunLifecycle` - two runs on one thread, every strategy, any number of
  cancels, both kinds of metadata and checkpoint failure (about 513,000
  states). Two runs are enough for each hazard listed: they involve one run and
  the one that displaces it. Safety: aborted runs never succeed, one unaborted
  inflight run, running implies a live worker, ended implies terminal, captured
  rollbacks restore, thread status settles, final is final. Liveness: a started
  run ends its stream, an aborted run stops.
* `MCRunStore` - two processes on one database, two runs, two concurrent
  requests, one crash (about 3.3 million states; the two requests are
  symmetric). The second request is needed for an interrupter and a canceller of
  the same run. Either process may crash and start beside the live run of the
  other; to stay within minutes the second run is made only while the second
  process is down (`MCSiblingBound`). `OwnRunsSpared` says what a start does to
  live runs: it fails those of a sibling, never one of its own. The sibling's
  case is the exception in `SettledRowAgrees` and `SuccessIsDurable`, read off
  `recovered`, and `MCSharedStore` below shows that it happens.
* `MCStreamBridge` - two clients, a buffer of two and four events (about 20,700
  states): a client can fall two events behind, be overtaken while it holds an
  entry, and reconnect after the event it saw was dropped. `ImplementsLog` is
  the refinement to `EventLog`.
* `MCSubagentTasks` - two tasks and a pool of one thread (about 268,000 states):
  the second task queues, as the fourth does in the real pool of three.

* `MCSandboxPool` - two processes and two threads, where either one process
  serves both threads or both processes one thread, two agents, a warm pool of
  one, two containers at a time and one kill or failing stop (about 3.1 million states).
  Two agents are enough for a maker and the one that waits for it, or for an
  agent and one that shares its sandbox; the idle checkers and the shutdowns act
  beside them.
* `MCQueues` - two parts that share no state, each checked alone (about 442,000
  states together). `MemoryUpdates`: two targets, two timer threads, three
  conversations and one save: one timer works while the other is armed, fires and
  re-arms, and a conversation replaces a queued one. `ChannelDispatch`: three
  messages of two topics, chat or command, two places and one crash: two handlers
  of one topic overlap and a third message waits for a place.
* `MCHarness` - seven parts that share no state, each checked alone (about 527,000
  states together; the variable `part` says which one moves). `LoopGuard`: two
  tools, three responses, a window of four, warnings at two and stops at three.
  `CircuitBreaker`: three callers, a threshold of two, so that one caller can
  probe while answers of two earlier ones arrive. `Transcript`: two ids, which
  the provider may use again, and six messages, so that a summary can rescue the
  files read at two of them. `RunJournal`: two runs of a
  thread, a threshold of two, three events each and one failing write.
  `SessionPool`: three calls, one of them on a loop of its own, two keys, one
  session at a time and one reset. `WriteReport`: three sections with five
  structures, among them a chain, a cycle and an unknown id. `ThreadHistory`: two
  threads of two runs, three loads in flight, two changes of thread (away and back)
  and one failing request; a run has two messages and a page one, so that answers
  are cut, and the first run of a thread has been summarized away.

Bounds: `MaxCrash`, `MaxCrashes` (crashes), `MaxFaults` (kills and failing
stops), `MaxEvents` (events), `MaxLostWrites` (failing writes), `MaxAdds` and
`MaxSaves` (conversations queued, requests that save), `MaxFailures` (model errors counted),
`MaxContainers`, `MaxPools`, `MaxLength` and `MaxCalls` (messages of a transcript,
calls of a message), `MaxRuns`, `MaxViews` and `MaxLoadErrors` (runs listed, changes of
thread, failing requests), `Tasks` (tasks submitted), and the sets `Run`, `Client`,
`Proc`, `Agents`, `Threads`, `Procs`, `Callers`, `Calls`, `Slots`. A run id is a uuid, so
one create per id loses nothing. Deadlock is checked in `MCSandboxPool`, whose
idle checker never stops; the other runs end in states where all work is over
and nobody has to make a request. Symmetry is used in `MCRunStore` and
`MCSandboxPool`, which have no liveness property.

Every module but the contract `EventLog` states a type invariant. Those of `RunLifecycle`, `StreamBridge` and
`RunJournal` are theorems, and the invariants proved for the other modules contain
the types their proofs need; to keep the runs to what could be wrong, none is
listed in a run.

Violation runs, each a statement of a comment or docstring that the code does
not keep; `PROJECT.json` ("findings") quotes the line and describes the trace:

* `MCOneInflightRun` - a run interrupted before its task exists becomes running
  again next to its successor.
* `MCRollbackRestores` - an early rollback deletes the thread's conversation.
* `MCTopicSharesThread` - two first messages of a topic are answered in two
  threads.
* `MCLatestPage` - a run with more messages than a page is loaded without its newest.
* `MCCacheAgrees` - two overlapping saves leave a stale memory in the cache for
  good.

Further counterexamples can be had with the configurations beside them
(`tlc -config X.cfg M`); they are not among the runs, whose number is kept small:

| Configuration | Module | What it shows |
|---|---|---|
| `MCLaunchedRunEnds` | `MCRunLifecycle` | a task cancelled before its first step never ends its stream (worker.py:164-169 says otherwise) |
| `MCPendingIsServed` | `MCRunLifecycle` | a body refused after the record was inserted leaves it pending, and the retry services.py:88-91 has in mind gets 409 |
| `MCSharedStore` | `MCRunStore` | `OnlyOrphansRecovered` fails: with several worker processes, the compose file's default, a starting process fails its siblings' live runs (manager.py:548-556) |
| `MCRecreatedRow` | `MCRunStore` | a recreated row can be left running (tests/test_run_manager.py:191) |
| `MCClientEnds` | `MCStreamBridge` | a client that joins after the stream's cleanup never ends (base.py:59-60) |
| `MCUsageTransferred` | `MCSubagentTasks` | the usage of a timed-out subagent is lost (token_collector.py:4-5) |
| `MCServedRuns` | `MCSandboxPool` | the idle checker stops the container of an agent that has used it longer than the idle timeout (aio_sandbox_provider.py:735: active sandboxes "must not be forcibly stopped") |
| `MCCallsAreMade` | `CircuitBreaker` | a probe that ends with an error that is not retriable keeps the circuit half-open for ever (config.example.yaml:1121) |
| `MCWriteEnds` | `MCHarness` | an assembler that hangs holds the write for ever: it is awaited without a timeout (runners.py:446-451), and the write_timeout of config.py:42-45 ("Timeout for entire write operation") is applied nowhere |
| `MCWarningIsShown` | `MCLoopGuard` | a warning drained for a model call that fails and is retried is not shown (loop_detection_middleware.py:10-13) |
| `MCHistoryOverlap` | `ThreadHistory` | the list of runs comes newest first (manager.py:367-398), the hook scans it from its end and puts what it loads in front, so the history is in the reverse order of the runs and what overlaps the thread's state is not its end (hooks.ts:104-106 says it is) |

## 4. Fairness

* `RunLifecycle`: weak fairness of each admitted request and each worker. An
  asyncio loop runs every ready coroutine, the awaited stores answer or raise,
  and a stream is finite because LangGraph bounds it by `recursion_limit`.
  Clients need not create or cancel anything.
* `StreamBridge`: weak fairness of a subscriber's turn and of the delivery of
  what it holds. The heartbeat has no fairness, so `SubscriberEnds` cannot rest
  on a timer that hides a lost wake-up.
* `SubagentTasks`: weak fairness of pool threads (their timed wait ends), of
  the write that holds the lock, and of the tool and cleaner. The execution has
  none: a model call may hang, and the tasks must end all the same.
* `RunStore`: none; it has safety properties only.
* `MemoryUpdates`: weak fairness of each timer thread. A timer fires, and an
  update ends, because the model call has a timeout.
* `ChannelDispatch`: weak fairness of the dispatch loop, of the free place and of
  each handler and run. Runs end because the gateway ends them; no platform needs
  to send anything.
* `CircuitBreaker`: weak fairness of the clock and of the callers.
* `LoopGuard`: weak fairness of a turn once it has begun; what the model answers
  is chosen freely, so `RunEnds` rests on the guards alone.
* `WriteReport`: weak fairness of the generator, which the server pulls, and of
  the timeout of each section. The agents have none: `SectionsEnd` holds although
  they hang. Neither has the assembler (`Assembled`), a model call without a
  timeout: the sections end, the write as a whole need not (`MCWriteEnds`).
* `ThreadHistory`: weak fairness of requests, which are answered or fail, and of the
  sentinel: the page asks for more as long as the top of the list is in sight and
  something is left. Nobody has to change threads, make runs or refresh the list.

In `MCHarness` and `MCQueues` the same fairness is stated of the part that moves.

## 5. Proofs

TLAPS checks, for every value of the constants:

* `RunLifecycleProofs`: type correctness, `AbortedNeverSucceeds`,
  `OneUnabortedRun`, `RunningHasWorker`, `EndedIsTerminal`,
  `CapturedRollbackRestores`, `MetaSettles` and the action property `FinalIsFinal`.
  None of the invariants is inductive: that an aborted run does not succeed
  depends on where its worker stands when the abort arrives, and that a rollback
  restores depends on what was captured before. `IInv` adds `StatusInv` (the
  position of request and worker fixes the possible statuses, and an
  interruption not yet honoured shows in `abort`) and `CheckpointInv` (while no
  other run touches the thread, the snapshot and the restored checkpoint are
  the one the worker began with). For `MetaSettles` `MetaInv` adds that a thread
  that shows "running" has a request or a worker that is still to write to it, or
  lost a write. Each action is one lemma or step; the properties follow from `IInv`.
* `RunStoreProofs`: type correctness, `OrphansRecovered`, `OwnRunsSpared`,
  `SettledRowAgrees` and the action property `SuccessIsDurable`, all for any number
  of processes on one store. `IInv` says of every caller which call it may have
  in flight and what that call may still write: a worker only the status its
  record has, a request only the creation of its run or an interruption, a
  starting process only errors, and then the row shows that it was recovered.
  `OwnRunsInv` adds that what a starting process holds of its own runs is of its
  previous life (it makes none before it serves), and that a row tells what the
  record does once a final write was applied and no reconciliation wrote it since.
  Nothing is claimed of a sibling's live run, which the code does fail
  (`OnlyOrphansRecovered` is no theorem and no property of a passing run).
* `StreamBridgeProofs`: type correctness, `NoLostWakeup` and the refinement
  `ImplementsLog`. `BridgeInv` says that the retained events are the last ones
  without a gap, that nothing is dropped before the buffer is full, that the
  stream created after the cleanup stays empty, and that between what a client
  received and its offset everything was dropped. The refinement proof maps
  `Publish` to an append, `PublishEnd` to the finish, `Receive` to a delivery or
  to the end, `Reload` to a fresh start, and every other step to a stutter.
* `SandboxPoolProofs`: type correctness, `NotActiveAndWarm`, `OneMaker` and
  `NoneForgotten`, for any number of agents, threads, processes and containers.
  `LockInv` says who holds the lock of a thread
  and the lock file (exactly the agents inside the sections they guard), that an
  agent that makes a container sees no entry for it in its process, and that
  only live processes have entries. The lock of a process keeps a second agent of
  that process out of the section, the file lock the agents of other processes.
  `NoneForgotten` needs `StopInv` besides: `Covered` (the property, with the
  handles of all processes in one set), `OneAtHand` (an agent that evicts and a
  reaper that stops have one handle in hand, and none at other times, so that
  what a step overwrites is nothing), `NothingNoted` (a process that starts stops
  what it adopts by name) and `Pools`: the places in a warm pool are 1, 2, ...
  without a gap or a tie, so that taking entries out never renumbers one that
  stays out of the pool.
* `QueuesProofs`: `OneBatch` and `QueuedIsScheduled` of `MemoryUpdates`
  (`QueueInv` ties what each timer thread does to the flag and the queue), and
  `TopicsApart` of `ChannelDispatch` (`ThreadInv` says that every thread that
  the store or a handler knows was created for a message of the same topic).
* `HarnessProofs`:
  - `CircuitBreaker`: `ClosedBelowThreshold` and `ProbeIsCarried`, for any number
    of callers and thresholds.
  - `LoopGuard`: `StopIsAnnounced`, for any window and any thresholds where the
    hard limit is above the warning's (`StopsAreAnnounced`). The configuration also
    accepts equal ones (loop_detection_config.py:66-73), of which
    `EqualLimitsNeverWarn` says that no warning is ever recorded: there every stop
    comes unannounced. `WindowInv` adds only the types of the guard's state, the
    length of the window among them: with these both are inductive.
  - `SessionPool`: the action property `SessionUsable`. `PoolInv` says where each session that
    was made is: in one entry, in the hands of the one call that registers it, or
    on its way to be closed (`Doomed`), never in two of them; therefore nobody
    closes the session of an entry.
  - `WriteReport`: `CompleteIsWhole`, for any sections, dependencies and retries.
    `ReportInv` says of each section where it stands (remaining, running with its
    events unread, or collected), and what the client was told by then.
  - `ThreadHistory`: type correctness and `HistoryOfThread`, for any threads, runs
    and loads in flight, any length of a run and of a page. `HistoryInv` says that
    the hook keeps runs and messages of the thread on display only, that its
    messages are those of the loaded runs, each once, and that every load in flight
    names a run that the list of its own thread had, so that what arrives after a
    change of thread is told apart. The rest is about sequences: a filter keeps
    the elements of some places (`ChosenOnes`), the last place of each message is
    one of those (`DedupedOnes`), and what is cut from the history before the
    thread's state is in that state (`ShownOnes`).
  - `Transcript`: type correctness and `RequestPaired`, for any ids, any bound on the
    history and on the calls of a response. `TranscriptInv` says that every result
    in the history is led: between it and a message that made its call there are
    only results. This survives an abort between calls and results, results added
    after the last message, a cut that does not fall on a result, and the rescue of
    some calls with their results (`JoinedWell`, `ResultsWell`, `SuffixWell`,
    `RescuedWell`, and `FlattenedWell` for what is rescued of several messages). So the patch moves every result away from where it stands
    (`GroupedParts`), and what it puts back after each message are the results of
    its calls (`ResultsAre`). `Flattened` says which place each of them has in the
    request (`PatchedPaired`).
* `RunJournalProofs`: `StoredInOrder` and `FlushIsComplete`, for any number of runs,
  any threshold and any failing writes. `Numbered` says that as long as the worker
  of a run has not failed, what is being written and what is buffered are the last
  numbers the run has put, in this order, and the rows have all before them;
  `OneWriter` that the write task and the final flush never write at once. A
  transaction therefore adds numbers that follow, and the order of the rows
  survives it whatever was inserted for other runs in between.
* `SubagentTasksProofs`: `FirstTerminalWins`, `OutcomeIsComplete`,
  `EntryUntilTaken` and `UsageReported`, for any number of tasks and any pool.
  `HolderInv` says which thread may be inside `try_set_terminal` and what the holder
  has by then, `EntryInv` that an entry stays until its task is removable, `ToolInv`
  what the tool has reported; `QueueInv` that a queued task is queued once.

Assumptions: a run is created on one thread (`ThreadAssumption`), `Past` is not
a run, strategies are those of the code, the bounds are natural numbers, the capacity
and the thresholds are at least one, the sets of threads and processes do not contain the values that
stand for nobody (`SandboxAssumption`), and the loop of a process is no call's
(`PoolAssumption`). The hard limit of `LoopGuard` is at least the warning's, as
the configuration demands (`GuardAssumption`); the two theorems above say which of
the cases they are about.

Only model-checked: liveness and `CorrectionIsUsed` (outside the prover's reach,
as is ENABLED) and all violation runs. The library defines `SelectSeq` by recursion
over an operator argument, which none of the provers can expand; `Transcript` and
`ThreadHistory` therefore state filters with `Chosen`. `FlattenSeq` is a recursive
function: `FlattenSeqExists` builds it length by length (`Climb` is the induction,
over a set of numbers), and `Flattened` goes along it. The inductive invariants
were themselves checked by TLC before they were proved.

## 6. What the models leave out

* The checkpointer is LangGraph's: a superstep writes the whole state the graph
  holds; pending writes and namespaces are not told apart.
* `RunStore` reduces the worker to its store calls and reconciles as sqlite
  does; the thread status written after a recovery is not modelled.
* Event ids are compared for equality only, so the wall clock in them does not
  matter; a second stream of a run never has events, since the worker is done.
* A subagent's id is used once; a run resumed at the same tool call would reuse
  it. Poll budgets are not counted: they run out only on a task that had to wait
  for a thread, since they exceed the execution's timeout by a minute.
* `SandboxPool` takes the local backend; the remote backend's provisioner, ports,
  mounts and what runs inside a container are left out, and so are sandboxes
  without a thread.
* `MemoryUpdates`: `flush`, `flush_nowait` and `clear` are called by tests only;
  what an update writes is not modelled, so neither is the merge of two edits.
* `ChannelDispatch`: files, session layers, platform adapters and the limit of
  the bus (it has none) are left out. A thread that is stored in memory and not
  on disk (`onDisk`) is modelled; the next save that succeeds writes it.
* `RunJournal` writes to the database store on a database without advisory locks
  (sqlite) or with them, by choice; progress snapshots and the other stores are
  left out. `Transcript` leaves out which messages a summary keeps, and takes
  any cut.
* `WriteReport`: the agents of a section are calls that return, fail or hang.
  The structure, review and chat capabilities are sequences of such calls.
* `ThreadHistory`: a run's messages are complete when they are loaded (those of a
  live run come with the thread's state); the messages that a summarization moves
  into the history (`appendMessages`), optimistic messages and sending are left out.

Not modelled, and why: see the components with that status in `PROJECT.json`.
The largest files among them (`sandbox/tools.py`, the adapters of WeChat,
DingTalk, Feishu and the others, `client.py`, `lead_agent/prompt.py`, the doctor
script) translate paths and text, call external services or build prompts; they
keep no state that two actors share, and a model of them would restate them line
by line. Therefore the map covers the protocols of the code and not its bulk.

## 7. Observations

Facts met while modelling that no property states:

* `DeerFlowClient` gives its runs no run id, so pending loop warnings and reminder
  counts of an aborted run are those of the next one (the comment at
  loop_detection_middleware.py:38-43 speaks of runs with an id), and the counts of
  `_track_and_check` for each tool are never reset by a final answer.
* message_bus.py:42-43 says that a message without a topic creates a new thread;
  the store's key without a topic makes all of them share one.
* With `hard_limit` equal to `warn_threshold`, which the configuration accepts
  (loop_detection_config.py:66-73), the guard stops a run without a warning: the
  stop is decided first (loop_detection_middleware.py:372-384).
* `write_timeout` and `llm_call_timeout` of the writing service (config.py:42-53)
  are applied nowhere in `run_write`; only `section_timeout` is.
* Two overlapping first calls of one MCP scope each open a session; the second
  registration replaces the first session, which is then never closed, and both
  count once against MAX_SESSIONS. A failing `initialize` leaves its context open.
  `close_all_sync` called on the loop that owns the sessions blocks it for the
  whole close timeout of each.
* Events that executor threads put after the final flush are lost, and so is the
  batch of a flush that is cancelled.
* An update of the memory loads before its model call and saves after it: an edit
  made over REST meanwhile is lost. Each conversation that is queued re-arms the
  debounce timer, so steady traffic delays the update without a bound.
* In `_write_section` the handler of TimeoutError is never reached, since an agent
  turns what it raises into an AgentError; it also uses `SectionMetadata`, which is
  imported elsewhere only. A failed section leaves the tasks of its batch running and
  their events unread, and the client gets two error events. A section that
  depends on an unknown id makes all remaining sections start together.
* `pendingLoadRef` of the thread history never becomes true: as the runs come newest
  first, the last one not loaded is the one being loaded, and a run that is made
  meanwhile is loaded last. Of a run's messages only one page is ever read: the hook
  looks at neither `has_more` nor a cursor.
* messagesRef (hooks.ts:638-642) keeps a longer list after a summarization has made
  the thread's shorter, so a second summarization may move the wrong messages.
  A change of thread resets the send guard but not the optimistic messages
  (hooks.ts, the effect on `threadId` of useThreadStream, whose comment says they do not leak).

## 8. Plan

1. Compositions: `RunLifecycle` with `StreamBridge` (a client that waits for a
   run, and the reply of `wait`), a run with its subagents (cancellation of the
   parent, reuse of a tool call id), and `ChannelDispatch` over `RunLifecycle`
   in place of the gateway it assumes.
2. Abstract specifications: `Run` as a one-shot state machine (pending, running,
   one final outcome) that `RunLifecycle` implements outside the recorded
   findings, a durable register that `RunStore` implements, and an append-only
   event table that `RunJournal` implements.
3. Proofs: the refinements of point 2.
