# TLA+ models of openDataAnalysis

openDataAnalysis is a Go server that runs an LLM agent for each session of a
user: a chat request starts a *run*, the engine calls the model and tools in a
loop, writes a report made of blocks, may stop to ask the user something, and
streams everything as events that are first written to a log. This directory
holds specifications of the parts of the server whose correctness depends on
the order in which goroutines, requests, failing writes and restarts happen.

## 1. The system

### Parts, state and operations

| part | state | operations | interacts through |
|---|---|---|---|
| run slot (`session/types.go`) | `Session.ActiveRun`: run id, status, cancel function, under `Session.mu` | `StartRun`, `FinishRun`, `SuspendRun`, `ConsumeWaitingRun(Exact)`, `ReturnRunToWaiting`, `RestoreWaitingRun`, `UpdateCancelFunc`, `CancelRun` | called by handlers, hooks and cleanup |
| chat, answer, cancel handlers (`handler/chat.go`) | one goroutine per request, then a dispatch goroutine | peek, `GetOrCreate`, hydrate, consume or start, create row, log user event, dispatch; resume; cancel | slot, manager, repositories, engine |
| engine (`agent/engine.go`) | one `Engine` per session: history, pending suspension, receipts, token counts, under `Engine.mu` | `Run`, `SetHistory`, `ProvideAskUserResult`, deferred usage event and history repair | emits events; shared tool objects |
| event dispatcher and hooks (`handler/runtime_hooks.go`, `runtime_events.go`) | none of their own | persist an event, send it, then run the lifecycle hooks; on failure cancel and mark the run failed | slot, run rows, report |
| hydration and recovery (`handler/session_runtime.go`) | none | rebuild history from the log; mark runs of a dead session failed | engine, slot, run rows |
| background jobs (`agent/jobs.go`) | job map, eviction order, unannounced queue, `execMu` | `Submit`, job goroutine, `TakeCompletedNotices`, eviction | shared tool objects; request building |
| report view (`session/report_view.go`, `handler/report_capture.go`) | newest view, requested and published versions, delivery baseline, pending request, drain goroutine | `Request`, drain, `CaptureNow`, `RequestManual`, `ForRequest`, `Close` | report state, render executor, request building |
| session manager and cleanup (`session/manager.go`, `cleanup.go`) | map of live sessions, under `Manager.mu` | `GetOrCreate`, `Get`, `Peek`, `Stop`, `Delete`, TTL cleanup | sessions, session rows, file cache |
| session deletion (`handler/session_delete.go`) | none | stop, delete objects, rows, memory | manager, storage, database |
| event persistence worker (`handler/runtime_events.go`) | bounded queue, worker goroutine | submit and wait, drain, shut down | message repository |
| SSE broker (`handler/sse.go`) | clients and their bounded channels | register, broadcast, overflow, replay with deduplication | dispatcher, message log |
| delegated runs (`agent/worker.go`) | child run rows | start, append events, settle | parent run, run rows |
| tool batch (`agent/parallel_tools.go`, `tools/admission.go`) | futures, budget, confirmation receipts, failure streaks | plan, admit, start ahead, collect in order | engine |
| conversation and log (`agent/history_rebuild.go`, `compaction.go`, `llm.go`) | history, omission count, digest; the session's events | append, compact, repair, checkpoint, rebuild, translate to a provider | engine, log, providers |
| goals and working memory (`agent/memory.go`) | goal tree, entries | add, complete, save, restore, finalize gate | delegated runs, log |
| report (`tools/report_*.go`, `handler/runtime_events.go`) | blocks, charts, layout, ledger, edit scope, snapshots | upsert, move, remove, chart, layout, finalize, deliver, roll back, load | engine, hooks, file service |
| data sources and files (`service/source_*.go`, `file_service.go`, `handler/data_source.go`, `upload.go`) | source, snapshot, profile, binding, file and report rows; stored objects; analysis tables | upload, import, bind, remove, delete, create, edit, test, confirm, save a report | database, object store, analysis database, upload lock |

`PROJECT.json` lists the remaining parts (prompt assembly, report HTML, the
connectors' SQL, authentication, client, executors) with the reason each is
left out.

### What is hard, and what makes each part correct

* **One engine, many requests.** A session has one `Engine` and no lock around
  a whole run; the slot alone keeps runs apart. Correct: at most one request
  prepares, resumes or executes a run; an answer is consumed once; only the
  execution at work releases the slot; a stopped run frees it.
* **Memory and log.** The slot and the history are in memory, the row and the
  events in a database, and every write may fail. Correct: nothing executes
  that the log does not know; a row does not stay `running`; a rehydrated
  session has the history and the waiting mark the log implies; only stored
  events are delivered, and no submitter waits for a worker that has left.
* **Late steps.** Deferred cleanup, status writes and hydrations of one request
  happen after the slot was handed to the next. Correct: they touch only what is
  theirs.
* **Detached work.** Jobs and captures outlive the turn that started them.
  Correct: jobs are serialized, keep their context, are retained while they run
  and are announced exactly once; captures are single-flight, latest-wins,
  never go back, end with the session, and a partial view leaves out only what
  the model was sent.
* **Objects that outlive their entry.** Handlers hold a session object while
  cleanup or a deletion takes it out of the cache. Correct: what the cache
  offers can be used; what left it refuses work; the row that a retry needs
  outlives the files.
* **Batches of tool calls.** Safe calls start ahead of their turn, calls are
  cancelled, time out and are retried, and an approval is checked when the batch
  is planned and spent when a call commits. Correct: an exclusive call is alone,
  an action runs once and is waited for, an approval is worth one commit, every
  call has one result in the next request.
* **Derived conversations.** Compaction, repair, interruption and rebuild change
  a conversation that four provider formats must accept. Correct: calls and
  results stay paired, the opening task survives, a loss is told.
* **Multi-store writes.** Imports, binds, removals, reports and deletions span
  rows, stored objects and tables. Correct: what is bound can be used, nothing
  becomes unreachable, a retry does not repeat a confirmation.

## 2. Modules

| module | what it is | models |
|---|---|---|
| `RunSlot` | abstract specification: what a session promises about its slot | - |
| `RunLifecycle` | handlers, slot, engine loop, dispatcher, hydration, recovery, restart; refines `RunSlot` | `types.go`, `chat.go`, `run_backend.go`, `runtime_hooks.go`, `session_runtime.go`, `engine.go` |
| `BackgroundJobs` | the job manager and the request building that takes its notices | `jobs.go`, `compaction.go`, `engine.go` |
| `ReportView` | the view coordinator, its callers and the model that receives the slices | `report_view.go`, `report_capture.go`, `render/view.go`, `report_blocks.go` |
| `SessionManager` | cache, lookup, TTL cleanup, deletion over storage, database and memory | `manager.go`, `cleanup.go`, `session_delete.go`, `session.go`, `types.go` |
| `EventLog` | persist worker, broadcast, connections, replay | `runtime_events.go`, `sse.go`, `message_repo.go` |
| `EngineTurn` | `Engine.Run` with its tool batches, admission, receipts and retries | `engine.go`, `parallel_tools.go`, `admission.go`, `llm.go` |
| `Conversation` | pure operators: pairing repair and the boundary of a cut | `history_rebuild.go`, `engine.go` |
| `ModelWire` | pure operators: requests and replies of the four providers | `llm.go`, `llm_google.go` |
| `HistoryRebuild` | live conversation, its log, compaction, the fold; uses `ModelWire` | `history_rebuild.go`, `compaction.go`, `engine.go` |
| `Delegation` | child runs, their registry, goals, working memory, restore; uses `Conversation` | `worker.go`, `child_agents.go`, `memory.go`, `runtime_events.go`, `session_runtime.go` |
| `ReportEdit` | report state, edit scope, finalize, delivery, snapshots | `report_*.go`, `runtime_events.go`, `runtime_hooks.go`, `types.go` |
| `Sources` | data sources, files, imports, binds, confirmations, saved reports | `source_service.go`, `source_connector.go`, `file_service.go`, `data_source.go`, `upload.go`, `ingester.go`, `schema.go` |
| `MC_...` | symmetry sets and constant values for TLC | - |
| `...Proofs` | TLAPS proofs about `RunLifecycle`, `EventLog`, `EngineTurn`, `Sources`, `ReportEdit`, `Delegation` and `HistoryRebuild`, each in a module of its own, and in `SessionProofs` about the three parts a session owns: `ReportView`, `BackgroundJobs` and `SessionManager` | - |

Definitions named `...Mutant` stand before the definition they vary. They are
plausible slips (a dropped guard, a missing reset) and are used only to see that
the properties notice them; no action refers to them. `PROJECT.json` maps every
definition to the lines it stands for.

### RunLifecycle

One session. A *request* is one HTTP request and, if it dispatches, the
goroutine it leaves behind; a run bears the name of the request that started it.

| variable | code |
|---|---|
| `live` | the session is in `Manager.sessions` |
| `activeRun`, `activeStatus`, `activeCancel` | `Session.ActiveRun`; `activeCancel` names the request whose context its `Cancel` cancels |
| `pc`, `target`, `seen`, `fresh`, `snap` | a handler's position and locals: its run, the row it read, whether its `GetOrCreate` created the session, the log it read for hydration |
| `eng`, `verdict`, `iters` | position of the dispatched goroutine, the status its concluding event stands for, its iterations |
| `ctx` | the request's run context was cancelled |
| `hist`, `call`, `suspended` | user turns in `Engine.history`, its newest tool call and how many results it has, `pendingSuspensionID` |
| `db`, `logTurns`, `logAsk` | run rows; user events in the log; the question open in the log |
| `rec`, `stale` | `recoverStaleSessionRuns`: position and its list |
| `faults`, `restarts`, `recoveries` | budgets of the model |

Each slot method is one critical section and one operator; each handler is cut
where another goroutine can see its effects: after every database write, every
critical section and before the dispatch. `Fault` may strike any write. A batch
of tool calls is one call here; `EngineTurn` takes it apart. `backend` chooses
between the in-process backend and one the binary lacks, whose dispatch fails.

### BackgroundJobs

`status`, `order`, `unannounced` are the manager's map, eviction order and
notice queue; `jpc` and `execMu` are the goroutines and the lock; `toolCtx` is the
context installed on the shared tool object, `jobCtx` the one a job was submitted
with and `usedCtx` the one its tool worked with; `bundle` and `sent` follow the
notices into a request. `Compact` is the second build of an over-budget request.

### ReportView

A block's content is the stamp of the edit that wrote it, so a picture is the
stamp of each block it shows, and a hash is that stamp too. `Reading` is what a
caller reads of the report; the engine is the only editor, so its own two reads
agree, and the HTTP handler's need not. `LoadReportSnapshot` happens between the
engine's steps, or at any time while no block is shown, when the capture handler
hydrates. `shown` and `shownHash` are what the model was last sent of each block.

### SessionManager

One session ID. `cache` is `Manager.sessions[id]`, `mgr` the holder of
`Manager.mu` where it is kept across a wait (closing a view); `made`, `detached`,
`closed`, `slot`, `exec`, `seen`, `capture` describe each session object, because
handlers keep the object they were given (`held`) after a newer one replaced it.
`row`, `files` are the database and the object store. `GetOrCreate` is cut at the
row lookup, the installation, the insertion and its undoing; a deletion at plan,
stop, wait, storage, commit and memory. The cleanup goroutine detaches a victim,
closes its view, deletes as a request would, and puts the object back when that
failed (`CleanupEnd`). `Expire` is the clock. The run of an object is reduced to
what cleanup and deletion look at.

### EventLog

An event is its creation stamp; `db` is read in the order of stamps. A producer
submits under the queue lock, waits for `answer`, then broadcasts (`targets`).
`Shutdown` closes the queue and the worker drains it; later submissions take the
synchronous path. A connection registers first and reads the log afterwards, so
an event can come both ways; `got` is what it wrote, `seen` and `cursor` are what
the browser has. The read of a long log is a window of its oldest and newest
events (`missing` is what lies outside). An event whose insert fails is followed in
the code by a notice of the failure that is broadcast without being stored and
without an id; such notices are not events here, and no property speaks of them.

### EngineTurn

`phase` is the position of `Engine.Run`; `plan`, `index` and `exec` are a planned
batch, the call the loop is at and each call's state; `open` counts the results
recorded per call of the last turn, which is all that pairing depends on.
Tools are grouped by what the engine asks of them: observing (abandoned on
timeout), parallel-safe, replayable (an MCP tool that changes something and declares
itself idempotent: exclusive, waited for, and retried), acting, gated by a receipt,
asking, delivering. `spent` remembers every commit with its receipt. The model
chooses any batch. Phase `final` is the closing request that
`finalResponseAfterFinalize` sends from inside the batch loop, before the calls behind
the delivery have a result.

### Conversation, ModelWire, HistoryRebuild

`Conversation` has `RepairToolPairing`, `AdjustCompactionBoundary` and the
reference predicate `Paired`. `ModelWire` builds requests for the Responses, Chat
Completions, Anthropic and Gemini formats from one bundle and reads their
replies; `Accepted` is what the four services require, and that all four requests
say the same. `HistoryRebuild` runs the engine's updates of `history` beside the
events it logs; `Folded` is the state of `historyFolder` after each event, `Fold`
its result, and the invariants compare it with the live history. An answer may be
white space only, which the engine records and the clients send in different ways.
Behind a delivery the run is in phase `closing` until the closing request is answered
(`ClosingText`) or fails (`ClosingFails`), and `batch` still holds the calls behind the
delivery; the corrective turn of a second attempt is in the request and not in the history. `regular` remembers whether something happened
after which the code does not promise an item-by-item rebuild.

### Delegation

`rows` and `reports` are the child runs' rows and what `task_delegate` told the
parent; `agents` and `order` are the registry; `call` is the delegation in
progress with its conversation; `log` holds the newest goal and memory snapshots
of the root runs. `Stop` is a restart or an eviction, `Hydrate` the rebuild.
`CollectActiveBranchLines` follows branches with a recursive function.

### ReportEdit

Text is a sequence of tokens (plain, chart reference, markup), so that selection
offsets, which count what the user sees, differ from positions. A tool call is
two steps, its change and what becomes of its outcome (`EmitReportPreview`,
`DeliverReport`, `DeliverFails`, `DropOutcome`), because a cancel or a failed
write can come between. `base` remembers the report when the scope was set.
`CaptureReportView` is the capture handler's hydration of a session that shows no
block: it may come in the middle of a run, whose edit scope it ends.
`Starts` are the reports an earlier run may have left; one that reads finalized was
delivered by that run, so its row is there. `StartsAreReports` assumes of them what
`ReportInvariant` proves of every report the model itself leaves.

### Sources

Every request is a process and every call of a repository, the object store or
the analysis database is a step that may fail. A snapshot bears the identity of
the request that made it, and its table that of the snapshot. `lock` is the
session's upload lock; `torn` remembers which objects a removal has begun to take
apart, for which `BoundIsUsable` promises nothing. A removal that completes takes its
object out of `torn`, unless another request about the object is still under way, so
that what is bound later is judged again. A removal that fails among the profiles
leaves any part of them deleted (`Unprofiled`). An edit of a data source is two
writes, the configuration and the name, and a name-only edit the second alone.

## 3. Model-checking runs

`tlc -workers 2 -config <cfg> <module>` in this directory.

| run | bounds | checks |
|---|---|---|
| `crash` | 2 requests, 2 failing writes, 1 restart, 1 recovery | `SingleExecution`, `DurableBeforeExecution`, `OnlyOwnerReleases`, `ImplementsRunSlot` (refinement) |
| `settles` | 2 requests, fair, no faults, 1 recovery | `RunSettles` |
| `coldanswer` | 2 requests, 1 restart | `ColdAnswerRestored`: violated |
| `jobs` | 3 jobs on one tool, retention 1, 1 run, fair | `OneExecution`, `AnnouncedAtMostOnce`, `JobSettles` |
| `view` | 1 block, 2 drain goroutines, 2 edits, 1 finalize, fair | `CloseIsFinal`, `ViewNeverGoesBack`, `ViewCatchesUp` |
| `sessions` | 2 handlers, 1 DELETE, the cleanup, 2 objects, 1 stored file, 1 failing call | `CachedIsUsable`, `NoStrayObject`, `StoppedRunOver`, `RowOutlivesFiles` |
| `events` | 2 producers, 3 events, queue and buffer of 1, window 1+1, 2 connections, 1 fault, fair | `DeliveredIsPersisted`, `NoStrandedJob`, `ConnectionComplete`, `Answered` |
| `turn` | 7 tools (one of each kind), batches of 2, 2 runs, 2 iterations, 1 receipt, 1 authorization, 2 attempts, fair | `RequestIsPaired`, `ExclusiveIsAlone`, `ActionsNeverReplayed`, `ActionsNeverAbandoned`, `ApprovalWorthOneCommit`, `RunEnds` |
| `sources` | 3 requests of 12 kinds, 2 at a time, 2 failing calls | `BoundIsUsable`, `TableHasRow`, `ReceiptOnce`, `BoundReportDownloadable` |
| `history` | 7 contents, batches of 2, window 2, 1 compaction, 1 rebuild (2.7 million states, the largest run) | `RequestAccepted`, `OpeningTaskSurvives`, `RebuildIsExact`, `LossIsTold` |
| `delegation` | 2 delegations, 2 iterations, batches of 2, 2 goals, 1 memory entry of 2 keys, 1 fault, 1 stop | `RowMatchesReport`, `ChildConversationPaired`, `FinalizeGate`, `RestoreAccepted` |
| `report` | 2 blocks, 2 charts, 4 drafts, 5 edit contexts, 3 earlier reports (none, a draft, a delivered one), 2 runs, 2 edits, 2 faults | `ScopeHolds`, `FinalizedIsSound`, `FinalizedIsDelivered` |

Other definitions hold and are kept for whoever changes the code; adding one to
the cfg of its module checks it: the type invariants, `SlotInv`,
`RunningRetained`, `RetentionPolicy`, `SingleFlight`, `BaselineWasSent`,
`VersionOrder`, `SettledOnce`, `NoDuplicate`, `SupersededGone`,
`RegistryConsistent`. `LookupAnswered` of `SessionManager` holds under
`ManagerFairSpec` without `SYMMETRY` and with `Handler = {q1}`.

**Why the bounds are enough to be interesting.** Two requests suffice for every
interleaving of an owner and an intruder. An answer sent twice takes three: with
`Request = {q1, q2, q3}` and no faults `RunLifecycle_crash.cfg` passes in under a
minute, and the theorems below hold for any number. Two faults let a write and
its compensation both fail. One restart separates "before" from "after"; a second
one starts from a state the first can reach. Three jobs over a retention of one
make eviction meet running, finished and finishing jobs. Two drain goroutines are
one exiting and its successor; two edits are the captured version and one that
overtakes it. Two session objects are the one being deleted and its successor. A
queue and a buffer of one are full as soon as a second event arrives, and three
events over a window of two leave one outside. Two calls are a call and the
one it overtakes, or two that share a receipt; two runs show what survives a run.
That a receipt pays only for what was approved needs two authorizations: with
`Auths = {"a1", "a2"}` and `Spec` in place of `FairSpec` the safety properties of `turn`
pass too, and `ReceiptPaysOnce` holds for any.
Three requests on the sources are a snapshot, the one that supersedes it and a
removal or confirmation between. Seven contents are enough for a question, a
batch, a compaction and the request after it. Two edits under one scope are what
it takes for a scope to drift.

Deadlock is not checked: clients owe nothing, so a session may rest for ever.

**Fairness.** `FairSpec` of `RunLifecycle` is weak fairness of each handler, of
each execution and of the recovery: they are goroutines of the process, and every
step they wait for (a database call, a model call, a tool) has a timeout or
ends in an error. Clients, faults and restarts are not fair. `MaxIterations`
stands for the deployment's `MaxMainLoopIterations`; its default, zero, means no
limit, and then a model that never stops calling tools never settles its run, so
`RunSettles` and `RunEnds` hold for deployments that set it. `EngineTurn` assumes
that the loop and each call it started are scheduled: observing calls have a
budget, the others their own timeouts, and model calls a bounded number of
attempts. `EventLog` assumes that the worker and a producer that has submitted
are scheduled, and nothing of browsers. `BackgroundJobs` assumes that each
job goroutine is scheduled and that tools end (they carry their own timeouts;
`context.WithoutCancel` gives a job none). `ReportView` assumes that builds end
(`finalizeCaptureTimeout`, the capture timeout) and that goroutines are
scheduled; edits, deliveries and close are never forced. `SessionManager` adds
strong fairness for those who contend for `Manager.mu`, which Go's mutex grants
in turn once a waiter has waited for a millisecond.

### Where the code and its documentation disagree

The run `coldanswer` checks one sentence of the repository and finds a behaviour
that contradicts it: an answer that is the first contact after a restart calls
`GetOrCreate` before it asks whether to hydrate; the session is then live and
nothing is restored. The definitions below are violated too. To see the
behaviour, replace the cfg's properties by the definition (with the change in
the third column); `PROJECT.json` quotes the sentence each one states.

| definition | module | cfg, with | what happens |
|---|---|---|---|
| `HistoryDerivedFromLog` | `RunLifecycle` | `crash` | a hydration applies a log it read before another run began, over that run's history |
| `OneResultPerCall` | `RunLifecycle` | `crash`, `MaxIterations = 2` | the deferred repair of a finished run answers a call of its successor |
| `StoppedRunFreesSlot` (temporal) | `RunLifecycle` | `settles` | a cancelled waiting run stays `cancelling`: no execution is left to release the slot |
| `NoticeNotLost` | `BackgroundJobs` | `jobs` | a request rebuilt after compaction has lost the notices its first build took |
| `JobKeepsItsContext` | `BackgroundJobs` | `jobs`, `MaxRuns = 2` | a run that starts replaces the context a job has just installed |
| `PartialViewHonest` | `ReportView` | `view`, two blocks | a manual capture pairs old pixels with a new hash |
| `NoRunOnDetached` (action) | `SessionManager` | `sessions` | an answer resumes a run on a detached object |
| `DeletionComplete` | `SessionManager` | `sessions` | an object stored after the plan survives the deletion |
| `ReplayComplete` | `EventLog` | `events`, `WindowHead = 3` | an event stored late with an early stamp sorts before the cursor and is not replayed |
| `BlockedForThisRun` | `EngineTurn` | `turn` | a call is refused "in this run" for failures of an earlier one |
| `ClosingRequestIsPaired` | `EngineTurn` | `turn` | calls may stand behind `report_finalize` in a batch; when it succeeds the closing request goes out while they have no result, because the history is repaired on the exit paths of `Run` only |
| `ContinuationAlternates` | `HistoryRebuild` | `history` | runtime context, user turns and results are Gemini contents of the user role, and nothing merges them |
| `BindingResolves` | `Sources` | `sources`, `MaxFaults = 0` | a removal that overlaps a bind leaves a binding without a snapshot |
| `RebuiltPaired` | `HistoryRebuild` | `history` | a question with invalid arguments is logged as a result without a call |
| `RebuildKeepsLive` | `HistoryRebuild` | `history` | a checkpoint counts repaired results the fold does not have, which then drops live items |
| `MemorySurvives` | `Delegation` | `delegation`, `MaxFaults = 0` | what a child saves to working memory is not in the log the session is rebuilt from |
| `FinalizedMeansDelivered` | `ReportEdit` | `report` | a finalize whose outcome is dropped leaves a finalized, undelivered report |
| `SnapshotRestorable` | `ReportEdit` | `report` | a text block that names a chart is stored and cannot be loaded |
| `SelectionProtected` | `ReportEdit` | `report` | prefix and suffix of a selection may overlap in the new text |
| `ScopeKept` (action) | `ReportEdit` | `report` | the answer to a question ends the edit scope of its run |

Five more are reachable that no sentence of the repository rules out:
`RecoverySparesWork` (action; recovery marks a run that has just started),
`CancelReachesRun` (a cancel during a resume is lost) and `RowAgreesWithSlot`
(with `MaxRestarts = 0`; a late waiting status overwrites a final one) of
`RunLifecycle` under `crash`; `TestedIsCurrent` (a connection test outlives the
configuration it tested) and `CreatedHasConfig` (a live source without its
configuration) of `Sources` under `sources`. Where a definition that holds has to
except such a case it says so: `BoundIsUsable` excepts objects under removal,
`FinalizedIsDelivered` a dropped outcome, `RequestIsPaired` the calls behind a delivery
in the closing request, `RequestAccepted` a log with a result that no call precedes and
that same closing request (and, for the parts of Gemini's contents, a conversation with
a white-space answer, which `chatGoogle` sends as a content without parts),
`NoStrayObject` an object its maker took out.

## 4. Proofs

`tlapm RunLifecycleProofs.tla` proves, for every set of requests and every
bound on faults, restarts, recoveries and iterations:

| theorem | statement |
|---|---|
| `InvHolds` | `Spec => []Inv`, with `Inv == TypeOK /\ SlotInv` |
| `TypeCorrect` | `Spec => []TypeOK` |
| `MutualExclusion` | `Spec => []SingleExecution` |
| `DurableFirst` | `Spec => []DurableBeforeExecution` |
| `OwnerReleases` | `Spec => OnlyOwnerReleases` |
| `SlotRefinement` | `Spec => ImplementsRunSlot` |

The assumptions are those `RunLifecycle` names on its constants: `None` is no
request, the bounds are naturals.

`SingleExecution` is not inductive: a state in which nobody works but the slot
says `waiting` for a run that is also executing would let an answer start a second
execution. `SlotInv` adds what excludes it:

* `SlotAgreesWithOwner`: whoever works on a run works on the one in the slot, and
  the slot is then `running` or `cancelling`, never waiting or free, so neither
  `StartRun` nor `ConsumeWaitingRun` succeeds;
* `PhaseOrder`: an execution exists only once its handler has ended, and what
  each label may assume of the request's locals; in particular an answering
  request never hydrates, because it sees the session its own `GetOrCreate` made;
* `FreshNames`: a request that has not started a run finds its name nowhere, so
  `StartRun` cannot collide with a run of the past;
* `RecordedBeforeUse`: what is parked, resumed or executed is on record; this is
  the inductive form of `DurableBeforeExecution`.

For each of the six parts of `Next` (client, handler, engine, fault, recovery,
restart) there are four lemmas: it keeps types (`...Typed`), keeps `SlotInv`
(`...KeepsSlotInv`), obeys `OwnerStep` (`...Owner`) and is a step of `RunSlot` or a
stutter (`...Implements`); the theorems combine them.

`tlapm SessionProofs.tla` proves the results about the three parts a session owns;
their modules have no name in common, so one module extends them all (`JobsSpec` and
`ManagerSpec` are the specifications of the last two). About the report view, for any
blocks, any number of drain goroutines, edits and synchronous captures:

| theorem | statement |
|---|---|
| `ViewInvHolds` | `Spec => []ViewInv` |
| `TypeCorrect` | `Spec => []TypeOK` |
| `OneCapture` | `Spec => []SingleFlight` |
| `ClosedForGood` | `Spec => []CloseIsFinal` |
| `HonestBaseline` | `Spec => []BaselineWasSent` |
| `NumbersFollowVersions` | `Spec => []VersionOrder` |
| `ViewAdvances` | `Spec => ViewNeverGoesBack` |

`ViewInv` is the conjunction of the invariants above with `Held` (a goroutine
holds a request exactly while it builds it; a closed coordinator has nothing
queued). `ViewNeverGoesBack` is not a consequence of the comparison in `drain` and
`CaptureNow` alone: they compare publish numbers, and the property is about report
versions. `VersionOrder` is the missing link: the numbers are drawn in the order
of the versions, for the queued request, the ones being captured and the
published view. `SingleFlight` and `Held` tell which requests these are. The
assumptions are `ReportViewAssumption` (the bounds are naturals, `None` is no
integer) and `NoneAssumption` (`None` is neither a request nor a view).

About background jobs, for any jobs, tools, number of runs and retention bound:

| theorem | statement |
|---|---|
| `NoticeInvHolds` | `JobsSpec => []NoticeInv` |
| `JobsSerialized` | `JobsSpec => []OneExecution` |
| `NoticedAtMostOnce` | `JobsSpec => []AnnouncedAtMostOnce` |

`AnnouncedAtMostOnce` needs to know that a job which finishes has not been
announced before. `NoticeInv` adds `Unheard` (a goroutine that has not ended has
left no trace in the queue, the request or what was sent) and `FreshJobs` (an ID
that was never submitted has no goroutine, so `Submit` starts a new one). The
argument counts the copies of a notice with the library's facts on the cardinality
of finite sets. The assumption is `BackgroundJobsAssumption`.

About the session manager, for any handlers, DELETE requests, session objects, files
and number of faults:

| theorem | statement |
|---|---|
| `ManagerInvariant` | `ManagerSpec => []ManagerInv` |
| `ManagerTypeCorrect` | `ManagerSpec => []ManagerTypeOK` |
| `CacheServesUsableSessions` | `ManagerSpec => []CachedIsUsable` |
| `NoSessionLostAlive` | `ManagerSpec => []NoStrayObject` |
| `DeletionAwaitsItsRun` | `ManagerSpec => []StoppedRunOver` |
| `RowGoesLast` | `ManagerSpec => []RowOutlivesFiles` |

`CachedIsUsable` alone does not survive a cleanup: the object is detached before it
leaves the cache. `LockHeld` says who holds `Manager.mu` meanwhile and that the
cached object is then the detached one; `ObjectsKnown` that cache, handlers and
cleanup only hold objects that were made, so a new object is never a detached one.
`StopHonest` ties the run a deletion waits for to the object it stopped, and
`PlanHonest` the plan to what was ever stored, because files may still arrive while
a deletion works. The assumption is `SessionManagerAssumption`.

`tlapm EventLogProofs.tla` proves, for any producers, clients, capacities and
window sizes:

| theorem | statement |
|---|---|
| `EventLogInvariant` | `Spec => [](PersistInv /\ DeliverInv)` |
| `EventLogTypeCorrect` | `Spec => []TypeOK` |
| `WorkerStrandsNobody` | `Spec => []NoStrandedJob` |
| `AnswersAreTrue` | `Spec => []AnswersTrue` |
| `NothingDeliveredUnstored` | `Spec => []DeliveredIsPersisted` |
| `ReplayedConnectionHasNoHole` | `Spec => []ConnectionComplete` |
| `NoEventTwice` | `Spec => []NoDuplicate` |

The persistence half says who is owed what: an event is one submitter's alone, what
the worker has or will take is waited for and not answered, who waits without an
answer is served (`JobsWaited`), answers are true, and a submitter that holds the
read lock keeps the queue open (`ShutdownOrderly`). The delivery half adds that an
event that is still to be sent is in no buffer yet and was written only by the
replay (`ComesOnce`), and that a replayed connection is complete from the end of its
replay on (`NoHole`). Both rest on lemmas about the read of the log: `InStampOrder`
lists each stored event once in ascending order, `Window` returns a part of it and
names the rest, `After` is what lies behind a cursor. `InStampOrder` is stated by
what it returns, not with `SortSeq`, for this reason. `NoDuplicate` and
`AnswersTrue` are proved although no run lists them.

`tlapm EngineTurnProofs.tla` proves, for any tools of each kind, batch size,
parallelism, receipts, attempts and iterations:

| theorem | statement |
|---|---|
| `TurnInvariant` | `Spec => []TurnInv` |
| `TurnTypeCorrect` | `Spec => []TypeOK` |
| `RequestsPairedButBehindDelivery` | `Spec => []RequestIsPaired` |
| `ExclusiveCallIsAlone` | `Spec => []ExclusiveIsAlone` |
| `NoActionReplayed` | `Spec => []ActionsNeverReplayed` |
| `ReceiptPaysOnce` | `Spec => []ApprovalWorthOneCommit` |
| `RunSettlesOnce` | `Spec => []SettledOnce` |
| `NoActionAbandoned` | `Spec => ActionsNeverAbandoned` |

`ExclusiveIsAlone` follows from `BatchOrder`: behind the loop nothing is under way,
and ahead of it only calls that are reached from it through parallel-safe ones.
`RequestIsPaired` follows from `BatchAnswered`, which counts results up to the call
the loop is at; in the closing request only what stands behind the delivery is without
a result, which is as much as the code provides (`ClosingRequestIsPaired` fails). `ApprovalWorthOneCommit` needs `ReceiptsSpent`: a receipt that paid is
marked used before another commit looks at it. `ActionsNeverReplayed` needs the guard
of the back-off, not only the count (`RetriesIdempotent`). The actions have many
branches, so each is first shown to be a step of one of a few kinds (the loop
leaves, the current call is answered, one execution moves), and each part of the
invariant is argued once per kind. The assumption is `TurnAssumption`.

`tlapm SourcesProofs.tla` proves, for any set of concurrent requests and any number
of requests and faults:

| theorem | statement |
|---|---|
| `SourcesInvariant` | `Spec => []SourcesInv` |
| `SourcesTypeCorrect` | `Spec => []TypeOK` |
| `BoundSourceIsUsable` | `Spec => []BoundIsUsable` |
| `NoTableWithoutRow` | `Spec => []TableHasRow` |
| `ReceiptConfirmsOnce` | `Spec => []ReceiptOnce` |
| `BoundReportHasFile` | `Spec => []BoundReportDownloadable` |

What `BoundIsUsable` says at the moment of binding has been written in several
earlier steps, so `StageInv` states for each stage of an import or bind what is there
already; `IdsDistinct` and `UnbornClean` state that nobody else can have touched it;
`RemovalInv` states what an overlapping removal has selected and, once past its
tables, that no request can give those rows a table again. The object a removal works
on is in `torn` until its last step, and leaves it only with its binding gone and nobody
else at it. The last part is why
`TableHasRow` holds: a removal takes the upload lock for each table it drops, so an
import is not between its row and its table then. `TypeOK` includes `LockHeld`, who
holds that lock at which label. Every action is a step of one of twenty kinds, named
after what it changes of the snapshots. The assumption is `ConstantsAssumption`.

`tlapm ReportEditProofs.tla` proves, for any blocks, charts, drafts, contexts and
earlier reports, and any number of runs, edits and faults:

| theorem | statement |
|---|---|
| `ReportInvariant` | `Spec => []ReportInv` |
| `ReportTypeCorrect` | `Spec => []TypeOK` |
| `EditStaysInScope` | `Spec => []ScopeHolds` |
| `FinalizedReportIsSound` | `Spec => []FinalizedIsSound` |
| `FinalizedReportIsDelivered` | `Spec => []FinalizedIsDelivered` |

A load or a restart may bring back any report that is kept, so the invariant speaks
of all of them (`ReportsGood`): blocks have names of their own, and what reads
finalized is sound. `FinalizedIsDelivered` could be undone by a later delivery that
overwrites the row; `RunShape` excludes it, because a run that is not over has no
row. For `ScopeHolds` the scope must be the one captured from the base
(`ScopeCaptured`: no call refreshes it) and the target of a selection must still be
there (`TargetStays`). That an upsert leaves the other blocks in order is a fact
about sequences: taking out the block that was put in gives back the sequence
(`InsertFacts`), which needs the names to be distinct. A hydration in the middle of a run
(`CaptureReportView`) brings back the last stored report and leaves no scope. The check for duplicate
names in `LoadReportSnapshot` therefore never refuses a stored snapshot. The
assumptions are `BoundsAreNaturals`, `NamesAreStrings`, `ArgumentsTyped` (what the
tools' arguments are) and `StartsAreReports`.

`tlapm DelegationProofs.tla` proves, for any memory keys, registry size, batch size
and number of delegations, goals, iterations, faults and stops:

| theorem | statement |
|---|---|
| `DelegationInvariant` | `Spec => []DelegationInv` |
| `RowsMatchReports` | `Spec => []RowMatchesReport` |
| `ChildrenStayPaired` | `Spec => []ChildConversationPaired` |
| `RegistryStaysConsistent` | `Spec => []RegistryConsistent` |
| `FinalizeGateIsExact` | `Spec => []FinalizeGate` |
| `RestoreIsAccepted` | `Spec => []RestoreAccepted` |

`RowMatchesReport` needs little beside it: no delegation in progress, no child run
(`IdleHasNoRun`). `ChildConversationPaired` speaks of the moments a conversation is
sent or kept; `ConversationsPaired` adds what holds while a batch is answered, that
only the calls still in `batch` are without a result (`Answering`). It rests on
lemmas about the operators: an instruction put behind a paired conversation leaves it
paired, and so does the cut of `compactWorkerBundle`, because the boundary that
`AdjustCompactionBoundary` picks never falls between a call and its results
(`BoundaryFacts`, `CompactedPaired`). `FinalizeGate` and `RestoreAccepted` need the shape of the goal tree
(`GoodTree`: every goal stands behind its parent, so the walk ends and `ReplaceAll`
finds neither a missing parent nor a cycle) and of the memory (`GoodMemory`), for the live state and for the snapshots in the log
(`StateRestorable`). `RegistryConsistent` needs `IdsKnown`, so that a new child never
has the id of a kept one; it is proved although no run lists it. The assumption is
`DelegationAssumption`.

`tlapm HistoryRebuildProofs.tla` proves, for any batch size, recent window and number
of contents, compactions and hydrations:

| theorem | statement |
|---|---|
| `TurnsInvariant` | `Spec => []TurnsInv` |
| `OpeningTaskIsKept` | `Spec => []OpeningTaskSurvives` |
| `NoTurnLostInSilence` | `Spec => []LossIsTold` |
| `FoldMirrorsEngine` | `Spec => []ExactInv` |
| `RegularRebuildIsExact` | `Spec => []RebuildIsExact` |
| `RegularRequestsPaired` | `Spec => [](regular /\ phase \in {"sent", "closing"} => Paired(history))` |

The three properties compare what a fold over the whole log returns with the live
conversation, at rest. The invariants state the relation at every step of a run.
`TurnsInv` is about any session: the fold starts with the opening task (`Opened`),
says that turns are gone or holds every one of them (`Told`), and ends in the question
while the run waits (`Asking`). A turn counts as held only where the repair at the
end of a rebuild cannot drop it (`Anchored`): it is a user item, or an answer directly
behind its question. `ExactInv` is about regular sessions and says phase by phase how
far the fold is behind the engine (`Mirrored`): the last message may still be pending,
a call is logged with its event while the engine has it in its history before it
runs, a question is open on both sides. `Settled` says that the history between two
batches has each result directly behind its call, so the repair changes nothing and
the checkpoint cuts where the engine cut. `AnswerShape` gives what the engine needs of
`ModelWire`: every call a client hands over has an identifier, whatever the reply had.
The assumption is `HistoryAssumption`.

Both modules argue about recursive definitions (`Folded`, the branch walk) and about
`FlattenSeq` without the library's induction theorems, whose operator parameters the
provers cannot instantiate: they take the least index at which a claim fails
(`LeastNatural`, `Induction`, which is stated about a set) and show that it cannot be
the least.

Each of these inductive invariants was first checked with TLC on the instance of its
module's run.

**Only model-checked.** The liveness properties (`RunSettles`, `JobSettles`,
`ViewCatchesUp`, `Answered`, `RunEnds`), because the prover has neither fairness nor
`ENABLED`. `RunningRetained` and `RetentionPolicy`, which are about the sequence
`SelectSeq` leaves: the library's facts on it take an operator as a parameter, which
the provers cannot instantiate. `RequestAccepted` of `HistoryRebuild`: the four wire
formats are built with `SelectSeq` and `FoldLeft`, which are opaque to the provers for
the same reason. Of what it says, `RegularRequestsPaired` proves the pairing in regular
sessions; the pairing of requests after irregular ones and the formats themselves
stay with TLC.

## 5. Not modelled

Inside the modelled parts: panics of the engine; the session title and summary;
two recoveries at once; in `RunLifecycle`, eviction of a session while a request
holds it, which `SessionManager` has; the slice cache of the renderer and the
images themselves; streaming, tool schemas and usage of the model clients; the
parsing of uploaded files, type inference and the SQL of the connectors; the
spilling of long tool results. In `HistoryRebuild`, the bounded read of a long log
(the first 1500 and the newest 3500 events, with what lies between added to the
omission count) and the answer to a run that was waiting when the session was rebuilt:
`HydrateSession` folds the whole log, and `LossIsTold` is about that fold. Whether Gemini
wants the results of one batch in one content is not stated either way. In `EventLog`,
the unstored notices of failed inserts. An observing call that was abandoned on a
timeout counts as over in `EngineTurn`, although its goroutine may still run. Of the
capture handler's hydration, the time between reading the events and loading what they
hold, the replacement of the engine's history and working memory under a live run, and
a load between the two reads of a trigger. In `Sources`, the names of data sources, and
the single deletes of a removal's profiles as steps of their own: they are one step
that may stop after any of them. The branch of `SubmitUserInputHandler` that
hydrates is in the model (`SubmitPeek`), and `PhaseOrder` proves that it is not
reached.

Parts left out altogether, with the reason in `PROJECT.json`: prompt assembly and
report HTML (text), the analysis tools and executors (external processes), object
storage and repositories (single calls, steps of their callers here), metadata
migrations, start-up and observation, the MCP client, the web client, scripts.
Authentication too: the set of revoked tokens is loaded before the first request and
each later access is one short critical section.

## 6. Plan

Done: run lifecycle with its refinement, background jobs, report view, session
manager and deletion, event log, engine turn, conversation and provider formats,
delegation, report editing, data sources; theorems about all of them. Next:

1. Action properties from the invariants above: a row that was delivered is never
   replaced, a stored event is never taken back, a detached object never returns
   except by the cleanup that detached it.
2. The pairing of every request, regular or not, from an invariant in the manner of
   `ConversationsPaired`.
3. `RunningRetained`, if the eviction order is restated without `SelectSeq`.
4. Composition: `SessionManager` with `RunSlot`, so that a slot's promise is stated
   over successive session objects.
