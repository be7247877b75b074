----------------------------- MODULE RunLifecycle -----------------------------
(***************************************************************************)
(* The life of the analysis runs of ONE session: the in-memory run slot    *)
(* (Session.ActiveRun), the HTTP handlers that start, answer, cancel and    *)
(* list runs, the engine goroutine each dispatch spawns, the event          *)
(* dispatcher's lifecycle hooks, the run rows and event log that survive a  *)
(* process restart, and the stale-run recovery that reads them.             *)
(*                                                                         *)
(* A chat or submit request is a handler goroutine with a program counter   *)
(* pc[q]; a request that dispatches an execution also owns the engine        *)
(* goroutine eng[q].  A run is named by the chat request that started it     *)
(* (StartRun draws a fresh ID), so the run IDs are the requests.  Database   *)
(* writes may fail MaxFaults times, the process may restart MaxRestarts      *)
(* times, one execution makes at most MaxIterations model calls (the         *)
(* deployment's main-loop limit).                                            *)
(***************************************************************************)
EXTENDS Naturals, FiniteSets

CONSTANTS Request,        \* the chat and submit requests clients send
          None,           \* no run, no request
          MaxFaults,      \* how many database or storage writes may fail
          MaxRestarts,    \* how many times the process may restart
          MaxRecoveries,  \* how many times a listing triggers stale-run recovery
          MaxIterations   \* AGENT main-loop limit, per execution

ASSUME RunLifecycleAssumption ==
    /\ None \notin Request
    /\ MaxFaults \in Nat
    /\ MaxRestarts \in Nat
    /\ MaxRecoveries \in Nat
    /\ MaxIterations \in Nat

VARIABLES
    backend,       \* RUN_BACKEND of this deployment; fixed
    \* ---- the session object (process memory)
    live,          \* the session is in Manager.sessions
    activeRun,     \* Session.ActiveRun.RunID, None when ActiveRun is nil
    activeStatus,  \* Session.ActiveRun.Status
    activeCancel,  \* whose context Session.ActiveRun.Cancel cancels
    \* ---- handler goroutines
    pc,            \* where the handler of each request is
    target,        \* the run a request works on
    seen,          \* submit requests whose run row read waiting_user_input
    fresh,         \* submit requests whose GetOrCreate built the session
    snap,          \* the event log as hydration read it
    \* ---- engine goroutines
    eng,           \* where the execution dispatched by each request is
    verdict,       \* the run status its last event stands for
    iters,         \* model calls made
    ctx,           \* its context is cancelled
    \* ---- the session's one Engine
    hist,          \* runs whose user turn Engine.history holds
    call,          \* the newest tool call of Engine.history and its results
    suspended,     \* Engine.pendingSuspensionID, by the run that asked
    \* ---- persisted
    db,            \* analysis_runs.status
    logTurns,      \* runs whose user message is in the event log
    logAsk,        \* the run whose logged question has no logged answer
    \* ---- stale-run recovery
    rec, stale,
    faults, restarts, recoveries

slot    == <<activeRun, activeStatus, activeCancel>>
engine  == <<hist, call, suspended>>
handler == <<pc, target, seen, fresh, snap>>
execs   == <<eng, verdict, iters>>
durable == <<db, logTurns, logAsk>>
recovery == <<rec, stale>>
budget  == <<faults, restarts, recoveries>>
vars == <<backend, live, slot, handler, execs, ctx, engine, durable, recovery,
          budget>>

Run == Request
RunOrNone == Run \cup {None}

Terminal == {"completed", "cancelled", "failed"}
NoCall == [by |-> None, kind |-> "tool", results |-> 0]
EmptySnap == [turns |-> {}, ask |-> None]

Init ==
    /\ backend \in {"inprocess", "unsupported"}
    /\ live = FALSE
    /\ activeRun = None /\ activeStatus = "none" /\ activeCancel = None
    /\ pc = [q \in Request |-> "idle"]
    /\ target = [q \in Request |-> None]
    /\ seen = {} /\ fresh = {}
    /\ snap = [q \in Request |-> EmptySnap]
    /\ eng = [q \in Request |-> "none"]
    /\ verdict = [q \in Request |-> "none"]
    /\ iters = [q \in Request |-> 0]
    /\ ctx = [q \in Request |-> FALSE]
    /\ hist = {} /\ call = NoCall /\ suspended = None
    /\ db = [r \in Run |-> "absent"]
    /\ logTurns = {} /\ logAsk = None
    /\ rec = "idle" /\ stale = {}
    /\ faults = 0 /\ restarts = 0 /\ recoveries = 0

-----------------------------------------------------------------------------
(* Persistence: a write succeeds, or one of the remaining faults strikes.   *)

Fault == faults < MaxFaults /\ faults' = faults + 1
NoFault == UNCHANGED faults

\* runRepo.UpdateStatus: unconditional, no check of the status it replaces.
UpdateStatus(r, status) ==
    \/ db' = [db EXCEPT ![r] = status] /\ NoFault
    \/ Fault /\ UNCHANGED db

-----------------------------------------------------------------------------
(* The methods of Session, each one critical section of Session.mu.         *)

StartRun(q) ==
    /\ activeRun = None
    /\ activeRun' = q /\ activeStatus' = "running" /\ activeCancel' = q

\* A FinishRun that clears whatever run holds the slot.
FinishRunAnyMutant(r) ==
    /\ activeRun' = None /\ activeStatus' = "none" /\ activeCancel' = None

FinishRun(r) ==
    IF activeRun = r
    THEN activeRun' = None /\ activeStatus' = "none" /\ activeCancel' = None
    ELSE UNCHANGED slot

\* A cancel that clears the slot itself, whoever is at work in it.
CancelRunMutant(r) ==
    IF activeRun = r /\ activeCancel # None
    THEN /\ activeRun' = None /\ activeStatus' = "none" /\ activeCancel' = None
         /\ ctx' = [ctx EXCEPT ![activeCancel] = TRUE]
    ELSE UNCHANGED <<slot, ctx>>

\* CancelRun never clears the slot: that is left to the cancelled execution.
CancelRun(r) ==
    IF activeRun = r /\ activeCancel # None
    THEN /\ activeStatus' = "cancelling"
         /\ ctx' = [ctx EXCEPT ![activeCancel] = TRUE]
         /\ UNCHANGED <<activeRun, activeCancel>>
    ELSE UNCHANGED <<slot, ctx>>

SuspendRun(r) ==
    /\ activeStatus' = IF activeRun = r THEN "waiting_user_input" ELSE activeStatus
    /\ UNCHANGED <<activeRun, activeCancel>>

\* A consume that forgets to leave the waiting state.
ConsumeWaitingRunMutant(r) ==
    /\ activeRun = r
    /\ activeStatus = "waiting_user_input"
    /\ UNCHANGED slot

ConsumeWaitingRun(r) ==
    /\ activeRun = r
    /\ activeStatus = "waiting_user_input"
    /\ activeStatus' = "running"
    /\ UNCHANGED <<activeRun, activeCancel>>

ReturnRunToWaiting(r) ==
    /\ activeStatus' = IF activeRun = r /\ activeStatus = "running"
                       THEN "waiting_user_input" ELSE activeStatus
    /\ UNCHANGED <<activeRun, activeCancel>>

RestoreWaitingRun(r) ==
    IF activeRun = None
    THEN activeRun' = r /\ activeStatus' = "waiting_user_input" /\ activeCancel' = None
    ELSE UNCHANGED slot

UpdateCancelFunc(r, q) ==
    /\ activeCancel' = IF activeRun = r THEN q ELSE activeCancel
    /\ UNCHANGED <<activeRun, activeStatus>>

-----------------------------------------------------------------------------
(* Reaching the session object.  GetOrCreate may fail before it inserts the *)
(* session (the row cannot be read) or after (last-seen cannot be written); *)
(* the insertion is not undone, so a failed request can leave it live.      *)

GetOrCreate == live' = TRUE
GetOrCreateFails == Fault /\ (live' = TRUE \/ UNCHANGED live)

Goto(q, label) == pc' = [pc EXCEPT ![q] = label]

\* The handler returns without an execution; its locals are gone.
Return(q) == Goto(q, "done") /\ target' = [target EXCEPT ![q] = None]

\* The handler returns and its dispatch goroutine is on its way.
Spawn(q) == /\ Goto(q, "done")
            /\ eng' = [eng EXCEPT ![q] = "spawned"]
            /\ UNCHANGED target

\* ChatHandler decides whether to hydrate before it calls GetOrCreate.
ChatPeek(q) ==
    /\ pc[q] = "idle"
    /\ Goto(q, IF live THEN "get_warm" ELSE "get_cold")
    /\ UNCHANGED <<backend, live, slot, target, seen, fresh, snap, execs, ctx,
                   engine, durable, recovery, budget>>

ChatGetOrCreate(q) ==
    /\ pc[q] \in {"get_warm", "get_cold"}
    /\ \/ /\ Goto(q, IF pc[q] = "get_cold" THEN "hydrate" ELSE "consume")
          /\ GetOrCreate
          /\ UNCHANGED <<target, faults>>
       \/ Return(q) /\ GetOrCreateFails
    /\ UNCHANGED <<backend, slot, seen, fresh, snap, execs, ctx, engine,
                   durable, recovery, restarts, recoveries>>

\* SubmitUserInputHandler reads the run row, calls GetOrCreate, and only then
\* asks whether the session has to be hydrated.
SubmitLookup(q, r) ==
    /\ pc[q] = "idle"
    /\ db[r] # "absent"
    /\ target' = [target EXCEPT ![q] = r]
    /\ seen' = IF db[r] = "waiting_user_input" THEN seen \cup {q} ELSE seen
    /\ Goto(q, "submit_get")
    /\ UNCHANGED <<backend, live, slot, fresh, snap, execs, ctx, engine, durable,
                   recovery, budget>>

SubmitGetOrCreate(q) ==
    /\ pc[q] = "submit_get"
    /\ \/ /\ Goto(q, "submit_peek")
          /\ GetOrCreate
          /\ fresh' = IF live THEN fresh ELSE fresh \cup {q}
          /\ UNCHANGED <<target, seen, faults>>
       \/ /\ Return(q) /\ GetOrCreateFails
          /\ seen' = seen \ {q}
          /\ UNCHANGED fresh
    /\ UNCHANGED <<backend, slot, snap, execs, ctx, engine, durable,
                   recovery, restarts, recoveries>>

SubmitPeek(q) ==
    /\ pc[q] = "submit_peek"
    /\ Goto(q, IF live THEN "consume" ELSE "hydrate")
    /\ UNCHANGED <<backend, live, slot, target, seen, fresh, snap, execs, ctx,
                   engine, durable, recovery, budget>>

\* Other handlers (upload, data sources, cancel) reach the session through
\* GetOrCreate as well, and hydrate nothing.
OtherHandlerGetOrCreate ==
    /\ ~live
    /\ GetOrCreate
    /\ UNCHANGED <<backend, slot, handler, execs, ctx, engine, durable, recovery,
                   budget>>

\* CaptureReportViewHandler hydrates a session whose report has no blocks,
\* whatever else the session is doing.
CaptureGetOrCreate(q) ==
    /\ pc[q] = "idle"
    /\ GetOrCreate
    /\ Goto(q, "capture_read")
    /\ UNCHANGED <<backend, slot, target, seen, fresh, snap, execs, ctx, engine,
                   durable, recovery, budget>>

\* hydrateSessionFromPersistence: the log is read, then applied.
HydrateRead(q) ==
    /\ pc[q] \in {"hydrate", "capture_read"}
    /\ \/ /\ snap' = [snap EXCEPT ![q] = [turns |-> logTurns, ask |-> logAsk]]
          /\ Goto(q, IF pc[q] = "hydrate" THEN "hydrate_set" ELSE "capture_set")
          /\ UNCHANGED <<target, seen, fresh, faults>>
       \/ /\ Return(q) /\ Fault
          /\ seen' = seen \ {q} /\ fresh' = fresh \ {q}
          /\ UNCHANGED snap
    /\ UNCHANGED <<backend, live, slot, execs, ctx, engine, durable, recovery,
                   restarts, recoveries>>

HydrateSet(q) ==
    /\ pc[q] \in {"hydrate_set", "capture_set"}
    /\ hist' = snap[q].turns
    /\ call' = IF snap[q].ask = None
               THEN NoCall
               ELSE [by |-> snap[q].ask, kind |-> "ask", results |-> 0]
    /\ IF target[q] # None /\ q \in seen
       THEN RestoreWaitingRun(target[q])
       ELSE UNCHANGED slot
    /\ snap' = [snap EXCEPT ![q] = EmptySnap]
    /\ Goto(q, IF pc[q] = "hydrate_set" THEN "consume" ELSE "done")
    /\ UNCHANGED <<backend, live, target, seen, fresh, execs, ctx, suspended,
                   durable, recovery, budget>>

-----------------------------------------------------------------------------
(* ChatHandler: consume a waiting run, else start a new one.                *)

\* A request whose message is invalid or cannot be prepared is turned away
\* before it consumes anything.
ChatConsume(q) ==
    /\ pc[q] = "consume" /\ target[q] = None
    /\ \/ Return(q) /\ UNCHANGED slot
       \/ /\ ConsumeWaitingRun(activeRun)
          /\ target' = [target EXCEPT ![q] = activeRun]
          /\ Goto(q, "resume_hooks")
       \/ /\ activeStatus # "waiting_user_input"
          /\ Goto(q, "start")
          /\ UNCHANGED <<slot, target>>
    /\ UNCHANGED <<backend, live, seen, fresh, snap, execs, ctx, engine, durable,
                   recovery, budget>>

ChatStart(q) ==
    /\ pc[q] = "start"
    /\ \/ /\ StartRun(q)
          /\ target' = [target EXCEPT ![q] = q]
          /\ Goto(q, "hooks")
       \/ /\ activeRun # None
          /\ Return(q)
          /\ UNCHANGED slot
    /\ UNCHANGED <<backend, live, seen, fresh, snap, execs, ctx, engine, durable,
                   recovery, budget>>

\* prepareUserRunHook: rejects a request whose report target cannot be loaded.
ChatHooks(q) ==
    /\ pc[q] = "hooks"
    /\ \/ Goto(q, "create") /\ UNCHANGED <<slot, target>>
       \/ Return(q) /\ FinishRun(q)
    /\ UNCHANGED <<backend, live, seen, fresh, snap, execs, ctx, engine,
                   durable, recovery, budget>>

ChatCreateRun(q) ==
    /\ pc[q] = "create"
    /\ \/ /\ db' = [db EXCEPT ![q] = "running"] /\ NoFault
          /\ Goto(q, "save_user")
          /\ UNCHANGED <<slot, ctx, target>>
       \/ /\ Fault
          /\ CancelRun(q)
          /\ Return(q)
          /\ UNCHANGED db
    /\ UNCHANGED <<backend, live, seen, fresh, snap, execs, engine,
                   logTurns, logAsk, recovery, restarts, recoveries>>

\* Dispatching before the user message is logged.
ChatSaveUserMutant(q) ==
    /\ pc[q] = "save_user"
    /\ Goto(q, "last_run")
    /\ UNCHANGED <<backend, live, slot, target, seen, fresh, snap, execs, ctx,
                   engine, durable, recovery, budget>>

ChatSaveUser(q) ==
    /\ pc[q] = "save_user"
    /\ \/ /\ logTurns' = logTurns \cup {q} /\ NoFault
          /\ Goto(q, "last_run")
          /\ UNCHANGED <<slot, ctx>>
       \/ /\ Fault
          /\ CancelRun(q)
          /\ Goto(q, "fail_status")
          /\ UNCHANGED logTurns
    /\ UNCHANGED <<backend, live, target, seen, fresh, snap, execs, engine, db,
                   logAsk, recovery, restarts, recoveries>>

ChatUpdateLastRun(q) ==
    /\ pc[q] = "last_run"
    /\ \/ Spawn(q) /\ NoFault /\ UNCHANGED <<slot, ctx>>
       \/ /\ Fault
          /\ CancelRun(q)
          /\ Goto(q, "fail_status")
          /\ UNCHANGED <<eng, target>>
    /\ UNCHANGED <<backend, live, seen, fresh, snap, verdict, iters,
                   engine, durable, recovery, restarts, recoveries>>

ChatFailStatus(q) ==
    /\ pc[q] = "fail_status"
    /\ UpdateStatus(q, "failed")
    /\ Return(q)
    /\ UNCHANGED <<backend, live, slot, seen, fresh, snap, execs, ctx,
                   engine, logTurns, logAsk, recovery, restarts, recoveries>>

-----------------------------------------------------------------------------
(* Answering a waiting run: SubmitUserInputHandler and resumeWaitingRun.    *)

\* An invalid answer, or one to a run that is not waiting, is turned away.
SubmitConsume(q) ==
    /\ pc[q] = "consume" /\ target[q] # None
    /\ \/ /\ ConsumeWaitingRun(target[q])
          /\ Goto(q, "resume_hooks")
          /\ UNCHANGED target
       \/ Return(q) /\ UNCHANGED slot
    /\ seen' = seen \ {q} /\ fresh' = fresh \ {q}
    /\ UNCHANGED <<backend, live, snap, execs, ctx, engine,
                   durable, recovery, budget>>

ResumeHooks(q) ==
    /\ pc[q] = "resume_hooks"
    /\ \/ Goto(q, "resume_save") /\ UNCHANGED <<slot, target>>
       \/ Return(q) /\ ReturnRunToWaiting(target[q])
    /\ UNCHANGED <<backend, live, seen, fresh, snap, execs, ctx, engine,
                   durable, recovery, budget>>

\* The answer is logged as a user event of the asking run, which closes the
\* question for whoever rebuilds history from the log.
ResumeSave(q) ==
    /\ pc[q] = "resume_save"
    /\ \/ /\ logAsk' = IF logAsk = target[q] THEN None ELSE logAsk
          /\ NoFault
          /\ Goto(q, "resume_status")
          /\ UNCHANGED <<slot, target>>
       \/ /\ Fault
          /\ ReturnRunToWaiting(target[q])
          /\ Return(q)
          /\ UNCHANGED logAsk
    /\ UNCHANGED <<backend, live, seen, fresh, snap, execs, ctx, engine,
                   db, logTurns, recovery, restarts, recoveries>>

ResumeStatus(q) ==
    /\ pc[q] = "resume_status"
    /\ \/ /\ db' = [db EXCEPT ![target[q]] = "running"] /\ NoFault
          /\ Goto(q, "resume_provide")
          /\ UNCHANGED <<slot, target>>
       \/ /\ Fault
          /\ ReturnRunToWaiting(target[q])
          /\ Return(q)
          /\ UNCHANGED db
    /\ UNCHANGED <<backend, live, seen, fresh, snap, execs, ctx, engine,
                   logTurns, logAsk, recovery, restarts, recoveries>>

AskOpen == call.kind = "ask" /\ call.by # None /\ call.results = 0

\* Engine.ProvideAskUserResult refuses an answer when no question is open, and
\* an answer that does not parse as the requested authorization.
ResumeProvide(q) ==
    /\ pc[q] = "resume_provide"
    /\ \/ /\ AskOpen
          /\ call' = [call EXCEPT !.results = 1]
          /\ suspended' = IF suspended = call.by THEN None ELSE suspended
          /\ Spawn(q)
          /\ UNCHANGED slot
       \/ /\ ReturnRunToWaiting(target[q])
          /\ Goto(q, "resume_rollback")
          /\ UNCHANGED <<call, suspended, eng, target>>
    /\ UNCHANGED <<backend, live, seen, fresh, snap, verdict, iters, ctx,
                   hist, durable, recovery, budget>>

ResumeRollback(q) ==
    /\ pc[q] = "resume_rollback"
    /\ UpdateStatus(target[q], "waiting_user_input")
    /\ Return(q)
    /\ UNCHANGED <<backend, live, slot, seen, fresh, snap, execs, ctx,
                   engine, logTurns, logAsk, recovery, restarts, recoveries>>

CancelRunHandler(r) ==
    /\ db[r] # "absent"
    /\ GetOrCreate
    /\ CancelRun(r)
    /\ UNCHANGED <<backend, handler, execs, engine, durable, recovery, budget>>

-----------------------------------------------------------------------------
(* The dispatched execution.                                                *)

At(q, label) == eng' = [eng EXCEPT ![q] = label]

\* The execution's goroutine ends; its locals are gone.
Exit(q) == /\ At(q, "done")
           /\ target' = [target EXCEPT ![q] = None]
           /\ verdict' = [verdict EXCEPT ![q] = "none"]
           /\ iters' = [iters EXCEPT ![q] = 0]

\* repairToolPairing: an unanswered call gets an outcome-unknown result, unless
\* it is the question named by skip.
Repaired(skip) ==
    IF call.by # None /\ call.results = 0 /\ call.by # skip
    THEN [call EXCEPT !.results = 1]
    ELSE call

\* The dispatch goroutine: UpdateCancelFunc, then the backend; a backend this
\* binary lacks ends the run through failRunStart.
Dispatch(q) ==
    /\ eng[q] = "spawned"
    /\ \/ /\ backend = "inprocess"
          /\ UpdateCancelFunc(target[q], q)
          /\ At(q, "enter")
          /\ UNCHANGED ctx
       \/ /\ backend # "inprocess"
          /\ FinishRun(target[q])
          /\ ctx' = [ctx EXCEPT ![q] = TRUE]
          /\ At(q, "start_failed")
    /\ UNCHANGED <<backend, live, handler, verdict, iters, engine, durable,
                   recovery, budget>>

FailRunStart(q) ==
    /\ eng[q] = "start_failed"
    /\ UpdateStatus(target[q], "failed")
    /\ Exit(q)
    /\ UNCHANGED <<backend, live, slot, pc, seen, fresh, snap, ctx, engine,
                   logTurns, logAsk, recovery, restarts, recoveries>>

\* Engine.Run's entry: clearAbandonedSuspension.
EngineEnter(q) ==
    /\ eng[q] = "enter"
    /\ suspended' = None
    /\ call' = Repaired(None)
    /\ At(q, "loop")
    /\ UNCHANGED <<backend, live, slot, handler, verdict, iters, ctx, hist,
                   durable, recovery, budget>>

\* An event ends the execution: what it stands for is verdict[q].
Conclude(q, status) ==
    /\ verdict' = [verdict EXCEPT ![q] = status]
    /\ At(q, "emit")

\* Top of the main loop: cancellation, the iteration limit, then the request;
\* the first one carries the new user turn into history.
EngineLoop(q) ==
    /\ eng[q] = "loop"
    /\ \/ /\ ctx[q]
          /\ Conclude(q, "cancelled")
          /\ UNCHANGED <<iters, hist>>
       \/ /\ ~ctx[q] /\ iters[q] = MaxIterations
          /\ Conclude(q, "failed")
          /\ UNCHANGED <<iters, hist>>
       \/ /\ ~ctx[q] /\ iters[q] < MaxIterations
          /\ iters' = [iters EXCEPT ![q] = @ + 1]
          /\ hist' = IF target[q] = q THEN hist \cup {q} ELSE hist
          /\ At(q, "llm")
          /\ UNCHANGED verdict
    /\ UNCHANGED <<backend, live, slot, handler, ctx, call, suspended, durable,
                   recovery, budget>>

\* A model response: an error, a final answer, a turn that continues, a tool
\* call, or a question to the user.  A batch is one call here: its members
\* execute and are answered in the order the model gave.
EngineResponse(q) ==
    /\ eng[q] = "llm"
    /\ \/ /\ \E status \in {"failed", "completed"} : Conclude(q, status)
          /\ UNCHANGED call
       \/ At(q, "loop") /\ UNCHANGED <<verdict, call>>
       \/ /\ \E kind \in {"tool", "ask"} :
                /\ call' = [by |-> target[q], kind |-> kind, results |-> 0]
                /\ At(q, kind)
          /\ UNCHANGED verdict
    /\ UNCHANGED <<backend, live, slot, handler, iters, ctx, hist, suspended,
                   durable, recovery, budget>>

\* A result appended to history; results counts those of the newest call.
Answered == [call EXCEPT !.results = IF @ < 2 THEN @ + 1 ELSE @]

\* One tool call: dropped when the run was cancelled meanwhile, ended by an
\* engine error before its result is recorded (the tool is not available, the
\* result cannot be compacted), or recorded; a delivered report ends the run.
EngineTool(q) ==
    /\ eng[q] = "tool"
    /\ \/ /\ ctx[q]
          /\ Conclude(q, "cancelled")
          /\ UNCHANGED call
       \/ /\ ~ctx[q]
          /\ Conclude(q, "failed")
          /\ UNCHANGED call
       \/ /\ ~ctx[q]
          /\ call' = Answered
          /\ \/ At(q, "loop") /\ UNCHANGED verdict
             \/ \E status \in {"failed", "completed"} : Conclude(q, status)
    /\ UNCHANGED <<backend, live, slot, handler, iters, ctx, hist, suspended,
                   durable, recovery, budget>>

\* The question is marked pending before its event is emitted; malformed
\* arguments are answered with a failed result instead.
EngineAsk(q) ==
    /\ eng[q] = "ask"
    /\ \/ /\ suspended' = target[q]
          /\ Conclude(q, "waiting_user_input")
          /\ UNCHANGED call
       \/ /\ call' = Answered
          /\ At(q, "loop")
          /\ UNCHANGED <<verdict, suspended>>
    /\ UNCHANGED <<backend, live, slot, handler, iters, ctx, hist, durable,
                   recovery, budget>>

-----------------------------------------------------------------------------
(* The event dispatcher.  An event that cannot be persisted cancels its run *)
(* and marks it failed; the hooks do not see that event.                    *)

HandlePersistenceFailure(q) ==
    /\ faults < MaxFaults
    /\ CancelRun(target[q])
    /\ \/ db' = [db EXCEPT ![target[q]] = "failed"] /\ faults' = faults + 1
       \/ faults + 1 < MaxFaults /\ faults' = faults + 2 /\ UNCHANGED db

\* A progress event (tool call, tool result, status, compaction) is lost.
ProgressEventFails(q) ==
    /\ eng[q] \in {"loop", "llm", "tool", "ask"}
    /\ ~ctx[q]
    /\ HandlePersistenceFailure(q)
    /\ UNCHANGED <<backend, live, handler, execs, engine, logTurns, logAsk,
                   recovery, restarts, recoveries>>

\* reportLifecycleHook: the delivered report cannot be finalized.
FinalizeFails(q) ==
    /\ eng[q] = "tool" /\ ~ctx[q]
    /\ Fault
    /\ FinishRun(target[q])
    /\ ctx' = IF activeRun = target[q] /\ activeCancel # None
              THEN [ctx EXCEPT ![activeCancel] = TRUE] ELSE ctx
    /\ At(q, "abort")
    /\ UNCHANGED <<backend, live, handler, verdict, iters, engine, durable,
                   recovery, restarts, recoveries>>

AbortStatus(q) ==
    /\ eng[q] = "abort"
    /\ UpdateStatus(target[q], "failed")
    /\ verdict' = [verdict EXCEPT ![q] = "cancelled"]
    /\ At(q, "emit_abort")
    /\ UNCHANGED <<backend, live, slot, handler, iters, ctx, engine, logTurns,
                   logAsk, recovery, restarts, recoveries>>

\* Emit of the concluding event: persist, then runLifecycleHook.
EmitPersisted(q) ==
    /\ eng[q] \in {"emit", "emit_abort"}
    /\ logAsk' = IF verdict[q] = "waiting_user_input" THEN target[q] ELSE logAsk
    /\ IF verdict[q] = "waiting_user_input"
       THEN SuspendRun(target[q])
       ELSE FinishRun(target[q])
    /\ At(q, IF activeRun = target[q] THEN "status" ELSE "usage")
    /\ UNCHANGED <<backend, live, handler, verdict, iters, ctx, engine, db,
                   logTurns, recovery, budget>>

EmitFails(q) ==
    /\ eng[q] \in {"emit", "emit_abort"}
    /\ HandlePersistenceFailure(q)
    /\ At(q, "usage")
    /\ UNCHANGED <<backend, live, handler, verdict, iters, engine, logTurns,
                   logAsk, recovery, restarts, recoveries>>

\* The terminal status is never written.
SetRunStatusMutant(q) ==
    /\ eng[q] = "status"
    /\ At(q, "usage")
    /\ UNCHANGED <<backend, live, slot, handler, verdict, iters, ctx, engine,
                   durable, recovery, budget>>

\* setRunStatus comes after the slot is released or parked; its error is only
\* logged.
SetRunStatus(q) ==
    /\ eng[q] = "status"
    /\ UpdateStatus(target[q], verdict[q])
    /\ At(q, "usage")
    /\ UNCHANGED <<backend, live, slot, handler, verdict, iters, ctx, engine,
                   logTurns, logAsk, recovery, restarts, recoveries>>

\* Engine.Run's deferred usage event, on every exit path.
EmitUsage(q) ==
    /\ eng[q] = "usage"
    /\ \/ UNCHANGED <<slot, ctx, db, faults>>
       \/ HandlePersistenceFailure(q)
    /\ At(q, "repair")
    /\ UNCHANGED <<backend, live, handler, verdict, iters, engine, logTurns,
                   logAsk, recovery, restarts, recoveries>>

\* Engine.Run's deferred history repair, then the backend's OnDone.
EngineExit(q) ==
    /\ eng[q] = "repair"
    /\ call' = Repaired(suspended)
    /\ ctx' = [ctx EXCEPT ![q] = TRUE]
    /\ Exit(q)
    /\ UNCHANGED <<backend, live, slot, pc, seen, fresh, snap, hist, suspended,
                   durable, recovery, budget>>

-----------------------------------------------------------------------------
(* recoverStaleSessionRuns, and the restart it is there for.                *)

RecoverCheckLive ==
    /\ rec = "idle" /\ ~live
    /\ recoveries < MaxRecoveries /\ recoveries' = recoveries + 1
    /\ rec' = "listing"
    /\ UNCHANGED <<backend, live, slot, handler, execs, ctx, engine, durable, stale,
                   faults, restarts>>

RecoverList ==
    /\ rec = "listing"
    /\ \/ /\ rec' = "marking" /\ NoFault
          /\ stale' = {r \in Run : db[r] \in {"running", "waiting_user_input"}}
       \/ rec' = "idle" /\ Fault /\ UNCHANGED stale
    /\ UNCHANGED <<backend, live, slot, handler, execs, ctx, engine, durable,
                   restarts, recoveries>>

RecoverMark ==
    /\ rec = "marking"
    /\ \/ \E r \in stale :
             /\ db' = [db EXCEPT ![r] = "failed"]
             /\ stale' = stale \ {r}
             /\ UNCHANGED <<rec, faults>>
       \/ stale # {} /\ Fault /\ rec' = "idle" /\ stale' = {} /\ UNCHANGED db
       \/ stale = {} /\ rec' = "idle" /\ UNCHANGED <<db, stale, faults>>
    /\ UNCHANGED <<backend, live, slot, handler, execs, ctx, engine, logTurns,
                   logAsk, restarts, recoveries>>

\* A restart loses the process: every goroutine and everything in memory.
Restart ==
    /\ restarts < MaxRestarts /\ restarts' = restarts + 1
    /\ live' = FALSE
    /\ activeRun' = None /\ activeStatus' = "none" /\ activeCancel' = None
    /\ pc' = [q \in Request |-> IF pc[q] = "idle" THEN "idle" ELSE "done"]
    /\ eng' = [q \in Request |-> IF eng[q] = "none" THEN "none" ELSE "done"]
    /\ target' = [q \in Request |-> None]
    /\ verdict' = [q \in Request |-> "none"]
    /\ iters' = [q \in Request |-> 0]
    /\ ctx' = [q \in Request |-> FALSE]
    /\ snap' = [q \in Request |-> EmptySnap]
    /\ seen' = {} /\ fresh' = {}
    /\ hist' = {} /\ call' = NoCall /\ suspended' = None
    /\ rec' = "idle" /\ stale' = {}
    /\ UNCHANGED <<backend, durable, faults, recoveries>>

-----------------------------------------------------------------------------

HandlerStep(q) ==
    \/ ChatGetOrCreate(q) \/ SubmitGetOrCreate(q) \/ SubmitPeek(q)
    \/ HydrateRead(q) \/ HydrateSet(q)
    \/ ChatConsume(q) \/ ChatStart(q) \/ ChatHooks(q) \/ ChatCreateRun(q)
    \/ ChatSaveUser(q) \/ ChatUpdateLastRun(q) \/ ChatFailStatus(q)
    \/ SubmitConsume(q) \/ ResumeHooks(q) \/ ResumeSave(q) \/ ResumeStatus(q)
    \/ ResumeProvide(q) \/ ResumeRollback(q)

EngineStep(q) ==
    \/ Dispatch(q) \/ FailRunStart(q) \/ EngineEnter(q) \/ EngineLoop(q)
    \/ EngineResponse(q) \/ EngineTool(q) \/ EngineAsk(q)
    \/ AbortStatus(q) \/ EmitPersisted(q) \/ EmitFails(q) \/ SetRunStatus(q)
    \/ EmitUsage(q) \/ EngineExit(q)

FaultStep(q) == ProgressEventFails(q) \/ FinalizeFails(q)

RecoveryStep == RecoverList \/ RecoverMark

ClientStep ==
    \/ \E q \in Request : ChatPeek(q)
    \/ \E q \in Request, r \in Run : SubmitLookup(q, r)
    \/ \E r \in Run : CancelRunHandler(r)
    \/ OtherHandlerGetOrCreate
    \/ \E q \in Request : CaptureGetOrCreate(q)
    \/ RecoverCheckLive

Next ==
    \/ ClientStep
    \/ \E q \in Request : \/ HandlerStep(q)
                          \/ EngineStep(q)
                          \/ FaultStep(q)
    \/ RecoveryStep
    \/ Restart

Spec == Init /\ [][Next]_vars

\* Goroutines of the process are scheduled; clients and faults owe nothing.
Fairness ==
    /\ \A q \in Request : WF_vars(HandlerStep(q)) /\ WF_vars(EngineStep(q))
    /\ WF_vars(RecoveryStep)

FairSpec == Spec /\ Fairness

-----------------------------------------------------------------------------
(* Properties.                                                              *)

PcLabels ==
    {"idle", "get_warm", "get_cold", "hydrate", "hydrate_set", "capture_read",
     "capture_set", "submit_get", "submit_peek", "consume", "start", "hooks",
     "create", "save_user", "last_run", "fail_status", "resume_hooks",
     "resume_save", "resume_status", "resume_provide", "resume_rollback", "done"}

EngLabels ==
    {"none", "spawned", "start_failed", "enter", "loop", "llm", "tool", "ask",
     "abort", "emit", "emit_abort", "status", "usage", "repair", "done"}

RunStatus == {"running", "waiting_user_input"} \cup Terminal

SlotType ==
    /\ activeRun \in RunOrNone
    /\ activeStatus \in {"none", "running", "waiting_user_input", "cancelling"}
    /\ activeCancel \in RunOrNone
    /\ ctx \in [Request -> BOOLEAN]

HandlerType ==
    /\ backend \in {"inprocess", "unsupported"}
    /\ live \in BOOLEAN
    /\ pc \in [Request -> PcLabels]
    /\ target \in [Request -> RunOrNone]
    /\ seen \subseteq Request /\ fresh \subseteq Request
    /\ snap \in [Request -> [turns : SUBSET Run, ask : RunOrNone]]

EngineType ==
    /\ eng \in [Request -> EngLabels]
    /\ verdict \in [Request -> RunStatus \cup {"none"}]
    /\ iters \in [Request -> 0 .. MaxIterations]
    /\ hist \subseteq Run
    /\ call \in [by : RunOrNone, kind : {"tool", "ask"}, results : 0 .. 2]
    /\ suspended \in RunOrNone

DurableType ==
    /\ db \in [Run -> RunStatus \cup {"absent"}]
    /\ logTurns \subseteq Run
    /\ logAsk \in RunOrNone
    /\ rec \in {"idle", "listing", "marking"}
    /\ stale \subseteq Run

BudgetType ==
    /\ faults \in 0 .. MaxFaults
    /\ restarts \in 0 .. MaxRestarts
    /\ recoveries \in 0 .. MaxRecoveries

\* Every variable has its type: in particular only the five statuses of the
\* schema are ever written to a run row, and the budgets are kept.
TypeOK == SlotType /\ HandlerType /\ EngineType /\ DurableType /\ BudgetType

\* The stretches of a handler and of an execution that own the run slot.
Starting == {"hooks", "create", "save_user", "last_run"}
Resuming == {"resume_hooks", "resume_save", "resume_status", "resume_provide"}
Executing == {"spawned", "enter", "loop", "llm", "tool", "ask", "emit"}

Owns(q) == pc[q] \in Starting \cup Resuming \/ eng[q] \in Executing

\* Mutual exclusion of the session's one Engine: whatever requests, answers,
\* cancellations, failed writes and restarts interleave, at most one request
\* is preparing or executing a run.
SingleExecution ==
    \A p, q \in Request : Owns(p) /\ Owns(q) => p = q

\* Nothing executes that a restart could not find: an execution in progress has
\* a run row and its run's user message is in the event log.
DurableBeforeExecution ==
    \A q \in Request :
        eng[q] \in Executing => /\ db[target[q]] # "absent"
                                /\ target[q] \in logTurns

\* A request that has not started or joined a run yet: nothing bears its name.
Unborn(q) == \/ pc[q] \in {"idle", "get_warm", "get_cold", "start"}
             \/ pc[q] \in {"hydrate", "hydrate_set", "consume"} /\ target[q] = None

\* The invariant behind the slot's properties.  An owner's run is the one in the
\* slot and the slot does not say waiting; a request's execution begins after its
\* handler ended; a run that left the slot in FinalizeFails does not come back,
\* because names are fresh and a hydrating submit does not exist; and what is
\* parked, answered or executed has its row and its user message on record.
SlotAgreesWithOwner ==
    /\ activeRun = None <=> activeStatus = "none"
    /\ \A q \in Request :
        Owns(q) => /\ target[q] # None /\ activeRun = target[q]
                   /\ activeStatus \in {"running", "cancelling"}

PhaseOrder ==
    \A q \in Request :
        /\ eng[q] # "none" => pc[q] = "done"
        /\ pc[q] \in {"submit_get", "submit_peek"} => target[q] # None
        /\ pc[q] \in Starting \cup {"fail_status"} => target[q] = q
        /\ pc[q] = "submit_peek" => live
        /\ pc[q] \in {"hydrate", "hydrate_set", "capture_read", "capture_set"}
              => target[q] = None
        /\ pc[q] = "resume_rollback" => target[q] # None
        /\ eng[q] \in {"start_failed", "abort", "emit_abort", "status", "usage"}
              => target[q] # None
        /\ eng[q] \in {"emit", "emit_abort", "status"} => verdict[q] \in RunStatus
        /\ eng[q] \in {"abort", "emit_abort"} => activeRun # target[q]

FreshNames ==
    \A q \in Request :
        Unborn(q) => /\ target[q] = None /\ activeRun # q
                     /\ db[q] = "absent" /\ q \notin stale
                     /\ \A p \in Request : target[p] # q

OnRecord(r) == db[r] # "absent" /\ r \in logTurns

RecordedBeforeUse ==
    /\ activeStatus = "waiting_user_input" => OnRecord(activeRun)
    /\ \A q \in Request :
        /\ pc[q] \in {"save_user", "last_run"} => db[q] # "absent"
        /\ pc[q] = "last_run" => q \in logTurns
        /\ pc[q] \in Resuming => OnRecord(target[q])
        /\ eng[q] \in Executing => OnRecord(target[q])
        /\ target[q] # None /\ target[q] # q => db[target[q]] # "absent"

SlotInv == /\ SlotAgreesWithOwner /\ SingleExecution
           /\ PhaseOrder /\ FreshNames /\ RecordedBeforeUse

\* The slot the handlers, executions and hooks share is the slot of RunSlot:
\* every step of any of them is one of its moves or none.
Slot == INSTANCE RunSlot WITH
            holder  <- activeRun,
            workers <- {q \in Request : Owns(q)},
            parked  <- activeStatus = "waiting_user_input",
            epoch   <- restarts

ImplementsRunSlot == Slot!Spec

LetGo(q) == /\ Owns(q) /\ target[q] = activeRun
            /\ eng'[q] # eng[q] \/ pc'[q] # pc[q]

OwnerStep == activeRun # None /\ activeRun' # activeRun =>
                restarts' = restarts + 1 \/ \E q \in Request : LetGo(q)

\* A run leaves the slot only by a step of the request or execution that owns it
\* (or by the restart that loses the memory): late events and late cancels of
\* an earlier run never free the slot of the run that came after it.
OnlyOwnerReleases == [][OwnerStep]_vars

\* Without failed writes, a run row that says running reaches another status:
\* every execution settles in the database, cancelled or not.
RunSettles ==
    \A r \in Run : db[r] = "running" ~> db[r] # "running"

\* A slot that CancelRun put into cancelling is freed: a new task can start
\* once the old one was stopped.
StoppedRunFreesSlot ==
    activeStatus = "cancelling" ~> activeRun = None

\* An answer that is the first contact after a restart finds its run's waiting
\* mark restored (or another run already there) before it is applied.
ColdAnswerRestored ==
    \A q \in Request :
        pc[q] = "consume" /\ q \in seen \cap fresh => activeRun # None

\* The model history an execution works from holds every user turn of the
\* persisted log.
HistoryDerivedFromLog ==
    \A q \in Request : eng[q] \in {"llm", "tool", "ask"} => logTurns \subseteq hist

\* A tool call never gets a second result.
OneResultPerCall == call.results <= 1

\* recoverStaleSessionRuns marks what a stopped process left behind, never the
\* row of a run that is at work.  It does not hold: the session may come to life
\* between the check and the listing.
RecoverySparesWork ==
    [][\A q \in Request :
         eng[q] \in Executing /\ stale' # stale /\ restarts' = restarts
            => db'[target[q]] = db[target[q]]]_vars

\* A run that is being cancelled has its execution told.  It does not hold: a
\* cancel between ConsumeWaitingRun and UpdateCancelFunc reaches the execution
\* that asked, which has ended.
CancelReachesRun ==
    \A q \in Request :
        eng[q] \in Executing /\ activeRun = target[q] /\ activeStatus = "cancelling"
            => ctx[q]

\* With nobody at work and the slot free no row waits for the user.  It does not
\* hold: SuspendRun makes a run answerable before its row is written, and the
\* late write follows that of the resumed execution.
RowAgreesWithSlot ==
    (activeRun = None /\ rec = "idle" /\
     \A q \in Request : pc[q] \in {"idle", "done"} /\ eng[q] \in {"none", "done"})
        => \A r \in Run : db[r] # "waiting_user_input"
=============================================================================
