---------------------------- MODULE SessionManager ----------------------------
(***************************************************************************)
(* session.Manager for one session ID: the cache of live session objects,    *)
(* handlers that look a session up or create it and then use the object they *)
(* were given, the deletion of a session's resources (objects in storage,    *)
(* rows, memory) on behalf of a DELETE request or of the TTL cleanup, and     *)
(* the cleanup itself.                                                       *)
(*                                                                         *)
(* A session object is an incarnation of the session: after the entry left   *)
(* the cache the next GetOrCreate makes a new one, while handlers still hold  *)
(* the old one.  Manager.mu is the variable mgr where it is held across a     *)
(* wait (closing a report view), and one step otherwise.  Time is the clock    *)
(* step that makes a session expired; a database or storage call may fail     *)
(* while faults are left.                                                    *)
(***************************************************************************)
EXTENDS Naturals, FiniteSets

CONSTANTS Handler,    \* HTTP handlers that use the session
          Deleter,    \* DELETE requests
          Cleaner,    \* the cleanup goroutine
          Object,     \* session objects, in the order they are made
          File,       \* what the session may put into object storage
          Nil,        \* no object, no process
          MaxFaults   \* failing database and storage calls

ASSUME SessionManagerAssumption ==
    /\ Cleaner \notin Deleter
    /\ Nil \notin Object /\ Nil \notin Deleter \cup {Cleaner}
    /\ MaxFaults \in Nat

Deleters == Deleter \cup {Cleaner}

VARIABLES
    cache,     \* Manager.sessions[id]
    mgr,       \* who holds Manager.mu across a wait
    row,       \* the row of the session exists
    rowSeen,   \* the row's last_seen_at is within the TTL
    files,     \* stored objects of the session
    stored,    \* every object that was ever stored
    made, detached, viewClosed,   \* of each object: exists, detached, view closed
    slot,      \* ActiveRun's status
    exec,      \* an execution is at work on the object's run
    seen,      \* LastSeenAt is within the TTL
    capture,   \* a capture of the object's report is in flight
    pc, held, created,            \* handlers: position, object, created
    dpc, stopped, awaited, plan,  \* deletions: position, object found by Stop,
                                  \* whether the execution it cancelled is
                                  \* still at work, planned storage keys
    cpc, victim,                  \* the cleanup: position, detached object
    faults

store   == <<row, rowSeen, files, stored>>
objects == <<made, detached, viewClosed, slot, exec, seen, capture>>
handler == <<pc, held, created>>
deletion == <<dpc, stopped, awaited, plan>>
cleanup == <<cpc, victim>>
managerVars == <<cache, mgr, store, objects, handler, deletion, cleanup, faults>>

ManagerInit ==
    /\ cache = Nil /\ mgr = Nil
    /\ row \in BOOLEAN /\ rowSeen = row
    /\ files \in SUBSET (IF row THEN File ELSE {})
    /\ stored = files
    /\ made = {}
    /\ detached = [o \in Object |-> FALSE] /\ viewClosed = [o \in Object |-> FALSE]
    /\ slot = [o \in Object |-> "free"] /\ exec = [o \in Object |-> FALSE]
    /\ seen = [o \in Object |-> TRUE] /\ capture = [o \in Object |-> FALSE]
    /\ pc = [r \in Handler |-> "idle"] /\ held = [r \in Handler |-> Nil]
    /\ created = [r \in Handler |-> FALSE]
    /\ dpc = [d \in Deleters |-> "idle"] /\ stopped = [d \in Deleters |-> Nil]
    /\ awaited = [d \in Deleters |-> FALSE] /\ plan = [d \in Deleters |-> {}]
    /\ cpc = "idle" /\ victim = Nil
    /\ faults = 0

Fault == faults < MaxFaults /\ faults' = faults + 1
Goto(r, label) == pc' = [pc EXCEPT ![r] = label]
DGoto(d, label) == dpc' = [dpc EXCEPT ![d] = label]

-----------------------------------------------------------------------------
(* GetOrCreate.                                                             *)

\* The first critical section: a cached object or none.
Lookup(r) ==
    /\ pc[r] = "idle" /\ mgr = Nil
    /\ held' = [held EXCEPT ![r] = cache]
    /\ Goto(r, IF cache = Nil THEN "query" ELSE "touch")
    /\ UNCHANGED <<cache, mgr, store, objects, created, deletion, cleanup, faults>>

\* Touch, for a cached object, and UpdateLastSeen, which does not mind a row that
\* is not there.
Touch(r) ==
    /\ pc[r] \in {"touch", "lastseen"}
    /\ seen' = [seen EXCEPT ![held[r]] = @ \/ pc[r] = "touch"]
    /\ \/ rowSeen' = row /\ Goto(r, "have") /\ UNCHANGED faults
       \/ Fault /\ Goto(r, "done") /\ UNCHANGED rowSeen
    /\ UNCHANGED <<cache, mgr, row, files, stored, made, detached, viewClosed, slot, exec,
                   capture, held, created, deletion, cleanup>>

Query(r) ==
    /\ pc[r] = "query"
    /\ \/ /\ created' = [created EXCEPT ![r] = ~row]
          /\ Goto(r, "install") /\ UNCHANGED faults
       \/ Fault /\ Goto(r, "done") /\ UNCHANGED created
    /\ UNCHANGED <<cache, mgr, store, objects, held, deletion, cleanup>>

NewObject == CHOOSE o \in Object : o \notin made

\* The second critical section: an object another handler installed meanwhile,
\* or a new one.  New fails when the session's database cannot be opened.
Install(r) ==
    /\ pc[r] = "install" /\ mgr = Nil
    /\ \/ /\ cache # Nil
          /\ held' = [held EXCEPT ![r] = cache]
          /\ seen' = [seen EXCEPT ![cache] = TRUE]
          /\ Goto(r, "have")
          /\ UNCHANGED <<cache, made, faults>>
       \/ /\ cache = Nil /\ Object \ made # {}
          /\ made' = made \cup {NewObject}
          /\ cache' = NewObject
          /\ held' = [held EXCEPT ![r] = NewObject]
          /\ Goto(r, IF created[r] THEN "insert" ELSE "lastseen")
          /\ UNCHANGED <<seen, faults>>
       \/ /\ cache = Nil
          /\ Fault /\ Goto(r, "done")
          /\ UNCHANGED <<cache, made, held, seen>>
    /\ UNCHANGED <<mgr, store, detached, viewClosed, slot, exec, capture,
                   created, deletion, cleanup>>

\* repo.Create, outside the lock; the row's key is unique.
Insert(r) ==
    /\ pc[r] = "insert"
    /\ \/ /\ ~row
          /\ row' = TRUE /\ rowSeen' = TRUE
          /\ Goto(r, "have") /\ UNCHANGED faults
       \/ row /\ Goto(r, "undo") /\ UNCHANGED <<row, rowSeen, faults>>
       \/ Fault /\ Goto(r, "undo") /\ UNCHANGED <<row, rowSeen>>
    /\ UNCHANGED <<cache, mgr, files, stored, objects, held, created, deletion, cleanup>>

\* Removes whatever is cached.
UndoMutant(r) ==
    /\ pc[r] = "undo" /\ mgr = Nil
    /\ cache' = Nil
    /\ Goto(r, "undone")
    /\ UNCHANGED <<mgr, store, objects, held, created, deletion, cleanup, faults>>

\* The failed insertion takes its own object out of the cache.
Undo(r) ==
    /\ pc[r] = "undo" /\ mgr = Nil
    /\ cache' = IF cache = held[r] THEN Nil ELSE cache
    /\ Goto(r, "undone")
    /\ UNCHANGED <<mgr, store, objects, held, created, deletion, cleanup, faults>>

\* The handler uses its object: it resumes the waiting run, or starts one unless
\* the object is detached or busy.
Use(r) ==
    /\ pc[r] = "have"
    /\ LET o == held[r]
       IN  IF slot[o] = "waiting" \/ (slot[o] = "free" /\ ~detached[o])
           THEN /\ slot' = [slot EXCEPT ![o] = "running"]
                /\ exec' = [exec EXCEPT ![o] = TRUE]
                /\ seen' = [seen EXCEPT ![o] = TRUE]
           ELSE UNCHANGED <<slot, exec, seen>>
    /\ Goto(r, "done")
    /\ held' = [held EXCEPT ![r] = Nil]
    /\ UNCHANGED <<cache, mgr, store, made, detached, viewClosed, capture,
                   created, deletion, cleanup, faults>>

GetOrCreate(r) ==
    Lookup(r) \/ Touch(r) \/ Query(r) \/ Install(r) \/ Insert(r) \/ Undo(r)

-----------------------------------------------------------------------------
(* Executions, captures and the clock.                                      *)

\* An execution stores a report, and ends with FinishRun or SuspendRun.
StoreReport(o) ==
    /\ exec[o]
    /\ \E f \in File \ stored : files' = files \cup {f} /\ stored' = stored \cup {f}
    /\ UNCHANGED <<cache, mgr, row, rowSeen, objects, handler, deletion, cleanup,
                   faults>>

RunEnds(o) ==
    /\ exec[o]
    /\ exec' = [exec EXCEPT ![o] = FALSE]
    /\ awaited' = [d \in Deleters |-> awaited[d] /\ stopped[d] # o]
    /\ \E s \in {"free", "waiting"} : slot' = [slot EXCEPT ![o] = s]
    /\ seen' = [seen EXCEPT ![o] = TRUE]
    /\ UNCHANGED <<cache, mgr, store, made, detached, viewClosed, capture,
                   handler, dpc, stopped, plan, cleanup, faults>>

\* The coordinator's drain goroutine, as ReportView shows it: nothing starts once
\* the view is closed, and what has started ends.
CaptureStart(o) ==
    /\ exec[o] /\ ~viewClosed[o] /\ ~capture[o]
    /\ capture' = [capture EXCEPT ![o] = TRUE]
    /\ UNCHANGED <<cache, mgr, store, made, detached, viewClosed, slot, exec,
                   seen, handler, deletion, cleanup, faults>>

CaptureEnd(o) ==
    /\ capture[o]
    /\ capture' = [capture EXCEPT ![o] = FALSE]
    /\ UNCHANGED <<cache, mgr, store, made, detached, viewClosed, slot, exec,
                   seen, handler, deletion, cleanup, faults>>

\* The TTL is counted in hours: no request, deletion or cleanup is that long in
\* flight, only an execution may be.
Expire ==
    /\ \A r \in Handler : pc[r] \in {"idle", "undone", "done"}
    /\ \A d \in Deleters : dpc[d] \in {"idle", "deleted", "failed"}
    /\ cpc = "idle"
    /\ \/ /\ cache # Nil /\ seen[cache] /\ seen' = [seen EXCEPT ![cache] = FALSE]
          /\ rowSeen' \in {rowSeen, FALSE}
       \/ cache = Nil /\ rowSeen /\ rowSeen' = FALSE /\ UNCHANGED seen
    /\ UNCHANGED <<cache, mgr, row, files, stored, made, detached, viewClosed, slot, exec,
                   capture, handler, deletion, cleanup, faults>>

\* CancelRun(""): the status only; the execution ends in its own time.
CancelRun(o) ==
    slot' = [slot EXCEPT ![o] = IF slot[o] = "free" THEN "free" ELSE "cancelling"]

-----------------------------------------------------------------------------
(* deleteSessionResources, for d.                                           *)

\* DeleteSessionHandler or the cleanup's callback: the row must be there.
DeleteBegin(d) ==
    /\ dpc[d] = "begin"
    /\ \/ row /\ DGoto(d, "plan") /\ UNCHANGED faults
       \/ ~row /\ DGoto(d, "failed") /\ UNCHANGED faults
       \/ Fault /\ DGoto(d, "failed")
    /\ UNCHANGED <<cache, mgr, store, objects, handler, stopped, awaited, plan,
                   cleanup>>

\* buildSessionDeletionPlan.
DeletePlan(d) ==
    /\ dpc[d] = "plan"
    /\ \/ /\ plan' = [plan EXCEPT ![d] = files]
          /\ DGoto(d, "stop") /\ UNCHANGED faults
       \/ Fault /\ DGoto(d, "failed") /\ UNCHANGED plan
    /\ UNCHANGED <<cache, mgr, store, objects, handler, stopped, awaited, cleanup>>

\* Manager.Stop: cancel what is running.
Stop(d) ==
    /\ dpc[d] = "stop" /\ mgr = Nil
    /\ stopped' = [stopped EXCEPT ![d] = cache]
    /\ IF cache = Nil
       THEN DGoto(d, "storage") /\ UNCHANGED <<slot, awaited, seen>>
       ELSE /\ CancelRun(cache)
            /\ awaited' = [awaited EXCEPT ![d] = exec[cache]]
            /\ seen' = IF slot[cache] = "free" THEN seen
                       ELSE [seen EXCEPT ![cache] = TRUE]
            /\ DGoto(d, "wait")
    /\ UNCHANGED <<cache, mgr, store, made, detached, viewClosed, exec, capture,
                   handler, plan, cleanup, faults>>

\* A stop that gives up waiting and goes on.
StopWaitMutant(d) ==
    /\ dpc[d] = "wait"
    /\ DGoto(d, "storage")
    /\ UNCHANGED <<cache, mgr, store, objects, handler, stopped, awaited, plan,
                   cleanup, faults>>

\* WaitUntilIdle: the slot is free at some poll, or the timeout is reported.
StopWait(d) ==
    /\ dpc[d] = "wait"
    /\ DGoto(d, IF slot[stopped[d]] = "free" THEN "storage" ELSE "failed")
    /\ UNCHANGED <<cache, mgr, store, objects, handler, stopped, awaited, plan,
                   cleanup, faults>>

\* Goes on to the rows although an object could not be deleted.
DeleteStorageMutant(d) ==
    /\ dpc[d] = "storage"
    /\ \/ files' = files \ plan[d] /\ DGoto(d, "commit") /\ UNCHANGED faults
       \/ /\ Fault /\ DGoto(d, "commit")
          /\ \E some \in SUBSET plan[d] : files' = files \ some
    /\ UNCHANGED <<cache, mgr, row, rowSeen, stored, objects, handler, stopped, awaited,
                   plan, cleanup>>

\* Every planned object is tried; one failure is enough to stop.
DeleteStorage(d) ==
    /\ dpc[d] = "storage"
    /\ \/ files' = files \ plan[d] /\ DGoto(d, "commit") /\ UNCHANGED faults
       \/ /\ Fault /\ DGoto(d, "failed")
          /\ \E some \in SUBSET plan[d] : files' = files \ some
    /\ UNCHANGED <<cache, mgr, row, rowSeen, stored, objects, handler, stopped, awaited,
                   plan, cleanup>>

\* The transaction over the metadata tables.
DeleteCommit(d) ==
    /\ dpc[d] = "commit"
    /\ \/ row' = FALSE /\ rowSeen' = FALSE /\ DGoto(d, "memory") /\ UNCHANGED faults
       \/ Fault /\ DGoto(d, "failed") /\ UNCHANGED <<row, rowSeen>>
    /\ UNCHANGED <<cache, mgr, files, stored, objects, handler, stopped, awaited, plan,
                   cleanup>>

\* Under Manager.mu: mark the object and close its view, which starts no further
\* capture and waits for the one in flight.
Detach(who) ==
    /\ detached' = [detached EXCEPT ![cache] = TRUE]
    /\ viewClosed' = [viewClosed EXCEPT ![cache] = TRUE]
    /\ mgr' = who

\* Manager.Delete: the cached object, whichever it is now.
DeleteMemory(d) ==
    /\ dpc[d] = "memory" /\ mgr = Nil
    /\ IF cache = Nil
       THEN DGoto(d, "deleted") /\ UNCHANGED <<detached, viewClosed, mgr>>
       ELSE DGoto(d, "closing") /\ Detach(d)
    /\ UNCHANGED <<cache, store, made, slot, exec, seen, capture,
                   handler, stopped, awaited, plan, cleanup, faults>>

\* When the capture has ended the entry is deleted, and the object destroyed,
\* which cancels its run.
DeleteClose(d) ==
    /\ dpc[d] = "closing" /\ ~capture[cache]
    /\ cache' = Nil /\ mgr' = Nil
    /\ CancelRun(cache)
    /\ DGoto(d, "deleted")
    /\ UNCHANGED <<store, made, detached, viewClosed, exec, seen, capture, handler,
                   stopped, awaited, plan, cleanup, faults>>

DeleteSessionHandler(d) ==
    /\ d \in Deleter /\ dpc[d] = "idle"
    /\ DGoto(d, "begin")
    /\ UNCHANGED <<cache, mgr, store, objects, handler, stopped, awaited, plan,
                   cleanup, faults>>

DeleteSessionResources(d) ==
    \/ DeleteBegin(d) \/ DeletePlan(d) \/ Stop(d) \/ StopWait(d)
    \/ DeleteStorage(d) \/ DeleteCommit(d) \/ DeleteMemory(d) \/ DeleteClose(d)

-----------------------------------------------------------------------------
(* CleanupExpiredSessions.                                                  *)

\* An expired session whose run is not running is detached; the condition is
\* evaluated again in the critical section that removes it.
CleanupDetach ==
    /\ cpc = "idle" /\ mgr = Nil
    /\ cache # Nil /\ ~seen[cache] /\ slot[cache] # "running"
    /\ Detach(Cleaner)
    /\ victim' = cache /\ cpc' = "closing"
    /\ UNCHANGED <<cache, store, made, slot, exec, seen, capture,
                   handler, deletion, faults>>

CleanupRemove ==
    /\ cpc = "closing" /\ ~capture[victim]
    /\ cache' = Nil /\ mgr' = Nil
    /\ cpc' = "cancel"
    /\ UNCHANGED <<store, objects, handler, deletion, victim, faults>>

CleanupCancel ==
    /\ cpc = "cancel"
    /\ CancelRun(victim)
    /\ cpc' = "wait"
    /\ UNCHANGED <<cache, mgr, store, made, detached, viewClosed, exec, seen,
                   capture, handler, deletion, victim, faults>>

\* WaitUntilIdle: idle or timed out, the deletion goes on.
CleanupWait ==
    /\ cpc = "wait"
    /\ cpc' = "deleting"
    /\ DGoto(Cleaner, "begin")
    /\ UNCHANGED <<cache, mgr, store, objects, handler, stopped, awaited, plan,
                   victim, faults>>

\* A row whose session is not in memory.
CleanupPersisted ==
    /\ cpc = "idle" /\ mgr = Nil
    /\ row /\ ~rowSeen /\ cache = Nil
    /\ victim' = Nil /\ cpc' = "deleting"
    /\ DGoto(Cleaner, "begin")
    /\ UNCHANGED <<cache, mgr, store, objects, handler, stopped, awaited, plan,
                   faults>>

\* The deletion's locals are gone with it.
CleanupForgets ==
    /\ cpc' = "idle" /\ victim' = Nil
    /\ DGoto(Cleaner, "idle")
    /\ stopped' = [stopped EXCEPT ![Cleaner] = Nil]
    /\ awaited' = [awaited EXCEPT ![Cleaner] = FALSE]
    /\ plan' = [plan EXCEPT ![Cleaner] = {}]

\* A failed deletion is put back and stays detached.
CleanupEndMutant ==
    /\ cpc = "deleting" /\ mgr = Nil
    /\ dpc[Cleaner] \in {"deleted", "failed"}
    /\ cache' = IF dpc[Cleaner] = "failed" /\ victim # Nil /\ cache = Nil
                THEN victim ELSE cache
    /\ CleanupForgets
    /\ UNCHANGED <<mgr, store, objects, handler, faults>>

\* A failed deletion puts the object back unless the session was rebuilt.
CleanupEnd ==
    /\ cpc = "deleting" /\ mgr = Nil
    /\ dpc[Cleaner] \in {"deleted", "failed"}
    /\ IF dpc[Cleaner] = "failed" /\ victim # Nil /\ cache = Nil
       THEN cache' = victim /\ detached' = [detached EXCEPT ![victim] = FALSE]
       ELSE UNCHANGED <<cache, detached>>
    /\ CleanupForgets
    /\ UNCHANGED <<mgr, store, made, viewClosed, slot, exec, seen, capture,
                   handler, faults>>

CleanupStep ==
    \/ CleanupDetach \/ CleanupRemove \/ CleanupCancel \/ CleanupWait
    \/ CleanupPersisted \/ CleanupEnd

-----------------------------------------------------------------------------

ManagerNext ==
    \/ \E r \in Handler : GetOrCreate(r) \/ Use(r)
    \/ \E o \in made : StoreReport(o) \/ RunEnds(o) \/ CaptureStart(o) \/ CaptureEnd(o)
    \/ Expire
    \/ \E d \in Deleter : DeleteSessionHandler(d)
    \/ \E d \in Deleters : DeleteSessionResources(d)
    \/ CleanupStep

ManagerSpec == ManagerInit /\ [][ManagerNext]_managerVars

\* Handlers and the cleanup goroutine are scheduled, captures are bounded by
\* their timeout.  A contended Manager.mu is granted in turn.
ManagerFairSpec ==
    /\ ManagerSpec
    /\ \A r \in Handler : SF_managerVars(GetOrCreate(r) /\ pc[r] # "idle")
    /\ \A d \in Deleters : SF_managerVars(DeleteSessionResources(d))
    /\ \A o \in Object : WF_managerVars(CaptureEnd(o))
    /\ SF_managerVars(cpc # "idle" /\ CleanupStep)
-----------------------------------------------------------------------------
(* Properties.                                                              *)

\* Types of the manager's state and of the handlers', deletions' and cleanup's
\* locals.
ManagerTypeOK ==
    /\ cache \in Object \cup {Nil} /\ mgr \in Deleters \cup {Nil}
    /\ row \in BOOLEAN /\ rowSeen \in BOOLEAN
    /\ files \subseteq stored /\ stored \subseteq File
    /\ made \subseteq Object
    /\ slot \in [Object -> {"free", "running", "waiting", "cancelling"}]
    /\ {detached, viewClosed, exec, seen, capture} \subseteq [Object -> BOOLEAN]
    /\ pc \in [Handler -> {"idle", "touch", "query", "install", "insert", "undo",
                           "lastseen", "have", "undone", "done"}]
    /\ held \in [Handler -> Object \cup {Nil}] /\ created \in [Handler -> BOOLEAN]
    /\ dpc \in [Deleters -> {"idle", "begin", "plan", "stop", "wait", "storage",
                             "commit", "memory", "closing", "deleted", "failed"}]
    /\ stopped \in [Deleters -> Object \cup {Nil}]
    /\ awaited \in [Deleters -> BOOLEAN] /\ plan \in [Deleters -> SUBSET File]
    /\ cpc \in {"idle", "closing", "cancel", "wait", "deleting"}
    /\ victim \in Object \cup {Nil}
    /\ faults \in 0 .. MaxFaults

\* What a handler finds in the cache can be used: a session is in the cache
\* detached only while the lock is held, and a session a failed cleanup put back
\* is not.
CachedIsUsable == cache # Nil /\ mgr = Nil => ~detached[cache]

\* No session object is lost alive: one that left the cache refuses new tasks,
\* except the one whose own insertion failed, which its maker has taken out.
NoStrayObject ==
    \A o \in made :
        o = cache \/ detached[o] \/ \E r \in Handler : held[r] = o /\ pc[r] = "undone"

\* A deletion that found a run at work goes on to the stored objects only when
\* that execution is over.
StoppedRunOver ==
    \A d \in Deleters :
        dpc[d] \in {"storage", "commit", "memory", "closing", "deleted"} => ~awaited[d]

\* The row, from which a failed deletion is retried, goes only when every stored
\* object that was planned is gone.
RowOutlivesFiles ==
    \A d \in Deleters :
        dpc[d] \in {"memory", "closing", "deleted"} => plan[d] \cap files = {}

\* A lookup is answered although a deletion or the cleanup holds Manager.mu while
\* it waits for a capture.
LookupAnswered ==
    \A r \in Handler :
        pc[r] \in {"query", "install", "undo"} ~> pc[r] \in {"have", "undone", "done"}

\* A deletion that commits leaves nothing of the session in storage.
DeletionComplete ==
    \A d \in Deleters : dpc[d] = "deleted" /\ ~row => files = {}

\* No execution begins on a session object that is being deleted.
BeginStep ==
    \A o \in Object : exec'[o] /\ ~exec[o] => ~detached[o]
NoRunOnDetached == [][BeginStep]_managerVars
=============================================================================
