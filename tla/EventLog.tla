------------------------------- MODULE EventLog -------------------------------
(***************************************************************************)
(* The runtime events of one session on their way to the database and to the *)
(* browsers: producers (the run, its child runs, the report handlers) submit  *)
(* an event to the persist worker and wait for the answer, then broadcast the *)
(* stored event to the SSE clients; a client that connects again names the    *)
(* last event it has and is replayed what the log holds after it.             *)
(*                                                                         *)
(* An event is its created_at stamp, given when it is submitted, so the order  *)
(* of the numbers is the order in which the log is read.  The read of a long   *)
(* run is a window of its oldest and its newest events.                       *)
(***************************************************************************)
EXTENDS Naturals, Sequences, FiniteSets, SequencesExt

CONSTANTS Producer, Client,
          MaxEvents,     \* events submitted
          QueueSize,     \* eventPersistQueue, 4096
          BufferSize,    \* sseClient.send, 100
          WindowHead, WindowTail,   \* messageWindowHead, messageWindowTail
          MaxConnects,   \* connections of each client
          MaxFaults      \* failing database calls

ASSUME EventLogAssumption ==
    /\ {MaxEvents, QueueSize, BufferSize, WindowHead, WindowTail} \subseteq Nat \ {0}
    /\ {MaxConnects, MaxFaults} \subseteq Nat

Event == 1 .. MaxEvents
Idle == 0   \* no event: a worker between two jobs, a client without a cursor

VARIABLES
    clock,             \* the last stamp given
    queue, open,       \* the channel; whether eventPersistQueue still names it
    worker, exited,    \* the job in the worker's hands; the worker returned
    db,                \* stored events
    answer,            \* persistJob.result of each event
    ppc, pev, targets, \* producers: position, event, clients still to be sent it
    cpc, buffer, overflow, replayed,   \* connections
    mode,              \* how the connection began: fresh, replayed, resync, failed
    base, missing,     \* the cursor it began with; events outside the window
    got,               \* what this connection wrote, in order
    seen, cursor,      \* the browser: what it ever received, its last event ID
    connects, faults

workerVars == <<queue, worker, exited, db, answer>>
producerVars == <<ppc, pev, targets>>
connVars == <<cpc, buffer, overflow, replayed, mode, base, missing, got>>
browserVars == <<seen, cursor, connects>>
vars == <<clock, open, workerVars, producerVars, connVars, browserVars, faults>>

Init ==
    /\ clock = 0 /\ queue = <<>> /\ open = TRUE /\ worker = Idle /\ exited = FALSE
    /\ db = {} /\ answer = [e \in Event |-> "none"]
    /\ ppc = [p \in Producer |-> "idle"] /\ pev = [p \in Producer |-> Idle]
    /\ targets = [p \in Producer |-> {}]
    /\ cpc = [c \in Client |-> "off"] /\ buffer = [c \in Client |-> <<>>]
    /\ overflow = [c \in Client |-> FALSE] /\ replayed = [c \in Client |-> {}]
    /\ mode = [c \in Client |-> "fresh"] /\ base = [c \in Client |-> Idle]
    /\ missing = [c \in Client |-> {}] /\ got = [c \in Client |-> <<>>]
    /\ seen = [c \in Client |-> {}] /\ cursor = [c \in Client |-> Idle]
    /\ connects = [c \in Client |-> 0] /\ faults = 0

Fault == faults < MaxFaults /\ faults' = faults + 1
Goto(p, label) == ppc' = [ppc EXCEPT ![p] = label]

-----------------------------------------------------------------------------
(* saveEventToDB.                                                           *)

\* Under eventPersistMu.RLock: look at the queue and stamp the event.
Submit(p) ==
    /\ ppc[p] = "idle" /\ clock < MaxEvents
    /\ clock' = clock + 1
    /\ pev' = [pev EXCEPT ![p] = clock + 1]
    /\ Goto(p, IF open THEN "locked" ELSE "sync")
    /\ UNCHANGED <<open, workerVars, targets, connVars, browserVars, faults>>

\* The select, still under RLock: a place in the queue, or the end of the
\* context; then the lock is released.
Enqueue(p) ==
    /\ ppc[p] = "locked" /\ Len(queue) < QueueSize
    /\ queue' = Append(queue, pev[p])
    /\ Goto(p, "waiting")
    /\ UNCHANGED <<clock, open, worker, exited, db, answer, pev, targets,
                   connVars, browserVars, faults>>

ContextDone(p) ==
    /\ ppc[p] = "locked"
    /\ Goto(p, "sync")
    /\ UNCHANGED <<clock, open, workerVars, pev, targets, connVars, browserVars, faults>>

\* The answer is read, whatever it is, and the event sent.
ReceiveMutant(p) ==
    /\ ppc[p] = "waiting" /\ answer[pev[p]] # "none"
    /\ Goto(p, "stored")
    /\ UNCHANGED <<clock, open, workerVars, pev, targets, connVars, browserVars, faults>>

\* The answer is read: the event goes to the clients only when it was stored.
\* What the caller then makes of a failure, a notice without an id that is
\* broadcast and never stored (runtime_hooks.go:79, runtime_events.go:40), is no
\* submitted event and left out, like the other notices of that kind (the
\* run_started of chat.go:175): no replay can return one, and a slot it takes in
\* a client's channel is a slot less of BufferSize.
Receive(p) ==
    /\ ppc[p] = "waiting" /\ answer[pev[p]] # "none"
    /\ Goto(p, IF answer[pev[p]] = "ok" THEN "stored" ELSE "idle")
    /\ UNCHANGED <<clock, open, workerVars, pev, targets, connVars, browserVars, faults>>

\* saveEventToDBSync: encoding and the insertion, either of which may fail.
SaveSync(p) ==
    /\ ppc[p] = "sync"
    /\ \/ db' = db \cup {pev[p]} /\ Goto(p, "stored") /\ UNCHANGED faults
       \/ Fault /\ Goto(p, "idle") /\ UNCHANGED db
    /\ UNCHANGED <<clock, open, queue, worker, exited, answer, pev, targets,
                   connVars, browserVars>>

-----------------------------------------------------------------------------
(* The persist worker.                                                      *)

WorkerTake ==
    /\ ~exited /\ worker = Idle /\ queue # <<>>
    /\ worker' = Head(queue) /\ queue' = Tail(queue)
    /\ UNCHANGED <<clock, open, exited, db, answer, producerVars, connVars,
                   browserVars, faults>>

RunPersistJob ==
    /\ worker # Idle
    /\ \/ db' = db \cup {worker} /\ answer' = [answer EXCEPT ![worker] = "ok"]
          /\ UNCHANGED faults
       \/ Fault /\ answer' = [answer EXCEPT ![worker] = "failed"] /\ UNCHANGED db
    /\ worker' = Idle
    /\ UNCHANGED <<clock, open, queue, exited, producerVars, connVars, browserVars>>

\* Leaves without draining.
WorkerExitMutant ==
    /\ ~open /\ ~exited /\ worker = Idle
    /\ exited' = TRUE
    /\ UNCHANGED <<clock, open, queue, worker, db, answer, producerVars, connVars,
                   browserVars, faults>>

\* After the cancellation the worker leaves when it finds the queue empty.
WorkerExit ==
    /\ ~open /\ ~exited /\ worker = Idle /\ queue = <<>>
    /\ exited' = TRUE
    /\ UNCHANGED <<clock, open, queue, worker, db, answer, producerVars, connVars,
                   browserVars, faults>>

\* The queue is taken away from under a submitter that holds the read lock.
ShutdownMutant ==
    /\ open /\ open' = FALSE
    /\ UNCHANGED <<clock, workerVars, producerVars, connVars, browserVars, faults>>

\* The stop function: eventPersistMu.Lock waits for the readers.
Shutdown ==
    /\ open /\ \A p \in Producer : ppc[p] # "locked"
    /\ open' = FALSE
    /\ UNCHANGED <<clock, workerVars, producerVars, connVars, browserVars, faults>>

-----------------------------------------------------------------------------
(* SSEBroker.Broadcast.                                                     *)

\* A connection counts as a client only when its replay is over.
RegisteredMutant == {c \in Client : cpc[c] = "live"}

Registered == {c \in Client : cpc[c] # "off"}

\* The clients of the session are copied under the lock.
Broadcast(p) ==
    /\ ppc[p] = "stored"
    /\ targets' = [targets EXCEPT ![p] = Registered]
    /\ Goto(p, "sending")
    /\ UNCHANGED <<clock, open, workerVars, pev, connVars, browserVars, faults>>

\* Without the lock: a place in the client's buffer, or the overflow mark.
SendTo(p, c) ==
    /\ ppc[p] = "sending" /\ c \in targets[p]
    /\ targets' = [targets EXCEPT ![p] = @ \ {c}]
    /\ IF Len(buffer[c]) < BufferSize
       THEN buffer' = [buffer EXCEPT ![c] = Append(@, pev[p])] /\ UNCHANGED overflow
       ELSE overflow' = [overflow EXCEPT ![c] = TRUE] /\ UNCHANGED buffer
    /\ UNCHANGED <<clock, open, workerVars, ppc, pev, cpc, replayed, mode, base,
                   missing, got, browserVars, faults>>

BroadcastEnds(p) ==
    /\ ppc[p] = "sending" /\ targets[p] = {}
    /\ Goto(p, "idle")
    /\ UNCHANGED <<clock, open, workerVars, pev, targets, connVars, browserVars, faults>>

-----------------------------------------------------------------------------
(* SSEHandler.                                                              *)

\* A page loads the session's state, and its first connection has no cursor.
Register(c) ==
    /\ cpc[c] = "off" /\ connects[c] < MaxConnects
    /\ connects' = [connects EXCEPT ![c] = @ + 1]
    /\ cpc' = [cpc EXCEPT ![c] = "registered"]
    /\ buffer' = [buffer EXCEPT ![c] = <<>>] /\ got' = [got EXCEPT ![c] = <<>>]
    /\ overflow' = [overflow EXCEPT ![c] = FALSE]
    /\ replayed' = [replayed EXCEPT ![c] = {}]
    /\ mode' = [mode EXCEPT ![c] = "fresh"] /\ missing' = [missing EXCEPT ![c] = {}]
    /\ base' = [base EXCEPT ![c] = cursor[c]]
    /\ seen' = IF cursor[c] = Idle THEN [seen EXCEPT ![c] = @ \cup db] ELSE seen
    /\ UNCHANGED <<clock, open, workerVars, producerVars, cursor, faults>>

\* ORDER BY created_at: the i-th stored event has i stamps up to its own.
InStampOrder(stored) ==
    [i \in 1 .. Cardinality(stored) |->
        CHOOSE e \in stored : Cardinality({x \in stored : x <= e}) = i]

\* listWindow and mergeMessageWindows over what is stored.
Window(stored) ==
    LET all == InStampOrder(stored)
    IN  IF Len(all) <= WindowHead + WindowTail THEN all
        ELSE SubSeq(all, 1, WindowHead)
             \o SubSeq(all, Len(all) - WindowTail + 1, Len(all))

\* sessionReplayMessages.
After(messages, e) ==
    LET i == CHOOSE j \in DOMAIN messages : messages[j] = e
    IN  SubSeq(messages, i + 1, Len(messages))

\* Written to the connection: what it wrote, what the browser has, its cursor.
Write(c, events) ==
    /\ got' = [got EXCEPT ![c] = @ \o events]
    /\ seen' = [seen EXCEPT ![c] = @ \cup ToSet(events)]
    /\ cursor' = [cursor EXCEPT ![c] = IF events = <<>> THEN @ ELSE Last(events)]

\* replaySessionMessages: nothing without a cursor; nothing, and no word to the
\* client, when the log cannot be read; a request to resynchronize when the
\* cursor is not in the window; else what follows the cursor.
Replay(c) ==
    /\ cpc[c] = "registered"
    /\ cpc' = [cpc EXCEPT ![c] = "replayed"]
    /\ LET messages == Window(db)
           replay == After(messages, cursor[c])
       IN  \/ /\ cursor[c] = Idle
              /\ UNCHANGED <<replayed, mode, missing, got, seen, cursor, faults>>
           \/ /\ cursor[c] # Idle /\ Fault
              /\ mode' = [mode EXCEPT ![c] = "failed"]
              /\ UNCHANGED <<replayed, missing, got, seen, cursor>>
           \/ /\ cursor[c] # Idle /\ cursor[c] \notin ToSet(messages)
              /\ mode' = [mode EXCEPT ![c] = "resync"]
              /\ UNCHANGED <<replayed, missing, got, seen, cursor, faults>>
           \/ /\ cursor[c] # Idle /\ cursor[c] \in ToSet(messages)
              /\ Write(c, replay)
              /\ replayed' = [replayed EXCEPT ![c] = ToSet(replay)]
              /\ missing' = [missing EXCEPT ![c] = db \ ToSet(messages)]
              /\ mode' = [mode EXCEPT ![c] = "replayed"]
              /\ UNCHANGED faults
    /\ UNCHANGED <<clock, open, workerVars, producerVars, buffer, overflow, base,
                   connects>>

\* The replay is written and the handler enters its loop.
Stream(c) ==
    /\ cpc[c] = "replayed"
    /\ cpc' = [cpc EXCEPT ![c] = "live"]
    /\ UNCHANGED <<clock, open, workerVars, producerVars, buffer, overflow, replayed,
                   mode, base, missing, got, browserVars, faults>>

\* deliverSSEMessage; the mark of an overflow is looked at before the select, so
\* a message may still be taken after it was set.
Deliver(c) ==
    /\ cpc[c] = "live" /\ buffer[c] # <<>>
    /\ buffer' = [buffer EXCEPT ![c] = Tail(@)]
    /\ Write(c, IF Head(buffer[c]) \in replayed[c] THEN <<>> ELSE <<Head(buffer[c])>>)
    /\ UNCHANGED <<clock, open, workerVars, producerVars, cpc, overflow, replayed,
                   mode, base, missing, connects, faults>>

\* Unregister: the browser went away, a write failed, the overflow was reported,
\* or CloseSession closed every client.  A send that is still under way goes to
\* a channel nobody reads; the next connection has a channel of its own.
Leave(gone) ==
    /\ gone # {} /\ gone \subseteq Registered
    /\ cpc' = [c \in Client |-> IF c \in gone THEN "off" ELSE cpc[c]]
    /\ buffer' = [c \in Client |-> IF c \in gone THEN <<>> ELSE buffer[c]]
    /\ overflow' = [c \in Client |-> overflow[c] /\ c \notin gone]
    /\ targets' = [p \in Producer |-> targets[p] \ gone]
    /\ UNCHANGED <<clock, open, workerVars, ppc, pev, replayed, mode, base,
                   missing, got, browserVars, faults>>

Unregister(c) == Leave({c})
CloseSession == Leave(Registered)

-----------------------------------------------------------------------------

Produce(p) ==
    \/ Submit(p) \/ Enqueue(p) \/ ContextDone(p) \/ Receive(p) \/ SaveSync(p)
    \/ Broadcast(p) \/ BroadcastEnds(p) \/ \E c \in Client : SendTo(p, c)

Work == WorkerTake \/ RunPersistJob \/ WorkerExit

Next ==
    \/ \E p \in Producer : Produce(p)
    \/ Work \/ Shutdown \/ CloseSession
    \/ \E c \in Client : Register(c) \/ Replay(c) \/ Stream(c) \/ Deliver(c) \/ Unregister(c)

Spec == Init /\ [][Next]_vars

\* Goroutines are scheduled: the worker's, and each producer's once it has
\* submitted an event.
FairSpec ==
    /\ Spec /\ WF_vars(Work)
    /\ \A p \in Producer : WF_vars(ppc[p] # "idle" /\ Produce(p))

-----------------------------------------------------------------------------
(* Properties.                                                              *)

\* Types of the log, of the submitters and of the connections.
TypeOK ==
    /\ clock \in 0 .. MaxEvents /\ open \in BOOLEAN /\ exited \in BOOLEAN
    /\ queue \in Seq(Event) /\ Len(queue) <= QueueSize
    /\ worker \in Event \cup {Idle} /\ db \subseteq 1 .. clock
    /\ answer \in [Event -> {"none", "ok", "failed"}]
    /\ ppc \in [Producer -> {"idle", "locked", "waiting", "sync", "stored", "sending"}]
    /\ pev \in [Producer -> Event \cup {Idle}]
    /\ targets \in [Producer -> SUBSET Client]
    /\ cpc \in [Client -> {"off", "registered", "replayed", "live"}]
    /\ \A c \in Client : Len(buffer[c]) <= BufferSize
    /\ mode \in [Client -> {"fresh", "replayed", "resync", "failed"}]

\* Delivery never implies persistence that has not happened: a submitted event
\* that a client was sent, or is about to be sent, is stored.  Notices sent
\* without an id are not submitted events.
DeliveredIsPersisted ==
    \A c \in Client : ToSet(got[c]) \cup ToSet(buffer[c]) \subseteq db

\* The worker never leaves a submitter behind: when it has returned the queue is
\* empty and every event that was queued is answered.
NoStrandedJob ==
    exited => queue = <<>> /\ \A p \in Producer :
                                 ppc[p] = "waiting" => answer[pev[p]] # "none"

\* On one connection no event is written twice, although an event that is stored
\* between the registration and the read of the log comes both ways.
NoDuplicate == \A c \in Client : IsInjective(got[c])

\* A connection that was replayed has no hole after the cursor it began with:
\* each later event was replayed, is written or waits in its buffer, unless it
\* is still on its way, the buffer overflowed, or the window left it out.
OnItsWay(e, c) ==
    \E p \in Producer :
        pev[p] = e /\ (ppc[p] \in {"waiting", "stored"} \/ c \in targets[p])
ConnectionComplete ==
    \A c \in Client :
        cpc[c] = "live" /\ mode[c] = "replayed" /\ ~overflow[c] =>
            \A e \in db : e > base[c] =>
                e \in ToSet(got[c]) \cup ToSet(buffer[c]) \cup missing[c] \/ OnItsWay(e, c)

\* Every submitted event is answered, through the queue, the shutdown's drain or
\* the synchronous path.
Answered ==
    \A p \in Producer : ppc[p] \in {"locked", "waiting", "sync"} ~>
                            ppc[p] \in {"stored", "sending", "idle"}

\* A replay returns the messages a reconnecting client has not seen.
ReplayComplete ==
    \A c \in Client :
        cpc[c] = "live" /\ mode[c] = "replayed" /\ ~overflow[c] =>
            \A e \in db \ missing[c] :
                e \in seen[c] \cup ToSet(buffer[c]) \/ OnItsWay(e, c)
=============================================================================
