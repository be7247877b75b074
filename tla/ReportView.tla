------------------------------ MODULE ReportView ------------------------------
(***************************************************************************)
(* ReportViewCoordinator: the rendered view of a session's report.  Report   *)
(* edits request captures and never wait for them; one goroutine drains the  *)
(* requests, newest first; the engine takes the newest view once per model   *)
(* request and is sent only the blocks whose hash changed since the last     *)
(* delivery.  A finalized report is captured synchronously, a user may ask   *)
(* for the view at any time from another handler, and the session may be     *)
(* closed at any time.                                                       *)
(*                                                                         *)
(* Actors: the engine goroutine (the run that holds the slot: the only one   *)
(* that edits the report), the drain goroutines Request spawns, one manual   *)
(* capture handler (which may also load a stored report into a session that  *)
(* shows none), and the goroutine that closes the session.  A block's        *)
(* content is a stamp drawn when it was written; its hash and its pixels     *)
(* are that stamp, read at possibly different times.                         *)
(***************************************************************************)
EXTENDS Integers, FiniteSets

CONSTANTS Block,       \* block IDs of the report
          Drainer,     \* identities of drain goroutines
          None,        \* no request, no view, no content
          MaxEdits,    \* how many times the report is edited or loaded
          MaxFinalize  \* how many synchronous captures are taken

ASSUME ReportViewAssumption ==
    /\ MaxEdits \in Nat /\ MaxFinalize \in Nat
    /\ None \notin Int

\* Content stamps, a report's blocks, what is requested, what is published.
Stamp == 0 .. MaxEdits
Blocks == [Block -> Stamp \cup {None}]
Requests == [version : Stamp, publish : Nat, html : Blocks, hashes : Blocks]
Views == [version : Nat, source : Stamp, pixels : Blocks, hashes : Blocks]

ASSUME NoneAssumption == None \notin Requests /\ None \notin Views

VARIABLES
    version,          \* ReportState.MutationVersion
    stamp,            \* the newest content stamp
    content,          \* what each block says now; None for no such block
    \* ---- the coordinator
    view, readyVersion, lastRequested, publishSequence,
    deliveredVersion, deliveredHashes,
    pending, running, closed,
    \* ---- goroutines
    drain, drainReq,  \* program counter and request of each drain goroutine
    eng, engReq,      \* the engine goroutine; a synchronous capture in flight
    man, manReq,      \* the manual capture handler and what it has read
    closer,           \* the goroutine in Close
    finalized,        \* synchronous captures taken
    \* ---- what the model has been sent
    shownHash, shown

report  == <<version, stamp, content>>
publish == <<view, readyVersion>>
queue   == <<lastRequested, publishSequence, pending, running>>
deliver == <<deliveredVersion, deliveredHashes, shownHash, shown>>
drains  == <<drain, drainReq>>
engine  == <<eng, engReq, finalized>>
manual  == <<man, manReq>>
vars == <<report, publish, queue, deliver, drains, engine, manual, closed,
          closer>>

NoBlocks == [b \in Block |-> None]

\* A session restored from a snapshot: blocks without a mutation.
Init ==
    /\ version = 0 /\ stamp = 0
    /\ content = [b \in Block |-> 0]
    /\ view = None /\ readyVersion = 0
    /\ lastRequested = -1 /\ publishSequence = 0
    /\ deliveredVersion = 0 /\ deliveredHashes = NoBlocks
    /\ pending = None /\ running = FALSE /\ closed = FALSE
    /\ drain = [d \in Drainer |-> "none"] /\ drainReq = [d \in Drainer |-> None]
    /\ eng = "step" /\ engReq = None
    /\ man = "idle" /\ manReq = None
    /\ closer = "idle" /\ finalized = 0
    /\ shownHash = NoBlocks /\ shown = NoBlocks

-----------------------------------------------------------------------------
(* Building and publishing.                                                 *)

\* BuildView: the requested document as the browser renders it.  A failed
\* capture is a view without slices; a block may fail to crop.
Built(req, captured) ==
    [version |-> req.publish, source |-> req.version,
     pixels |-> [b \in Block |-> IF b \in captured THEN req.html[b] ELSE None],
     hashes |-> [b \in Block |-> IF b \in captured THEN req.hashes[b] ELSE None]]

Rendered(req) == {b \in Block : req.html[b] # None}

\* go c.drain(): a goroutine that does not exist yet.
NewDrainer == CHOOSE d \in Drainer : drain[d] = "none"

Spawn ==
    /\ \E d \in Drainer : drain[d] = "none"
    /\ drain' = [drain EXCEPT ![NewDrainer] = "take"]
    /\ UNCHANGED drainReq

\* A request that arrives mid-capture is dropped.
RequestDropMutant(req) ==
    IF closed \/ req.version <= lastRequested
    THEN UNCHANGED <<queue, drains>>
    ELSE /\ lastRequested' = req.version
         /\ publishSequence' = publishSequence + 1
         /\ IF running
            THEN UNCHANGED <<pending, running, drains>>
            ELSE /\ Spawn
                 /\ pending' = [req EXCEPT !.publish = publishSequence']
                 /\ running' = TRUE

\* A Request that does not look whether the coordinator is closed.
RequestClosedMutant(req) ==
    IF req.version <= lastRequested
    THEN UNCHANGED <<queue, drains>>
    ELSE /\ lastRequested' = req.version
         /\ publishSequence' = publishSequence + 1
         /\ pending' = [req EXCEPT !.publish = publishSequence']
         /\ IF running
            THEN UNCHANGED <<running, drains>>
            ELSE /\ Spawn
                 /\ running' = TRUE

\* Request's critical section: same version, no work; while a capture runs the
\* newest request replaces the queued one; else a drain goroutine is started.
Request(req) ==
    IF closed \/ req.version <= lastRequested
    THEN UNCHANGED <<queue, drains>>
    ELSE /\ lastRequested' = req.version
         /\ publishSequence' = publishSequence + 1
         /\ pending' = [req EXCEPT !.publish = publishSequence']
         /\ IF running
            THEN UNCHANGED <<running, drains>>
            ELSE /\ Spawn
                 /\ running' = TRUE

\* drain, top of the loop: take the newest request or stop.
DrainTake(d) ==
    /\ drain[d] = "take"
    /\ pending' = None
    /\ IF pending = None \/ closed
       THEN /\ running' = FALSE
            /\ drain' = [drain EXCEPT ![d] = "exit"]
            /\ UNCHANGED drainReq
       ELSE /\ drain' = [drain EXCEPT ![d] = "build"]
            /\ drainReq' = [drainReq EXCEPT ![d] = pending]
            /\ UNCHANGED running
    /\ UNCHANGED <<report, publish, lastRequested, publishSequence, deliver,
                   engine, manual, closed, closer>>

\* Publishes whatever it built, however late.
DrainPublishMutant(d) ==
    /\ drain[d] = "build"
    /\ \E captured \in SUBSET Rendered(drainReq[d]) :
           view' = Built(drainReq[d], captured)
    /\ readyVersion' = drainReq[d].publish
    /\ drain' = [drain EXCEPT ![d] = "take"]
    /\ drainReq' = [drainReq EXCEPT ![d] = None]
    /\ UNCHANGED <<report, queue, deliver, engine, manual, closed, closer>>

\* capture, then the publishing critical section.
DrainPublish(d) ==
    /\ drain[d] = "build"
    /\ IF ~closed /\ drainReq[d].publish > readyVersion
       THEN /\ \E captured \in SUBSET Rendered(drainReq[d]) :
                   view' = Built(drainReq[d], captured)
            /\ readyVersion' = drainReq[d].publish
       ELSE UNCHANGED publish
    /\ drain' = [drain EXCEPT ![d] = "take"]
    /\ drainReq' = [drainReq EXCEPT ![d] = None]
    /\ UNCHANGED <<report, queue, deliver, engine, manual, closed, closer>>

\* The deferred wg.Done.
DrainExit(d) ==
    /\ drain[d] = "exit"
    /\ drain' = [drain EXCEPT ![d] = "none"]
    /\ UNCHANGED <<report, publish, queue, deliver, drainReq, engine, manual,
                   closed, closer>>

-----------------------------------------------------------------------------
(* The engine goroutine.                                                    *)

Reading(html, hashes) ==
    [version |-> version, publish |-> 0, html |-> html, hashes |-> hashes]

\* A report tool writes or removes a block; the lifecycle hook then triggers a
\* capture, unless the run was cancelled before the tool's event was emitted.
Edit(b) ==
    /\ eng = "step" /\ stamp < MaxEdits
    /\ version' = version + 1 /\ stamp' = stamp + 1
    /\ \E c \in {stamp', None} : content' = [content EXCEPT ![b] = c]
    /\ eng' \in {"trigger", "step"}
    /\ UNCHANGED <<publish, queue, deliver, drains, engReq, finalized, manual,
                   closed, closer>>

\* LoadReportSnapshot replaces the blocks and leaves MutationVersion alone: as a
\* run is prepared, or, whatever the engine is doing, as CaptureReportViewHandler
\* hydrates a session whose report shows no block.
LoadReportSnapshot ==
    /\ eng = "step" \/ content = NoBlocks
    /\ stamp < MaxEdits
    /\ stamp' = stamp + 1
    /\ content' = [b \in Block |-> stamp']
    /\ UNCHANGED <<version, publish, queue, deliver, drains, engine, manual,
                   closed, closer>>

\* triggerReportCapture: no other goroutine edits, so its two reads agree, unless
\* an empty report is hydrated between them, which is left out.
TriggerReportCapture ==
    /\ eng = "trigger"
    /\ Request(Reading(content, content))
    /\ eng' = "step"
    /\ UNCHANGED <<report, publish, deliver, engReq, finalized, manual, closed,
                   closer>>

\* CaptureNow up to the build.
CaptureNowStart ==
    /\ eng = "step" /\ finalized < MaxFinalize
    /\ finalized' = finalized + 1
    /\ IF closed
       THEN UNCHANGED <<queue, eng, engReq>>
       ELSE /\ lastRequested' = IF version > lastRequested
                              THEN version ELSE lastRequested
            /\ publishSequence' = publishSequence + 1
            /\ engReq' = [Reading(content, content) EXCEPT
                              !.publish = publishSequence']
            /\ eng' = "capturing"
            /\ UNCHANGED <<pending, running>>
    /\ UNCHANGED <<report, publish, deliver, drains, manual, closed, closer>>

\* CaptureNow's publishing critical section; the next request carries it in full.
CaptureNowPublish ==
    /\ eng = "capturing"
    /\ IF closed
       THEN UNCHANGED <<publish, deliver>>
       ELSE /\ IF engReq.publish >= readyVersion
               THEN /\ \E captured \in SUBSET Rendered(engReq) :
                           view' = Built(engReq, captured)
                    /\ readyVersion' = engReq.publish
               ELSE UNCHANGED publish
            /\ deliveredVersion' = 0 /\ deliveredHashes' = NoBlocks
            /\ UNCHANGED <<shownHash, shown>>
    /\ eng' = "step" /\ engReq' = None
    /\ UNCHANGED <<report, queue, drains, finalized, manual, closed, closer>>

\* dirtyOnlyLocked: the slices to send.
Dirty(b) ==
    /\ view.hashes[b] # None \/ view.pixels[b] # None
    /\ \/ deliveredHashes = NoBlocks
       \/ view.hashes[b] = None
       \/ view.hashes[b] # deliveredHashes[b]

DeliverOnly(dirty) ==
    /\ eng = "step"
    /\ ~closed /\ view # None /\ view.version > deliveredVersion
    /\ shown' = [b \in Block |-> IF b \in dirty THEN view.pixels[b] ELSE shown[b]]
    /\ shownHash' =
           [b \in Block |-> IF b \in dirty THEN view.hashes[b] ELSE shownHash[b]]
    /\ deliveredVersion' = view.version
    /\ deliveredHashes' = view.hashes
    /\ UNCHANGED <<report, publish, queue, drains, engine, manual, closed,
                   closer>>

\* ForRequest: the newest view is handed out once, changed slices only.
ForRequest == DeliverOnly({b \in Block : Dirty(b)})

-----------------------------------------------------------------------------
(* CaptureReportViewHandler: the document and its version are read under one *)
(* read lock, the hashes under another.                                      *)

ManualReadDocument ==
    /\ man = "idle"
    /\ manReq' = Reading(content, NoBlocks)
    /\ man' = "hashes"
    /\ UNCHANGED <<report, publish, queue, deliver, drains, engine, closed,
                   closer>>

ManualReadHashes ==
    /\ man = "hashes"
    /\ manReq' = [manReq EXCEPT !.hashes = content]
    /\ man' = "manual"
    /\ UNCHANGED <<report, publish, queue, deliver, drains, engine, closed,
                   closer>>

\* RequestManual's first critical section: the model has seen nothing.
RequestManual ==
    /\ man = "manual"
    /\ IF closed
       THEN man' = "idle" /\ manReq' = None /\ UNCHANGED deliver
       ELSE /\ deliveredVersion' = 0 /\ deliveredHashes' = NoBlocks
            /\ UNCHANGED <<shownHash, shown>>
            /\ IF view = None \/ manReq.version > lastRequested
               THEN man' = "request" /\ UNCHANGED manReq
               ELSE man' = "idle" /\ manReq' = None
    /\ UNCHANGED <<report, publish, queue, drains, engine, closed, closer>>

ManualRequest ==
    /\ man = "request"
    /\ Request(manReq)
    /\ man' = "idle" /\ manReq' = None
    /\ UNCHANGED <<report, publish, deliver, engine, closed, closer>>

-----------------------------------------------------------------------------
(* Close, from Manager.Delete or the TTL cleanup.                            *)

Close ==
    /\ closer = "idle"
    /\ closed' = TRUE /\ pending' = None
    /\ closer' = "waiting"
    /\ UNCHANGED <<report, publish, lastRequested, publishSequence, running,
                   deliver, drains, engine, manual>>

CloseReturns ==
    /\ closer = "waiting"
    /\ \A d \in Drainer : drain[d] = "none"
    /\ closer' = "returned"
    /\ UNCHANGED <<report, publish, queue, deliver, drains, engine, manual,
                   closed>>

-----------------------------------------------------------------------------

DrainStep(d) == DrainTake(d) \/ DrainPublish(d) \/ DrainExit(d)

EngineFinishes == TriggerReportCapture \/ CaptureNowPublish

ManualFinishes == ManualReadHashes \/ RequestManual \/ ManualRequest

Next ==
    \/ \E d \in Drainer : DrainStep(d)
    \/ \E b \in Block : Edit(b)
    \/ LoadReportSnapshot
    \/ CaptureNowStart
    \/ EngineFinishes
    \/ ForRequest
    \/ ManualReadDocument
    \/ ManualFinishes
    \/ Close \/ CloseReturns

Spec == Init /\ [][Next]_vars

\* Goroutines are scheduled and a build ends within its timeout; nobody has to
\* edit, finalize, deliver, ask or close.
Fairness ==
    /\ \A d \in Drainer : WF_vars(DrainStep(d))
    /\ WF_vars(EngineFinishes) /\ WF_vars(ManualFinishes) /\ WF_vars(CloseReturns)

FairSpec == Spec /\ Fairness

-----------------------------------------------------------------------------
(* Properties.                                                              *)

ReportType ==
    /\ version \in Stamp /\ stamp \in Stamp /\ content \in Blocks

PublishType == view \in Views \cup {None} /\ readyVersion \in Nat

QueueType ==
    /\ lastRequested \in Stamp \cup {-1} /\ publishSequence \in Nat
    /\ pending \in Requests \cup {None}
    /\ running \in BOOLEAN /\ closed \in BOOLEAN

DeliverType ==
    /\ deliveredVersion \in Nat /\ deliveredHashes \in Blocks
    /\ shownHash \in Blocks /\ shown \in Blocks

GoroutineType ==
    /\ drain \in [Drainer -> {"none", "take", "build", "exit"}]
    /\ drainReq \in [Drainer -> Requests \cup {None}]
    /\ eng \in {"step", "trigger", "capturing"} /\ engReq \in Requests \cup {None}
    /\ man \in {"idle", "hashes", "manual", "request"}
    /\ manReq \in Requests \cup {None}
    /\ closer \in {"idle", "waiting", "returned"}
    /\ finalized \in 0 .. MaxFinalize

\* Every variable has its type.
TypeOK == ReportType /\ PublishType /\ QueueType /\ DeliverType /\ GoroutineType

Draining(d) == drain[d] \in {"take", "build"}

\* single-flight: at most one goroutine captures for Request at any time, and
\* there is one exactly while the coordinator says so, so that no request is
\* left behind with nobody to take it.
SingleFlight ==
    /\ \A c, d \in Drainer : Draining(c) /\ Draining(d) => c = d
    /\ running <=> \E d \in Drainer : Draining(d)
    /\ pending # None => running

\* Once Close has returned no capture goroutine is left and none will start.
CloseIsFinal ==
    closer = "returned" => ~running /\ \A d \in Drainer : drain[d] = "none"

\* The published view never goes back to an older report version, although the
\* drain goroutine, a synchronous capture and a late manual request race to
\* publish, and nothing is published once the session is closed.
PublishStep ==
    /\ view # None => view' # None /\ view'.source >= view.source
                                   /\ view'.version >= view.version
    /\ closed => view' = view
ViewNeverGoesBack == [][PublishStep]_vars

\* The delivery baseline is what the model was sent: a block is left out of a
\* delivery only if the last slice of it that was sent had the same hash.
BaselineWasSent ==
    \A b \in Block :
        deliveredHashes[b] # None => shownHash[b] = deliveredHashes[b]

\* The requests that are queued or being captured.
InFlight ==
    ({pending, engReq} \cup {drainReq[d] : d \in Drainer}) \ {None}

\* A goroutine holds a request exactly while it builds it, and a closed
\* coordinator has nothing queued.
Held ==
    /\ \A d \in Drainer : drain[d] = "build" <=> drainReq[d] # None
    /\ eng = "capturing" <=> engReq # None
    /\ man = "idle" <=> manReq = None
    /\ closer # "idle" => closed
    /\ closed => pending = None

\* Request, CaptureNow and RequestManual draw publish numbers in the order of the
\* report versions they show: of two captures in flight, or of one and the
\* published view, the higher number never has the older report.
VersionOrder ==
    /\ version <= stamp /\ lastRequested <= version
    /\ manReq # None => manReq.version <= version
    /\ view # None => view.version = readyVersion /\ view.source <= lastRequested
    /\ readyVersion <= publishSequence
    /\ \A r \in InFlight :
        /\ r.publish <= publishSequence /\ r.version <= lastRequested
        /\ view # None /\ view.version <= r.publish => view.source <= r.version
    /\ \A r, s \in InFlight : r.publish <= s.publish => r.version <= s.version

\* The inductive invariant.
ViewInv == TypeOK /\ SingleFlight /\ CloseIsFinal /\ BaselineWasSent
           /\ Held /\ VersionOrder

Behind == lastRequested >= 0 /\ (view = None \/ view.source < lastRequested)

\* latest-wins loses nothing: while the report version last requested has not
\* been captured, a capture of it or of a newer one is still to come, unless the
\* session is closed.
ViewCatchesUp == Behind ~> closed \/ ~Behind

\* Once a view has been delivered, the model has been sent every block of it as
\* that view shows it: what it was told is unchanged looks as it did.
PartialViewHonest ==
    view # None /\ deliveredVersion = view.version =>
        \A b \in Block : view.pixels[b] # None => shown[b] = view.pixels[b]
=============================================================================
