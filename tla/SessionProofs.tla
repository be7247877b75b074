---------------------------- MODULE SessionProofs ----------------------------
(***************************************************************************)
(* Proofs about the three services of a session: the report view           *)
(* coordinator (ReportView), the job manager (BackgroundJobs) and the      *)
(* manager that caches, cleans up and deletes sessions (SessionManager),   *)
(* for any number of blocks, goroutines, jobs, handlers, deletions,        *)
(* objects and faults.  The three share no state, and each theorem is      *)
(* about the specification of one of them.                                 *)
(*                                                                         *)
(* View: ViewInv is the inductive invariant.  That the view does not go    *)
(* back follows from VersionOrder (a higher publish number never belongs   *)
(* to an older report), and that Close is final from SingleFlight (without *)
(* a drain goroutine nobody says running).                                 *)
(***************************************************************************)
EXTENDS ReportView, BackgroundJobs, SessionManager, FiniteSetTheorems,
        SequenceTheorems, TLAPS

\* The goroutine that go c.drain() starts did not exist before.
LEMMA NewDrainerIsNew ==
    ASSUME \E d \in Drainer : drain[d] = "none"
    PROVE  NewDrainer \in Drainer /\ drain[NewDrainer] = "none"
  BY DEF NewDrainer

\* A view built from a well-typed request is well-typed and is a view.
LEMMA BuiltTyped ==
    ASSUME NEW req \in Requests, NEW captured \in SUBSET Block
    PROVE  /\ Built(req, captured) \in Views
           /\ Built(req, captured) # None
           /\ Built(req, captured).version = req.publish
           /\ Built(req, captured).source = req.version
  <1>1. req.html \in Blocks /\ req.hashes \in Blocks
      BY DEF Requests
  <1>2. [b \in Block |-> IF b \in captured THEN req.html[b] ELSE None] \in Blocks
      BY <1>1 DEF Blocks
  <1>3. [b \in Block |-> IF b \in captured THEN req.hashes[b] ELSE None] \in Blocks
      BY <1>1 DEF Blocks
  <1>4. req.publish \in Nat /\ req.version \in Stamp
      BY DEF Requests
  <1>5. Built(req, captured) \in Views
      BY <1>2, <1>3, <1>4 DEF Built, Views
  <1> QED  BY <1>5, NoneAssumption DEF Built

\* A request is not None, and numbering it keeps it a request.
LEMMA NumberedTyped ==
    ASSUME NEW req \in Requests, NEW n \in Nat
    PROVE  /\ [req EXCEPT !.publish = n] \in Requests
           /\ [req EXCEPT !.publish = n] # None
           /\ [req EXCEPT !.publish = n].publish = n
           /\ [req EXCEPT !.publish = n].version = req.version
  <1>1. [req EXCEPT !.publish = n] \in Requests
      BY DEF Requests
  <1> QED  BY <1>1, NoneAssumption DEF Requests

\* What a caller reads of the report is a request.
LEMMA ReadingTyped ==
    ASSUME ReportType, NEW html \in Blocks, NEW hashes \in Blocks
    PROVE  /\ Reading(html, hashes) \in Requests
           /\ Reading(html, hashes) # None
           /\ Reading(html, hashes).version = version
  <1>1. Reading(html, hashes) \in Requests
      BY DEF Reading, Requests, ReportType
  <1> QED  BY <1>1, NoneAssumption DEF Reading

\* The empty report is a report.
LEMMA NoBlocksTyped == NoBlocks \in Blocks
  BY DEF NoBlocks, Blocks

-----------------------------------------------------------------------------
(* Type correctness.                                                        *)

\* Request leaves the queue and the drain goroutines well-typed.
LEMMA RequestTyped ==
    ASSUME TypeOK, NEW req \in Requests, Request(req)
    PROVE  /\ lastRequested' \in Stamp \cup {-1} /\ publishSequence' \in Nat
           /\ pending' \in Requests \cup {None} /\ running' \in BOOLEAN
           /\ drain' \in [Drainer -> {"none", "take", "build", "exit"}]
           /\ drainReq' = drainReq
  <1> USE DEF TypeOK, QueueType, GoroutineType, queue, drains
  <1>1. CASE closed \/ req.version <= lastRequested
      BY <1>1 DEF Request
  <1>2. CASE ~(closed \/ req.version <= lastRequested)
      <2>1. /\ lastRequested' = req.version
            /\ publishSequence' = publishSequence + 1
            /\ pending' = [req EXCEPT !.publish = publishSequence']
            /\ drainReq' = drainReq
            /\ running' \in BOOLEAN
          BY <1>2 DEF Request, Spawn
      <2>2. pending' \in Requests
          BY <2>1, NumberedTyped
      <2>3. drain' \in [Drainer -> {"none", "take", "build", "exit"}]
          BY <1>2, NewDrainerIsNew DEF Request, Spawn
      <2>4. req.version \in Stamp
          BY DEF Requests
      <2> QED  BY <2>1, <2>2, <2>3, <2>4
  <1> QED  BY <1>1, <1>2

\* The steps of a drain goroutine keep the types.
LEMMA DrainTyped ==
    ASSUME TypeOK, Held, NEW d \in Drainer, DrainStep(d)
    PROVE  TypeOK'
  <1> USE DEF TypeOK, ReportType, PublishType, QueueType, DeliverType,
      GoroutineType, report, publish, queue, deliver, drains, engine, manual
  <1>1. CASE DrainTake(d)
      BY <1>1 DEF DrainTake
  <1>2. CASE DrainPublish(d)
      <2>1. drainReq[d] \in Requests
          BY <1>2 DEF DrainPublish, Held
      <2>2. PublishType'
          <3>1. CASE ~closed /\ drainReq[d].publish > readyVersion
              <4>1. PICK captured \in SUBSET Rendered(drainReq[d]) :
                        view' = Built(drainReq[d], captured)
                  BY <1>2, <3>1 DEF DrainPublish
              <4>2. view' \in Views
                  BY <2>1, <4>1, BuiltTyped DEF Rendered
              <4> QED  BY <1>2, <2>1, <3>1, <4>2 DEF DrainPublish, Requests
          <3>2. CASE ~(~closed /\ drainReq[d].publish > readyVersion)
              BY <1>2, <3>2 DEF DrainPublish
          <3> QED  BY <3>1, <3>2
      <2>3. ReportType' /\ QueueType' /\ DeliverType' /\ GoroutineType'
          BY <1>2 DEF DrainPublish
      <2> QED  BY <2>2, <2>3
  <1>3. CASE DrainExit(d)
      BY <1>3 DEF DrainExit
  <1> QED  BY <1>1, <1>2, <1>3 DEF DrainStep

\* The steps of the engine goroutine keep the types.
LEMMA EngineTyped ==
    ASSUME TypeOK, Held, VersionOrder,
           \/ \E b \in Block : Edit(b)
           \/ LoadReportSnapshot \/ CaptureNowStart \/ EngineFinishes
           \/ ForRequest
    PROVE  TypeOK'
  <1> USE ReportViewAssumption, NoBlocksTyped
      DEF TypeOK, ReportType, PublishType, QueueType, DeliverType,
      GoroutineType, report, publish, queue, deliver, drains, engine, manual
  <1>1. ASSUME NEW b \in Block, Edit(b)  PROVE TypeOK'
      BY <1>1 DEF Edit, VersionOrder, Stamp, Blocks
  <1>2. CASE LoadReportSnapshot
      BY <1>2 DEF LoadReportSnapshot, Stamp, Blocks
  <1>3. CASE CaptureNowStart
      <2>1. CASE closed
          BY <1>3, <2>1 DEF CaptureNowStart
      <2>2. CASE ~closed
          <3>1. Reading(content, content) \in Requests
              BY ReadingTyped
          <3>2. publishSequence' \in Nat
              BY <1>3, <2>2 DEF CaptureNowStart
          <3>3. engReq' \in Requests
              BY <1>3, <2>2, <3>1, <3>2, NumberedTyped DEF CaptureNowStart
          <3> QED  BY <1>3, <2>2, <3>2, <3>3 DEF CaptureNowStart
      <2> QED  BY <2>1, <2>2
  <1>4. CASE TriggerReportCapture
      <2>1. Reading(content, content) \in Requests
          BY ReadingTyped
      <2> HIDE DEF TypeOK
      <2>2. /\ lastRequested' \in Stamp \cup {-1} /\ publishSequence' \in Nat
            /\ pending' \in Requests \cup {None} /\ running' \in BOOLEAN
            /\ drain' \in [Drainer -> {"none", "take", "build", "exit"}]
            /\ drainReq' = drainReq
          BY <1>4, <2>1, RequestTyped DEF TriggerReportCapture
      <2> QED  BY <1>4, <2>2 DEF TriggerReportCapture, TypeOK
  <1>5. CASE CaptureNowPublish
      <2>1. engReq \in Requests
          BY <1>5 DEF CaptureNowPublish, Held
      <2>2. PublishType'
          <3>1. CASE ~closed /\ engReq.publish >= readyVersion
              <4>1. PICK captured \in SUBSET Rendered(engReq) :
                        view' = Built(engReq, captured)
                  BY <1>5, <3>1 DEF CaptureNowPublish
              <4>2. view' \in Views
                  BY <2>1, <4>1, BuiltTyped DEF Rendered
              <4> QED  BY <1>5, <2>1, <3>1, <4>2 DEF CaptureNowPublish, Requests
          <3>2. CASE ~(~closed /\ engReq.publish >= readyVersion)
              BY <1>5, <3>2 DEF CaptureNowPublish
          <3> QED  BY <3>1, <3>2
      <2>3. ReportType' /\ QueueType' /\ DeliverType' /\ GoroutineType'
          BY <1>5 DEF CaptureNowPublish
      <2> QED  BY <2>2, <2>3
  <1>6. CASE ForRequest
      <2>1. view \in Views
          BY <1>6 DEF ForRequest, DeliverOnly
      <2>2. view.version \in Nat /\ view.hashes \in Blocks /\ view.pixels \in Blocks
          BY <2>1 DEF Views
      <2>3. DeliverType'
          BY <1>6, <2>2 DEF ForRequest, DeliverOnly, Blocks
      <2> QED  BY <1>6, <2>3 DEF ForRequest, DeliverOnly
  <1> QED  BY <1>1, <1>2, <1>3, <1>4, <1>5, <1>6 DEF EngineFinishes

\* The steps of the manual capture handler keep the types.
LEMMA ManualTyped ==
    ASSUME TypeOK, Held, ManualReadDocument \/ ManualFinishes
    PROVE  TypeOK'
  <1> USE NoBlocksTyped
      DEF TypeOK, ReportType, PublishType, QueueType, DeliverType,
      GoroutineType, report, publish, queue, deliver, drains, engine, manual
  <1>1. CASE ManualReadDocument
      <2>1. Reading(content, NoBlocks) \in Requests
          BY ReadingTyped
      <2> QED  BY <1>1, <2>1 DEF ManualReadDocument
  <1>2. CASE ManualReadHashes
      <2>1. manReq \in Requests
          BY <1>2 DEF ManualReadHashes, Held
      <2>2. [manReq EXCEPT !.hashes = content] \in Requests
          BY <2>1 DEF Requests
      <2> QED  BY <1>2, <2>2 DEF ManualReadHashes
  <1>3. CASE RequestManual
      BY <1>3 DEF RequestManual
  <1>4. CASE ManualRequest
      <2>1. manReq \in Requests
          BY <1>4 DEF ManualRequest, Held
      <2> HIDE DEF TypeOK
      <2>2. /\ lastRequested' \in Stamp \cup {-1} /\ publishSequence' \in Nat
            /\ pending' \in Requests \cup {None} /\ running' \in BOOLEAN
            /\ drain' \in [Drainer -> {"none", "take", "build", "exit"}]
            /\ drainReq' = drainReq
          BY <1>4, <2>1, RequestTyped DEF ManualRequest
      <2> QED  BY <1>4, <2>2 DEF ManualRequest, TypeOK
  <1> QED  BY <1>1, <1>2, <1>3, <1>4 DEF ManualFinishes

\* The steps of Close keep the types.
LEMMA CloseTyped ==
    ASSUME TypeOK, Close \/ CloseReturns
    PROVE  TypeOK'
  BY DEF Close, CloseReturns, TypeOK, ReportType, PublishType, QueueType,
     DeliverType, GoroutineType, report, publish, queue, deliver, drains, engine,
     manual

-----------------------------------------------------------------------------
(* One capture at a time, and none after Close.                             *)

\* Request starts a drain goroutine only when there is none, and never once the
\* coordinator is closed.
LEMMA RequestKeepsFlight ==
    ASSUME TypeOK, SingleFlight, NEW req \in Requests, Request(req)
    PROVE  /\ SingleFlight'
           /\ closed => UNCHANGED <<queue, drains>>
           /\ \A d \in Drainer : drain[d] = "build" <=> drain'[d] = "build"
  <1> USE DEF queue, drains
  <1>1. CASE closed \/ req.version <= lastRequested
      <2>1. UNCHANGED <<queue, drains>>
          BY <1>1 DEF Request
      <2> QED  BY <2>1 DEF SingleFlight, Draining
  <1>2. CASE ~(closed \/ req.version <= lastRequested) /\ running
      <2>1. running' = running /\ drain' = drain
          BY <1>2 DEF Request
      <2> QED  BY <1>2, <2>1 DEF SingleFlight, Draining
  <1>3. CASE ~(closed \/ req.version <= lastRequested) /\ ~running
      <2>1. /\ NewDrainer \in Drainer /\ drain[NewDrainer] = "none"
            /\ drain' = [drain EXCEPT ![NewDrainer] = "take"]
            /\ running' = TRUE
          BY <1>3, NewDrainerIsNew DEF Request, Spawn
      <2>2. \A d \in Drainer : ~Draining(d)
          BY <1>3 DEF SingleFlight
      <2>3. \A d \in Drainer : Draining(d)' <=> d = NewDrainer
          BY <2>1, <2>2 DEF Draining, TypeOK, GoroutineType
      <2>4. \A d \in Drainer : drain[d] = "build" <=> drain'[d] = "build"
          BY <2>1 DEF TypeOK, GoroutineType
      <2>5. SingleFlight'
          BY <2>1, <2>3 DEF SingleFlight
      <2> QED  BY <1>3, <2>4, <2>5
  <1> QED  BY <1>1, <1>2, <1>3

\* Every step keeps SingleFlight.
LEMMA FlightStep ==
    ASSUME TypeOK, SingleFlight, Held, Next
    PROVE  SingleFlight'
  <1> USE DEF report, publish, queue, deliver, drains, engine, manual
  <1>1. ASSUME NEW d \in Drainer, DrainTake(d)  PROVE SingleFlight'
      <2>1. Draining(d) /\ running
          BY <1>1 DEF SingleFlight, Draining, DrainTake
      <2>2. \A c \in Drainer : Draining(c) => c = d
          BY <2>1 DEF SingleFlight
      <2>3. CASE pending = None \/ closed
          <3>1. /\ running' = FALSE /\ pending' = None
                /\ drain' = [drain EXCEPT ![d] = "exit"]
              BY <1>1, <2>3 DEF DrainTake
          <3>2. \A c \in Drainer : ~Draining(c)'
              BY <2>2, <3>1 DEF Draining, TypeOK, GoroutineType
          <3> QED  BY <3>1, <3>2 DEF SingleFlight
      <2>4. CASE ~(pending = None \/ closed)
          <3>1. /\ running' = running /\ pending' = None
                /\ drain' = [drain EXCEPT ![d] = "build"]
              BY <1>1, <2>4 DEF DrainTake
          <3>2. \A c \in Drainer : Draining(c)' <=> c = d
              BY <2>2, <3>1 DEF Draining, TypeOK, GoroutineType
          <3> QED  BY <2>1, <3>1, <3>2 DEF SingleFlight
      <2> QED  BY <2>3, <2>4
  <1>2. ASSUME NEW d \in Drainer, DrainPublish(d)  PROVE SingleFlight'
      <2>1. /\ drain' = [drain EXCEPT ![d] = "take"] /\ drain[d] = "build"
            /\ running' = running /\ pending' = pending
          BY <1>2 DEF DrainPublish
      <2>2. \A c \in Drainer : Draining(c)' <=> Draining(c)
          BY <2>1 DEF Draining, TypeOK, GoroutineType
      <2> QED  BY <2>1, <2>2 DEF SingleFlight
  <1>3. ASSUME NEW d \in Drainer, DrainExit(d)  PROVE SingleFlight'
      <2>1. /\ drain' = [drain EXCEPT ![d] = "none"] /\ drain[d] = "exit"
            /\ running' = running /\ pending' = pending
          BY <1>3 DEF DrainExit
      <2>2. \A c \in Drainer : Draining(c)' <=> Draining(c)
          BY <2>1 DEF Draining, TypeOK, GoroutineType
      <2> QED  BY <2>1, <2>2 DEF SingleFlight
  <1>4. CASE TriggerReportCapture
      <2>1. Reading(content, content) \in Requests
          BY ReadingTyped DEF TypeOK, ReportType
      <2> QED  BY <1>4, <2>1, RequestKeepsFlight DEF TriggerReportCapture
  <1>5. CASE ManualRequest
      <2>1. manReq \in Requests
          BY <1>5 DEF ManualRequest, Held, TypeOK, GoroutineType
      <2> QED  BY <1>5, <2>1, RequestKeepsFlight DEF ManualRequest
  <1>6. CASE Close
      <2>1. pending' = None /\ running' = running /\ drain' = drain
          BY <1>6 DEF Close
      <2> QED  BY <2>1 DEF SingleFlight, Draining
  <1>7. ASSUME UNCHANGED <<pending, running, drain>>  PROVE SingleFlight'
      BY <1>7 DEF SingleFlight, Draining
  <1>8. CASE CaptureNowStart
      BY <1>8, <1>7 DEF CaptureNowStart
  <1>9. CASE \/ \E b \in Block : Edit(b)
             \/ LoadReportSnapshot \/ CaptureNowPublish \/ ForRequest
             \/ ManualReadDocument \/ ManualReadHashes \/ RequestManual
             \/ CloseReturns
      BY <1>9, <1>7 DEF Edit, LoadReportSnapshot, CaptureNowPublish, ForRequest,
         DeliverOnly, ManualReadDocument, ManualReadHashes, RequestManual,
         CloseReturns
  <1> QED  BY <1>1, <1>2, <1>3, <1>4, <1>5, <1>6, <1>8, <1>9
              DEF Next, DrainStep, EngineFinishes, ManualFinishes

\* Every step keeps Held.
LEMMA HeldStep ==
    ASSUME TypeOK, SingleFlight, Held, Next
    PROVE  Held'
  <1> USE NoneAssumption DEF report, publish, queue, deliver, drains, engine,
      manual
  <1>1. ASSUME NEW d \in Drainer, DrainStep(d)  PROVE Held'
      BY <1>1 DEF Held, DrainStep, DrainTake, DrainPublish, DrainExit, TypeOK,
         GoroutineType, QueueType
  <1>2. CASE TriggerReportCapture
      <2>1. Reading(content, content) \in Requests
          BY ReadingTyped DEF TypeOK, ReportType
      <2>2. /\ closed => UNCHANGED <<queue, drains>>
            /\ \A d \in Drainer : drain[d] = "build" <=> drain'[d] = "build"
          BY <1>2, <2>1, RequestKeepsFlight DEF TriggerReportCapture
      <2>3. drainReq' = drainReq
          BY <1>2, <2>1, RequestTyped DEF TriggerReportCapture
      <2> QED  BY <1>2, <2>2, <2>3 DEF TriggerReportCapture, Held
  <1>3. CASE ManualRequest
      <2>1. manReq \in Requests
          BY <1>3 DEF ManualRequest, Held, TypeOK, GoroutineType
      <2>2. /\ closed => UNCHANGED <<queue, drains>>
            /\ \A d \in Drainer : drain[d] = "build" <=> drain'[d] = "build"
          BY <1>3, <2>1, RequestKeepsFlight DEF ManualRequest
      <2>3. drainReq' = drainReq
          BY <1>3, <2>1, RequestTyped DEF ManualRequest
      <2> QED  BY <1>3, <2>2, <2>3 DEF ManualRequest, Held
  <1>4. CASE CaptureNowStart
      <2>1. Reading(content, content) \in Requests
          BY ReadingTyped DEF TypeOK, ReportType
      <2>2. ~closed => engReq' # None
          BY <1>4, <2>1, NumberedTyped
             DEF CaptureNowStart, TypeOK, QueueType
      <2> QED  BY <1>4, <2>2 DEF CaptureNowStart, Held
  <1>5. CASE ManualReadDocument
      <2>1. manReq' # None
          BY <1>5, ReadingTyped, NoBlocksTyped
             DEF ManualReadDocument, TypeOK, ReportType
      <2> QED  BY <1>5, <2>1 DEF ManualReadDocument, Held
  <1>6. CASE ManualReadHashes
      <2>1. manReq \in Requests
          BY <1>6 DEF ManualReadHashes, Held, TypeOK, GoroutineType
      <2>2. manReq' \in Requests
          BY <1>6, <2>1 DEF ManualReadHashes, Requests, TypeOK, ReportType
      <2> QED  BY <1>6, <2>2 DEF ManualReadHashes, Held
  <1>7. CASE RequestManual
      BY <1>7 DEF RequestManual, Held
  <1>8. CASE Close \/ CloseReturns
      BY <1>8 DEF Close, CloseReturns, Held
  <1>9. CASE \/ \E b \in Block : Edit(b)
             \/ LoadReportSnapshot \/ CaptureNowPublish \/ ForRequest
      BY <1>9 DEF Edit, LoadReportSnapshot, CaptureNowPublish, ForRequest,
         DeliverOnly, Held
  <1> QED  BY <1>1, <1>2, <1>3, <1>4, <1>5, <1>6, <1>7, <1>8, <1>9
              DEF Next, EngineFinishes, ManualFinishes

\* Every step keeps CloseIsFinal.
LEMMA CloseStep ==
    ASSUME TypeOK, SingleFlight, CloseIsFinal, Held, Next
    PROVE  CloseIsFinal'
  <1> USE DEF report, publish, queue, deliver, drains, engine, manual
  <1>1. CASE CloseReturns
      <2>1. \A d \in Drainer : drain[d] = "none"
          BY <1>1 DEF CloseReturns
      <2>2. ~running
          BY <2>1 DEF SingleFlight, Draining
      <2> QED  BY <1>1, <2>1, <2>2 DEF CloseReturns, CloseIsFinal
  <1>2. CASE closer # "returned" /\ ~CloseReturns
      <2>1. closer' # "returned"
          BY <1>2 DEF Next, DrainStep, DrainTake, DrainPublish, DrainExit, Edit,
             LoadReportSnapshot, CaptureNowStart, EngineFinishes,
             TriggerReportCapture, CaptureNowPublish, ForRequest, DeliverOnly,
             ManualReadDocument, ManualFinishes, ManualReadHashes,
             RequestManual, ManualRequest, Close
      <2> QED  BY <2>1 DEF CloseIsFinal
  <1>3. CASE closer = "returned"
      <2>1. /\ closed /\ ~running
            /\ \A d \in Drainer : drain[d] = "none"
          BY <1>3 DEF CloseIsFinal, Held
      <2>2. \A d \in Drainer : ~DrainStep(d)
          BY <2>1 DEF DrainStep, DrainTake, DrainPublish, DrainExit
      <2>3. running' = running /\ drain' = drain
          BY <1>3, <2>1, <2>2 DEF Next, Edit, LoadReportSnapshot, CaptureNowStart,
             EngineFinishes, TriggerReportCapture, CaptureNowPublish, ForRequest,
             DeliverOnly, ManualReadDocument, ManualFinishes, ManualReadHashes,
             RequestManual, ManualRequest, Request, Close, CloseReturns
      <2> QED  BY <2>1, <2>3 DEF CloseIsFinal
  <1> QED  BY <1>1, <1>2, <1>3

-----------------------------------------------------------------------------
(* What the model was sent.                                                 *)

\* Every step keeps BaselineWasSent.
LEMMA BaselineStep ==
    ASSUME TypeOK, BaselineWasSent, Next
    PROVE  BaselineWasSent'
  <1> USE DEF report, publish, queue, deliver, drains, engine, manual
  <1>1. CASE ForRequest
      <2> SUFFICES ASSUME NEW b \in Block, deliveredHashes'[b] # None
                   PROVE  shownHash'[b] = deliveredHashes'[b]
          BY DEF BaselineWasSent
      <2>1. /\ deliveredHashes' = view.hashes
            /\ shownHash'[b] = IF Dirty(b) THEN view.hashes[b] ELSE shownHash[b]
          BY <1>1 DEF ForRequest, DeliverOnly
      <2>2. CASE Dirty(b)
          BY <2>1, <2>2
      <2>3. CASE ~Dirty(b)
          <3>1. view.hashes[b] # None
              BY <2>1
          <3>2. view.hashes[b] = deliveredHashes[b]
              BY <2>3, <3>1 DEF Dirty
          <3> QED  BY <2>1, <2>3, <3>1, <3>2 DEF BaselineWasSent
      <2> QED  BY <2>2, <2>3
  <1>2. CASE deliveredHashes' = NoBlocks
      BY <1>2 DEF BaselineWasSent, NoBlocks
  <1>3. CASE UNCHANGED <<deliveredHashes, shownHash>>
      BY <1>3 DEF BaselineWasSent
  <1> QED
      BY <1>1, <1>2, <1>3 DEF Next, DrainStep, DrainTake, DrainPublish, DrainExit,
         Edit, LoadReportSnapshot, CaptureNowStart, EngineFinishes,
         TriggerReportCapture, CaptureNowPublish, ManualReadDocument,
         ManualFinishes, ManualReadHashes, RequestManual, ManualRequest, Close,
         CloseReturns

-----------------------------------------------------------------------------
(* The order of requests.  A step adds at most one request to those in       *)
(* flight, and that one has the highest number and the newest version.       *)

\* A request in flight is a request.
LEMMA InFlightTyped ==
    ASSUME TypeOK, NEW r \in InFlight
    PROVE  r \in Requests /\ r.publish \in Nat /\ r.version \in Int
  <1>1. r \in Requests
      BY DEF InFlight, TypeOK, QueueType, GoroutineType
  <1> QED  BY <1>1 DEF Requests, Stamp

\* Versions and numbers are integers.
LEMMA NumbersTyped ==
    ASSUME TypeOK
    PROVE  /\ version \in Int /\ stamp \in Int /\ lastRequested \in Int
           /\ readyVersion \in Nat /\ publishSequence \in Nat
           /\ view # None => view.version \in Nat /\ view.source \in Int
           /\ manReq # None => manReq \in Requests /\ manReq.version \in Int
  BY DEF TypeOK, ReportType, QueueType, PublishType, GoroutineType, Stamp, Views,
     Requests

\* Request numbers what it queues above everything in flight and takes only a
\* version above everything requested.
LEMMA RequestKeepsOrder ==
    ASSUME TypeOK, VersionOrder, NEW req \in Requests, Request(req),
           req.version <= version,
           UNCHANGED <<report, publish, engReq>>,
           manReq' = manReq \/ manReq' = None
    PROVE  VersionOrder'
  <1> USE DEF report, publish
  <1>0. drainReq' = drainReq
      BY RequestTyped
  <1>1. CASE closed \/ req.version <= lastRequested
      <2>1. UNCHANGED <<lastRequested, publishSequence, pending>>
          BY <1>1 DEF Request, queue
      <2>2. InFlight' = InFlight
          BY <1>0, <2>1 DEF InFlight
      <2> QED  BY <2>1, <2>2 DEF VersionOrder
  <1>2. CASE ~(closed \/ req.version <= lastRequested)
      <2> DEFINE new == [req EXCEPT !.publish = publishSequence']
      <2>1. /\ lastRequested' = req.version
            /\ publishSequence' = publishSequence + 1
            /\ pending' = new
          BY <1>2 DEF Request
      <2>2. /\ new.publish = publishSequence + 1 /\ new.version = req.version
            /\ req.version \in Int
          BY <2>1, NumberedTyped, NumbersTyped DEF Requests, Stamp
      <2>3. InFlight' \subseteq InFlight \cup {new}
          BY <1>0, <2>1 DEF InFlight
      <2> HIDE DEF new
      <2>4. lastRequested < req.version
          BY <1>2, <2>2, NumbersTyped
      <2>5. /\ version' <= stamp' /\ lastRequested' <= version'
            /\ manReq' # None => manReq'.version <= version'
            /\ view' # None => view'.version = readyVersion'
                               /\ view'.source <= lastRequested'
            /\ readyVersion' <= publishSequence'
          BY <2>1, <2>2, <2>4, NumbersTyped DEF VersionOrder
      <2>6. ASSUME NEW r \in InFlight'
            PROVE  /\ r.publish <= publishSequence'
                   /\ r.version <= lastRequested'
                   /\ view' # None /\ view'.version <= r.publish =>
                          view'.source <= r.version
          <3>1. CASE r \in InFlight
              BY <2>1, <2>2, <2>4, <3>1, NumbersTyped, InFlightTyped
                 DEF VersionOrder
          <3>2. CASE r = new
              BY <2>1, <2>2, <2>4, <3>2, NumbersTyped DEF VersionOrder
          <3> QED  BY <2>3, <3>1, <3>2
      <2>7. ASSUME NEW r \in InFlight', NEW s \in InFlight', r.publish <= s.publish
            PROVE  r.version <= s.version
          <3>1. CASE r \in InFlight /\ s \in InFlight
              BY <2>7, <3>1 DEF VersionOrder
          <3>2. CASE r \in InFlight /\ s = new
              BY <2>2, <2>4, <3>2, NumbersTyped, InFlightTyped DEF VersionOrder
          <3>3. CASE r = new /\ s \in InFlight
              BY <2>2, <2>7, <3>3, NumbersTyped, InFlightTyped DEF VersionOrder
          <3>4. CASE r = new /\ s = new
              BY <2>2, <3>4
          <3> QED  BY <2>3, <3>1, <3>2, <3>3, <3>4
      <2> QED  BY <2>5, <2>6, <2>7 DEF VersionOrder
  <1> QED  BY <1>1, <1>2

\* Publishing a request in flight keeps the order of the others.
LEMMA PublishKeepsOrder ==
    ASSUME TypeOK, VersionOrder, NEW req \in InFlight,
           InFlight' \subseteq InFlight,
           UNCHANGED <<version, stamp, lastRequested, publishSequence, manReq>>,
           readyVersion' = req.publish,
           view'.version = req.publish, view'.source = req.version
    PROVE  VersionOrder'
  <1>1. /\ req.publish <= publishSequence /\ req.version <= lastRequested
      BY DEF VersionOrder
  <1>2. \A r \in InFlight' : /\ r.publish <= publishSequence
                             /\ r.version <= lastRequested
                             /\ req.publish <= r.publish => req.version <= r.version
      BY DEF VersionOrder
  <1>3. \A r, s \in InFlight' : r.publish <= s.publish => r.version <= s.version
      BY DEF VersionOrder
  <1> QED  BY <1>1, <1>2, <1>3 DEF VersionOrder

\* Every step keeps VersionOrder.
LEMMA OrderStep ==
    ASSUME TypeOK, TypeOK', SingleFlight, Held, VersionOrder, Next
    PROVE  VersionOrder'
  <1> USE DEF report, publish, queue, deliver, drains, engine, manual
  <1>1. ASSUME InFlight' \subseteq InFlight, version <= version',
               version' <= stamp',
               UNCHANGED <<publish, lastRequested, publishSequence>>,
               manReq' # None => manReq'.version <= version'
        PROVE  VersionOrder'
      <2>1. version' <= stamp' /\ lastRequested' <= version'
          BY <1>1, NumbersTyped DEF VersionOrder, TypeOK, ReportType, Stamp
      <2>2. \A r \in InFlight' :
              /\ r.publish <= publishSequence' /\ r.version <= lastRequested'
              /\ view' # None /\ view'.version <= r.publish =>
                     view'.source <= r.version
          BY <1>1 DEF VersionOrder
      <2>3. \A r, s \in InFlight' : r.publish <= s.publish => r.version <= s.version
          BY <1>1 DEF VersionOrder
      <2>4. /\ view' # None => view'.version = readyVersion'
                               /\ view'.source <= lastRequested'
            /\ readyVersion' <= publishSequence'
          BY <1>1 DEF VersionOrder
      <2> QED  BY <1>1, <2>1, <2>2, <2>3, <2>4 DEF VersionOrder
  <1>2. ASSUME NEW d \in Drainer, DrainTake(d)  PROVE VersionOrder'
      <2>1. InFlight' \subseteq InFlight
          BY <1>2 DEF DrainTake, InFlight, TypeOK, GoroutineType
      <2> QED  BY <1>1, <1>2, <2>1, NumbersTyped DEF DrainTake, VersionOrder
  <1>3. ASSUME NEW d \in Drainer, DrainPublish(d)  PROVE VersionOrder'
      <2>1. InFlight' \subseteq InFlight
          BY <1>3 DEF DrainPublish, InFlight, TypeOK, GoroutineType
      <2>2. CASE ~closed /\ drainReq[d].publish > readyVersion
          <3>1. drainReq[d] \in InFlight
              BY <1>3 DEF DrainPublish, Held, InFlight
          <3>2. drainReq[d] \in Requests
              BY <3>1, InFlightTyped
          <3>3. PICK captured \in SUBSET Rendered(drainReq[d]) :
                    view' = Built(drainReq[d], captured)
              BY <1>3, <2>2 DEF DrainPublish
          <3>4. /\ view'.version = drainReq[d].publish
                /\ view'.source = drainReq[d].version
              BY <3>2, <3>3, BuiltTyped DEF Rendered
          <3> QED  BY <1>3, <2>1, <2>2, <3>1, <3>4, PublishKeepsOrder
                      DEF DrainPublish
      <2>3. CASE ~(~closed /\ drainReq[d].publish > readyVersion)
          BY <1>1, <1>3, <2>1, <2>3, NumbersTyped DEF DrainPublish, VersionOrder
      <2> QED  BY <2>2, <2>3
  <1>4. ASSUME NEW d \in Drainer, DrainExit(d)  PROVE VersionOrder'
      <2>1. InFlight' = InFlight
          BY <1>4 DEF DrainExit, InFlight
      <2> QED  BY <1>1, <1>4, <2>1, NumbersTyped DEF DrainExit, VersionOrder
  <1>5. ASSUME NEW b \in Block, Edit(b)  PROVE VersionOrder'
      <2>1. InFlight' = InFlight
          BY <1>5 DEF Edit, InFlight
      <2> QED  BY <1>1, <1>5, <2>1, NumbersTyped DEF Edit, VersionOrder
  <1>6. CASE LoadReportSnapshot
      <2>1. InFlight' = InFlight
          BY <1>6 DEF LoadReportSnapshot, InFlight
      <2> QED  BY <1>1, <1>6, <2>1, NumbersTyped
                  DEF LoadReportSnapshot, VersionOrder
  <1>7. CASE TriggerReportCapture
      <2>1. /\ Reading(content, content) \in Requests
            /\ Reading(content, content).version = version
          BY ReadingTyped DEF TypeOK, ReportType
      <2> QED  BY <1>7, <2>1, RequestKeepsOrder, NumbersTyped
                  DEF TriggerReportCapture
  <1>8. CASE CaptureNowStart
      <2>1. CASE closed
          <3>1. InFlight' = InFlight
              BY <1>8, <2>1 DEF CaptureNowStart, InFlight
          <3> QED  BY <1>1, <1>8, <2>1, <3>1, NumbersTyped
                      DEF CaptureNowStart, VersionOrder
      <2>2. CASE ~closed
          <3> DEFINE new == [Reading(content, content) EXCEPT
                                 !.publish = publishSequence']
          <3>1. /\ lastRequested' = IF version > lastRequested
                                    THEN version ELSE lastRequested
                /\ publishSequence' = publishSequence + 1
                /\ engReq' = new
                /\ UNCHANGED <<report, publish, pending, drainReq, manReq>>
              BY <1>8, <2>2 DEF CaptureNowStart
          <3>2. new.publish = publishSequence + 1 /\ new.version = version
              BY <3>1, ReadingTyped, NumberedTyped, NumbersTyped
                 DEF TypeOK, ReportType
          <3>3. InFlight' \subseteq InFlight \cup {new}
              BY <3>1 DEF InFlight
          <3> HIDE DEF new
          <3>4. lastRequested' = version
              BY <3>1, NumbersTyped DEF VersionOrder
          <3>5. ASSUME NEW r \in InFlight'
                PROVE  /\ r.publish <= publishSequence'
                       /\ r.version <= lastRequested'
                       /\ view' # None /\ view'.version <= r.publish =>
                              view'.source <= r.version
              <4>1. CASE r \in InFlight
                  BY <3>1, <3>4, <4>1, NumbersTyped, InFlightTyped
                     DEF VersionOrder
              <4>2. CASE r = new
                  BY <3>1, <3>2, <3>4, <4>2, NumbersTyped DEF VersionOrder
              <4> QED  BY <3>3, <4>1, <4>2
          <3>6. ASSUME NEW r \in InFlight', NEW s \in InFlight',
                       r.publish <= s.publish
                PROVE  r.version <= s.version
              <4>1. CASE r \in InFlight /\ s \in InFlight
                  BY <3>6, <4>1 DEF VersionOrder
              <4>2. CASE r \in InFlight /\ s = new
                  BY <3>2, <4>2, NumbersTyped, InFlightTyped DEF VersionOrder
              <4>3. CASE r = new /\ s \in InFlight
                  BY <3>2, <3>6, <4>3, NumbersTyped, InFlightTyped
                     DEF VersionOrder
              <4>4. CASE r = new /\ s = new
                  BY <3>2, <4>4, NumbersTyped
              <4> QED  BY <3>3, <4>1, <4>2, <4>3, <4>4
          <3> QED  BY <3>1, <3>4, <3>5, <3>6, NumbersTyped DEF VersionOrder
      <2> QED  BY <2>1, <2>2
  <1>9. CASE CaptureNowPublish
      <2>1. InFlight' \subseteq InFlight
          BY <1>9 DEF CaptureNowPublish, InFlight
      <2>2. CASE ~closed /\ engReq.publish >= readyVersion
          <3>1. engReq \in InFlight
              BY <1>9 DEF CaptureNowPublish, Held, InFlight
          <3>2. engReq \in Requests
              BY <3>1, InFlightTyped
          <3>3. PICK captured \in SUBSET Rendered(engReq) :
                    view' = Built(engReq, captured)
              BY <1>9, <2>2 DEF CaptureNowPublish
          <3>4. view'.version = engReq.publish /\ view'.source = engReq.version
              BY <3>2, <3>3, BuiltTyped DEF Rendered
          <3> QED  BY <1>9, <2>1, <2>2, <3>1, <3>4, PublishKeepsOrder
                      DEF CaptureNowPublish
      <2>3. CASE ~(~closed /\ engReq.publish >= readyVersion)
          BY <1>1, <1>9, <2>1, <2>3, NumbersTyped
             DEF CaptureNowPublish, VersionOrder
      <2> QED  BY <2>2, <2>3
  <1>10. CASE ManualReadDocument
      <2>1. manReq'.version = version
          BY <1>10, ReadingTyped, NoBlocksTyped
             DEF ManualReadDocument, TypeOK, ReportType
      <2>2. InFlight' = InFlight
          BY <1>10 DEF ManualReadDocument, InFlight
      <2> QED  BY <1>1, <1>10, <2>1, <2>2, NumbersTyped
                  DEF ManualReadDocument, VersionOrder
  <1>11. CASE ManualReadHashes
      <2>1. manReq \in Requests
          BY <1>11 DEF ManualReadHashes, Held, TypeOK, GoroutineType
      <2>2. manReq'.version = manReq.version /\ manReq # None
          BY <1>11, <2>1, NoneAssumption DEF ManualReadHashes, Requests
      <2>3. InFlight' = InFlight
          BY <1>11 DEF ManualReadHashes, InFlight
      <2> QED  BY <1>1, <1>11, <2>2, <2>3, NumbersTyped
                  DEF ManualReadHashes, VersionOrder
  <1>12. CASE RequestManual \/ ForRequest
      <2>1. InFlight' = InFlight
          BY <1>12 DEF RequestManual, ForRequest, DeliverOnly, InFlight
      <2> QED  BY <1>1, <1>12, <2>1, NumbersTyped
                  DEF RequestManual, ForRequest, DeliverOnly, VersionOrder
  <1>13. CASE ManualRequest
      <2>1. manReq \in Requests /\ manReq # None
          BY <1>13, NoneAssumption
             DEF ManualRequest, Held, TypeOK, GoroutineType
      <2> QED  BY <1>13, <2>1, RequestKeepsOrder DEF ManualRequest, VersionOrder
  <1>14. CASE Close \/ CloseReturns
      <2>1. InFlight' \subseteq InFlight
          BY <1>14 DEF Close, CloseReturns, InFlight
      <2> QED  BY <1>1, <1>14, <2>1, NumbersTyped
                  DEF Close, CloseReturns, VersionOrder
  <1> QED  BY <1>2, <1>3, <1>4, <1>5, <1>6, <1>7, <1>8, <1>9, <1>10, <1>11, <1>12,
              <1>13, <1>14
              DEF Next, DrainStep, EngineFinishes, ManualFinishes

-----------------------------------------------------------------------------
(* The inductive invariant, and what follows from it.                       *)

\* A restored session has published, queued and sent nothing.
LEMMA ViewInvInit == Init => ViewInv
  <1> SUFFICES ASSUME Init  PROVE ViewInv
      OBVIOUS
  <1>1. TypeOK
      <2>1. 0 \in Stamp
          BY ReportViewAssumption DEF Stamp
      <2>2. ReportType
          BY <2>1 DEF Init, ReportType, Blocks
      <2>3. PublishType /\ QueueType
          BY DEF Init, PublishType, QueueType
      <2>4. DeliverType
          BY NoBlocksTyped DEF Init, DeliverType
      <2>5. GoroutineType
          BY ReportViewAssumption DEF Init, GoroutineType
      <2> QED  BY <2>2, <2>3, <2>4, <2>5 DEF TypeOK
  <1>2. SingleFlight /\ CloseIsFinal /\ Held
      BY DEF Init, SingleFlight, Draining, CloseIsFinal, Held
  <1>3. BaselineWasSent
      BY DEF Init, BaselineWasSent, NoBlocks
  <1>4. InFlight = {}
      BY DEF Init, InFlight
  <1>5. VersionOrder
      BY <1>4 DEF Init, VersionOrder
  <1> QED  BY <1>1, <1>2, <1>3, <1>5 DEF ViewInv

\* Every step of every goroutine keeps the invariant.
LEMMA ViewInvStep == ViewInv /\ [Next]_vars => ViewInv'
  <1>1. ASSUME ViewInv, Next  PROVE ViewInv'
      <2> USE <1>1 DEF ViewInv
      <2>1. TypeOK'
          BY DrainTyped, EngineTyped, ManualTyped, CloseTyped DEF Next
      <2> QED  BY <2>1, FlightStep, HeldStep, CloseStep, BaselineStep, OrderStep
  <1>2. ASSUME ViewInv, UNCHANGED vars  PROVE ViewInv'
      BY <1>2 DEF ViewInv, vars, report, publish, queue, deliver, drains, engine,
         manual, TypeOK, ReportType, PublishType, QueueType, DeliverType,
         GoroutineType, SingleFlight, Draining, CloseIsFinal, BaselineWasSent,
         Held, VersionOrder, InFlight
  <1> QED  BY <1>1, <1>2

\* The coordinator's invariant holds for any number of blocks, goroutines, edits
\* and captures: types, single flight, an honest baseline, and publish numbers
\* that rise with the report versions they show.
THEOREM ViewInvHolds == Spec => []ViewInv
  BY ViewInvInit, ViewInvStep, PTL DEF Spec

\* Every field of the coordinator has its type, for every value of the constants.
THEOREM TypeCorrect == Spec => []TypeOK
  <1>1. ViewInv => TypeOK  BY DEF ViewInv
  <1> QED  BY <1>1, ViewInvHolds, PTL

\* Request, drain and Close never let two goroutines capture at once, and never
\* leave a request queued with no goroutine to take it.
THEOREM OneCapture == Spec => []SingleFlight
  <1>1. ViewInv => SingleFlight  BY DEF ViewInv
  <1> QED  BY <1>1, ViewInvHolds, PTL

\* When Close has returned, no capture goroutine of the session is left and
\* none starts.
THEOREM ClosedForGood == Spec => []CloseIsFinal
  <1>1. ViewInv => CloseIsFinal  BY DEF ViewInv
  <1> QED  BY <1>1, ViewInvHolds, PTL

\* The hashes ForRequest compares with are those of slices the model was sent.
THEOREM HonestBaseline == Spec => []BaselineWasSent
  <1>1. ViewInv => BaselineWasSent  BY DEF ViewInv
  <1> QED  BY <1>1, ViewInvHolds, PTL

\* Publish numbers rise with the report versions they show.
THEOREM NumbersFollowVersions == Spec => []VersionOrder
  <1>1. ViewInv => VersionOrder  BY DEF ViewInv
  <1> QED  BY <1>1, ViewInvHolds, PTL

\* The drain goroutine, CaptureNow and a late manual capture never replace the
\* published view by one of an older report, and none publishes after Close.
THEOREM ViewAdvances == Spec => ViewNeverGoesBack
  <1>1. ASSUME ViewInv, Next  PROVE PublishStep
      <2> USE <1>1 DEF ViewInv, report, publish, queue, deliver, drains, engine,
          manual
      <2>1. CASE UNCHANGED view
          BY <2>1, NumbersTyped DEF PublishStep
      <2>2. ASSUME NEW d \in Drainer, DrainPublish(d), ~UNCHANGED view
            PROVE  PublishStep
          <3>1. /\ ~closed /\ drainReq[d].publish > readyVersion
                /\ \E captured \in SUBSET Rendered(drainReq[d]) :
                        view' = Built(drainReq[d], captured)
              BY <2>2 DEF DrainPublish
          <3>2. drainReq[d] \in InFlight
              BY <2>2 DEF DrainPublish, Held, InFlight
          <3>3. /\ view' # None /\ view'.version = drainReq[d].publish
                /\ view'.source = drainReq[d].version
              BY <3>1, <3>2, InFlightTyped, BuiltTyped DEF Rendered
          <3> QED  BY <3>1, <3>2, <3>3, NumbersTyped, InFlightTyped
                      DEF PublishStep, VersionOrder
      <2>3. ASSUME CaptureNowPublish, ~UNCHANGED view  PROVE PublishStep
          <3>1. /\ ~closed /\ engReq.publish >= readyVersion
                /\ \E captured \in SUBSET Rendered(engReq) :
                        view' = Built(engReq, captured)
              BY <2>3 DEF CaptureNowPublish
          <3>2. engReq \in InFlight
              BY <2>3 DEF CaptureNowPublish, Held, InFlight
          <3>3. /\ view' # None /\ view'.version = engReq.publish
                /\ view'.source = engReq.version
              BY <3>1, <3>2, InFlightTyped, BuiltTyped DEF Rendered
          <3> QED  BY <3>1, <3>2, <3>3, NumbersTyped, InFlightTyped
                      DEF PublishStep, VersionOrder
      <2> QED
          BY <2>1, <2>2, <2>3 DEF Next, DrainStep, DrainTake, DrainExit, Edit,
             LoadReportSnapshot, CaptureNowStart, EngineFinishes,
             TriggerReportCapture, ForRequest, DeliverOnly, ManualReadDocument,
             ManualFinishes, ManualReadHashes, RequestManual, ManualRequest,
             Close, CloseReturns
  <1>2. ViewInv /\ [Next]_vars => [PublishStep]_vars
      BY <1>1
  <1> QED  BY <1>2, ViewInvHolds, PTL DEF Spec, ViewNeverGoesBack
-----------------------------------------------------------------------------
(***************************************************************************)
(* Background jobs.  At most one notice per job is not inductive: a job    *)
(* that finishes must not have been announced before, which holds because  *)
(* a goroutine that has not ended has left no trace in the queue, the      *)
(* request or what was sent, and because job IDs are fresh.                *)
(***************************************************************************)
\* The part of the types the argument needs.
NoticeType ==
    /\ status \in [Job -> {"none", "running", "succeeded", "failed", "gone"}]
    /\ jpc \in [Job -> {"none", "queued", "execute", "finish", "done"}]
    /\ execMu \in Job \cup {Unset}
    /\ unannounced \in Seq(Job)
    /\ bundle \subseteq Job
    /\ sent \in [Job -> Nat]

\* A job that was never submitted has no goroutine, and one whose goroutine has
\* not ended was not announced.
FreshJobs == \A j \in Job : status[j] = "none" => jpc[j] = "none"

Unheard ==
    \A j \in Job :
        jpc[j] # "done" => sent[j] = 0 /\ j \notin bundle /\ ~Queued(j)

NoticeInv ==
    NoticeType /\ OneExecution /\ FreshJobs /\ Unheard /\ AnnouncedAtMostOnce

Copies(j) == {i \in DOMAIN unannounced : unannounced[i] = j}

\* The queue holds finitely many copies of a notice, and one at least if it is
\* queued.
LEMMA CopiesCounted ==
    ASSUME unannounced \in Seq(Job), NEW j \in Job
    PROVE  /\ IsFiniteSet(Copies(j)) /\ Cardinality(Copies(j)) \in Nat
           /\ Queued(j) <=> Cardinality(Copies(j)) # 0
  <1>1. IsFiniteSet(1 .. Len(unannounced))
      BY FS_Interval
  <1>2. Copies(j) \subseteq 1 .. Len(unannounced)
      BY DEF Copies
  <1>3. IsFiniteSet(Copies(j))
      BY <1>1, <1>2, FS_Subset
  <1>4. Cardinality(Copies(j)) \in Nat
      BY <1>3, FS_CardinalityType
  <1>5. Cardinality(Copies(j)) = 0 <=> Copies(j) = {}
      BY <1>3, FS_EmptySet
  <1>6. Queued(j) <=> Copies(j) # {}
      BY DEF Queued, Copies
  <1> QED  BY <1>3, <1>4, <1>5, <1>6

\* The inductive form of AnnouncedAtMostOnce.
LEMMA AtMostOnceCounted ==
    AnnouncedAtMostOnce <=>
        \A j \in Job :
            sent[j] + (IF j \in bundle THEN 1 ELSE 0) + Cardinality(Copies(j)) <= 1
  BY DEF AnnouncedAtMostOnce, Copies

-----------------------------------------------------------------------------
(* The steps.                                                               *)

\* Steps that touch neither the queue nor the request keep the count.
LEMMA CountUnchanged ==
    ASSUME AnnouncedAtMostOnce, Unheard, UNCHANGED <<unannounced, bundle, sent>>,
           \A j \in Job : jpc[j] = "done" => jpc'[j] = "done"
    PROVE  AnnouncedAtMostOnce' /\ Unheard'
  BY DEF AnnouncedAtMostOnce, Unheard, Queued

\* Submit draws a fresh ID and drops finished jobs only.
LEMMA SubmitKeeps ==
    ASSUME NoticeInv, NEW j \in Job, Submit(j)
    PROVE  NoticeInv'
  <1> USE DEF NoticeInv
  <1>1. jpc[j] = "none" /\ status[j] = "none"
      BY DEF Submit, FreshJobs
  <1>2. /\ jpc' = [jpc EXCEPT ![j] = "queued"]
        /\ UNCHANGED <<unannounced, execMu, bundle, sent>>
      BY DEF Submit, request
  <1>3. status' = [k \in Job |-> CASE k = j -> "running"
                                  [] k \in Evicted(Append(order, j)) -> "gone"
                                  [] OTHER -> status[k]]
      BY DEF Submit
  <1>4. NoticeType'
      BY <1>2, <1>3 DEF NoticeType
  <1>5. OneExecution'
      BY <1>2 DEF OneExecution, NoticeType
  <1>6. FreshJobs'
      BY <1>2, <1>3 DEF FreshJobs, NoticeType
  <1>7. AnnouncedAtMostOnce' /\ Unheard'
      BY <1>1, <1>2, CountUnchanged DEF NoticeType
  <1> QED  BY <1>4, <1>5, <1>6, <1>7

\* A job starts when nobody holds execMu, executes, and finishes by queueing its
\* one notice.
LEMMA JobKeeps ==
    ASSUME NoticeInv, NEW j \in Job, JobStep(j)
    PROVE  NoticeInv'
  <1> USE BackgroundJobsAssumption DEF NoticeInv, manager, request
  <1>1. CASE JobStart(j) \/ JobExecute(j)
      <2>1. /\ NoticeType' /\ OneExecution' /\ FreshJobs'
            /\ UNCHANGED <<unannounced, bundle, sent>>
            /\ \A k \in Job : jpc[k] = "done" => jpc'[k] = "done"
          BY <1>1 DEF JobStart, JobExecute, NoticeType, OneExecution, FreshJobs
      <2> QED  BY <2>1, CountUnchanged
  <1>2. CASE JobFinish(j)
      <2>1. /\ jpc[j] = "finish" /\ jpc' = [jpc EXCEPT ![j] = "done"]
            /\ execMu' = Unset /\ UNCHANGED <<bundle, sent>>
          BY <1>2 DEF JobFinish
      <2>2. /\ sent[j] = 0 /\ j \notin bundle /\ ~Queued(j)
            /\ status[j] # "none" /\ execMu = j
          BY <2>1 DEF Unheard, FreshJobs, OneExecution
      <2>3. /\ status' \in [Job -> {"none", "running", "succeeded", "failed", "gone"}]
            /\ \A k \in Job : status'[k] = "none" => status[k] = "none" /\ k # j
          BY <1>2, <2>2 DEF JobFinish, NoticeType
      <2>4. OneExecution' /\ FreshJobs'
          BY <2>1, <2>2, <2>3 DEF OneExecution, FreshJobs, NoticeType
      <2>5. CASE unannounced' = unannounced
          <3>1. NoticeType'
              BY <2>1, <2>3, <2>5 DEF NoticeType
          <3>2. AnnouncedAtMostOnce' /\ Unheard'
              BY <2>1, <2>5, CountUnchanged DEF NoticeType
          <3> QED  BY <2>4, <3>1, <3>2
      <2>6. CASE unannounced' = Append(unannounced, j)
          <3>1. NoticeType'
              <4>1. unannounced' \in Seq(Job)
                  BY <2>6, AppendProperties DEF NoticeType
              <4>2. /\ jpc' \in [Job -> {"none", "queued", "execute", "finish", "done"}]
                    /\ execMu' \in Job \cup {Unset}
                    /\ bundle' \subseteq Job /\ sent' \in [Job -> Nat]
                  BY <2>1 DEF NoticeType
              <4> QED  BY <2>3, <4>1, <4>2 DEF NoticeType
          <3>2. /\ Len(unannounced') = Len(unannounced) + 1
                /\ unannounced'[Len(unannounced) + 1] = j
                /\ \A i \in 1 .. Len(unannounced) :
                       unannounced'[i] = unannounced[i]
                /\ DOMAIN unannounced = 1 .. Len(unannounced)
                /\ DOMAIN unannounced' = 1 .. (Len(unannounced) + 1)
                /\ Len(unannounced) \in Nat
              BY <2>6 DEF NoticeType
          <3>3. \A k \in Job : k # j => Copies(k)' = Copies(k)
              BY <3>2 DEF Copies
          <3>4. Copies(j)' = {Len(unannounced) + 1}
              BY <2>2, <3>2 DEF Copies, Queued
          <3>5. Cardinality(Copies(j)') = 1
              BY <3>4, FS_Singleton
          <3>6. \A k \in Job : k # j => (Queued(k)' <=> Queued(k))
              BY <3>2 DEF Queued
          <3>7. Unheard'
              BY <2>1, <3>6 DEF Unheard, NoticeType
          <3>8. \A k \in Job :
                   sent'[k] + (IF k \in bundle' THEN 1 ELSE 0)
                       + Cardinality(Copies(k)') <= 1
              BY <2>1, <2>2, <3>3, <3>5, AtMostOnceCounted
          <3>9. AnnouncedAtMostOnce'
              BY <3>8 DEF AnnouncedAtMostOnce, Copies
          <3> QED  BY <2>4, <3>1, <3>7, <3>9
      <2> QED  BY <1>2, <2>5, <2>6 DEF JobFinish
  <1> QED  BY <1>1, <1>2 DEF JobStep

\* Building a request, once or twice, moves notices and copies none.
LEMMA TakeKeeps ==
    ASSUME NoticeInv, BuildBundle \/ Compact
    PROVE  NoticeInv'
  <1> USE DEF NoticeInv, jobs
  <1>1. /\ bundle' = {j \in Job : Retained(j) /\ Queued(j)}
        /\ unannounced' = <<>>
        /\ UNCHANGED <<status, jpc, execMu, sent>>
      BY DEF BuildBundle, Compact, TakeCompletedNotices
  <1>2. NoticeType' /\ OneExecution' /\ FreshJobs'
      BY <1>1 DEF NoticeType, OneExecution, FreshJobs
  <1>3. Unheard'
      BY <1>1 DEF Unheard, Queued
  <1>4. \A j \in Job : Copies(j)' = {}
      BY <1>1 DEF Copies
  <1>5. \A j \in Job : Cardinality(Copies(j)') = 0
      BY <1>4, FS_EmptySet
  <1>6. ASSUME NEW j \in Job
        PROVE  sent'[j] + (IF j \in bundle' THEN 1 ELSE 0)
                   + Cardinality(Copies(j)') <= 1
      <2>1. /\ sent[j] \in Nat /\ Cardinality(Copies(j)) \in Nat
            /\ Queued(j) <=> Cardinality(Copies(j)) # 0
          BY CopiesCounted DEF NoticeType
      <2>2. sent[j] + (IF j \in bundle THEN 1 ELSE 0) + Cardinality(Copies(j)) <= 1
          BY AtMostOnceCounted
      <2>3. CASE j \in bundle'
          BY <1>1, <1>5, <2>1, <2>2, <2>3
      <2>4. CASE j \notin bundle'
          BY <1>1, <1>5, <2>1, <2>2, <2>4
      <2> QED  BY <2>3, <2>4
  <1>7. AnnouncedAtMostOnce'
      BY <1>6 DEF AnnouncedAtMostOnce, Copies
  <1> QED  BY <1>2, <1>3, <1>7

\* Sending empties the request.
LEMMA SendKeeps ==
    ASSUME NoticeInv, Send
    PROVE  NoticeInv'
  <1> USE DEF NoticeInv, jobs, manager
  <1>1. /\ sent' = [j \in Job |-> IF j \in bundle THEN sent[j] + 1 ELSE sent[j]]
        /\ bundle' = {}
        /\ UNCHANGED <<status, jpc, execMu, unannounced>>
      BY DEF Send
  <1>2. NoticeType' /\ OneExecution' /\ FreshJobs'
      BY <1>1 DEF NoticeType, OneExecution, FreshJobs
  <1>3. Unheard'
      BY <1>1 DEF Unheard, Queued
  <1>4. ASSUME NEW j \in Job
        PROVE  sent'[j] + (IF j \in bundle' THEN 1 ELSE 0)
                   + Cardinality(Copies(j)') <= 1
      <2>1. sent[j] \in Nat /\ Cardinality(Copies(j)) \in Nat
          BY CopiesCounted DEF NoticeType
      <2>2. sent[j] + (IF j \in bundle THEN 1 ELSE 0) + Cardinality(Copies(j)) <= 1
          BY AtMostOnceCounted
      <2>3. Copies(j)' = Copies(j)
          BY <1>1 DEF Copies
      <2> QED  BY <1>1, <2>1, <2>2, <2>3
  <1>5. AnnouncedAtMostOnce'
      BY <1>4 DEF AnnouncedAtMostOnce, Copies
  <1> QED  BY <1>2, <1>3, <1>5

\* A new session has no job and nothing to announce.
LEMMA NoticeInvInit == JobsInit => NoticeInv
  <1> SUFFICES ASSUME JobsInit  PROVE NoticeInv
      OBVIOUS
  <1>1. NoticeType /\ OneExecution /\ FreshJobs
      BY DEF JobsInit, NoticeType, OneExecution, FreshJobs
  <1>2. Unheard
      BY DEF JobsInit, Unheard, Queued
  <1>3. \A j \in Job : Copies(j) = {}
      BY DEF JobsInit, Copies
  <1>4. \A j \in Job : Cardinality(Copies(j)) = 0
      BY <1>3, FS_EmptySet
  <1>5. AnnouncedAtMostOnce
      BY <1>4, AtMostOnceCounted DEF JobsInit
  <1> QED  BY <1>1, <1>2, <1>5 DEF NoticeInv

\* Every step of the engine and of the jobs keeps the invariant.
LEMMA NoticeInvStep == NoticeInv /\ [JobsNext]_jobsVars => NoticeInv'
  <1>1. ASSUME NoticeInv, RunStart \/ NextIteration \/ RunEnd \/ UNCHANGED jobsVars
        PROVE  NoticeInv'
      <2>1. UNCHANGED <<status, jpc, execMu, unannounced, bundle, sent>>
          BY <1>1 DEF RunStart, NextIteration, RunEnd, jobsVars, manager, jobs, request
      <2> QED  BY <1>1, <2>1, CountUnchanged
                  DEF NoticeInv, NoticeType, OneExecution, FreshJobs
  <1> QED  BY <1>1, SubmitKeeps, JobKeeps, TakeKeeps, SendKeeps
              DEF JobsNext, EngineStep

-----------------------------------------------------------------------------

\* The strengthened invariant holds for any number of jobs, tools and runs.
THEOREM NoticeInvHolds == JobsSpec => []NoticeInv
  BY NoticeInvInit, NoticeInvStep, PTL DEF JobsSpec

\* JobManager.run: at most one job is between installing its context and
\* recording its outcome.
THEOREM JobsSerialized == JobsSpec => []OneExecution
  <1>1. NoticeInv => OneExecution  BY DEF NoticeInv
  <1> QED  BY <1>1, NoticeInvHolds, PTL

\* TakeCompletedNotices: no completion is announced twice, even when a request
\* is built twice.
THEOREM NoticedAtMostOnce == JobsSpec => []AnnouncedAtMostOnce
  <1>1. NoticeInv => AnnouncedAtMostOnce  BY DEF NoticeInv
  <1> QED  BY <1>1, NoticeInvHolds, PTL

-----------------------------------------------------------------------------
(***************************************************************************)
(* The session manager.  None of its four invariants is inductive.  That   *)
(* the cached object is usable and that no object is lost alive rest on    *)
(* what Manager.mu protects while a view is being closed (LockHeld) and on *)
(* where the objects handlers and the cleanup hold come from               *)
(* (ObjectsKnown).  That the stopped run is over rests on what the status  *)
(* of a slot says about its execution (StopHonest), and that the row       *)
(* outlives the files on the plan being a list of objects that were stored *)
(* before and are not stored again (PlanHonest).                           *)
(***************************************************************************)
\* Manager.mu is held across a wait by the deletion or the cleanup that is
\* closing a view, and the cached object is then the detached one.
LockHeld ==
    /\ mgr # Nil => cache # Nil /\ detached[cache]
    /\ \A d \in Deleters : dpc[d] = "closing" => mgr = d
    /\ cpc = "closing" => mgr = Cleaner /\ victim = cache
    /\ cpc # "deleting" => dpc[Cleaner] = "idle"

\* What is cached, held or being cleaned up was made, and an object that was not
\* made is not detached.
ObjectsKnown ==
    /\ cache # Nil => cache \in made
    /\ victim # Nil => victim \in made
    /\ \A r \in Handler : held[r] # Nil => held[r] \in made
    /\ \A o \in Object : detached[o] => o \in made

\* A slot that is free or waits has no execution; the execution a deletion waits
\* for is the one at work on the object it stopped.
StopHonest ==
    /\ \A o \in Object : exec[o] => slot[o] \in {"running", "cancelling"}
    /\ \A d \in Deleters :
        /\ dpc[d] \in {"idle", "begin", "plan", "stop"} => ~awaited[d]
        /\ awaited[d] => stopped[d] # Nil /\ exec[stopped[d]]

\* A plan lists objects that were stored, and from the commit on they are gone.
PlanHonest ==
    \A d \in Deleters :
        /\ plan[d] \subseteq stored
        /\ dpc[d] \in {"commit", "memory", "closing", "deleted"} =>
               plan[d] \cap files = {}

CacheInv == LockHeld /\ ObjectsKnown /\ CachedIsUsable /\ NoStrayObject
StopInv == StopHonest /\ StoppedRunOver
ManagerInv == ManagerTypeOK /\ CacheInv /\ StopInv /\ PlanHonest

-----------------------------------------------------------------------------
(* Steps.                                                                   *)

\* Every step keeps the types.
LEMMA TypeStep ==
    ASSUME ManagerTypeOK, [ManagerNext]_managerVars
    PROVE  ManagerTypeOK'
  <1> USE SessionManagerAssumption DEF ManagerTypeOK, Deleters, store, objects, handler,
      deletion, cleanup, NewObject
  <1>1. ASSUME NEW r \in Handler, Lookup(r) PROVE ManagerTypeOK'
      BY <1>1 DEF Lookup, Goto
  <1>2. ASSUME NEW r \in Handler, Touch(r) PROVE ManagerTypeOK'
      <2>1. seen' \in [Object -> BOOLEAN]
        BY <1>2 DEF Touch, Goto, Fault
      <2>2. rowSeen' \in BOOLEAN
        BY <1>2 DEF Touch, Goto, Fault
      <2>3. pc' \in [Handler -> {"idle", "touch", "query", "install", "insert", "undo",
                           "lastseen", "have", "undone", "done"}]
        BY <1>2 DEF Touch, Goto, Fault
      <2>4. faults' \in 0 .. MaxFaults
        BY <1>2 DEF Touch, Goto, Fault
      <2> QED  BY <1>2, <2>1, <2>2, <2>3, <2>4 DEF Touch
  <1>3. ASSUME NEW r \in Handler, Query(r) PROVE ManagerTypeOK'
      <2>1. created' \in [Handler -> BOOLEAN]
        BY <1>3 DEF Query, Goto, Fault
      <2>2. pc' \in [Handler -> {"idle", "touch", "query", "install", "insert", "undo",
                           "lastseen", "have", "undone", "done"}]
        BY <1>3 DEF Query, Goto, Fault
      <2>3. faults' \in 0 .. MaxFaults
        BY <1>3 DEF Query, Goto, Fault
      <2> QED  BY <1>3, <2>1, <2>2, <2>3 DEF Query
  <1>4. ASSUME NEW r \in Handler, Install(r) PROVE ManagerTypeOK'
      <2>1. cache' \in Object \cup {Nil} /\ made' \subseteq Object
        BY <1>4 DEF Install, Goto, Fault
      <2>2. held' \in [Handler -> Object \cup {Nil}]
        BY <1>4 DEF Install, Goto, Fault
      <2>3. seen' \in [Object -> BOOLEAN]
        BY <1>4 DEF Install, Goto, Fault
      <2>4. pc' \in [Handler -> {"idle", "touch", "query", "install", "insert", "undo",
                           "lastseen", "have", "undone", "done"}]
        BY <1>4 DEF Install, Goto, Fault
      <2>5. faults' \in 0 .. MaxFaults
        BY <1>4 DEF Install, Goto, Fault
      <2> QED  BY <1>4, <2>1, <2>2, <2>3, <2>4, <2>5 DEF Install
  <1>5. ASSUME NEW r \in Handler, Insert(r) PROVE ManagerTypeOK'
      <2>1. row' \in BOOLEAN /\ rowSeen' \in BOOLEAN
        BY <1>5 DEF Insert, Goto, Fault
      <2>2. pc' \in [Handler -> {"idle", "touch", "query", "install", "insert", "undo",
                           "lastseen", "have", "undone", "done"}]
        BY <1>5 DEF Insert, Goto, Fault
      <2>3. faults' \in 0 .. MaxFaults
        BY <1>5 DEF Insert, Goto, Fault
      <2> QED  BY <1>5, <2>1, <2>2, <2>3 DEF Insert
  <1>6. ASSUME NEW r \in Handler, Undo(r) PROVE ManagerTypeOK'
      BY <1>6 DEF Undo, Goto
  <1>7. ASSUME NEW r \in Handler, Use(r) PROVE ManagerTypeOK'
      <2>1. slot' \in [Object -> {"free", "running", "waiting", "cancelling"}]
        BY <1>7 DEF Use, Goto
      <2>2. exec' \in [Object -> BOOLEAN]
        BY <1>7 DEF Use, Goto
      <2>3. seen' \in [Object -> BOOLEAN]
        BY <1>7 DEF Use, Goto
      <2>4. held' \in [Handler -> Object \cup {Nil}]
        BY <1>7 DEF Use, Goto
      <2>5. pc' \in [Handler -> {"idle", "touch", "query", "install", "insert", "undo",
                           "lastseen", "have", "undone", "done"}]
        BY <1>7 DEF Use, Goto
      <2> QED  BY <1>7, <2>1, <2>2, <2>3, <2>4, <2>5 DEF Use
  <1>8. ASSUME NEW o \in made, StoreReport(o) PROVE ManagerTypeOK'
      BY <1>8 DEF StoreReport
  <1>9. ASSUME NEW o \in made, RunEnds(o) PROVE ManagerTypeOK'
      BY <1>9 DEF RunEnds
  <1>10. ASSUME NEW o \in made, CaptureStart(o) PROVE ManagerTypeOK'
      BY <1>10 DEF CaptureStart
  <1>11. ASSUME NEW o \in made, CaptureEnd(o) PROVE ManagerTypeOK'
      BY <1>11 DEF CaptureEnd
  <1>12. ASSUME Expire PROVE ManagerTypeOK'
      <2>1. seen' \in [Object -> BOOLEAN]
        BY <1>12 DEF Expire
      <2>2. rowSeen' \in BOOLEAN
        BY <1>12 DEF Expire
      <2> QED  BY <1>12, <2>1, <2>2 DEF Expire
  <1>13. ASSUME NEW d \in Deleter, DeleteSessionHandler(d) PROVE ManagerTypeOK'
      BY <1>13 DEF DeleteSessionHandler, DGoto
  <1>14. ASSUME NEW d \in Deleters, DeleteBegin(d) PROVE ManagerTypeOK'
      BY <1>14 DEF DeleteBegin, DGoto, Fault
  <1>15. ASSUME NEW d \in Deleters, DeletePlan(d) PROVE ManagerTypeOK'
      BY <1>15 DEF DeletePlan, DGoto, Fault
  <1>16. ASSUME NEW d \in Deleters, Stop(d) PROVE ManagerTypeOK'
      <2>1. slot' \in [Object -> {"free", "running", "waiting", "cancelling"}]
        BY <1>16 DEF Stop, DGoto, CancelRun
      <2>2. seen' \in [Object -> BOOLEAN]
        BY <1>16 DEF Stop, DGoto, CancelRun
      <2>3. awaited' \in [Deleters -> BOOLEAN]
        BY <1>16 DEF Stop, DGoto, CancelRun
      <2>4. stopped' \in [Deleters -> Object \cup {Nil}]
        BY <1>16 DEF Stop, DGoto, CancelRun
      <2>5. dpc' \in [Deleters -> {"idle", "begin", "plan", "stop", "wait", "storage",
                             "commit", "memory", "closing", "deleted", "failed"}]
        BY <1>16 DEF Stop, DGoto, CancelRun
      <2> QED  BY <1>16, <2>1, <2>2, <2>3, <2>4, <2>5 DEF Stop
  <1>17. ASSUME NEW d \in Deleters, StopWait(d) PROVE ManagerTypeOK'
      BY <1>17 DEF StopWait, DGoto
  <1>18. ASSUME NEW d \in Deleters, DeleteStorage(d) PROVE ManagerTypeOK'
      BY <1>18 DEF DeleteStorage, DGoto, Fault
  <1>19. ASSUME NEW d \in Deleters, DeleteCommit(d) PROVE ManagerTypeOK'
      <2>1. row' \in BOOLEAN /\ rowSeen' \in BOOLEAN
        BY <1>19 DEF DeleteCommit, DGoto, Fault
      <2>2. dpc' \in [Deleters -> {"idle", "begin", "plan", "stop", "wait", "storage",
                             "commit", "memory", "closing", "deleted", "failed"}]
        BY <1>19 DEF DeleteCommit, DGoto, Fault
      <2>3. faults' \in 0 .. MaxFaults
        BY <1>19 DEF DeleteCommit, DGoto, Fault
      <2> QED  BY <1>19, <2>1, <2>2, <2>3 DEF DeleteCommit
  <1>20. ASSUME NEW d \in Deleters, DeleteMemory(d) PROVE ManagerTypeOK'
      <2>1. detached' \in [Object -> BOOLEAN] /\ viewClosed' \in [Object -> BOOLEAN]
        BY <1>20 DEF DeleteMemory, DGoto, Detach
      <2>2. mgr' \in Deleters \cup {Nil}
        BY <1>20 DEF DeleteMemory, DGoto, Detach
      <2>3. dpc' \in [Deleters -> {"idle", "begin", "plan", "stop", "wait", "storage",
                             "commit", "memory", "closing", "deleted", "failed"}]
        BY <1>20 DEF DeleteMemory, DGoto, Detach
      <2> QED  BY <1>20, <2>1, <2>2, <2>3 DEF DeleteMemory
  <1>21. ASSUME NEW d \in Deleters, DeleteClose(d) PROVE ManagerTypeOK'
      BY <1>21 DEF DeleteClose, DGoto, CancelRun
  <1>22. ASSUME CleanupDetach PROVE ManagerTypeOK'
      BY <1>22 DEF CleanupDetach, Detach
  <1>23. ASSUME CleanupRemove PROVE ManagerTypeOK'
      BY <1>23 DEF CleanupRemove
  <1>24. ASSUME CleanupCancel PROVE ManagerTypeOK'
      BY <1>24 DEF CleanupCancel, CancelRun
  <1>25. ASSUME CleanupWait PROVE ManagerTypeOK'
      BY <1>25 DEF CleanupWait, DGoto
  <1>26. ASSUME CleanupPersisted PROVE ManagerTypeOK'
      BY <1>26 DEF CleanupPersisted, DGoto
  <1>27. ASSUME CleanupEnd PROVE ManagerTypeOK'
      <2>1. cache' \in Object \cup {Nil}
        BY <1>27 DEF CleanupEnd, DGoto, CleanupForgets
      <2>2. detached' \in [Object -> BOOLEAN]
        BY <1>27 DEF CleanupEnd, DGoto, CleanupForgets
      <2>3. awaited' \in [Deleters -> BOOLEAN]
        BY <1>27 DEF CleanupEnd, DGoto, CleanupForgets
      <2>4. stopped' \in [Deleters -> Object \cup {Nil}] /\ plan' \in [Deleters -> SUBSET File]
        BY <1>27 DEF CleanupEnd, DGoto, CleanupForgets
      <2>5. dpc' \in [Deleters -> {"idle", "begin", "plan", "stop", "wait", "storage",
                             "commit", "memory", "closing", "deleted", "failed"}]
        BY <1>27 DEF CleanupEnd, DGoto, CleanupForgets
      <2> QED  BY <1>27, <2>1, <2>2, <2>3, <2>4, <2>5 DEF CleanupEnd, CleanupForgets
  <1>28. CASE UNCHANGED managerVars
      BY <1>28 DEF managerVars
  <1> QED
      BY <1>1, <1>2, <1>3, <1>4, <1>5, <1>6, <1>7, <1>8, <1>9, <1>10, <1>11,
      <1>12, <1>13, <1>14, <1>15, <1>16, <1>17, <1>18, <1>19, <1>20, <1>21,
      <1>22, <1>23, <1>24, <1>25, <1>26, <1>27, <1>28 DEF ManagerNext, GetOrCreate,
      DeleteSessionResources, CleanupStep

\* Every step keeps what the cache and Manager.mu promise.
LEMMA CacheStep ==
    ASSUME ManagerTypeOK, CacheInv, [ManagerNext]_managerVars
    PROVE  CacheInv'
  <1> USE SessionManagerAssumption DEF CacheInv, ManagerTypeOK, LockHeld,
      ObjectsKnown, CachedIsUsable, NoStrayObject, Deleters, store, objects,
      handler, deletion, cleanup, NewObject
  <1>1. ASSUME NEW r \in Handler, Lookup(r) PROVE CacheInv'
      BY <1>1 DEF Lookup, Goto
  <1>2. ASSUME NEW r \in Handler, Touch(r) PROVE CacheInv'
      BY <1>2 DEF Touch, Goto, Fault
  <1>3. ASSUME NEW r \in Handler, Query(r) PROVE CacheInv'
      BY <1>3 DEF Query, Goto, Fault
  <1>4. ASSUME NEW r \in Handler, Install(r) PROVE CacheInv'
      <2>1. CASE cache # Nil
        BY <1>4, <2>1 DEF Install, Goto
      <2>2. CASE cache = Nil /\ made' = made
        BY <1>4, <2>2 DEF Install, Goto, Fault
      <2>3. CASE cache = Nil /\ Object \ made # {} /\ cache' = NewObject
        <3>1. NewObject \in Object \ made
          BY <2>3 DEF NewObject
        <3>2. /\ made' = made \cup {NewObject}
              /\ held' = [held EXCEPT ![r] = NewObject]
              /\ pc' = [pc EXCEPT ![r] = IF created[r] THEN "insert" ELSE "lastseen"]
              /\ UNCHANGED <<mgr, detached, dpc, cpc, victim>>
          BY <1>4, <2>3, <3>1 DEF Install, Goto
        <3>3. LockHeld' /\ ObjectsKnown' /\ CachedIsUsable'
          BY <2>3, <3>1, <3>2
        <3>4. NoStrayObject'
          BY <1>4, <2>3, <3>1, <3>2 DEF Install
        <3> QED  BY <3>3, <3>4
      <2> QED  BY <1>4, <2>1, <2>2, <2>3 DEF Install
  <1>5. ASSUME NEW r \in Handler, Insert(r) PROVE CacheInv'
      BY <1>5 DEF Insert, Goto, Fault
  <1>6. ASSUME NEW r \in Handler, Undo(r) PROVE CacheInv'
      BY <1>6 DEF Undo, Goto
  <1>7. ASSUME NEW r \in Handler, Use(r) PROVE CacheInv'
      BY <1>7 DEF Use, Goto
  <1>8. ASSUME NEW o \in made, StoreReport(o) PROVE CacheInv'
      BY <1>8 DEF StoreReport
  <1>9. ASSUME NEW o \in made, RunEnds(o) PROVE CacheInv'
      BY <1>9 DEF RunEnds
  <1>10. ASSUME NEW o \in made, CaptureStart(o) PROVE CacheInv'
      BY <1>10 DEF CaptureStart
  <1>11. ASSUME NEW o \in made, CaptureEnd(o) PROVE CacheInv'
      BY <1>11 DEF CaptureEnd
  <1>12. ASSUME Expire PROVE CacheInv'
      BY <1>12 DEF Expire
  <1>13. ASSUME NEW d \in Deleter, DeleteSessionHandler(d) PROVE CacheInv'
      BY <1>13 DEF DeleteSessionHandler, DGoto
  <1>14. ASSUME NEW d \in Deleters, DeleteBegin(d) PROVE CacheInv'
      BY <1>14 DEF DeleteBegin, DGoto, Fault
  <1>15. ASSUME NEW d \in Deleters, DeletePlan(d) PROVE CacheInv'
      BY <1>15 DEF DeletePlan, DGoto, Fault
  <1>16. ASSUME NEW d \in Deleters, Stop(d) PROVE CacheInv'
      BY <1>16 DEF Stop, DGoto, CancelRun
  <1>17. ASSUME NEW d \in Deleters, StopWait(d) PROVE CacheInv'
      BY <1>17 DEF StopWait, DGoto
  <1>18. ASSUME NEW d \in Deleters, DeleteStorage(d) PROVE CacheInv'
      BY <1>18 DEF DeleteStorage, DGoto, Fault
  <1>19. ASSUME NEW d \in Deleters, DeleteCommit(d) PROVE CacheInv'
      BY <1>19 DEF DeleteCommit, DGoto, Fault
  <1>20. ASSUME NEW d \in Deleters, DeleteMemory(d) PROVE CacheInv'
      BY <1>20 DEF DeleteMemory, DGoto, Detach
  <1>21. ASSUME NEW d \in Deleters, DeleteClose(d) PROVE CacheInv'
      BY <1>21 DEF DeleteClose, DGoto, CancelRun
  <1>22. ASSUME CleanupDetach PROVE CacheInv'
      BY <1>22 DEF CleanupDetach, Detach
  <1>23. ASSUME CleanupRemove PROVE CacheInv'
      BY <1>23 DEF CleanupRemove
  <1>24. ASSUME CleanupCancel PROVE CacheInv'
      BY <1>24 DEF CleanupCancel, CancelRun
  <1>25. ASSUME CleanupWait PROVE CacheInv'
      BY <1>25 DEF CleanupWait, DGoto
  <1>26. ASSUME CleanupPersisted PROVE CacheInv'
      BY <1>26 DEF CleanupPersisted, DGoto
  <1>27. ASSUME CleanupEnd PROVE CacheInv'
      BY <1>27 DEF CleanupEnd, DGoto, CleanupForgets
  <1>28. CASE UNCHANGED managerVars
      BY <1>28 DEF managerVars
  <1> QED
      BY <1>1, <1>2, <1>3, <1>4, <1>5, <1>6, <1>7, <1>8, <1>9, <1>10, <1>11,
      <1>12, <1>13, <1>14, <1>15, <1>16, <1>17, <1>18, <1>19, <1>20, <1>21,
      <1>22, <1>23, <1>24, <1>25, <1>26, <1>27, <1>28 DEF ManagerNext, GetOrCreate,
      DeleteSessionResources, CleanupStep

\* Every step keeps what a deletion knows of the run it stopped.
LEMMA StopStep ==
    ASSUME ManagerTypeOK, LockHeld, ObjectsKnown, StopInv, [ManagerNext]_managerVars
    PROVE  StopInv'
  <1> USE SessionManagerAssumption DEF StopInv, ManagerTypeOK, LockHeld,
      ObjectsKnown, StopHonest, StoppedRunOver, Deleters, store, objects,
      handler, deletion, cleanup, NewObject
  <1>1. ASSUME NEW r \in Handler, Lookup(r) PROVE StopInv'
      BY <1>1 DEF Lookup, Goto
  <1>2. ASSUME NEW r \in Handler, Touch(r) PROVE StopInv'
      BY <1>2 DEF Touch, Goto, Fault
  <1>3. ASSUME NEW r \in Handler, Query(r) PROVE StopInv'
      BY <1>3 DEF Query, Goto, Fault
  <1>4. ASSUME NEW r \in Handler, Install(r) PROVE StopInv'
      BY <1>4 DEF Install, Goto, Fault
  <1>5. ASSUME NEW r \in Handler, Insert(r) PROVE StopInv'
      BY <1>5 DEF Insert, Goto, Fault
  <1>6. ASSUME NEW r \in Handler, Undo(r) PROVE StopInv'
      BY <1>6 DEF Undo, Goto
  <1>7. ASSUME NEW r \in Handler, Use(r) PROVE StopInv'
      BY <1>7 DEF Use, Goto
  <1>8. ASSUME NEW o \in made, StoreReport(o) PROVE StopInv'
      BY <1>8 DEF StoreReport
  <1>9. ASSUME NEW o \in made, RunEnds(o) PROVE StopInv'
      BY <1>9 DEF RunEnds
  <1>10. ASSUME NEW o \in made, CaptureStart(o) PROVE StopInv'
      BY <1>10 DEF CaptureStart
  <1>11. ASSUME NEW o \in made, CaptureEnd(o) PROVE StopInv'
      BY <1>11 DEF CaptureEnd
  <1>12. ASSUME Expire PROVE StopInv'
      BY <1>12 DEF Expire
  <1>13. ASSUME NEW d \in Deleter, DeleteSessionHandler(d) PROVE StopInv'
      BY <1>13 DEF DeleteSessionHandler, DGoto
  <1>14. ASSUME NEW d \in Deleters, DeleteBegin(d) PROVE StopInv'
      BY <1>14 DEF DeleteBegin, DGoto, Fault
  <1>15. ASSUME NEW d \in Deleters, DeletePlan(d) PROVE StopInv'
      BY <1>15 DEF DeletePlan, DGoto, Fault
  <1>16. ASSUME NEW d \in Deleters, Stop(d) PROVE StopInv'
      BY <1>16 DEF Stop, DGoto, CancelRun
  <1>17. ASSUME NEW d \in Deleters, StopWait(d) PROVE StopInv'
      BY <1>17 DEF StopWait, DGoto
  <1>18. ASSUME NEW d \in Deleters, DeleteStorage(d) PROVE StopInv'
      BY <1>18 DEF DeleteStorage, DGoto, Fault
  <1>19. ASSUME NEW d \in Deleters, DeleteCommit(d) PROVE StopInv'
      BY <1>19 DEF DeleteCommit, DGoto, Fault
  <1>20. ASSUME NEW d \in Deleters, DeleteMemory(d) PROVE StopInv'
      BY <1>20 DEF DeleteMemory, DGoto, Detach
  <1>21. ASSUME NEW d \in Deleters, DeleteClose(d) PROVE StopInv'
      BY <1>21 DEF DeleteClose, DGoto, CancelRun
  <1>22. ASSUME CleanupDetach PROVE StopInv'
      BY <1>22 DEF CleanupDetach, Detach
  <1>23. ASSUME CleanupRemove PROVE StopInv'
      BY <1>23 DEF CleanupRemove
  <1>24. ASSUME CleanupCancel PROVE StopInv'
      BY <1>24 DEF CleanupCancel, CancelRun
  <1>25. ASSUME CleanupWait PROVE StopInv'
      BY <1>25 DEF CleanupWait, DGoto
  <1>26. ASSUME CleanupPersisted PROVE StopInv'
      BY <1>26 DEF CleanupPersisted, DGoto
  <1>27. ASSUME CleanupEnd PROVE StopInv'
      BY <1>27 DEF CleanupEnd, DGoto, CleanupForgets
  <1>28. CASE UNCHANGED managerVars
      BY <1>28 DEF managerVars
  <1> QED
      BY <1>1, <1>2, <1>3, <1>4, <1>5, <1>6, <1>7, <1>8, <1>9, <1>10, <1>11,
      <1>12, <1>13, <1>14, <1>15, <1>16, <1>17, <1>18, <1>19, <1>20, <1>21,
      <1>22, <1>23, <1>24, <1>25, <1>26, <1>27, <1>28 DEF ManagerNext, GetOrCreate,
      DeleteSessionResources, CleanupStep

\* Every step keeps what a deletion knows of the stored objects.
LEMMA PlanStep ==
    ASSUME ManagerTypeOK, LockHeld, PlanHonest, [ManagerNext]_managerVars
    PROVE  PlanHonest'
  <1> USE SessionManagerAssumption DEF ManagerTypeOK, LockHeld,
      PlanHonest, Deleters, store, objects, handler, deletion, cleanup,
      NewObject
  <1>1. ASSUME NEW r \in Handler, Lookup(r) PROVE PlanHonest'
      BY <1>1 DEF Lookup, Goto
  <1>2. ASSUME NEW r \in Handler, Touch(r) PROVE PlanHonest'
      BY <1>2 DEF Touch, Goto, Fault
  <1>3. ASSUME NEW r \in Handler, Query(r) PROVE PlanHonest'
      BY <1>3 DEF Query, Goto, Fault
  <1>4. ASSUME NEW r \in Handler, Install(r) PROVE PlanHonest'
      BY <1>4 DEF Install, Goto, Fault
  <1>5. ASSUME NEW r \in Handler, Insert(r) PROVE PlanHonest'
      BY <1>5 DEF Insert, Goto, Fault
  <1>6. ASSUME NEW r \in Handler, Undo(r) PROVE PlanHonest'
      BY <1>6 DEF Undo, Goto
  <1>7. ASSUME NEW r \in Handler, Use(r) PROVE PlanHonest'
      BY <1>7 DEF Use, Goto
  <1>8. ASSUME NEW o \in made, StoreReport(o) PROVE PlanHonest'
      BY <1>8 DEF StoreReport
  <1>9. ASSUME NEW o \in made, RunEnds(o) PROVE PlanHonest'
      BY <1>9 DEF RunEnds
  <1>10. ASSUME NEW o \in made, CaptureStart(o) PROVE PlanHonest'
      BY <1>10 DEF CaptureStart
  <1>11. ASSUME NEW o \in made, CaptureEnd(o) PROVE PlanHonest'
      BY <1>11 DEF CaptureEnd
  <1>12. ASSUME Expire PROVE PlanHonest'
      BY <1>12 DEF Expire
  <1>13. ASSUME NEW d \in Deleter, DeleteSessionHandler(d) PROVE PlanHonest'
      BY <1>13 DEF DeleteSessionHandler, DGoto
  <1>14. ASSUME NEW d \in Deleters, DeleteBegin(d) PROVE PlanHonest'
      BY <1>14 DEF DeleteBegin, DGoto, Fault
  <1>15. ASSUME NEW d \in Deleters, DeletePlan(d) PROVE PlanHonest'
      BY <1>15 DEF DeletePlan, DGoto, Fault
  <1>16. ASSUME NEW d \in Deleters, Stop(d) PROVE PlanHonest'
      BY <1>16 DEF Stop, DGoto, CancelRun
  <1>17. ASSUME NEW d \in Deleters, StopWait(d) PROVE PlanHonest'
      BY <1>17 DEF StopWait, DGoto
  <1>18. ASSUME NEW d \in Deleters, DeleteStorage(d) PROVE PlanHonest'
      BY <1>18 DEF DeleteStorage, DGoto, Fault
  <1>19. ASSUME NEW d \in Deleters, DeleteCommit(d) PROVE PlanHonest'
      BY <1>19 DEF DeleteCommit, DGoto, Fault
  <1>20. ASSUME NEW d \in Deleters, DeleteMemory(d) PROVE PlanHonest'
      BY <1>20 DEF DeleteMemory, DGoto, Detach
  <1>21. ASSUME NEW d \in Deleters, DeleteClose(d) PROVE PlanHonest'
      BY <1>21 DEF DeleteClose, DGoto, CancelRun
  <1>22. ASSUME CleanupDetach PROVE PlanHonest'
      BY <1>22 DEF CleanupDetach, Detach
  <1>23. ASSUME CleanupRemove PROVE PlanHonest'
      BY <1>23 DEF CleanupRemove
  <1>24. ASSUME CleanupCancel PROVE PlanHonest'
      BY <1>24 DEF CleanupCancel, CancelRun
  <1>25. ASSUME CleanupWait PROVE PlanHonest'
      BY <1>25 DEF CleanupWait, DGoto
  <1>26. ASSUME CleanupPersisted PROVE PlanHonest'
      BY <1>26 DEF CleanupPersisted, DGoto
  <1>27. ASSUME CleanupEnd PROVE PlanHonest'
      BY <1>27 DEF CleanupEnd, DGoto, CleanupForgets
  <1>28. CASE UNCHANGED managerVars
      BY <1>28 DEF managerVars
  <1> QED
      BY <1>1, <1>2, <1>3, <1>4, <1>5, <1>6, <1>7, <1>8, <1>9, <1>10, <1>11,
      <1>12, <1>13, <1>14, <1>15, <1>16, <1>17, <1>18, <1>19, <1>20, <1>21,
      <1>22, <1>23, <1>24, <1>25, <1>26, <1>27, <1>28 DEF ManagerNext, GetOrCreate,
      DeleteSessionResources, CleanupStep

-----------------------------------------------------------------------------
(* Theorems.                                                                *)

\* ManagerInv is an inductive invariant of the manager, its handlers, the
\* deletions and the cleanup.
THEOREM ManagerInvariant == ManagerSpec => []ManagerInv
  <1>1. ManagerInit => ManagerInv
      BY SessionManagerAssumption DEF ManagerInit, ManagerInv, ManagerTypeOK, CacheInv, LockHeld,
         ObjectsKnown, CachedIsUsable, NoStrayObject, StopInv, StopHonest,
         StoppedRunOver, PlanHonest, Deleters
  <1>2. ManagerInv /\ [ManagerNext]_managerVars => ManagerInv'
      BY TypeStep, CacheStep, StopStep, PlanStep DEF ManagerInv, CacheInv
  <1> QED  BY <1>1, <1>2, PTL DEF ManagerSpec

\* The state of session.Manager and the locals of everything that uses it are
\* always of their types.
THEOREM ManagerTypeCorrect == ManagerSpec => []ManagerTypeOK
  BY ManagerInvariant, PTL DEF ManagerInv

\* A handler that finds a session in the cache can use it: GetOrCreate hands out
\* a detached object to nobody, also after a cleanup failed and put its victim
\* back.
THEOREM CacheServesUsableSessions == ManagerSpec => []CachedIsUsable
  BY ManagerInvariant, PTL DEF ManagerInv, CacheInv

\* No session object that still takes tasks is unreachable from the cache, but
\* for the one whose maker could not insert the row.
THEOREM NoSessionLostAlive == ManagerSpec => []NoStrayObject
  BY ManagerInvariant, PTL DEF ManagerInv, CacheInv

\* Manager.Stop lets deleteSessionResources go on to the stored objects only when
\* the execution it cancelled has ended.
THEOREM DeletionAwaitsItsRun == ManagerSpec => []StoppedRunOver
  BY ManagerInvariant, PTL DEF ManagerInv, StopInv

\* deleteSessionResources deletes the row only after every planned object is gone
\* from storage, whatever failed on the way and whatever other deletions did.
THEOREM RowGoesLast == ManagerSpec => []RowOutlivesFiles
  <1>1. PlanHonest => RowOutlivesFiles
      BY DEF PlanHonest, RowOutlivesFiles
  <1> QED  BY <1>1, ManagerInvariant, PTL DEF ManagerInv
=============================================================================
