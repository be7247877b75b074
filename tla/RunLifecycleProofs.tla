------------------------- MODULE RunLifecycleProofs -------------------------
(***************************************************************************)
(* Proofs about RunLifecycle, for every set of requests and every bound.   *)
(* SlotInv is the inductive invariant: SingleExecution alone is not         *)
(* inductive, because what keeps a second request out is the state of the   *)
(* slot, and what keeps a finished run's late events from freeing the slot  *)
(* of its successor is that run names are never used twice.                 *)
(***************************************************************************)
EXTENDS RunLifecycle, TLAPS

\* CancelRun keeps the slot and the contexts well-typed.
LEMMA CancelRunTyped ==
    ASSUME SlotType, NEW r \in Run, CancelRun(r)
    PROVE  SlotType'
  <1>1. CASE activeRun = r /\ activeCancel # None
      BY <1>1 DEF CancelRun, SlotType, RunOrNone, Run
  <1>2. CASE ~(activeRun = r /\ activeCancel # None)
      BY <1>2 DEF CancelRun, SlotType, slot
  <1> QED  BY <1>1, <1>2

-----------------------------------------------------------------------------
(* Type correctness.                                                        *)

\* The steps of the chat and submit handlers keep the types.
LEMMA HandlerTyped ==
    ASSUME TypeOK, PhaseOrder, NEW q \in Request, HandlerStep(q)
    PROVE  TypeOK'
  <1> USE RunLifecycleAssumption DEF TypeOK, SlotType, HandlerType,
     EngineType, DurableType, BudgetType, PhaseOrder, RunOrNone, Run,
     RunStatus, Terminal, PcLabels, EngLabels, slot, handler, execs, engine,
     durable, recovery, budget
  <1>1. CASE ChatGetOrCreate(q)
      <2>1. SlotType'
        BY <1>1 DEF ChatGetOrCreate, Goto, Return, GetOrCreate, GetOrCreateFails,
           Fault
      <2>2. HandlerType'
        <3>1. live' \in BOOLEAN
          BY <1>1 DEF ChatGetOrCreate, Goto, Return, GetOrCreate,
             GetOrCreateFails, Fault
        <3>2. pc' \in [Request -> PcLabels]
          BY <1>1 DEF ChatGetOrCreate, Goto, Return, GetOrCreate,
             GetOrCreateFails, Fault
        <3>3. target' \in [Request -> RunOrNone]
          BY <1>1 DEF ChatGetOrCreate, Goto, Return, GetOrCreate,
             GetOrCreateFails, Fault
        <3>4. UNCHANGED backend /\ seen' \subseteq Request
              /\ fresh' \subseteq Request /\ UNCHANGED snap
          BY <1>1 DEF ChatGetOrCreate, Goto, Return, GetOrCreate,
             GetOrCreateFails, Fault
        <3> QED  BY <3>1, <3>2, <3>3, <3>4
      <2>3. EngineType'
        BY <1>1 DEF ChatGetOrCreate, Goto, Return, GetOrCreate, GetOrCreateFails,
           Fault
      <2>4. DurableType'
        BY <1>1 DEF ChatGetOrCreate, Goto, Return, GetOrCreate, GetOrCreateFails,
           Fault
      <2>5. BudgetType'
        BY <1>1 DEF ChatGetOrCreate, Goto, Return, GetOrCreate, GetOrCreateFails,
           Fault
      <2> QED  BY <2>1, <2>2, <2>3, <2>4, <2>5 DEF TypeOK
  <1>2. CASE SubmitGetOrCreate(q)
      <2>1. SlotType'
        BY <1>2 DEF SubmitGetOrCreate, Goto, Return, GetOrCreate,
           GetOrCreateFails, Fault
      <2>2. HandlerType'
        <3>1. live' \in BOOLEAN
          BY <1>2 DEF SubmitGetOrCreate, Goto, Return, GetOrCreate,
             GetOrCreateFails, Fault
        <3>2. pc' \in [Request -> PcLabels]
          BY <1>2 DEF SubmitGetOrCreate, Goto, Return, GetOrCreate,
             GetOrCreateFails, Fault
        <3>3. target' \in [Request -> RunOrNone]
          BY <1>2 DEF SubmitGetOrCreate, Goto, Return, GetOrCreate,
             GetOrCreateFails, Fault
        <3>4. UNCHANGED backend /\ seen' \subseteq Request
              /\ fresh' \subseteq Request /\ UNCHANGED snap
          BY <1>2 DEF SubmitGetOrCreate, Goto, Return, GetOrCreate,
             GetOrCreateFails, Fault
        <3> QED  BY <3>1, <3>2, <3>3, <3>4
      <2>3. EngineType'
        BY <1>2 DEF SubmitGetOrCreate, Goto, Return, GetOrCreate,
           GetOrCreateFails, Fault
      <2>4. DurableType'
        BY <1>2 DEF SubmitGetOrCreate, Goto, Return, GetOrCreate,
           GetOrCreateFails, Fault
      <2>5. BudgetType'
        BY <1>2 DEF SubmitGetOrCreate, Goto, Return, GetOrCreate,
           GetOrCreateFails, Fault
      <2> QED  BY <2>1, <2>2, <2>3, <2>4, <2>5 DEF TypeOK
  <1>3. CASE SubmitPeek(q)
      BY <1>3 DEF SubmitPeek, Goto
  <1>4. CASE HydrateRead(q)
      <2>1. SlotType'
        BY <1>4 DEF HydrateRead, Goto, Return, Fault
      <2>2. HandlerType'
        <3>1. live' \in BOOLEAN
          BY <1>4 DEF HydrateRead, Goto, Return, Fault
        <3>2. pc' \in [Request -> PcLabels]
          BY <1>4 DEF HydrateRead, Goto, Return, Fault
        <3>3. target' \in [Request -> RunOrNone]
          BY <1>4 DEF HydrateRead, Goto, Return, Fault
        <3>4. UNCHANGED backend /\ seen' \subseteq Request
              /\ fresh' \subseteq Request 
              /\ snap' \in [Request -> [turns : SUBSET Run, ask : RunOrNone]]
          BY <1>4 DEF HydrateRead, Goto, Return, Fault
        <3> QED  BY <3>1, <3>2, <3>3, <3>4
      <2>3. EngineType'
        BY <1>4 DEF HydrateRead, Goto, Return, Fault
      <2>4. DurableType'
        BY <1>4 DEF HydrateRead, Goto, Return, Fault
      <2>5. BudgetType'
        BY <1>4 DEF HydrateRead, Goto, Return, Fault
      <2> QED  BY <2>1, <2>2, <2>3, <2>4, <2>5 DEF TypeOK
  <1>5. CASE HydrateSet(q)
      BY <1>5 DEF HydrateSet, Goto, RestoreWaitingRun, EmptySnap, NoCall
  <1>6. CASE ChatConsume(q)
      <2>1. SlotType'
        BY <1>6 DEF ChatConsume, Goto, Return, ConsumeWaitingRun
      <2>2. HandlerType'
        <3>1. live' \in BOOLEAN
          BY <1>6 DEF ChatConsume, Goto, Return, ConsumeWaitingRun
        <3>2. pc' \in [Request -> PcLabels]
          BY <1>6 DEF ChatConsume, Goto, Return, ConsumeWaitingRun
        <3>3. target' \in [Request -> RunOrNone]
          BY <1>6 DEF ChatConsume, Goto, Return, ConsumeWaitingRun
        <3>4. UNCHANGED backend /\ seen' \subseteq Request
              /\ fresh' \subseteq Request /\ UNCHANGED snap
          BY <1>6 DEF ChatConsume, Goto, Return, ConsumeWaitingRun
        <3> QED  BY <3>1, <3>2, <3>3, <3>4
      <2>3. EngineType'
        BY <1>6 DEF ChatConsume, Goto, Return, ConsumeWaitingRun
      <2>4. DurableType'
        BY <1>6 DEF ChatConsume, Goto, Return, ConsumeWaitingRun
      <2>5. BudgetType'
        BY <1>6 DEF ChatConsume, Goto, Return, ConsumeWaitingRun
      <2> QED  BY <2>1, <2>2, <2>3, <2>4, <2>5 DEF TypeOK
  <1>7. CASE ChatStart(q)
      <2>1. SlotType'
        BY <1>7 DEF ChatStart, Goto, Return, StartRun
      <2>2. HandlerType'
        <3>1. live' \in BOOLEAN
          BY <1>7 DEF ChatStart, Goto, Return, StartRun
        <3>2. pc' \in [Request -> PcLabels]
          BY <1>7 DEF ChatStart, Goto, Return, StartRun
        <3>3. target' \in [Request -> RunOrNone]
          BY <1>7 DEF ChatStart, Goto, Return, StartRun
        <3>4. UNCHANGED backend /\ seen' \subseteq Request
              /\ fresh' \subseteq Request /\ UNCHANGED snap
          BY <1>7 DEF ChatStart, Goto, Return, StartRun
        <3> QED  BY <3>1, <3>2, <3>3, <3>4
      <2>3. EngineType'
        BY <1>7 DEF ChatStart, Goto, Return, StartRun
      <2>4. DurableType'
        BY <1>7 DEF ChatStart, Goto, Return, StartRun
      <2>5. BudgetType'
        BY <1>7 DEF ChatStart, Goto, Return, StartRun
      <2> QED  BY <2>1, <2>2, <2>3, <2>4, <2>5 DEF TypeOK
  <1>8. CASE ChatHooks(q)
      <2>1. SlotType'
        BY <1>8 DEF ChatHooks, Goto, Return, FinishRun
      <2>2. HandlerType'
        BY <1>8 DEF ChatHooks, Goto, Return, FinishRun
      <2>3. EngineType'
        BY <1>8 DEF ChatHooks, Goto, Return, FinishRun
      <2>4. DurableType'
        BY <1>8 DEF ChatHooks, Goto, Return, FinishRun
      <2>5. BudgetType'
        BY <1>8 DEF ChatHooks, Goto, Return, FinishRun
      <2> QED  BY <2>1, <2>2, <2>3, <2>4, <2>5 DEF TypeOK
  <1>9. CASE ChatCreateRun(q)
      <2>1. SlotType'
        BY <1>9, CancelRunTyped DEF ChatCreateRun, Goto, Return, Fault, NoFault
      <2>2. HandlerType'
        BY <1>9 DEF ChatCreateRun, Goto, Return, CancelRun, Fault, NoFault
      <2>3. EngineType'
        BY <1>9 DEF ChatCreateRun, Goto, Return, CancelRun, Fault, NoFault
      <2>4. DurableType'
        BY <1>9 DEF ChatCreateRun, Goto, Return, CancelRun, Fault, NoFault
      <2>5. BudgetType'
        BY <1>9 DEF ChatCreateRun, Goto, Return, CancelRun, Fault, NoFault
      <2> QED  BY <2>1, <2>2, <2>3, <2>4, <2>5 DEF TypeOK
  <1>10. CASE ChatSaveUser(q)
      <2>1. SlotType'
        BY <1>10, CancelRunTyped DEF ChatSaveUser, Goto, Fault, NoFault
      <2>2. HandlerType'
        BY <1>10 DEF ChatSaveUser, Goto, CancelRun, Fault, NoFault
      <2>3. EngineType'
        BY <1>10 DEF ChatSaveUser, Goto, CancelRun, Fault, NoFault
      <2>4. DurableType'
        BY <1>10 DEF ChatSaveUser, Goto, CancelRun, Fault, NoFault
      <2>5. BudgetType'
        BY <1>10 DEF ChatSaveUser, Goto, CancelRun, Fault, NoFault
      <2> QED  BY <2>1, <2>2, <2>3, <2>4, <2>5 DEF TypeOK
  <1>11. CASE ChatUpdateLastRun(q)
      <2>1. SlotType'
        BY <1>11, CancelRunTyped DEF ChatUpdateLastRun, Goto, Spawn, Fault,
           NoFault
      <2>2. HandlerType'
        BY <1>11 DEF ChatUpdateLastRun, Goto, Spawn, CancelRun, Fault, NoFault
      <2>3. EngineType'
        BY <1>11 DEF ChatUpdateLastRun, Goto, Spawn, CancelRun, Fault, NoFault
      <2>4. DurableType'
        BY <1>11 DEF ChatUpdateLastRun, Goto, Spawn, CancelRun, Fault, NoFault
      <2>5. BudgetType'
        BY <1>11 DEF ChatUpdateLastRun, Goto, Spawn, CancelRun, Fault, NoFault
      <2> QED  BY <2>1, <2>2, <2>3, <2>4, <2>5 DEF TypeOK
  <1>12. CASE ChatFailStatus(q)
      BY <1>12 DEF ChatFailStatus, Goto, Return, UpdateStatus, Fault, NoFault
  <1>13. CASE SubmitConsume(q)
      <2>1. SlotType'
        BY <1>13 DEF SubmitConsume, Goto, Return, ConsumeWaitingRun
      <2>2. HandlerType'
        <3>1. live' \in BOOLEAN
          BY <1>13 DEF SubmitConsume, Goto, Return, ConsumeWaitingRun
        <3>2. pc' \in [Request -> PcLabels]
          BY <1>13 DEF SubmitConsume, Goto, Return, ConsumeWaitingRun
        <3>3. target' \in [Request -> RunOrNone]
          BY <1>13 DEF SubmitConsume, Goto, Return, ConsumeWaitingRun
        <3>4. UNCHANGED backend /\ seen' \subseteq Request
              /\ fresh' \subseteq Request /\ UNCHANGED snap
          BY <1>13 DEF SubmitConsume, Goto, Return, ConsumeWaitingRun
        <3> QED  BY <3>1, <3>2, <3>3, <3>4
      <2>3. EngineType'
        BY <1>13 DEF SubmitConsume, Goto, Return, ConsumeWaitingRun
      <2>4. DurableType'
        BY <1>13 DEF SubmitConsume, Goto, Return, ConsumeWaitingRun
      <2>5. BudgetType'
        BY <1>13 DEF SubmitConsume, Goto, Return, ConsumeWaitingRun
      <2> QED  BY <2>1, <2>2, <2>3, <2>4, <2>5 DEF TypeOK
  <1>14. CASE ResumeHooks(q)
      BY <1>14 DEF ResumeHooks, Goto, Return, ReturnRunToWaiting
  <1>15. CASE ResumeSave(q)
      BY <1>15 DEF ResumeSave, Goto, Return, ReturnRunToWaiting, Fault,
         NoFault
  <1>16. CASE ResumeStatus(q)
      <2>1. SlotType'
        BY <1>16 DEF ResumeStatus, Goto, Return, ReturnRunToWaiting, Fault,
           NoFault
      <2>2. HandlerType'
        BY <1>16 DEF ResumeStatus, Goto, Return, ReturnRunToWaiting, Fault,
           NoFault
      <2>3. EngineType'
        BY <1>16 DEF ResumeStatus, Goto, Return, ReturnRunToWaiting, Fault,
           NoFault
      <2>4. DurableType'
        BY <1>16 DEF ResumeStatus, Goto, Return, ReturnRunToWaiting, Fault,
           NoFault
      <2>5. BudgetType'
        BY <1>16 DEF ResumeStatus, Goto, Return, ReturnRunToWaiting, Fault,
           NoFault
      <2> QED  BY <2>1, <2>2, <2>3, <2>4, <2>5 DEF TypeOK
  <1>17. CASE ResumeProvide(q)
      <2>1. SlotType'
        BY <1>17 DEF ResumeProvide, Goto, Spawn, ReturnRunToWaiting, AskOpen
      <2>2. HandlerType'
        BY <1>17 DEF ResumeProvide, Goto, Spawn, ReturnRunToWaiting, AskOpen
      <2>3. EngineType'
        BY <1>17 DEF ResumeProvide, Goto, Spawn, ReturnRunToWaiting, AskOpen
      <2>4. DurableType'
        BY <1>17 DEF ResumeProvide, Goto, Spawn, ReturnRunToWaiting, AskOpen
      <2>5. BudgetType'
        BY <1>17 DEF ResumeProvide, Goto, Spawn, ReturnRunToWaiting, AskOpen
      <2> QED  BY <2>1, <2>2, <2>3, <2>4, <2>5 DEF TypeOK
  <1>18. CASE ResumeRollback(q)
      BY <1>18 DEF ResumeRollback, Goto, Return, UpdateStatus, Fault, NoFault
  <1> QED
      BY <1>1, <1>2, <1>3, <1>4, <1>5, <1>6, <1>7, <1>8, <1>9, <1>10, <1>11,
         <1>12, <1>13, <1>14, <1>15, <1>16, <1>17, <1>18 DEF HandlerStep

\* The steps of an execution keep the types.
LEMMA EngineTyped ==
    ASSUME TypeOK, PhaseOrder, NEW q \in Request, EngineStep(q)
    PROVE  TypeOK'
  <1> USE RunLifecycleAssumption DEF TypeOK, SlotType, HandlerType,
     EngineType, DurableType, BudgetType, PhaseOrder, RunOrNone, Run,
     RunStatus, Terminal, PcLabels, EngLabels, slot, handler, execs, engine,
     durable, recovery, budget
  <1>1. CASE Dispatch(q)
      <2>1. SlotType'
        BY <1>1 DEF Dispatch, At, UpdateCancelFunc, FinishRun
      <2>2. HandlerType'
        BY <1>1 DEF Dispatch, At, UpdateCancelFunc, FinishRun
      <2>3. EngineType'
        BY <1>1 DEF Dispatch, At, UpdateCancelFunc, FinishRun
      <2>4. DurableType'
        BY <1>1 DEF Dispatch, At, UpdateCancelFunc, FinishRun
      <2>5. BudgetType'
        BY <1>1 DEF Dispatch, At, UpdateCancelFunc, FinishRun
      <2> QED  BY <2>1, <2>2, <2>3, <2>4, <2>5 DEF TypeOK
  <1>2. CASE FailRunStart(q)
      BY <1>2 DEF FailRunStart, At, Exit, UpdateStatus, Fault, NoFault
  <1>3. CASE EngineEnter(q)
      <2>1. SlotType'
        BY <1>3 DEF EngineEnter, At, Repaired
      <2>2. HandlerType'
        BY <1>3 DEF EngineEnter, At, Repaired
      <2>3. EngineType'
        <3>1. eng' \in [Request -> EngLabels]
          BY <1>3 DEF EngineEnter, At, Repaired
        <3>2. verdict' \in [Request -> RunStatus \cup {"none"}]
          BY <1>3 DEF EngineEnter, At, Repaired
        <3>3. iters' \in [Request -> 0 .. MaxIterations]
          BY <1>3 DEF EngineEnter, At, Repaired
        <3>4. hist' \subseteq Run /\ suspended' \in RunOrNone
          BY <1>3 DEF EngineEnter, At, Repaired
        <3>5. call' \in [by : RunOrNone, kind : {"tool", "ask"}, results : 0 .. 2]
          BY <1>3 DEF EngineEnter, At, Repaired
        <3> QED  BY <3>1, <3>2, <3>3, <3>4, <3>5
      <2>4. DurableType'
        BY <1>3 DEF EngineEnter, At, Repaired
      <2>5. BudgetType'
        BY <1>3 DEF EngineEnter, At, Repaired
      <2> QED  BY <2>1, <2>2, <2>3, <2>4, <2>5 DEF TypeOK
  <1>4. CASE EngineLoop(q)
      <2>1. SlotType'
        BY <1>4 DEF EngineLoop, At, Conclude
      <2>2. HandlerType'
        BY <1>4 DEF EngineLoop, At, Conclude
      <2>3. EngineType'
        <3>1. eng' \in [Request -> EngLabels]
          BY <1>4 DEF EngineLoop, At, Conclude
        <3>2. verdict' \in [Request -> RunStatus \cup {"none"}]
          BY <1>4 DEF EngineLoop, At, Conclude
        <3>3. iters' \in [Request -> 0 .. MaxIterations]
          BY <1>4 DEF EngineLoop, At, Conclude
        <3>4. hist' \subseteq Run /\ suspended' \in RunOrNone
          BY <1>4 DEF EngineLoop, At, Conclude
        <3>5. call' \in [by : RunOrNone, kind : {"tool", "ask"}, results : 0 .. 2]
          BY <1>4 DEF EngineLoop, At, Conclude
        <3> QED  BY <3>1, <3>2, <3>3, <3>4, <3>5
      <2>4. DurableType'
        BY <1>4 DEF EngineLoop, At, Conclude
      <2>5. BudgetType'
        BY <1>4 DEF EngineLoop, At, Conclude
      <2> QED  BY <2>1, <2>2, <2>3, <2>4, <2>5 DEF TypeOK
  <1>5. CASE EngineResponse(q)
      BY <1>5 DEF EngineResponse, At, Conclude
  <1>6. CASE EngineTool(q)
      BY <1>6 DEF EngineTool, At, Conclude, Answered
  <1>7. CASE EngineAsk(q)
      <2>1. SlotType'
        BY <1>7 DEF EngineAsk, At, Conclude, Answered
      <2>2. HandlerType'
        BY <1>7 DEF EngineAsk, At, Conclude, Answered
      <2>3. EngineType'
        <3>1. eng' \in [Request -> EngLabels]
          BY <1>7 DEF EngineAsk, At, Conclude, Answered
        <3>2. verdict' \in [Request -> RunStatus \cup {"none"}]
          BY <1>7 DEF EngineAsk, At, Conclude, Answered
        <3>3. iters' \in [Request -> 0 .. MaxIterations]
          BY <1>7 DEF EngineAsk, At, Conclude, Answered
        <3>4. hist' \subseteq Run /\ suspended' \in RunOrNone
          BY <1>7 DEF EngineAsk, At, Conclude, Answered
        <3>5. call' \in [by : RunOrNone, kind : {"tool", "ask"}, results : 0 .. 2]
          BY <1>7 DEF EngineAsk, At, Conclude, Answered
        <3> QED  BY <3>1, <3>2, <3>3, <3>4, <3>5
      <2>4. DurableType'
        BY <1>7 DEF EngineAsk, At, Conclude, Answered
      <2>5. BudgetType'
        BY <1>7 DEF EngineAsk, At, Conclude, Answered
      <2> QED  BY <2>1, <2>2, <2>3, <2>4, <2>5 DEF TypeOK
  <1>8. CASE AbortStatus(q)
      BY <1>8 DEF AbortStatus, At, UpdateStatus, Fault, NoFault
  <1>9. CASE EmitPersisted(q)
      BY <1>9 DEF EmitPersisted, At, SuspendRun, FinishRun
  <1>10. CASE EmitFails(q)
      <2>1. SlotType'
        BY <1>10 DEF EmitFails, At, HandlePersistenceFailure, CancelRun
      <2>2. HandlerType'
        BY <1>10 DEF EmitFails, At, HandlePersistenceFailure, CancelRun
      <2>3. EngineType'
        BY <1>10 DEF EmitFails, At, HandlePersistenceFailure, CancelRun
      <2>4. DurableType'
        BY <1>10 DEF EmitFails, At, HandlePersistenceFailure, CancelRun
      <2>5. BudgetType'
        BY <1>10 DEF EmitFails, At, HandlePersistenceFailure, CancelRun
      <2> QED  BY <2>1, <2>2, <2>3, <2>4, <2>5 DEF TypeOK
  <1>11. CASE SetRunStatus(q)
      BY <1>11 DEF SetRunStatus, At, UpdateStatus, Fault, NoFault
  <1>12. CASE EmitUsage(q)
      <2>1. SlotType'
        BY <1>12 DEF EmitUsage, At, HandlePersistenceFailure, CancelRun
      <2>2. HandlerType'
        BY <1>12 DEF EmitUsage, At, HandlePersistenceFailure, CancelRun
      <2>3. EngineType'
        BY <1>12 DEF EmitUsage, At, HandlePersistenceFailure, CancelRun
      <2>4. DurableType'
        BY <1>12 DEF EmitUsage, At, HandlePersistenceFailure, CancelRun
      <2>5. BudgetType'
        BY <1>12 DEF EmitUsage, At, HandlePersistenceFailure, CancelRun
      <2> QED  BY <2>1, <2>2, <2>3, <2>4, <2>5 DEF TypeOK
  <1>13. CASE EngineExit(q)
      BY <1>13 DEF EngineExit, At, Exit, Repaired
  <1> QED
      BY <1>1, <1>2, <1>3, <1>4, <1>5, <1>6, <1>7, <1>8, <1>9, <1>10, <1>11,
         <1>12, <1>13 DEF EngineStep

\* The arrival of requests keeps the types.
LEMMA ClientTyped ==
    ASSUME TypeOK, PhaseOrder, ClientStep
    PROVE  TypeOK'
  <1> USE RunLifecycleAssumption DEF TypeOK, SlotType, HandlerType,
     EngineType, DurableType, BudgetType, PhaseOrder, RunOrNone, Run,
     RunStatus, Terminal, PcLabels, EngLabels, slot, handler, execs, engine,
     durable, recovery, budget
  <1>1. CASE \E p \in Request : ChatPeek(p)
      BY <1>1 DEF ChatPeek, Goto
  <1>2. CASE \E p \in Request, r \in Run : SubmitLookup(p, r)
      BY <1>2 DEF SubmitLookup, Goto
  <1>3. CASE \E r \in Run : CancelRunHandler(r)
      <2>1. PICK r \in Run : CancelRunHandler(r)  BY <1>3
      <2>2. SlotType'
          BY <2>1, CancelRunTyped DEF CancelRunHandler
      <2>3. HandlerType' /\ EngineType' /\ DurableType' /\ BudgetType'
          BY <2>1 DEF CancelRunHandler, GetOrCreate
      <2> QED  BY <2>2, <2>3 DEF TypeOK
  <1>4. CASE OtherHandlerGetOrCreate
      BY <1>4 DEF OtherHandlerGetOrCreate, GetOrCreate
  <1>5. CASE \E p \in Request : CaptureGetOrCreate(p)
      BY <1>5 DEF CaptureGetOrCreate, Goto, GetOrCreate
  <1>6. CASE RecoverCheckLive
      BY <1>6 DEF RecoverCheckLive
  <1> QED
      BY <1>1, <1>2, <1>3, <1>4, <1>5, <1>6 DEF ClientStep

\* Lost events and failed finalizations keep the types.
LEMMA FaultTyped ==
    ASSUME TypeOK, PhaseOrder, NEW q \in Request, FaultStep(q)
    PROVE  TypeOK'
  <1> USE RunLifecycleAssumption DEF TypeOK, SlotType, HandlerType,
     EngineType, DurableType, BudgetType, PhaseOrder, RunOrNone, Run,
     RunStatus, Terminal, PcLabels, EngLabels, slot, handler, execs, engine,
     durable, recovery, budget
  <1>1. CASE ProgressEventFails(q)
      <2>1. SlotType'
        BY <1>1 DEF ProgressEventFails, HandlePersistenceFailure, CancelRun
      <2>2. HandlerType'
        BY <1>1 DEF ProgressEventFails, HandlePersistenceFailure, CancelRun
      <2>3. EngineType'
        BY <1>1 DEF ProgressEventFails, HandlePersistenceFailure, CancelRun
      <2>4. DurableType'
        BY <1>1 DEF ProgressEventFails, HandlePersistenceFailure, CancelRun
      <2>5. BudgetType'
        BY <1>1 DEF ProgressEventFails, HandlePersistenceFailure, CancelRun
      <2> QED  BY <2>1, <2>2, <2>3, <2>4, <2>5 DEF TypeOK
  <1>2. CASE FinalizeFails(q)
      BY <1>2 DEF FinalizeFails, At, FinishRun, Fault
  <1> QED
      BY <1>1, <1>2 DEF FaultStep

\* Stale-run recovery keeps the types.
LEMMA RecoveryTyped ==
    ASSUME TypeOK, PhaseOrder, RecoveryStep
    PROVE  TypeOK'
  <1> USE RunLifecycleAssumption DEF TypeOK, SlotType, HandlerType,
     EngineType, DurableType, BudgetType, PhaseOrder, RunOrNone, Run,
     RunStatus, Terminal, PcLabels, EngLabels, slot, handler, execs, engine,
     durable, recovery, budget
  <1>1. CASE RecoverList
      BY <1>1 DEF RecoverList, Fault, NoFault
  <1>2. CASE RecoverMark
      BY <1>2 DEF RecoverMark, Fault
  <1> QED
      BY <1>1, <1>2 DEF RecoveryStep

\* A restart keeps the types.
LEMMA RestartTyped ==
    ASSUME TypeOK, PhaseOrder, Restart
    PROVE  TypeOK'
  <1> USE RunLifecycleAssumption DEF TypeOK, SlotType, HandlerType,
     EngineType, DurableType, BudgetType, PhaseOrder, RunOrNone, Run,
     RunStatus, Terminal, PcLabels, EngLabels, slot, handler, execs, engine,
     durable, recovery, budget
  <1>1. CASE Restart
      <2>1. SlotType'
        BY <1>1 DEF Restart, EmptySnap, NoCall
      <2>2. HandlerType'
        <3>1. pc' \in [Request -> PcLabels]
            BY <1>1 DEF Restart
        <3>2. snap' \in [Request -> [turns : SUBSET Run, ask : RunOrNone]]
            BY <1>1 DEF Restart, EmptySnap
        <3>3. live' \in BOOLEAN /\ backend' = backend
            BY <1>1 DEF Restart
        <3>4. /\ target' \in [Request -> RunOrNone]
              /\ seen' \subseteq Request /\ fresh' \subseteq Request
            BY <1>1 DEF Restart
        <3> HIDE DEF PcLabels
        <3> QED  BY <3>1, <3>2, <3>3, <3>4
      <2>3. EngineType'
        BY <1>1 DEF Restart, EmptySnap, NoCall
      <2>4. DurableType'
        BY <1>1 DEF Restart, EmptySnap, NoCall
      <2>5. BudgetType'
        BY <1>1 DEF Restart, EmptySnap, NoCall
      <2> QED  BY <2>1, <2>2, <2>3, <2>4, <2>5 DEF TypeOK
  <1> QED
      BY <1>1 DEF Restart

-----------------------------------------------------------------------------
(* The slot invariant.                                                      *)

\* The steps of the chat and submit handlers keep the slot invariant.
LEMMA HandlerKeepsSlotInv ==
    ASSUME TypeOK, SlotInv, NEW q \in Request, HandlerStep(q)
    PROVE  SlotInv'
  <1> USE RunLifecycleAssumption DEF TypeOK, SlotType, HandlerType,
     EngineType, DurableType, SlotInv, SlotAgreesWithOwner, SingleExecution,
     PhaseOrder, FreshNames, Unborn, RecordedBeforeUse, OnRecord, RunStatus,
     Terminal, Owns, Starting, Resuming, Executing, RunOrNone, Run, slot,
     handler, execs, engine, durable, recovery, budget
  <1>1. CASE ChatGetOrCreate(q)
      BY <1>1 DEF ChatGetOrCreate, Goto, Return, GetOrCreate,
         GetOrCreateFails, Fault
  <1>2. CASE SubmitGetOrCreate(q)
      <2>1. SlotAgreesWithOwner'
        BY <1>2 DEF SubmitGetOrCreate, Goto, Return, GetOrCreate,
           GetOrCreateFails, Fault
      <2>2. SingleExecution'
        BY <1>2 DEF SubmitGetOrCreate, Goto, Return, GetOrCreate,
           GetOrCreateFails, Fault
      <2>3. PhaseOrder'
        BY <1>2 DEF SubmitGetOrCreate, Goto, Return, GetOrCreate,
           GetOrCreateFails, Fault
      <2>4. FreshNames'
        BY <1>2 DEF SubmitGetOrCreate, Goto, Return, GetOrCreate,
           GetOrCreateFails, Fault
      <2>5. RecordedBeforeUse'
        BY <1>2 DEF SubmitGetOrCreate, Goto, Return, GetOrCreate,
           GetOrCreateFails, Fault
      <2> QED  BY <2>1, <2>2, <2>3, <2>4, <2>5 DEF SlotInv
  <1>3. CASE SubmitPeek(q)
      BY <1>3 DEF SubmitPeek, Goto
  <1>4. CASE HydrateRead(q)
      BY <1>4 DEF HydrateRead, Goto, Return, Fault
  <1>5. CASE HydrateSet(q)
      BY <1>5 DEF HydrateSet, Goto, RestoreWaitingRun, EmptySnap, NoCall
  <1>6. CASE ChatConsume(q)
      BY <1>6 DEF ChatConsume, Goto, Return, ConsumeWaitingRun
  <1>7. CASE ChatStart(q)
      BY <1>7 DEF ChatStart, Goto, Return, StartRun
  <1>8. CASE ChatHooks(q)
      BY <1>8 DEF ChatHooks, Goto, Return, FinishRun
  <1>9. CASE ChatCreateRun(q)
      BY <1>9 DEF ChatCreateRun, Goto, Return, CancelRun, Fault, NoFault
  <1>10. CASE ChatSaveUser(q)
      BY <1>10 DEF ChatSaveUser, Goto, CancelRun, Fault, NoFault
  <1>11. CASE ChatUpdateLastRun(q)
      BY <1>11 DEF ChatUpdateLastRun, Goto, Spawn, CancelRun, Fault, NoFault
  <1>12. CASE ChatFailStatus(q)
      BY <1>12 DEF ChatFailStatus, Goto, Return, UpdateStatus, Fault, NoFault
  <1>13. CASE SubmitConsume(q)
      BY <1>13 DEF SubmitConsume, Goto, Return, ConsumeWaitingRun
  <1>14. CASE ResumeHooks(q)
      BY <1>14 DEF ResumeHooks, Goto, Return, ReturnRunToWaiting
  <1>15. CASE ResumeSave(q)
      BY <1>15 DEF ResumeSave, Goto, Return, ReturnRunToWaiting, Fault,
         NoFault
  <1>16. CASE ResumeStatus(q)
      <2>1. SlotAgreesWithOwner'
        BY <1>16 DEF ResumeStatus, Goto, Return, ReturnRunToWaiting, Fault,
           NoFault
      <2>2. SingleExecution'
        BY <1>16 DEF ResumeStatus, Goto, Return, ReturnRunToWaiting, Fault,
           NoFault
      <2>3. PhaseOrder'
        BY <1>16 DEF ResumeStatus, Goto, Return, ReturnRunToWaiting, Fault,
           NoFault
      <2>4. FreshNames'
        BY <1>16 DEF ResumeStatus, Goto, Return, ReturnRunToWaiting, Fault,
           NoFault
      <2>5. RecordedBeforeUse'
        BY <1>16 DEF ResumeStatus, Goto, Return, ReturnRunToWaiting, Fault,
           NoFault
      <2> QED  BY <2>1, <2>2, <2>3, <2>4, <2>5 DEF SlotInv
  <1>17. CASE ResumeProvide(q)
      BY <1>17 DEF ResumeProvide, Goto, Spawn, ReturnRunToWaiting, AskOpen
  <1>18. CASE ResumeRollback(q)
      BY <1>18 DEF ResumeRollback, Goto, Return, UpdateStatus, Fault, NoFault
  <1> QED
      BY <1>1, <1>2, <1>3, <1>4, <1>5, <1>6, <1>7, <1>8, <1>9, <1>10, <1>11,
         <1>12, <1>13, <1>14, <1>15, <1>16, <1>17, <1>18 DEF HandlerStep

\* The steps of an execution keep the slot invariant.
LEMMA EngineKeepsSlotInv ==
    ASSUME TypeOK, SlotInv, NEW q \in Request, EngineStep(q)
    PROVE  SlotInv'
  <1> USE RunLifecycleAssumption DEF TypeOK, SlotType, HandlerType,
     EngineType, DurableType, SlotInv, SlotAgreesWithOwner, SingleExecution,
     PhaseOrder, FreshNames, Unborn, RecordedBeforeUse, OnRecord, RunStatus,
     Terminal, Owns, Starting, Resuming, Executing, RunOrNone, Run, slot,
     handler, execs, engine, durable, recovery, budget
  <1>1. CASE Dispatch(q)
      BY <1>1 DEF Dispatch, At, UpdateCancelFunc, FinishRun
  <1>2. CASE FailRunStart(q)
      BY <1>2 DEF FailRunStart, At, Exit, UpdateStatus, Fault, NoFault
  <1>3. CASE EngineEnter(q)
      BY <1>3 DEF EngineEnter, At, Repaired
  <1>4. CASE EngineLoop(q)
      BY <1>4 DEF EngineLoop, At, Conclude
  <1>5. CASE EngineResponse(q)
      BY <1>5 DEF EngineResponse, At, Conclude
  <1>6. CASE EngineTool(q)
      BY <1>6 DEF EngineTool, At, Conclude, Answered
  <1>7. CASE EngineAsk(q)
      BY <1>7 DEF EngineAsk, At, Conclude, Answered
  <1>8. CASE AbortStatus(q)
      BY <1>8 DEF AbortStatus, At, UpdateStatus, Fault, NoFault
  <1>9. CASE EmitPersisted(q)
      BY <1>9 DEF EmitPersisted, At, SuspendRun, FinishRun
  <1>10. CASE EmitFails(q)
      BY <1>10 DEF EmitFails, At, HandlePersistenceFailure, CancelRun
  <1>11. CASE SetRunStatus(q)
      BY <1>11 DEF SetRunStatus, At, UpdateStatus, Fault, NoFault
  <1>12. CASE EmitUsage(q)
      BY <1>12 DEF EmitUsage, At, HandlePersistenceFailure, CancelRun
  <1>13. CASE EngineExit(q)
      BY <1>13 DEF EngineExit, At, Exit, Repaired
  <1> QED
      BY <1>1, <1>2, <1>3, <1>4, <1>5, <1>6, <1>7, <1>8, <1>9, <1>10, <1>11,
         <1>12, <1>13 DEF EngineStep

\* The arrival of requests keeps the slot invariant.
LEMMA ClientKeepsSlotInv ==
    ASSUME TypeOK, SlotInv, ClientStep
    PROVE  SlotInv'
  <1> USE RunLifecycleAssumption DEF TypeOK, SlotType, HandlerType,
     EngineType, DurableType, SlotInv, SlotAgreesWithOwner, SingleExecution,
     PhaseOrder, FreshNames, Unborn, RecordedBeforeUse, OnRecord, RunStatus,
     Terminal, Owns, Starting, Resuming, Executing, RunOrNone, Run, slot,
     handler, execs, engine, durable, recovery, budget
  <1>1. CASE \E p \in Request : ChatPeek(p)
      BY <1>1 DEF ChatPeek, Goto
  <1>2. CASE \E p \in Request, r \in Run : SubmitLookup(p, r)
      BY <1>2 DEF SubmitLookup, Goto
  <1>3. CASE \E r \in Run : CancelRunHandler(r)
      BY <1>3 DEF CancelRunHandler, GetOrCreate, CancelRun
  <1>4. CASE OtherHandlerGetOrCreate
      BY <1>4 DEF OtherHandlerGetOrCreate, GetOrCreate
  <1>5. CASE \E p \in Request : CaptureGetOrCreate(p)
      BY <1>5 DEF CaptureGetOrCreate, Goto, GetOrCreate
  <1>6. CASE RecoverCheckLive
      BY <1>6 DEF RecoverCheckLive
  <1> QED
      BY <1>1, <1>2, <1>3, <1>4, <1>5, <1>6 DEF ClientStep

\* Lost events and failed finalizations keep the slot invariant.
LEMMA FaultKeepsSlotInv ==
    ASSUME TypeOK, SlotInv, NEW q \in Request, FaultStep(q)
    PROVE  SlotInv'
  <1> USE RunLifecycleAssumption DEF TypeOK, SlotType, HandlerType,
     EngineType, DurableType, SlotInv, SlotAgreesWithOwner, SingleExecution,
     PhaseOrder, FreshNames, Unborn, RecordedBeforeUse, OnRecord, RunStatus,
     Terminal, Owns, Starting, Resuming, Executing, RunOrNone, Run, slot,
     handler, execs, engine, durable, recovery, budget
  <1>1. CASE ProgressEventFails(q)
      BY <1>1 DEF ProgressEventFails, HandlePersistenceFailure, CancelRun
  <1>2. CASE FinalizeFails(q)
      BY <1>2 DEF FinalizeFails, At, FinishRun, Fault
  <1> QED
      BY <1>1, <1>2 DEF FaultStep

\* Stale-run recovery keeps the slot invariant.
LEMMA RecoveryKeepsSlotInv ==
    ASSUME TypeOK, SlotInv, RecoveryStep
    PROVE  SlotInv'
  <1> USE RunLifecycleAssumption DEF TypeOK, SlotType, HandlerType,
     EngineType, DurableType, SlotInv, SlotAgreesWithOwner, SingleExecution,
     PhaseOrder, FreshNames, Unborn, RecordedBeforeUse, OnRecord, RunStatus,
     Terminal, Owns, Starting, Resuming, Executing, RunOrNone, Run, slot,
     handler, execs, engine, durable, recovery, budget
  <1>1. CASE RecoverList
      BY <1>1 DEF RecoverList, Fault, NoFault
  <1>2. CASE RecoverMark
      BY <1>2 DEF RecoverMark, Fault
  <1> QED
      BY <1>1, <1>2 DEF RecoveryStep

\* A restart keeps the slot invariant.
LEMMA RestartKeepsSlotInv ==
    ASSUME TypeOK, SlotInv, Restart
    PROVE  SlotInv'
  <1> USE RunLifecycleAssumption DEF TypeOK, SlotType, HandlerType,
     EngineType, DurableType, SlotInv, SlotAgreesWithOwner, SingleExecution,
     PhaseOrder, FreshNames, Unborn, RecordedBeforeUse, OnRecord, RunStatus,
     Terminal, Owns, Starting, Resuming, Executing, RunOrNone, Run, slot,
     handler, execs, engine, durable, recovery, budget
  <1>1. CASE Restart
      BY <1>1 DEF Restart, EmptySnap, NoCall
  <1> QED
      BY <1>1 DEF Restart

\* The inductive invariant.
Inv == TypeOK /\ SlotInv

\* Every step keeps the types and the slot invariant.
LEMMA InvStep == Inv /\ [Next]_vars => Inv'
  <1> SUFFICES ASSUME Inv, [Next]_vars
               PROVE  Inv'
      OBVIOUS
  <1>t. TypeOK /\ PhaseOrder /\ SlotInv  BY DEF Inv, SlotInv
  <1>1. CASE ClientStep
      BY <1>t, <1>1, ClientTyped, ClientKeepsSlotInv DEF Inv
  <1>2. CASE \E q \in Request : HandlerStep(q)
      BY <1>t, <1>2, HandlerTyped, HandlerKeepsSlotInv DEF Inv
  <1>3. CASE \E q \in Request : EngineStep(q)
      BY <1>t, <1>3, EngineTyped, EngineKeepsSlotInv DEF Inv
  <1>4. CASE \E q \in Request : FaultStep(q)
      BY <1>t, <1>4, FaultTyped, FaultKeepsSlotInv DEF Inv
  <1>5. CASE RecoveryStep
      BY <1>t, <1>5, RecoveryTyped, RecoveryKeepsSlotInv DEF Inv
  <1>6. CASE Restart
      BY <1>t, <1>6, RestartTyped, RestartKeepsSlotInv DEF Inv
  <1>7. CASE UNCHANGED vars
      BY <1>t, <1>7
        DEF Inv, vars, BudgetType, TypeOK, SlotType, HandlerType, EngineType,
           DurableType, SlotInv, SlotAgreesWithOwner, SingleExecution,
           PhaseOrder, FreshNames, Unborn, RecordedBeforeUse, OnRecord,
           RunStatus, Terminal, Owns, Starting, Resuming, Executing,
           RunOrNone, Run, slot, handler, execs, engine, durable, recovery,
           budget, PcLabels, EngLabels
  <1> QED
      BY <1>1, <1>2, <1>3, <1>4, <1>5, <1>6, <1>7 DEF Next

\* The initial states satisfy the invariant.
LEMMA InvInit == Init => Inv
  <1> SUFFICES ASSUME Init
               PROVE  Inv
      OBVIOUS
  <1> USE RunLifecycleAssumption DEF Init
  <1> USE DEF RunOrNone, Run, RunStatus, Terminal, EmptySnap, NoCall
  <1>1. TypeOK
    <2>1. SlotType  BY DEF SlotType
    <2>2. HandlerType  BY DEF HandlerType, PcLabels
    <2>3. EngineType  BY DEF EngineType, EngLabels
    <2>4. DurableType /\ BudgetType  BY DEF DurableType, BudgetType
    <2> QED  BY <2>1, <2>2, <2>3, <2>4 DEF TypeOK
  <1>2. SlotInv
      BY DEF SlotInv, SlotAgreesWithOwner, SingleExecution, PhaseOrder,
         FreshNames, Unborn, RecordedBeforeUse, OnRecord, Owns, Starting,
         Resuming, Executing, Run
  <1> QED  BY <1>1, <1>2 DEF Inv

\* The invariant holds in every reachable state.
THEOREM InvHolds == Spec => []Inv
  BY InvInit, InvStep, PTL DEF Spec

-----------------------------------------------------------------------------
(* What follows from it.                                                    *)

\* Only the schema's statuses are ever written, and every variable stays in
\* its type, whatever interleaves and whatever fails.
THEOREM TypeCorrect == Spec => []TypeOK
  <1>1. Inv => TypeOK  BY DEF Inv
  <1> QED  BY <1>1, InvHolds, PTL

\* At most one request prepares, answers or executes a run of the session.
THEOREM MutualExclusion == Spec => []SingleExecution
  <1>1. Inv => SingleExecution  BY DEF Inv, SlotInv
  <1> QED  BY <1>1, InvHolds, PTL

\* An execution never runs ahead of its run row and its logged user message.
THEOREM DurableFirst == Spec => []DurableBeforeExecution
  <1>1. Inv => DurableBeforeExecution
      BY DEF Inv, SlotInv, RecordedBeforeUse, OnRecord, DurableBeforeExecution
  <1> QED  BY <1>1, InvHolds, PTL

\* The arrival of requests releases only what it owns.
LEMMA ClientOwner ==
    ASSUME TypeOK, SlotInv, ClientStep
    PROVE  OwnerStep
  <1> USE RunLifecycleAssumption DEF TypeOK, SlotType, HandlerType,
     EngineType, DurableType, BudgetType, SlotInv, SlotAgreesWithOwner,
     SingleExecution, PhaseOrder, Owns, Starting, Resuming, Executing,
     RunOrNone, Run, slot, handler, execs, engine, durable, recovery, budget,
     OwnerStep, LetGo
  <1>1. CASE \E p \in Request : ChatPeek(p)
      BY <1>1 DEF ChatPeek, Goto
  <1>2. CASE \E p \in Request, r \in Run : SubmitLookup(p, r)
      BY <1>2 DEF SubmitLookup, Goto
  <1>3. CASE \E r \in Run : CancelRunHandler(r)
      BY <1>3 DEF CancelRunHandler, GetOrCreate, CancelRun
  <1>4. CASE OtherHandlerGetOrCreate
      BY <1>4 DEF OtherHandlerGetOrCreate, GetOrCreate
  <1>5. CASE \E p \in Request : CaptureGetOrCreate(p)
      BY <1>5 DEF CaptureGetOrCreate, Goto, GetOrCreate
  <1>6. CASE RecoverCheckLive
      BY <1>6 DEF RecoverCheckLive
  <1> QED
      BY <1>1, <1>2, <1>3, <1>4, <1>5, <1>6 DEF ClientStep

\* A handler step releases only what it owns.
LEMMA HandlerOwner ==
    ASSUME TypeOK, SlotInv, NEW q \in Request, HandlerStep(q)
    PROVE  OwnerStep
  <1> USE RunLifecycleAssumption DEF TypeOK, SlotType, HandlerType,
     EngineType, DurableType, BudgetType, SlotInv, SlotAgreesWithOwner,
     SingleExecution, PhaseOrder, Owns, Starting, Resuming, Executing,
     RunOrNone, Run, slot, handler, execs, engine, durable, recovery, budget,
     OwnerStep, LetGo
  <1>1. CASE ChatGetOrCreate(q)
      BY <1>1 DEF ChatGetOrCreate, Goto, Return, GetOrCreate,
         GetOrCreateFails, Fault
  <1>2. CASE SubmitGetOrCreate(q)
      BY <1>2 DEF SubmitGetOrCreate, Goto, Return, GetOrCreate,
         GetOrCreateFails, Fault
  <1>3. CASE SubmitPeek(q)
      BY <1>3 DEF SubmitPeek, Goto
  <1>4. CASE HydrateRead(q)
      BY <1>4 DEF HydrateRead, Goto, Return, Fault
  <1>5. CASE HydrateSet(q)
      BY <1>5 DEF HydrateSet, Goto, RestoreWaitingRun, EmptySnap, NoCall
  <1>6. CASE ChatConsume(q)
      BY <1>6 DEF ChatConsume, Goto, Return, ConsumeWaitingRun
  <1>7. CASE ChatStart(q)
      BY <1>7 DEF ChatStart, Goto, Return, StartRun
  <1>8. CASE ChatHooks(q)
      BY <1>8 DEF ChatHooks, Goto, Return, FinishRun
  <1>9. CASE ChatCreateRun(q)
      BY <1>9 DEF ChatCreateRun, Goto, Return, CancelRun, Fault, NoFault
  <1>10. CASE ChatSaveUser(q)
      BY <1>10 DEF ChatSaveUser, Goto, CancelRun, Fault, NoFault
  <1>11. CASE ChatUpdateLastRun(q)
      BY <1>11 DEF ChatUpdateLastRun, Goto, Spawn, CancelRun, Fault, NoFault
  <1>12. CASE ChatFailStatus(q)
      BY <1>12 DEF ChatFailStatus, Goto, Return, UpdateStatus, Fault, NoFault
  <1>13. CASE SubmitConsume(q)
      BY <1>13 DEF SubmitConsume, Goto, Return, ConsumeWaitingRun
  <1>14. CASE ResumeHooks(q)
      BY <1>14 DEF ResumeHooks, Goto, Return, ReturnRunToWaiting
  <1>15. CASE ResumeSave(q)
      BY <1>15 DEF ResumeSave, Goto, Return, ReturnRunToWaiting, Fault,
         NoFault
  <1>16. CASE ResumeStatus(q)
      BY <1>16 DEF ResumeStatus, Goto, Return, ReturnRunToWaiting, Fault,
         NoFault
  <1>17. CASE ResumeProvide(q)
      BY <1>17 DEF ResumeProvide, Goto, Spawn, ReturnRunToWaiting, AskOpen
  <1>18. CASE ResumeRollback(q)
      BY <1>18 DEF ResumeRollback, Goto, Return, UpdateStatus, Fault, NoFault
  <1> QED
      BY <1>1, <1>2, <1>3, <1>4, <1>5, <1>6, <1>7, <1>8, <1>9, <1>10, <1>11,
         <1>12, <1>13, <1>14, <1>15, <1>16, <1>17, <1>18 DEF HandlerStep

\* A step of an execution releases only what it owns.
LEMMA EngineOwner ==
    ASSUME TypeOK, SlotInv, NEW q \in Request, EngineStep(q)
    PROVE  OwnerStep
  <1> USE RunLifecycleAssumption DEF TypeOK, SlotType, HandlerType,
     EngineType, DurableType, BudgetType, SlotInv, SlotAgreesWithOwner,
     SingleExecution, PhaseOrder, Owns, Starting, Resuming, Executing,
     RunOrNone, Run, slot, handler, execs, engine, durable, recovery, budget,
     OwnerStep, LetGo
  <1>1. CASE Dispatch(q)
      BY <1>1 DEF Dispatch, At, UpdateCancelFunc, FinishRun
  <1>2. CASE FailRunStart(q)
      BY <1>2 DEF FailRunStart, At, Exit, UpdateStatus, Fault, NoFault
  <1>3. CASE EngineEnter(q)
      BY <1>3 DEF EngineEnter, At, Repaired
  <1>4. CASE EngineLoop(q)
      BY <1>4 DEF EngineLoop, At, Conclude
  <1>5. CASE EngineResponse(q)
      BY <1>5 DEF EngineResponse, At, Conclude
  <1>6. CASE EngineTool(q)
      BY <1>6 DEF EngineTool, At, Conclude, Answered
  <1>7. CASE EngineAsk(q)
      BY <1>7 DEF EngineAsk, At, Conclude, Answered
  <1>8. CASE AbortStatus(q)
      BY <1>8 DEF AbortStatus, At, UpdateStatus, Fault, NoFault
  <1>9. CASE EmitPersisted(q)
      BY <1>9 DEF EmitPersisted, At, SuspendRun, FinishRun
  <1>10. CASE EmitFails(q)
      BY <1>10 DEF EmitFails, At, HandlePersistenceFailure, CancelRun
  <1>11. CASE SetRunStatus(q)
      BY <1>11 DEF SetRunStatus, At, UpdateStatus, Fault, NoFault
  <1>12. CASE EmitUsage(q)
      BY <1>12 DEF EmitUsage, At, HandlePersistenceFailure, CancelRun
  <1>13. CASE EngineExit(q)
      BY <1>13 DEF EngineExit, At, Exit, Repaired
  <1> QED
      BY <1>1, <1>2, <1>3, <1>4, <1>5, <1>6, <1>7, <1>8, <1>9, <1>10, <1>11,
         <1>12, <1>13 DEF EngineStep

\* A lost event or failed finalization releases only what it owns.
LEMMA FaultOwner ==
    ASSUME TypeOK, SlotInv, NEW q \in Request, FaultStep(q)
    PROVE  OwnerStep
  <1> USE RunLifecycleAssumption DEF TypeOK, SlotType, HandlerType,
     EngineType, DurableType, BudgetType, SlotInv, SlotAgreesWithOwner,
     SingleExecution, PhaseOrder, Owns, Starting, Resuming, Executing,
     RunOrNone, Run, slot, handler, execs, engine, durable, recovery, budget,
     OwnerStep, LetGo
  <1>1. CASE ProgressEventFails(q)
      BY <1>1 DEF ProgressEventFails, HandlePersistenceFailure, CancelRun
  <1>2. CASE FinalizeFails(q)
      BY <1>2 DEF FinalizeFails, At, FinishRun, Fault
  <1> QED
      BY <1>1, <1>2 DEF FaultStep

\* Stale-run recovery releases only what it owns.
LEMMA RecoveryOwner ==
    ASSUME TypeOK, SlotInv, RecoveryStep
    PROVE  OwnerStep
  <1> USE RunLifecycleAssumption DEF TypeOK, SlotType, HandlerType,
     EngineType, DurableType, BudgetType, SlotInv, SlotAgreesWithOwner,
     SingleExecution, PhaseOrder, Owns, Starting, Resuming, Executing,
     RunOrNone, Run, slot, handler, execs, engine, durable, recovery, budget,
     OwnerStep, LetGo
  <1>1. CASE RecoverList
      BY <1>1 DEF RecoverList, Fault, NoFault
  <1>2. CASE RecoverMark
      BY <1>2 DEF RecoverMark, Fault
  <1> QED
      BY <1>1, <1>2 DEF RecoveryStep

\* A restart releases only what it owns.
LEMMA RestartOwner ==
    ASSUME TypeOK, SlotInv, Restart
    PROVE  OwnerStep
  <1> USE RunLifecycleAssumption DEF TypeOK, SlotType, HandlerType,
     EngineType, DurableType, BudgetType, SlotInv, SlotAgreesWithOwner,
     SingleExecution, PhaseOrder, Owns, Starting, Resuming, Executing,
     RunOrNone, Run, slot, handler, execs, engine, durable, recovery, budget,
     OwnerStep, LetGo
  <1>1. CASE Restart
      BY <1>1 DEF Restart, EmptySnap, NoCall
  <1> QED
      BY <1>1 DEF Restart

\* A run leaves the slot only by its owner's step, or with the process.
THEOREM OwnerReleases == Spec => OnlyOwnerReleases
  <1>1. Inv /\ [Next]_vars => [OwnerStep]_vars
    <2> SUFFICES ASSUME TypeOK, SlotInv, Next
                 PROVE  OwnerStep
        BY DEF Inv
    <2> QED
        BY ClientOwner, HandlerOwner, EngineOwner, FaultOwner, RecoveryOwner,
           RestartOwner DEF Next
  <1> QED  BY <1>1, InvHolds, PTL DEF Spec, OnlyOwnerReleases

\* The arrival of requests is a move of the abstract slot, or none.
LEMMA ClientImplements ==
    ASSUME TypeOK, SlotInv, ClientStep
    PROVE  [Slot!Next]_(Slot!vars)
  <1> USE RunLifecycleAssumption DEF Slot!Next, Slot!vars, Slot!Acquire,
     Slot!Answer, Slot!Park, Slot!Release, Slot!Abandon, Slot!Crash, TypeOK,
     SlotType, HandlerType, EngineType, DurableType, BudgetType, SlotInv,
     SlotAgreesWithOwner, SingleExecution, PhaseOrder, Owns, Starting,
     Resuming, Executing, RunOrNone, Run, slot, handler, execs, engine,
     durable, recovery, budget
  <1>1. CASE \E p \in Request : ChatPeek(p)
      BY <1>1 DEF ChatPeek, Goto
  <1>2. CASE \E p \in Request, r \in Run : SubmitLookup(p, r)
      BY <1>2 DEF SubmitLookup, Goto
  <1>3. CASE \E r \in Run : CancelRunHandler(r)
      BY <1>3 DEF CancelRunHandler, GetOrCreate, CancelRun
  <1>4. CASE OtherHandlerGetOrCreate
      BY <1>4 DEF OtherHandlerGetOrCreate, GetOrCreate
  <1>5. CASE \E p \in Request : CaptureGetOrCreate(p)
      BY <1>5 DEF CaptureGetOrCreate, Goto, GetOrCreate
  <1>6. CASE RecoverCheckLive
      BY <1>6 DEF RecoverCheckLive
  <1> QED
      BY <1>1, <1>2, <1>3, <1>4, <1>5, <1>6 DEF ClientStep

\* A handler step is a move of the abstract slot, or none.
LEMMA HandlerImplements ==
    ASSUME TypeOK, SlotInv, NEW q \in Request, HandlerStep(q)
    PROVE  [Slot!Next]_(Slot!vars)
  <1> USE RunLifecycleAssumption DEF Slot!Next, Slot!vars, Slot!Acquire,
     Slot!Answer, Slot!Park, Slot!Release, Slot!Abandon, Slot!Crash, TypeOK,
     SlotType, HandlerType, EngineType, DurableType, BudgetType, SlotInv,
     SlotAgreesWithOwner, SingleExecution, PhaseOrder, Owns, Starting,
     Resuming, Executing, RunOrNone, Run, slot, handler, execs, engine,
     durable, recovery, budget
  <1>1. CASE ChatGetOrCreate(q)
      BY <1>1 DEF ChatGetOrCreate, Goto, Return, GetOrCreate,
         GetOrCreateFails, Fault
  <1>2. CASE SubmitGetOrCreate(q)
      BY <1>2 DEF SubmitGetOrCreate, Goto, Return, GetOrCreate,
         GetOrCreateFails, Fault
  <1>3. CASE SubmitPeek(q)
      BY <1>3 DEF SubmitPeek, Goto
  <1>4. CASE HydrateRead(q)
      BY <1>4 DEF HydrateRead, Goto, Return, Fault
  <1>5. CASE HydrateSet(q)
      BY <1>5 DEF HydrateSet, Goto, RestoreWaitingRun, EmptySnap, NoCall
  <1>6. CASE ChatConsume(q)
      BY <1>6 DEF ChatConsume, Goto, Return, ConsumeWaitingRun
  <1>7. CASE ChatStart(q)
      BY <1>7 DEF ChatStart, Goto, Return, StartRun
  <1>8. CASE ChatHooks(q)
      BY <1>8 DEF ChatHooks, Goto, Return, FinishRun
  <1>9. CASE ChatCreateRun(q)
      BY <1>9 DEF ChatCreateRun, Goto, Return, CancelRun, Fault, NoFault
  <1>10. CASE ChatSaveUser(q)
      BY <1>10 DEF ChatSaveUser, Goto, CancelRun, Fault, NoFault
  <1>11. CASE ChatUpdateLastRun(q)
      <2>1. CASE Spawn(q) /\ UNCHANGED slot
        <3>1. \A p \in Request : Owns(p)' <=> Owns(p)
            BY <1>11, <2>1 DEF ChatUpdateLastRun, Spawn, Goto
        <3> QED  BY <1>11, <2>1, <3>1 DEF ChatUpdateLastRun
      <2>2. CASE CancelRun(q) /\ Goto(q, "fail_status") /\ UNCHANGED eng
          BY <1>11, <2>2 DEF ChatUpdateLastRun, CancelRun, Goto
      <2> QED  BY <1>11, <2>1, <2>2 DEF ChatUpdateLastRun
  <1>12. CASE ChatFailStatus(q)
      BY <1>12 DEF ChatFailStatus, Goto, Return, UpdateStatus, Fault, NoFault
  <1>13. CASE SubmitConsume(q)
      BY <1>13 DEF SubmitConsume, Goto, Return, ConsumeWaitingRun
  <1>14. CASE ResumeHooks(q)
      <2>1. CASE Goto(q, "resume_save") /\ UNCHANGED <<slot, target>>
        <3>1. \A p \in Request : Owns(p)' <=> Owns(p)
            BY <1>14, <2>1 DEF ResumeHooks, Goto
        <3> QED  BY <1>14, <2>1, <3>1 DEF ResumeHooks
      <2>2. CASE Return(q) /\ ReturnRunToWaiting(target[q])
          BY <1>14, <2>2 DEF ResumeHooks, Goto, Return, ReturnRunToWaiting
      <2> QED  BY <1>14, <2>1, <2>2 DEF ResumeHooks
  <1>15. CASE ResumeSave(q)
      BY <1>15 DEF ResumeSave, Goto, Return, ReturnRunToWaiting, Fault,
         NoFault
  <1>16. CASE ResumeStatus(q)
      BY <1>16 DEF ResumeStatus, Goto, Return, ReturnRunToWaiting, Fault,
         NoFault
  <1>17. CASE ResumeProvide(q)
      <2>1. CASE Spawn(q) /\ UNCHANGED slot
        <3>1. \A p \in Request : Owns(p)' <=> Owns(p)
            BY <1>17, <2>1 DEF ResumeProvide, Goto, Spawn
        <3> QED  BY <1>17, <2>1, <3>1 DEF ResumeProvide
      <2>2. CASE ReturnRunToWaiting(target[q]) /\ Goto(q, "resume_rollback")
                     /\ UNCHANGED <<eng, target>>
          BY <1>17, <2>2 DEF ResumeProvide, Goto, ReturnRunToWaiting
      <2> QED  BY <1>17, <2>1, <2>2 DEF ResumeProvide
  <1>18. CASE ResumeRollback(q)
      BY <1>18 DEF ResumeRollback, Goto, Return, UpdateStatus, Fault, NoFault
  <1> QED
      BY <1>1, <1>2, <1>3, <1>4, <1>5, <1>6, <1>7, <1>8, <1>9, <1>10, <1>11,
         <1>12, <1>13, <1>14, <1>15, <1>16, <1>17, <1>18 DEF HandlerStep

\* A step of an execution is a move of the abstract slot, or none.
LEMMA EngineImplements ==
    ASSUME TypeOK, SlotInv, NEW q \in Request, EngineStep(q)
    PROVE  [Slot!Next]_(Slot!vars)
  <1> USE RunLifecycleAssumption DEF Slot!Next, Slot!vars, Slot!Acquire,
     Slot!Answer, Slot!Park, Slot!Release, Slot!Abandon, Slot!Crash, TypeOK,
     SlotType, HandlerType, EngineType, DurableType, BudgetType, SlotInv,
     SlotAgreesWithOwner, SingleExecution, PhaseOrder, Owns, Starting,
     Resuming, Executing, RunOrNone, Run, slot, handler, execs, engine,
     durable, recovery, budget
  <1>1. CASE Dispatch(q)
      BY <1>1 DEF Dispatch, At, UpdateCancelFunc, FinishRun
  <1>2. CASE FailRunStart(q)
      BY <1>2 DEF FailRunStart, At, Exit, UpdateStatus, Fault, NoFault
  <1>3. CASE EngineEnter(q)
      BY <1>3 DEF EngineEnter, At, Repaired
  <1>4. CASE EngineLoop(q)
      BY <1>4 DEF EngineLoop, At, Conclude
  <1>5. CASE EngineResponse(q)
      BY <1>5 DEF EngineResponse, At, Conclude
  <1>6. CASE EngineTool(q)
      BY <1>6 DEF EngineTool, At, Conclude, Answered
  <1>7. CASE EngineAsk(q)
      BY <1>7 DEF EngineAsk, At, Conclude, Answered
  <1>8. CASE AbortStatus(q)
      BY <1>8 DEF AbortStatus, At, UpdateStatus, Fault, NoFault
  <1>9. CASE EmitPersisted(q)
      BY <1>9 DEF EmitPersisted, At, SuspendRun, FinishRun
  <1>10. CASE EmitFails(q)
      BY <1>10 DEF EmitFails, At, HandlePersistenceFailure, CancelRun
  <1>11. CASE SetRunStatus(q)
      BY <1>11 DEF SetRunStatus, At, UpdateStatus, Fault, NoFault
  <1>12. CASE EmitUsage(q)
      BY <1>12 DEF EmitUsage, At, HandlePersistenceFailure, CancelRun
  <1>13. CASE EngineExit(q)
      BY <1>13 DEF EngineExit, At, Exit, Repaired
  <1> QED
      BY <1>1, <1>2, <1>3, <1>4, <1>5, <1>6, <1>7, <1>8, <1>9, <1>10, <1>11,
         <1>12, <1>13 DEF EngineStep

\* A lost event or failed finalization is a move of the abstract slot, or
\* none.
LEMMA FaultImplements ==
    ASSUME TypeOK, SlotInv, NEW q \in Request, FaultStep(q)
    PROVE  [Slot!Next]_(Slot!vars)
  <1> USE RunLifecycleAssumption DEF Slot!Next, Slot!vars, Slot!Acquire,
     Slot!Answer, Slot!Park, Slot!Release, Slot!Abandon, Slot!Crash, TypeOK,
     SlotType, HandlerType, EngineType, DurableType, BudgetType, SlotInv,
     SlotAgreesWithOwner, SingleExecution, PhaseOrder, Owns, Starting,
     Resuming, Executing, RunOrNone, Run, slot, handler, execs, engine,
     durable, recovery, budget
  <1>1. CASE ProgressEventFails(q)
      BY <1>1 DEF ProgressEventFails, HandlePersistenceFailure, CancelRun
  <1>2. CASE FinalizeFails(q)
      BY <1>2 DEF FinalizeFails, At, FinishRun, Fault
  <1> QED
      BY <1>1, <1>2 DEF FaultStep

\* Stale-run recovery is a move of the abstract slot, or none.
LEMMA RecoveryImplements ==
    ASSUME TypeOK, SlotInv, RecoveryStep
    PROVE  [Slot!Next]_(Slot!vars)
  <1> USE RunLifecycleAssumption DEF Slot!Next, Slot!vars, Slot!Acquire,
     Slot!Answer, Slot!Park, Slot!Release, Slot!Abandon, Slot!Crash, TypeOK,
     SlotType, HandlerType, EngineType, DurableType, BudgetType, SlotInv,
     SlotAgreesWithOwner, SingleExecution, PhaseOrder, Owns, Starting,
     Resuming, Executing, RunOrNone, Run, slot, handler, execs, engine,
     durable, recovery, budget
  <1>1. CASE RecoverList
      BY <1>1 DEF RecoverList, Fault, NoFault
  <1>2. CASE RecoverMark
      BY <1>2 DEF RecoverMark, Fault
  <1> QED
      BY <1>1, <1>2 DEF RecoveryStep

\* A restart is a move of the abstract slot, or none.
LEMMA RestartImplements ==
    ASSUME TypeOK, SlotInv, Restart
    PROVE  [Slot!Next]_(Slot!vars)
  <1> USE RunLifecycleAssumption DEF Slot!Next, Slot!vars, Slot!Acquire,
     Slot!Answer, Slot!Park, Slot!Release, Slot!Abandon, Slot!Crash, TypeOK,
     SlotType, HandlerType, EngineType, DurableType, BudgetType, SlotInv,
     SlotAgreesWithOwner, SingleExecution, PhaseOrder, Owns, Starting,
     Resuming, Executing, RunOrNone, Run, slot, handler, execs, engine,
     durable, recovery, budget
  <1>1. CASE Restart
      BY <1>1 DEF Restart, EmptySnap, NoCall
  <1> QED
      BY <1>1 DEF Restart

\* The session's handlers, executions and hooks implement the abstract slot.
THEOREM SlotRefinement == Spec => ImplementsRunSlot
  <1>1. Init => Slot!Init
      BY DEF Init, Slot!Init, Owns, Starting, Resuming, Executing
  <1>2. Inv /\ [Next]_vars => [Slot!Next]_(Slot!vars)
    <2> SUFFICES ASSUME TypeOK, SlotInv, [Next]_vars
                 PROVE  [Slot!Next]_(Slot!vars)
        BY DEF Inv
    <2>1. CASE Next
        BY <2>1, ClientImplements, HandlerImplements, EngineImplements,
           FaultImplements, RecoveryImplements, RestartImplements DEF Next
    <2>2. CASE UNCHANGED vars
        BY <2>2 DEF vars, Slot!vars, slot, handler, execs, budget, Owns
    <2> QED  BY <2>1, <2>2
  <1> QED  BY <1>1, <1>2, InvHolds, PTL DEF Spec, Slot!Spec, ImplementsRunSlot
=============================================================================
