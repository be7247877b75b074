-------------------------- MODULE EngineTurnProofs --------------------------
(***************************************************************************)
(* Proofs about EngineTurn, for any sets of tools and authorizations and   *)
(* any bounds.                                                             *)
(*                                                                         *)
(* That an exclusive call is alone and that an action is neither replayed  *)
(* nor abandoned rest on BatchOrder: where in the batch an execution can   *)
(* be under way.  That a request is paired rests on BatchAnswered, which   *)
(* calls of the turn have their result at which point of the loop, and     *)
(* that an approval is worth one commit on ReceiptsSpent.                  *)
(***************************************************************************)
EXTENDS EngineTurn, SequenceTheorems, TLAPS

\* Where the loop is, what it has counted and what it has said.
LoopShape ==
    /\ phase \in {"llm", "batch"} => iter <= MaxIterations
    /\ phase # "idle" => ended.count = 0
    /\ index <= Len(plan) + 1
    /\ plan # <<>> => Len(open) = Len(plan)
    /\ phase = "batch" => plan # <<>> /\ index # 0

\* Which calls of the turn have their result.
BatchAnswered ==
    /\ phase \in {"loop", "llm"} => \A p \in DOMAIN open : open[p] = 1
    /\ phase \in {"batch", "final"} =>
          \A p \in DOMAIN open : p < index => open[p] = 1

\* A question stands alone, and only what was admitted is executed.
Admitted ==
    /\ (\E p \in DOMAIN plan : plan[p].call.tool \in Asking) => Len(plan) = 1
    /\ \A p \in DOMAIN plan :
          /\ plan[p].safe => plan[p].kind = "allow" /\ plan[p].call.tool \in Safe
          /\ exec[p].st # "none" =>
                plan[p].kind = "allow" /\ plan[p].call.tool \notin Asking

\* Outside a batch nothing has begun.  Behind the loop nothing is under way,
\* ahead of it only the rest of the parallel run it is in, and only a parallel
\* run outlives the delivery that ended the batch.
BatchOrder ==
    /\ phase \in {"idle", "loop", "llm"} => \A p \in DOMAIN plan : exec[p].st = "none"
    /\ \A p \in DOMAIN plan :
          /\ p < index => exec[p].st \notin Busy
          /\ p > index /\ exec[p].st # "none" => \A q \in index .. p : plan[q].safe
          /\ phase = "final" /\ p >= index /\ exec[p].st # "none" => plan[p].safe

\* Only an idempotent call is begun a second time.
RetriesIdempotent ==
    \A p \in DOMAIN plan :
        /\ exec[p].st = "backoff" => exec[p].tries < MaxAttempts
        /\ exec[p].st = "backoff" \/ exec[p].tries > 1 =>
              plan[p].call.tool \in Idempotent

\* A receipt that paid for a commit is used up.
ReceiptsSpent ==
    \A i \in DOMAIN spent :
        /\ spent[i].receipt \in DOMAIN receipts
        /\ receipts[spent[i].receipt].st = "used"

BatchInv == LoopShape /\ BatchAnswered /\ Admitted /\ BatchOrder /\ RetriesIdempotent

TurnInv ==
    /\ TypeOK
    /\ BatchInv
    /\ ReceiptsSpent /\ ApprovalWorthOneCommit
    /\ SettledOnce

-----------------------------------------------------------------------------
(* The steps by what they change: the branches of the actions that leave   *)
(* Run, that answer the current call or that move one execution are taken  *)
(* together, so that each invariant is argued once for all of them.        *)

\* Run returns, not suspended: a batch is left only at a call that is done.
Leave ==
    /\ phase # "idle"
    /\ phase = "batch" => Reached /\ exec[index].st = "done"
    /\ \E event \in Terminal : End(event, 0)
    /\ streak' \in [Tools -> Nat]
    /\ UNCHANGED <<draft, changed, told, receipts, spent, runs>>

\* Run returns at a question.
Suspended ==
    /\ Reached /\ Here.call.tool \in Asking
    /\ End("suspended", index)
    /\ UNCHANGED <<draft, changed, told, receipts, streak, spent, runs>>

\* The loop itself goes on, outside a batch.
Send ==
    /\ phase = "loop" /\ iter \leq MaxIterations
    /\ phase' = "llm" /\ attempt' = 0
    /\ UNCHANGED <<cancelled, iter, rejects, batchVars, factVars, runs, ended>>

AskAgain ==
    /\ phase \in {"llm", "final"}
    /\ attempt' \in 0 .. MaxAttempts /\ rejects' \in 0 .. MaxMarkupRejects
    /\ UNCHANGED <<phase, cancelled, iter, batchVars, factVars, runs, ended>>

GoOn ==
    /\ phase = "llm"
    /\ phase' = "loop" /\ iter' = iter + 1 /\ attempt' = 0
    /\ told' \in BOOLEAN /\ rejects' \in 0 .. MaxMarkupRejects
    /\ UNCHANGED <<cancelled, batchVars, draft, changed, receipts,
                   streak, spent, runs, ended>>

\* A valid batch is planned.
PlanBatch(calls, checks) ==
    /\ phase = "llm" /\ ValidBatch(calls)
    /\ phase' = "batch" /\ index' = 1 /\ attempt' = 0
    /\ plan' = [p \in DOMAIN calls |-> Planned(calls[p], checks[p])]
    /\ exec' = [p \in DOMAIN calls |-> Idle]
    /\ open' = [p \in DOMAIN calls |-> 0]
    /\ UNCHANGED <<cancelled, iter, rejects, pending, factVars, runs, ended>>

\* The current call gets its result and the loop passes it.
AnswerHere ==
    /\ Reached /\ exec[index].st \notin Busy
    /\ open' = [open EXCEPT ![index] = 1]
    /\ index' = index + 1
    /\ phase' \in {"batch", "final"}
    /\ attempt' \in 0 .. MaxAttempts /\ rejects' \in 0 .. MaxMarkupRejects
    /\ streak' \in [Tools -> Nat]
    /\ UNCHANGED <<cancelled, iter, plan, exec, pending, draft, changed, told,
                   receipts, spent, runs, ended>>

\* The parallel run that begins at the current call is queued.
QueueRun ==
    /\ Reached /\ Here.safe /\ Here.call.tool \notin Asking
    /\ exec' = [p \in DOMAIN exec |->
                  IF p \in ParallelRun /\ exec[p].st = "none"
                    THEN [exec[p] EXCEPT !.st = "queued"] ELSE exec[p]]
    /\ UNCHANGED <<loopVars, plan, index, open, pending, factVars, runs, ended>>

\* What a receipt is spent on.
Spends(call) ==
    /\ VerifyApproval(call)
    /\ receipts' = [receipts EXCEPT ![call.receipt].st = "used"]
    /\ spent' = Append(spent, [receipt |-> call.receipt, auth |-> call.auth,
                               live |-> receipts[call.receipt].st = "live"])

\* One execution begins or gets further, to e.
Move(p, e) ==
    /\ phase = "batch"
    /\ \/ exec[p].st \in Busy
       \/ p = index /\ plan[p].kind = "allow" /\ plan[p].call.tool \notin Asking
    /\ exec' = [exec EXCEPT ![p] = e] /\ e.st # "none"
    /\ e.st = "backoff" => e.tries < MaxAttempts
    /\ e.st = "backoff" \/ e.tries > 1 => plan[p].call.tool \in Idempotent
    /\ exec[p].st = "running" /\ plan[p].call.tool \notin Observing =>
          e.out \in Results \/ e.st = "backoff"
    /\ draft' \in BOOLEAN /\ changed' \in BOOLEAN /\ told' \in BOOLEAN
    /\ UNCHANGED <<receipts, spent>> \/ Spends(plan[p].call)
    /\ UNCHANGED <<loopVars, plan, index, open, pending, streak, runs, ended>>

-----------------------------------------------------------------------------
(* The operators of the model.                                             *)

\* The types of what a batch is made of.
LEMMA BatchDomains ==
    ASSUME TypeOK, LoopShape
    PROVE  /\ DOMAIN plan = 1 .. Len(plan) /\ Len(plan) \in 0 .. MaxBatch
           /\ DOMAIN open = 1 .. Len(open) /\ Len(open) \in 0 .. MaxBatch
           /\ DOMAIN exec = 1 .. Len(plan)
           /\ \A p \in DOMAIN plan : plan[p] \in PlannedCall /\ exec[p] \in Execution
           /\ \A p \in DOMAIN open : open[p] \in 0 .. 1
           /\ index \in Nat /\ index <= Len(plan) + 1
  <1>1. /\ plan \in Seq(PlannedCall) /\ Len(plan) \leq MaxBatch
        /\ open \in Seq(0 .. 1) /\ Len(open) \leq MaxBatch
        /\ index \in 0 .. (MaxBatch + 1)
      BY DEF TypeOK, BatchType
  <1>2. /\ DOMAIN plan = 1 .. Len(plan) /\ Len(plan) \in Nat
        /\ \A p \in 1 .. Len(plan) : plan[p] \in PlannedCall
      BY <1>1, LenProperties, ElementOfSeq
  <1>3. /\ DOMAIN open = 1 .. Len(open) /\ Len(open) \in Nat
        /\ \A p \in 1 .. Len(open) : open[p] \in 0 .. 1
      BY <1>1, LenProperties, ElementOfSeq
  <1>4. /\ DOMAIN exec = 1 .. Len(plan)
        /\ \A p \in 1 .. Len(plan) : exec[p] \in Execution
      BY DEF TypeOK, ExecType
  <1>5. Len(plan) \in 0 .. MaxBatch /\ Len(open) \in 0 .. MaxBatch
      BY <1>1, <1>2, <1>3, TurnAssumption
  <1>6. index \in Nat /\ index <= Len(plan) + 1
      BY <1>1, TurnAssumption DEF LoopShape
  <1>7. \A p \in DOMAIN plan : plan[p] \in PlannedCall /\ exec[p] \in Execution
      BY <1>2, <1>4
  <1>8. \A p \in DOMAIN open : open[p] \in 0 .. 1
      BY <1>3
  <1> QED  BY <1>2, <1>3, <1>4, <1>5, <1>6, <1>7, <1>8

\* repairToolPairing keeps the turn and answers every call but the skipped one.
LEMMA RepairedTurn ==
    ASSUME NEW o \in Seq(0 .. 1), NEW skip \in Nat,
           NEW r, r = [p \in DOMAIN o |-> IF p = skip THEN o[p] ELSE 1]
    PROVE  /\ r \in Seq(0 .. 1) /\ Len(r) = Len(o) /\ DOMAIN r = DOMAIN o
           /\ \A p \in DOMAIN o : p # skip => r[p] = 1
  <1>1. Len(o) \in Nat /\ DOMAIN o = 1 .. Len(o) /\ \A p \in 1 .. Len(o) : o[p] \in 0 .. 1
      BY LenProperties, ElementOfSeq
  <1>2. r \in [1 .. Len(o) -> 0 .. 1]
      BY <1>1
  <1>3. r \in Seq(0 .. 1)
      BY <1>1, <1>2, SeqDef
  <1> QED  BY <1>1, <1>2, <1>3

\* The same of the turn the session is in.
LEMMA TurnRepaired ==
    ASSUME BatchType, NEW skip \in Nat
    PROVE  /\ Repaired(skip) \in Seq(0 .. 1) /\ Len(Repaired(skip)) = Len(open)
           /\ DOMAIN Repaired(skip) = DOMAIN open
           /\ \A p \in DOMAIN open : p # skip => Repaired(skip)[p] = 1
  <1>1. open \in Seq(0 .. 1)
      BY DEF BatchType
  <1> QED  BY <1>1, RepairedTurn DEF Repaired

\* A result recorded for a call keeps the turn.
LEMMA OpenAnswered ==
    ASSUME BatchType, NEW i
    PROVE  /\ [open EXCEPT ![i] = 1] \in Seq(0 .. 1)
           /\ Len([open EXCEPT ![i] = 1]) = Len(open)
           /\ DOMAIN [open EXCEPT ![i] = 1] = DOMAIN open
  <1>1. open \in Seq(0 .. 1) /\ Len(open) \in Nat /\ open \in [1 .. Len(open) -> 0 .. 1]
      BY LenProperties DEF BatchType
  <1> DEFINE r == [open EXCEPT ![i] = 1]
  <1>2. ASSUME NEW q \in 1 .. Len(open) PROVE r[q] \in 0 .. 1
    <2>1. r[q] = 1 \/ r[q] = open[q]
        BY <1>1
    <2> QED  BY <1>1, <2>1
  <1>3. r \in [1 .. Len(open) -> 0 .. 1]
      BY <1>1, <1>2
  <1> QED  BY <1>1, <1>3, SeqDef, LenProperties

LEMMA IdleExecution == Idle \in Execution
  BY TurnAssumption DEF Idle, Execution

\* planToolCalls plans each call of the batch it is given.
PlanOf(calls, checks) == [p \in DOMAIN calls |-> Planned(calls[p], checks[p])]

LEMMA PlannedCalls ==
    ASSUME NEW calls \in Batches, NEW checks
    PROVE  LET r == PlanOf(calls, checks)
           IN  /\ r \in Seq(PlannedCall) /\ DOMAIN r = DOMAIN calls
               /\ calls \in Seq(Call) /\ Len(r) = Len(calls) /\ Len(r) \in 1 .. MaxBatch
               /\ \A p \in DOMAIN r :
                    /\ r[p].call = calls[p]
                    /\ r[p].safe => r[p].kind = "allow" /\ calls[p].tool \in Safe
  <1> DEFINE r == PlanOf(calls, checks)
  <1>1. PICK n \in 1 .. MaxBatch : calls \in [1 .. n -> Call]
      BY DEF Batches
  <1>2. n \in Nat /\ calls \in Seq(Call) /\ Len(calls) = n /\ DOMAIN calls = 1 .. n
      BY <1>1, TurnAssumption, SeqDef, LenProperties
  <1>3. ASSUME NEW c \in Call, NEW d
        PROVE  /\ Planned(c, d) \in PlannedCall
               /\ Planned(c, d).call = c
               /\ Planned(c, d).safe => Planned(c, d).kind = "allow" /\ c.tool \in Safe
      BY DEF Planned, PlannedCall, Codes, DecideToolCall
  <1>4. \A p \in 1 .. n : calls[p] \in Call /\ r[p] = Planned(calls[p], checks[p])
      BY <1>1, <1>2 DEF PlanOf
  <1>5. DOMAIN r = 1 .. n /\ r \in [1 .. n -> PlannedCall]
      BY <1>2, <1>3, <1>4 DEF PlanOf
  <1>6. r \in Seq(PlannedCall) /\ Len(r) = n
      BY <1>2, <1>5, SeqDef, LenProperties
  <1>7. \A p \in DOMAIN r :
                /\ r[p].call = calls[p]
                /\ r[p].safe => r[p].kind = "allow" /\ calls[p].tool \in Safe
      BY <1>3, <1>4, <1>5
  <1> QED  BY <1>1, <1>2, <1>5, <1>6, <1>7

\* What the model's turn becomes: no call of it has begun or has a result.
LEMMA PlanBatchEffect ==
    ASSUME NEW calls \in Batches, NEW checks, PlanBatch(calls, checks)
    PROVE  /\ plan' \in Seq(PlannedCall) /\ open' \in Seq(0 .. 1)
           /\ Len(plan') \in 1 .. MaxBatch /\ Len(open') = Len(plan')
           /\ DOMAIN plan' = 1 .. Len(plan') /\ DOMAIN open' = 1 .. Len(plan')
           /\ exec' = [p \in 1 .. Len(plan') |-> Idle]
           /\ \A p \in DOMAIN plan' :
                plan'[p].safe => plan'[p].kind = "allow" /\ plan'[p].call.tool \in Safe
           /\ (\E p \in DOMAIN plan' : plan'[p].call.tool \in Asking) => Len(plan') = 1
  <1>1. /\ plan' = PlanOf(calls, checks)
        /\ exec' = [p \in DOMAIN calls |-> Idle]
        /\ open' = [p \in DOMAIN calls |-> 0]
        /\ ValidBatch(calls)
      BY DEF PlanBatch, PlanOf
  <1>2. /\ plan' \in Seq(PlannedCall) /\ DOMAIN plan' = DOMAIN calls
        /\ calls \in Seq(Call) /\ Len(plan') = Len(calls) /\ Len(plan') \in 1 .. MaxBatch
        /\ \A p \in DOMAIN plan' :
                /\ plan'[p].call = calls[p]
                /\ plan'[p].safe => plan'[p].kind = "allow" /\ calls[p].tool \in Safe
      BY <1>1, PlannedCalls
  <1>3. DOMAIN calls = 1 .. Len(plan') /\ Len(plan') \in Nat
      BY <1>2, LenProperties
  <1>4. open' \in [1 .. Len(plan') -> 0 .. 1]
      BY <1>1, <1>3
  <1>5. open' \in Seq(0 .. 1) /\ Len(open') = Len(plan') /\ DOMAIN open' = 1 .. Len(plan')
      BY <1>3, <1>4, SeqDef, LenProperties
  <1>6. (\E p \in DOMAIN plan' : plan'[p].call.tool \in Asking) => Len(plan') = 1
      BY <1>1, <1>2 DEF ValidBatch
  <1> QED  BY <1>1, <1>2, <1>3, <1>5, <1>6

\* One execution that begins: a call's first attempt, or none at all once the
\* run is cancelled.
LEMMA BegunExecution ==
    ASSUME NEW t
    PROVE  /\ Begun(t) \in Execution /\ Begun(t).st # "none"
           /\ Begun(t).st # "backoff" /\ ~(Begun(t).tries > 1)
  BY TurnAssumption DEF Begun, Execution, Busy

\* recordToolOutcome keeps a count of failures per tool.
LEMMA RecordedStreak ==
    ASSUME NEW f \in [Tools -> Nat], NEW t, NEW out
    PROVE  Recorded(f, t, out) \in [Tools -> Nat]
  <1>1. CASE out = "ok"
      BY <1>1 DEF Recorded
  <1>2. CASE out = "failed"
    <2>1. Recorded(f, t, out) = [f EXCEPT ![t] = f[t] + 1]
        BY <1>2 DEF Recorded
    <2>2. CASE t \in Tools
        BY <2>1, <2>2
    <2>3. CASE t \notin Tools
        BY <2>1, <2>3
    <2> QED  BY <2>2, <2>3
  <1>3. CASE out # "ok" /\ out # "failed"
      BY <1>3 DEF Recorded
  <1> QED  BY <1>1, <1>2, <1>3

-----------------------------------------------------------------------------
(* Every step is one of the steps above.                                   *)

LEMMA LoopStepCases ==
    ASSUME TypeOK, BatchInv
    PROVE  /\ LoopTop => Leave \/ Send
           /\ RequestFails => Leave \/ AskAgain
           /\ \A markup \in BOOLEAN : FinalText(markup) => Leave \/ GoOn
           /\ \A markup \in BOOLEAN : FinalResponse(markup) => Leave \/ AskAgain
           /\ \A calls, checks : ToolCalls(calls, checks) => Leave \/ PlanBatch(calls, checks)
  <1> USE TurnAssumption DEF TypeOK, LoopType, FactType, Terminal
  <1>0. ASSUME NEW event \in Terminal, Exit(event), phase # "idle", phase # "batch"
        PROVE  Leave
      BY <1>0 DEF Exit, Leave
  <1>1. ASSUME LoopTop PROVE Leave \/ Send
      BY <1>0, <1>1 DEF LoopTop, Send
  <1>2. ASSUME RequestFails PROVE Leave \/ AskAgain
    <2>1. CASE Exit("error")
        BY <1>0, <1>2, <2>1 DEF RequestFails
    <2> QED  BY <1>2, <2>1 DEF RequestFails, AskAgain
  <1>3. ASSUME NEW markup \in BOOLEAN, FinalText(markup) PROVE Leave \/ GoOn
    <2>1. CASE Exit("completed")
        BY <1>0, <1>3, <2>1 DEF FinalText
    <2>2. CASE ~Exit("completed")
      <3>1. /\ phase = "llm" /\ phase' = "loop" /\ iter' = iter + 1 /\ attempt' = 0
            /\ told' = (told \/ (changed /\ draft /\ ~told))
            /\ rejects' = rejects \/ (rejects < MaxMarkupRejects /\ rejects' = rejects + 1)
            /\ UNCHANGED <<cancelled, batchVars, draft, changed,
                           receipts, streak, spent, runs, ended>>
          BY <1>3, <2>2 DEF FinalText
      <3>2. told' \in BOOLEAN
          BY <3>1
      <3>3. rejects' \in 0 .. MaxMarkupRejects
          BY <3>1
      <3> QED  BY <3>1, <3>2, <3>3 DEF GoOn
    <2> QED  BY <2>1, <2>2
  <1>4. ASSUME NEW markup \in BOOLEAN, FinalResponse(markup) PROVE Leave \/ AskAgain
    <2>1. CASE Exit("completed")
        BY <1>0, <1>4, <2>1 DEF FinalResponse
    <2> QED  BY <1>4, <2>1 DEF FinalResponse, AskAgain
  <1>5. ASSUME NEW calls, NEW checks, ToolCalls(calls, checks) PROVE Leave \/ PlanBatch(calls, checks)
    <2>1. CASE Exit("error")
        BY <1>0, <1>5, <2>1 DEF ToolCalls
    <2> QED  BY <1>5, <2>1 DEF ToolCalls, PlanBatch
  <1> QED  BY <1>1, <1>2, <1>3, <1>4, <1>5

LEMMA CallStepCases ==
    ASSUME TypeOK, BatchInv
    PROVE  /\ BlockToolCall => AnswerHere
           /\ \A valid \in BOOLEAN : Suspend(valid) => Suspended \/ AnswerHere
           /\ TakeResult => Leave \/ AnswerHere
           /\ Dispatch => QueueRun \/ Move(index, Begun(Here.call.tool))
  <1> USE TurnAssumption DEF LoopType
  <1>0. /\ \A p \in DOMAIN plan : plan[p] \in PlannedCall /\ exec[p] \in Execution
        /\ DOMAIN exec = DOMAIN plan
      BY BatchDomains DEF BatchInv
  <1>1. \A p \in DOMAIN plan : exec[p].st # "none" =>
                plan[p].kind = "allow" /\ plan[p].call.tool \notin Asking
      BY DEF BatchInv, Admitted
  <1>2. streak \in [Tools -> Nat] /\ LoopType /\ draft \in BOOLEAN /\ changed \in BOOLEAN /\ told \in BOOLEAN
      BY DEF TypeOK, FactType
  <1>3. ASSUME BlockToolCall PROVE AnswerHere
      BY <1>1, <1>2, <1>3 DEF BlockToolCall, AnswerHere, Reached, Here, Busy, factVars, loopVars
  <1>4. ASSUME NEW valid \in BOOLEAN, Suspend(valid) PROVE Suspended \/ AnswerHere
    <2>1. CASE valid
        BY <1>4, <2>1 DEF Suspend, Suspended
    <2>2. CASE ~valid
        BY <1>1, <1>2, <1>4, <2>2 DEF Suspend, AnswerHere, Reached, Here, Busy, factVars, loopVars
    <2> QED  BY <2>1, <2>2
  <1>5. ASSUME TakeResult PROVE Leave \/ AnswerHere
    <2>1. CASE cancelled
      <3>1. streak' \in [Tools -> Nat]
          BY <1>2, <1>5, <2>1, RecordedStreak DEF TakeResult
      <3> QED  BY <1>5, <2>1, <3>1 DEF TakeResult, Leave, Reached, Terminal
    <2>2. CASE ~cancelled
      <3>1. /\ Reached /\ exec[index].st = "done"
            /\ streak' = Recorded(streak, Here.call.tool, exec[index].out)
            /\ open' = [open EXCEPT ![index] = 1]
            /\ index' = index + 1 /\ attempt' = 0
            /\ phase' \in {"batch", "final"} /\ rejects' \in {0, rejects}
            /\ UNCHANGED <<cancelled, iter, plan, exec, pending, draft, changed, told,
                           receipts, spent, runs, ended>>
          BY <1>5, <2>2 DEF TakeResult
      <3>2. streak' \in [Tools -> Nat]
          BY <1>2, <3>1, RecordedStreak
      <3> QED  BY <1>2, <3>1, <3>2 DEF AnswerHere, Busy
    <2> QED  BY <2>1, <2>2
  <1>6. ASSUME Dispatch PROVE QueueRun \/ Move(index, Begun(Here.call.tool))
    <2>1. CASE Here.safe
        BY <1>6, <2>1 DEF Dispatch, QueueRun
    <2>2. CASE ~Here.safe
        BY <1>2, <1>6, <2>2, BegunExecution
        DEF Dispatch, Move, Reached, Here, factVars
    <2> QED  BY <2>1, <2>2
  <1> QED  BY <1>3, <1>4, <1>5, <1>6

LEMMA MoveCases ==
    ASSUME TypeOK, BatchInv, NEW p \in DOMAIN plan
    PROVE  /\ FutureStarts(p) => \E e \in Execution : Move(p, e)
           /\ Retry(p) => \E e \in Execution : Move(p, e)
           /\ Abandon(p) => \E e \in Execution : Move(p, e)
           /\ \A out \in Results : ExecutionReturns(p, out) => \E e \in Execution : Move(p, e)
  <1>0. exec[p] \in Execution /\ p \in DOMAIN exec
      BY BatchDomains DEF BatchInv
  <1>1. /\ exec[p].st = "backoff" => exec[p].tries < MaxAttempts
        /\ exec[p].st = "backoff" \/ exec[p].tries > 1 => plan[p].call.tool \in Idempotent
      BY DEF BatchInv, RetriesIdempotent
  <1>2. draft \in BOOLEAN /\ changed \in BOOLEAN /\ told \in BOOLEAN
      BY DEF TypeOK, FactType
  <1>3. ASSUME FutureStarts(p) PROVE \E e \in Execution : Move(p, e)
    <2>1. CASE exec' = [exec EXCEPT ![p] = Begun(plan[p].call.tool)]
        BY <1>2, <1>3, <2>1, BegunExecution DEF FutureStarts, Move, factVars, Busy
    <2>2. CASE exec' = [exec EXCEPT ![p].st = "done", ![p].out = "ctx"]
      <3> DEFINE e == [exec[p] EXCEPT !.st = "done", !.out = "ctx"]
      <3>1. e \in Execution /\ e.st = "done" /\ e.tries = exec[p].tries
          BY <1>0 DEF Execution
      <3>2. exec' = [exec EXCEPT ![p] = e]
          BY <1>0, <2>2
      <3> HIDE DEF e
      <3>3. Move(p, e)
          BY <1>1, <1>2, <1>3, <3>1, <3>2 DEF FutureStarts, Move, factVars, Busy
      <3> QED  BY <3>1, <3>3
    <2> QED  BY <1>3, <2>1, <2>2 DEF FutureStarts
  <1>4. ASSUME Retry(p) PROVE \E e \in Execution : Move(p, e)
    <2> DEFINE e == IF cancelled THEN [exec[p] EXCEPT !.st = "done", !.out = "ctx"]
                                 ELSE [exec[p] EXCEPT !.st = "running", !.tries = @ + 1]
    <2>1. exec[p].tries + 1 \in 0 .. MaxAttempts
        BY <1>0, <1>1, <1>4, TurnAssumption DEF Retry, Execution
    <2>2. e \in Execution /\ e.st \in {"done", "running"}
        BY <1>0, <2>1 DEF Execution, Busy
    <2>3. exec' = [exec EXCEPT ![p] = e]
        BY <1>0, <1>4 DEF Retry
    <2> HIDE DEF e
    <2>4. Move(p, e)
        BY <1>1, <1>2, <1>4, <2>2, <2>3 DEF Retry, Move, factVars, Busy
    <2> QED  BY <2>2, <2>4
  <1>5. ASSUME Abandon(p) PROVE \E e \in Execution : Move(p, e)
    <2> DEFINE e == [exec[p] EXCEPT !.st = "done", !.out = IF cancelled THEN "ctx" ELSE "timeout"]
    <2>1. e \in Execution /\ e.st = "done" /\ e.tries = exec[p].tries
        BY <1>0 DEF Execution
    <2>2. exec' = [exec EXCEPT ![p] = e]
        BY <1>0, <1>5 DEF Abandon
    <2> HIDE DEF e
    <2>3. Move(p, e)
        BY <1>1, <1>2, <1>5, <2>1, <2>2 DEF Abandon, Move, factVars, Busy, Idempotent
    <2> QED  BY <2>1, <2>3
  <1>6. ASSUME NEW out \in Results, ExecutionReturns(p, out) PROVE \E e \in Execution : Move(p, e)
    <2>1. /\ phase = "batch" /\ exec[p].st = "running"
          /\ UNCHANGED <<loopVars, plan, index, open, pending, streak, runs, ended>>
        BY <1>6 DEF ExecutionReturns
    <2>2. draft' \in BOOLEAN /\ changed' \in BOOLEAN /\ told' \in BOOLEAN
        BY <1>2, <1>6 DEF ExecutionReturns, Effect
    <2>3. UNCHANGED <<receipts, spent>> \/ Spends(plan[p].call)
        BY <1>6 DEF ExecutionReturns, CommitWithConfirmationReceipt, Spends
    <2>4. CASE exec' = [exec EXCEPT ![p].st = "done", ![p].out = out]
      <3> DEFINE e == [exec[p] EXCEPT !.st = "done", !.out = out]
      <3>1. e \in Execution /\ e.st = "done" /\ e.tries = exec[p].tries /\ e.out = out
          BY <1>0 DEF Execution, Results
      <3>2. exec' = [exec EXCEPT ![p] = e]
          BY <1>0, <2>4
      <3> HIDE DEF e
      <3>3. Move(p, e)
          BY <1>1, <2>1, <2>2, <2>3, <3>1, <3>2 DEF Move, Busy
      <3> QED  BY <3>1, <3>3
    <2>5. CASE out = "error" /\ Retried(p) /\ exec' = [exec EXCEPT ![p].st = "backoff"]
      <3> DEFINE e == [exec[p] EXCEPT !.st = "backoff"]
      <3>1. e \in Execution /\ e.st = "backoff" /\ e.tries = exec[p].tries
          BY <1>0 DEF Execution, Busy
      <3>2. exec' = [exec EXCEPT ![p] = e]
          BY <1>0, <2>5
      <3> HIDE DEF e
      <3>3. Move(p, e)
          BY <1>1, <2>1, <2>2, <2>3, <2>5, <3>1, <3>2 DEF Move, Busy, Retried
      <3> QED  BY <3>1, <3>3
    <2> QED  BY <1>6, <2>4, <2>5 DEF ExecutionReturns
  <1> QED  BY <1>3, <1>4, <1>5, <1>6

\* The branches of Next.
LEMMA StepCases ==
    ASSUME TypeOK, BatchInv, [Next]_vars
    PROVE  \/ StartRun \/ Cancel \/ Leave \/ Suspended
           \/ Send \/ AskAgain \/ GoOn \/ BatchDone
           \/ AnswerHere \/ QueueRun
           \/ \E calls \in Batches : \E checks \in [DOMAIN calls -> Checks] :
                PlanBatch(calls, checks)
           \/ \E p \in DOMAIN plan, e \in Execution : Move(p, e)
           \/ \E approved \in BOOLEAN : ProvideAskUserResult(approved)
           \/ \E r \in DOMAIN receipts : ReceiptExpires(r)
           \/ UNCHANGED vars
  <1> DEFINE Goal ==
           \/ StartRun \/ Cancel \/ Leave \/ Suspended
           \/ Send \/ AskAgain \/ GoOn \/ BatchDone
           \/ AnswerHere \/ QueueRun
           \/ \E calls \in Batches : \E checks \in [DOMAIN calls -> Checks] :
                PlanBatch(calls, checks)
           \/ \E p \in DOMAIN plan, e \in Execution : Move(p, e)
           \/ \E approved \in BOOLEAN : ProvideAskUserResult(approved)
           \/ \E r \in DOMAIN receipts : ReceiptExpires(r)
           \/ UNCHANGED vars
  <1>1. ASSUME LoopTop \/ RequestFails \/ BatchDone PROVE Goal
      BY <1>1, LoopStepCases
  <1>2. ASSUME NEW markup \in BOOLEAN, FinalText(markup) \/ FinalResponse(markup) PROVE Goal
      BY <1>2, LoopStepCases
  <1>3. ASSUME NEW calls \in Batches, NEW checks \in [DOMAIN calls -> Checks], ToolCalls(calls, checks)
        PROVE  Goal
      BY <1>3, LoopStepCases
  <1>4. ASSUME BlockToolCall \/ TakeResult PROVE Goal
      BY <1>4, CallStepCases
  <1>5. ASSUME NEW valid \in BOOLEAN, Suspend(valid) PROVE Goal
      BY <1>5, CallStepCases
  <1>6. ASSUME Dispatch PROVE Goal
    <2>1. index \in DOMAIN plan /\ Begun(Here.call.tool) \in Execution
        BY <1>6, BegunExecution DEF Dispatch, Reached
    <2> QED  BY <1>6, <2>1, CallStepCases
  <1>7. ASSUME NEW p \in 1..MaxBatch, CallStep(p) PROVE Goal
    <2>1. p \in DOMAIN plan
        BY <1>7 DEF CallStep
    <2>2. \E e \in Execution : Move(p, e)
        BY <1>7, <2>1, MoveCases DEF CallStep
    <2> QED  BY <2>1, <2>2
  <1>8. ASSUME LoopStep PROVE Goal
      BY <1>1, <1>2, <1>3, <1>4, <1>5, <1>6, <1>8 DEF LoopStep
  <1>9. ASSUME Next PROVE Goal
    <2> HIDE DEF Goal
    <2>1. ASSUME StartRun \/ Cancel PROVE Goal
        BY <2>1 DEF Goal
    <2>2. ASSUME NEW approved \in BOOLEAN, ProvideAskUserResult(approved) PROVE Goal
        BY <2>2 DEF Goal
    <2>3. ASSUME NEW r \in DOMAIN receipts, ReceiptExpires(r) PROVE Goal
        BY <2>3 DEF Goal
    <2> QED  BY <1>7, <1>8, <1>9, <2>1, <2>2, <2>3 DEF Next
  <1> QED  BY <1>9

-----------------------------------------------------------------------------
(* The types.                                                              *)

\* Every step keeps the types of the loop.
LEMMA LoopTypeStep ==
    ASSUME TypeOK, BatchInv, [Next]_vars
    PROVE  LoopType'
  <1>0. LoopType /\ LoopShape
      BY DEF TypeOK, BatchInv
  <1> USE <1>0 DEF LoopShape
  <1> USE TurnAssumption DEF LoopType, Terminal,
      loopVars, batchVars, factVars
  <1>1. ASSUME StartRun PROVE LoopType'
      BY <1>1 DEF StartRun
  <1>2. ASSUME Cancel PROVE LoopType'
      BY <1>2 DEF Cancel
  <1>3. ASSUME Leave PROVE LoopType'

    <2>1. PICK event \in Terminal : End(event, 0) /\ UNCHANGED runs
        BY <1>3 DEF Leave
    <2>2. ended.count = 0
        BY <1>3 DEF Leave
    <2>3. ended'.count = 1 /\ ended'.last \in Terminal
        BY <2>1, <2>2 DEF End
    <2>4. ended' = [count |-> 1, last |-> event]
        BY <2>1, <2>2 DEF End
    <2>5. /\ phase' = "idle" /\ cancelled' = FALSE /\ UNCHANGED runs
          /\ iter' = 0 /\ attempt' = 0 /\ rejects' = 0
        BY <2>1 DEF End
    <2>6. ended' \in [count : 0..1, last : Terminal \cup {"none"}]
        BY <2>1, <2>4
    <2>7. 0 \in 0 .. MaxIterations + 1 /\ 0 \in 0 .. MaxAttempts /\ 0 \in 0 .. MaxMarkupRejects
        OBVIOUS
    <2> QED  BY <2>5, <2>6, <2>7
  <1>4. ASSUME Suspended PROVE LoopType'

    <2>1. End("suspended", index) /\ UNCHANGED runs /\ ended.count = 0
        BY <1>4 DEF Suspended, Reached
    <2>2. ended' = [count |-> 1, last |-> "suspended"]
        BY <2>1 DEF End
    <2>3. /\ phase' = "idle" /\ cancelled' = FALSE /\ UNCHANGED runs
          /\ iter' = 0 /\ attempt' = 0 /\ rejects' = 0
        BY <2>1 DEF End
    <2>4. ended' \in [count : 0..1, last : Terminal \cup {"none"}]
        BY <2>2
    <2>5. 0 \in 0 .. MaxIterations + 1 /\ 0 \in 0 .. MaxAttempts /\ 0 \in 0 .. MaxMarkupRejects
        OBVIOUS
    <2> QED  BY <2>3, <2>4, <2>5
  <1>5. ASSUME Send PROVE LoopType'
      BY <1>5 DEF Send
  <1>6. ASSUME AskAgain PROVE LoopType'
      BY <1>6 DEF AskAgain
  <1>7. ASSUME GoOn PROVE LoopType'
      BY <1>7 DEF GoOn
  <1>8. ASSUME BatchDone PROVE LoopType'
      BY <1>8 DEF BatchDone
  <1>9. ASSUME AnswerHere PROVE LoopType'
      BY <1>9 DEF AnswerHere, Reached
  <1>10. ASSUME QueueRun PROVE LoopType'
      BY <1>10 DEF QueueRun, Reached, Here
  <1>11. ASSUME NEW calls \in Batches, NEW checks, PlanBatch(calls, checks) PROVE LoopType'
      BY <1>11 DEF PlanBatch
  <1>12. ASSUME NEW p \in DOMAIN plan, NEW e \in Execution, Move(p, e) PROVE LoopType'
      BY <1>12 DEF Move
  <1>13. ASSUME NEW approved \in BOOLEAN, ProvideAskUserResult(approved) PROVE LoopType'
      BY <1>13 DEF ProvideAskUserResult
  <1>14. ASSUME NEW r \in DOMAIN receipts, ReceiptExpires(r) PROVE LoopType'
      BY <1>14 DEF ReceiptExpires
  <1>15. CASE UNCHANGED vars
      BY <1>15 DEF vars
  <1> QED
      BY <1>1, <1>2, <1>3, <1>4, <1>5, <1>6, <1>7, <1>8, <1>9, <1>10, <1>11,
      <1>12, <1>13, <1>14, <1>15, StepCases

\* Every step keeps the types of what the session remembers.
LEMMA FactTypeStep ==
    ASSUME TypeOK, BatchInv, [Next]_vars
    PROVE  FactType'
  <1>0. FactType
      BY DEF TypeOK
  <1> USE <1>0
  <1> USE DEF FactType, loopVars, batchVars, factVars
  <1>1. ASSUME StartRun PROVE FactType'
      BY <1>1 DEF StartRun
  <1>2. ASSUME Cancel PROVE FactType'
      BY <1>2 DEF Cancel
  <1>3. ASSUME Leave PROVE FactType'
      BY <1>3 DEF Leave, End
  <1>4. ASSUME Suspended PROVE FactType'
      BY <1>4 DEF Suspended, End, Reached, Here
  <1>5. ASSUME Send PROVE FactType'
      BY <1>5 DEF Send
  <1>6. ASSUME AskAgain PROVE FactType'
      BY <1>6 DEF AskAgain
  <1>7. ASSUME GoOn PROVE FactType'
      BY <1>7 DEF GoOn
  <1>8. ASSUME BatchDone PROVE FactType'
      BY <1>8 DEF BatchDone
  <1>9. ASSUME AnswerHere PROVE FactType'
      BY <1>9 DEF AnswerHere, Reached
  <1>10. ASSUME QueueRun PROVE FactType'
      BY <1>10 DEF QueueRun, Reached, Here
  <1>11. ASSUME NEW calls \in Batches, NEW checks, PlanBatch(calls, checks) PROVE FactType'
      BY <1>11 DEF PlanBatch
  <1>12. ASSUME NEW p \in DOMAIN plan, NEW e \in Execution, Move(p, e) PROVE FactType'

    <2>1. CASE UNCHANGED <<receipts, spent>>
        BY <1>12, <2>1 DEF Move
    <2>2. CASE Spends(plan[p].call)
      <3> DEFINE c == plan[p].call
      <3>1. c.receipt \in DOMAIN receipts /\ receipts[c.receipt].auth = c.auth
          BY <2>2 DEF Spends, VerifyApproval
      <3>2. receipts[c.receipt] \in Receipt /\ c.receipt \in Nat
          BY <3>1, ElementOfSeq, LenProperties
      <3>3. [receipts[c.receipt] EXCEPT !.st = "used"] \in Receipt
          BY <3>2 DEF Receipt
      <3>4. receipts' \in Seq(Receipt)
          BY <2>2, <3>1, <3>3, ExceptSeq DEF Spends
      <3>5. [receipt |-> c.receipt, auth |-> c.auth, live |-> receipts[c.receipt].st = "live"]
               \in Commit
          BY <3>1, <3>2 DEF Commit, Receipt
      <3>6. spent' \in Seq(Commit)
          BY <2>2, <3>5, AppendProperties DEF Spends
      <3> QED  BY <1>12, <3>4, <3>6 DEF Move
    <2> QED  BY <1>12, <2>1, <2>2 DEF Move
  <1>13. ASSUME NEW approved \in BOOLEAN, ProvideAskUserResult(approved) PROVE FactType'

    <2>1. CASE approved
      <3>1. plan # <<>> /\ plan[1].call.auth # NoAuth
          BY <1>13, <2>1 DEF ProvideAskUserResult
      <3>2. 1 \in DOMAIN plan
          BY <3>1, BatchDomains, EmptySeq DEF BatchInv, TypeOK, BatchType
      <3>3. plan[1] \in PlannedCall
          BY <3>2, BatchDomains DEF BatchInv
      <3>4. plan[1].call.auth \in Auths
          BY <3>1, <3>3 DEF PlannedCall, Call
      <3>5. [auth |-> plan[1].call.auth, st |-> "live"] \in Receipt
          BY <3>4 DEF Receipt
      <3>6. receipts' \in Seq(Receipt)
          BY <1>13, <2>1, <3>5, AppendProperties DEF ProvideAskUserResult
      <3> QED  BY <1>13, <3>6 DEF ProvideAskUserResult
    <2> QED  BY <1>13, <2>1 DEF ProvideAskUserResult
  <1>14. ASSUME NEW r \in DOMAIN receipts, ReceiptExpires(r) PROVE FactType'

    <2>1. receipts[r] \in Receipt
        BY ElementOfSeq, LenProperties
    <2>2. [receipts[r] EXCEPT !.st = "expired"] \in Receipt
        BY <2>1 DEF Receipt
    <2>3. receipts' \in Seq(Receipt)
        BY <1>14, <2>2, ExceptSeq DEF ReceiptExpires
    <2> QED  BY <1>14, <2>3 DEF ReceiptExpires
  <1>15. CASE UNCHANGED vars
      BY <1>15 DEF vars
  <1> QED
      BY <1>1, <1>2, <1>3, <1>4, <1>5, <1>6, <1>7, <1>8, <1>9, <1>10, <1>11,
      <1>12, <1>13, <1>14, <1>15, StepCases

\* Every step keeps the types of the turn.
LEMMA BatchTypeStep ==
    ASSUME TypeOK, BatchInv, [Next]_vars
    PROVE  BatchType'
  <1>0. BatchType
      BY DEF TypeOK
  <1> USE <1>0
  <1> USE DEF BatchType, loopVars, batchVars, factVars
  <1>1. ASSUME StartRun PROVE BatchType'

    <2>1. open' = Repaired(0) /\ pending' = 0 /\ UNCHANGED <<plan, index>>
        BY <1>1 DEF StartRun
    <2> QED  BY <2>1, TurnRepaired, TurnAssumption
  <1>2. ASSUME Cancel PROVE BatchType'
      BY <1>2 DEF Cancel
  <1>3. ASSUME Leave PROVE BatchType'

    <2>1. open' = Repaired(0) /\ plan' = <<>> /\ index' = 0 /\ pending' = 0
        BY <1>3 DEF Leave, End
    <2> QED  BY <2>1, TurnRepaired, EmptySeq, TurnAssumption
  <1>4. ASSUME Suspended PROVE BatchType'

    <2>1. open' = Repaired(index) /\ plan' = plan /\ index' = 0 /\ pending' = index
        BY <1>4, BatchDomains DEF Suspended, End, Reached, BatchInv
    <2>2. index \in DOMAIN plan
        BY <1>4 DEF Suspended, Reached
    <2>3. index \in 0 .. MaxBatch /\ index \in Nat
        BY <2>2, BatchDomains, TurnAssumption DEF BatchInv
    <2> QED  BY <2>1, <2>3, TurnRepaired, TurnAssumption
  <1>5. ASSUME Send PROVE BatchType'
      BY <1>5 DEF Send
  <1>6. ASSUME AskAgain PROVE BatchType'
      BY <1>6 DEF AskAgain
  <1>7. ASSUME GoOn PROVE BatchType'
      BY <1>7 DEF GoOn
  <1>8. ASSUME BatchDone PROVE BatchType'
      BY <1>8, EmptySeq, TurnAssumption DEF BatchDone
  <1>9. ASSUME AnswerHere PROVE BatchType'

    <2>1. index \in 1 .. Len(plan) /\ Len(plan) \in 0 .. MaxBatch
        BY <1>9, BatchDomains DEF AnswerHere, Reached, BatchInv
    <2>2. open' \in Seq(0 .. 1) /\ Len(open') = Len(open)
        BY <1>9, OpenAnswered DEF AnswerHere
    <2> QED  BY <1>9, <2>1, <2>2, TurnAssumption DEF AnswerHere
  <1>10. ASSUME QueueRun PROVE BatchType'
      BY <1>10 DEF QueueRun, Reached, Here
  <1>11. ASSUME NEW calls \in Batches, NEW checks, PlanBatch(calls, checks) PROVE BatchType'

    <2>1. index' = 1 /\ pending' = pending
        BY <1>11 DEF PlanBatch
    <2> QED  BY <1>11, <2>1, PlanBatchEffect, TurnAssumption
  <1>12. ASSUME NEW p \in DOMAIN plan, NEW e \in Execution, Move(p, e) PROVE BatchType'
      BY <1>12 DEF Move
  <1>13. ASSUME NEW approved \in BOOLEAN, ProvideAskUserResult(approved) PROVE BatchType'
      BY <1>13, OpenAnswered, TurnAssumption DEF ProvideAskUserResult
  <1>14. ASSUME NEW r \in DOMAIN receipts, ReceiptExpires(r) PROVE BatchType'
      BY <1>14 DEF ReceiptExpires
  <1>15. CASE UNCHANGED vars
      BY <1>15 DEF vars
  <1> QED
      BY <1>1, <1>2, <1>3, <1>4, <1>5, <1>6, <1>7, <1>8, <1>9, <1>10, <1>11,
      <1>12, <1>13, <1>14, <1>15, StepCases

\* Every step keeps one execution per planned call.
LEMMA ExecTypeStep ==
    ASSUME TypeOK, BatchInv, [Next]_vars
    PROVE  ExecType'
  <1>0. ExecType
      BY DEF TypeOK
  <1> USE <1>0
  <1> USE DEF ExecType, loopVars, batchVars, factVars
  <1>1. ASSUME StartRun PROVE ExecType'
      BY <1>1 DEF StartRun
  <1>2. ASSUME Cancel PROVE ExecType'
      BY <1>2 DEF Cancel
  <1>3. ASSUME Leave PROVE ExecType'

    <2>1. plan' = <<>> /\ exec' = [p \in DOMAIN plan' |-> Idle]
        BY <1>3 DEF Leave, End
    <2> QED  BY <2>1, IdleExecution
  <1>4. ASSUME Suspended PROVE ExecType'

    <2>1. plan' = plan /\ exec' = [p \in DOMAIN plan' |-> Idle]
        BY <1>4, BatchDomains DEF Suspended, End, Reached, BatchInv
    <2> QED  BY <2>1, IdleExecution, BatchDomains DEF BatchInv
  <1>5. ASSUME Send PROVE ExecType'
      BY <1>5 DEF Send
  <1>6. ASSUME AskAgain PROVE ExecType'
      BY <1>6 DEF AskAgain
  <1>7. ASSUME GoOn PROVE ExecType'
      BY <1>7 DEF GoOn
  <1>8. ASSUME BatchDone PROVE ExecType'

    <2>1. plan' = <<>> /\ exec' = <<>>
        BY <1>8 DEF BatchDone
    <2> QED  BY <2>1
  <1>9. ASSUME AnswerHere PROVE ExecType'
      BY <1>9 DEF AnswerHere, Reached
  <1>10. ASSUME QueueRun PROVE ExecType'

    <2>1. ASSUME NEW p \in 1 .. Len(plan) PROVE [exec[p] EXCEPT !.st = "queued"] \in Execution
        BY DEF Execution, Busy
    <2> QED  BY <1>10, <2>1 DEF QueueRun
  <1>11. ASSUME NEW calls \in Batches, NEW checks, PlanBatch(calls, checks) PROVE ExecType'

      BY <1>11, PlanBatchEffect, IdleExecution
  <1>12. ASSUME NEW p \in DOMAIN plan, NEW e \in Execution, Move(p, e) PROVE ExecType'
      BY <1>12 DEF Move
  <1>13. ASSUME NEW approved \in BOOLEAN, ProvideAskUserResult(approved) PROVE ExecType'
      BY <1>13 DEF ProvideAskUserResult
  <1>14. ASSUME NEW r \in DOMAIN receipts, ReceiptExpires(r) PROVE ExecType'
      BY <1>14 DEF ReceiptExpires
  <1>15. CASE UNCHANGED vars
      BY <1>15 DEF vars
  <1> QED
      BY <1>1, <1>2, <1>3, <1>4, <1>5, <1>6, <1>7, <1>8, <1>9, <1>10, <1>11,
      <1>12, <1>13, <1>14, <1>15, StepCases

LEMMA TypeStep ==
    ASSUME TypeOK, BatchInv, [Next]_vars
    PROVE  TypeOK'
  BY LoopTypeStep, FactTypeStep, BatchTypeStep, ExecTypeStep DEF TypeOK

-----------------------------------------------------------------------------
(* The invariants of the batch.                                            *)

\* What leaving Run does to the batch.
LEMMA LeaveEffect ==
    ASSUME TypeOK, BatchInv, Leave
    PROVE  /\ phase' = "idle" /\ pending' = 0 /\ index' = 0 /\ plan' = <<>> /\ exec' = <<>>
           /\ DOMAIN open' = DOMAIN open /\ Len(open') = Len(open)
           /\ \A p \in DOMAIN open : open'[p] = 1
           /\ DOMAIN plan' = {} /\ Len(plan') = 0
           /\ ended'.count = 1
           /\ UNCHANGED <<receipts, spent, runs>>
  <1>1. PICK event \in Terminal : End(event, 0)
      BY DEF Leave
  <1>2. /\ phase' = "idle" /\ pending' = 0 /\ index' = 0 /\ plan' = <<>>
        /\ open' = Repaired(0) /\ exec' = [p \in DOMAIN plan' |-> Idle]
        /\ UNCHANGED <<receipts, spent, runs>>
      BY <1>1 DEF Leave, End
  <1>3. exec' = <<>>
      BY <1>2
  <1>4. ended.count = 0 /\ ended' = [count |-> ended.count + 1, last |-> event]
      BY <1>1 DEF Leave, BatchInv, LoopShape, End
  <1>5. 0 \notin DOMAIN open /\ BatchType
      BY BatchDomains DEF BatchInv, TypeOK
  <1>6. /\ DOMAIN open' = DOMAIN open /\ Len(open') = Len(open)
        /\ \A p \in DOMAIN open : open'[p] = 1
      BY <1>2, <1>5, TurnRepaired
  <1> QED  BY <1>2, <1>3, <1>4, <1>6

LEMMA SuspendedEffect ==
    ASSUME TypeOK, BatchInv, Suspended
    PROVE  /\ phase' = "idle" /\ pending' = index /\ index' = 0 /\ plan' = plan
           /\ exec' = [p \in 1 .. Len(plan) |-> Idle]
           /\ DOMAIN open' = DOMAIN open /\ Len(open') = Len(open)
           /\ \A p \in DOMAIN open : p # index => open'[p] = 1
           /\ ended' = [count |-> 1, last |-> "suspended"]
           /\ UNCHANGED <<receipts, spent, runs>>
           /\ phase = "batch" /\ index \in DOMAIN plan /\ exec[index].st = "none"
  <1>1. /\ phase = "batch" /\ index \in DOMAIN plan /\ plan[index].call.tool \in Asking
        /\ End("suspended", index) /\ UNCHANGED <<receipts, spent, runs>>
      BY DEF Suspended, Reached, Here
  <1>2. exec[index].st = "none"
      BY <1>1 DEF BatchInv, Admitted
  <1>3. DOMAIN plan = 1 .. Len(plan) /\ index \in Nat /\ index # 0 /\ BatchType
      BY <1>1, BatchDomains DEF BatchInv, TypeOK
  <1>4. /\ phase' = "idle" /\ pending' = index /\ index' = 0 /\ plan' = plan
        /\ open' = Repaired(index) /\ exec' = [p \in DOMAIN plan' |-> Idle]
        /\ ended' = [count |-> ended.count + 1, last |-> "suspended"]
      BY <1>1, <1>3 DEF End
  <1>5. ended.count = 0
      BY <1>1 DEF BatchInv, LoopShape
  <1>6. /\ DOMAIN open' = DOMAIN open /\ Len(open') = Len(open)
        /\ \A p \in DOMAIN open : p # index => open'[p] = 1
      BY <1>3, <1>4, TurnRepaired
  <1>7. ended' = [count |-> 1, last |-> "suspended"]
      BY <1>4, <1>5
  <1> QED  BY <1>1, <1>2, <1>3, <1>4, <1>6, <1>7

\* A new run pairs what an earlier one left open.
LEMMA StartEffect ==
    ASSUME TypeOK, BatchInv, StartRun
    PROVE  /\ phase = "idle" /\ phase' = "loop" /\ UNCHANGED <<plan, index, exec, receipts, spent>>
           /\ DOMAIN open' = DOMAIN open /\ Len(open') = Len(open)
           /\ \A p \in DOMAIN open : open'[p] = 1
           /\ ended'.count = 0
  <1>1. /\ phase = "idle" /\ phase' = "loop" /\ UNCHANGED <<plan, index, exec, receipts, spent>>
        /\ open' = Repaired(0) /\ ended' = [count |-> 0, last |-> "none"]
      BY DEF StartRun
  <1>2. 0 \notin DOMAIN open /\ BatchType
      BY BatchDomains DEF BatchInv, TypeOK
  <1>3. /\ DOMAIN open' = DOMAIN open /\ Len(open') = Len(open)
        /\ \A p \in DOMAIN open : open'[p] = 1
      BY <1>1, <1>2, TurnRepaired
  <1> QED  BY <1>1, <1>3

\* The step that moves one execution leaves the others.
LEMMA MoveEffect ==
    ASSUME TypeOK, BatchInv, NEW p \in DOMAIN plan, NEW e \in Execution, Move(p, e)
    PROVE  /\ phase = "batch" /\ p >= index
           /\ UNCHANGED <<phase, plan, index, open, ended, iter, pending, runs>>
           /\ exec'[p] = e /\ \A q \in DOMAIN plan : q # p => exec'[q] = exec[q]
           /\ exec[p].st = "none" => p = index
           /\ plan[p].kind = "allow" /\ plan[p].call.tool \notin Asking
  <1>0. DOMAIN exec = DOMAIN plan /\ p \in Nat /\ index \in Nat
      BY BatchDomains DEF BatchInv
  <1>1. \/ exec[p].st \in Busy
        \/ p = index /\ plan[p].kind = "allow" /\ plan[p].call.tool \notin Asking
      BY DEF Move
  <1>2. plan[p].kind = "allow" /\ plan[p].call.tool \notin Asking
      BY <1>1 DEF BatchInv, Admitted, Busy
  <1>3. p >= index
      BY <1>0, <1>1 DEF BatchInv, BatchOrder
  <1>4. /\ phase = "batch" /\ UNCHANGED <<phase, plan, index, open, ended, iter, pending, runs>>
        /\ exec' = [exec EXCEPT ![p] = e]
      BY DEF Move, loopVars
  <1> QED  BY <1>0, <1>1, <1>2, <1>3, <1>4 DEF Busy

\* The queued run consists of parallel-safe calls from the current one on.
LEMMA QueueEffect ==
    ASSUME TypeOK, BatchInv, QueueRun
    PROVE  /\ phase = "batch" /\ index \in DOMAIN plan
           /\ UNCHANGED <<phase, plan, index, open, ended, iter, pending, runs>>
           /\ \A p \in DOMAIN plan :
                \/ exec'[p] = exec[p]
                \/ /\ exec[p].st = "none" /\ exec'[p].st = "queued"
                   /\ exec'[p].tries = exec[p].tries
                   /\ p >= index /\ \A q \in index .. p : plan[q].safe
           /\ \A p \in DOMAIN plan :
                plan[p].safe => plan[p].kind = "allow" /\ plan[p].call.tool \notin Asking
  <1>0. /\ DOMAIN plan = 1 .. Len(plan) /\ DOMAIN exec = DOMAIN plan /\ index \in Nat
        /\ Len(plan) \in Nat /\ \A p \in DOMAIN plan : exec[p] \in Execution
      BY BatchDomains DEF BatchInv
  <1>1. /\ phase = "batch" /\ index \in DOMAIN plan
        /\ plan[index].call.tool \notin Asking
        /\ UNCHANGED <<phase, plan, index, open, ended, iter, pending, runs>>
        /\ exec' = [p \in DOMAIN exec |->
                      IF p \in ParallelRun /\ exec[p].st = "none"
                        THEN [exec[p] EXCEPT !.st = "queued"] ELSE exec[p]]
      BY DEF QueueRun, Reached, Here, loopVars
  <1>2. ASSUME NEW p \in DOMAIN plan
        PROVE  \/ exec'[p] = exec[p]
               \/ /\ exec[p].st = "none" /\ exec'[p].st = "queued"
                  /\ exec'[p].tries = exec[p].tries
                  /\ p >= index /\ \A q \in index .. p : plan[q].safe
    <2>1. CASE p \in ParallelRun /\ exec[p].st = "none"
      <3>1. exec'[p] = [exec[p] EXCEPT !.st = "queued"]
          BY <1>0, <1>1, <2>1
      <3>2. exec'[p].st = "queued" /\ exec'[p].tries = exec[p].tries
          BY <1>0, <3>1 DEF Execution
      <3>3. p >= index /\ \A q \in index .. p : plan[q].safe
          BY <2>1 DEF ParallelRun
      <3> QED  BY <2>1, <3>2, <3>3
    <2>2. CASE ~(p \in ParallelRun /\ exec[p].st = "none")
        BY <1>0, <1>1, <2>2
    <2> QED  BY <2>1, <2>2
  <1>3. ASSUME NEW p \in DOMAIN plan, plan[p].safe
        PROVE  plan[p].kind = "allow" /\ plan[p].call.tool \notin Asking
    <2>1. plan[p].kind = "allow" /\ (plan[p].call.tool \in Asking => Len(plan) = 1)
        BY <1>3 DEF BatchInv, Admitted
    <2>2. plan[p].call.tool \in Asking => p = index
        BY <1>0, <1>1, <2>1
    <2> QED  BY <1>1, <2>1, <2>2
  <1> QED  BY <1>1, <1>2, <1>3

\* Every step keeps where the loop is.
LEMMA LoopShapeStep ==
    ASSUME TypeOK, BatchInv, [Next]_vars
    PROVE  LoopShape'
  <1>0. /\ DOMAIN plan = 1 .. Len(plan) /\ Len(plan) \in Nat
        /\ DOMAIN open = 1 .. Len(open) /\ Len(open) \in Nat
        /\ DOMAIN exec = 1 .. Len(plan) /\ index \in Nat
      BY BatchDomains DEF BatchInv
  <1>inv. LoopShape /\ BatchType
      BY DEF BatchInv, TypeOK
  <1> USE <1>inv
  <1> USE DEF LoopShape, loopVars, batchVars, factVars
  <1>1. ASSUME StartRun PROVE LoopShape'
      BY <1>1, StartEffect DEF StartRun
  <1>2. ASSUME Cancel PROVE LoopShape'
      BY <1>2 DEF Cancel
  <1>3. ASSUME Leave PROVE LoopShape'

    BY <1>3, LeaveEffect
  <1>4. ASSUME Suspended PROVE LoopShape'

    BY <1>4, <1>0, SuspendedEffect
  <1>5. ASSUME Send PROVE LoopShape'
      BY <1>5 DEF Send
  <1>6. ASSUME AskAgain PROVE LoopShape'
      BY <1>6 DEF AskAgain
  <1>7. ASSUME GoOn PROVE LoopShape'
      BY <1>7 DEF GoOn
  <1>8. ASSUME BatchDone PROVE LoopShape'

    BY <1>8, EmptySeq DEF BatchDone
  <1>9. ASSUME AnswerHere PROVE LoopShape'


    <2>1. index \in 1 .. Len(plan) /\ index' = index + 1 /\ index # 0 /\ phase = "batch"
        BY <1>9, <1>0 DEF AnswerHere, Reached
    <2>2. Len(open') = Len(open)
        BY <1>9, <1>0, OpenAnswered DEF AnswerHere
    <2> QED  BY <1>9, <1>0, <2>1, <2>2 DEF AnswerHere, Reached
  <1>10. ASSUME QueueRun PROVE LoopShape'
      BY <1>10 DEF QueueRun, Reached, Here
  <1>11. ASSUME NEW calls \in Batches, NEW checks, PlanBatch(calls, checks) PROVE LoopShape'


    <2>1. /\ phase = "llm" /\ phase' = "batch" /\ index' = 1 /\ UNCHANGED <<iter, ended>>
        BY <1>11 DEF PlanBatch
    <2>2. Len(plan') \in 1 .. MaxBatch /\ Len(open') = Len(plan') /\ plan' # <<>>
        BY <1>11, PlanBatchEffect, TurnAssumption
    <2>3. index' <= Len(plan') + 1 /\ index' # 0
        BY <2>1, <2>2, TurnAssumption
    <2>4. iter' <= MaxIterations /\ ended'.count = 0
        BY <2>1
    <2> QED  BY <2>1, <2>2, <2>3, <2>4
  <1>12. ASSUME NEW p \in DOMAIN plan, NEW e \in Execution, Move(p, e) PROVE LoopShape'
      BY <1>12 DEF Move
  <1>13. ASSUME NEW approved \in BOOLEAN, ProvideAskUserResult(approved) PROVE LoopShape'
      BY <1>13, <1>0, OpenAnswered DEF ProvideAskUserResult
  <1>14. ASSUME NEW r \in DOMAIN receipts, ReceiptExpires(r) PROVE LoopShape'
      BY <1>14 DEF ReceiptExpires
  <1>15. CASE UNCHANGED vars
      BY <1>15 DEF vars
  <1> QED
      BY <1>1, <1>2, <1>3, <1>4, <1>5, <1>6, <1>7, <1>8, <1>9, <1>10, <1>11,
      <1>12, <1>13, <1>14, <1>15, StepCases

\* Every step keeps which calls have their result.
LEMMA BatchAnsweredStep ==
    ASSUME TypeOK, BatchInv, [Next]_vars
    PROVE  BatchAnswered'
  <1>0. /\ DOMAIN plan = 1 .. Len(plan) /\ Len(plan) \in Nat
        /\ DOMAIN open = 1 .. Len(open) /\ Len(open) \in Nat
        /\ DOMAIN exec = 1 .. Len(plan) /\ index \in Nat
      BY BatchDomains DEF BatchInv
  <1>inv. BatchAnswered
      BY DEF BatchInv
  <1> USE <1>inv
  <1> USE DEF BatchAnswered, loopVars, batchVars, factVars
  <1>1. ASSUME StartRun PROVE BatchAnswered'

      BY <1>1, StartEffect
  <1>2. ASSUME Cancel PROVE BatchAnswered'
      BY <1>2 DEF Cancel
  <1>3. ASSUME Leave PROVE BatchAnswered'

      BY <1>3, LeaveEffect
  <1>4. ASSUME Suspended PROVE BatchAnswered'

      BY <1>4, SuspendedEffect
  <1>5. ASSUME Send PROVE BatchAnswered'
      BY <1>5 DEF Send
  <1>6. ASSUME AskAgain PROVE BatchAnswered'
      BY <1>6 DEF AskAgain
  <1>7. ASSUME GoOn PROVE BatchAnswered'
      BY <1>7 DEF GoOn
  <1>8. ASSUME BatchDone PROVE BatchAnswered'

    <2>1. phase = "batch" /\ index > Len(plan) /\ phase' = "loop" /\ open' = open
        BY <1>8 DEF BatchDone
    <2>2. Len(open) = Len(plan)
        BY <2>1 DEF BatchInv, LoopShape
    <2> QED  BY <1>0, <2>1, <2>2
  <1>9. ASSUME AnswerHere PROVE BatchAnswered'

    <2>1. index' = index + 1 /\ phase = "batch" /\ phase' \in {"batch", "final"}
        BY <1>9 DEF AnswerHere, Reached
    <2>2. open' = [open EXCEPT ![index] = 1]
        BY <1>9 DEF AnswerHere
    <2> QED  BY <1>0, <2>1, <2>2
  <1>10. ASSUME QueueRun PROVE BatchAnswered'
      BY <1>10 DEF QueueRun, Reached, Here
  <1>11. ASSUME NEW calls \in Batches, NEW checks, PlanBatch(calls, checks) PROVE BatchAnswered'

    <2>1. phase' = "batch" /\ index' = 1
        BY <1>11 DEF PlanBatch
    <2>2. DOMAIN open' = 1 .. Len(plan')
        BY <1>11, PlanBatchEffect
    <2> QED  BY <2>1, <2>2
  <1>12. ASSUME NEW p \in DOMAIN plan, NEW e \in Execution, Move(p, e) PROVE BatchAnswered'

      BY <1>12, MoveEffect
  <1>13. ASSUME NEW approved \in BOOLEAN, ProvideAskUserResult(approved) PROVE BatchAnswered'
      BY <1>13 DEF ProvideAskUserResult
  <1>14. ASSUME NEW r \in DOMAIN receipts, ReceiptExpires(r) PROVE BatchAnswered'
      BY <1>14 DEF ReceiptExpires
  <1>15. CASE UNCHANGED vars
      BY <1>15 DEF vars
  <1> QED
      BY <1>1, <1>2, <1>3, <1>4, <1>5, <1>6, <1>7, <1>8, <1>9, <1>10, <1>11,
      <1>12, <1>13, <1>14, <1>15, StepCases

\* Every step keeps that only what was admitted is executed.
LEMMA AdmittedStep ==
    ASSUME TypeOK, BatchInv, [Next]_vars
    PROVE  Admitted'
  <1>0. /\ DOMAIN plan = 1 .. Len(plan) /\ Len(plan) \in Nat
        /\ DOMAIN open = 1 .. Len(open) /\ Len(open) \in Nat
        /\ DOMAIN exec = 1 .. Len(plan) /\ index \in Nat
      BY BatchDomains DEF BatchInv
  <1>inv. Admitted
      BY DEF BatchInv
  <1> USE <1>inv
  <1> USE DEF Admitted, loopVars, batchVars, factVars
  <1>1. ASSUME StartRun PROVE Admitted'

      BY <1>1, StartEffect
  <1>2. ASSUME Cancel PROVE Admitted'
      BY <1>2 DEF Cancel
  <1>3. ASSUME Leave PROVE Admitted'

      BY <1>3, LeaveEffect
  <1>4. ASSUME Suspended PROVE Admitted'

      BY <1>4, <1>0, SuspendedEffect DEF Idle
  <1>5. ASSUME Send PROVE Admitted'
      BY <1>5 DEF Send
  <1>6. ASSUME AskAgain PROVE Admitted'
      BY <1>6 DEF AskAgain
  <1>7. ASSUME GoOn PROVE Admitted'
      BY <1>7 DEF GoOn
  <1>8. ASSUME BatchDone PROVE Admitted'
      BY <1>8, EmptySeq DEF BatchDone
  <1>9. ASSUME AnswerHere PROVE Admitted'
      BY <1>9 DEF AnswerHere, Reached
  <1>10. ASSUME QueueRun PROVE Admitted'

    <2>1. plan' = plan
        BY <1>10 DEF QueueRun
    <2>2. ASSUME NEW p \in DOMAIN plan, exec'[p] # exec[p] PROVE plan[p].safe
      <3>1. p >= index /\ \A q \in index .. p : plan[q].safe
          BY <1>10, <2>2, QueueEffect
      <3> QED  BY <1>0, <3>1
    <2>3. ASSUME NEW p \in DOMAIN plan, exec'[p].st # "none"
          PROVE  plan[p].kind = "allow" /\ plan[p].call.tool \notin Asking
      <3>1. CASE exec'[p] = exec[p]
          BY <2>3, <3>1
      <3>2. CASE plan[p].safe
          BY <1>10, <3>2, QueueEffect
      <3> QED  BY <2>2, <3>1, <3>2
    <2> QED  BY <2>1, <2>3
  <1>11. ASSUME NEW calls \in Batches, NEW checks, PlanBatch(calls, checks) PROVE Admitted'

    <2>1. /\ DOMAIN plan' = 1 .. Len(plan') /\ exec' = [p \in 1 .. Len(plan') |-> Idle]
          /\ \A p \in DOMAIN plan' :
               plan'[p].safe => plan'[p].kind = "allow" /\ plan'[p].call.tool \in Safe
          /\ (\E p \in DOMAIN plan' : plan'[p].call.tool \in Asking) => Len(plan') = 1
        BY <1>11, PlanBatchEffect
    <2>2. \A p \in DOMAIN plan' : exec'[p].st = "none"
        BY <2>1 DEF Idle
    <2> QED  BY <2>1, <2>2
  <1>12. ASSUME NEW p \in DOMAIN plan, NEW e \in Execution, Move(p, e) PROVE Admitted'

    <2>1. /\ plan' = plan
          /\ plan[p].kind = "allow" /\ plan[p].call.tool \notin Asking
          /\ \A q \in DOMAIN plan : q # p => exec'[q] = exec[q]
        BY <1>12, MoveEffect
    <2> QED  BY <2>1
  <1>13. ASSUME NEW approved \in BOOLEAN, ProvideAskUserResult(approved) PROVE Admitted'
      BY <1>13 DEF ProvideAskUserResult
  <1>14. ASSUME NEW r \in DOMAIN receipts, ReceiptExpires(r) PROVE Admitted'
      BY <1>14 DEF ReceiptExpires
  <1>15. CASE UNCHANGED vars
      BY <1>15 DEF vars
  <1> QED
      BY <1>1, <1>2, <1>3, <1>4, <1>5, <1>6, <1>7, <1>8, <1>9, <1>10, <1>11,
      <1>12, <1>13, <1>14, <1>15, StepCases

\* Every step keeps where an execution can be under way.
LEMMA BatchOrderStep ==
    ASSUME TypeOK, BatchInv, [Next]_vars
    PROVE  BatchOrder'
  <1>0. /\ DOMAIN plan = 1 .. Len(plan) /\ Len(plan) \in Nat
        /\ DOMAIN open = 1 .. Len(open) /\ Len(open) \in Nat
        /\ DOMAIN exec = 1 .. Len(plan) /\ index \in Nat
      BY BatchDomains DEF BatchInv
  <1>inv. BatchOrder
      BY DEF BatchInv
  <1> USE <1>inv
  <1> USE DEF BatchOrder, Busy, loopVars, batchVars, factVars
  <1>1. ASSUME StartRun PROVE BatchOrder'

      BY <1>1, StartEffect
  <1>2. ASSUME Cancel PROVE BatchOrder'
      BY <1>2 DEF Cancel
  <1>3. ASSUME Leave PROVE BatchOrder'

      BY <1>3, LeaveEffect
  <1>4. ASSUME Suspended PROVE BatchOrder'

    <2>1. /\ plan' = plan /\ exec' = [p \in 1 .. Len(plan) |-> Idle]
        BY <1>4, SuspendedEffect
    <2>2. \A p \in DOMAIN plan : exec'[p].st = "none" /\ exec'[p].tries = 0
        BY <1>0, <2>1 DEF Idle
    <2> QED  BY <2>1, <2>2
  <1>5. ASSUME Send PROVE BatchOrder'
      BY <1>5 DEF Send
  <1>6. ASSUME AskAgain PROVE BatchOrder'
      BY <1>6 DEF AskAgain
  <1>7. ASSUME GoOn PROVE BatchOrder'
      BY <1>7 DEF GoOn
  <1>8. ASSUME BatchDone PROVE BatchOrder'
      BY <1>8, EmptySeq DEF BatchDone
  <1>9. ASSUME AnswerHere PROVE BatchOrder'

    <2>1. /\ phase = "batch" /\ index \in DOMAIN plan /\ phase' \in {"batch", "final"}
          /\ index' = index + 1 /\ plan' = plan /\ exec' = exec
          /\ exec[index].st \notin Busy
        BY <1>9 DEF AnswerHere, Reached
    <2>2. ASSUME NEW p \in DOMAIN plan
          PROVE  /\ p < index + 1 => exec[p].st \notin Busy
                 /\ p > index + 1 /\ exec[p].st # "none" => \A q \in index + 1 .. p : plan[q].safe
                 /\ p >= index + 1 /\ exec[p].st # "none" => plan[p].safe
      <3>1. p < index + 1 => p < index \/ p = index
          BY <1>0
      <3>2. p >= index + 1 => p > index
          BY <1>0
      <3>3. ASSUME p > index, exec[p].st # "none" PROVE \A q \in index .. p : plan[q].safe
          BY <3>3
      <3>4. ASSUME p > index, exec[p].st # "none" PROVE plan[p].safe /\ \A q \in index + 1 .. p : plan[q].safe
          BY <1>0, <3>3, <3>4
      <3> QED  BY <1>0, <2>1, <3>1, <3>2, <3>4
    <2> QED  BY <2>1, <2>2
  <1>10. ASSUME QueueRun PROVE BatchOrder'

    <2>1. /\ phase = "batch" /\ UNCHANGED <<phase, plan, index>> /\ index \in DOMAIN plan
        BY <1>10, QueueEffect
    <2>2. ASSUME NEW p \in DOMAIN plan
          PROVE  /\ p < index => exec'[p].st \notin Busy
                 /\ p > index /\ exec'[p].st # "none" => \A q \in index .. p : plan[q].safe
      <3>1. CASE exec'[p] = exec[p]
          BY <3>1
      <3>2. CASE p >= index /\ \A q \in index .. p : plan[q].safe
          BY <1>0, <2>1, <3>2
      <3> QED  BY <1>10, <3>1, <3>2, QueueEffect
    <2> QED  BY <2>1, <2>2
  <1>11. ASSUME NEW calls \in Batches, NEW checks, PlanBatch(calls, checks) PROVE BatchOrder'

    <2>1. /\ DOMAIN plan' = 1 .. Len(plan') /\ exec' = [p \in 1 .. Len(plan') |-> Idle]
        BY <1>11, PlanBatchEffect
    <2>2. \A p \in DOMAIN plan' : exec'[p].st = "none" /\ exec'[p].tries = 0
        BY <2>1 DEF Idle
    <2>3. phase' = "batch"
        BY <1>11 DEF PlanBatch
    <2> QED  BY <2>2, <2>3
  <1>12. ASSUME NEW p \in DOMAIN plan, NEW e \in Execution, Move(p, e) PROVE BatchOrder'

    <2>1. /\ phase = "batch" /\ UNCHANGED <<phase, plan, index>> /\ p >= index
          /\ \A q \in DOMAIN plan : q # p => exec'[q] = exec[q]
          /\ exec[p].st = "none" => p = index
        BY <1>12, MoveEffect
    <2>2. p > index => \A q \in index .. p : plan[q].safe
        BY <1>0, <2>1
    <2>3. ASSUME NEW q \in DOMAIN plan
          PROVE  /\ q < index => exec'[q].st \notin Busy
                 /\ q > index /\ exec'[q].st # "none" => \A i \in index .. q : plan[i].safe
      <3>1. CASE q = p
          BY <1>0, <2>1, <2>2, <3>1
      <3>2. CASE q # p
          BY <2>1, <3>2
      <3> QED  BY <3>1, <3>2
    <2> QED  BY <2>1, <2>3
  <1>13. ASSUME NEW approved \in BOOLEAN, ProvideAskUserResult(approved) PROVE BatchOrder'
      BY <1>13 DEF ProvideAskUserResult
  <1>14. ASSUME NEW r \in DOMAIN receipts, ReceiptExpires(r) PROVE BatchOrder'
      BY <1>14 DEF ReceiptExpires
  <1>15. CASE UNCHANGED vars
      BY <1>15 DEF vars
  <1> QED
      BY <1>1, <1>2, <1>3, <1>4, <1>5, <1>6, <1>7, <1>8, <1>9, <1>10, <1>11,
      <1>12, <1>13, <1>14, <1>15, StepCases

\* Every step keeps that only idempotent calls are begun again.
LEMMA RetriesStep ==
    ASSUME TypeOK, BatchInv, [Next]_vars
    PROVE  RetriesIdempotent'
  <1>0. /\ DOMAIN plan = 1 .. Len(plan) /\ Len(plan) \in Nat
        /\ DOMAIN open = 1 .. Len(open) /\ Len(open) \in Nat
        /\ DOMAIN exec = 1 .. Len(plan) /\ index \in Nat
      BY BatchDomains DEF BatchInv
  <1>inv. RetriesIdempotent
      BY DEF BatchInv
  <1> USE <1>inv
  <1> USE DEF RetriesIdempotent, loopVars, batchVars, factVars
  <1>1. ASSUME StartRun PROVE RetriesIdempotent'

      BY <1>1, StartEffect
  <1>2. ASSUME Cancel PROVE RetriesIdempotent'
      BY <1>2 DEF Cancel
  <1>3. ASSUME Leave PROVE RetriesIdempotent'

      BY <1>3, LeaveEffect
  <1>4. ASSUME Suspended PROVE RetriesIdempotent'

    <2>1. /\ plan' = plan /\ exec' = [p \in 1 .. Len(plan) |-> Idle]
        BY <1>4, SuspendedEffect
    <2>2. \A p \in DOMAIN plan : exec'[p].st = "none" /\ exec'[p].tries = 0
        BY <1>0, <2>1 DEF Idle
    <2> QED  BY <2>1, <2>2
  <1>5. ASSUME Send PROVE RetriesIdempotent'
      BY <1>5 DEF Send
  <1>6. ASSUME AskAgain PROVE RetriesIdempotent'
      BY <1>6 DEF AskAgain
  <1>7. ASSUME GoOn PROVE RetriesIdempotent'
      BY <1>7 DEF GoOn
  <1>8. ASSUME BatchDone PROVE RetriesIdempotent'
      BY <1>8, EmptySeq DEF BatchDone
  <1>9. ASSUME AnswerHere PROVE RetriesIdempotent'
      BY <1>9 DEF AnswerHere, Reached
  <1>10. ASSUME QueueRun PROVE RetriesIdempotent'

    <2>1. plan' = plan
        BY <1>10, QueueEffect
    <2>2. \A p \in DOMAIN plan :
            exec'[p] = exec[p] \/ (exec'[p].st = "queued" /\ exec'[p].tries = exec[p].tries)
        BY <1>10, QueueEffect
    <2> QED  BY <2>1, <2>2
  <1>11. ASSUME NEW calls \in Batches, NEW checks, PlanBatch(calls, checks) PROVE RetriesIdempotent'

    <2>1. /\ DOMAIN plan' = 1 .. Len(plan') /\ exec' = [p \in 1 .. Len(plan') |-> Idle]
        BY <1>11, PlanBatchEffect
    <2>2. \A p \in DOMAIN plan' : exec'[p].st = "none" /\ exec'[p].tries = 0
        BY <2>1 DEF Idle
    <2>3. phase' = "batch"
        BY <1>11 DEF PlanBatch
    <2> QED  BY <2>2, <2>3
  <1>12. ASSUME NEW p \in DOMAIN plan, NEW e \in Execution, Move(p, e) PROVE RetriesIdempotent'

    <2>1. /\ plan' = plan /\ exec'[p] = e
          /\ \A q \in DOMAIN plan : q # p => exec'[q] = exec[q]
        BY <1>12, MoveEffect
    <2>2. /\ e.st = "backoff" => e.tries < MaxAttempts
          /\ e.st = "backoff" \/ e.tries > 1 => plan[p].call.tool \in Idempotent
        BY <1>12 DEF Move
    <2> QED  BY <2>1, <2>2
  <1>13. ASSUME NEW approved \in BOOLEAN, ProvideAskUserResult(approved) PROVE RetriesIdempotent'
      BY <1>13 DEF ProvideAskUserResult
  <1>14. ASSUME NEW r \in DOMAIN receipts, ReceiptExpires(r) PROVE RetriesIdempotent'
      BY <1>14 DEF ReceiptExpires
  <1>15. CASE UNCHANGED vars
      BY <1>15 DEF vars
  <1> QED
      BY <1>1, <1>2, <1>3, <1>4, <1>5, <1>6, <1>7, <1>8, <1>9, <1>10, <1>11,
      <1>12, <1>13, <1>14, <1>15, StepCases

LEMMA BatchStep ==
    ASSUME TypeOK, BatchInv, [Next]_vars
    PROVE  BatchInv'
  BY LoopShapeStep, BatchAnsweredStep, AdmittedStep, BatchOrderStep, RetriesStep DEF BatchInv

-----------------------------------------------------------------------------
(* What the session has promised.                                          *)

\* A receipt pays for one commit: those that paid before are used up already.
LEMMA SpendEffect ==
    ASSUME FactType, ReceiptsSpent, ApprovalWorthOneCommit, NEW c, Spends(c)
    PROVE  ReceiptsSpent' /\ ApprovalWorthOneCommit'
  <1> DEFINE paid == [receipt |-> c.receipt, auth |-> c.auth,
                      live |-> receipts[c.receipt].st = "live"]
             n == Len(spent) + 1
  <1>1. /\ c.receipt \in DOMAIN receipts /\ receipts[c.receipt].st = "live"
        /\ receipts[c.receipt].auth = c.auth
        /\ receipts' = [receipts EXCEPT ![c.receipt].st = "used"]
        /\ spent' = Append(spent, paid)
      BY DEF Spends, VerifyApproval
  <1>2. receipts \in Seq(Receipt) /\ spent \in Seq(Commit)
      BY DEF FactType
  <1>3. receipts[c.receipt] \in Receipt
      BY <1>1, <1>2, ElementOfSeq, LenProperties
  <1>4. /\ DOMAIN receipts' = DOMAIN receipts
        /\ \A r \in DOMAIN receipts : r # c.receipt => receipts'[r] = receipts[r]
        /\ receipts'[c.receipt].st = "used" /\ receipts'[c.receipt].auth = c.auth
      BY <1>1, <1>3 DEF Receipt
  <1>5. /\ n \in Nat /\ DOMAIN spent = 1 .. Len(spent) /\ Len(spent) \in Nat
        /\ DOMAIN spent' = 1 .. n
        /\ \A i \in DOMAIN spent : spent'[i] = spent[i]
        /\ spent'[n] = paid
      BY <1>1, <1>2, AppendProperties, LenProperties
  <1>6. paid.receipt = c.receipt /\ paid.auth = c.auth /\ paid.live
      BY <1>1
  <1> HIDE DEF paid
  <1>7. \A i \in DOMAIN spent' : i \in DOMAIN spent \/ i = n
      BY <1>5
  <1>8. \A i \in DOMAIN spent :
            /\ spent[i].receipt # c.receipt /\ spent[i].receipt \in DOMAIN receipts
            /\ receipts[spent[i].receipt].st = "used"
            /\ spent[i].live /\ receipts[spent[i].receipt].auth = spent[i].auth
      BY <1>1 DEF ReceiptsSpent, ApprovalWorthOneCommit
  <1> HIDE DEF n
  <1>9. ASSUME NEW i \in DOMAIN spent'
        PROVE  /\ spent'[i].receipt \in DOMAIN receipts'
               /\ receipts'[spent'[i].receipt].st = "used"
               /\ spent'[i].live
               /\ receipts'[spent'[i].receipt].auth = spent'[i].auth
    <2>1. CASE i \in DOMAIN spent
        BY <1>4, <1>5, <1>8, <2>1
    <2>2. CASE i = n
        BY <1>1, <1>4, <1>5, <1>6, <2>2
    <2> QED  BY <1>7, <2>1, <2>2
  <1>10. ASSUME NEW i \in DOMAIN spent', NEW j \in DOMAIN spent',
                spent'[i].receipt = spent'[j].receipt
         PROVE  i = j
    <2>1. CASE i \in DOMAIN spent /\ j \in DOMAIN spent
        BY <1>5, <1>10, <2>1 DEF ApprovalWorthOneCommit
    <2>2. CASE i = n \/ j = n
        BY <1>5, <1>6, <1>7, <1>8, <1>10, <2>2
    <2> QED  BY <1>7, <2>1, <2>2
  <1> QED  BY <1>9, <1>10 DEF ReceiptsSpent, ApprovalWorthOneCommit

\* Receipts that keep what was spent keep the promise.
LEMMA ReceiptsKept ==
    ASSUME ReceiptsSpent, ApprovalWorthOneCommit, spent' = spent,
           DOMAIN receipts \subseteq DOMAIN receipts',
           \A r \in DOMAIN receipts : receipts[r].st = "used" => receipts'[r] = receipts[r]
    PROVE  ReceiptsSpent' /\ ApprovalWorthOneCommit'
  BY DEF ReceiptsSpent, ApprovalWorthOneCommit

\* Every step keeps what an approval is worth.
LEMMA SpentStep ==
    ASSUME TypeOK, BatchInv, ReceiptsSpent, ApprovalWorthOneCommit, [Next]_vars
    PROVE  ReceiptsSpent' /\ ApprovalWorthOneCommit'
  <1>1. ASSUME StartRun PROVE ReceiptsSpent' /\ ApprovalWorthOneCommit'

    <2>1. UNCHANGED <<receipts, spent>>
        BY <1>1 DEF StartRun, factVars
    <2> QED  BY <2>1, ReceiptsKept
  <1>2. ASSUME Cancel PROVE ReceiptsSpent' /\ ApprovalWorthOneCommit'

    <2>1. UNCHANGED <<receipts, spent>>
        BY <1>2 DEF Cancel, factVars
    <2> QED  BY <2>1, ReceiptsKept
  <1>3. ASSUME Leave PROVE ReceiptsSpent' /\ ApprovalWorthOneCommit'

      BY <1>3, LeaveEffect, ReceiptsKept
  <1>4. ASSUME Suspended PROVE ReceiptsSpent' /\ ApprovalWorthOneCommit'

      BY <1>4, SuspendedEffect, ReceiptsKept
  <1>5. ASSUME Send PROVE ReceiptsSpent' /\ ApprovalWorthOneCommit'

    <2>1. UNCHANGED <<receipts, spent>>
        BY <1>5 DEF Send, factVars
    <2> QED  BY <2>1, ReceiptsKept
  <1>6. ASSUME AskAgain PROVE ReceiptsSpent' /\ ApprovalWorthOneCommit'

    <2>1. UNCHANGED <<receipts, spent>>
        BY <1>6 DEF AskAgain, factVars
    <2> QED  BY <2>1, ReceiptsKept
  <1>7. ASSUME GoOn PROVE ReceiptsSpent' /\ ApprovalWorthOneCommit'

    <2>1. UNCHANGED <<receipts, spent>>
        BY <1>7 DEF GoOn, factVars
    <2> QED  BY <2>1, ReceiptsKept
  <1>8. ASSUME BatchDone PROVE ReceiptsSpent' /\ ApprovalWorthOneCommit'

    <2>1. UNCHANGED <<receipts, spent>>
        BY <1>8 DEF BatchDone, factVars
    <2> QED  BY <2>1, ReceiptsKept
  <1>9. ASSUME AnswerHere PROVE ReceiptsSpent' /\ ApprovalWorthOneCommit'

    <2>1. UNCHANGED <<receipts, spent>>
        BY <1>9 DEF AnswerHere, factVars
    <2> QED  BY <2>1, ReceiptsKept
  <1>10. ASSUME QueueRun PROVE ReceiptsSpent' /\ ApprovalWorthOneCommit'

    <2>1. UNCHANGED <<receipts, spent>>
        BY <1>10 DEF QueueRun, factVars
    <2> QED  BY <2>1, ReceiptsKept
  <1>11. ASSUME NEW calls \in Batches, NEW checks, PlanBatch(calls, checks) PROVE ReceiptsSpent' /\ ApprovalWorthOneCommit'

    <2>1. UNCHANGED <<receipts, spent>>
        BY <1>11 DEF PlanBatch, factVars
    <2> QED  BY <2>1, ReceiptsKept
  <1>12. ASSUME NEW p \in DOMAIN plan, NEW e \in Execution, Move(p, e) PROVE ReceiptsSpent' /\ ApprovalWorthOneCommit'

    <2>1. CASE UNCHANGED <<receipts, spent>>
        BY <2>1, ReceiptsKept
    <2>2. CASE Spends(plan[p].call)
        BY <2>2, SpendEffect DEF TypeOK
    <2> QED  BY <1>12, <2>1, <2>2 DEF Move
  <1>13. ASSUME NEW approved \in BOOLEAN, ProvideAskUserResult(approved) PROVE ReceiptsSpent' /\ ApprovalWorthOneCommit'

    <2>1. spent' = spent
        BY <1>13 DEF ProvideAskUserResult
    <2>2. CASE approved
      <3>1. receipts' = Append(receipts, [auth |-> plan[1].call.auth, st |-> "live"])
          BY <1>13, <2>2 DEF ProvideAskUserResult
      <3>2. receipts \in Seq(Receipt) /\ receipts' \in Seq(Receipt)
          BY FactTypeStep DEF TypeOK, FactType
      <3>3. DOMAIN receipts = 1 .. Len(receipts) /\ Len(receipts) \in Nat
          BY <3>2, LenProperties
      <3>4. /\ DOMAIN receipts' = 1 .. (Len(receipts) + 1)
            /\ \A r \in DOMAIN receipts : receipts'[r] = receipts[r]
          BY <3>1, <3>2, <3>3
      <3> QED  BY <2>1, <3>3, <3>4, ReceiptsKept
    <2>3. CASE ~approved
        BY <1>13, <2>1, <2>3, ReceiptsKept DEF ProvideAskUserResult
    <2> QED  BY <2>2, <2>3
  <1>14. ASSUME NEW r \in DOMAIN receipts, ReceiptExpires(r) PROVE ReceiptsSpent' /\ ApprovalWorthOneCommit'

    <2>1. /\ spent' = spent /\ receipts[r].st = "live"
          /\ receipts' = [receipts EXCEPT ![r].st = "expired"]
        BY <1>14 DEF ReceiptExpires
    <2>2. /\ DOMAIN receipts' = DOMAIN receipts
          /\ \A s \in DOMAIN receipts : s # r => receipts'[s] = receipts[s]
        BY <2>1
    <2> QED  BY <2>1, <2>2, ReceiptsKept
  <1>15. CASE UNCHANGED vars
      BY <1>15, ReceiptsKept DEF vars, factVars
  <1> QED
      BY <1>1, <1>2, <1>3, <1>4, <1>5, <1>6, <1>7, <1>8, <1>9, <1>10, <1>11,
      <1>12, <1>13, <1>14, <1>15, StepCases

\* Every step keeps that a run settles once.
LEMMA SettledStep ==
    ASSUME TypeOK, BatchInv, SettledOnce, [Next]_vars
    PROVE  SettledOnce'
  <1>0. /\ DOMAIN plan = 1 .. Len(plan) /\ Len(plan) \in Nat
        /\ DOMAIN open = 1 .. Len(open) /\ Len(open) \in Nat
        /\ DOMAIN exec = 1 .. Len(plan) /\ index \in Nat
      BY BatchDomains DEF BatchInv
  <1> USE DEF SettledOnce, loopVars, batchVars, factVars
  <1>1. ASSUME StartRun PROVE SettledOnce'

      BY <1>1, StartEffect
  <1>2. ASSUME Cancel PROVE SettledOnce'
      BY <1>2 DEF Cancel
  <1>3. ASSUME Leave PROVE SettledOnce'

      BY <1>3, LeaveEffect
  <1>4. ASSUME Suspended PROVE SettledOnce'

      BY <1>4, SuspendedEffect
  <1>5. ASSUME Send PROVE SettledOnce'
      BY <1>5 DEF Send
  <1>6. ASSUME AskAgain PROVE SettledOnce'
      BY <1>6 DEF AskAgain
  <1>7. ASSUME GoOn PROVE SettledOnce'
      BY <1>7 DEF GoOn
  <1>8. ASSUME BatchDone PROVE SettledOnce'
      BY <1>8 DEF BatchDone
  <1>9. ASSUME AnswerHere PROVE SettledOnce'
      BY <1>9 DEF AnswerHere, Reached
  <1>10. ASSUME QueueRun PROVE SettledOnce'
      BY <1>10 DEF QueueRun, Reached, Here
  <1>11. ASSUME NEW calls \in Batches, NEW checks, PlanBatch(calls, checks) PROVE SettledOnce'

      BY <1>11 DEF PlanBatch
  <1>12. ASSUME NEW p \in DOMAIN plan, NEW e \in Execution, Move(p, e) PROVE SettledOnce'

      BY <1>12, MoveEffect
  <1>13. ASSUME NEW approved \in BOOLEAN, ProvideAskUserResult(approved) PROVE SettledOnce'

    <2>1. /\ phase = "idle" /\ plan # <<>> /\ plan[1].call.tool \in Asking
          /\ open' = [open EXCEPT ![1] = 1] /\ UNCHANGED <<phase, runs, ended>>
        BY <1>13 DEF ProvideAskUserResult
    <2>2. 1 \in DOMAIN plan
        BY <1>0, <2>1, EmptySeq DEF TypeOK, BatchType
    <2>3. Len(plan) = 1
        BY <2>1, <2>2 DEF BatchInv, Admitted
    <2>4. Len(open) = Len(plan)
        BY <2>1 DEF BatchInv, LoopShape
    <2>5. DOMAIN open' = 1 .. 1 /\ open'[1] = 1
        BY <1>0, <2>1, <2>3, <2>4
    <2>6. \A p \in DOMAIN open' : open'[p] # 0
        BY <2>5
    <2> QED  BY <2>1, <2>6
  <1>14. ASSUME NEW r \in DOMAIN receipts, ReceiptExpires(r) PROVE SettledOnce'
      BY <1>14 DEF ReceiptExpires
  <1>15. CASE UNCHANGED vars
      BY <1>15 DEF vars
  <1> QED
      BY <1>1, <1>2, <1>3, <1>4, <1>5, <1>6, <1>7, <1>8, <1>9, <1>10, <1>11,
      <1>12, <1>13, <1>14, <1>15, StepCases

-----------------------------------------------------------------------------
(* The theorems.                                                           *)

LEMMA TurnInit ==
    ASSUME Init
    PROVE  TurnInv
  <1>1. TypeOK
    <2>1. LoopType
      <3>1. ended \in [count : 0..1, last : Terminal \cup {"none"}]
          BY DEF Init
      <3>2. /\ phase = "idle" /\ cancelled = FALSE
            /\ iter = 0 /\ attempt = 0 /\ rejects = 0 /\ runs = 0
          BY DEF Init
      <3>3. /\ 0 \in 0 .. (MaxIterations + 1) /\ 0 \in 0 .. MaxAttempts
            /\ 0 \in 0 .. MaxMarkupRejects /\ 0 \in 0 .. MaxRuns
          BY TurnAssumption
      <3>4. cancelled \in BOOLEAN /\ phase \in {"idle", "loop", "llm", "batch", "final"}
          BY <3>2
      <3> QED  BY <3>1, <3>2, <3>3, <3>4 DEF LoopType
    <2>2. BatchType
      <3>1. plan \in Seq(PlannedCall) /\ open \in Seq(0 .. 1) /\ Len(plan) = 0 /\ Len(open) = 0
          BY EmptySeq DEF Init
      <3>2. index = 0 /\ pending = 0
          BY DEF Init
      <3> QED  BY <3>1, <3>2, TurnAssumption DEF BatchType
    <2>3. ExecType
        BY EmptySeq DEF Init, ExecType
    <2>4. FactType
        BY EmptySeq DEF Init, FactType
    <2> QED  BY <2>1, <2>2, <2>3, <2>4 DEF TypeOK
  <1>2. BatchInv
      BY EmptySeq DEF Init, BatchInv, LoopShape, BatchAnswered, Admitted, BatchOrder,
         RetriesIdempotent
  <1>3. ReceiptsSpent /\ ApprovalWorthOneCommit /\ SettledOnce
      BY DEF Init, ReceiptsSpent, ApprovalWorthOneCommit, SettledOnce
  <1> QED  BY <1>1, <1>2, <1>3 DEF TurnInv

\* TurnInv is inductive: it holds when the session is created and every step of
\* Run, of its futures and of the user keeps it.
THEOREM TurnInvariant == Spec => []TurnInv
  <1>1. Init => TurnInv
      BY TurnInit
  <1>2. TurnInv /\ [Next]_vars => TurnInv'
      BY TypeStep, BatchStep, SpentStep, SettledStep DEF TurnInv
  <1> QED  BY <1>1, <1>2, PTL DEF Spec

\* The variables keep their types: the loop's counters stay within the
\* configured bounds and there is one execution per planned call.
THEOREM TurnTypeCorrect == Spec => []TypeOK
  <1>1. TurnInv => TypeOK
      BY DEF TurnInv
  <1> QED  BY <1>1, TurnInvariant, PTL

\* However a turn ended - worked through, cancelled in the middle, suspended and
\* answered, suspended and abandoned - the next request of the main loop carries a
\* result for each of its calls: every exit runs repairDanglingToolCalls and every
\* entry clearAbandonedSuspension.  The requests of finalResponseAfterFinalize are
\* sent in the middle of a batch: they carry a result for each call up to the
\* delivery, and what stands behind it is all that can be missing.
THEOREM RequestsPairedButBehindDelivery == Spec => []RequestIsPaired
  <1>1. ASSUME TurnInv PROVE RequestIsPaired
    <2>1. index \in Nat /\ \A p \in DOMAIN open : p \in Nat
        BY <1>1, BatchDomains DEF TurnInv, BatchInv
    <2> QED  BY <1>1, <2>1 DEF TurnInv, BatchInv, BatchAnswered, RequestIsPaired
  <1> QED  BY <1>1, TurnInvariant, PTL

\* What is under way and not parallel-safe is the call the loop is at.
LEMMA ExclusiveIsHere ==
    ASSUME TypeOK, BatchInv, NEW p \in DOMAIN exec, exec[p].st \in Busy, ~plan[p].safe
    PROVE  phase = "batch" /\ p = index /\ p \in DOMAIN plan
  <1>1. /\ DOMAIN plan = DOMAIN exec /\ DOMAIN exec = 1 .. Len(plan)
        /\ index \in Nat /\ Len(plan) \in Nat
      BY BatchDomains DEF BatchInv
  <1>2. p >= index
      BY <1>1 DEF BatchInv, BatchOrder
  <1>3. phase = "batch"
      BY <1>1, <1>2 DEF BatchInv, BatchOrder, TypeOK, LoopType, Busy
  <1>4. ~(p > index)
    <2>1. p > index => p \in index .. p
        BY <1>1
    <2> QED  BY <1>1, <2>1 DEF BatchInv, BatchOrder, Busy
  <1> QED  BY <1>1, <1>2, <1>3, <1>4

\* An exclusive call is a barrier in every batch: startParallelRun never reaches
\* past it, and the loop does not reach it while a future is under way.
THEOREM ExclusiveCallIsAlone == Spec => []ExclusiveIsAlone
  <1>1. TurnInv => ExclusiveIsAlone
    <2> SUFFICES ASSUME TurnInv, NEW p \in DOMAIN exec, NEW q \in DOMAIN exec,
                        p # q, exec[p].st = "running", ~plan[p].safe
                 PROVE  exec[q].st \notin Busy
        BY DEF ExclusiveIsAlone
    <2>1. TypeOK /\ BatchInv /\ exec[p].st \in Busy
        BY DEF TurnInv, Busy
    <2>2. p = index /\ p \in DOMAIN plan
        BY <2>1, ExclusiveIsHere
    <2>3. /\ DOMAIN plan = DOMAIN exec /\ DOMAIN exec = 1 .. Len(plan)
          /\ index \in Nat /\ Len(plan) \in Nat
        BY <2>1, BatchDomains DEF BatchInv
    <2>4. CASE q < index
        BY <2>1, <2>3, <2>4 DEF BatchInv, BatchOrder
    <2>5. CASE q > index
      <3>1. index \in index .. q
          BY <2>3, <2>5
      <3>2. exec[q].st = "none"
          BY <2>1, <2>2, <2>3, <2>5, <3>1 DEF BatchInv, BatchOrder
      <3> QED  BY <3>2 DEF Busy
    <2> QED  BY <2>2, <2>3, <2>4, <2>5
  <1> QED  BY <1>1, TurnInvariant, PTL

\* A tool that changes state is executed at most once per call:
\* executeToolWithRetry repeats only what toolIsIdempotent admits.
THEOREM NoActionReplayed == Spec => []ActionsNeverReplayed
  <1>1. TurnInv => ActionsNeverReplayed
    <2> SUFFICES ASSUME TurnInv PROVE ActionsNeverReplayed
        OBVIOUS
    <2>1. DOMAIN exec = DOMAIN plan
        BY BatchDomains DEF TurnInv, BatchInv
    <2> QED  BY <2>1 DEF TurnInv, BatchInv, RetriesIdempotent, ActionsNeverReplayed, Idempotent
  <1> QED  BY <1>1, TurnInvariant, PTL

\* An approval is worth one commit of exactly what the user saw, however many
\* calls were admitted with its receipt and in whatever order they commit.
THEOREM ReceiptPaysOnce == Spec => []ApprovalWorthOneCommit
  <1>1. TurnInv => ApprovalWorthOneCommit
      BY DEF TurnInv
  <1> QED  BY <1>1, TurnInvariant, PTL

\* A run that is over has emitted one terminal event, and only the question it is
\* suspended on has no result.
THEOREM RunSettlesOnce == Spec => []SettledOnce
  <1>1. TurnInv => SettledOnce
      BY DEF TurnInv
  <1> QED  BY <1>1, TurnInvariant, PTL

\* A tool that changes state, once begun, is waited for until it returns: no
\* timeout, cancellation, suspension or end of the run replaces its outcome.
THEOREM NoActionAbandoned == Spec => ActionsNeverAbandoned
  <1> DEFINE Waited(p) ==
        \/ exec'[p].st = "running"
        \/ exec'[p].out \in Results
        \/ exec'[p].st = "backoff"
           /\ plan[p].call.tool \in Replayable
  <1> DEFINE Kept(p) ==
        (exec[p].st = "running" /\ plan[p].call.tool \notin Observing \cup Safe)
            => /\ p \in DOMAIN exec'
               /\ Waited(p)
  <1>1. ASSUME TurnInv, [Next]_vars, NEW p \in DOMAIN exec PROVE Kept(p)
    <2> SUFFICES ASSUME exec[p].st = "running",
                        plan[p].call.tool \notin Observing \cup Safe
                 PROVE  p \in DOMAIN exec' /\ Waited(p)
        OBVIOUS
    <2>1. TypeOK /\ BatchInv
        BY <1>1 DEF TurnInv
    <2>2. /\ DOMAIN plan = DOMAIN exec /\ DOMAIN exec = 1 .. Len(plan)
          /\ index \in Nat /\ Len(plan) \in Nat
        BY <2>1, BatchDomains DEF BatchInv
    <2>3. ~plan[p].safe
        BY <2>1, <2>2 DEF BatchInv, Admitted
    <2>4. phase = "batch" /\ p = index /\ p \in DOMAIN plan
        BY <2>1, <2>3, ExclusiveIsHere DEF Busy
    <2>5. ASSUME exec' = exec PROVE p \in DOMAIN exec' /\ exec'[p].st = "running"
        BY <2>5
    <2>6. ~StartRun /\ ~Send /\ ~AskAgain /\ ~GoOn /\ ~BatchDone /\ ~AnswerHere /\ ~QueueRun
      <3>1. ~StartRun /\ ~Send /\ ~AskAgain /\ ~GoOn
          BY <2>4 DEF StartRun, Send, AskAgain, GoOn
      <3>2. ~BatchDone
          BY <2>2, <2>4 DEF BatchDone
      <3>3. ~AnswerHere
          BY <2>4 DEF AnswerHere, Busy
      <3>4. ~QueueRun
          BY <2>3, <2>4 DEF QueueRun, Here
      <3> QED  BY <3>1, <3>2, <3>3, <3>4
    <2>7. ~Leave
        BY <2>4 DEF Leave
    <2>8. ~Suspended
        BY <2>1, <2>4, SuspendedEffect
    <2>9. \A calls \in Batches : \A checks \in [DOMAIN calls -> Checks] :
                ~PlanBatch(calls, checks)
        BY <2>4 DEF PlanBatch
    <2>10. \A approved \in BOOLEAN : ~ProvideAskUserResult(approved)
        BY <2>4 DEF ProvideAskUserResult
    <2>11. ASSUME NEW q \in DOMAIN plan, NEW e \in Execution, Move(q, e)
           PROVE  p \in DOMAIN exec' /\ Waited(p)
      <3>1. DOMAIN exec' = DOMAIN exec
          BY <2>11 DEF Move
      <3>2. CASE q = p
          BY <2>1, <2>11, <3>1, <3>2, MoveEffect DEF Move, Idempotent
      <3>3. CASE q # p
          BY <2>1, <2>4, <2>11, <3>1, <3>3, MoveEffect
      <3> QED  BY <3>2, <3>3
    <2>12. Cancel \/ (\E r \in DOMAIN receipts : ReceiptExpires(r)) \/ UNCHANGED vars => exec' = exec
        BY DEF Cancel, ReceiptExpires, vars, batchVars
    <2> QED  BY <1>1, <2>1, <2>5, <2>6, <2>7, <2>8, <2>9, <2>10, <2>11, <2>12, StepCases
  <1>2. TurnInv /\ [Next]_vars => [\A p \in DOMAIN exec : Kept(p)]_vars
      BY <1>1
  <1> QED  BY <1>2, TurnInvariant, PTL DEF Spec, ActionsNeverAbandoned
=============================================================================
