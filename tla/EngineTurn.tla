----------------------------- MODULE EngineTurn -----------------------------
(***************************************************************************)
(* One session's agent engine at the level of Engine.Run                   *)
(* (server/agent/engine.go): the request loop with its retried model call, *)
(* the tool batch of an assistant turn (planned once, admitted call by     *)
(* call, parallel-safe calls started ahead of their turn as futures),      *)
(* retries and abandonment of tool executions, suspension on a question,   *)
(* the user's answer and the authorization receipt it creates, and the     *)
(* streaks of deterministic failures.                                      *)
(*                                                                         *)
(* The conversation is represented by its last assistant turn with tool    *)
(* calls: open[p] counts the tool results recorded for its p-th call.      *)
(* Call identifiers are positions: a provider gives the calls of one turn  *)
(* different identifiers.                                                  *)
(***************************************************************************)
EXTENDS Integers, Sequences, FiniteSets

CONSTANTS
    Observing,     \* tools that declare Mode "observe"
    Safe,          \* parallel-safe tools: read-only, idempotent, no mode
    Replayable,    \* MCP tools declared idempotent and not read-only
    Acting,        \* tools that change the report or other session state
    Gated,         \* tools whose execution needs an authorization receipt
    Asking,        \* tools that suspend the run
    Delivering,    \* tools that deliver the report
    Auths,         \* action, resource and payload of an authorization
    NoAuth,        \* an ordinary question, or a tool that needs none
    Fragile,       \* bound: tools that may fail with a code of their own
    MaxBatch,      \* bound: calls in one assistant turn
    MaxRuns,       \* bound: runs of the session
    MaxReceipts,   \* bound: authorizations granted
    MaxIterations, \* MAX_MAIN_LOOP_ITERATIONS of the deployment
    MaxParallel,   \* MAX_PARALLEL_TOOL_CALLS
    Threshold,     \* MAX_REPEATED_TOOL_FAILURES
    MaxAttempts,   \* attempts of one retried call, 4 in the code
    MaxMarkupRejects  \* maxFinalMarkupRejects

Tools ==
    Observing \cup Safe \cup Replayable \cup Acting \cup Gated \cup Asking
      \cup Delivering

(* toolIsIdempotent: what declares Mode "observe" or Idempotent. An MCP    *)
(* server's readOnlyHint or idempotentHint sets the latter; only the       *)
(* former makes the tool parallel-safe.                                    *)
Idempotent == Observing \cup Safe \cup Replayable

ASSUME TurnAssumption ==
    /\ MaxBatch \in Nat \ {0} /\ MaxRuns \in Nat /\ MaxReceipts \in Nat
    /\ MaxIterations \in Nat \ {0} /\ MaxParallel \in Nat \ {0}
    /\ Threshold \in Nat \ {0} /\ MaxAttempts \in Nat \ {0}
    /\ MaxMarkupRejects \in Nat /\ NoAuth \notin Auths

Call ==
    [tool : Observing \cup Safe \cup Replayable \cup Acting \cup Delivering,
     auth : {NoAuth}, receipt : {0}]
      \cup [tool : Gated, auth : Auths, receipt : 0..MaxReceipts]
      \cup [tool : Asking, auth : Auths \cup {NoAuth}, receipt : {0}]

(* A validated batch: validateToolCallBatch lets a suspending call only    *)
(* stand alone.                                                            *)
Batches == UNION {[1..n -> Call] : n \in 1..MaxBatch}

VARIABLES
    phase,     \* where Run is: idle, loop, llm, batch, final
    cancelled, \* the run context is done
    iter,      \* main loop iteration
    attempt,   \* model attempts already made for this request
    rejects,   \* final answers rejected for raw markup
    draft,     \* ReportState.NeedsFinalize
    changed,   \* ReportState.MutationVersion is past the run's start
    told,      \* the model was told of the draft at this version
    plan,      \* planned calls: [call, kind, code, safe]
    index,     \* the call the loop is at
    exec,      \* per call: [st, tries, out]
    open,      \* results recorded per call of the last tool-call turn
    pending,   \* pendingSuspensionID: 0, or the position of the question
    receipts,  \* confirmationReceipts, in order of creation
    streak,    \* failureStreaks, one deterministic error code per tool
    runs,      \* runs started
    ended,     \* terminal events of the latest run
    spent      \* history: commits made, [receipt, auth, live]

loopVars == <<phase, cancelled, iter, attempt, rejects>>
batchVars == <<plan, index, exec, open, pending>>
factVars == <<draft, changed, told, receipts, streak, spent>>
vars == <<loopVars, batchVars, factVars, runs, ended>>

Idle == [st |-> "none", tries |-> 0, out |-> "none"]
Busy == {"queued", "running", "backoff"}
Terminal == {"completed", "error", "cancelled", "suspended"}
Codes == {"none", "repeated", "refused"}

(* What planToolCalls finds when it decodes the arguments of a call and    *)
(* probes its tool. An unknown name is refused like an unavailable tool.   *)
Checks == {"fine", "arguments", "unavailable"}

(* A planned call, its execution, an authorization receipt and a commit.   *)
PlannedCall == [call : Call, kind : {"allow", "ask", "deny"}, code : Codes,
                safe : BOOLEAN]
Execution == [st : {"none", "done"} \cup Busy, tries : 0..MaxAttempts,
              out : {"none", "ok", "failed", "error", "timeout", "ctx"}]
Receipt == [auth : Auths, st : {"live", "expired", "used"}]
Commit == [receipt : Nat, auth : Auths, live : BOOLEAN]

LoopType ==
    /\ phase \in {"idle", "loop", "llm", "batch", "final"}
    /\ cancelled \in BOOLEAN
    /\ iter \in 0..(MaxIterations + 1)
    /\ attempt \in 0..MaxAttempts
    /\ rejects \in 0..MaxMarkupRejects
    /\ runs \in 0..MaxRuns
    /\ ended \in [count : 0..1, last : Terminal \cup {"none"}]

BatchType ==
    /\ plan \in Seq(PlannedCall) /\ Len(plan) \leq MaxBatch
    /\ index \in 0..(MaxBatch + 1)
    /\ open \in Seq(0..1) /\ Len(open) \leq MaxBatch
    /\ pending \in 0..MaxBatch

ExecType == exec \in [1..Len(plan) -> Execution]

FactType ==
    /\ draft \in BOOLEAN /\ changed \in BOOLEAN /\ told \in BOOLEAN
    /\ receipts \in Seq(Receipt)
    /\ streak \in [Tools -> Nat]
    /\ spent \in Seq(Commit)

(* Types of the loop, of the batch, and of what the session remembers.     *)
TypeOK == LoopType /\ BatchType /\ ExecType /\ FactType

Init ==
    /\ phase = "idle" /\ cancelled = FALSE
    /\ iter = 0 /\ attempt = 0 /\ rejects = 0
    /\ draft = FALSE /\ changed = FALSE /\ told = FALSE
    /\ plan = <<>> /\ index = 0 /\ exec = <<>> /\ open = <<>> /\ pending = 0
    /\ receipts = <<>> /\ spent = <<>>
    /\ streak = [t \in Tools |-> 0]
    /\ runs = 0
    /\ ended = [count |-> 0, last |-> "none"]

-----------------------------------------------------------------------------
(* Leaving Run.                                                            *)

RepairedMutant(skip) == open

(* repairToolPairing: every call without a result gets "outcome unknown",  *)
(* except the call the run is suspended on.                                *)
Repaired(skip) == [p \in DOMAIN open |-> IF p = skip THEN open[p] ELSE 1]

(* Run returns: a terminal event has been emitted and the deferred         *)
(* repairDanglingToolCalls pairs the history. A future nobody waits for    *)
(* keeps executing. The plan of the turn is forgotten unless its question  *)
(* waits for an answer.                                                    *)
End(event, skip) ==
    /\ phase' = "idle" /\ cancelled' = FALSE
    /\ iter' = 0 /\ attempt' = 0 /\ rejects' = 0
    /\ ended' = [count |-> ended.count + 1, last |-> event]
    /\ pending' = skip
    /\ open' = Repaired(skip)
    /\ plan' = IF skip = 0 THEN <<>> ELSE plan
    /\ exec' = [p \in DOMAIN plan' |-> Idle]
    /\ index' = 0

(* The exits that are taken outside a batch change nothing else.           *)
Exit(event) ==
    /\ End(event, 0)
    /\ UNCHANGED <<draft, changed, told, receipts, streak, spent, runs>>

-----------------------------------------------------------------------------
(* Entering Run.                                                           *)

(* Run: the accumulators restart, clearAbandonedSuspension pairs whatever  *)
(* an earlier run left open, and the report version is remembered. A new   *)
(* message resets the repeat notices, not the failure streaks.             *)
StartRun ==
    /\ phase = "idle" /\ runs < MaxRuns
    /\ phase' = "loop" /\ iter' = 1
    /\ changed' = FALSE /\ told' = FALSE
    /\ pending' = 0 /\ open' = Repaired(0)
    /\ runs' = runs + 1
    /\ ended' = [count |-> 0, last |-> "none"]
    /\ UNCHANGED <<cancelled, attempt, rejects, plan, index, exec, draft,
                   receipts, streak, spent>>

(* The user cancels the run.                                               *)
Cancel ==
    /\ phase # "idle" /\ ~cancelled
    /\ cancelled' = TRUE
    /\ UNCHANGED <<phase, iter, attempt, rejects, batchVars, factVars, runs,
                   ended>>

(* ProvideAskUserResult: the answer becomes the result of the question the *)
(* last tool-call turn asked, unless it already has one; an approved       *)
(* authorization creates a receipt for exactly what was asked.             *)
ProvideAskUserResult(approved) ==
    /\ phase = "idle"
    /\ plan # <<>> /\ plan[1].call.tool \in Asking
    /\ open[1] = 0
    /\ approved => plan[1].call.auth # NoAuth /\ Len(receipts) < MaxReceipts
    /\ open' = [open EXCEPT ![1] = 1]
    /\ pending' = 0
    /\ receipts' = IF approved
                     THEN Append(receipts, [auth |-> plan[1].call.auth,
                                            st |-> "live"])
                     ELSE receipts
    /\ UNCHANGED <<loopVars, plan, index, exec, draft, changed, told, streak, spent, runs, ended>>

(* confirmationReceiptTTL passes for one receipt: from now on every check  *)
(* of it fails and drops it.                                               *)
ReceiptExpires(r) ==
    /\ receipts[r].st = "live"
    /\ receipts' = [receipts EXCEPT ![r].st = "expired"]
    /\ UNCHANGED <<loopVars, batchVars, draft, changed, told, streak, spent, runs, ended>>

-----------------------------------------------------------------------------
(* The request.                                                            *)

(* The top of the loop: a cancelled run stops, so does one past the        *)
(* configured bound; otherwise the request is assembled and sent.          *)
LoopTop ==
    /\ phase = "loop"
    /\ \/ cancelled /\ Exit("cancelled")
       \/ ~cancelled /\ iter > MaxIterations /\ Exit("error")
       \/ /\ ~cancelled /\ iter \leq MaxIterations
          /\ phase' = "llm" /\ attempt' = 0
          /\ UNCHANGED <<cancelled, iter, rejects, batchVars, factVars,
                         runs, ended>>

(* ChatWithTools, one attempt failed. A transient transport error is tried *)
(* again until the attempts are used up; another error, a spent budget or  *)
(* a cancelled context ends the run with an error.                         *)
RequestFails ==
    /\ phase \in {"llm", "final"}
    /\ \/ Exit("error")
       \/ /\ ~cancelled /\ attempt < MaxAttempts - 1
          /\ attempt' = attempt + 1
          /\ UNCHANGED <<phase, cancelled, iter, rejects, batchVars,
                         factVars, runs, ended>>

(* The model answers with text. A draft report changed in this run earns   *)
(* one more request per version; raw tool markup is rejected a bounded     *)
(* number of times; everything else completes the run. An empty answer is  *)
(* an error.                                                               *)
FinalText(markup) ==
    /\ phase = "llm"
    /\ LET continue == changed /\ draft /\ ~told
           reject == markup /\ rejects < MaxMarkupRejects
       IN  \/ /\ ~continue /\ ~reject
              /\ Exit("completed")
           \/ /\ continue \/ reject
              /\ phase' = "loop" /\ iter' = iter + 1 /\ attempt' = 0
              /\ told' = (told \/ continue)
              /\ rejects' = IF continue THEN rejects ELSE rejects + 1
              /\ UNCHANGED <<cancelled, batchVars, draft, changed, receipts,
                             streak, spent, runs, ended>>

(* VerifyApproval: the receipt exists, is unused, unexpired and for        *)
(* exactly this call.                                                      *)
VerifyApproval(call) ==
    /\ call.receipt \in DOMAIN receipts
    /\ receipts[call.receipt].st = "live"
    /\ receipts[call.receipt].auth = call.auth

(* DecideToolCall: a gated call without a receipt asks for one, one with a *)
(* receipt that does not verify is denied.                                 *)
DecideToolCall(call) ==
    CASE call.tool \notin Gated -> "allow"
      [] call.receipt = 0       -> "ask"
      [] OTHER -> IF VerifyApproval(call) THEN "allow" ELSE "deny"

(* planToolCalls for one call: a repeated failure is looked for first,     *)
(* the arguments are decoded only when there is none, and an unavailable   *)
(* tool replaces either reason.                                            *)
Planned(call, check) ==
    LET decision == DecideToolCall(call)
        code == CASE decision # "allow"               -> "none"
                  [] check = "unavailable"            -> "refused"
                  [] streak[call.tool] \geq Threshold -> "repeated"
                  [] check = "arguments"              -> "refused"
                  [] OTHER                            -> "none"
        kind == IF code = "none" THEN decision ELSE "deny"
    IN  [call |-> call, kind |-> kind, code |-> code,
         safe |-> kind = "allow" /\ call.tool \in Safe]

(* validateToolCallBatch.                                                  *)
ValidBatch(calls) ==
    (\E p \in DOMAIN calls : calls[p].tool \in Asking) => Len(calls) = 1

(* The model answers with tool calls: an invalid batch ends the run, any   *)
(* other enters the history and is planned as a whole.                     *)
ToolCalls(calls, checks) ==
    /\ phase = "llm"
    /\ \/ ~ValidBatch(calls) /\ Exit("error")
       \/ /\ ValidBatch(calls)
          /\ phase' = "batch" /\ index' = 1 /\ attempt' = 0
          /\ plan' = [p \in DOMAIN calls |-> Planned(calls[p], checks[p])]
          /\ exec' = [p \in DOMAIN calls |-> Idle]
          /\ open' = [p \in DOMAIN calls |-> 0]
          /\ UNCHANGED <<cancelled, iter, rejects, pending, factVars, runs,
                         ended>>

-----------------------------------------------------------------------------
(* The batch loop.                                                         *)

Here == plan[index]
Reached == phase = "batch" /\ index \in DOMAIN plan

BatchDoneMutant ==
    /\ phase = "batch" /\ index > Len(plan)
    /\ phase' = "loop" /\ plan' = <<>> /\ exec' = <<>> /\ index' = 0
    /\ UNCHANGED <<cancelled, iter, attempt, rejects, open, pending, factVars,
                   runs, ended>>

(* The loop leaves a batch it has worked through.                          *)
BatchDone ==
    /\ phase = "batch" /\ index > Len(plan)
    /\ phase' = "loop" /\ iter' = iter + 1
    /\ plan' = <<>> /\ exec' = <<>> /\ index' = 0
    /\ UNCHANGED <<cancelled, attempt, rejects, open, pending, factVars, runs,
                   ended>>

(* blockToolCall: a call that was not admitted is answered with a          *)
(* structured failure and never executed.                                  *)
BlockToolCall ==
    /\ Reached /\ Here.kind # "allow"
    /\ open' = [open EXCEPT ![index] = 1]
    /\ index' = index + 1
    /\ UNCHANGED <<loopVars, plan, exec, pending, factVars, runs, ended>>

(* The question suspends the run, or is answered with a contract failure   *)
(* when its arguments are invalid.                                         *)
Suspend(valid) ==
    /\ Reached /\ Here.kind = "allow" /\ Here.call.tool \in Asking
    /\ \/ /\ valid
          /\ End("suspended", index)
          /\ UNCHANGED <<draft, changed, told, receipts, streak, spent, runs>>
       \/ /\ ~valid
          /\ open' = [open EXCEPT ![index] = 1]
          /\ index' = index + 1
          /\ UNCHANGED <<loopVars, plan, exec, pending, factVars, runs, ended>>

ParallelRunMutant ==
    {p \in DOMAIN plan : p \geq index /\ \A q \in index..p : plan[q].kind = "allow"}

(* The maximal run of parallel-safe calls that begins at the current one.  *)
ParallelRun ==
    {p \in DOMAIN plan : p \geq index /\ \A q \in index..p : plan[q].safe}

(* The state of a call whose execution begins.                             *)
Begun(t) == IF cancelled /\ t \in Idempotent
              THEN [st |-> "done", tries |-> 0, out |-> "ctx"]
              ELSE [st |-> "running", tries |-> 1, out |-> "none"]

(* The loop reaches a call. startParallelRun queues the whole parallel run *)
(* that begins here; an exclusive call is executed inline. An idempotent   *)
(* call is not begun once the context is done.                             *)
Dispatch ==
    /\ Reached /\ Here.kind = "allow" /\ Here.call.tool \notin Asking
    /\ exec[index].st = "none"
    /\ exec' = IF Here.safe
                 THEN [p \in DOMAIN exec |->
                         IF p \in ParallelRun /\ exec[p].st = "none"
                           THEN [exec[p] EXCEPT !.st = "queued"] ELSE exec[p]]
                 ELSE [exec EXCEPT ![index] = Begun(Here.call.tool)]
    /\ UNCHANGED <<loopVars, plan, index, open, pending, factVars, runs, ended>>

(* A future takes a slot of the budget, or gives up when the context ends. *)
FutureStarts(p) ==
    /\ phase = "batch" /\ exec[p].st = "queued"
    /\ \/ /\ Cardinality({q \in DOMAIN plan : plan[q].safe
                            /\ exec[q].st \in {"running", "backoff"}})
               < MaxParallel
          /\ exec' = [exec EXCEPT ![p] = Begun(plan[p].call.tool)]
       \/ /\ cancelled
          /\ exec' = [exec EXCEPT ![p].st = "done", ![p].out = "ctx"]
    /\ UNCHANGED <<loopVars, plan, index, open, pending, factVars, runs, ended>>

CommitWithConfirmationReceiptMutant(call, out) ==
    IF out = "ok"
      THEN /\ receipts' = [receipts EXCEPT ![call.receipt].st = "used"]
           /\ spent' = Append(spent, [receipt |-> call.receipt,
                                      auth |-> call.auth,
                                      live |-> receipts[call.receipt].st = "live"])
      ELSE UNCHANGED <<receipts, spent>>

(* CommitWithConfirmationReceipt: the receipt is checked again and used up *)
(* in the same critical section as the commit, and only if it succeeds.    *)
CommitWithConfirmationReceipt(call, out) ==
    IF out = "ok"
      THEN /\ VerifyApproval(call)
           /\ receipts' = [receipts EXCEPT ![call.receipt].st = "used"]
           /\ spent' = Append(spent, [receipt |-> call.receipt,
                                      auth |-> call.auth,
                                      live |-> receipts[call.receipt].st = "live"])
      ELSE UNCHANGED <<receipts, spent>>

(* What a tool's success means for the report: a mutation makes a newer    *)
(* draft, a delivery finalizes it.                                         *)
Effect(call, out) ==
    /\ changed' = (changed \/ (out = "ok" /\ call.tool \in Acting))
    /\ told' = (told /\ ~(out = "ok" /\ call.tool \in Acting))
    /\ draft' = CASE out = "ok" /\ call.tool \in Acting     -> TRUE
                  [] out = "ok" /\ call.tool \in Delivering -> FALSE
                  [] OTHER -> draft

RetriedMutant(p) == exec[p].tries < MaxAttempts

(* Which calls may be executed again: toolIsIdempotent and the bound.      *)
Retried(p) ==
    plan[p].call.tool \in Idempotent /\ exec[p].tries < MaxAttempts

(* retryableToolExec: one execution returns. A transient error of an       *)
(* idempotent tool is retried after a delay; a failure with a code of its  *)
(* own ("failed") or an untyped one ("error") is not.                      *)
ExecutionReturns(p, out) ==
    /\ phase = "batch" /\ exec[p].st = "running"
    /\ out = "failed" => plan[p].call.tool \in Fragile
    /\ LET call == plan[p].call
       IN  /\ Effect(call, out)
           /\ IF call.tool \in Gated
                THEN CommitWithConfirmationReceipt(call, out)
                ELSE UNCHANGED <<receipts, spent>>
           /\ \/ exec' = [exec EXCEPT ![p].st = "done", ![p].out = out]
              \/ /\ out = "error" /\ Retried(p)
                 /\ exec' = [exec EXCEPT ![p].st = "backoff"]
    /\ UNCHANGED <<loopVars, plan, index, open, pending, streak, runs, ended>>

(* The delay is over, or the context ends it.                              *)
Retry(p) ==
    /\ phase = "batch" /\ exec[p].st = "backoff"
    /\ exec' = IF cancelled
                 THEN [exec EXCEPT ![p].st = "done", ![p].out = "ctx"]
                 ELSE [exec EXCEPT ![p].st = "running", ![p].tries = @ + 1]
    /\ UNCHANGED <<loopVars, plan, index, open, pending, factVars, runs, ended>>

AbandonMutant(p) ==
    /\ phase = "batch" /\ exec[p].st = "running"
    /\ exec' = [exec EXCEPT ![p].st = "done",
                            ![p].out = IF cancelled THEN "ctx" ELSE "timeout"]
    /\ UNCHANGED <<loopVars, plan, index, open, pending, factVars, runs, ended>>

(* executeToolCall stops waiting for an observation that exceeds its       *)
(* budget or whose run is cancelled. The call counts as done although its  *)
(* goroutine still reads: what it returns later is discarded.              *)
Abandon(p) ==
    /\ phase = "batch" /\ exec[p].st = "running"
    /\ plan[p].call.tool \in Observing
    /\ exec' = [exec EXCEPT ![p].st = "done",
                            ![p].out = IF cancelled THEN "ctx" ELSE "timeout"]
    /\ UNCHANGED <<loopVars, plan, index, open, pending, factVars, runs, ended>>

(* recordToolOutcome: a success clears the tool's streak, a deterministic  *)
(* failure extends it, an environmental one leaves it.                     *)
Recorded(f, t, out) ==
    CASE out = "ok"     -> [f EXCEPT ![t] = 0]
      [] out = "failed" -> [f EXCEPT ![t] = @ + 1]
      [] OTHER          -> f

(* The loop takes the result of the current call. A run that is cancelled  *)
(* by then drops it; one cancelled while the result is emitted has counted *)
(* it and keeps it out of the history; otherwise it is recorded, and a     *)
(* delivered report leads to the final response. compactToolResult cannot  *)
(* fail here: normalizeToolExecutionResult has already decoded or encoded  *)
(* the result as a strict object.                                          *)
TakeResult ==
    /\ Reached /\ exec[index].st = "done"
    /\ LET tool == Here.call.tool
           out == exec[index].out
       IN  \/ /\ cancelled
              /\ End("cancelled", 0)
              /\ streak' \in {streak, Recorded(streak, tool, out)}
              /\ UNCHANGED <<draft, changed, told, receipts, spent, runs>>
           \/ /\ ~cancelled
              /\ streak' = Recorded(streak, tool, out)
              /\ open' = [open EXCEPT ![index] = 1]
              /\ index' = index + 1
              /\ phase' = IF tool \in Delivering /\ out = "ok" THEN "final"
                                                               ELSE "batch"
              /\ attempt' = 0
              /\ rejects' = IF phase' = "final" THEN 0 ELSE rejects
              /\ UNCHANGED <<cancelled, iter, plan, exec,
                             pending, draft, changed, told, receipts, spent,
                             runs, ended>>

(* finalResponseAfterFinalize: a summary completes the run, one with raw   *)
(* markup is asked for again a bounded number of times.                    *)
FinalResponse(markup) ==
    /\ phase = "final"
    /\ \/ /\ markup => rejects = MaxMarkupRejects
          /\ Exit("completed")
       \/ /\ markup /\ rejects < MaxMarkupRejects
          /\ rejects' = rejects + 1 /\ attempt' = 0
          /\ UNCHANGED <<phase, cancelled, iter, batchVars, factVars,
                         runs, ended>>

-----------------------------------------------------------------------------
Results == {"ok", "failed", "error"}

LoopStep ==
    \/ LoopTop \/ RequestFails \/ BatchDone \/ BlockToolCall \/ Dispatch
    \/ TakeResult
    \/ \E markup \in BOOLEAN : FinalText(markup) \/ FinalResponse(markup)
    \/ \E valid \in BOOLEAN : Suspend(valid)
    \/ \E calls \in Batches : \E checks \in [DOMAIN calls -> Checks] :
         ToolCalls(calls, checks)

CallStep(p) ==
    /\ p \in DOMAIN plan
    /\ \/ FutureStarts(p) \/ Retry(p) \/ Abandon(p)
       \/ \E out \in Results : ExecutionReturns(p, out)

Next ==
    \/ StartRun \/ Cancel \/ LoopStep
    \/ \E approved \in BOOLEAN : ProvideAskUserResult(approved)
    \/ \E r \in DOMAIN receipts : ReceiptExpires(r)
    \/ \E p \in 1..MaxBatch : CallStep(p)

Spec == Init /\ [][Next]_vars

(* Run is a goroutine that is never descheduled for good; a model call is  *)
(* bounded by its retry budget and a tool execution by the run context and *)
(* its own timeout.                                                        *)
FairSpec ==
    /\ Spec
    /\ WF_vars(LoopStep)
    /\ \A p \in 1..MaxBatch : WF_vars(CallStep(p))

-----------------------------------------------------------------------------
(* A request carries a conversation the provider accepts: each call of the *)
(* last tool-call turn has its result, whatever ended the turn: a cancel   *)
(* in the middle of the batch, a suspension that was abandoned or          *)
(* answered, a failed plan. It is judged for the requests of the main loop *)
(* and for the closing requests of finalResponseAfterFinalize, where the   *)
(* calls behind the delivery, and only they, may be without a result.      *)
RequestIsPaired ==
    phase \in {"llm", "final"} =>
        \A p \in DOMAIN open : open[p] = 1 \/ (phase = "final" /\ p \geq index)

(* The closing request has no exception: "An assistant tool call left      *)
(* unanswered would make the next request in this session invalid, so the  *)
(* history is repaired on every exit path" (server/agent/engine.go:544).   *)
(* It fails: finalResponseAfterFinalize is not an exit path, and           *)
(* validateToolCallBatch lets other calls stand behind a delivery.         *)
ClosingRequestIsPaired ==
    phase = "final" => \A p \in DOMAIN open : open[p] = 1

(* An exclusive call is a barrier: while it executes, no other call of the *)
(* batch is under way, neither one started ahead of its turn nor one that  *)
(* waits for a slot or for its next attempt.                               *)
ExclusiveIsAlone ==
    \A p, q \in DOMAIN exec :
        (p # q /\ exec[p].st = "running" /\ ~plan[p].safe)
            => exec[q].st \notin Busy

(* A tool that changes state runs at most once per call unless it declared *)
(* itself idempotent: the retry loop of retryableToolExec repeats only     *)
(* what toolIsIdempotent admits.                                           *)
ActionsNeverReplayed ==
    \A p \in DOMAIN exec :
        exec[p].tries > 1
            => plan[p].call.tool \in Observing \cup Safe \cup Replayable

(* A tool that changes state, once begun, is waited for: neither a timeout *)
(* nor a cancelled run makes the loop report an outcome it does not know.  *)
(* A replayable tool may wait for its next attempt.                        *)
ActionsNeverAbandoned ==
    [][\A p \in DOMAIN exec :
         (exec[p].st = "running" /\ plan[p].call.tool \notin Observing \cup Safe)
            => /\ p \in DOMAIN exec'
               /\ \/ exec'[p].st = "running"
                  \/ exec'[p].out \in Results
                  \/ exec'[p].st = "backoff"
                     /\ plan[p].call.tool \in Replayable]_vars

(* An approval is worth one commit of exactly what the user saw while it   *)
(* is valid, although a whole batch of calls may have been admitted with   *)
(* the same receipt before the first of them commits.                      *)
ApprovalWorthOneCommit ==
    /\ \A i, j \in DOMAIN spent : spent[i].receipt = spent[j].receipt => i = j
    /\ \A i \in DOMAIN spent :
         spent[i].live /\ receipts[spent[i].receipt].auth = spent[i].auth

(* A run that is over has said so exactly once, and only a suspended run   *)
(* leaves a call without a result: the question that waits for an answer.  *)
SettledOnce ==
    /\ phase # "idle" => ended.count = 0
    /\ (phase = "idle" /\ runs > 0) => ended.count = 1
    /\ \A p \in DOMAIN open :
         (phase = "idle" /\ open[p] = 0) => pending = p /\ ended.last = "suspended"

(* Under the fairness above every run ends, cancelled or not.              *)
RunEnds == (phase # "idle") ~> (phase = "idle")

(* A call refused as a repeated failure names failures of this run:        *)
(* "has failed %d times with error_code=%s in this run"                    *)
(* (server/agent/parallel_tools.go), so never in its first turn.           *)
BlockedForThisRun ==
    \A p \in DOMAIN plan :
        (phase = "batch" /\ plan[p].code = "repeated")
            => iter > 1
=============================================================================
