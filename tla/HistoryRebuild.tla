--------------------------- MODULE HistoryRebuild ---------------------------
(***************************************************************************)
(* The conversation the engine keeps in memory, the session log it writes  *)
(* beside it, context compaction, and the fold that rebuilds the           *)
(* conversation from the log after a restart or an eviction.               *)
(*                                                                         *)
(* The engine changes "history" and emits events one after the other; the  *)
(* log holds those events in order.  Compaction replaces the oldest part   *)
(* of history by a digest and logs a checkpoint that counts items.  The    *)
(* fold reproduces the checkpoint by dropping that many of ITS items, so   *)
(* the two sides agree only as far as the fold's items are the engine's.   *)
(***************************************************************************)
EXTENDS ModelWire

CONSTANTS
    MaxBatch,      \* tool calls in one assistant message
    RecentWindow,  \* recentContextWindow
    MaxContents,   \* bound: messages, answers, results and texts of a session
    MaxCompactions,\* bound: compactions of a session
    MaxHydrations  \* bound: restarts or evictions of a session

ASSUME HistoryAssumption ==
    /\ {MaxBatch, RecentWindow} \subseteq Nat \ {0}
    /\ {MaxContents, MaxCompactions, MaxHydrations} \subseteq Nat

VARIABLES
    history,     \* Engine.history
    omitted,     \* Engine.omittedHistoryMessages
    digest,      \* Engine.historySummary: the contents it was written from
    suspended,   \* Engine.pendingSuspensionID, 0 when none
    phase,       \* where the run is: idle, top, sent, batch, closing, waiting
    task,        \* userTask of Engine.Run: a content not in history yet, or 0
    batch,       \* the calls of the current assistant message still to be run
    run,         \* the run's number
    log,         \* the persisted events of the session's root runs
    contents,    \* contents and call ids given out so far
    compactions,
    hydrations,
    regular      \* no batch of several calls, no white-space text, no draft
                 \* text followed by calls without text, no interruption and
                 \* no rebuild so far

vars == <<history, omitted, digest, suspended, phase, task, batch, run, log,
          contents, compactions, hydrations, regular>>

Event(type, n, call) ==
    [type |-> type, run |-> run, n |-> n, call |-> call, pinned |-> 0,
     shadowed |-> 0, digest |-> {}]

Checkpoint(pinned, shadowed, summary) ==
    [Event("history_compacted", 0, 0) EXCEPT
        !.pinned = pinned, !.shadowed = shadowed, !.digest = summary]

-----------------------------------------------------------------------------
(***************************************************************************)
(* The fold: RebuildHistoryFromMessages and historyFolder.                 *)
(***************************************************************************)
NoItem == Assistant(0, <<>>)

Folder == [items |-> <<>>, pending |-> NoItem, ask |-> 0, askRun |-> 0,
           omitted |-> 0, digest |-> {}]

\* historyFolder.flush
Flush(f) ==
    IF f.pending = NoItem THEN f
    ELSE [f EXCEPT !.items = Append(@, f.pending), !.pending = NoItem]

FlushWith(f, item) == [Flush(f) EXCEPT !.items = Append(@, item)]

\* The fold that does not merge a call with the text it was sent with.
PendingToolCallMutant(f, c) == [Flush(f) EXCEPT !.pending = Assistant(0, <<c>>)]

\* historyFolder.pendingToolCall
PendingToolCall(f, c) == [f EXCEPT !.pending.calls = Append(@, c)]

\* The replay of a checkpoint that forgets to count what a trim dropped.
ApplyCompactionCheckpointMutant(f, e) ==
    LET g == Flush(f)
    IN [g EXCEPT !.items = SubSeq(@, 1, e.pinned)
                             \o SubSeq(@, e.pinned + e.shadowed + 1, Len(@)),
                 !.digest = e.digest]

\* historyFolder.applyCompactionCheckpoint
ApplyCompactionCheckpoint(f, e) ==
    LET g == Flush(f)
        pinned == IF e.pinned > Len(g.items) THEN 0 ELSE e.pinned
        shadowed == IF pinned + e.shadowed > Len(g.items) THEN 0 ELSE e.shadowed
        kept == SubSeq(g.items, 1, pinned)
                  \o SubSeq(g.items, pinned + shadowed + 1, Len(g.items))
    IN IF e.digest # {}
       THEN [g EXCEPT !.items = kept, !.digest = e.digest]
       ELSE [g EXCEPT !.items = kept, !.omitted = @ + shadowed]

\* historyFolder.consume
Consume(f, e) ==
    CASE e.type = "user" /\ f.ask # 0 /\ e.run = f.askRun ->
           [FlushWith(f, ToolResult(f.ask, e.n)) EXCEPT !.ask = 0, !.askRun = 0]
      [] e.type = "user" /\ ~(f.ask # 0 /\ e.run = f.askRun) -> FlushWith(f, User(e.n))
      [] e.type = "assistant_status" -> [Flush(f) EXCEPT !.pending = Assistant(e.n, <<>>)]
      [] e.type = "tool_call" -> PendingToolCall(f, e.call)
      [] e.type = "tool_result" -> FlushWith(f, ToolResult(e.call, e.n))
      [] e.type = "user_request_input" ->
           [Flush(PendingToolCall(f, e.call)) EXCEPT !.ask = e.call, !.askRun = e.run]
      [] e.type = "run_completed" /\ e.n # 0 -> FlushWith(f, Assistant(e.n, <<>>))
      [] e.type = "history_compacted" -> ApplyCompactionCheckpoint(f, e)
      [] e.type = "system_feedback" -> FlushWith(f, User(e.n))
      [] e.type = "run_ended" \/ (e.type = "run_completed" /\ e.n = 0) -> Flush(f)

\* The folder behind the last event.
Folded(events) ==
    LET folded[k \in 0 .. Len(events)] ==
            IF k = 0 THEN Folder ELSE Consume(folded[k - 1], events[k])
    IN folded[Len(events)]

Fold(events) == Flush(Folded(events))

RebuildHistoryFromMessages(events) ==
    LET f == Fold(events) IN RepairToolPairing(f.items, f.ask)

-----------------------------------------------------------------------------
Init ==
    /\ history = <<>> /\ omitted = 0 /\ digest = {} /\ suspended = 0
    /\ phase = "idle" /\ task = 0 /\ batch = <<>> /\ run = 0
    /\ log = <<>> /\ contents = 0 /\ compactions = 0 /\ hydrations = 0
    /\ regular = TRUE

\* Fresh content or call ids.
Take(k) == contents + k <= MaxContents /\ contents' = contents + k

Emit(events) == log' = log \o events

\* clearAbandonedSuspension, at the start of Engine.Run
ClearAbandonedSuspension(h) == RepairToolPairing(h, 0)

(***************************************************************************)
(* A new message: the handler persists it before the run starts; the run   *)
(* first pairs whatever an earlier run left unanswered.                    *)
(***************************************************************************)
Submit ==
    /\ phase = "idle" /\ Take(1)
    /\ run' = run + 1
    /\ log' = Append(log, [Event("user", contents', 0) EXCEPT !.run = run'])
    /\ history' = ClearAbandonedSuspension(history)
    /\ suspended' = 0 /\ task' = contents' /\ phase' = "top"
    /\ regular' = (regular /\ history' = history)
    /\ UNCHANGED <<omitted, digest, batch, compactions, hydrations>>

\* resumeWaitingRun and ProvideAskUserResult: the answer is persisted as a
\* user event of the same run and enters history as the call's result.
Answer ==
    /\ phase = "waiting" /\ Take(1)
    /\ Emit(<<Event("user", contents', 0)>>)
    /\ history' = ClearAbandonedSuspension(Append(history, ToolResult(suspended, contents')))
    /\ suspended' = 0 /\ phase' = "top"
    /\ UNCHANGED <<omitted, digest, task, batch, run, compactions, hydrations, regular>>

\* Nothing is pinned: the opening task is compacted like the rest.
PinnedHistoryItemsMutant(h) == 0

\* pinnedHistoryItems
PinnedHistoryItems(h) ==
    LET users == {i \in DOMAIN h : h[i].role = "user"}
        first == Min(users)
    IN IF users = {} \/ \E i \in 1 .. first - 1 : IsCalling(h[i]) THEN 0 ELSE first

\* selectCompactionSpan: how many items behind the pinned ones to replace.
SelectCompactionSpan(h) ==
    LET pinned == PinnedHistoryItems(h)
        boundary == AdjustCompactionBoundary(h, Len(h) - RecentWindow)
    IN IF Len(h) <= RecentWindow + pinned \/ boundary <= pinned
       THEN 0 ELSE boundary - pinned

\* summarizeHistorySpan and applyCompaction: the digest is written from the
\* span and the previous digest; a failed summary drops the span and counts it.
Compact ==
    LET pinned == PinnedHistoryItems(history)
        shadowed == SelectCompactionSpan(history)
        span == SubSeq(history, pinned + 1, pinned + shadowed)
    IN \E summary \in {digest \union {item.n : item \in ToSet(span)}, {}} :
        /\ compactions < MaxCompactions /\ shadowed > 0
        /\ compactions' = compactions + 1
        /\ history' = SubSeq(history, 1, pinned)
                        \o SubSeq(history, pinned + shadowed + 1, Len(history))
                        \o (IF task = 0 THEN <<>> ELSE <<User(task)>>)
        /\ digest' = IF summary = {} THEN digest ELSE summary
        /\ omitted' = IF summary = {} THEN omitted + shadowed ELSE omitted
        /\ Emit(<<Checkpoint(pinned, shadowed, summary)>>)

\* prepareRequestBundle, with or without pressure, and the new turn's entry
\* into history before the request is issued.
PrepareRequest ==
    /\ phase = "top"
    /\ \/ Compact
       \/ /\ history' = history \o (IF task = 0 THEN <<>> ELSE <<User(task)>>)
          /\ UNCHANGED <<digest, omitted, compactions, log>>
    /\ task' = 0 /\ phase' = "sent"
    /\ UNCHANGED <<suspended, batch, run, contents, hydrations, regular>>

-----------------------------------------------------------------------------
(***************************************************************************)
(* What the model's answer does to history and to the log.                 *)
(***************************************************************************)
Kept == UNCHANGED <<omitted, digest, task, run, compactions, hydrations>>

\* The call failed, was cancelled, or returned neither text nor calls.
RequestFails ==
    /\ phase = "sent"
    /\ \E a \in Answers : ~a.text /\ ~a.blank /\ a.calls = <<>>
    /\ Emit(<<Event("run_ended", 0, 0)>>) /\ phase' = "idle"
    /\ UNCHANGED <<history, suspended, batch, contents, regular>> /\ Kept

\* The answer is text.
OnlyText == \E a \in Answers : a.text /\ a.calls = <<>>

\* A final answer.
FinalText ==
    /\ phase = "sent" /\ OnlyText /\ Take(1)
    /\ history' = Append(history, Assistant(contents', <<>>))
    /\ Emit(<<Event("run_completed", contents', 0)>>) /\ phase' = "idle"
    /\ UNCHANGED <<suspended, batch, regular>> /\ Kept

\* Text while the report is an undelivered draft: one more round.
DraftText ==
    /\ phase = "sent" /\ OnlyText /\ Take(1)
    /\ history' = Append(history, Assistant(contents', <<>>))
    /\ Emit(<<Event("assistant_status", contents', 0)>>) /\ phase' = "top"
    /\ UNCHANGED <<suspended, batch, regular>> /\ Kept

\* Text with raw tool markup: the corrective turn replaces it on both sides.
MarkupRejected ==
    /\ phase = "sent" /\ OnlyText /\ Take(1)
    /\ history' = Append(history, User(contents'))
    /\ Emit(<<Event("system_feedback", contents', 0)>>) /\ phase' = "top"
    /\ UNCHANGED <<suspended, batch, regular>> /\ Kept

\* An answer of white space only is an answer, final or while the report is a
\* draft, and the live conversation keeps it; the fold does not.
BlankText ==
    /\ phase = "sent" /\ Take(1)
    /\ \E a \in Answers : a.blank /\ a.calls = <<>>
    /\ history' = Append(history, Assistant(0, <<>>))
    /\ \/ Emit(<<Event("run_completed", 0, 0)>>) /\ phase' = "idle"
       \/ Emit(<<Event("assistant_status", 0, 0)>>) /\ phase' = "top"
    /\ regular' = FALSE
    /\ UNCHANGED <<suspended, batch>> /\ Kept

\* Status events precede the calls, white space included; a batch the engine
\* refuses ends the run with the status logged and nothing in history.
StatusEvents(a, n) ==
    IF a.text \/ a.blank THEN <<Event("assistant_status", n, 0)>> ELSE <<>>

CallingAnswers == {a \in Answers : a.calls # <<>> /\ Len(a.calls) <= MaxBatch}

CallTools(a) ==
    LET k == Len(a.calls)
        text == IF a.text \/ a.blank THEN 1 ELSE 0
    IN
    /\ phase = "sent" /\ Take(k + text)
    /\ LET n == IF a.text THEN contents' ELSE 0
           calls == [j \in 1 .. k |-> IF a.calls[j] THEN contents + j ELSE 0]
       IN /\ Emit(StatusEvents(a, n))
          /\ history' = Append(history, Assistant(n, calls))
          /\ batch' = calls /\ phase' = "batch"
    /\ regular' = (regular /\ k = 1 /\ ~a.blank
                    /\ (a.text \/ Last(log).type # "assistant_status"))
    /\ UNCHANGED suspended /\ Kept

\* validateToolCallBatch: a suspending call must stand alone.
InvalidBatch(a) ==
    /\ phase = "sent" /\ Len(a.calls) > 1 /\ Take(1)
    /\ Emit(StatusEvents(a, IF a.text THEN contents' ELSE 0) \o <<Event("run_ended", 0, 0)>>)
    /\ phase' = "idle" /\ regular' = FALSE
    /\ UNCHANGED <<history, suspended, batch>> /\ Kept

-----------------------------------------------------------------------------
(***************************************************************************)
(* One tool call of the batch, in the model's order.  Its call event is    *)
(* logged just before it runs.                                             *)
(***************************************************************************)
ExecuteCall(outcome) ==
    LET c == Head(batch)
        last == Len(batch) = 1
    IN
    /\ phase = "batch"
    /\ \/ /\ outcome = "ok" /\ Take(1)
          /\ history' = Append(history, ToolResult(c, contents'))
          /\ Emit(<<Event("tool_call", 0, c), Event("tool_result", contents', c)>>)
          /\ phase' = (IF last THEN "top" ELSE "batch") /\ batch' = Tail(batch)
          /\ UNCHANGED regular
       \/ \* Suspension arguments the tool refuses: no call event.
          /\ outcome = "badargs" /\ last /\ Take(1)
          /\ history' = Append(history, ToolResult(c, contents'))
          /\ Emit(<<Event("tool_result", contents', c)>>)
          /\ phase' = "top" /\ batch' = <<>> /\ regular' = FALSE
       \/ \* A delivery boundary: one closing request, what is left of the
          \* batch is never run.
          /\ outcome = "final" /\ Take(1)
          /\ history' = Append(history, ToolResult(c, contents'))
          /\ Emit(<<Event("tool_call", 0, c), Event("tool_result", contents', c)>>)
          /\ phase' = "closing" /\ batch' = Tail(batch) /\ regular' = (regular /\ last)
       \/ \* Cancelled while the tool ran: its result is dropped.
          /\ outcome = "cancelled"
          /\ Emit(<<Event("tool_call", 0, c), Event("run_ended", 0, 0)>>)
          /\ phase' = "idle" /\ batch' = <<>> /\ regular' = FALSE
          /\ UNCHANGED <<history, contents>>
       \/ \* Cancelled, or failed, after the result was emitted.
          /\ outcome = "aborted" /\ Take(1)
          /\ Emit(<<Event("tool_call", 0, c), Event("tool_result", contents', c),
                    Event("run_ended", 0, 0)>>)
          /\ phase' = "idle" /\ batch' = <<>> /\ regular' = FALSE
          /\ UNCHANGED history
    /\ UNCHANGED suspended /\ Kept

\* finalResponseAfterFinalize.  A closing text with raw tool markup is asked
\* for again with a corrective turn that enters neither history nor the log.
ClosingText ==
    /\ phase = "closing" /\ (\E a \in Answers : a.text) /\ Take(1)
    /\ history' = Append(history, Assistant(contents', <<>>))
    /\ Emit(<<Event("run_completed", contents', 0)>>)
    /\ phase' = "idle" /\ batch' = <<>>
    /\ UNCHANGED <<suspended, regular>> /\ Kept

\* The closing request failed or its text is blank: the run ends in an error
\* with the result of the delivery kept.
ClosingFails ==
    /\ phase = "closing" /\ \E a \in Answers : ~a.text
    /\ Emit(<<Event("run_ended", 0, 0)>>)
    /\ phase' = "idle" /\ batch' = <<>>
    /\ UNCHANGED <<history, suspended, contents, regular>> /\ Kept

\* A suspending tool, which is alone in its batch.
Suspend ==
    /\ phase = "batch" /\ Len(batch) = 1 /\ IsCalling(Last(history))
    /\ Len(Last(history).calls) = 1
    /\ Emit(<<Event("user_request_input", 0, Head(batch))>>)
    /\ suspended' = Head(batch) /\ batch' = <<>> /\ phase' = "waiting"
    /\ UNCHANGED <<history, contents, regular>> /\ Kept

CancelWaiting ==
    /\ phase = "waiting"
    /\ Emit(<<Event("run_ended", 0, 0)>>) /\ phase' = "idle"
    /\ regular' = FALSE
    /\ UNCHANGED <<history, suspended, batch, contents>> /\ Kept

(***************************************************************************)
(* The process stops or the idle session is evicted, and a later request   *)
(* builds the session again from its log.  The log of a run is read whole: *)
(* the cut countTruncatedSessionMessages counts, of the middle of a run of *)
(* thousands of events, is not modelled.  A new message follows; the       *)
(* answer to a question open at the stop is in RunLifecycle.               *)
(***************************************************************************)
HydrateSessionFromPersistence ==
    /\ hydrations < MaxHydrations /\ log # <<>>
    /\ hydrations' = hydrations + 1
    /\ history' = RebuildHistoryFromMessages(log)
    /\ omitted' = Fold(log).omitted /\ digest' = Fold(log).digest
    /\ suspended' = 0 /\ task' = 0 /\ batch' = <<>> /\ phase' = "idle"
    /\ regular' = FALSE
    /\ UNCHANGED <<run, log, contents, compactions>>

Next ==
    \/ Submit \/ Answer \/ PrepareRequest \/ RequestFails \/ FinalText
    \/ DraftText \/ MarkupRejected \/ BlankText \/ Suspend \/ CancelWaiting
    \/ ClosingText \/ ClosingFails
    \/ \E a \in CallingAnswers : CallTools(a) \/ InvalidBatch(a)
    \/ \E o \in {"ok", "badargs", "final", "cancelled", "aborted"} : ExecuteCall(o)
    \/ HydrateSessionFromPersistence

Spec == Init /\ [][Next]_vars

-----------------------------------------------------------------------------
\* A persisted event; the fields a type does not use are 0 or empty.
LogEvent ==
    [type : {"user", "assistant_status", "tool_call", "tool_result",
             "user_request_input", "run_completed", "history_compacted",
             "system_feedback", "run_ended"},
     run : Nat, n : Nat, call : Nat, pinned : Nat, shadowed : Nat,
     digest : SUBSET Nat]

\* The engine's variables hold what the code can put there.
TypeOK ==
    /\ history \in Seq(ConversationItem) /\ log \in Seq(LogEvent)
    /\ phase \in {"idle", "top", "sent", "batch", "closing", "waiting"}
    /\ {omitted, suspended, task, run, contents, compactions, hydrations} \subseteq Nat
    /\ digest \in SUBSET Nat /\ batch \in Seq(Nat) /\ regular \in BOOLEAN

\* The log holds the call event of every result.
EveryResultCalled ==
    \A i \in DOMAIN log : log[i].type = "tool_result" =>
        \E j \in 1 .. i - 1 : log[j].type = "tool_call" /\ log[j].call = log[i].call

\* The bundle of the request that was sent: the new turn travels as the task.
\* A report view adds an image to the runtime context.
RequestBundle ==
    LET last == Last(history)
        turn == last.role = "user"
        notices == (IF digest # {} THEN <<0>> ELSE <<>>)
                     \o (IF omitted > 0 THEN <<0>> ELSE <<>>)
    IN [context |-> notices \o <<1>>,
        history |-> IF turn THEN Front(history) ELSE history,
        task |-> IF turn THEN last.n ELSE 0]

(***************************************************************************)
(* Every request the engine sends is acceptable in each of the four        *)
(* provider formats, and all four say the same: after any sequence of      *)
(* batches, cancellations, abandoned questions, compactions, restarts and  *)
(* rebuilds the calls have identifiers, the results stand where the        *)
(* provider wants them, each call has exactly one, every content and image *)
(* travels once and in order, as long as the log holds the call event of   *)
(* every result.  The closing request behind a delivery is judged with and *)
(* without its corrective turn, unless calls behind the delivery were left *)
(* out: nothing answers those in that request (engine.go:924), which       *)
(* ClosingRequestIsPaired of EngineTurn is about.                          *)
(***************************************************************************)
RequestAccepted ==
    EveryResultCalled =>
        /\ phase = "sent" => Accepted(RequestBundle)
        /\ phase = "closing" /\ batch = <<>> =>
             /\ Accepted(RequestBundle)
             /\ Accepted([RequestBundle EXCEPT !.history = Append(@, User(0))])

(***************************************************************************)
(* chatGoogle says that its runtime context precedes history, "so          *)
(* continuation turns cannot produce consecutive user-role contents".  It  *)
(* does not hold: the context itself precedes the user's opening turn, and *)
(* every result of a batch is a user content of its own.                   *)
(***************************************************************************)
ContinuationAlternates ==
    phase = "sent" /\ RequestBundle.task = 0 => Alternates(BuildGoogleContents(RequestBundle))

(***************************************************************************)
(* history_rebuild.go promises it of every log: "every assistant tool call *)
(* is followed by exactly the results for that call, and no result appears *)
(* without an owning call".  It does not hold: a question with invalid     *)
(* arguments is logged as a result without a call, and the rebuild leaves  *)
(* that result behind whatever call precedes it.                           *)
(***************************************************************************)
RebuiltPaired == phase = "sent" => Paired(history)

(***************************************************************************)
(* The user's opening task is the first item of the live conversation and  *)
(* of the one the log rebuilds, whatever was compacted in between          *)
(* (compaction.go, "The leading user task is pinned").                     *)
(***************************************************************************)
OpeningTaskSurvives ==
    LET opened(h) == h # <<>> /\ h[1].role = "user" /\ h[1].n = 1
    IN run > 0 => /\ (history # <<>> => opened(history))
                  /\ opened(RebuildHistoryFromMessages(log))

(***************************************************************************)
(* Between the runs of a session that was never interrupted, whose         *)
(* assistant messages make one call each, hold no white-space text and     *)
(* make no textless call behind a draft text, the log rebuilds the         *)
(* engine's conversation item by item,                                     *)
(* with its omission count and its digest: questions and answers, rejected *)
(* texts, deliveries and compaction checkpoints included.                  *)
(***************************************************************************)
RebuildIsExact ==
    regular /\ phase = "idle" =>
        LET f == Fold(log)
        IN /\ RebuildHistoryFromMessages(log) = history
           /\ f.omitted = omitted /\ f.digest = digest

(***************************************************************************)
(* No user turn is lost in silence: a turn of the log that the rebuilt     *)
(* conversation does not hold was compacted, and the model is told so by a *)
(* digest or by an omission count.                                         *)
(***************************************************************************)
LossIsTold ==
    LET f == Fold(log)
        held == {item.n : item \in ToSet(RebuildHistoryFromMessages(log))}
        said == {log[i].n : i \in {j \in DOMAIN log : log[j].type = "user"}}
    IN said \subseteq held \/ f.omitted > 0 \/ f.digest # {}

(***************************************************************************)
(* What the engine still holds, the rebuild still holds (history_rebuild.go*)
(* "dropping live context is not [recoverable]").  It does not hold: a     *)
(* checkpoint counts the results that pairing repair made up and the       *)
(* white-space answers; the fold repairs only at its end and skips white   *)
(* space, so it drops as many of the items behind the engine's boundary.   *)
(***************************************************************************)
RebuildKeepsLive ==
    phase = "idle" =>
        {item.n : item \in ToSet(history)} \subseteq
            {item.n : item \in ToSet(RebuildHistoryFromMessages(log))} \union {0}
=============================================================================
