---------------------------- MODULE Conversation ----------------------------
(***************************************************************************)
(* The conversation a model request carries, and the two operations that   *)
(* keep it acceptable to the providers: repairToolPairing, which gives     *)
(* every tool call a result, and adjustCompactionBoundary, which moves a   *)
(* cut so that it does not separate a result from its call.  Used by the   *)
(* main engine's history (HistoryRebuild) and by the conversations of      *)
(* delegated children (Delegation).                                        *)
(*                                                                         *)
(* An item is a record: "role" is user, assistant or tool; "n" identifies  *)
(* its content (0 for what the runtime makes up); "calls" are the ids of   *)
(* the tool calls of an assistant message; "call" is the id a tool result  *)
(* answers.                                                                *)
(***************************************************************************)
EXTENDS Integers, Sequences, FiniteSets, SequencesExt, FiniteSetsExt

ConversationItem ==
    [role : {"user", "assistant", "tool"}, n : Nat, calls : Seq(Nat), call : Nat]

User(n) == [role |-> "user", n |-> n, calls |-> <<>>, call |-> 0]

Assistant(n, calls) == [role |-> "assistant", n |-> n, calls |-> calls, call |-> 0]

ToolResult(c, n) == [role |-> "tool", n |-> n, calls |-> <<>>, call |-> c]

\* unrecordedToolResult: "tool_outcome_unknown".
UnrecordedToolResult(c) == ToolResult(c, 0)

IsCalling(item) == item.role = "assistant" /\ item.calls # <<>>

\* The results that follow item i of h without a gap: h[i+1] .. h[i+k].
ResultRun(h, i) ==
    Max({k \in 0 .. Len(h) - i : \A j \in i + 1 .. i + k : h[j].role = "tool"})

(***************************************************************************)
(* repairToolPairing.  A result that does not follow a calling message is  *)
(* dropped; every result that does follow one is kept, whatever call it    *)
(* answers; a call without a result gets an "outcome unknown" one, except  *)
(* the call the run is suspended on.                                       *)
(***************************************************************************)
RepairBlock(h, i, skip) ==
    IF h[i].role = "tool" THEN <<>>
    ELSE IF ~IsCalling(h[i]) THEN <<h[i]>>
    ELSE LET results == SubSeq(h, i + 1, i + ResultRun(h, i))
             answered == {results[k].call : k \in DOMAIN results}
             unknown(c) == IF c \in answered \union {skip} THEN <<>>
                           ELSE <<UnrecordedToolResult(c)>>
         IN <<h[i]>> \o results
              \o FlattenSeq([k \in DOMAIN h[i].calls |-> unknown(h[i].calls[k])])

RepairToolPairing(h, skip) ==
    FlattenSeq([i \in DOMAIN h |-> RepairBlock(h, i, skip)])

(***************************************************************************)
(* adjustCompactionBoundary.  "b" items are to be dropped.  When item b+1  *)
(* is a result, the cut moves back to the message that owns it; when that  *)
(* message is not fully answered it moves back further, behind the last    *)
(* user turn or plain message among the five items before it.              *)
(***************************************************************************)
CompactionLookback == 5

\* A cut that does not look at what it separates.
AdjustCompactionBoundaryMutant(h, b) == b

AdjustCompactionBoundary(h, b) ==
    IF b <= 0 \/ b >= Len(h) \/ h[b + 1].role # "tool" THEN b
    ELSE LET owners == {i \in 1 .. b : IsCalling(h[i])}
             owner == Max(owners)
             answered == ResultRun(h, owner) >= Len(h[owner].calls)
             plain == {k \in Max({1, owner - CompactionLookback}) .. owner - 1 :
                         h[k].role # "tool" /\ ~IsCalling(h[k])}
         IN IF owners = {} THEN b
            ELSE IF answered \/ plain = {} THEN owner - 1
            ELSE Max(plain)

(***************************************************************************)
(* What the providers require of a request: the results that follow an     *)
(* assistant message answer its calls, each exactly once, and a result     *)
(* stands nowhere else.                                                    *)
(***************************************************************************)
PairedAt(h, i) ==
    /\ IsCalling(h[i]) =>
         /\ ResultRun(h, i) = Len(h[i].calls)
         /\ {h[j].call : j \in i + 1 .. i + ResultRun(h, i)} = ToSet(h[i].calls)
    /\ h[i].role = "tool" =>
         \E o \in 1 .. i - 1 : IsCalling(h[o]) /\ o + ResultRun(h, o) >= i

Paired(h) == \A i \in DOMAIN h : PairedAt(h, i)
=============================================================================
