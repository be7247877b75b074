------------------------------ MODULE ModelWire ------------------------------
(***************************************************************************)
(* The four provider formats of server/agent/llm.go and llm_google.go: how *)
(* a prompt bundle becomes a request of the Responses, Chat Completions,   *)
(* Anthropic and Gemini interfaces, and how a reply of each becomes the    *)
(* engine's answer or an error.                                            *)
(*                                                                         *)
(* A bundle is [context, history, task]: "context" is a sequence of image  *)
(* counts, one per runtime context block; "task" is a content, or 0.  A    *)
(* request is a sequence of messages [role, blocks]; a block is a text, an *)
(* image, a call or a result.  Policies, tool schemas, reasoning text,     *)
(* token counts and tracing are left out.  Content 0 of an assistant item  *)
(* is no text or white space only; an item with content 0 and no calls is  *)
(* a white-space answer, for the engine records no message without text    *)
(* and without calls.                                                      *)
(***************************************************************************)
EXTENDS Conversation

Block(kind, n, id) == [kind |-> kind, n |-> n, id |-> id]
Text(n) == Block("text", n, 0)
Image == Block("image", 0, 0)
CallBlock(c) == Block("call", 0, c)
ResultBlock(item) == Block("result", item.n, item.call)

Message(role, blocks) == [role |-> role, blocks |-> blocks]

\* payloadParts: the text first, then the images.
PayloadParts(n, images) == <<Text(n)>> \o [i \in 1 .. images |-> Image]

\* The text of an assistant message, when it has one, and its calls.
AssistantText(item) == IF item.n = 0 THEN <<>> ELSE <<Text(item.n)>>

CallBlocks(item) == [k \in DOMAIN item.calls |-> CallBlock(item.calls[k])]

TaskBlocks(b) == IF b.task = 0 THEN <<>> ELSE <<Text(b.task)>>

-----------------------------------------------------------------------------
(***************************************************************************)
(* Requests.                                                               *)
(***************************************************************************)

\* The input items of buildResponsesRequest: text, calls and results of one
\* turn are items of their own.
ResponsesItems(item) ==
    CASE item.role = "user" -> <<Message("user", PayloadParts(item.n, 0))>>
      [] item.role = "assistant" ->
           LET blocks == AssistantText(item) \o CallBlocks(item)
           IN [k \in DOMAIN blocks |-> Message("assistant", <<blocks[k]>>)]
      [] item.role = "tool" -> <<Message("tool", <<ResultBlock(item)>>)>>

ContextMessages(b) ==
    [k \in DOMAIN b.context |-> Message("user", PayloadParts(0, b.context[k]))]

TaskMessages(b) == IF b.task = 0 THEN <<>> ELSE <<Message("user", TaskBlocks(b))>>

BuildResponsesRequest(b) ==
    ContextMessages(b)
      \o FlattenSeq([i \in DOMAIN b.history |-> ResponsesItems(b.history[i])])
      \o TaskMessages(b)

\* buildChatCompletionsRequest: one message per item; an assistant message
\* with neither text nor calls is not sent.
ChatMessages(item) ==
    CASE item.role = "user" -> <<Message("user", PayloadParts(item.n, 0))>>
      [] item.role = "assistant" ->
           LET blocks == AssistantText(item) \o CallBlocks(item)
           IN IF blocks = <<>> THEN <<>> ELSE <<Message("assistant", blocks)>>
      [] item.role = "tool" -> <<Message("tool", <<ResultBlock(item)>>)>>

BuildChatCompletionsRequest(b) ==
    ContextMessages(b)
      \o FlattenSeq([i \in DOMAIN b.history |-> ChatMessages(b.history[i])])
      \o TaskMessages(b)

\* flushUserContent: what gathered for the user role becomes one message.
FlushUserContent(s) ==
    IF s.current = <<>> THEN s
    ELSE [sent |-> Append(s.sent, Message("user", s.current)), current |-> <<>>]

\* buildAnthropicMessages does not trim: a white-space answer is a text block.
AnthropicText(item) ==
    IF item.n = 0 /\ item.calls # <<>> THEN <<>> ELSE <<Text(item.n)>>

\* An assistant turn that does not close the user message before it.
AnthropicItemMutant(s, item) ==
    IF item.role = "user" THEN [s EXCEPT !.current = @ \o PayloadParts(item.n, 0)]
    ELSE IF item.role = "tool" THEN [s EXCEPT !.current = Append(@, ResultBlock(item))]
    ELSE [s EXCEPT !.sent = Append(@, Message("assistant",
                                      AnthropicText(item) \o CallBlocks(item)))]

\* One item of buildAnthropicMessages.  Results and user turns gather in one
\* user message until an assistant turn closes it.
AnthropicItem(s, item) ==
    CASE item.role = "user" -> [s EXCEPT !.current = @ \o PayloadParts(item.n, 0)]
      [] item.role = "tool" -> [s EXCEPT !.current = Append(@, ResultBlock(item))]
      [] item.role = "assistant" ->
           [FlushUserContent(s) EXCEPT
              !.sent = Append(@, Message("assistant", AnthropicText(item) \o CallBlocks(item)))]

BuildAnthropicMessages(b) ==
    LET context == FlattenSeq([k \in DOMAIN b.context |-> PayloadParts(0, b.context[k])])
        folded == FoldLeft(AnthropicItem, [sent |-> <<>>, current |-> context], b.history)
    IN FlushUserContent([folded EXCEPT !.current = @ \o TaskBlocks(b)]).sent

\* The contents of chatGoogle's request, one per item.  A result travels under
\* the name of its tool, which a live item finds by the call's id; a white-space
\* answer is a content without parts.
GoogleContents(item) ==
    CASE item.role = "user" -> <<Message("user", PayloadParts(item.n, 0))>>
      [] item.role = "assistant" ->
           <<Message("model", AssistantText(item) \o CallBlocks(item))>>
      [] item.role = "tool" -> <<Message("user", <<ResultBlock(item)>>)>>

\* chatGoogle refuses to send a result whose call it has not met.  Its other
\* refusal, of a result that is not a JSON object, meets no result the engine
\* records: normalizeToolExecutionResult, blockToolCall, buildAskUserToolResult,
\* unrecordedToolResult and the compaction of results all yield objects.
GoogleNamesResults(b) ==
    \A i \in DOMAIN b.history : b.history[i].role = "tool" =>
        \E j \in 1 .. i - 1 : b.history[i].call \in ToSet(b.history[j].calls)

BuildGoogleContents(b) ==
    ContextMessages(b)
      \o FlattenSeq([i \in DOMAIN b.history |-> GoogleContents(b.history[i])])
      \o TaskMessages(b)

-----------------------------------------------------------------------------
(***************************************************************************)
(* What the provider interfaces require of a request.                      *)
(***************************************************************************)
Kinds(m, kind) == {m.blocks[k].id : k \in {j \in DOMAIN m.blocks : m.blocks[j].kind = kind}}

Has(m, kind) == Kinds(m, kind) # {}

\* Responses: every call has one output, after it; every output has a call.
ResponsesAccepts(w) ==
    LET calls == {i \in DOMAIN w : Has(w[i], "call")}
        outputs == {i \in DOMAIN w : Has(w[i], "result")}
        same(i, j) == w[i].blocks[1].id = w[j].blocks[1].id
    IN /\ \A i \in calls : \E j \in outputs :
            j > i /\ {k \in outputs : same(i, k)} = {j}
       /\ \A j \in outputs : \E i \in calls : i < j /\ same(i, j)

\* A message as the conversation item whose pairing it must show.
AsItem(m) ==
    LET calls == SelectSeq(m.blocks, LAMBDA x : x.kind = "call")
    IN IF Has(m, "result") THEN ToolResult(m.blocks[1].id, 0)
       ELSE IF m.role = "user" THEN User(0)
       ELSE Assistant(0, [k \in DOMAIN calls |-> calls[k].id])

PairedMessages(w) == Paired([i \in DOMAIN w |-> AsItem(w[i])])

\* Chat Completions: the tool messages behind a calling message answer its
\* calls, each once, before any other message.
ChatAccepts(w) == PairedMessages(w)

\* Anthropic: the user speaks first; the message behind a calling message
\* opens with the results of its calls and holds no other.
AnthropicAccepts(w) ==
    /\ w # <<>> /\ w[1].role = "user" /\ ~Has(w[1], "result")
    /\ \A i \in DOMAIN w : w[i].blocks # <<>>
    /\ \A i \in 1 .. Len(w) - 1 :
         /\ Kinds(w[i], "call") = Kinds(w[i + 1], "result")
         /\ \A k \in DOMAIN w[i + 1].blocks : w[i + 1].blocks[k].kind = "result" =>
              k <= Cardinality(Kinds(w[i], "call"))
    /\ ~Has(Last(w), "call")

\* No content without parts.
HaveParts(w) == \A i \in DOMAIN w : w[i].blocks # <<>>

\* Gemini: the contents behind a calling content answer its calls, each once,
\* before any other.
GoogleAccepts(w) == PairedMessages(w)

\* The conversation holds a white-space answer.
HoldsBlank(b) == Assistant(0, <<>>) \in ToSet(b.history)

\* No two user contents follow each other.
Alternates(w) == \A i \in 1 .. Len(w) - 1 : w[i].role # "user" \/ w[i + 1].role # "user"

\* Everything a request says, in order: what the runtime makes up apart.
Says(w) ==
    LET blocks == FlattenSeq([i \in DOMAIN w |-> w[i].blocks])
        said == SelectSeq(blocks, LAMBDA x : x.n # 0)
    IN [k \in DOMAIN said |-> said[k].n]

Images(w) ==
    Len(SelectSeq(FlattenSeq([i \in DOMAIN w |-> w[i].blocks]),
                  LAMBDA x : x.kind = "image"))

\* Every wire form of a bundle is accepted, has no call without an id, and
\* says what the bundle says.  A white-space answer leaves chatGoogle without
\* parts to send, so its contents all have parts only where there is none.
Accepted(b) ==
    LET items == b.history \o (IF b.task = 0 THEN <<>> ELSE <<User(b.task)>>)
        contents == SelectSeq(items, LAMBDA item : item.n # 0)
        said == [k \in DOMAIN contents |-> contents[k].n]
        responses == BuildResponsesRequest(b)
        chat == BuildChatCompletionsRequest(b)
        anthropic == BuildAnthropicMessages(b)
        google == BuildGoogleContents(b)
        same(w) == Says(w) = said /\ Images(w) = FoldLeft(LAMBDA x, y : x + y, 0, b.context)
    IN /\ \A item \in ToSet(b.history) : 0 \notin ToSet(item.calls)
       /\ ResponsesAccepts(responses) /\ same(responses)
       /\ ChatAccepts(chat) /\ same(chat)
       /\ AnthropicAccepts(anthropic) /\ same(anthropic)
       /\ GoogleNamesResults(b) /\ GoogleAccepts(google) /\ same(google)
       /\ HoldsBlank(b) \/ HaveParts(google)

-----------------------------------------------------------------------------
(***************************************************************************)
(* Replies.  "http" is what the transport gave; "error" an error object in *)
(* a readable body; "end" the provider's finish reason; "items" the pieces *)
(* of the message; "foreign" says the Responses gateway echoed other       *)
(* instructions than were sent.                                            *)
(***************************************************************************)
Item(kind, id) == [kind |-> kind, id |-> id]

\* "blank" is text of white space only, "reasoning" text the model does not
\* address to the user, "other" a piece of a type the client does not know.
Items == {Item(kind, "none") : kind \in {"text", "blank", "reasoning", "other"}}
           \union {Item("call", id) : id \in {"good", "blank", "padded"}}

Replies ==
    [http : {"ok", "lost", "busy", "refused", "garbled"}, error : BOOLEAN,
     end : {"stop", "calls", "length"}, foreign : BOOLEAN,
     items : UNION {[1 .. n -> Items] : n \in 0 .. 2}]

Failed == [ok |-> FALSE, text |-> FALSE, blank |-> FALSE, calls |-> <<>>]

\* LLMChoice: whether its content has text or is white space only and, for
\* each call, whether its id is usable.  The engine reads the finish reason only of a message with neither
\* text nor calls, and ends the run whatever it is.
Choice(text, blank, calls) ==
    [ok |-> TRUE, text |-> text, blank |-> blank /\ ~text,
     calls |-> [k \in DOMAIN calls |-> calls[k].id = "good"]]

Calls(r) ==
    FlattenSeq([k \in DOMAIN r.items |->
                   IF r.items[k].kind = "call" THEN <<r.items[k]>> ELSE <<>>])
HasItem(r, kind) == \E k \in DOMAIN r.items : r.items[k].kind = kind

\* Every call has an identifier that is neither blank nor padded.
IdentifiedCalls(r) == \A k \in DOMAIN Calls(r) : Calls(r)[k].id = "good"

\* validateResponsesAPIResponse
ValidResponses(r) ==
    /\ r.end = "stop" /\ ~HasItem(r, "other") /\ ~HasItem(r, "reasoning")
    /\ IdentifiedCalls(r)

\* convertResponsesResponse drops the texts of white space only.
ConvertResponsesResponse(r) == Choice(HasItem(r, "text"), FALSE, Calls(r))

\* chatOpenAI behind a readable body: an error object, an invalid response,
\* and an empty one to foreign instructions are refused.
ChatOpenAI(r) ==
    IF r.error \/ ~ValidResponses(r) \/ (r.foreign /\ r.items = <<>>) THEN Failed
    ELSE ConvertResponsesResponse(r)

\* validateChatCompletionsResponse: "stop" excludes calls, "tool_calls" needs
\* them, any other reason needs something usable.
ValidChatCompletions(r) ==
    /\ CASE r.end = "stop"  -> Calls(r) = <<>>
         [] r.end = "calls" -> Calls(r) # <<>>
         [] OTHER -> Calls(r) # <<>> \/ HasItem(r, "text") \/ HasItem(r, "reasoning")
    /\ ~HasItem(r, "other") /\ IdentifiedCalls(r)

\* convertChatCompletionsResponse
ConvertChatCompletionsResponse(r) == Choice(HasItem(r, "text"), HasItem(r, "blank"), Calls(r))

ChatOpenAIChatCompletions(r) ==
    IF r.error \/ ~ValidChatCompletions(r) THEN Failed
    ELSE ConvertChatCompletionsResponse(r)

\* convertAnthropicResponse
ConvertAnthropicResponse(r) ==
    IF \/ HasItem(r, "other") \/ HasItem(r, "reasoning") \/ ~IdentifiedCalls(r)
       \/ r.end = "length" \/ (r.end = "calls") # (Calls(r) # <<>>)
    THEN Failed ELSE Choice(HasItem(r, "text"), HasItem(r, "blank"), Calls(r))

ChatAnthropic(r) == IF r.error THEN Failed ELSE ConvertAnthropicResponse(r)

\* chatGoogle: calls get identifiers of the client's own; a reason other than
\* STOP needs some part; parts of other types are passed over.
ChatGoogle(r) ==
    LET named == [k \in DOMAIN Calls(r) |-> Item("call", "good")]
    IN IF r.error \/ (r.end # "stop" /\ r.items = <<>>) THEN Failed
       ELSE Choice(HasItem(r, "text") \/ HasItem(r, "reasoning"), HasItem(r, "blank"), named)

\* The dispatch of ChatWithTools to the configured client; a body that cannot
\* be had or read is an error whichever it is.
Received(r) ==
    IF r.http # "ok" THEN {Failed}
    ELSE {ChatOpenAI(r), ChatOpenAIChatCompletions(r), ChatAnthropic(r), ChatGoogle(r)}

Answers == UNION {Received(r) : r \in Replies}
=============================================================================
