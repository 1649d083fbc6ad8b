------------------------- MODULE OpenAIToResponses -------------------------
(***************************************************************************)
(* From the chunks of a chat completion to the events of a response        *)
(* (internal/conversion/openai/openai/responses/                           *)
(* openai_openai-responses_response.go), for an answer with one choice.    *)
(***************************************************************************)
EXTENDS ResponsesProtocol

None == -1

NewCall == [at |-> None, id |-> FALSE, name |-> FALSE, args |-> <<>>, sent |-> 0,
            added |-> FALSE, done |-> FALSE]

\* oaiToResponsesState.  message is the item of the text and calls those of the tools
\* (at is the output index), reasoning the open one and thoughts the finished ones.
Fresh(custom) ==
    [started |-> FALSE, next |-> 0,
     message |-> [at |-> None, body |-> <<>>, done |-> FALSE],
     reasoning |-> [at |-> None, body |-> <<>>], thoughts |-> <<>>, calls |-> <<>>,
     finish |-> "", completed |-> FALSE, custom |-> custom, out |-> <<>>]

Emit(st, e) == [st EXCEPT !.out = Append(@, e)]
Told(st, ix, kind, body) ==
    Emit(Emit(st, BodyDone(ix, kind, body)), PartDone(ix, kind, body))
Announced(st, ix, kind) ==
    Emit(Emit(st, ItemAdded(ix, Item(kind, 0, <<>>))), PartAdded(ix, kind))

\* incompleteByFinishReason
Status(finish) ==
    IF finish \in {"length", "max_tokens", "content_filter"} THEN "incomplete"
    ELSE "completed"

-----------------------------------------------------------------------------
\* emitToolItem: the item is announced when the call and its tool are known, or when
\* it has to be, with a made up id.
AddCall(st, c, force) ==
    LET call == st.calls[c] IN
    IF call.added \/ ~(force \/ (call.id /\ call.name)) THEN st
    ELSE [Emit(st, ItemAdded(call.at, Item("function_call", c, <<>>)))
            EXCEPT !.calls[c].added = TRUE, !.calls[c].id = TRUE]

\* emitPendingFunctionArgs
SendArguments(st, c) ==
    LET call == st.calls[c] IN
    IF ~call.added \/ c \in st.custom \/ Len(call.args) <= call.sent THEN st
    ELSE [Emit(st, Delta(call.at, "function_call",
                         SubSeq(call.args, call.sent + 1, Len(call.args))))
            EXCEPT !.calls[c].sent = Len(call.args)]

\* stopReasoning
StopReasoning(st) ==
    LET r == st.reasoning
        item == Item("reasoning", 0, r.body)
    IN IF r.at = None THEN st
       ELSE [Emit(Told(st, r.at, "reasoning", r.body), ItemDone(r.at, item))
               EXCEPT !.thoughts = Append(@, [at |-> r.at, item |-> item]),
                      !.reasoning = [at |-> None, body |-> <<>>]]

MessageItem(st) == [Item("message", 0, st.message.body) EXCEPT !.status = Status(st.finish)]

\* emitMessageItemDone
MessageDone(st) ==
    LET m == st.message IN
    IF m.at = None \/ m.done THEN st
    ELSE [Emit(Told(st, m.at, "message", m.body), ItemDone(m.at, MessageItem(st)))
            EXCEPT !.message.done = TRUE]

\* The end of a call.  Without a reason to finish, arguments that are not a JSON text
\* leave it open; without arguments it has an empty object if tools were asked for.
CallDone(st, c) ==
    LET partial == st.calls[c].args = <<>> \/ Last(st.calls[c].args) # 0
        s == SendArguments(AddCall(st, c, TRUE), c)
        call == s.calls[c]
        args == IF call.args = <<>> /\ st.finish \in {"tool_calls", "stop"} THEN <<0>>
                ELSE call.args
        item == [Item("function_call", c, args) EXCEPT !.status = Status(st.finish)]
    IN IF st.calls[c].done \/ (st.finish = "" /\ partial) THEN st
       ELSE [Emit(Emit(s, BodyDone(call.at, "function_call", args)), ItemDone(call.at, item))
               EXCEPT !.calls[c].done = TRUE]

InOrder(calls) ==
    LET Before(a, b) == calls[a].at < calls[b].at IN Ordered(DOMAIN calls, Before)

\* finalizeOpenItems
FinishItems(st) ==
    FoldLeft(CallDone, StopReasoning(MessageDone(st)), InOrder(st.calls))

\* Mutant: the items go by their kinds.
OutputByKind(st) ==
    LET calls == SelectSeq(InOrder(st.calls), LAMBDA c : st.calls[c].done)
    IN [i \in DOMAIN st.thoughts |-> st.thoughts[i].item]
         \o (IF st.message.at = None THEN <<>> ELSE <<MessageItem(st)>>)
         \o [i \in DOMAIN calls |-> [Item("function_call", calls[i], st.calls[calls[i]].args)
                                        EXCEPT !.status = Status(st.finish)]]

\* response.output in buildResponsesCompletedEvent
Output(st) ==
    LET message == IF st.message.at = None THEN {}
                   ELSE {[at |-> st.message.at, item |-> MessageItem(st)]}
        calls == {[at |-> st.calls[c].at,
                   item |-> [Item("function_call", c, st.calls[c].args)
                               EXCEPT !.status = Status(st.finish)]] :
                     c \in {c \in DOMAIN st.calls : st.calls[c].done}}
        Before(a, b) == a.at < b.at
        sorted == Ordered(ToSet(st.thoughts) \union message \union calls, Before)
    IN [i \in DOMAIN sorted |-> sorted[i].item]

\* buildResponsesCompletedEvent; nothing is said when a call is left open, or when
\* there is no message and no call.
Completed(st) ==
    LET added == {c \in DOMAIN st.calls : st.calls[c].added}
        open == \E c \in added : ~st.calls[c].done
        reason == CASE st.finish \in {"length", "max_tokens"} -> "max_output_tokens"
                    [] st.finish = "content_filter" -> "content_filter"
                    [] OTHER -> ""
    IN IF open \/ (st.message.at = None /\ added = {}) THEN st
       ELSE [Emit(st, Terminal(Status(st.finish), reason, Output(st)))
               EXCEPT !.completed = TRUE]

-----------------------------------------------------------------------------
Thought(st, body) ==
    LET s == IF st.reasoning.at # None THEN st
             ELSE [Announced(st, st.next, "reasoning")
                     EXCEPT !.reasoning.at = st.next, !.next = @ + 1]
    IN IF body = <<>> THEN st
       ELSE [Emit(s, Delta(s.reasoning.at, "reasoning", body))
               EXCEPT !.reasoning.body = @ \o body]

Text(st, body) ==
    LET a == StopReasoning(st)
        s == IF a.message.at # None THEN a
             ELSE [Announced(a, a.next, "message")
                     EXCEPT !.message.at = a.next, !.next = @ + 1]
    IN IF body = <<>> THEN st
       ELSE [Emit(s, Delta(s.message.at, "message", body)) EXCEPT !.message.body = @ \o body]

\* One element of tool_calls
CallPiece(st, piece) ==
    LET c == piece.call
        s == IF c \in DOMAIN st.calls THEN st
             ELSE [st EXCEPT !.calls = Put(@, c, [NewCall EXCEPT !.at = st.next]),
                             !.next = @ + 1]
        a == [s EXCEPT !.calls[c].id = @ \/ piece.id, !.calls[c].name = @ \/ piece.name,
                       !.calls[c].args = @ \o piece.args]
    IN SendArguments(AddCall(a, c, FALSE), c)

Calls(st, pieces) ==
    IF pieces = <<>> THEN st
    ELSE FoldLeft(CallPiece, MessageDone(StopReasoning(st)), pieces)

\* The response is announced with the first chunk.
Opened(st) == IF st.started THEN st ELSE [Emit(st, Created) EXCEPT !.started = TRUE]

\* A chunk; with the reason to finish the items are finished.
Chosen(st, chunk) ==
    LET s == Calls(Text(Thought(st, chunk.think), chunk.text), chunk.calls)
    IN IF chunk.finish = "" THEN s ELSE FinishItems([s EXCEPT !.finish = chunk.finish])

\* ConvertOpenAIChatCompletionsResponseToOpenAIResponses; the end waits for [DONE], as
\* the usage may come after the reason to finish.
Translate(st, chunk) ==
    LET s == [st EXCEPT !.out = <<>>] IN
    CASE chunk.t = "chunk" -> Chosen(Opened(s), chunk)
      [] chunk.t = "done" /\ (~s.started \/ s.completed) -> s
      [] OTHER -> Completed(FinishItems(s))

-----------------------------------------------------------------------------
(***************************************************************************)
(* A completion that was not streamed becomes a response at once           *)
(* (ConvertOpenAIChatCompletionsResponseToOpenAIResponsesNonStream).       *)
(***************************************************************************)
Whole(completion) ==
    LET status == Status(completion.finish)
        item(kind, body) == IF body = <<>> THEN <<>>
                            ELSE <<[Item(kind, 0, body) EXCEPT !.status = status]>>
        tools == [i \in DOMAIN completion.calls |->
                    [Item("function_call", completion.calls[i].call, completion.calls[i].args)
                       EXCEPT !.status = status]]
    IN item("reasoning", completion.think) \o item("message", completion.text) \o tools
=============================================================================
