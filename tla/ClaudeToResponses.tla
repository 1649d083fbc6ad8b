------------------------- MODULE ClaudeToResponses -------------------------
(***************************************************************************)
(* From the events of a Claude message to the events of a response         *)
(* (internal/conversion/claude/openai/responses/                           *)
(* claude_openai-responses_response.go).                                   *)
(*                                                                         *)
(* A block becomes an item, but adjacent blocks of text become one message *)
(* and a search and its result one call.  The item of a block is finished  *)
(* only when the next one starts or the message stops, because the reason  *)
(* it stopped for, which the status of the last items tells, comes last.   *)
(***************************************************************************)
EXTENDS ResponsesProtocol

None == -1

\* claudeToResponsesState.  message and reasoning have the open items (at is their
\* output index), calls those of the tool_use blocks, searches those of the searches
\* by their id, items the finished ones.  custom is the set of freeform tools' calls.
Fresh(custom) ==
    [next |-> 0, message |-> [at |-> None, body |-> <<>>],
     reasoning |-> [at |-> None, body |-> <<>>, signed |-> FALSE, told |-> FALSE],
     calls |-> <<>>, searches |-> <<>>, items |-> <<>>, inside |-> "", stop |-> "",
     custom |-> custom, out |-> <<>>]

Emit(st, e) == [st EXCEPT !.out = Append(@, e)]

\* claudeResponsesOutputStatus
Status(stop) == IF stop = "max_tokens" THEN "incomplete" ELSE "completed"

\* output_item.done, and the item for the last event
Finish(st, ix, item) == [Emit(st, ItemDone(ix, item)) EXCEPT !.items = Put(@, ix, item)]

\* finalizeAssistantMessage
FinishMessage(st) ==
    LET ix == st.message.at
        body == st.message.body
        told == Emit(Emit(st, BodyDone(ix, "message", body)), PartDone(ix, "message", body))
        done == Finish(told, ix, [Item("message", 0, body) EXCEPT !.status = Status(st.stop)])
    IN IF ix = None THEN st
       ELSE [done EXCEPT !.message = [at |-> None, body |-> <<>>],
                         !.inside = IF @ = "text" THEN "" ELSE @]

\* finalizeReasoningDeltas
TellReasoning(st) ==
    LET r == st.reasoning IN
    IF r.at = None \/ r.told THEN st
    ELSE [Emit(Emit(st, BodyDone(r.at, "reasoning", r.body)),
               PartDone(r.at, "reasoning", r.body)) EXCEPT !.reasoning.told = TRUE]

\* finalizeReasoningItem
FinishReasoning(st, status) ==
    LET s == TellReasoning(st)
        item == [Item("reasoning", 0, s.reasoning.body)
                   EXCEPT !.signed = s.reasoning.signed, !.status = status]
    IN IF st.reasoning.at = None THEN st
       ELSE [Finish(s, s.reasoning.at, item)
               EXCEPT !.reasoning = [at |-> None, body |-> <<>>, signed |-> FALSE,
                                     told |-> FALSE]]

\* Arguments that never came are an empty object, unless the answer was cut.
Arguments(st, call, status) ==
    IF call.args = <<>> /\ call.of \notin st.custom /\ status = "completed" THEN <<0>>
    ELSE call.args

\* finalizeFuncItem
FinishCall(st, block, status) ==
    LET call == st.calls[block]
        args == Arguments(st, call, status)
        item == [Item("function_call", call.of, args) EXCEPT !.status = status]
    IN IF call.done THEN st
       ELSE [Finish(Emit(st, BodyDone(call.at, "function_call", args)), call.at, item)
               EXCEPT !.calls[block].done = TRUE, !.inside = IF @ = "func" THEN "" ELSE @]

\* Calls other than that of the block; at most one of them is not finished.
FinishCalls(st, but, status) ==
    FoldLeft(LAMBDA s, b : FinishCall(s, b, status), st,
             SetToSeq(DOMAIN st.calls \ {but}))

\* finalizeWebSearchWithStatus
FinishSearch(st, id, status) ==
    LET w == st.searches[id]
        item == [Item("web_search_call", id, w.body) EXCEPT !.status = status]
    IN IF w.done THEN st
       ELSE [Finish(st, w.at, item) EXCEPT !.searches[id].done = TRUE]

\* The searches that have a result, or all, in the order they began.
FinishSearches(st, all, status) ==
    LET Before(a, b) == st.searches[a].at < st.searches[b].at
        due == {id \in DOMAIN st.searches : all \/ st.searches[id].result}
    IN FoldLeft(LAMBDA s, id : FinishSearch(s, id, status), st, Ordered(due, Before))

-----------------------------------------------------------------------------
StartText(st) ==
    IF st.message.at # None THEN [st EXCEPT !.inside = "text"]
    ELSE [Emit(Emit(st, ItemAdded(st.next, Item("message", 0, <<>>))),
               PartAdded(st.next, "message"))
            EXCEPT !.message.at = st.next, !.next = @ + 1, !.inside = "text"]

StartCall(st, block, of) ==
    [Emit(st, ItemAdded(st.next, Item("function_call", of, <<>>)))
       EXCEPT !.calls = Put(@, block, [at |-> st.next, of |-> of, args |-> <<>>,
                                       done |-> FALSE]),
              !.next = @ + 1, !.inside = "func"]

\* startWebSearch
StartSearch(st, block, id) ==
    [Emit(st, ItemAdded(st.next, Item("web_search_call", id, <<>>)))
       EXCEPT !.searches = Put(@, id, [at |-> st.next, block |-> block, body |-> <<>>,
                                       result |-> FALSE, done |-> FALSE]),
              !.next = @ + 1]

StartReasoning(st, signed) ==
    [Emit(Emit(st, ItemAdded(st.next, Item("reasoning", 0, <<>>))),
          PartAdded(st.next, "reasoning"))
       EXCEPT !.reasoning = [at |-> st.next, body |-> <<>>, signed |-> signed,
                             told |-> FALSE],
              !.next = @ + 1]

\* content_block_start
BlockBegins(st, e) ==
    LET a == IF e.kind = "text" THEN st ELSE FinishMessage(st)
        s == FinishSearches(FinishCalls(FinishReasoning(a, "completed"), e.ix, "completed"),
                            FALSE, "completed")
    IN CASE e.kind = "text" -> StartText(s)
         [] e.kind = "tool_use" -> StartCall(s, e.ix, e.of)
         [] e.kind = "server_tool_use" -> StartSearch(s, e.ix, e.of)
         [] e.kind = "web_search_tool_result" ->
              IF e.of \in DOMAIN s.searches THEN [s EXCEPT !.searches[e.of].result = TRUE]
              ELSE s
         [] e.kind \in {"thinking", "redacted_thinking"} ->
              StartReasoning(s, e.kind = "redacted_thinking")
         [] OTHER -> s

\* The pieces of a call; a freeform tool's input is sent whole at its end.
CallPiece(st, e) ==
    LET call == st.calls[e.ix]
        s == [st EXCEPT !.calls[e.ix].args = @ \o e.body]
    IN IF st.inside # "func" THEN st
       ELSE IF call.of \in st.custom THEN s
       ELSE Emit(s, Delta(call.at, "function_call", e.body))

\* content_block_delta
Piece(st, e) ==
    CASE e.kind = "text" ->
           [Emit(st, Delta(st.message.at, "message", e.body))
              EXCEPT !.message.body = @ \o e.body]
      [] e.kind = "thinking" /\ st.reasoning.at # None ->
           [Emit(st, Delta(st.reasoning.at, "reasoning", e.body))
              EXCEPT !.reasoning.body = @ \o e.body]
      [] e.kind = "server_tool_use" ->
           [st EXCEPT !.searches = [id \in DOMAIN @ |->
              IF @[id].block = e.ix THEN [@[id] EXCEPT !.body = @ \o e.body] ELSE @[id]]]
      [] e.kind = "tool_use" -> CallPiece(st, e)
      [] OTHER -> st

\* content_block_stop
BlockEnds(st) ==
    IF st.inside # "" THEN [st EXCEPT !.inside = ""] ELSE TellReasoning(st)

\* What is open is finished with the status of the whole answer.
FinishAll(st) ==
    LET status == Status(st.stop)
    IN FinishSearches(FinishCalls(FinishMessage(FinishReasoning(st, status)), None, status),
                      TRUE, status)

\* response.output: each item is at its own output index.
Output(st) == [i \in 1 .. st.next |-> st.items[i - 1]]

\* message_stop
End(st) ==
    LET s == FinishAll(st)
        reason == IF Status(st.stop) = "incomplete" THEN "max_output_tokens" ELSE ""
    IN Emit(s, Terminal(Status(st.stop), reason, Output(s)))

\* ConvertClaudeResponseToOpenAIResponses
Translate(st, e) ==
    LET s == [st EXCEPT !.out = <<>>] IN
    CASE e.t = "message_start" -> Emit(Fresh(st.custom), Created)
      [] e.t = "content_block_start" -> BlockBegins(s, e)
      [] e.t = "content_block_delta" -> Piece(s, e)
      [] e.t = "signature_delta" ->
           IF s.reasoning.at = None THEN s ELSE [s EXCEPT !.reasoning.signed = TRUE]
      [] e.t = "content_block_stop" -> BlockEnds(s)
      [] e.t = "message_delta" -> [s EXCEPT !.stop = e.stop]
      [] e.t = "message_stop" -> End(s)
      [] OTHER -> s

-----------------------------------------------------------------------------
(***************************************************************************)
(* A message that was collected from its stream becomes a response at once *)
(* (ConvertClaudeResponseToOpenAIResponsesNonStream); blocks are those of  *)
(* the message.                                                            *)
(***************************************************************************)
\* The walk through the events; text is added to the active message.
Collected(blocks) ==
    LET New(s, item, active) == [items |-> Append(s.items, item), active |-> active]
        Add(s, b) ==
          CASE b.kind = "text" /\ s.active ->
                 [s EXCEPT !.items[Len(s.items)].body = @ \o b.body]
            [] b.kind = "text" /\ ~s.active -> New(s, Item("message", 0, b.body), TRUE)
            [] b.kind = "tool_use" -> New(s, Item("function_call", b.of, b.body), FALSE)
            [] b.kind = "server_tool_use" ->
                 New(s, Item("web_search_call", b.of, b.body), FALSE)
            [] b.kind = "thinking" ->
                 New(s, [Item("reasoning", 0, b.body) EXCEPT !.signed = b.signed], FALSE)
            [] OTHER -> [s EXCEPT !.active = FALSE]
    IN FoldLeft(Add, [items |-> <<>>, active |-> FALSE], blocks).items

Whole(blocks, stop, custom) ==
    LET items == Collected(blocks)
        Ended(i) ==
          LET status == IF i = Len(items) THEN Status(stop) ELSE "completed"
              item == [items[i] EXCEPT !.status = status]
          IN IF item.kind = "function_call" /\ item.body = <<>> /\ status = "completed"
                /\ item.of \notin custom
             THEN [item EXCEPT !.body = <<0>>] ELSE item
    IN [i \in DOMAIN items |-> Ended(i)]
=============================================================================
