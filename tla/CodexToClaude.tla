--------------------------- MODULE CodexToClaude ---------------------------
(***************************************************************************)
(* From the events of a response to the events of a Claude message         *)
(* (internal/conversion/codex/claude/codex_claude_response.go and its web  *)
(* search part).                                                           *)
(*                                                                         *)
(* Items may overlap and Claude's blocks may not: calls queue, the one at  *)
(* the head has the open block, and every event of another kind of item    *)
(* that arrives meanwhile is deferred until the queue is empty.            *)
(***************************************************************************)
EXTENDS ClaudeProtocol

None == -1

\* codexFunctionCallStream; sent is EmittedArgumentsLength, hail is
\* EmitInitialEmptyDelta.
NewCall == [of |-> 0, named |-> FALSE, args |-> <<>>, sent |-> 0, streamed |-> FALSE,
            hail |-> FALSE, done |-> FALSE]

\* ConvertCodexResponseToClaudeParams: open is the kind of the open block of text or
\* thoughts.
Fresh == [toolUse |-> FALSE, next |-> 0, textSeen |-> FALSE, open |-> "",
          signature |-> FALSE, summary |-> FALSE, uses |-> {}, results |-> {},
          calls |-> <<>>, queue |-> <<>>, active |-> None, deferred |-> <<>>,
          out |-> <<>>]

Emit(st, e) == [st EXCEPT !.out = Append(@, e)]

\* startCodexTextBlock, startCodexThinkingBlock
Start(st, kind) ==
    IF st.open = kind THEN st ELSE [Emit(st, BlockStart(st.next, kind, 0)) EXCEPT !.open = kind]

\* stopCodexTextBlock, finalizeCodexThinkingBlock
Stop(st, kind) ==
    IF st.open # kind THEN st
    ELSE LET s == IF kind = "thinking" /\ st.signature THEN Emit(st, Signature(st.next)) ELSE st
         IN [Emit(s, BlockStop(st.next)) EXCEPT !.open = "", !.next = @ + 1]

StopBoth(st) == Stop(Stop(st, "thinking"), "text")

Say(st, kind, body) == Emit(st, BlockDelta(st.next, kind, body))

-----------------------------------------------------------------------------
\* recordCodexFunctionCall, updateCodexFunctionCallIdentity
Record(st, ix, item) ==
    LET s == IF ix \in DOMAIN st.calls THEN st
             ELSE [st EXCEPT !.calls = Put(@, ix, NewCall), !.queue = Append(@, ix)]
    IN [s EXCEPT !.calls[ix].of = item.of, !.calls[ix].named = @ \/ item.named]

\* updateCodexFunctionCallArguments
Grown(call, body) == [call EXCEPT !.args = @ \o body, !.streamed = TRUE]
Settled(call, body) ==
    IF body # <<>> /\ (call.streamed => IsPrefix(call.args, body))
    THEN [call EXCEPT !.args = body] ELSE call

\* appendCodexFunctionCallBufferedArguments, for the open call
SendArguments(st) ==
    IF st.active = None \/ st.calls[st.active].sent = Len(st.calls[st.active].args) THEN st
    ELSE LET call == st.calls[st.active]
         IN [Say(st, "tool_use", SubSeq(call.args, call.sent + 1, Len(call.args)))
               EXCEPT !.calls[st.active].sent = Len(call.args)]

StartCall(st, ix) ==
    LET s == Emit(st, BlockStart(st.next, "tool_use", st.calls[ix].of))
    IN [IF st.calls[ix].hail THEN Say(s, "tool_use", <<>>) ELSE s
          EXCEPT !.active = ix, !.toolUse = TRUE]

\* removeCodexFunctionCallFromQueue with it: the open call is the head.
CloseCall(st) ==
    [Emit(st, BlockStop(st.next))
       EXCEPT !.next = @ + 1, !.active = None, !.queue = Tail(@)]

\* appendCodexFunctionCallQueue, for one call: it is started when it is the head of the
\* queue and no other is open, and closed when it is finished.
Turn(st, ix) ==
    LET a == IF st.active = None /\ Head(st.queue) = ix /\ st.calls[ix].named
             THEN StartCall(st, ix) ELSE st
        b == SendArguments(a)
    IN IF b.active = ix /\ b.calls[ix].done THEN CloseCall(b) ELSE b

\* Calls are sent in the order of the queue, up to the first one that is not finished,
\* or whose tool is not known.
Advance(st) == FoldLeft(Turn, st, st.queue)

-----------------------------------------------------------------------------
\* appendCodexWebSearchServerToolUse
SearchUse(st, ix, query) ==
    LET s == StopBoth(st)
        asked(u) == IF query = <<>> THEN u ELSE Say(u, "server_tool_use", query)
    IN IF ix \in st.uses THEN asked(st)
       ELSE LET a == asked(Emit(s, BlockStart(s.next, "server_tool_use", ix)))
            IN [Emit(a, BlockStop(a.next)) EXCEPT !.next = @ + 1, !.uses = @ \union {ix}]

\* appendCodexWebSearchToolResult; a search without a query has no action.
SearchResult(st, ix, query) ==
    LET s == SearchUse(st, ix, query)
    IN IF ix \in s.results \/ query = <<>> THEN s
       ELSE [s EXCEPT !.next = @ + 1, !.results = @ \union {ix},
                      !.out = @ \o <<BlockStart(s.next, "web_search_tool_result", ix),
                                     BlockStop(s.next)>>]

\* An item of reasoning is finished: its signature is the last one known.
ReasoningDone(st, item) ==
    LET s == [Stop(st, "text") EXCEPT !.signature = @ \/ item.signed]
        a == IF s.summary \/ ~s.signature THEN s ELSE Start(s, "thinking")
        b == IF s.summary \/ s.signature THEN Stop(a, "thinking") ELSE a
    IN [b EXCEPT !.signature = FALSE, !.summary = FALSE]

\* A finished message whose text did not come in pieces.
MessageDone(st, item) ==
    IF st.textSeen \/ item.body = <<>> THEN st
    ELSE [Stop(Say(Start(Stop(st, "thinking"), "text"), "text", item.body), "text")
            EXCEPT !.textSeen = TRUE]

\* Every event but those of calls, the terminal ones and errors.
Content(st, e) ==
    CASE e.t = "created" -> Emit(st, MessageStart)
      [] e.t = "part_added" /\ e.kind = "reasoning" ->
           LET s == Stop(st, "text")
           IN [IF s.open = "thinking" THEN Say(s, "thinking", <<>>) ELSE Start(s, "thinking")
                 EXCEPT !.summary = TRUE]
      [] e.t = "part_added" /\ e.kind = "message" -> Start(Stop(st, "thinking"), "text")
      [] e.t = "delta" /\ e.kind = "reasoning" ->
           Say(Start(Stop(st, "text"), "thinking"), "thinking", e.body)
      [] e.t = "delta" /\ e.kind = "message" ->
           [Say(Start(Stop(st, "thinking"), "text"), "text", e.body)
              EXCEPT !.textSeen = TRUE]
      [] e.t = "part_done" /\ e.kind = "message" -> Stop(st, "text")
      [] e.t = "item_added" /\ e.item.kind = "reasoning" ->
           [Stop(Stop(st, "text"), "thinking")
              EXCEPT !.summary = FALSE, !.signature = e.item.signed]
      [] e.t = "item_done" /\ e.item.kind = "message" -> MessageDone(st, e.item)
      [] e.t = "item_done" /\ e.item.kind = "reasoning" -> ReasoningDone(st, e.item)
      [] e.t = "item_done" /\ e.item.kind = "web_search_call" ->
           SearchResult(st, e.ix, e.item.body)
      [] OTHER -> st

\* appendDeferredCodexStreamEvents
Replay(st) == FoldLeft(Content, [st EXCEPT !.deferred = <<>>], st.deferred)

\* mapCodexStopReasonToClaude
StopReason(reason, toolUse) ==
    CASE toolUse -> "tool_use"
      [] ~toolUse /\ reason = "max_output_tokens" -> "max_tokens"
      [] ~toolUse /\ reason = "content_filter" -> "refusal"
      [] OTHER -> "end_turn"

\* appendCodexFunctionCallsFromTerminal: the last event has every item, so a call that
\* is still waiting is finished from there, or dropped when nothing names its tool.
Complete(st, output, i) ==
    IF output[i].kind # "function_call" THEN st
    ELSE LET s == Record(st, i - 1, output[i])
         IN [s EXCEPT !.calls[i - 1] = [Settled(@, output[i].body) EXCEPT !.done = TRUE]]
CallsFromTerminal(st, output) ==
    LET all == FoldLeft(LAMBDA s, i : Complete(s, output, i), st, [i \in DOMAIN output |-> i])
        named == FoldLeft(LAMBDA q, ix : IF all.calls[ix].named THEN Append(q, ix) ELSE q,
                          <<>>, all.queue)
        ready == [all EXCEPT !.queue = named,
                             !.calls = [ix \in DOMAIN @ |-> [@[ix] EXCEPT !.done = TRUE]]]
    IN [Advance(ready) EXCEPT !.calls = <<>>, !.queue = <<>>, !.active = None]

End(st, e) ==
    LET s == StopBoth(Replay(CallsFromTerminal(StopBoth(st), e.output)))
    IN Emit(Emit(s, MessageDelta(StopReason(e.reason, s.toolUse))), MessageStop)

\* The events of a call: announced, finished, a piece of its arguments or all of them.
Call(st, e) ==
    CASE e.t = "item_added" ->
           LET s == Record(StopBoth(st), e.ix, e.item)
           IN Advance([s EXCEPT !.calls[e.ix].hail = @ \/ s.calls[e.ix].named])
      [] e.t = "item_done" ->
           LET s == Record(StopBoth(st), e.ix, e.item)
           IN Advance([s EXCEPT !.calls[e.ix] =
                                  [Settled(@, e.item.body) EXCEPT !.done = TRUE]])
      [] e.t = "delta" -> SendArguments([st EXCEPT !.calls[e.ix] = Grown(@, e.body)])
      [] e.t = "body_done" -> SendArguments([st EXCEPT !.calls[e.ix] = Settled(@, e.body)])

IsCall(e) ==
    CASE e.t \in {"item_added", "item_done"} -> e.item.kind = "function_call"
      [] e.t \in {"delta", "body_done"} -> e.kind = "function_call"
      [] OTHER -> FALSE

\* ConvertCodexResponseToClaude, with shouldDeferCodexStreamEvent
Translate(st, e) ==
    LET s == [st EXCEPT !.out = <<>>]
        r == CASE e.t = "terminal" -> End(s, e)
               [] e.t = "error" -> Emit(s, Fault)
               [] IsCall(e) -> Call(s, e)
               [] OTHER -> Content(s, e)
    IN IF s.active # None /\ ~IsCall(e) /\ e.t \notin {"terminal", "error"}
       THEN [s EXCEPT !.deferred = Append(@, e)]
       ELSE IF r.queue = <<>> THEN Replay(r) ELSE r

-----------------------------------------------------------------------------
(***************************************************************************)
(* A response that was not streamed becomes a message at once              *)
(* (ConvertCodexResponseToClaudeNonStream).                                *)
(***************************************************************************)
Whole(output, reason) ==
    LET Blocks(ix) ==
          LET item == output[ix + 1] IN
          CASE item.kind = "reasoning" ->
                 IF item.body # <<>> \/ item.signed
                 THEN <<[Block("thinking", 0, item.body) EXCEPT !.signed = item.signed]>>
                 ELSE <<>>
            [] item.kind = "message" ->
                 IF item.body # <<>> THEN <<Block("text", 0, item.body)>> ELSE <<>>
            [] item.kind = "function_call" ->
                 <<Block("tool_use", item.of,
                         IF item.body # <<>> /\ Last(item.body) = 0 THEN item.body ELSE <<>>)>>
            [] item.kind = "web_search_call" ->
                 IF item.body = <<>> THEN <<>>
                 ELSE <<Block("server_tool_use", ix, item.body),
                        Block("web_search_tool_result", ix, <<>>)>>
        calls == \E i \in DOMAIN output : output[i].kind = "function_call"
    IN [blocks |-> FlattenSeq([i \in DOMAIN output |-> Blocks(i - 1)]),
        stop |-> StopReason(reason, calls)]
=============================================================================
