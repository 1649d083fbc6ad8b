--------------------------- MODULE OpenAIToClaude ---------------------------
(***************************************************************************)
(* From the chunks of a chat completion to the events of a Claude message  *)
(* (internal/conversion/openai/claude/openai_claude_response.go).          *)
(*                                                                         *)
(* Claude's blocks follow each other, while chat may send text, thoughts   *)
(* and the arguments of several calls in any order: calls wait for their   *)
(* turn in calls, and what arrives while one is open is held back.         *)
(***************************************************************************)
EXTENDS ClaudeProtocol

None == -1

\* ToolCallAccumulator.
NewCall == [id |-> FALSE, name |-> FALSE, args |-> <<>>, begun |-> FALSE]

\* ConvertOpenAIResponseToAnthropicParams: at holds the index of the open text and
\* thinking block, tool and toolAt the open call and its block; closed, ended and
\* stopped say that the blocks, message_delta and message_stop are through.
Fresh == [started |-> FALSE, at |-> [text |-> None, thinking |-> None], next |-> 0,
          tool |-> None, toolAt |-> None, calls |-> <<>>, announced |-> FALSE,
          finish |-> "", any |-> FALSE, held |-> <<>>, closed |-> FALSE,
          ended |-> FALSE, stopped |-> FALSE, out |-> <<>>]

Emit(st, e) == [st EXCEPT !.out = Append(@, e)]

\* hasValidToolCallArguments
ValidArguments(st) ==
    \A c \in DOMAIN st.calls : st.calls[c].args = <<>> \/ Last(st.calls[c].args) = 0

\* Mutant: an answer that was cut off ends like another one.
StopByCalls(st) == IF st.announced THEN "tool_use" ELSE "end_turn"

\* mapOpenAIFinishReasonToAnthropic after terminalOpenAIFinishReason
StopReason(st) ==
    CASE st.finish = "length" -> "max_tokens"
      [] st.finish = "content_filter" -> "end_turn"
      [] st.finish \notin {"length", "content_filter"} /\ st.announced ->
             IF ValidArguments(st) THEN "tool_use" ELSE "max_tokens"
      [] OTHER -> IF st.finish \in {"tool_calls", "function_call"} THEN "tool_use"
                  ELSE "end_turn"

\* stopTextContentBlock, stopThinkingContentBlock
Stop(st, kind) ==
    IF st.at[kind] = None THEN st
    ELSE [Emit(st, BlockStop(st.at[kind])) EXCEPT !.at[kind] = None]

Start(st, kind) ==
    IF st.at[kind] # None THEN st
    ELSE [Emit(st, BlockStart(st.next, kind, 0))
            EXCEPT !.at[kind] = st.next, !.next = @ + 1]

\* Mutant: a block is sent although a call is open.
ContentUnheld(st, kind, other, body) ==
    IF body = <<>> THEN st
    ELSE LET s == Start(Stop(st, other), kind)
         IN [Emit(s, BlockDelta(s.at[kind], kind, body)) EXCEPT !.any = TRUE]

\* InterleavedContentChunks: what is held of one kind in a row is one block.
Hold(held, kind, body) ==
    IF held # <<>> /\ Last(held).kind = kind
    THEN Append(Front(held), [kind |-> kind, body |-> Last(held).body \o body])
    ELSE Append(held, [kind |-> kind, body |-> body])

\* Text or a thought: it is held while a call is open, and otherwise goes to the open
\* block of its kind.
Content(st, kind, other, body) ==
    CASE body = <<>> -> st
      [] body # <<>> /\ st.tool # None ->
           [st EXCEPT !.any = @ \/ kind = "text",
              !.held = Hold(@, kind, body)]
      [] OTHER ->
           LET s == Start(Stop(st, other), kind)
           IN [Emit(s, BlockDelta(s.at[kind], kind, body))
                 EXCEPT !.any = @ \/ kind = "text"]

-----------------------------------------------------------------------------
\* emitToolUseStart
StartCall(st, c) ==
    LET s == Stop(Stop(st, "thinking"), "text")
    IN [Emit(s, BlockStart(s.next, "tool_use", c))
          EXCEPT !.next = @ + 1, !.calls[c].begun = TRUE, !.announced = TRUE,
                 !.tool = c, !.toolAt = s.next]

\* One element of tool_calls: what it says of the call is kept, and the block is
\* started when the call is known and no other is open.
CallPiece(st, piece) ==
    LET old == IF piece.call \in DOMAIN st.calls THEN st.calls[piece.call] ELSE NewCall
        new == [old EXCEPT !.id = @ \/ piece.id, !.name = @ \/ piece.name,
                           !.args = @ \o piece.args]
        s == [st EXCEPT !.calls = Put(@, piece.call, new)]
    IN IF ~new.begun /\ new.name /\ new.id /\ ~st.closed /\ st.tool = None
       THEN StartCall(s, piece.call) ELSE s

\* finalizeSingleToolCall, which starts a call late that never got a name.
EndCall(st, c) ==
    LET call == st.calls[c] IN
    IF ~call.begun /\ ~call.name /\ ~call.id /\ call.args = <<>> THEN st
    ELSE LET s == IF call.begun THEN st ELSE StartCall(st, c)
             a == IF call.args = <<>> THEN s
                  ELSE Emit(s, BlockDelta(s.toolAt, "tool_use", call.args))
         IN [Emit(a, BlockStop(s.toolAt)) EXCEPT !.tool = None, !.toolAt = None]

\* emitBufferedInterleavedContent
SendBlock(st, h) ==
    [st EXCEPT !.next = @ + 1,
               !.out = @ \o <<BlockStart(st.next, h.kind, 0),
                              BlockDelta(st.next, h.kind, h.body), BlockStop(st.next)>>]
Release(st) == [FoldLeft(SendBlock, st, st.held) EXCEPT !.held = <<>>]

\* finalizeOpenAIAnthropicContentBlocks
CloseBlocks(st) ==
    LET s == Stop(Stop(st, "thinking"), "text")
        a == IF s.tool = None THEN s ELSE EndCall(s, s.tool)
        rest == Ordered({c \in DOMAIN a.calls : ~a.calls[c].begun}, <)
    IN IF s.closed THEN s
       ELSE Release([FoldLeft(EndCall, a, rest) EXCEPT !.closed = TRUE])

\* emitAnthropicMessageDelta and emitMessageStopIfNeeded
End(st) ==
    LET s == IF st.ended THEN st
             ELSE [Emit(st, MessageDelta(StopReason(st))) EXCEPT !.ended = TRUE]
    IN IF s.stopped THEN s ELSE [Emit(s, MessageStop) EXCEPT !.stopped = TRUE]

-----------------------------------------------------------------------------
Delta(st, chunk) ==
    IF ~chunk.delta THEN st
    ELSE LET s == IF st.started THEN st
                  ELSE [Emit(st, MessageStart) EXCEPT !.started = TRUE]
             a == Content(s, "thinking", "text", chunk.think)
             b == Content(a, "text", "thinking", chunk.text)
         IN FoldLeft(CallPiece, b, chunk.calls)

\* finish_reason: what Claude will be told depends on the calls announced so far.
Finish(st, chunk) ==
    LET reason ==
          CASE chunk.finish \in {"length", "content_filter"} -> chunk.finish
            [] chunk.finish \notin {"length", "content_filter"} /\ st.announced ->
                 IF ValidArguments(st) THEN "tool_calls" ELSE "length"
            [] OTHER -> IF chunk.finish = "tool_calls" THEN "stop" ELSE chunk.finish
    IN IF chunk.finish = "" THEN st ELSE CloseBlocks([st EXCEPT !.finish = reason])

\* The message ends with the usage, when the reason is known or no choice comes
\* with it.
Usage(st, chunk) ==
    LET underway == \/ st.finish # "" \/ st.announced \/ st.any \/ st.held # <<>>
                    \/ st.at.text # None \/ st.at.thinking # None
        last == st.finish # "" \/ (~chunk.choice /\ underway)
    IN IF chunk.usage /\ ~st.ended /\ last THEN End(CloseBlocks(st)) ELSE st

\* ConvertOpenAIResponseToClaude: the events for a chunk, or for [DONE], are in out.
Translate(st, chunk) ==
    LET s == [st EXCEPT !.out = <<>>] IN
    IF chunk.t = "done" THEN End(CloseBlocks(s))
    ELSE Usage(Finish(Delta(s, chunk), chunk), chunk)

-----------------------------------------------------------------------------
(***************************************************************************)
(* A completion that was not streamed becomes a message at once            *)
(* (ConvertOpenAIResponseToClaudeNonStream).                               *)
(***************************************************************************)
Whole(completion) ==
    LET block(kind, body) == IF body = <<>> THEN <<>> ELSE <<Block(kind, 0, body)>>
        tools == [i \in DOMAIN completion.calls |->
                    LET c == completion.calls[i]
                    IN Block("tool_use", c.call, IF c.args # <<>> /\ Last(c.args) = 0
                                                 THEN c.args ELSE <<>>)]
    IN [blocks |-> block("text", completion.text) \o block("thinking", completion.think)
                     \o tools,
        stop |-> CASE completion.finish = "length" -> "max_tokens"
                   [] completion.finish \in {"tool_calls", "function_call"} -> "tool_use"
                   [] OTHER -> "end_turn"]
=============================================================================
