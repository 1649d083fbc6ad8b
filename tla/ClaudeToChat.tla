---------------------------- MODULE ClaudeToChat ----------------------------
(***************************************************************************)
(* From the events of a Claude message to the chunks of a chat completion  *)
(* (internal/conversion/claude/openai/chat-completions/                    *)
(* claude_openai_response.go): a call is collected and sent whole when its *)
(* block stops.                                                            *)
(***************************************************************************)
EXTENDS ChatProtocol

\* ConvertAnthropicResponseToOpenAIParams
Fresh == [calls |-> <<>>, next |-> 0, finish |-> "", usage |-> FALSE, told |-> FALSE,
          out |-> <<>>]

Emit(st, chunk) == [st EXCEPT !.out = Append(@, chunk)]

\* mapAnthropicStopReasonToOpenAI
FinishReason(stop) ==
    CASE stop = "tool_use" -> "tool_calls" [] stop = "max_tokens" -> "length"
      [] stop \in {"refusal", "sensitive"} -> "content_filter" [] OTHER -> "stop"

StartCall(st, e) ==
    [st EXCEPT !.calls = Put(@, e.ix, [of |-> e.of, index |-> st.next, args |-> <<>>]),
               !.next = @ + 1]

Orderly(args) == IF args = <<>> THEN <<0>> ELSE args

\* content_block_stop
EndCall(st, ix) ==
    IF ix \notin DOMAIN st.calls THEN st
    ELSE LET call == st.calls[ix]
         IN [Emit(st, Calls(<<Piece(call.index, call.of, TRUE, Orderly(call.args))>>))
               EXCEPT !.calls = [i \in DOMAIN @ \ {ix} |-> @[i]]]

\* content_block_delta
BlockPiece(st, e) ==
    CASE e.kind = "text" -> Emit(st, Text(e.body))
      [] e.kind = "thinking" -> Emit(st, Think(e.body))
      [] e.kind = "tool_use" ->
           IF e.ix \in DOMAIN st.calls THEN [st EXCEPT !.calls[e.ix].args = @ \o e.body]
           ELSE st
      [] OTHER -> st

\* message_delta, which brings the usage
EndKnown(st, e) ==
    [Emit(st, [Finish(FinishReason(e.stop)) EXCEPT !.usage = TRUE])
       EXCEPT !.finish = FinishReason(e.stop), !.usage = TRUE]

\* message_stop, which repeats it once
UsageTold(st) ==
    IF st.usage /\ ~st.told THEN [Emit(st, UsageOnly) EXCEPT !.told = TRUE] ELSE st

\* ConvertClaudeResponseToOpenAI
Translate(st, e) ==
    LET s == [st EXCEPT !.out = <<>>] IN
    CASE e.t = "message_start" -> Emit([s EXCEPT !.next = 0], Chunk)
      [] e.t = "content_block_start" -> IF e.kind = "tool_use" THEN StartCall(s, e) ELSE s
      [] e.t = "content_block_delta" -> BlockPiece(s, e)
      [] e.t = "content_block_stop" -> EndCall(s, e.ix)
      [] e.t = "message_delta" -> EndKnown(s, e)
      [] e.t = "message_stop" -> UsageTold(s)
      [] OTHER -> s

-----------------------------------------------------------------------------
(***************************************************************************)
(* A message that was collected from its stream becomes a completion at    *)
(* once (ConvertClaudeResponseToOpenAINonStream).                          *)
(***************************************************************************)
Whole(blocks, stop) ==
    LET body(kind) == FlattenSeq([i \in DOMAIN blocks |->
                        IF blocks[i].kind = kind THEN blocks[i].body ELSE <<>>])
        calls == SelectSeq(blocks, LAMBDA b : b.kind = "tool_use")
    IN [text |-> body("text"), think |-> body("thinking"),
        calls |-> [i \in DOMAIN calls |-> [call |-> calls[i].of,
                                           args |-> Orderly(calls[i].body)]],
        finish |-> IF calls # <<>> THEN "tool_calls" ELSE FinishReason(stop)]
=============================================================================
