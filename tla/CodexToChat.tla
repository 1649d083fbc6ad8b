----------------------------- MODULE CodexToChat -----------------------------
(***************************************************************************)
(* From the events of a response to the chunks of a chat completion        *)
(* (internal/conversion/codex/openai/chat-completions/                     *)
(* codex_openai_response.go).                                              *)
(***************************************************************************)
EXTENDS ChatProtocol

None == -1

\* ConvertCliToOpenAIParams: index is FunctionCallIndex, calls has the state of each
\* call by its output index and current is the last one registered.
Fresh == [index |-> -1, calls |-> <<>>, current |-> None, out |-> <<>>]

Emit(st, chunk) == [st EXCEPT !.out = Append(@, chunk)]

\* registerToolCallState
Register(st, ix, emitted) ==
    [st EXCEPT !.index = @ + 1, !.current = ix,
               !.calls = Put(@, ix, [index |-> st.index + 1, emitted |-> emitted,
                                     done |-> emitted])]

\* Mutant: a call is always taken for the current one.
FindCurrent(st, ix) == st.current

\* findToolCallState: a call that is not registered is taken for the current one.
Find(st, ix) == IF ix \in DOMAIN st.calls THEN ix ELSE st.current

Say(st, c, args) ==
    IF args = <<>> THEN st ELSE Emit(st, Calls(<<Piece(st.calls[c].index, 0, FALSE, args)>>))

\* The announcement carries the name, and no arguments.
Announce(st, e) ==
    Emit(Register(st, e.ix, FALSE), Calls(<<Piece(st.index + 1, e.item.of, TRUE, <<>>)>>))

\* The end of a call that was not announced has all of it.
Complete(st, e) ==
    Emit(Register(st, e.ix, TRUE), Calls(<<Piece(st.index + 1, e.item.of, TRUE, e.item.body)>>))

\* function_call_arguments.delta and .done; the latter counts when no piece came.
ArgumentPiece(st, e) ==
    LET c == Find(st, e.ix) IN
    IF c = None \/ st.calls[c].done \/ e.body = <<>> THEN st
    ELSE Say([st EXCEPT !.calls[c].emitted = TRUE], c, e.body)

AllArguments(st, e) ==
    LET c == Find(st, e.ix) IN
    IF c = None \/ st.calls[c].done \/ st.calls[c].emitted THEN st
    ELSE Say([st EXCEPT !.calls[c].emitted = TRUE], c, e.body)

\* output_item.done
CallDone(st, e) ==
    LET c == Find(st, e.ix)
        s == [st EXCEPT !.calls[c].done = TRUE, !.calls[c].emitted = TRUE]
    IN CASE c = None -> Complete(st, e)
         [] c # None /\ (st.calls[c].done \/ st.calls[c].emitted) ->
              [st EXCEPT !.calls[c].done = TRUE]
         [] OTHER -> Say(s, c, e.item.body)

\* Mutant: a response that was cut off ends like a complete one.
FinishByCalls(status, reason, calls) == IF calls THEN "tool_calls" ELSE "stop"

\* The finish reason of response.completed and response.incomplete.
FinishReason(status, reason, calls) ==
    CASE status = "incomplete" ->
           IF reason \in {"max_tokens", "max_output_tokens"} THEN "length"
           ELSE IF reason = "content_filter" THEN "content_filter" ELSE "stop"
      [] OTHER -> IF calls THEN "tool_calls" ELSE "stop"

\* ConvertCodexResponseToOpenAI; "\n\n" after a thought is a delta without a piece.
Translate(st, e) ==
    LET s == [st EXCEPT !.out = <<>>] IN
    CASE e.t = "delta" /\ e.kind = "reasoning" -> Emit(s, Think(e.body))
      [] e.t = "delta" /\ e.kind = "message" -> Emit(s, Text(e.body))
      [] e.t = "delta" /\ e.kind = "function_call" -> ArgumentPiece(s, e)
      [] e.t = "body_done" /\ e.kind = "reasoning" -> Emit(s, Think(<<>>))
      [] e.t = "body_done" /\ e.kind = "function_call" -> AllArguments(s, e)
      [] e.t = "item_added" /\ e.item.kind = "function_call" -> Announce(s, e)
      [] e.t = "item_done" /\ e.item.kind = "function_call" -> CallDone(s, e)
      [] e.t = "terminal" ->
           Emit(s, [Finish(FinishReason(e.status, e.reason, s.index # -1))
                      EXCEPT !.usage = TRUE])
      [] OTHER -> s

-----------------------------------------------------------------------------
(***************************************************************************)
(* A response that was not streamed becomes a completion at once           *)
(* (ConvertCodexResponseToOpenAINonStream).                                *)
(***************************************************************************)
Whole(output, status, reason) ==
    LET body(kind) == FlattenSeq([i \in DOMAIN output |->
                        IF output[i].kind = kind THEN output[i].body ELSE <<>>])
        calls == SelectSeq(output, LAMBDA item : item.kind = "function_call")
    IN [text |-> body("message"), think |-> body("reasoning"),
        calls |-> [i \in DOMAIN calls |-> [call |-> calls[i].of, args |-> calls[i].body]],
        finish |-> FinishReason(status, reason, calls # <<>>)]
=============================================================================
