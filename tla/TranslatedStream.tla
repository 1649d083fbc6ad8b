-------------------------- MODULE TranslatedStream --------------------------
(***************************************************************************)
(* forwardTranslatedStream (internal/copilot/stream.go): an answer streams *)
(* in the protocol of the model's endpoint and is translated, event by     *)
(* event, to the protocol of the client.  The upstream sends any stream of *)
(* module Upstream; what the client builds from the translated stream is   *)
(* compared with what a client of the upstream would have built.           *)
(***************************************************************************)
EXTENDS Upstream

CONSTANT Freeform  \* the calls of freeform tools, in answers to clients of responses

VARIABLES
    state,     \* the state of the translator
    tracker,   \* responsesTerminalTracker
    client,    \* what the client has
    outcome    \* how the forwarding ended; empty before

vars == <<profile, source, pieces, state, tracker, client, outcome>>

-----------------------------------------------------------------------------
(***************************************************************************)
(* The six translators.                                                    *)
(***************************************************************************)
NewState(r) ==
    CASE r = "chat-claude" -> ChatClaude!Fresh
      [] r = "chat-responses" -> ChatResponses!Fresh(Freeform)
      [] r = "codex-claude" -> CodexClaude!Fresh
      [] r = "codex-chat" -> CodexChat!Fresh
      [] r = "claude-responses" -> ClaudeResponses!Fresh(Freeform)
      [] OTHER -> ClaudeChat!Fresh

\* sdktranslator.TranslateStream
Translate(st, e) ==
    CASE route = "chat-claude" -> ChatClaude!Translate(st, e)
      [] route = "chat-responses" -> ChatResponses!Translate(st, e)
      [] route = "codex-claude" -> CodexClaude!Translate(st, e)
      [] route = "codex-chat" -> CodexChat!Translate(st, e)
      [] route = "claude-responses" -> ClaudeResponses!Translate(st, e)
      [] OTHER -> ClaudeChat!Translate(st, e)

NewClient(protocol) ==
    CASE protocol = "chat" -> Chat!NoCompletion
      [] protocol = "claude" -> Claude!NoMessage
      [] OTHER -> Responses!NoResponse

Receive(m, events) ==
    CASE To(route) = "chat" -> Chat!Receive(m, events)
      [] To(route) = "claude" -> Claude!Receive(m, events)
      [] OTHER -> Responses!Receive(m, events)

-----------------------------------------------------------------------------
(***************************************************************************)
(* responsesTerminalTracker: it is active when the client speaks responses *)
(* and keeps the strongest end that the upstream told, so that the client  *)
(* is never told of a success that was none.                               *)
(***************************************************************************)
NoEnd == [status |-> "", reason |-> "", seen |-> FALSE]
Active == To(route) = "responses"

\* sourceTerminalPriority
Priority(status) ==
    CASE status = "failed" -> 3 [] status = "incomplete" -> 2
      [] status = "completed" -> 1 [] OTHER -> 0

\* sourceStopReasonStatus
StopStatus(stop) ==
    CASE stop = "" -> NoEnd
      [] stop \in {"length", "max_tokens", "model_context_window_exceeded"} ->
           [NoEnd EXCEPT !.status = "incomplete", !.reason = "max_output_tokens"]
      [] stop = "content_filter" ->
           [NoEnd EXCEPT !.status = "incomplete", !.reason = "content_filter"]
      [] OTHER -> [NoEnd EXCEPT !.status = "completed"]

\* sourceFrameTerminalStatus
SourceStatus(e) ==
    CASE e.t \in {"failed", "error"} -> [NoEnd EXCEPT !.status = "failed"]
      [] e.t = "terminal" -> [NoEnd EXCEPT !.status = e.status, !.reason = e.reason]
      [] e.t = "chunk" -> StopStatus(e.finish)
      [] e.t = "message_delta" -> StopStatus(e.stop)
      [] e.t = "message_stop" -> [NoEnd EXCEPT !.status = "completed"]
      [] OTHER -> NoEnd

\* observeSource
ObserveSource(t, end) ==
    IF Active /\ Priority(end.status) > Priority(t.status)
    THEN [t EXCEPT !.status = end.status, !.reason = end.reason] ELSE t

\* allowsSourceTranslation
MayTranslate(t, e) == ~Active \/ e.t # "done" \/ t.status \in {"completed", "incomplete"}

\* Mutant: every end that the translator makes is passed on.
AuthorizedAny(t, e) == <<e>>

\* translatedFrame: the events to pass on, a completed response being rewritten when
\* the upstream did not complete it.
Authorized(t, e) ==
    IF ~Active \/ e.t \notin {"terminal", "failed", "error"} THEN <<e>>
    ELSE CASE e.t = "terminal" /\ e.status = "completed" /\ t.status = "incomplete" ->
                <<[e EXCEPT !.status = "incomplete", !.reason = t.reason]>>
           [] e.t = "terminal" /\ e.status = t.status -> <<e>>
           [] e.t \in {"failed", "error"} /\ t.status = "failed" -> <<e>>
           [] OTHER -> <<>>
Passed(t, events) == FoldLeft(LAMBDA out, e : out \o Authorized(t, e), <<>>, events)

\* sourceProtocolTerminal
EndsSource(e) == e.t \in {"done", "terminal", "failed", "error", "message_stop"}
                   /\ (e.t = "error" => From(route) = "codex")

\* validateTermination; told says that an upstream that speaks responses told its end.
Ending(t, told) ==
    IF (From(route) = "codex" /\ ~told) \/ (Active /\ ~t.seen)
    THEN "missing_terminal_event" ELSE "done"

-----------------------------------------------------------------------------
Init ==
    /\ profile \in Profiles
    /\ source = NewClient(From(route))
    /\ pieces = 0
    /\ state = NewState(route)
    /\ tracker = NoEnd
    /\ client = NewClient(To(route))
    /\ outcome = ""

\* The translator's output that is passed on is out.
Pass(e, t, st, out) ==
    LET seen == t.seen \/ (Active /\ \E i \in DOMAIN out : out[i].t = "terminal")
    IN /\ state' = [st EXCEPT !.out = <<>>]
       /\ tracker' = [t EXCEPT !.seen = seen]
       /\ client' = Receive(client, out)
       /\ outcome' = IF EndsSource(e) THEN Ending(tracker', TRUE) ELSE ""

\* emitFrame, for an event of the upstream
Forward(e) ==
    LET end == SourceStatus(e)
        t == ObserveSource(tracker, end)
    IN CASE end.status = "failed" ->
              /\ tracker' = t /\ outcome' = "upstream_error"
              /\ UNCHANGED <<state, client>>
         [] end.status # "failed" /\ ~MayTranslate(t, e) ->
              /\ tracker' = t
              /\ outcome' = IF EndsSource(e) THEN Ending(t, FALSE) ELSE ""
              /\ UNCHANGED <<state, client>>
         [] OTHER ->
              \E st \in {Translate(state, e)} :
                \E out \in {Passed(t, st.out)} : Pass(e, t, st, out)

Frame ==
    /\ outcome = ""
    /\ \E e \in Events : Sends(e) /\ Forward(e)

\* The upstream's connection ends without an error.
Hangup ==
    /\ outcome = ""
    /\ outcome' = Ending(tracker, FALSE)
    /\ UNCHANGED <<profile, source, pieces, state, tracker, client>>

Next == Frame \/ Hangup
Spec == Init /\ [][Next]_vars

-----------------------------------------------------------------------------
(***************************************************************************)
(* What an answer amounts to, in any protocol.                             *)
(***************************************************************************)
\* The kinds of items and blocks go by the names of Claude's blocks.
Kind(kind) ==
    CASE kind = "message" -> "text" [] kind = "reasoning" -> "thinking"
      [] kind = "function_call" -> "tool_use" [] kind = "web_search_call" -> "server_tool_use"
      [] OTHER -> kind
\* No arguments are an empty object.
Args(body) == IF body = <<>> THEN <<0>> ELSE body
Called(of, args) == [kind |-> "tool_use", of |-> of, body |-> Args(args)]

\* The course of an answer: its parts in their order.  What is said or thought in several
\* parts in a row is one part, and an empty one is none.
Course(parts) ==
    LET Add(course, p) ==
          LET kind == Kind(p.kind) IN
          CASE kind \in {"tool_use", "server_tool_use"} ->
                 Append(course, [Called(p.of, p.body) EXCEPT !.kind = kind])
            [] kind \in {"text", "thinking"} /\ p.body # <<>> ->
                 IF course # <<>> /\ Last(course).kind = kind
                 THEN [course EXCEPT ![Len(course)].body = @ \o p.body]
                 ELSE Append(course, [kind |-> kind, of |-> 0, body |-> p.body])
            [] OTHER -> course
    IN FoldLeft(Add, <<>>, parts)
OfKind(course, kind) == SelectSeq(course, LAMBDA part : part.kind = kind)

\* The text, the thoughts and the calls, each in its order, and the searches by their ids.
Answer(course) ==
    LET Joined(kind) ==
          LET mine == OfKind(course, kind) IN FlattenSeq([i \in DOMAIN mine |-> mine[i].body])
        Before(a, b) == a.of < b.of
    IN [text |-> Joined("text"), think |-> Joined("thinking"),
        calls |-> OfKind(course, "tool_use"),
        searches |-> SortSeq(OfKind(course, "server_tool_use"), Before), course |-> course]

\* Chat tells no order between the text, the thoughts and the calls.
ChatAnswer(m) ==
    [text |-> m.text, think |-> m.think, searches |-> <<>>, course |-> <<>>,
     calls |-> [i \in DOMAIN m.calls |-> Called(m.calls[i].of, m.calls[i].args)]]

\* The items of a response so far, in the order of their indices.
Items(m) ==
    LET order == SetToSortSeq(DOMAIN m.items, <)
    IN [i \in DOMAIN order |-> [m.items[order[i]].item EXCEPT !.body = m.items[order[i]].body]]

Said(protocol, m) ==
    CASE protocol = "chat" -> ChatAnswer(m)
      [] protocol = "claude" -> Answer(Course(m.blocks))
      [] OTHER -> Answer(Course(Items(m)))

\* Chat has no searches.  Of an answer whose parts overlap only the order within a kind is
\* kept: to Claude, what comes while a call is open is told after the calls.
Kept(answer) ==
    CASE "chat" \in {From(route), To(route)} ->
           [answer EXCEPT !.searches = <<>>, !.course = <<>>]
      [] profile.open = 1 -> answer
      [] OTHER -> [answer EXCEPT !.course = <<>>]

\* The same answer.  Of the calls of a chat completion Claude gets the one that is known
\* first before the others, which wait until it is closed and go in order then.
SameAnswer(a, b) ==
    /\ [Kept(a) EXCEPT !.calls = <<>>] = [Kept(b) EXCEPT !.calls = <<>>]
    /\ \/ a.calls = b.calls
       \/ /\ route = "chat-claude" /\ Has("late_name")
          /\ \E i \in DOMAIN a.calls : b.calls = <<a.calls[i]>> \o RemoveAt(a.calls, i)

\* The host adds [DONE] to a completion when the forwarding is over.
Ended(m) == m.phase \in {"end", "finished"}
Delivered == outcome = "done" /\ source.phase = "end"

-----------------------------------------------------------------------------
\* The client's stream is legal in the client's protocol, whatever the order in which
\* the upstream sends the parts of its answer (the state machines of the translators).
DownstreamIsLegal == client.phase # "wrong"

\* Nothing is lost or repeated on the way, and nothing is given to another call: when the
\* answer is through, the client has the text, the thoughts and each call once, with its
\* arguments, in the order of the upstream, and if the upstream sends one part at a time,
\* also each part after the one it came after (an answer from or to chat and one whose
\* parts overlap keep the order within each kind only, and to Claude the call that is
\* known first goes first).  The translators send an end for every end, so that no complete
\* answer is refused.
AnswerIsWhole ==
    /\ source.phase = "end" => outcome # "missing_terminal_event"
    /\ Delivered => Ended(client) /\ SameAnswer(Said(From(route), source), Said(To(route), client))

\* The upstream cut the answer off, and the client is told so.
CutOff ==
    CASE From(route) = "chat" -> source.finish = "length"
      [] From(route) = "claude" -> source.stop \in {"max_tokens", "model_context_window_exceeded"}
      [] OTHER -> source.reason = "max_output_tokens"
ToldCut ==
    CASE To(route) = "chat" -> client.finish = "length"
      [] To(route) = "claude" -> client.stop = "max_tokens"
      [] OTHER -> client.status = "incomplete"
ToldTools ==
    CASE To(route) = "chat" -> client.finish = "tool_calls"
      [] To(route) = "claude" -> client.stop = "tool_use"
      [] OTHER -> client.status = "completed" /\ Said("responses", client).calls # <<>>

\* The end that the client is told fits what it has: it is to run tools exactly if there
\* are any and the answer was not cut off or filtered, and is told when it was cut off
\* (to Claude, a response that was cut off after a call is one that calls tools).
EndIsTold ==
    LET calls == Said(To(route), client).calls # <<>>
        whole == ~CutOff /\ (From(route) = "codex" => source.status = "completed")
    IN Delivered => /\ ToldTools => calls
                    /\ (calls /\ whole) => ToldTools
                    /\ CutOff => ToldCut \/ (route = "codex-claude" /\ calls)

\* A client of responses is told that its answer is complete only when the upstream
\* completed it, and of an end only when there was one.
SuccessIsEarned ==
    (Active /\ Ended(client)) =>
        /\ outcome = "done"
        /\ client.status = "completed" =>
             ~CutOff /\ (From(route) = "chat" => source.finish # "content_filter")

\* The last event of a response repeats the items as they were finished, each at its
\* index; only their status may have changed (a message is finished before the reason
\* of a later end is known).
Content(items) == [i \in DOMAIN items |-> [items[i] EXCEPT !.status = "completed"]]
EndRepeatsItems ==
    (Active /\ Ended(client)) =>
        Content(client.output) = Content(Responses!Finished(client))

-----------------------------------------------------------------------------
(***************************************************************************)
(* The same answer when the client does not stream (executeRequest): it is *)
(* translated at once, and a completed response is rewritten as well.      *)
(***************************************************************************)
Completion ==
    [text |-> source.text, think |-> source.think, finish |-> source.finish,
     calls |-> [i \in DOMAIN source.calls |->
                  [call |-> source.calls[i].of, args |-> source.calls[i].args]]]

AtOnce ==
    CASE route = "chat-claude" ->
           LET w == ChatClaude!Whole(Completion)
           IN [said |-> Answer(Course(w.blocks)), end |-> w.stop]
      [] route = "codex-claude" ->
           LET w == CodexClaude!Whole(source.output, source.reason)
           IN [said |-> Answer(Course(w.blocks)), end |-> w.stop]
      [] route \in {"codex-chat", "claude-chat"} ->
           LET w == IF route = "codex-chat"
                    THEN CodexChat!Whole(source.output, source.status, source.reason)
                    ELSE ClaudeChat!Whole(source.blocks, source.stop)
               calls == [i \in DOMAIN w.calls |-> [of |-> w.calls[i].call, args |-> w.calls[i].args]]
           IN [said |-> ChatAnswer([w EXCEPT !.calls = calls]), end |-> w.finish]
      [] route = "chat-responses" ->
           [said |-> Answer(Course(ChatResponses!Whole(Completion))),
            end |-> StopStatus(source.finish).status]
      [] OTHER ->
           [said |-> Answer(Course(ClaudeResponses!Whole(source.blocks, source.stop, Freeform))),
            end |-> StopStatus(source.stop).status]

ToldEnd ==
    CASE To(route) = "chat" -> client.finish [] To(route) = "claude" -> client.stop
      [] OTHER -> client.status

\* Whether it streams does not change what a client gets: the incremental translation of
\* an answer and the one of the whole answer have the same text, thoughts and calls, each
\* in the same order, and the same reason to finish.  The order between them is the same
\* where SameAnswer asks for it: not from chat, where the whole translation for Claude tells the
\* text before the thoughts and the stream as they come, and calls that are known late may
\* be exchanged.  (Searches that were not said what to look for and calls that were cut off
\* are left out by one of them, and the reason to finish may differ when an answer with
\* calls names another one.)
SameAsWhole ==
    LET Asked(parts) == SelectSeq(parts, LAMBDA p : p.kind # "server_tool_use" \/ p.body # <<0>>)
        Plain(said) == [said EXCEPT !.searches = Asked(@), !.course = Course(Asked(@))]
        calls == ToSet(Said(From(route), source).calls)
        cut == \E c \in calls : Last(c.body) # 0
        sure == calls = {} \/ (~CutOff /\ (From(route) = "chat" => source.finish = "tool_calls"))
    IN (Delivered /\ ~cut) =>
          /\ SameAnswer(Plain(AtOnce.said), Plain(Said(To(route), client)))
          /\ sure => ToldEnd = AtOnce.end

\* Every call that the upstream finished reaches the client, announced or not.
FinishedCallsArrive ==
    Delivered => {c.of : c \in ToSet(Said(From(route), source).calls)}
                   \subseteq {c.of : c \in ToSet(Said(To(route), client).calls)}
=============================================================================
