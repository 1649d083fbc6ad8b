--------------------------- MODULE RequestToChat ---------------------------
(***************************************************************************)
(* Requests of clients that speak Claude or responses, to an endpoint that *)
(* speaks chat (openai_claude_request.go and                               *)
(* openai_openai-responses_request.go): an assistant message has thoughts, *)
(* text and calls at once, and a message of role tool follows for each.    *)
(***************************************************************************)
EXTENDS Conversation

ToolMessage(part) == Message("tool", <<Part("tool", "result", part.of, part.n)>>)

(***************************************************************************)
(* common.AlignOpenAIToolCallMessages: the results of an assistant message *)
(* are moved right behind it if each of its calls has exactly one, later   *)
(* on; calls and results that are not unique are left where they are.      *)
(***************************************************************************)
AlignTools(messages, ambiguous) ==
    LET Results(id) == {i \in DOMAIN messages : messages[i].role = "tool"
                                                /\ messages[i].parts[1].of = id}
        Askers(id) == {i \in DOMAIN messages : id \in Ids(messages[i].parts, "call")}
        Sound(id) == id \notin ambiguous /\ Cardinality(Askers(id)) = 1
                       /\ Cardinality(Results(id)) = 1
        calls(i) == Ids(messages[i].parts, "call")
        Whole(i) == \A id \in calls(i) : Sound(id) /\ \A k \in Results(id) : k > i
        Tools(i) == IF Whole(i) THEN UNION {Results(id) : id \in calls(i)} ELSE {}
        moved == UNION {Tools(i) : i \in DOMAIN messages}
        Group(i) == LET order == SetToSortSeq(Tools(i), <)
                    IN <<messages[i]>> \o [k \in DOMAIN order |-> messages[order[k]]]
    IN FlattenSeq([i \in DOMAIN messages |-> IF i \in moved THEN <<>> ELSE Group(i)])

-----------------------------------------------------------------------------
(***************************************************************************)
(* convertClaudeRequestToOpenAI: the results of a user message go before   *)
(* its text, and a reminder of the system waits until the calls before it  *)
(* are answered.                                                           *)
(***************************************************************************)
Arranged(parts, role, held) ==
    LET results == OfKind(parts, {"result"})
        rest == OfKind(parts, {"think"}) \o OfKind(parts, {"text"}) \o OfKind(parts, {"call"})
    IN [i \in DOMAIN results |-> ToolMessage(results[i])] \o held
         \o (IF rest = <<>> THEN <<>> ELSE <<Message(role, rest)>>)

ClaudeMessage(a, m) ==
    LET parts == IF m.role = "user" /\ a.pending # <<>> THEN AlignResults(m.parts, a.pending)
                 ELSE m.parts
        out == Arranged(parts, m.role, a.held)
    IN CASE m.role = "system" /\ a.pending # <<>> -> [a EXCEPT !.held = Append(@, m)]
         [] m.role = "system" \/ m.plain -> [a EXCEPT !.messages = Append(@, m)]
         [] OTHER -> [messages |-> a.messages \o out, held |-> <<>>,
                      pending |-> IdSeq(m.parts, "call")]

FromClaude(messages) ==
    LET a == FoldLeft(ClaudeMessage, [messages |-> <<>>, held |-> <<>>, pending |-> <<>>],
                      messages)
    IN AlignTools(a.messages \o a.held, {})

-----------------------------------------------------------------------------
(***************************************************************************)
(* ConvertOpenAIResponsesRequestToOpenAIChatCompletions: calls that follow *)
(* each other make one message, together with the text and the thoughts    *)
(* before them.  Thoughts are sequences of their contents; 0 stands for    *)
(* one that is not available.                                              *)
(***************************************************************************)
\* combineOpenAIResponsesReasoning, isUsableResponsesReasoning
Combine(old, new) ==
    CASE old = <<>> \/ (old = <<0>> /\ new # <<>>) -> new
      [] new \in {<<>>, <<0>>, old} -> old
      [] OTHER -> old \o new
Usable(thought) == thought \notin {<<>>, <<0>>}

Thoughts(thought) == [i \in DOMAIN thought |-> Part("assistant", "think", 0, thought[i])]
ThoughtOf(m) == LET t == OfKind(m.parts, {"think"}) IN [i \in DOMAIN t |-> t[i].n]

\* flushPendingToolCalls; session says that the conversation has thoughts at all.
FlushCalls(a) ==
    LET joins == a.mergeable # 0 /\ a.mergeable = Len(a.messages)
                   /\ Ids(a.messages[a.mergeable].parts, "call") = {}
        into == IF joins THEN a.messages[a.mergeable] ELSE Message("assistant", <<>>)
        own == Combine(ThoughtOf(into), a.thought)
        thought == CASE own # <<>> -> own [] own = <<>> /\ a.latest # <<>> -> a.latest
                     [] OTHER -> IF a.session THEN <<0>> ELSE <<>>
        m == Message("assistant", Thoughts(thought) \o OfKind(into.parts, {"text"}) \o a.calls)
    IN IF a.calls = <<>> THEN a
       ELSE [a EXCEPT !.messages = Append(IF joins THEN Front(@) ELSE @, m),
                      !.latest = IF Usable(own) THEN own ELSE @, !.thought = <<>>,
                      !.awaiting = @ \union Ids(a.calls, "call"), !.calls = <<>>,
                      !.mergeable = 0]

\* appendPendingReasoningMessage
FlushThought(a) ==
    IF a.thought = <<>> THEN a
    ELSE [a EXCEPT !.messages = Append(@, Message("assistant", Thoughts(a.thought))),
                   !.latest = IF Usable(a.thought) THEN a.thought ELSE @, !.thought = <<>>]

AddText(a, part) ==
    LET s == IF part.role = "assistant" THEN a ELSE [FlushThought(a) EXCEPT !.latest = <<>>]
    IN IF part.role = "assistant"
       THEN [s EXCEPT !.messages = Append(@, Message("assistant", Append(Thoughts(a.thought), part))),
                      !.latest = IF Usable(a.thought) THEN a.thought ELSE @,
                      !.thought = <<>>, !.mergeable = Len(s.messages) + 1]
       ELSE [s EXCEPT !.messages = Append(@, Message(part.role, <<part>>)), !.mergeable = 0]

\* An output that no call awaits goes as text.
AddResult(a, part) ==
    LET m == IF part.of \in a.awaiting THEN ToolMessage(part)
             ELSE Message("user", <<AsText(part)>>)
    IN [a EXCEPT !.messages = Append(@, m), !.awaiting = @ \ {part.of}, !.mergeable = 0]

AddItem(a, part) ==
    CASE part.kind = "call" -> [a EXCEPT !.calls = Append(@, part)]
      [] part.kind = "text" -> AddText(FlushCalls(a), part)
      [] part.kind \in {"think", "foreign"} ->
           LET s == FlushCalls(a)
           IN [s EXCEPT !.thought = Combine(@, <<part.n>>), !.latest = <<part.n>>]
      [] part.kind = "result" -> AddResult(FlushCalls(a), part)

FromResponses(messages) ==
    LET raw == Parts(messages)
        nameless == {i \in DOMAIN raw : raw[i].kind = "result" /\ raw[i].of = 0}
        unclaimed == {id \in Ids(raw, "call") : ~Named(raw, id)}
        \* An id is made up for an output only if it can be meant for one call alone.
        clear == Cardinality(nameless) <= 1 /\ (nameless = {} \/ Cardinality(unclaimed) <= 1)
        items == IF clear THEN NormalizeOutputs(raw) ELSE raw
        Many(id) == Cardinality({i \in DOMAIN items : items[i].kind = "result"
                                                      /\ items[i].of = id}) > 1
        start == [messages |-> <<>>, calls |-> <<>>, thought |-> <<>>, latest |-> <<>>,
                  awaiting |-> {}, mergeable |-> 0,
                  session |-> OfKind(raw, {"think", "foreign"}) # <<>>]
        end == FlushThought(FlushCalls(FoldLeft(AddItem, start, items)))
    IN AlignTools(end.messages, {id \in Ids(items, "result") : Many(id)})
=============================================================================
