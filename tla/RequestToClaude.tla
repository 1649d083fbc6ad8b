-------------------------- MODULE RequestToClaude --------------------------
(***************************************************************************)
(* Requests of clients that speak responses or chat, to an endpoint that   *)
(* speaks Claude (claude_openai-responses_request.go and                   *)
(* claude_openai_request.go): turns of the user and of the assistant       *)
(* alternate, and an assistant message ends with its calls.                *)
(***************************************************************************)
EXTENDS Conversation

NoTurns == [role |-> "", parts |-> <<>>, uses |-> <<>>, messages |-> <<>>]

\* flushPendingMessage, ClaudeMessageAccumulator.Flush
Flush(a) ==
    LET parts == a.parts \o a.uses IN
    [NoTurns EXCEPT !.messages = IF parts = <<>> THEN a.messages
                                 ELSE Append(a.messages, Message(a.role, parts))]
Turn(a, role) == [IF a.role \in {"", role} THEN a ELSE Flush(a) EXCEPT !.role = role]

\* appendParts and appendToolUse, ClaudeMessageAccumulator.Append
Say(a, part) ==
    IF part.kind = "call" THEN [Turn(a, part.role) EXCEPT !.uses = Append(@, part)]
    ELSE [Turn(a, part.role) EXCEPT !.parts = Append(@, part)]

\* Mutant: the calls before a thought are forgotten.
ThinkAlone(a, part) ==
    [Turn(a, "assistant") EXCEPT !.parts = Append(@, part), !.uses = <<>>]

\* appendReasoning: a thought separates the calls before it from those after it, and
\* takes the place of one right before it.
Think(a, part) ==
    LET s == Turn(a, "assistant")
        parts == s.parts \o s.uses
        old == IF parts # <<>> /\ Last(parts).kind = "think" THEN Front(parts) ELSE parts
    IN [s EXCEPT !.parts = Append(old, part), !.uses = <<>>]

\* What is told of a call that has no result.
Interrupted(id) == Part("user", "result", id, 0)

\* Of the results for a call the first one counts, with the content of the last.
Repeated(parts, i) == parts[i].of # 0 /\ \E k \in 1 .. i - 1 :
                        parts[k].kind = "result" /\ parts[k].of = parts[i].of
Latest(parts, i) ==
    IF parts[i].of = 0 THEN parts[i]
    ELSE parts[SelectLastInSeq(parts, LAMBDA p : p.kind = "result" /\ p.of = parts[i].of)]

-----------------------------------------------------------------------------
(***************************************************************************)
(* repairClaudeToolPairing: the user message after an assistant message    *)
(* begins with a result for each call, and no other result remains.        *)
(***************************************************************************)
Unanswered(messages, i) ==
    LET next == IF i < Len(messages) THEN Ids(messages[i + 1].parts, "result") ELSE {}
    IN SelectSeq(IdSeq(messages[i].parts, "call"), LAMBDA id : id \notin next)

\* normalizeClaudeToolResultMessage
ResultsFirst(parts, ids) ==
    LET answers == SelectSeq(parts, LAMBDA p : p.kind = "result" /\ p.of \in ids)
        others == SelectSeq(parts, LAMBDA p : ~(p.kind = "result" /\ p.of \in ids))
    IN answers \o [i \in DOMAIN others |-> IF others[i].kind = "result" THEN AsText(others[i])
                                           ELSE others[i]]

\* Mutant: nothing is told of a call that was interrupted.
RepairHalf(messages) ==
    [i \in DOMAIN messages |->
       IF messages[i].role = "assistant" THEN messages[i]
       ELSE Message("user", ResultsFirst(messages[i].parts,
              IF i = 1 THEN {} ELSE Ids(messages[i - 1].parts, "call")))]

Repair(messages) ==
    LET made(i) == LET ids == Unanswered(messages, i)
                   IN [k \in DOMAIN ids |-> Interrupted(ids[k])]
        before(i) == IF i = 1 THEN {} ELSE Ids(messages[i - 1].parts, "call")
        Repaired(i) ==
          IF messages[i].role = "user"
          THEN <<Message("user", (IF i = 1 THEN <<>> ELSE made(i - 1))
                                   \o ResultsFirst(messages[i].parts, before(i)))>>
          ELSE IF i = Len(messages) /\ made(i) # <<>>
               THEN <<messages[i], Message("user", made(i))>> ELSE <<messages[i]>>
    IN FlattenSeq([i \in DOMAIN messages |-> Repaired(i)])

\* stripTrailingClaudeThinkingBlocks
StripThoughts(messages) ==
    LET parts == Last(messages).parts
        kept == {k \in DOMAIN parts : \E m \in k .. Len(parts) : parts[m].kind # "think"}
        rest == SubSeq(parts, 1, Cardinality(kept))
    IN IF messages = <<>> \/ Last(messages).role # "assistant" THEN messages
       ELSE Front(messages) \o (IF rest = <<>> THEN <<>> ELSE <<Message("assistant", rest)>>)

\* dropUnsupportedClaudeAssistantPrefill, for a model that rejects one
DropPrefill(messages) ==
    IF messages # <<>> /\ Last(messages).role = "assistant" THEN Front(messages) ELSE messages

\* One item of the input; system messages went apart before.
Called(items, i) == items[i].of # 0 /\ \E k \in 1 .. i - 1 :
                      items[k].kind = "call" /\ items[k].of = items[i].of
Output(a, items, i) ==
    LET r == Part("user", "result", items[i].of, Latest(items, i).n) IN
    IF Repeated(items, i) THEN a ELSE Say(a, IF Called(items, i) THEN r ELSE AsText(r))

\* convertResponsesReasoningToClaudeThinking: a thought of another provider is left out.
Signed(item) == item.kind = "think"

ResponsesItem(a, items, i) ==
    CASE items[i].role = "system" -> a
      [] items[i].kind \in {"text", "call"} /\ items[i].role # "system" -> Say(a, items[i])
      [] Signed(items[i]) -> Think(a, items[i])
      [] items[i].kind = "result" -> Output(a, items, i)
      [] OTHER -> a

\* The empty turn of the user that is sent when there is no message.
Nudge == <<Message("user", <<Part("user", "text", 0, 0)>>)>>
Instructed(parts) == \E i \in DOMAIN parts : parts[i].role = "system"

\* convertOpenAIResponsesRequestToClaude
FromResponses(messages, rejects) ==
    LET items == NormalizeOutputs(Parts(messages))
        Step(a, i) == ResponsesItem(a, items, i)
        turns == Flush(FoldLeft(Step, NoTurns, [i \in DOMAIN items |-> i])).messages
        repaired == Repair(StripThoughts(turns))
        sent == IF rejects THEN DropPrefill(repaired) ELSE repaired
        spoken == turns # <<>> \/ Instructed(items)
    IN IF sent = <<>> /\ spoken THEN Nudge ELSE sent

\* convertOpenAIRequestToClaude: system messages go apart, thoughts are left out.
ToolMessage(a, parts, i) ==
    IF Repeated(parts, i) THEN a
    ELSE Say(a, Part("user", "result", parts[i].of, Latest(parts, i).n))

FromChat(messages) ==
    LET parts == Parts(messages)
        Step(a, i) ==
          CASE parts[i].role = "system" \/ parts[i].kind \in {"think", "foreign"} -> a
            [] parts[i].kind = "result" -> ToolMessage(a, parts, i)
            [] OTHER -> Say(a, parts[i])
        sent == Flush(FoldLeft(Step, NoTurns, [i \in DOMAIN parts |-> i])).messages
    IN IF sent = <<>> /\ Instructed(parts) THEN Nudge ELSE sent
=============================================================================
