--------------------------- MODULE RequestToCodex ---------------------------
(***************************************************************************)
(* Requests of clients that speak Claude or chat, to an endpoint that      *)
(* speaks responses (codex_claude_request.go and codex_openai_request.go): *)
(* the parts of all messages become items.                                 *)
(***************************************************************************)
EXTENDS Conversation

\* convertClaudeRequestToCodex: a reminder of the system waits for the results of the
\* calls before it, but not for text; only the upstream's own thoughts are sent.
Sent(parts, plain, held) ==
    LET sent == SelectSeq(parts, LAMBDA p : p.kind # "foreign")
        texts == {i \in DOMAIN sent : sent[i].kind = "text"}
        first == IF texts = {} \/ plain THEN Len(sent)
                 ELSE (CHOOSE i \in texts : \A k \in texts : i <= k) - 1
    IN SubSeq(sent, 1, first) \o held \o SubSeq(sent, first + 1, Len(sent))

ClaudeMessage(a, m) ==
    LET parts == IF m.role = "user" /\ a.pending # <<>> /\ ~m.plain
                 THEN AlignResults(m.parts, a.pending) ELSE m.parts
    IN CASE m.role = "system" /\ a.pending # <<>> -> [a EXCEPT !.held = @ \o m.parts]
         [] m.role = "system" /\ a.pending = <<>> -> [a EXCEPT !.items = @ \o m.parts]
         [] OTHER -> [items |-> a.items \o Sent(parts, m.plain, a.held), held |-> <<>>,
                      pending |-> IdSeq(m.parts, "call")]

FromClaude(messages) ==
    LET a == FoldLeft(ClaudeMessage, [items |-> <<>>, held |-> <<>>, pending |-> <<>>], messages)
    IN a.items \o a.held

\* Mutant: the calls of a message go before its text.
CallsFirst(a, m) ==
    [items |-> a.items \o OfKind(m.parts, {"call", "result"}) \o OfKind(m.parts, {"text"}),
     pending |-> <<>>]

\* ConvertOpenAIRequestToCodex: a result is sent if it answers one of the calls of the
\* last message that has not been answered yet; thoughts are left out.
ToolOutput(a, r) ==
    LET answers == SelectSeq(a.pending, LAMBDA id : r.of \in {0, id})
        id == Head(answers)
    IN IF answers = <<>> THEN a
       ELSE [items |-> Append(a.items, Part("tool", "result", id, r.n)),
             pending |-> SelectSeq(a.pending, LAMBDA c : c # id)]

ChatMessage(a, m) ==
    IF m.role = "tool" THEN ToolOutput(a, m.parts[1])
    ELSE [items |-> a.items \o OfKind(m.parts, {"text"}) \o OfKind(m.parts, {"call"}),
          pending |-> IdSeq(m.parts, "call")]

FromChat(messages) ==
    FoldLeft(ChatMessage, [items |-> <<>>, pending |-> <<>>], messages).items
=============================================================================
