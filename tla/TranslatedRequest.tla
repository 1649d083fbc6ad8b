------------------------- MODULE TranslatedRequest -------------------------
(***************************************************************************)
(* A client writes a conversation down, part by part, and the proxy turns  *)
(* it into the request the model's endpoint gets (the request converters   *)
(* under internal/conversion).  Clients resume sessions that were cut off  *)
(* and replay what they kept, so a conversation may have calls without a   *)
(* result, results that come late, twice, without an id or out of nowhere. *)
(***************************************************************************)
EXTENDS Conversation

\* A profile names the client's and the endpoint's protocol, what the client may do
\* (quirks), how many parts a conversation has at most, and if the model rejects a
\* conversation that ends with its own message.
CONSTANT RequestProfiles

VARIABLES profile, \* one of RequestProfiles
          history, \* the conversation, in the client's protocol
          sent     \* the messages (or items) the endpoint gets for it

vars == <<profile, history, sent>>

Claude == INSTANCE RequestToClaude
Chat == INSTANCE RequestToChat
Codex == INSTANCE RequestToCodex

\* The endpoint gets items in the responses protocol: one message stands for them.
Convert(p, messages) ==
    CASE p.client = "responses" /\ p.endpoint = "claude" -> Claude!FromResponses(messages, p.rejects)
      [] p.client = "chat" /\ p.endpoint = "claude" -> Claude!FromChat(messages)
      [] p.client = "claude" /\ p.endpoint = "chat" -> Chat!FromClaude(messages)
      [] p.client = "responses" /\ p.endpoint = "chat" -> Chat!FromResponses(messages)
      [] p.client = "claude" /\ p.endpoint = "codex" -> <<Message("", Codex!FromClaude(messages))>>
      [] p.client = "chat" /\ p.endpoint = "codex" -> <<Message("", Codex!FromChat(messages))>>

Has(quirk) == quirk \in profile.quirks

-----------------------------------------------------------------------------
(***************************************************************************)
(* The client.                                                             *)
(***************************************************************************)
\* The calls of the assistant's last turn, if only results came after it; what the
\* system says counts for nothing.
Asked(parts) ==
    LET said == SelectSeq(parts, LAMBDA p : p.role # "system")
        end == SelectLastInSeq(said, LAMBDA p : p.kind # "result")
        start == SelectLastInSeq(SubSeq(said, 1, end), LAMBDA p : p.role # "assistant")
    IN Ids(SubSeq(said, start + 1, end), "call")

Open(parts) == Asked(parts) \ Ids(parts, "result")

LastMessage == IF history = <<>> THEN Message("", <<>>) ELSE Last(history)

\* Parts the client puts into one message: in Claude's protocol those of one turn, in
\* the chat protocol the assistant's text and its calls.
Joins(part) ==
    /\ part.role = LastMessage.role /\ ~LastMessage.plain
    /\ \/ profile.client = "claude" /\ part.role # "system"
       \/ profile.client = "chat" /\ part.kind = "call"

Put(message, part) ==
    /\ history' = IF Joins(part) THEN [history EXCEPT ![Len(history)].parts = Append(@, part)]
                  ELSE Append(history, message)
    /\ sent' = Convert(profile, history')
    /\ UNCHANGED profile

Parted == Parts(history)
Fresh == Len(Parted) + 1

\* The assistant's turn goes on, or all its calls are answered, or nobody waits.
MayGoOn(part) ==
    \/ Open(Parted) = {}
    \/ part.role = "system" /\ Has("reminder")
    \/ Fresh > 1 /\ part.role = "assistant" /\ Last(Parted).role = "assistant"
         /\ (profile.client = "chat" => part.kind = "call")
    \/ Has("interrupted")

\* A string as the content of a user's message is one way to write a text.
Speak(role) ==
    LET part == Part(role, "text", 0, Fresh) IN
    /\ Fresh <= profile.most /\ MayGoOn(part)
    /\ role = "system" => Has("reminder")
    /\ \/ Put(Message(role, <<part>>), part)
       \/ /\ Has("plain") /\ role = "user" /\ ~Joins(part)
          /\ Put([Message(role, <<part>>) EXCEPT !.plain = TRUE], part)

Ponder(kind) ==
    LET part == Part("assistant", kind, 0, Fresh) IN
    /\ Fresh <= profile.most /\ MayGoOn(part) /\ Has(kind)
    /\ Put(Message("assistant", <<part>>), part)

Call ==
    LET part == Part("assistant", "call", Fresh, Fresh) IN
    /\ Fresh <= profile.most /\ MayGoOn(part)
    /\ Put(Message("assistant", <<part>>), part)

\* The ids of results the client may send next; 100 is the id of no call.
Answers ==
    LET known == Ids(Parted, "call")
        once == IF Has("twice") THEN known ELSE known \ Ids(Parted, "result")
    IN (IF Has("late") THEN once ELSE once \intersect Asked(Parted))
         \union (IF Has("anonymous") THEN {0} ELSE {})
         \union (IF Has("standalone") THEN {100} \ Ids(Parted, "result") ELSE {})

Answer(id) ==
    LET role == IF profile.client = "chat" THEN "tool" ELSE "user"
        part == Part(role, "result", id, Fresh)
    IN /\ Fresh <= profile.most /\ id \in Answers
       /\ Put(Message(role, <<part>>), part)

Init == /\ profile \in RequestProfiles
        /\ history = <<>>
        /\ sent = Convert(profile, <<>>)

Next == \/ \E role \in {"user", "assistant", "system"} : Speak(role)
        \/ \E kind \in {"think", "foreign"} : Ponder(kind)
        \/ Call
        \/ \E id \in 0 .. 100 : Answer(id)

Spec == Init /\ [][Next]_vars

-----------------------------------------------------------------------------
(***************************************************************************)
(* What the conversion must keep.                                          *)
(***************************************************************************)
\* The client sends what it has once no call is open, or after an interruption.
Sendable == Open(Parted) = {} \/ Has("interrupted")

AnsweredOnce(parts, id) ==
    Cardinality({i \in DOMAIN parts : parts[i].kind = "result" /\ parts[i].of = id}) = 1

\* The assistant began the conversation, with a part that is not left out.
BegunByAssistant ==
    LET left == {"foreign"} \union (IF profile.client = "chat" THEN {"think"} ELSE {})
        kept == SelectSeq(Parted, LAMBDA p : p.role # "system" /\ p.kind \notin left)
    IN kept # <<>> /\ kept[1].role = "assistant"

\* Claude's endpoint: there is a message, and the first is the user's unless the assistant
\* began the conversation; the user's turn after an assistant's begins with one result for
\* each call, no result is anywhere else, and the end is neither a thought nor, for some
\* models, the assistant's (claudeMessageInvariantProblems).
ClaudeAccepts(messages) ==
    LET calls(i) == IF i \in DOMAIN messages THEN Ids(messages[i].parts, "call") ELSE {} IN
    /\ messages = <<>> => OfKind(Parted, {"think", "foreign"}) = Parted
    /\ messages # <<>> /\ ~BegunByAssistant => messages[1].role = "user"
    /\ \A i \in DOMAIN messages :
         LET parts == messages[i].parts IN
         /\ parts # <<>>
         /\ i > 1 => messages[i].role # messages[i - 1].role
         /\ calls(i) # {} => i < Len(messages)
         /\ \A id \in calls(i - 1) : AnsweredOnce(parts, id)
         /\ Ids(parts, "result") \subseteq calls(i - 1)
         /\ \A j, k \in DOMAIN parts :
              j < k /\ parts[k].kind = "result" => parts[j].kind = "result"
    /\ messages # <<>> /\ Last(messages).role = "assistant" =>
         Last(Last(messages).parts).kind # "think" /\ ~profile.rejects

\* A chat endpoint: right after an assistant message come the results of its calls.
ChatAccepts(messages) ==
    \A i \in DOMAIN messages :
      /\ messages[i].role = "tool" =>
           \E j \in 1 .. i - 1 : /\ messages[i].parts[1].of \in Ids(messages[j].parts, "call")
                                 /\ \A k \in j + 1 .. i - 1 : messages[k].role = "tool"
      /\ \A id \in Ids(messages[i].parts, "call") :
           \E k \in i + 1 .. Len(messages) :
             /\ messages[k].role = "tool" /\ messages[k].parts[1].of = id
             /\ \A m \in i + 1 .. k : messages[m].role = "tool"

\* An endpoint of the responses protocol: each call has one result, after it.
CodexAccepts(items) ==
    /\ \A id \in Ids(items, "call") : AnsweredOnce(items, id)
    /\ \A k \in DOMAIN items : items[k].kind = "result" =>
         \E i \in 1 .. k - 1 : items[i].kind = "call" /\ items[i].of = items[k].of

\* Whatever a responses client resumes with, and what a chat client sends when no call is
\* open, Claude's endpoint accepts, but for a first message of the assistant: a conversation
\* that the assistant began is passed on as it is, which is at most logged.  The other
\* endpoints accept a conversation whose calls have one result each.  The history repair, the
\* moved results, the held reminders and the empty turn of the user leave no call and no
\* result where it is refused, and a message to answer.
UpstreamAccepts ==
    Sendable =>
      CASE profile.endpoint = "claude" -> ClaudeAccepts(sent)
        [] profile.endpoint = "chat" ->
             (\A id \in Ids(Parted, "call") : AnsweredOnce(Parted, id)) => ChatAccepts(sent)
        [] profile.endpoint = "codex" -> CodexAccepts(Parts(sent))

\* The parts that must reach the endpoint.  Claude's gets the system's words apart, of
\* several results for a call the last, and perhaps not the message the assistant began;
\* an endpoint of the responses protocol gets the first result.
Due ==
    LET Repeats(i, others) ==
          Parted[i].of # 0 /\ \E k \in others : Parted[k] = [Parted[i] EXCEPT !.n = k]
        \* A result given again does not end the assistant's turn.
        begun(i) == \A k \in i .. Len(Parted) :
                      Parted[k].role \in {"assistant", "system"} \/ Repeats(k, 1 .. k - 1)
        Held(i) ==
          CASE Parted[i].kind \in {"think", "foreign"} -> FALSE
            [] Parted[i].kind = "result" /\ profile.endpoint = "claude" ->
                 ~Repeats(i, i + 1 .. Len(Parted))
            [] Parted[i].kind = "result" /\ profile.endpoint = "codex" -> ~Repeats(i, 1 .. i - 1)
            [] OTHER ->
                 profile.endpoint = "claude" =>
                   /\ Parted[i].role # "system"
                   /\ ~(profile.rejects /\ begun(i) /\ Open(Parted) = {})
    IN {Parted[i] : i \in {i \in DOMAIN Parted : Held(i)}}

\* Every text, every call and every result of the conversation reaches the endpoint, once,
\* with the role it had; a result without a call comes as a text of the user.
NothingIsLost ==
    \A p \in Due :
      LET found == SelectSeq(Parts(sent), LAMBDA q : q.n = p.n) IN
      /\ Len(found) = 1
      /\ p.kind # "result" => found[1].kind = p.kind /\ found[1].role = p.role

\* What is said comes in the order it was said, and what is asked in the order it was asked;
\* in the responses protocol both together.
OrderIsKept ==
    LET Ordered(kinds) ==
          LET of == SelectSeq(Parts(sent), LAMBDA p : /\ p.kind \in kinds /\ p.role # "system"
                                                      /\ \E q \in Due : q.n = p.n /\ q.kind = p.kind)
          IN \A i, j \in DOMAIN of : i < j => of[i].n < of[j].n
    IN /\ Ordered({"text"}) /\ Ordered({"call"})
       /\ profile.endpoint = "codex" => Ordered({"text", "call"})

\* A call gets the answer that was meant for it: the last one that names it or, if none
\* does, one without an id; and none is told to be interrupted that was answered in time.
ResultsMeetCalls ==
    \A r \in {r \in ToSet(Parts(sent)) : r.kind = "result"} :
      IF r.n = 0
      THEN \A k \in DOMAIN Parted :
             Parted[k].kind = "result" /\ Parted[k].of = r.of =>
               r.of \notin Asked(SubSeq(Parted, 1, k - 1))
      ELSE LET h == Parted[r.n] IN
           /\ h.kind = "result"
           /\ \/ h.of = r.of
              \/ h.of = 0 /\ r.of \notin Ids(Parted, "result")
=============================================================================
