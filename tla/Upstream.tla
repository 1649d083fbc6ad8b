------------------------------ MODULE Upstream ------------------------------
(***************************************************************************)
(* The service upstream: all streams that the protocol of the model's      *)
(* endpoint allows, and what some services do beyond it.  A client of the  *)
(* upstream tells which event may follow.                                  *)
(***************************************************************************)
EXTENDS Integers, Sequences, FiniteSets, SequencesExt, ToChat, ToClaude, ToResponses

CONSTANT Profiles  \* the upstreams looked at

\* A route is translatorFormat and outputFormat of a request.
Routes == {"chat-claude", "chat-responses", "codex-claude", "codex-chat",
           "claude-responses", "claude-chat"}
From(r) == CASE r \in {"chat-claude", "chat-responses"} -> "chat"
             [] r \in {"codex-claude", "codex-chat"} -> "codex"
             [] OTHER -> "claude"
To(r) == CASE r \in {"chat-claude", "codex-claude"} -> "claude"
           [] r \in {"codex-chat", "claude-chat"} -> "chat"
           [] OTHER -> "responses"

\* A profile bounds the pieces of text, thoughts and arguments of an answer, its parts
\* (calls, blocks or items) and those under way at a time, and names the kinds of its
\* items and what this upstream does beyond its protocol.
ASSUME ProfilesAssumption == Profiles \subseteq
    [route : Routes, pieces : Nat, parts : Nat, open : Nat, kinds : SUBSET STRING,
     quirks : SUBSET {"late_name", "terse", "open_end", "unannounced", "text_after_call",
                      "no_arguments", "thoughts_only", "window"}]

VARIABLES
    profile,   \* of the upstream
    source,    \* what a client of the upstream would have
    pieces     \* the pieces sent

route == profile.route

-----------------------------------------------------------------------------
(***************************************************************************)
(* A piece is used once; arguments are whole when their last piece is 0.   *)
(***************************************************************************)
Fresh == IF pieces < profile.pieces THEN {<<pieces + 1>>} ELSE {}
Whole(args) == args = <<>> \/ Last(args) = 0
More(args) == IF args # <<>> /\ Whole(args) THEN {} ELSE Fresh \union {<<0>>}
Has(quirk) == quirk \in profile.quirks
Filled(args) == Whole(args) /\ (args = <<>> => Has("no_arguments"))

\* A piece for a call that is there, or for the next one.
ChatPieces ==
    LET calls == source.calls
        old == {[Chat!Piece(i - 1, i - 1, FALSE, a) EXCEPT
                    !.id = b /\ ~calls[i].id, !.name = b /\ ~calls[i].name] :
                  i \in DOMAIN calls, b \in BOOLEAN,
                  a \in {<<>>} \union UNION {More(calls[j].args) : j \in DOMAIN calls}}
        new == {[Chat!Piece(Len(calls), Len(calls), TRUE, a) EXCEPT !.name = b] :
                  a \in {<<>>} \union Fresh, b \in {TRUE, ~Has("late_name")}}
    IN {p \in old : /\ p.args \in {<<>>} \union More(calls[p.call + 1].args)
                    /\ p.args # <<>> \/ p.name}
       \union (IF Len(calls) < profile.parts THEN new ELSE {})

ChatReasons ==
    LET full == \A i \in DOMAIN source.calls : Filled(source.calls[i].args)
        said == source.text # <<>> \/ source.calls # <<>> \/ Has("thoughts_only")
    IN (IF said THEN {"length"} ELSE {})
       \union (IF full /\ source.calls # <<>> THEN {"tool_calls", "stop"} ELSE {})
       \union (IF said /\ source.calls = <<>> THEN {"stop", "content_filter"} ELSE {})

ChatEvents ==
    LET texts == IF source.calls # <<>> /\ ~Has("text_after_call") THEN {} ELSE Fresh
    IN {Chat!Think(b) : b \in Fresh} \union {Chat!Text(b) : b \in texts}
       \union {Chat!Calls(<<p>>) : p \in ChatPieces}
       \union {[Chat!Text(b) EXCEPT !.calls = <<p>>] :
                 b \in texts, p \in {p \in ChatPieces : p.args = <<>>}}
       \union {[Chat!Finish(r) EXCEPT !.usage = u] : r \in ChatReasons, u \in BOOLEAN}
       \union {Chat!UsageOnly, Chat!Done, Chat!Fault}

ClaudeStops ==
    LET tools == {i \in DOMAIN source.blocks : source.blocks[i].kind = "tool_use"}
        full == \A i \in tools : Whole(source.blocks[i].body)
    IN {"max_tokens"}
       \union {s \in {"model_context_window_exceeded"} : Has("window")}
       \union (IF ~full THEN {} ELSE IF tools # {} THEN {"tool_use"}
                              ELSE {"end_turn", "refusal"})

ClaudeEvents ==
    LET n == Len(source.blocks)
        last == IF n = 0 THEN Claude!Block("none", 0, <<>>) ELSE Last(source.blocks)
        bodies == CASE last.kind \in {"text", "thinking"} -> Fresh
                    [] last.kind \in {"tool_use", "server_tool_use"} -> More(last.body)
                    [] OTHER -> {}
        cut == \E i \in DOMAIN source.blocks : ~Whole(source.blocks[i].body)
                 /\ source.blocks[i].kind \in {"tool_use", "server_tool_use"}
        answered(id) == \E i \in DOMAIN source.blocks :
                          source.blocks[i].kind = "web_search_tool_result"
                          /\ source.blocks[i].of = id
        results == {i - 1 : i \in {i \in DOMAIN source.blocks :
                      source.blocks[i].kind = "server_tool_use" /\ ~answered(i - 1)}}
    IN {Claude!MessageStart, Claude!MessageStop, Claude!Fault}
       \union (IF n = profile.parts \/ cut THEN {}
               ELSE {Claude!BlockStart(n, k, n) : k \in profile.kinds}
                    \union {Claude!BlockStart(n, "web_search_tool_result", id) : id \in results})
       \union {Claude!BlockDelta(n - 1, last.kind, b) : b \in bodies}
       \union {Claude!BlockStop(n - 1)}
       \union (IF last.kind = "thinking" /\ ~last.signed THEN {Claude!Signature(n - 1)} ELSE {})
       \union {Claude!MessageDelta(s) : s \in ClaudeStops}

\* The bodies that a call may end with, and the text of a message that is not streamed.
Endings(entry) ==
    IF entry.item.kind = "function_call"
    THEN IF entry.body = <<>> /\ entry.step = "added"
         THEN {b \o <<0>> : b \in Fresh} \union {<<>>} ELSE {entry.body}
    ELSE IF entry.item.kind = "message" /\ entry.step = "added" /\ Has("terse")
         THEN Fresh ELSE {entry.body}

Cut == \E ix \in DOMAIN source.items :
         source.items[ix].item.kind = "function_call" /\ ~Whole(source.items[ix].body)

\* Calls and searches may be under way at once, but one message or thought at a time.
CodexItems ==
    LET n == Cardinality(DOMAIN source.items)
        open == {ix \in DOMAIN source.items : source.items[ix].step # "done"}
        writing == \E ix \in open : source.items[ix].item.kind \in Responses!Parted
        kinds == IF writing THEN profile.kinds \ Responses!Parted ELSE profile.kinds
        named == {TRUE, ~Has("late_name")}
    IN IF n = profile.parts \/ Cardinality(open) >= profile.open THEN {}
       ELSE {Responses!ItemAdded(n, Responses!Item(k, n, <<>>)) : k \in kinds}
            \union {Responses!ItemAdded(n, [Responses!Item("function_call", n, <<>>)
                                              EXCEPT !.named = b]) : b \in named}
            \union (IF ~Has("unannounced") THEN {}
                    ELSE {Responses!ItemDone(n, Responses!Item("function_call", n, b)) :
                            b \in Fresh})

CodexEnds ==
    LET Full(ix) == [source.items[ix].item EXCEPT !.body = source.items[ix].body,
                                                  !.named = TRUE]
        output == [i \in 1 .. Cardinality(DOMAIN source.items) |-> Full(i - 1)]
    IN {Responses!Terminal("incomplete", r, output) : r \in {"max_output_tokens", "content_filter"}}
       \union (IF Cut THEN {} ELSE {Responses!Terminal("completed", "", output)})

CodexEvents ==
    LET OfItem(ix) ==
          LET entry == source.items[ix]
              kind == entry.item.kind
              bodies == IF kind \in Responses!Parted THEN Fresh ELSE More(entry.body)
              done == IF kind = "web_search_call" THEN Fresh \union {<<>>}
                      ELSE Endings(entry)
          IN {Responses!PartAdded(ix, kind)}
             \union {Responses!Delta(ix, kind, b) : b \in bodies}
             \union {Responses!BodyDone(ix, kind, b) : b \in Endings(entry)}
             \union {Responses!PartDone(ix, kind, entry.body)}
             \union {Responses!ItemDone(ix, [Responses!Item(kind, entry.item.of, b)
                       EXCEPT !.signed = (kind = "reasoning")]) : b \in done}
    IN {Responses!Created, Responses!Failed, Responses!Fault}
       \union CodexItems \union CodexEnds
       \union UNION {OfItem(ix) : ix \in {i \in DOMAIN source.items :
                                            source.items[i].step # "done"}}

\* What the protocol does not allow and the upstream does nevertheless.
Beyond(e) ==
    \/ /\ e.t = "item_done" /\ source.phase = "response"
       /\ \/ Has("terse") /\ e.item.kind \in {"message", "function_call"}
             /\ e.ix \in DOMAIN source.items /\ source.items[e.ix].step = "added"
             /\ source.items[e.ix].body = <<>>
             /\ (e.item.kind = "message" =>
                   \A ix \in DOMAIN source.items :
                     source.items[ix].item.kind = "message" => source.items[ix].body = <<>>)
          \/ Has("unannounced") /\ e.ix \notin DOMAIN source.items
    \/ /\ e.t = "terminal" /\ source.phase = "response" /\ Has("open_end")
       /\ \A ix \in DOMAIN source.items :
            source.items[ix].step = "done" \/ source.items[ix].item.kind = "function_call"

\* The pieces an event brings; those of finished items were there before.
Brought(e) ==
    CASE From(route) = "chat" /\ e.t = "chunk" ->
           ToSet(e.text \o e.think)
             \union UNION {ToSet(e.calls[i].args) : i \in DOMAIN e.calls}
      [] e.t \in {"delta", "content_block_delta", "body_done"} -> ToSet(e.body)
      [] e.t = "item_done" -> ToSet(e.item.body)
      [] OTHER -> {}

\* The upstream sends e.
Sends(e) ==
    /\ profile' = profile
    /\ pieces' = IF pieces + 1 \in Brought(e) THEN pieces + 1 ELSE pieces
    /\ CASE From(route) = "chat" ->
              Chat!MayFollow(source, e) /\ source' = Chat!Follow(source, e)
         [] From(route) = "claude" ->
              Claude!MayFollow(source, e) /\ source' = Claude!Follow(source, e)
         [] OTHER -> (Responses!MayFollow(source, e) \/ Beyond(e))
                       /\ source' = Responses!Follow(source, e)

Events == CASE From(route) = "chat" -> ChatEvents
            [] From(route) = "claude" -> ClaudeEvents
            [] OTHER -> CodexEvents

=============================================================================
