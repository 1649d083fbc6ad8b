------------------------- MODULE MCTranslatedStream -------------------------
(***************************************************************************)
(* Every route, with the liberties of its upstream that the translator is  *)
(* made for.                                                               *)
(***************************************************************************)
EXTENDS TranslatedStream

Profile(r, most, parts, open, kinds, quirks) ==
    [route |-> r, pieces |-> most, parts |-> parts, open |-> open, kinds |-> kinds,
     quirks |-> quirks]

BlockKinds == {"text", "thinking", "tool_use"}
Searches == {"redacted_thinking", "server_tool_use"}
ItemKinds == {"message", "reasoning", "function_call"}

HandledProfiles ==
    {Profile("chat-claude", 2, 3, 3, {},
             {"late_name", "text_after_call", "no_arguments", "thoughts_only"}),
     Profile("chat-claude", 2, 3, 3, {}, {"text_after_call"}),
     Profile("chat-responses", 2, 3, 3, {}, {"late_name"}),
     Profile("codex-claude", 2, 2, 2, ItemKinds \union {"web_search_call"},
             {"late_name", "terse", "open_end", "unannounced"}),
     Profile("codex-claude", 1, 3, 3, {"message", "function_call"}, {"open_end"}),
     Profile("codex-claude", 2, 3, 1, ItemKinds \union {"web_search_call"}, {"terse", "open_end"}),
     Profile("codex-chat", 2, 3, 2, ItemKinds, {}),
     Profile("claude-responses", 2, 3, 1, BlockKinds \union Searches, {"window"}),
     Profile("claude-chat", 3, 3, 1, BlockKinds, {})}

\* An endpoint whose answer has a call that is not announced after one that is.
UnannouncedCalls == {Profile("codex-chat", 1, 2, 1, {}, {"unannounced"})}
=============================================================================
