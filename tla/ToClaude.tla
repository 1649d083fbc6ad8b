------------------------------ MODULE ToClaude ------------------------------
(***************************************************************************)
(* Claude's messages and the translators to them.                          *)
(***************************************************************************)
Claude == INSTANCE ClaudeProtocol
ChatClaude == INSTANCE OpenAIToClaude
CodexClaude == INSTANCE CodexToClaude
=============================================================================
