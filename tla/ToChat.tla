------------------------------- MODULE ToChat -------------------------------
(***************************************************************************)
(* Chat completions and the translators to them.                           *)
(***************************************************************************)
Chat == INSTANCE ChatProtocol
CodexChat == INSTANCE CodexToChat
ClaudeChat == INSTANCE ClaudeToChat
=============================================================================
