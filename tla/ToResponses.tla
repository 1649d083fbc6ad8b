---------------------------- MODULE ToResponses -----------------------------
(***************************************************************************)
(* Responses and the translators to them.                                  *)
(***************************************************************************)
Responses == INSTANCE ResponsesProtocol
ChatResponses == INSTANCE OpenAIToResponses
ClaudeResponses == INSTANCE ClaudeToResponses
=============================================================================
