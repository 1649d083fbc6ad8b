--------------------------- MODULE MCStreamForward ---------------------------
(***************************************************************************)
(* Small instances of StreamForward.                                       *)
(***************************************************************************)
EXTENDS StreamForward, TLC

CONSTANT s1

Chat == s1 :> "openai"
=============================================================================
