--------------------------- MODULE ClaudeProtocol ---------------------------
(***************************************************************************)
(* The messages protocol of Claude as the translators of                   *)
(* internal/conversion read and write it: the events of a stream, the      *)
(* message that a client builds from them, and which event may follow.     *)
(*                                                                         *)
(* Text, thoughts and arguments are sequences of pieces, which are         *)
(* numbers.  The piece 0 is the one that makes arguments a JSON object.    *)
(***************************************************************************)
EXTENDS Tables, Sequences, SequencesExt

MessageStart == [t |-> "message_start"]
\* of is the call a tool_use block stands for.
BlockStart(ix, kind, of) ==
    [t |-> "content_block_start", ix |-> ix, kind |-> kind, of |-> of]
BlockDelta(ix, kind, body) ==
    [t |-> "content_block_delta", ix |-> ix, kind |-> kind, body |-> body]
Signature(ix) == [t |-> "signature_delta", ix |-> ix]
BlockStop(ix) == [t |-> "content_block_stop", ix |-> ix]
MessageDelta(stop) == [t |-> "message_delta", stop |-> stop]
MessageStop == [t |-> "message_stop"]
Fault == [t |-> "error"]

Block(kind, of, body) == [kind |-> kind, of |-> of, body |-> body, signed |-> FALSE]

(***************************************************************************)
(* The client.  Blocks are sent one after the other, numbered from 0, each *)
(* between its start and its stop; open says that the last one is not      *)
(* stopped yet.                                                            *)
(***************************************************************************)
NoMessage == [phase |-> "before", blocks |-> <<>>, open |-> FALSE, stop |-> ""]

InBlock(m, ix) == m.phase = "message" /\ m.open /\ ix = Len(m.blocks) - 1

MayFollow(m, e) ==
    CASE e.t = "message_start" -> m.phase = "before"
      [] e.t = "content_block_start" ->
             m.phase = "message" /\ ~m.open /\ e.ix = Len(m.blocks)
      [] e.t = "content_block_delta" -> InBlock(m, e.ix) /\ e.kind = Last(m.blocks).kind
      [] e.t = "signature_delta" -> InBlock(m, e.ix) /\ Last(m.blocks).kind = "thinking"
      [] e.t = "content_block_stop" -> InBlock(m, e.ix)
      [] e.t = "message_delta" -> m.phase = "message" /\ ~m.open
      [] e.t = "message_stop" -> m.phase = "delta"
      [] e.t = "error" -> m.phase \notin {"end", "wrong"}

Follow(m, e) ==
    CASE e.t = "message_start" -> [m EXCEPT !.phase = "message"]
      [] e.t = "content_block_start" ->
             [m EXCEPT !.blocks = Append(@, Block(e.kind, e.of, <<>>)), !.open = TRUE]
      [] e.t = "content_block_delta" ->
             [m EXCEPT !.blocks[Len(m.blocks)].body = @ \o e.body]
      [] e.t = "signature_delta" -> [m EXCEPT !.blocks[Len(m.blocks)].signed = TRUE]
      [] e.t = "content_block_stop" -> [m EXCEPT !.open = FALSE]
      [] e.t = "message_delta" -> [m EXCEPT !.phase = "delta", !.stop = e.stop]
      [] e.t \in {"message_stop", "error"} -> [m EXCEPT !.phase = "end"]

Accept(m, e) ==
    IF MayFollow(m, e) THEN Follow(m, e) ELSE [m EXCEPT !.phase = "wrong"]

\* What a client has of the message when it has got the events.
Receive(m, events) == FoldLeft(Accept, m, events)
=============================================================================
