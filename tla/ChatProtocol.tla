---------------------------- MODULE ChatProtocol ----------------------------
(***************************************************************************)
(* The chat completion protocol as the translators of internal/conversion  *)
(* read and write it, for an answer with one choice: a chunk may bring a   *)
(* thought, text and pieces of several calls at once, in any order, until  *)
(* one brings the reason to finish; then come the usage and [DONE].        *)
(*                                                                         *)
(* Bodies are sequences of pieces, as in ClaudeProtocol.                   *)
(***************************************************************************)
EXTENDS Tables, Sequences, SequencesExt

\* A piece of a call: its index, whether its id and its name are in it, of being the
\* call that the id stands for.
Piece(call, of, known, args) ==
    [call |-> call, of |-> of, id |-> known, name |-> known, args |-> args]

Chunk == [t |-> "chunk", delta |-> TRUE, think |-> <<>>, text |-> <<>>, calls |-> <<>>,
          finish |-> "", usage |-> FALSE, choice |-> TRUE]
Think(body) == [Chunk EXCEPT !.think = body]
Text(body) == [Chunk EXCEPT !.text = body]
Calls(pieces) == [Chunk EXCEPT !.calls = pieces]
Finish(reason) == [Chunk EXCEPT !.finish = reason]
UsageOnly == [Chunk EXCEPT !.delta = FALSE, !.choice = FALSE, !.usage = TRUE]
Done == [t |-> "done"]
Fault == [t |-> "error"]

(***************************************************************************)
(* The client.                                                             *)
(***************************************************************************)
NoCompletion ==
    [phase |-> "before", text |-> <<>>, think |-> <<>>, calls |-> <<>>, finish |-> ""]

\* Calls are numbered in the order they begin, and each is identified once.
MayAdd(m, p) ==
    \/ p.call = Len(m.calls)
    \/ /\ p.call \in 0 .. Len(m.calls) - 1
       /\ ~(p.id /\ m.calls[p.call + 1].id) /\ ~(p.name /\ m.calls[p.call + 1].name)

Grown(call, p) ==
    [call EXCEPT !.of = IF p.id THEN p.of ELSE @, !.id = @ \/ p.id, !.name = @ \/ p.name,
                 !.args = @ \o p.args]

Add(m, p) ==
    IF p.call = Len(m.calls)
    THEN [m EXCEPT !.calls = Append(@, [of |-> p.of, id |-> p.id, name |-> p.name,
                                        args |-> p.args])]
    ELSE [m EXCEPT !.calls[p.call + 1] = Grown(@, p)]

TakePiece(m, p) == IF MayAdd(m, p) THEN Add(m, p) ELSE [m EXCEPT !.phase = "wrong"]

Take(m, chunk) ==
    LET s == [m EXCEPT !.phase = "message", !.text = @ \o chunk.text,
                       !.think = @ \o chunk.think]
    IN FoldLeft(TakePiece, s, chunk.calls)

Known(m) == \A i \in DOMAIN m.calls : m.calls[i].id /\ m.calls[i].name

MayFollow(m, chunk) ==
    CASE chunk.t = "done" -> m.phase = "finished"
      [] chunk.t = "error" -> m.phase \notin {"end", "wrong"}
      [] chunk.t = "chunk" /\ ~chunk.choice -> m.phase = "finished"
      [] OTHER -> /\ m.phase \in {"before", "message"}
                  /\ Take(m, chunk).phase # "wrong"
                  /\ chunk.finish # "" => Known(Take(m, chunk))

Follow(m, chunk) ==
    CASE chunk.t = "done" -> [m EXCEPT !.phase = "end"]
      [] chunk.t = "error" -> [m EXCEPT !.phase = "end", !.finish = "error"]
      [] chunk.t = "chunk" /\ ~chunk.choice -> m
      [] OTHER -> IF chunk.finish = "" THEN Take(m, chunk)
                  ELSE [Take(m, chunk) EXCEPT !.phase = "finished", !.finish = chunk.finish]

Accept(m, chunk) ==
    IF MayFollow(m, chunk) THEN Follow(m, chunk) ELSE [m EXCEPT !.phase = "wrong"]

Receive(m, chunks) == FoldLeft(Accept, m, chunks)
=============================================================================
