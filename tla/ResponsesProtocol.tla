------------------------- MODULE ResponsesProtocol -------------------------
(***************************************************************************)
(* The responses protocol as the translators of internal/conversion read   *)
(* and write it.  A response is a list of items, each at its output index; *)
(* the events of different items may alternate.  Of every item there is    *)
(* the announcement, its pieces, what they amount to (twice, for an item   *)
(* with a content or summary part) and the finished item, and the last     *)
(* event repeats all finished items.                                       *)
(*                                                                         *)
(* Bodies are sequences of pieces, as in ClaudeProtocol.                   *)
(***************************************************************************)
EXTENDS Tables, Sequences, SequencesExt

\* of is the call that an item stands for, named says that the tool is known.
Item(kind, of, body) ==
    [kind |-> kind, of |-> of, body |-> body, signed |-> FALSE, named |-> TRUE,
     status |-> "completed"]

Created == [t |-> "created"]
ItemAdded(ix, item) == [t |-> "item_added", ix |-> ix, item |-> item]
PartAdded(ix, kind) == [t |-> "part_added", ix |-> ix, kind |-> kind]
Delta(ix, kind, body) == [t |-> "delta", ix |-> ix, kind |-> kind, body |-> body]
\* output_text.done, reasoning_summary_text.done or function_call_arguments.done
BodyDone(ix, kind, body) == [t |-> "body_done", ix |-> ix, kind |-> kind, body |-> body]
PartDone(ix, kind, body) == [t |-> "part_done", ix |-> ix, kind |-> kind, body |-> body]
ItemDone(ix, item) == [t |-> "item_done", ix |-> ix, item |-> item]
\* response.completed or response.incomplete
Terminal(status, reason, output) ==
    [t |-> "terminal", status |-> status, reason |-> reason, output |-> output]
Failed == [t |-> "failed"]
Fault == [t |-> "error"]

Parted == {"message", "reasoning"}

(***************************************************************************)
(* The client: items holds at each output index the item so far and how    *)
(* much of its protocol is through.                                        *)
(***************************************************************************)
NoResponse == [phase |-> "before", items |-> <<>>, output |-> <<>>, status |-> "",
               reason |-> ""]

At(m, ix) == m.items[ix]
InItem(m, e, steps) ==
    m.phase = "response" /\ e.ix \in DOMAIN m.items /\ At(m, e.ix).step \in steps

Growing(kind) == IF kind \in Parted THEN "part" ELSE "added"
Amounts(m, e) ==
    IF e.kind \in Parted THEN e.body = At(m, e.ix).body
    ELSE IsPrefix(At(m, e.ix).body, e.body)
Closed(kind) ==
    CASE kind \in Parted -> "part_done" [] kind = "function_call" -> "body"
      [] OTHER -> "added"

\* The finished items, in the order of their indices.
Finished(m) == [i \in 1 .. Cardinality(DOMAIN m.items) |-> m.items[i - 1].item]
Contiguous(m) == DOMAIN m.items = 0 .. Cardinality(DOMAIN m.items) - 1

MayFollow(m, e) ==
    CASE e.t = "created" -> m.phase = "before"
      [] e.t = "item_added" -> m.phase = "response" /\ e.ix \notin DOMAIN m.items
      [] e.t = "part_added" -> e.kind \in Parted /\ InItem(m, e, {"added"})
      [] e.t = "delta" ->
             InItem(m, e, {Growing(e.kind)}) /\ e.kind = At(m, e.ix).item.kind
      [] e.t = "body_done" ->
             InItem(m, e, {Growing(e.kind)}) /\ Amounts(m, e)
      [] e.t = "part_done" -> InItem(m, e, {"body"}) /\ e.body = At(m, e.ix).body
      [] e.t = "item_done" ->
             /\ InItem(m, e, {Closed(e.item.kind)})
             /\ e.item.kind = At(m, e.ix).item.kind
             /\ e.item.kind # "web_search_call" => e.item.body = At(m, e.ix).body
      [] e.t = "terminal" ->
             /\ m.phase = "response" /\ Contiguous(m)
             /\ \A ix \in DOMAIN m.items : At(m, ix).step = "done"
      [] e.t \in {"failed", "error"} -> m.phase \notin {"end", "wrong"}

Follow(m, e) ==
    CASE e.t = "created" -> [m EXCEPT !.phase = "response"]
      [] e.t = "item_added" ->
             [m EXCEPT !.items =
                Put(@, e.ix, [item |-> e.item, body |-> <<>>, step |-> "added"])]
      [] e.t = "part_added" -> [m EXCEPT !.items[e.ix].step = "part"]
      [] e.t = "delta" -> [m EXCEPT !.items[e.ix].body = @ \o e.body]
      [] e.t = "body_done" ->
             [m EXCEPT !.items[e.ix].body = e.body, !.items[e.ix].step = "body"]
      [] e.t = "part_done" -> [m EXCEPT !.items[e.ix].step = "part_done"]
      [] e.t = "item_done" ->
             [m EXCEPT !.items =
                Put(@, e.ix, [item |-> e.item, body |-> e.item.body, step |-> "done"])]
      [] e.t = "terminal" ->
             [m EXCEPT !.phase = "end", !.output = e.output, !.status = e.status,
                       !.reason = e.reason]
      [] e.t \in {"failed", "error"} -> [m EXCEPT !.phase = "end", !.status = "failed"]

Accept(m, e) ==
    IF MayFollow(m, e) THEN Follow(m, e) ELSE [m EXCEPT !.phase = "wrong"]

Receive(m, events) == FoldLeft(Accept, m, events)
=============================================================================
