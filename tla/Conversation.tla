---------------------------- MODULE Conversation ----------------------------
(***************************************************************************)
(* A conversation as the clients and the model's endpoint write it down in *)
(* a request: messages of parts.  In the responses protocol every item is  *)
(* a message of one part, in the chat protocol a message of role tool has  *)
(* one result, and in Claude's the results are parts of user messages.     *)
(***************************************************************************)
EXTENDS Integers, Sequences, FiniteSets, SequencesExt

\* kind is "text", "think" (a thought that carries the upstream's signature), "foreign"
\* (one that does not), "call" or "result"; of is the id of the call, 0 for none, and n
\* stands for the content.
Part(role, kind, of, n) == [role |-> role, kind |-> kind, of |-> of, n |-> n]
\* plain says that the content is a string and not a list of parts.
Message(role, parts) == [role |-> role, parts |-> parts, plain |-> FALSE]

Parts(messages) == FlattenSeq([i \in DOMAIN messages |-> messages[i].parts])
OfKind(parts, kinds) == SelectSeq(parts, LAMBDA p : p.kind \in kinds)
Ids(parts, kind) == {p.of : p \in ToSet(OfKind(parts, {kind}))}
IdSeq(parts, kind) == LET s == OfKind(parts, {kind}) IN [i \in DOMAIN s |-> s[i].of]

\* A result that answers no call goes as text.
AsText(part) == Part("user", "text", 0, part.n)

\* common.AlignClaudeToolResults: the results of a message are put in the order of the
\* calls before it, if each call has one, and stay in the places of results.
AlignResults(parts, ids) ==
    LET places == SelectSeq([i \in DOMAIN parts |-> i], LAMBDA i : parts[i].kind = "result")
        Answers(id) == {i \in ToSet(places) : parts[i].of = id}
        complete == Len(places) = Len(ids) /\ \A id \in ToSet(ids) : Answers(id) # {}
        Place(i) == CHOOSE k \in DOMAIN places : places[k] = i
    IN IF ~complete THEN parts
       ELSE [i \in DOMAIN parts |->
               IF parts[i].kind # "result" THEN parts[i]
               ELSE parts[CHOOSE j \in Answers(ids[Place(i)]) : TRUE]]

-----------------------------------------------------------------------------
(***************************************************************************)
(* common.NormalizeResponsesToolCallOutputs: outputs without the id of a   *)
(* call answer, in order, the calls that are still pending and that no     *)
(* output names.  (The names that an output may have are left out.)        *)
(***************************************************************************)
\* Mutant: no call is kept for the output that names it.
Unnamed(items, id) == FALSE

Named(items, id) == \E k \in DOMAIN items : items[k].kind = "result" /\ items[k].of = id

\* The outputs that follow each other from i on.
RunEnd(items, i) ==
    CHOOSE j \in i .. Len(items) :
        /\ \A k \in i .. j : items[k].kind = "result"
        /\ j < Len(items) => items[j + 1].kind # "result"

MatchRun(a, i) ==
    LET run == [k \in 1 .. RunEnd(a.items, i) - i + 1 |-> i + k - 1]
        answered == {a.items[k].of : k \in ToSet(run)}
        left == SelectSeq(a.pending, LAMBDA id : id \notin answered)
        free == SelectSeq(left, LAMBDA id : ~Named(a.items, id))
        nameless == SelectSeq(run, LAMBDA k : a.items[k].of = 0)
        given == [k \in {nameless[m] : m \in DOMAIN nameless \intersect DOMAIN free} |->
                    free[CHOOSE m \in DOMAIN nameless : nameless[m] = k]]
    IN [a EXCEPT !.out = [k \in DOMAIN @ |-> IF k \in DOMAIN given
                                             THEN [@[k] EXCEPT !.of = given[k]] ELSE @[k]],
                 !.pending = SelectSeq(left, LAMBDA id : \A k \in DOMAIN given : given[k] # id)]

NormalizeOutputs(items) ==
    LET Step(a, i) ==
          CASE items[i].kind = "call" -> [a EXCEPT !.pending = Append(@, items[i].of)]
            [] items[i].kind = "result" /\ (i = 1 \/ items[i - 1].kind # "result") ->
                 MatchRun(a, i)
            [] OTHER -> a
    IN FoldLeft(Step, [items |-> items, out |-> items, pending |-> <<>>],
                [i \in DOMAIN items |-> i]).out
=============================================================================
