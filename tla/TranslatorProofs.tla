-------------------------- MODULE TranslatorProofs --------------------------
(***************************************************************************)
(* What the translators of streams and the clients of the three protocols  *)
(* keep, event by event, whatever the upstream.                            *)
(*                                                                         *)
(* Translators to responses make no end of their own before the last event *)
(* of the upstream: their output until then is quiet.  Translators to chat *)
(* keep step with their client: what a translator knows of the stream (the *)
(* next index, the calls announced) fits what the client has once it has   *)
(* received the translator's output, so that every chunk is a legal one.   *)
(* So does the translator from chat to Claude, whose client has at most    *)
(* one block open: the translator knows its kind, and which call it is of. *)
(* What a translator does at an event is a fold over calls, searches or    *)
(* events; module FoldFacts says what a fold keeps.                        *)
(***************************************************************************)
EXTENDS Integers, Sequences, ToChat, ToClaude, ToResponses, FiniteSetTheorems, TLAPS

\* The induction that the folds rest on: a smallest set of indices outside G has all its
\* strict subsets in G.
LEMMA IndexInduction ==
    \A n \in Nat : \A G :
      (\A s \in SUBSET (1 .. n) : (\A t \in SUBSET s : t # s => t \in G) => s \in G)
        => \A s \in SUBSET (1 .. n) : s \in G
  <1> SUFFICES ASSUME NEW n \in Nat, NEW G,
                      \A s \in SUBSET (1 .. n) :
                        (\A t \in SUBSET s : t # s => t \in G) => s \in G,
                      NEW r \in SUBSET (1 .. n), r \notin G
               PROVE  FALSE
    OBVIOUS
  <1> DEFINE S == 1 .. n
             R == StrictSubsetOrdering(S)
  <1>1. IsFiniteSet(S)
    BY FS_Interval
  <1> HIDE DEF S
  <1>2. IsWellFoundedOn(R, SUBSET S)
    <2>1. IsWellFoundedOn(R, FiniteSubsetsOf(S))
      BY <1>1, FS_StrictSubsetOrderingWellFounded
    <2>2. FiniteSubsetsOf(S) = SUBSET S
      BY <1>1, FS_FiniteSubsetsOfFinite
    <2>3. QED
      BY <2>1, <2>2
  <1>3. \A s, t \in SUBSET S : t \subseteq s /\ t # s => <<t, s>> \in R
    BY DEF StrictSubsetOrdering
  <1> HIDE DEF R
  <1> DEFINE B == {s \in SUBSET S : s \notin G}
  <1>4. B \subseteq SUBSET S /\ B # {}
    BY DEF S
  <1> HIDE DEF B
  <1>5. PICK s \in B : \A t \in B : ~(<<t, s>> \in R)
    BY <1>2, <1>4, WFMin
  <1>6. s \in SUBSET S /\ s \notin G
    BY <1>5 DEF B
  <1>7. ASSUME NEW t \in SUBSET s, t # s PROVE t \in G
    <2>1. t \in SUBSET S /\ <<t, s>> \in R
      BY <1>3, <1>6, <1>7
    <2>2. QED
      BY <1>5, <2>1 DEF B
  <1>8. QED
    BY <1>6, <1>7 DEF S

\* The events that the translators write, those that are no end, and their sequences.
EventKinds == {"created", "item_added", "part_added", "delta", "body_done", "part_done",
               "item_done", "terminal"}
IsEvent(e) == /\ "t" \in DOMAIN e /\ e.t \in EventKinds
              /\ e.t = "terminal" => "status" \in DOMAIN e
IsPlain(e) == IsEvent(e) /\ e.t # "terminal"

Proper(out) == \E R : out \in Seq(R) /\ \A e \in R : IsEvent(e)
Quiet(out) == \E R : out \in Seq(R) /\ \A e \in R : IsPlain(e)

\* A sequence of such events with one more.
LEMMA QuietAppend ==
    ASSUME NEW out, Quiet(out), NEW e, IsPlain(e)
    PROVE  Quiet(Append(out, e))
  <1>1. PICK R : out \in Seq(R) /\ \A x \in R : IsPlain(x)
    BY DEF Quiet
  <1> DEFINE Q == R \union {e}
  <1>2. out \in Seq(Q) /\ e \in Q
    BY <1>1
  <1>3. \A x \in Q : IsPlain(x)
    BY <1>1
  <1> HIDE DEF Q
  <1>4. Append(out, e) \in Seq(Q)
    BY <1>2
  <1>5. QED
    BY <1>3, <1>4 DEF Quiet

LEMMA ProperAppend ==
    ASSUME NEW out, Quiet(out), NEW e, IsEvent(e)
    PROVE  Proper(Append(out, e))
  <1>1. PICK R : out \in Seq(R) /\ \A x \in R : IsPlain(x)
    BY DEF Quiet
  <1> DEFINE Q == R \union {e}
  <1>2. out \in Seq(Q) /\ e \in Q
    BY <1>1
  <1>3. \A x \in Q : IsEvent(x)
    BY <1>1 DEF IsPlain
  <1> HIDE DEF Q
  <1>4. Append(out, e) \in Seq(Q)
    BY <1>2
  <1>5. QED
    BY <1>3, <1>4 DEF Proper

-----------------------------------------------------------------------------
(***************************************************************************)
(* The translator of chat completions.  It is calm while its output is     *)
(* quiet; it has the calls of the answer in a finite table.                *)
(***************************************************************************)
Calm(st) == /\ "out" \in DOMAIN st /\ "calls" \in DOMAIN st
            /\ IsFiniteSet(DOMAIN st.calls)
            /\ Quiet(st.out)

\* The fields that do not matter to that may change.
LEMMA CalmKept ==
    ASSUME NEW a, Calm(a), NEW b, DOMAIN b = DOMAIN a, b.out = a.out,
           DOMAIN b.calls = DOMAIN a.calls
    PROVE  Calm(b)
  BY DEF Calm

\* No event but the last one of a response is an end.
LEMMA PlainEvents ==
    /\ IsPlain(ChatResponses!Created)
    /\ \A ix, item : IsPlain(ChatResponses!ItemAdded(ix, item))
    /\ \A ix, kind : IsPlain(ChatResponses!PartAdded(ix, kind))
    /\ \A ix, kind, body : IsPlain(ChatResponses!Delta(ix, kind, body))
    /\ \A ix, kind, body : IsPlain(ChatResponses!BodyDone(ix, kind, body))
    /\ \A ix, kind, body : IsPlain(ChatResponses!PartDone(ix, kind, body))
    /\ \A ix, item : IsPlain(ChatResponses!ItemDone(ix, item))
  BY DEF IsPlain, IsEvent, EventKinds, ChatResponses!Created, ChatResponses!ItemAdded,
         ChatResponses!PartAdded, ChatResponses!Delta, ChatResponses!BodyDone,
         ChatResponses!PartDone, ChatResponses!ItemDone

\* Each operator of the translator but the last keeps it calm.
LEMMA ChatEmit ==
    ASSUME NEW st, Calm(st), NEW e, IsPlain(e)
    PROVE  /\ Calm(ChatResponses!Emit(st, e))
           /\ DOMAIN ChatResponses!Emit(st, e) = DOMAIN st
           /\ ChatResponses!Emit(st, e).calls = st.calls
  BY QuietAppend DEF Calm, ChatResponses!Emit

LEMMA ChatAddCall ==
    ASSUME NEW st, Calm(st), NEW c, NEW force
    PROVE  Calm(ChatResponses!AddCall(st, c, force))
  <1> DEFINE e == ChatResponses!ItemAdded(st.calls[c].at,
                    ChatResponses!Item("function_call", c, <<>>))
             s == ChatResponses!Emit(st, e)
             x == ChatResponses!AddCall(st, c, force)
  <1>1. Calm(s)
    BY PlainEvents, ChatEmit
  <1>2. x = st \/ x = [s EXCEPT !.calls[c].added = TRUE, !.calls[c].id = TRUE]
    BY DEF ChatResponses!AddCall
  <1> HIDE DEF s, x
  <1>3. CASE x = [s EXCEPT !.calls[c].added = TRUE, !.calls[c].id = TRUE]
    <2>1. DOMAIN x = DOMAIN s /\ x.out = s.out /\ DOMAIN x.calls = DOMAIN s.calls
      BY <1>1, <1>3 DEF Calm
    <2>2. Calm(x)
      BY <1>1, <2>1, CalmKept
    <2>3. QED
      BY <2>2 DEF x
  <1>4. QED
    BY <1>2, <1>3 DEF x

LEMMA ChatSendArguments ==
    ASSUME NEW st, Calm(st), NEW c
    PROVE  Calm(ChatResponses!SendArguments(st, c))
  <1> DEFINE e == ChatResponses!Delta(st.calls[c].at, "function_call",
                    SubSeq(st.calls[c].args, st.calls[c].sent + 1, Len(st.calls[c].args)))
             s == ChatResponses!Emit(st, e)
             x == ChatResponses!SendArguments(st, c)
  <1>1. Calm(s)
    BY PlainEvents, ChatEmit
  <1>2. x = st \/ x = [s EXCEPT !.calls[c].sent = Len(st.calls[c].args)]
    BY Zenon DEF ChatResponses!SendArguments
  <1> HIDE DEF s, x
  <1>3. CASE x = [s EXCEPT !.calls[c].sent = Len(st.calls[c].args)]
    <2>1. DOMAIN x = DOMAIN s /\ x.out = s.out /\ DOMAIN x.calls = DOMAIN s.calls
      BY <1>1, <1>3 DEF Calm
    <2>2. Calm(x)
      BY <1>1, <2>1, CalmKept
    <2>3. QED
      BY <2>2 DEF x
  <1>4. QED
    BY <1>2, <1>3 DEF x

LEMMA ChatTold ==
    ASSUME NEW st, Calm(st), NEW ix, NEW kind, NEW body
    PROVE  /\ Calm(ChatResponses!Told(st, ix, kind, body))
           /\ Calm(ChatResponses!Announced(st, ix, kind))
  <1>1. Calm(ChatResponses!Emit(st, ChatResponses!BodyDone(ix, kind, body)))
    BY PlainEvents, ChatEmit
  <1>2. Calm(ChatResponses!Told(st, ix, kind, body))
    BY <1>1, PlainEvents, ChatEmit DEF ChatResponses!Told
  <1>3. Calm(ChatResponses!Emit(st, ChatResponses!ItemAdded(ix, ChatResponses!Item(kind, 0, <<>>))))
    BY PlainEvents, ChatEmit
  <1>4. Calm(ChatResponses!Announced(st, ix, kind))
    BY <1>3, PlainEvents, ChatEmit DEF ChatResponses!Announced
  <1>5. QED
    BY <1>2, <1>4

LEMMA ChatStopReasoning ==
    ASSUME NEW st, Calm(st)
    PROVE  Calm(ChatResponses!StopReasoning(st))
  <1> DEFINE item == ChatResponses!Item("reasoning", 0, st.reasoning.body)
             s == ChatResponses!Emit(
                    ChatResponses!Told(st, st.reasoning.at, "reasoning", st.reasoning.body),
                    ChatResponses!ItemDone(st.reasoning.at, item))
             x == ChatResponses!StopReasoning(st)
  <1>1. Calm(s)
    BY ChatTold, PlainEvents, ChatEmit
  <1>2. \/ x = st
        \/ x = [s EXCEPT !.thoughts = Append(@, [at |-> st.reasoning.at, item |-> item]),
                         !.reasoning = [at |-> ChatResponses!None, body |-> <<>>]]
    BY DEF ChatResponses!StopReasoning
  <1> HIDE DEF s, x, item
  <1>3. ASSUME x # st PROVE Calm(x)
    <2>1. DOMAIN x = DOMAIN s /\ x.out = s.out /\ x.calls = s.calls
      BY <1>1, <1>2, <1>3, Zenon DEF Calm
    <2>2. QED
      BY <1>1, <2>1, CalmKept
  <1>4. QED
    BY <1>3 DEF x

LEMMA ChatMessageDone ==
    ASSUME NEW st, Calm(st)
    PROVE  Calm(ChatResponses!MessageDone(st))
  <1> DEFINE m == st.message
             s == ChatResponses!Emit(ChatResponses!Told(st, m.at, "message", m.body),
                    ChatResponses!ItemDone(m.at, ChatResponses!MessageItem(st)))
             x == ChatResponses!MessageDone(st)
  <1>1. Calm(s)
    BY ChatTold, PlainEvents, ChatEmit
  <1>2. x = st \/ x = [s EXCEPT !.message.done = TRUE]
    BY DEF ChatResponses!MessageDone
  <1> HIDE DEF s, x
  <1>3. ASSUME x # st PROVE Calm(x)
    <2>1. DOMAIN x = DOMAIN s /\ x.out = s.out /\ x.calls = s.calls
      BY <1>1, <1>2, <1>3 DEF Calm
    <2>2. QED
      BY <1>1, <2>1, CalmKept
  <1>4. QED
    BY <1>3 DEF x

LEMMA ChatCallDone ==
    ASSUME NEW st, Calm(st), NEW c
    PROVE  Calm(ChatResponses!CallDone(st, c))
  <1> DEFINE s == ChatResponses!SendArguments(ChatResponses!AddCall(st, c, TRUE), c)
             Y(body, item) == ChatResponses!Emit(
                       ChatResponses!Emit(s, ChatResponses!BodyDone(s.calls[c].at, "function_call", body)),
                       ChatResponses!ItemDone(s.calls[c].at, item))
             x == ChatResponses!CallDone(st, c)
  <1>1. Calm(s)
    BY ChatAddCall, ChatSendArguments, Zenon
  <1>2. ASSUME NEW body, NEW item PROVE Calm(Y(body, item))
    <2> HIDE DEF s
    <2>1. Calm(ChatResponses!Emit(s, ChatResponses!BodyDone(s.calls[c].at, "function_call", body)))
      BY <1>1, PlainEvents, ChatEmit
    <2>2. QED
      BY <2>1, PlainEvents, ChatEmit
  <1>3. x = st \/ \E body, item : x = [Y(body, item) EXCEPT !.calls[c].done = TRUE]
    BY Zenon DEF ChatResponses!CallDone
  <1> HIDE DEF s, x, Y
  <1>4. ASSUME x # st PROVE Calm(x)
    <2>1. PICK body, item : x = [Y(body, item) EXCEPT !.calls[c].done = TRUE]
      BY <1>3, <1>4
    <2>2. Calm(Y(body, item))
      BY <1>2
    <2>3. DOMAIN x = DOMAIN Y(body, item) /\ x.out = Y(body, item).out
          /\ DOMAIN x.calls = DOMAIN Y(body, item).calls
      BY <2>1, <2>2 DEF Calm
    <2>4. QED
      BY <2>2, <2>3, CalmKept
  <1>5. QED
    BY <1>4 DEF x

\* Its folds: over the calls to finish, and over the pieces of calls in a chunk.
CallDoneStep(st, c, with) == ChatResponses!CallDone(st, c)
CallPieceStep(st, piece, with) == ChatResponses!CallPiece(st, piece)
StaysCalm(st, aim) == Calm(st)
DoneFold == INSTANCE FoldFacts WITH Op <- CallDoneStep, Good <- StaysCalm
PieceFold == INSTANCE FoldFacts WITH Op <- CallPieceStep, Good <- StaysCalm
LEMMA DoneInduction == DoneFold!Induction /\ PieceFold!Induction
  BY IndexInduction, Zenon DEF DoneFold!Induction, PieceFold!Induction

LEMMA ChatDoneFold ==
    ASSUME NEW st, Calm(st), NEW n \in Nat, NEW seq, DOMAIN seq = 1 .. n
    PROVE  Calm(ChatResponses!FoldLeft(ChatResponses!CallDone, st, seq))
  <1>1. StaysCalm(DoneFold!Folded(0, st, seq), 0)
    <2>1. DoneFold!Line(DOMAIN seq)
      BY DEF DoneFold!Line
    <2>2. StaysCalm(st, 0)
      BY DEF StaysCalm
    <2>3. \A x : \A i \in DOMAIN seq :
            StaysCalm(x, 0) => StaysCalm(CallDoneStep(x, seq[i], 0), 0)
      BY ChatCallDone DEF StaysCalm, CallDoneStep
    <2>4. QED
      BY <2>1, <2>2, <2>3, DoneInduction, DoneFold!FoldKeeps
  <1>2. DoneFold!Folded(0, st, seq)
          = ChatResponses!FoldLeft(ChatResponses!CallDone, st, seq)
    BY DEF DoneFold!Folded, DoneFold!Part, DoneFold!Table, DoneFold!Top, CallDoneStep,
           ChatResponses!FoldLeft, ChatResponses!MapThenFoldSet, ChatResponses!Max
  <1>3. QED
    BY <1>1, <1>2 DEF StaysCalm

LEMMA ChatFinishItems ==
    ASSUME NEW st, Calm(st)
    PROVE  Calm(ChatResponses!FinishItems(st))
  <1> DEFINE a == ChatResponses!StopReasoning(ChatResponses!MessageDone(st))
             n == Cardinality(DOMAIN st.calls)
  <1>1. Calm(a)
    BY ChatMessageDone, ChatStopReasoning
  <1>2. n \in Nat
    BY FS_CardinalityType DEF Calm
  <1>3. DOMAIN ChatResponses!InOrder(st.calls) = 1 .. n
    <2>1. ChatResponses!Cardinality(DOMAIN st.calls) = n
      BY DEF ChatResponses!Cardinality, Cardinality
    <2>2. DOMAIN ChatResponses!InOrder(st.calls)
            = 1 .. ChatResponses!Cardinality(DOMAIN st.calls)
      BY DEF ChatResponses!InOrder, ChatResponses!Ordered
    <2>3. QED
      BY <2>1, <2>2
  <1> HIDE DEF a, n
  <1>4. Calm(ChatResponses!FoldLeft(ChatResponses!CallDone, a, ChatResponses!InOrder(st.calls)))
    BY <1>1, <1>2, <1>3, ChatDoneFold
  <1>5. QED
    BY <1>4 DEF ChatResponses!FinishItems, a

LEMMA ChatThought ==
    ASSUME NEW st, Calm(st), NEW body
    PROVE  Calm(ChatResponses!Thought(st, body))
  <1> DEFINE a == ChatResponses!Announced(st, st.next, "reasoning")
             b == [a EXCEPT !.reasoning.at = st.next, !.next = @ + 1]
             s == IF st.reasoning.at # ChatResponses!None THEN st ELSE b
             z == ChatResponses!Emit(s, ChatResponses!Delta(s.reasoning.at, "reasoning", body))
             x == ChatResponses!Thought(st, body)
  <1>1. Calm(a)
    BY ChatTold
  <1>2. Calm(b)
    <2> HIDE DEF a
    <2>1. DOMAIN b = DOMAIN a /\ b.out = a.out /\ b.calls = a.calls
      BY <1>1 DEF Calm
    <2> HIDE DEF b
    <2>2. QED
      BY <1>1, <2>1, CalmKept
  <1>3. Calm(s)
    BY <1>2
  <1>4. Calm(z)
    <2> HIDE DEF s
    <2>1. QED
      BY <1>3, PlainEvents, ChatEmit
  <1>5. x = st \/ x = [z EXCEPT !.reasoning.body = @ \o body]
    BY Zenon DEF ChatResponses!Thought
  <1> HIDE DEF z, x
  <1>6. ASSUME x # st PROVE Calm(x)
    <2>1. DOMAIN x = DOMAIN z /\ x.out = z.out /\ x.calls = z.calls
      BY <1>4, <1>5, <1>6 DEF Calm
    <2>2. QED
      BY <1>4, <2>1, CalmKept
  <1>7. QED
    BY <1>6 DEF x

LEMMA ChatText ==
    ASSUME NEW st, Calm(st), NEW body
    PROVE  Calm(ChatResponses!Text(st, body))
  <1> DEFINE o == ChatResponses!StopReasoning(st)
             a == ChatResponses!Announced(o, o.next, "message")
             b == [a EXCEPT !.message.at = o.next, !.next = @ + 1]
             s == IF o.message.at # ChatResponses!None THEN o ELSE b
             z == ChatResponses!Emit(s, ChatResponses!Delta(s.message.at, "message", body))
             x == ChatResponses!Text(st, body)
  <1>0. Calm(o)
    BY ChatStopReasoning
  <1>1. Calm(a)
    <2> HIDE DEF o
    <2>1. QED
      BY <1>0, ChatTold
  <1>2. Calm(b)
    <2> HIDE DEF a, o
    <2>1. DOMAIN b = DOMAIN a /\ b.out = a.out /\ b.calls = a.calls
      BY <1>1 DEF Calm
    <2> HIDE DEF b
    <2>2. QED
      BY <1>1, <2>1, CalmKept
  <1>3. Calm(s)
    <2> HIDE DEF b, o
    <2>1. QED
      BY <1>0, <1>2
  <1>4. Calm(z)
    <2> HIDE DEF s
    <2>1. QED
      BY <1>3, PlainEvents, ChatEmit
  <1>5. x = st \/ x = [z EXCEPT !.message.body = @ \o body]
    BY Zenon DEF ChatResponses!Text
  <1> HIDE DEF z, x
  <1>6. ASSUME x # st PROVE Calm(x)
    <2>1. DOMAIN x = DOMAIN z /\ x.out = z.out /\ x.calls = z.calls
      BY <1>4, <1>5, <1>6 DEF Calm
    <2>2. QED
      BY <1>4, <2>1, CalmKept
  <1>7. QED
    BY <1>6 DEF x

LEMMA ChatCallPiece ==
    ASSUME NEW st, Calm(st), NEW piece
    PROVE  Calm(ChatResponses!CallPiece(st, piece))
  <1> DEFINE c == piece.call
             new == [ChatResponses!NewCall EXCEPT !.at = st.next]
             b == [st EXCEPT !.calls = ChatResponses!Put(@, c, new), !.next = @ + 1]
             s == IF c \in DOMAIN st.calls THEN st ELSE b
             a == [s EXCEPT !.calls[c].id = @ \/ piece.id, !.calls[c].name = @ \/ piece.name,
                            !.calls[c].args = @ \o piece.args]
  <1>1. Calm(b)
    <2>1. DOMAIN b = DOMAIN st /\ b.out = st.out /\ b.calls = ChatResponses!Put(st.calls, c, new)
      BY DEF Calm
    <2>2. DOMAIN ChatResponses!Put(st.calls, c, new) = DOMAIN st.calls \union {c}
      BY DEF ChatResponses!Put
    <2>3. IsFiniteSet(DOMAIN st.calls \union {c})
      BY FS_AddElement, Zenon DEF Calm
    <2> HIDE DEF b
    <2>4. QED
      BY <2>1, <2>2, <2>3 DEF Calm
  <1>2. Calm(s)
    <2> HIDE DEF b
    <2>1. QED
      BY <1>1
  <1>3. Calm(a)
    <2> HIDE DEF s
    <2>1. DOMAIN a = DOMAIN s /\ a.out = s.out /\ DOMAIN a.calls = DOMAIN s.calls
      BY <1>2 DEF Calm
    <2> HIDE DEF a
    <2>2. QED
      BY <1>2, <2>1, CalmKept
  <1>4. ChatResponses!CallPiece(st, piece)
          = ChatResponses!SendArguments(ChatResponses!AddCall(a, c, FALSE), c)
    BY DEF ChatResponses!CallPiece
  <1> HIDE DEF a, c
  <1>5. QED
    BY <1>3, <1>4, ChatAddCall, ChatSendArguments, Zenon

LEMMA ChatCalls ==
    ASSUME NEW st, Calm(st), NEW n \in Nat, NEW seq, DOMAIN seq = 1 .. n
    PROVE  Calm(ChatResponses!Calls(st, seq))
  <1> DEFINE a == ChatResponses!MessageDone(ChatResponses!StopReasoning(st))
  <1>1. Calm(a)
    BY ChatStopReasoning, ChatMessageDone
  <1> HIDE DEF a
  <1>2. StaysCalm(PieceFold!Folded(0, a, seq), 0)
    <2>1. PieceFold!Line(DOMAIN seq)
      BY DEF PieceFold!Line
    <2>2. StaysCalm(a, 0)
      BY <1>1 DEF StaysCalm
    <2>3. \A x : \A i \in DOMAIN seq :
            StaysCalm(x, 0) => StaysCalm(CallPieceStep(x, seq[i], 0), 0)
      BY ChatCallPiece DEF StaysCalm, CallPieceStep
    <2>4. QED
      BY <2>1, <2>2, <2>3, DoneInduction, PieceFold!FoldKeeps
  <1>3. PieceFold!Folded(0, a, seq)
          = ChatResponses!FoldLeft(ChatResponses!CallPiece, a, seq)
    BY DEF PieceFold!Folded, PieceFold!Part, PieceFold!Table, PieceFold!Top, CallPieceStep,
           ChatResponses!FoldLeft, ChatResponses!MapThenFoldSet, ChatResponses!Max
  <1>4. ChatResponses!Calls(st, seq)
          = IF seq = <<>> THEN st ELSE ChatResponses!FoldLeft(ChatResponses!CallPiece, a, seq)
    BY DEF ChatResponses!Calls, a
  <1>5. QED
    BY <1>2, <1>3, <1>4 DEF StaysCalm

LEMMA ChatOpened ==
    ASSUME NEW st, Calm(st)
    PROVE  Calm(ChatResponses!Opened(st))
  <1> DEFINE s == ChatResponses!Emit(st, ChatResponses!Created)
             x == ChatResponses!Opened(st)
  <1>1. Calm(s)
    BY PlainEvents, ChatEmit
  <1>2. x = st \/ x = [s EXCEPT !.started = TRUE]
    BY DEF ChatResponses!Opened
  <1> HIDE DEF s, x
  <1>3. ASSUME x # st PROVE Calm(x)
    <2>1. DOMAIN x = DOMAIN s /\ x.out = s.out /\ x.calls = s.calls
      BY <1>1, <1>2, <1>3 DEF Calm
    <2>2. QED
      BY <1>1, <2>1, CalmKept
  <1>4. QED
    BY <1>3 DEF x

LEMMA ChatChosen ==
    ASSUME NEW st, Calm(st), NEW chunk, NEW n \in Nat, DOMAIN chunk.calls = 1 .. n
    PROVE  Calm(ChatResponses!Chosen(st, chunk))
  <1> DEFINE s == ChatResponses!Calls(ChatResponses!Text(ChatResponses!Thought(st, chunk.think),
                    chunk.text), chunk.calls)
             b == [s EXCEPT !.finish = chunk.finish]
  <1>1. Calm(s)
    BY ChatThought, ChatText, ChatCalls
  <1>2. ChatResponses!Chosen(st, chunk)
          = IF chunk.finish = "" THEN s ELSE ChatResponses!FinishItems(b)
    BY DEF ChatResponses!Chosen
  <1> HIDE DEF s
  <1>3. Calm(b)
    <2>1. DOMAIN b = DOMAIN s /\ b.out = s.out /\ b.calls = s.calls
      BY <1>1 DEF Calm
    <2> HIDE DEF b
    <2>2. QED
      BY <1>1, <2>1, CalmKept
  <1> HIDE DEF b
  <1>4. QED
    BY <1>1, <1>2, <1>3, ChatFinishItems, Zenon

LEMMA EmptyIsQuiet == Quiet(<<>>)
  <1> DEFINE R == {}
  <1>1. <<>> \in Seq(R) /\ \A e \in R : IsPlain(e)
    OBVIOUS
  <1> HIDE DEF R
  <1>2. QED
    BY <1>1 DEF Quiet

LEMMA ClearedIsCalm ==
    ASSUME NEW st, Calm(st)
    PROVE  Calm([st EXCEPT !.out = <<>>])
  BY EmptyIsQuiet DEF Calm

\* A chunk makes no end; [DONE] makes at most one.
LEMMA ChatTranslate ==
    ASSUME NEW st, Calm(st), NEW chunk
    PROVE  /\ (chunk.t = "chunk" /\ \E n \in Nat : DOMAIN chunk.calls = 1 .. n)
                => Calm(ChatResponses!Translate(st, chunk))
           /\ chunk.t = "done" => Proper(ChatResponses!Translate(st, chunk).out)
  <1> DEFINE s == [st EXCEPT !.out = <<>>]
             f == ChatResponses!FinishItems(s)
             x == ChatResponses!Translate(st, chunk)
  <1>1. Calm(s)
    BY ClearedIsCalm
  <1>2. chunk.t = "chunk" => x = ChatResponses!Chosen(ChatResponses!Opened(s), chunk)
    BY DEF ChatResponses!Translate
  <1>3. chunk.t = "done" => x = s \/ x = ChatResponses!Completed(f)
    BY DEF ChatResponses!Translate
  <1> HIDE DEF s
  <1>4. Calm(f)
    BY <1>1, ChatFinishItems
  <1> HIDE DEF x, f
  <1>5. ASSUME chunk.t = "chunk", NEW n \in Nat, DOMAIN chunk.calls = 1 .. n
        PROVE  Calm(x)
    BY <1>1, <1>2, <1>5, ChatOpened, ChatChosen
  <1>6. ASSUME NEW a, Calm(a) PROVE Proper(a.out)
    BY <1>6 DEF Calm, Proper, Quiet, IsPlain
  <1>7. Proper(ChatResponses!Completed(f).out)
    <2>1. \/ ChatResponses!Completed(f) = f
          \/ \E status, reason, output : ChatResponses!Completed(f)
               = [ChatResponses!Emit(f, ChatResponses!Terminal(status, reason, output))
                    EXCEPT !.completed = TRUE]
      BY Zenon DEF ChatResponses!Completed
    <2>2. ASSUME NEW status, NEW reason, NEW output
          PROVE  Proper([ChatResponses!Emit(f, ChatResponses!Terminal(status, reason, output))
                           EXCEPT !.completed = TRUE].out)
      <3>1. IsEvent(ChatResponses!Terminal(status, reason, output))
        BY DEF IsEvent, EventKinds, ChatResponses!Terminal
      <3>2. Proper(Append(f.out, ChatResponses!Terminal(status, reason, output)))
        BY <1>4, <3>1, ProperAppend DEF Calm
      <3>3. "out" \in DOMAIN f
        BY <1>4 DEF Calm
      <3>4. QED
        BY <3>2, <3>3 DEF ChatResponses!Emit
    <2>3. QED
      BY <1>4, <1>6, <2>1, <2>2, Zenon
  <1>8. QED
    BY <1>1, <1>3, <1>5, <1>6, <1>7 DEF x

-----------------------------------------------------------------------------
(***************************************************************************)
(* The translator of Claude messages, which has searches as well.          *)
(***************************************************************************)
ClaudeCalm(st) == /\ Calm(st)
                  /\ "searches" \in DOMAIN st /\ IsFiniteSet(DOMAIN st.searches)

LEMMA ClaudeCalmKept ==
    ASSUME NEW a, ClaudeCalm(a), NEW b, DOMAIN b = DOMAIN a, b.out = a.out,
           DOMAIN b.calls = DOMAIN a.calls, DOMAIN b.searches = DOMAIN a.searches
    PROVE  ClaudeCalm(b)
  BY DEF Calm, ClaudeCalm

LEMMA PlainClaudeEvents ==
    /\ IsPlain(ClaudeResponses!Created)
    /\ \A ix, item : IsPlain(ClaudeResponses!ItemAdded(ix, item))
    /\ \A ix, kind : IsPlain(ClaudeResponses!PartAdded(ix, kind))
    /\ \A ix, kind, body : IsPlain(ClaudeResponses!Delta(ix, kind, body))
    /\ \A ix, kind, body : IsPlain(ClaudeResponses!BodyDone(ix, kind, body))
    /\ \A ix, kind, body : IsPlain(ClaudeResponses!PartDone(ix, kind, body))
    /\ \A ix, item : IsPlain(ClaudeResponses!ItemDone(ix, item))
  BY DEF IsPlain, IsEvent, EventKinds, ClaudeResponses!Created, ClaudeResponses!ItemAdded,
         ClaudeResponses!PartAdded, ClaudeResponses!Delta, ClaudeResponses!BodyDone,
         ClaudeResponses!PartDone, ClaudeResponses!ItemDone

LEMMA ClaudeEmit ==
    ASSUME NEW st, ClaudeCalm(st), NEW e, IsPlain(e)
    PROVE  ClaudeCalm(ClaudeResponses!Emit(st, e))
  <1>1. Quiet(Append(st.out, e))
    BY QuietAppend DEF ClaudeCalm, Calm
  <1>2. QED
    BY <1>1 DEF ClaudeCalm, Calm, ClaudeResponses!Emit

LEMMA ClaudeFinish ==
    ASSUME NEW st, ClaudeCalm(st), NEW ix, NEW item
    PROVE  ClaudeCalm(ClaudeResponses!Finish(st, ix, item))
  <1> DEFINE s == ClaudeResponses!Emit(st, ClaudeResponses!ItemDone(ix, item))
             x == ClaudeResponses!Finish(st, ix, item)
  <1>1. ClaudeCalm(s)
    BY PlainClaudeEvents, ClaudeEmit
  <1>2. x = [s EXCEPT !.items = ClaudeResponses!Put(@, ix, item)]
    BY DEF ClaudeResponses!Finish
  <1> HIDE DEF s, x
  <1>3. DOMAIN x = DOMAIN s /\ x.out = s.out /\ x.calls = s.calls /\ x.searches = s.searches
    BY <1>1, <1>2 DEF Calm, ClaudeCalm
  <1>4. ClaudeCalm(x)
    BY <1>1, <1>3, ClaudeCalmKept
  <1>5. QED
    BY <1>4 DEF x

LEMMA ClaudeFinishMessage ==
    ASSUME NEW st, ClaudeCalm(st)
    PROVE  ClaudeCalm(ClaudeResponses!FinishMessage(st))
  <1> DEFINE ix == st.message.at
             body == st.message.body
             a == ClaudeResponses!Emit(st, ClaudeResponses!BodyDone(ix, "message", body))
             b == ClaudeResponses!Emit(a, ClaudeResponses!PartDone(ix, "message", body))
             s == ClaudeResponses!Finish(b, ix,
                    [ClaudeResponses!Item("message", 0, body)
                       EXCEPT !.status = ClaudeResponses!Status(st.stop)])
             x == ClaudeResponses!FinishMessage(st)
  <1>1. ClaudeCalm(a)
    BY PlainClaudeEvents, ClaudeEmit
  <1>2. ClaudeCalm(b)
    <2> HIDE DEF a
    <2>1. QED
      BY <1>1, PlainClaudeEvents, ClaudeEmit
  <1>3. ClaudeCalm(s)
    <2> HIDE DEF b
    <2>1. QED
      BY <1>2, ClaudeFinish
  <1>4. \/ x = st
        \/ x = [s EXCEPT !.message = [at |-> ClaudeResponses!None, body |-> <<>>],
                         !.inside = IF @ = "text" THEN "" ELSE @]
    BY DEF ClaudeResponses!FinishMessage
  <1> HIDE DEF s, x
  <1>5. ASSUME x # st PROVE ClaudeCalm(x)
    <2>1. DOMAIN x = DOMAIN s /\ x.out = s.out /\ x.calls = s.calls
          /\ x.searches = s.searches
      BY <1>3, <1>4, <1>5, Zenon DEF Calm, ClaudeCalm
    <2>2. QED
      BY <1>3, <2>1, ClaudeCalmKept
  <1>6. QED
    BY <1>5 DEF x

LEMMA ClaudeTellReasoning ==
    ASSUME NEW st, ClaudeCalm(st)
    PROVE  ClaudeCalm(ClaudeResponses!TellReasoning(st))
  <1> DEFINE r == st.reasoning
             a == ClaudeResponses!Emit(st, ClaudeResponses!BodyDone(r.at, "reasoning", r.body))
             s == ClaudeResponses!Emit(a, ClaudeResponses!PartDone(r.at, "reasoning", r.body))
             x == ClaudeResponses!TellReasoning(st)
  <1>1. ClaudeCalm(a)
    BY PlainClaudeEvents, ClaudeEmit
  <1>2. ClaudeCalm(s)
    <2> HIDE DEF a
    <2>1. QED
      BY <1>1, PlainClaudeEvents, ClaudeEmit
  <1>3. x = st \/ x = [s EXCEPT !.reasoning.told = TRUE]
    BY DEF ClaudeResponses!TellReasoning
  <1> HIDE DEF s, x
  <1>4. ASSUME x # st PROVE ClaudeCalm(x)
    <2>1. DOMAIN x = DOMAIN s /\ x.out = s.out /\ x.calls = s.calls
          /\ x.searches = s.searches
      BY <1>2, <1>3, <1>4 DEF Calm, ClaudeCalm
    <2>2. QED
      BY <1>2, <2>1, ClaudeCalmKept
  <1>5. QED
    BY <1>4 DEF x

LEMMA ClaudeFinishReasoning ==
    ASSUME NEW st, ClaudeCalm(st), NEW status
    PROVE  ClaudeCalm(ClaudeResponses!FinishReasoning(st, status))
  <1> DEFINE a == ClaudeResponses!TellReasoning(st)
             item == [ClaudeResponses!Item("reasoning", 0, a.reasoning.body)
                        EXCEPT !.signed = a.reasoning.signed, !.status = status]
             s == ClaudeResponses!Finish(a, a.reasoning.at, item)
             x == ClaudeResponses!FinishReasoning(st, status)
  <1>1. ClaudeCalm(a)
    BY ClaudeTellReasoning
  <1>2. ClaudeCalm(s)
    <2> HIDE DEF a
    <2>1. QED
      BY <1>1, ClaudeFinish
  <1>3. \/ x = st
        \/ x = [s EXCEPT !.reasoning = [at |-> ClaudeResponses!None, body |-> <<>>,
                                        signed |-> FALSE, told |-> FALSE]]
    BY DEF ClaudeResponses!FinishReasoning
  <1> HIDE DEF s, x
  <1>4. ASSUME x # st PROVE ClaudeCalm(x)
    <2>1. DOMAIN x = DOMAIN s /\ x.out = s.out /\ x.calls = s.calls
          /\ x.searches = s.searches
      BY <1>2, <1>3, <1>4 DEF Calm, ClaudeCalm
    <2>2. QED
      BY <1>2, <2>1, ClaudeCalmKept
  <1>5. QED
    BY <1>4 DEF x

LEMMA ClaudeFinishCall ==
    ASSUME NEW st, ClaudeCalm(st), NEW block, NEW status
    PROVE  ClaudeCalm(ClaudeResponses!FinishCall(st, block, status))
  <1> DEFINE call == st.calls[block]
             args == ClaudeResponses!Arguments(st, call, status)
             item == [ClaudeResponses!Item("function_call", call.of, args)
                        EXCEPT !.status = status]
             a == ClaudeResponses!Emit(st, ClaudeResponses!BodyDone(call.at, "function_call", args))
             s == ClaudeResponses!Finish(a, call.at, item)
             x == ClaudeResponses!FinishCall(st, block, status)
  <1>1. ClaudeCalm(a)
    BY PlainClaudeEvents, ClaudeEmit
  <1>2. ClaudeCalm(s)
    <2> HIDE DEF a
    <2>1. QED
      BY <1>1, ClaudeFinish
  <1>3. \/ x = st
        \/ x = [s EXCEPT !.calls[block].done = TRUE, !.inside = IF @ = "func" THEN "" ELSE @]
    BY DEF ClaudeResponses!FinishCall
  <1> HIDE DEF s, x
  <1>4. ASSUME x # st PROVE ClaudeCalm(x)
    <2> DEFINE b == [s EXCEPT !.calls[block].done = TRUE]
    <2>1. DOMAIN b = DOMAIN s /\ b.out = s.out /\ DOMAIN b.calls = DOMAIN s.calls
          /\ b.searches = s.searches
      BY <1>2 DEF Calm, ClaudeCalm
    <2>2. x = [b EXCEPT !.inside = IF @ = "func" THEN "" ELSE @]
      BY <1>3, <1>4
    <2> HIDE DEF b
    <2>3. DOMAIN x = DOMAIN b /\ x.out = b.out /\ x.calls = b.calls
          /\ x.searches = b.searches
      BY <1>2, <2>1, <2>2, Zenon DEF Calm, ClaudeCalm
    <2>4. QED
      BY <1>2, <2>1, <2>3, ClaudeCalmKept
  <1>5. QED
    BY <1>4 DEF x

LEMMA ClaudeFinishSearch ==
    ASSUME NEW st, ClaudeCalm(st), NEW id, NEW status
    PROVE  ClaudeCalm(ClaudeResponses!FinishSearch(st, id, status))
  <1> DEFINE w == st.searches[id]
             item == [ClaudeResponses!Item("web_search_call", id, w.body)
                        EXCEPT !.status = status]
             s == ClaudeResponses!Finish(st, w.at, item)
             x == ClaudeResponses!FinishSearch(st, id, status)
  <1>1. ClaudeCalm(s)
    BY ClaudeFinish
  <1>2. x = st \/ x = [s EXCEPT !.searches[id].done = TRUE]
    BY DEF ClaudeResponses!FinishSearch
  <1> HIDE DEF s, x
  <1>3. ASSUME x # st PROVE ClaudeCalm(x)
    <2>1. DOMAIN x = DOMAIN s /\ x.out = s.out /\ x.calls = s.calls
          /\ DOMAIN x.searches = DOMAIN s.searches
      BY <1>1, <1>2, <1>3 DEF Calm, ClaudeCalm
    <2>2. QED
      BY <1>1, <2>1, ClaudeCalmKept
  <1>4. QED
    BY <1>3 DEF x

\* The calls that a block finishes are a sequence.
LEMMA ListOfSet ==
    ASSUME NEW S, IsFiniteSet(S)
    PROVE  \E n \in Nat : DOMAIN ClaudeResponses!SetToSeq(S) = 1 .. n
  <1> DEFINE n == Cardinality(S)
             F == {f \in [1 .. n -> S] : \A a, b \in 1 .. n : f[a] = f[b] => a = b}
  <1>1. n \in Nat
    BY FS_CardinalityType
  <1>2. F # {}
    <2>1. ExistsBijection(1 .. n, S)
      BY FS_CardinalityType
    <2>2. QED
      BY <2>1, Zenon DEF ExistsBijection, Bijection, Injection, IsInjective
  <1>3. ClaudeResponses!Cardinality(S) = n
    BY DEF ClaudeResponses!Cardinality, Cardinality
  <1>4. ClaudeResponses!SetToSeq(S) = CHOOSE f \in [1 .. n -> S] : ClaudeResponses!IsInjective(f)
    BY <1>3 DEF ClaudeResponses!SetToSeq
  <1>5. \A f \in [1 .. n -> S] : ClaudeResponses!IsInjective(f) <=> f \in F
    BY DEF ClaudeResponses!IsInjective
  <1> HIDE DEF n
  <1>6. ClaudeResponses!SetToSeq(S) \in [1 .. n -> S]
    BY <1>2, <1>4, <1>5
  <1>7. QED
    BY <1>1, <1>6

\* Its folds: over the calls and over the searches to finish.
FinishCallStep(st, block, status) == ClaudeResponses!FinishCall(st, block, status)
FinishSearchStep(st, id, status) == ClaudeResponses!FinishSearch(st, id, status)
StaysClaudeCalm(st, aim) == ClaudeCalm(st)
CallFold == INSTANCE FoldFacts WITH Op <- FinishCallStep, Good <- StaysClaudeCalm
SearchFold == INSTANCE FoldFacts WITH Op <- FinishSearchStep, Good <- StaysClaudeCalm
LEMMA CallInduction == CallFold!Induction /\ SearchFold!Induction
  BY IndexInduction, Zenon DEF CallFold!Induction, SearchFold!Induction

LEMMA ClaudeFinishCalls ==
    ASSUME NEW st, ClaudeCalm(st), NEW but, NEW status
    PROVE  ClaudeCalm(ClaudeResponses!FinishCalls(st, but, status))
  <1> DEFINE S == DOMAIN st.calls \ {but}
             seq == ClaudeResponses!SetToSeq(S)
  <1>1. IsFiniteSet(S)
    BY FS_RemoveElement DEF ClaudeCalm, Calm
  <1>2. CallFold!Line(DOMAIN seq)
    <2> HIDE DEF S
    <2>1. QED
      BY <1>1, ListOfSet DEF CallFold!Line
  <1>3. ClaudeResponses!FinishCalls(st, but, status) = CallFold!Folded(status, st, seq)
    BY DEF CallFold!Folded, CallFold!Part, CallFold!Table, CallFold!Top, FinishCallStep,
           ClaudeResponses!FinishCalls,
           ClaudeResponses!FoldLeft, ClaudeResponses!MapThenFoldSet, ClaudeResponses!Max
  <1> HIDE DEF seq
  <1>4. StaysClaudeCalm(CallFold!Folded(status, st, seq), 0)
    <2>1. StaysClaudeCalm(st, 0)
      BY DEF StaysClaudeCalm
    <2>2. \A x : \A i \in DOMAIN seq :
            StaysClaudeCalm(x, 0) => StaysClaudeCalm(FinishCallStep(x, seq[i], status), 0)
      BY ClaudeFinishCall DEF StaysClaudeCalm, FinishCallStep
    <2>3. QED
      BY <1>2, <2>1, <2>2, CallInduction, CallFold!FoldKeeps
  <1>5. QED
    BY <1>3, <1>4 DEF StaysClaudeCalm

LEMMA ClaudeFinishSearches ==
    ASSUME NEW st, ClaudeCalm(st), NEW all, NEW status
    PROVE  ClaudeCalm(ClaudeResponses!FinishSearches(st, all, status))
  <1> DEFINE Before(a, b) == st.searches[a].at < st.searches[b].at
             due == {id \in DOMAIN st.searches : all \/ st.searches[id].result}
             seq == ClaudeResponses!Ordered(due, Before)
  <1>1. IsFiniteSet(due)
    BY FS_Subset DEF ClaudeCalm
  <1>2. SearchFold!Line(DOMAIN seq)
    <2>1. DOMAIN seq = 1 .. ClaudeResponses!Cardinality(due)
      BY DEF ClaudeResponses!Ordered
    <2>2. ClaudeResponses!Cardinality(due) = Cardinality(due)
      BY DEF ClaudeResponses!Cardinality, Cardinality
    <2> HIDE DEF due, seq
    <2>3. Cardinality(due) \in Nat
      BY <1>1, FS_CardinalityType
    <2>4. QED
      BY <2>1, <2>2, <2>3 DEF SearchFold!Line
  <1>3. ClaudeResponses!FinishSearches(st, all, status)
          = SearchFold!Folded(status, st, seq)
    BY DEF SearchFold!Folded, SearchFold!Part, SearchFold!Table, SearchFold!Top,
           FinishSearchStep, ClaudeResponses!FinishSearches,
           ClaudeResponses!FoldLeft, ClaudeResponses!MapThenFoldSet, ClaudeResponses!Max
  <1> HIDE DEF seq
  <1>4. StaysClaudeCalm(SearchFold!Folded(status, st, seq), 0)
    <2>1. StaysClaudeCalm(st, 0)
      BY DEF StaysClaudeCalm
    <2>2. \A x : \A i \in DOMAIN seq :
            StaysClaudeCalm(x, 0) => StaysClaudeCalm(FinishSearchStep(x, seq[i], status), 0)
      BY ClaudeFinishSearch DEF StaysClaudeCalm, FinishSearchStep
    <2>3. QED
      BY <1>2, <2>1, <2>2, CallInduction, SearchFold!FoldKeeps
  <1>5. QED
    BY <1>3, <1>4 DEF StaysClaudeCalm

LEMMA ClaudeStarts ==
    ASSUME NEW st, ClaudeCalm(st), NEW block, NEW of, NEW signed
    PROVE  /\ ClaudeCalm(ClaudeResponses!StartText(st))
           /\ ClaudeCalm(ClaudeResponses!StartCall(st, block, of))
           /\ ClaudeCalm(ClaudeResponses!StartSearch(st, block, of))
           /\ ClaudeCalm(ClaudeResponses!StartReasoning(st, signed))
  <1>1. ClaudeCalm(ClaudeResponses!StartText(st))
    <2> DEFINE a == ClaudeResponses!Emit(st, ClaudeResponses!ItemAdded(st.next,
                      ClaudeResponses!Item("message", 0, <<>>)))
               s == ClaudeResponses!Emit(a, ClaudeResponses!PartAdded(st.next, "message"))
               x == ClaudeResponses!StartText(st)
    <2>1. ClaudeCalm(a)
      BY PlainClaudeEvents, ClaudeEmit
    <2>2. ClaudeCalm(s)
      <3> HIDE DEF a
      <3>1. QED
        BY <2>1, PlainClaudeEvents, ClaudeEmit
    <2>3. \/ x = [st EXCEPT !.inside = "text"]
          \/ x = [s EXCEPT !.message.at = st.next, !.next = @ + 1, !.inside = "text"]
      BY DEF ClaudeResponses!StartText
    <2> HIDE DEF s, x
    <2>4. \E b \in {st, s} : /\ DOMAIN x = DOMAIN b /\ x.out = b.out /\ x.calls = b.calls
                             /\ x.searches = b.searches
      BY <2>2, <2>3, Zenon DEF Calm, ClaudeCalm
    <2>5. ClaudeCalm(x)
      BY <2>2, <2>4, ClaudeCalmKept
    <2>6. QED
      BY <2>5 DEF x
  <1>2. ClaudeCalm(ClaudeResponses!StartCall(st, block, of))
    <2> DEFINE new == [at |-> st.next, of |-> of, args |-> <<>>, done |-> FALSE]
               s == ClaudeResponses!Emit(st, ClaudeResponses!ItemAdded(st.next,
                      ClaudeResponses!Item("function_call", of, <<>>)))
               x == ClaudeResponses!StartCall(st, block, of)
    <2>1. ClaudeCalm(s)
      BY PlainClaudeEvents, ClaudeEmit
    <2>2. x = [s EXCEPT !.calls = ClaudeResponses!Put(@, block, new), !.next = @ + 1,
                        !.inside = "func"]
      BY DEF ClaudeResponses!StartCall
    <2> HIDE DEF s, x, new
    <2>3. /\ DOMAIN x = DOMAIN s /\ x.out = s.out /\ x.searches = s.searches
          /\ x.calls = ClaudeResponses!Put(s.calls, block, new)
      BY <2>1, <2>2 DEF Calm, ClaudeCalm
    <2>4. DOMAIN ClaudeResponses!Put(s.calls, block, new) = DOMAIN s.calls \union {block}
      BY DEF ClaudeResponses!Put
    <2>5. IsFiniteSet(DOMAIN s.calls \union {block})
      BY <2>1, FS_AddElement DEF Calm, ClaudeCalm
    <2>6. ClaudeCalm(x)
      BY <2>1, <2>3, <2>4, <2>5 DEF Calm, ClaudeCalm
    <2>7. QED
      BY <2>6 DEF x
  <1>3. ClaudeCalm(ClaudeResponses!StartSearch(st, block, of))
    <2> DEFINE new == [at |-> st.next, block |-> block, body |-> <<>>, result |-> FALSE,
                       done |-> FALSE]
               s == ClaudeResponses!Emit(st, ClaudeResponses!ItemAdded(st.next,
                      ClaudeResponses!Item("web_search_call", of, <<>>)))
               x == ClaudeResponses!StartSearch(st, block, of)
    <2>1. ClaudeCalm(s)
      BY PlainClaudeEvents, ClaudeEmit
    <2>2. x = [s EXCEPT !.searches = ClaudeResponses!Put(@, of, new), !.next = @ + 1]
      BY DEF ClaudeResponses!StartSearch
    <2> HIDE DEF s, x, new
    <2>3. /\ DOMAIN x = DOMAIN s /\ x.out = s.out /\ x.calls = s.calls
          /\ x.searches = ClaudeResponses!Put(s.searches, of, new)
      BY <2>1, <2>2 DEF Calm, ClaudeCalm
    <2>4. DOMAIN ClaudeResponses!Put(s.searches, of, new) = DOMAIN s.searches \union {of}
      BY DEF ClaudeResponses!Put
    <2>5. IsFiniteSet(DOMAIN s.searches \union {of})
      BY <2>1, FS_AddElement DEF ClaudeCalm
    <2>6. ClaudeCalm(x)
      BY <2>1, <2>3, <2>4, <2>5 DEF Calm, ClaudeCalm
    <2>7. QED
      BY <2>6 DEF x
  <1>4. ClaudeCalm(ClaudeResponses!StartReasoning(st, signed))
    <2> DEFINE a == ClaudeResponses!Emit(st, ClaudeResponses!ItemAdded(st.next,
                      ClaudeResponses!Item("reasoning", 0, <<>>)))
               s == ClaudeResponses!Emit(a, ClaudeResponses!PartAdded(st.next, "reasoning"))
               x == ClaudeResponses!StartReasoning(st, signed)
    <2>1. ClaudeCalm(a)
      BY PlainClaudeEvents, ClaudeEmit
    <2>2. ClaudeCalm(s)
      <3> HIDE DEF a
      <3>1. QED
        BY <2>1, PlainClaudeEvents, ClaudeEmit
    <2>3. x = [s EXCEPT !.reasoning = [at |-> st.next, body |-> <<>>, signed |-> signed,
                                       told |-> FALSE], !.next = @ + 1]
      BY DEF ClaudeResponses!StartReasoning
    <2> HIDE DEF s, x
    <2>4. DOMAIN x = DOMAIN s /\ x.out = s.out /\ x.calls = s.calls
          /\ x.searches = s.searches
      BY <2>2, <2>3 DEF Calm, ClaudeCalm
    <2>5. ClaudeCalm(x)
      BY <2>2, <2>4, ClaudeCalmKept
    <2>6. QED
      BY <2>5 DEF x
  <1>5. QED
    BY <1>1, <1>2, <1>3, <1>4

LEMMA ClaudeBlockBegins ==
    ASSUME NEW st, ClaudeCalm(st), NEW e
    PROVE  ClaudeCalm(ClaudeResponses!BlockBegins(st, e))
  <1> DEFINE a == IF e.kind = "text" THEN st ELSE ClaudeResponses!FinishMessage(st)
             b == ClaudeResponses!FinishReasoning(a, "completed")
             c == ClaudeResponses!FinishCalls(b, e.ix, "completed")
             s == ClaudeResponses!FinishSearches(c, FALSE, "completed")
             found == [s EXCEPT !.searches[e.of].result = TRUE]
  <1>1. ClaudeCalm(a)
    BY ClaudeFinishMessage
  <1>2. ClaudeCalm(s)
    <2> HIDE DEF a
    <2>1. ClaudeCalm(b)
      BY <1>1, ClaudeFinishReasoning
    <2> HIDE DEF b
    <2>2. ClaudeCalm(c)
      BY <2>1, ClaudeFinishCalls
    <2> HIDE DEF c
    <2>3. QED
      BY <2>2, ClaudeFinishSearches, Zenon
  <1>3. ClaudeResponses!BlockBegins(st, e) \in
          {ClaudeResponses!StartText(s), ClaudeResponses!StartCall(s, e.ix, e.of),
           ClaudeResponses!StartSearch(s, e.ix, e.of), found, s,
           ClaudeResponses!StartReasoning(s, e.kind = "redacted_thinking")}
    BY DEF ClaudeResponses!BlockBegins
  <1> HIDE DEF s
  <1>4. ClaudeCalm(found)
    <2>1. DOMAIN found = DOMAIN s /\ found.out = s.out /\ found.calls = s.calls
          /\ DOMAIN found.searches = DOMAIN s.searches
      BY <1>2 DEF Calm, ClaudeCalm
    <2> HIDE DEF found
    <2>2. QED
      BY <1>2, <2>1, ClaudeCalmKept
  <1> HIDE DEF found
  <1>5. QED
    BY <1>2, <1>3, <1>4, ClaudeStarts

LEMMA ClaudeCallPiece ==
    ASSUME NEW st, ClaudeCalm(st), NEW e
    PROVE  ClaudeCalm(ClaudeResponses!CallPiece(st, e))
  <1> DEFINE d == ClaudeResponses!Delta(st.calls[e.ix].at, "function_call", e.body)
             s == [st EXCEPT !.calls[e.ix].args = @ \o e.body]
  <1>1. ClaudeCalm(s)
    <2>1. DOMAIN s = DOMAIN st /\ s.out = st.out /\ DOMAIN s.calls = DOMAIN st.calls
          /\ s.searches = st.searches
      BY DEF Calm, ClaudeCalm
    <2> HIDE DEF s
    <2>2. QED
      BY <2>1, ClaudeCalmKept
  <1>2. ClaudeResponses!CallPiece(st, e) \in {st, s, ClaudeResponses!Emit(s, d)}
    BY DEF ClaudeResponses!CallPiece
  <1> HIDE DEF s
  <1>3. ClaudeCalm(ClaudeResponses!Emit(s, d))
    BY <1>1, PlainClaudeEvents, ClaudeEmit
  <1>4. QED
    BY <1>1, <1>2, <1>3

LEMMA ClaudePiece ==
    ASSUME NEW st, ClaudeCalm(st), NEW e
    PROVE  ClaudeCalm(ClaudeResponses!Piece(st, e))
  <1> DEFINE a == ClaudeResponses!Emit(st, ClaudeResponses!Delta(st.message.at, "message", e.body))
             text == [a EXCEPT !.message.body = @ \o e.body]
             b == ClaudeResponses!Emit(st, ClaudeResponses!Delta(st.reasoning.at, "reasoning", e.body))
             thought == [b EXCEPT !.reasoning.body = @ \o e.body]
             search == [st EXCEPT !.searches = [id \in DOMAIN @ |->
                          IF @[id].block = e.ix THEN [@[id] EXCEPT !.body = @ \o e.body]
                          ELSE @[id]]]
  <1>1. ClaudeCalm(a) /\ ClaudeCalm(b)
    BY PlainClaudeEvents, ClaudeEmit
  <1>2. ClaudeResponses!Piece(st, e) \in {text, thought, search, st, ClaudeResponses!CallPiece(st, e)}
    BY DEF ClaudeResponses!Piece
  <1>3. ClaudeCalm(search)
    <2>1. DOMAIN search = DOMAIN st /\ search.out = st.out /\ search.calls = st.calls
          /\ DOMAIN search.searches = DOMAIN st.searches
      BY DEF Calm, ClaudeCalm
    <2> HIDE DEF search
    <2>2. QED
      BY <2>1, ClaudeCalmKept
  <1> HIDE DEF a, b, search
  <1>4. ClaudeCalm(text)
    <2>1. DOMAIN text = DOMAIN a /\ text.out = a.out /\ text.calls = a.calls
          /\ text.searches = a.searches
      BY <1>1 DEF Calm, ClaudeCalm
    <2> HIDE DEF text
    <2>2. QED
      BY <1>1, <2>1, ClaudeCalmKept
  <1>5. ClaudeCalm(thought)
    <2>1. DOMAIN thought = DOMAIN b /\ thought.out = b.out /\ thought.calls = b.calls
          /\ thought.searches = b.searches
      BY <1>1 DEF Calm, ClaudeCalm
    <2> HIDE DEF thought
    <2>2. QED
      BY <1>1, <2>1, ClaudeCalmKept
  <1> HIDE DEF text, thought
  <1>6. QED
    BY <1>2, <1>3, <1>4, <1>5, ClaudeCallPiece

LEMMA ClaudeFinishAll ==
    ASSUME NEW st, ClaudeCalm(st)
    PROVE  ClaudeCalm(ClaudeResponses!FinishAll(st))
  <1> DEFINE status == ClaudeResponses!Status(st.stop)
             a == ClaudeResponses!FinishReasoning(st, status)
             b == ClaudeResponses!FinishMessage(a)
             c == ClaudeResponses!FinishCalls(b, ClaudeResponses!None, status)
  <1>1. ClaudeResponses!FinishAll(st) = ClaudeResponses!FinishSearches(c, TRUE, status)
    BY DEF ClaudeResponses!FinishAll
  <1> HIDE DEF status
  <1>2. ClaudeCalm(a)
    BY ClaudeFinishReasoning
  <1> HIDE DEF a
  <1>3. ClaudeCalm(b)
    BY <1>2, ClaudeFinishMessage
  <1> HIDE DEF b
  <1>4. ClaudeCalm(c)
    BY <1>3, ClaudeFinishCalls
  <1> HIDE DEF c
  <1>5. QED
    BY <1>1, <1>4, ClaudeFinishSearches, Zenon

\* Only the stop of the message makes an end.
LEMMA ClaudeTranslate ==
    ASSUME NEW st, ClaudeCalm(st), NEW e
    PROVE  /\ e.t # "message_stop" => ClaudeCalm(ClaudeResponses!Translate(st, e))
           /\ e.t = "message_stop" => Proper(ClaudeResponses!Translate(st, e).out)
  <1> DEFINE s == [st EXCEPT !.out = <<>>]
             fresh == ClaudeResponses!Emit(ClaudeResponses!Fresh(st.custom), ClaudeResponses!Created)
             signed == [s EXCEPT !.reasoning.signed = TRUE]
             stopped == [s EXCEPT !.stop = e.stop]
             ended == [s EXCEPT !.inside = ""]
             f == ClaudeResponses!FinishAll(s)
             x == ClaudeResponses!Translate(st, e)
  <1>1. ClaudeCalm(s)
    BY EmptyIsQuiet DEF ClaudeCalm, Calm
  <1>2. e.t # "message_stop" =>
          x \in {fresh, ClaudeResponses!BlockBegins(s, e), ClaudeResponses!Piece(s, e),
                 signed, ended, ClaudeResponses!TellReasoning(s), stopped, s}
    BY DEF ClaudeResponses!Translate, ClaudeResponses!BlockEnds
  <1>3. e.t = "message_stop" => \E status, reason, output :
          x = ClaudeResponses!Emit(f, ClaudeResponses!Terminal(status, reason, output))
    BY Zenon DEF ClaudeResponses!Translate, ClaudeResponses!End
  <1> HIDE DEF s
  <1>4. ClaudeCalm(fresh)
    <2>1. ClaudeCalm(ClaudeResponses!Fresh(st.custom))
      <3>1. IsFiniteSet(DOMAIN <<>>)
        <4>1. DOMAIN <<>> = {}
          OBVIOUS
        <4>2. QED
          BY <4>1, FS_EmptySet
      <3>2. QED
        BY <3>1, EmptyIsQuiet DEF ClaudeCalm, Calm, ClaudeResponses!Fresh
    <2>2. QED
      BY <2>1, PlainClaudeEvents, ClaudeEmit
  <1>5. ClaudeCalm(signed)
    <2>1. DOMAIN signed = DOMAIN s /\ signed.out = s.out /\ signed.calls = s.calls
          /\ signed.searches = s.searches
      BY <1>1 DEF Calm, ClaudeCalm
    <2> HIDE DEF signed
    <2>2. QED
      BY <1>1, <2>1, ClaudeCalmKept
  <1>6. ClaudeCalm(stopped)
    <2>1. DOMAIN stopped = DOMAIN s /\ stopped.out = s.out /\ stopped.calls = s.calls
          /\ stopped.searches = s.searches
      BY <1>1 DEF Calm, ClaudeCalm
    <2> HIDE DEF stopped
    <2>2. QED
      BY <1>1, <2>1, ClaudeCalmKept
  <1>7. ClaudeCalm(ended)
    <2>1. DOMAIN ended = DOMAIN s /\ ended.out = s.out /\ ended.calls = s.calls
          /\ ended.searches = s.searches
      BY <1>1 DEF Calm, ClaudeCalm
    <2> HIDE DEF ended
    <2>2. QED
      BY <1>1, <2>1, ClaudeCalmKept
  <1> HIDE DEF fresh, signed, stopped, ended, x
  <1>8. ASSUME e.t # "message_stop" PROVE ClaudeCalm(x)
    BY <1>1, <1>2, <1>4, <1>5, <1>6, <1>7, <1>8, ClaudeBlockBegins, ClaudePiece,
       ClaudeTellReasoning
  <1>9. ASSUME e.t = "message_stop" PROVE Proper(x.out)
    <2>1. PICK status, reason, output :
            x = ClaudeResponses!Emit(f, ClaudeResponses!Terminal(status, reason, output))
      BY <1>3, <1>9
    <2>2. ClaudeCalm(f)
      BY <1>1, ClaudeFinishAll
    <2>3. IsEvent(ClaudeResponses!Terminal(status, reason, output))
      BY DEF IsEvent, EventKinds, ClaudeResponses!Terminal
    <2> HIDE DEF f
    <2>4. Proper(Append(f.out, ClaudeResponses!Terminal(status, reason, output)))
      BY <2>2, <2>3, ProperAppend DEF ClaudeCalm, Calm
    <2>5. QED
      BY <2>1, <2>2, <2>4 DEF ClaudeCalm, Calm, ClaudeResponses!Emit
  <1>10. QED
    BY <1>8, <1>9 DEF x

-----------------------------------------------------------------------------
(***************************************************************************)
(* A client of responses.                                                  *)
(***************************************************************************)
\* An end that tells this status, and no other.
Fits(e, status) == IsEvent(e) /\ (e.t = "terminal" => e.status = status)
Fitting(out, status) == \E R : out \in Seq(R) /\ \A e \in R : Fits(e, status)

\* The client has an end only if there was one (ends), and has its status.
Told(m, aim) == /\ {"phase", "status"} \subseteq DOMAIN m
                /\ m.phase # "finished"
                /\ m.phase = "end" => aim.ends /\ m.status = aim.status
AcceptStep(m, e, with) == Responses!Accept(m, e)
AcceptFold == INSTANCE FoldFacts WITH Op <- AcceptStep, Good <- Told
LEMMA AcceptInduction == AcceptFold!Induction
  BY IndexInduction, Zenon DEF AcceptFold!Induction
Ends(out) == \E i \in DOMAIN out : out[i].t = "terminal"

LEMMA AcceptTold ==
    ASSUME NEW m, NEW aim, Told(m, aim), NEW e, Fits(e, aim.status),
           e.t = "terminal" => aim.ends
    PROVE  Told(Responses!Accept(m, e), aim)
  <1> DEFINE f == Responses!Follow(m, e)
             wrong == [m EXCEPT !.phase = "wrong"]
  <1>1. Told(wrong, aim)
    BY DEF Told
  <1>2. Told(f, aim)
    BY Zenon DEF Told, Responses!Follow, Fits, IsEvent, EventKinds
  <1>3. Responses!Accept(m, e) = f \/ Responses!Accept(m, e) = wrong
    BY DEF Responses!Accept
  <1> HIDE DEF f, wrong
  <1>4. QED
    BY <1>1, <1>2, <1>3

-----------------------------------------------------------------------------
(***************************************************************************)
(* What chunks and events change.                                          *)
(***************************************************************************)
\* A chunk brings a sequence of pieces of calls.
IsChunk(e) == e.t = "chunk" /\ \E n \in Nat : DOMAIN e.calls = 1 .. n

\* The events of a Claude message.
ClaudeKinds == {"message_start", "content_block_start", "content_block_delta",
                "signature_delta", "content_block_stop", "message_delta", "message_stop",
                "error"}

\* The reason to finish is what a chunk says.
Reason(m, reason) == "finish" \in DOMAIN m /\ m.finish = reason
TakeStep(m, p, with) == Chat!TakePiece(m, p)
TakeFold == INSTANCE FoldFacts WITH Op <- TakeStep, Good <- Reason
LEMMA TakeInduction == TakeFold!Induction
  BY IndexInduction, Zenon DEF TakeFold!Induction

\* Text, thoughts and pieces of calls leave the reason to finish as it was.
LEMMA TakeKeepsReason ==
    ASSUME NEW m, "finish" \in DOMAIN m, NEW chunk, IsChunk(chunk)
    PROVE  Reason(Chat!Take(m, chunk), m.finish)
  <1> DEFINE s == [m EXCEPT !.phase = "message", !.text = @ \o chunk.text,
                            !.think = @ \o chunk.think]
  <1>1. Reason(s, m.finish)
    BY DEF Reason
  <1>2. Chat!Take(m, chunk) = TakeFold!Folded(0, s, chunk.calls)
    BY DEF TakeFold!Folded, TakeFold!Part, TakeFold!Table, TakeFold!Top, TakeStep,
           Chat!Take, Chat!FoldLeft, Chat!MapThenFoldSet, Chat!Max
  <1> HIDE DEF s
  <1>3. ASSUME NEW x, NEW p, Reason(x, m.finish) PROVE Reason(Chat!TakePiece(x, p), m.finish)
    <2>1. Reason(Chat!Add(x, p), m.finish)
      BY <1>3 DEF Reason, Chat!Add
    <2>2. Reason([x EXCEPT !.phase = "wrong"], m.finish)
      BY <1>3 DEF Reason
    <2>3. QED
      BY <2>1, <2>2 DEF Chat!TakePiece
  <1>4. Reason(TakeFold!Folded(0, s, chunk.calls), m.finish)
    <2>1. TakeFold!Line(DOMAIN chunk.calls)
      BY DEF IsChunk, TakeFold!Line
    <2>2. \A x : \A i \in DOMAIN chunk.calls :
            Reason(x, m.finish) => Reason(TakeStep(x, chunk.calls[i], 0), m.finish)
      BY <1>3 DEF TakeStep
    <2>3. QED
      BY <1>1, <2>1, <2>2, TakeInduction, TakeFold!FoldKeeps
  <1>5. QED
    BY <1>2, <1>4

LEMMA ChatReason ==
    ASSUME NEW m, "finish" \in DOMAIN m, NEW e, IsChunk(e) \/ e.t = "done"
    PROVE  /\ "finish" \in DOMAIN Chat!Follow(m, e)
           /\ \/ Chat!Follow(m, e).finish = m.finish
              \/ e.t = "chunk" /\ Chat!Follow(m, e).finish = e.finish
  <1>1. CASE e.t = "done"
    BY <1>1 DEF Chat!Follow
  <1>2. CASE IsChunk(e)
    <2> DEFINE s == Chat!Take(m, e)
    <2>1. "finish" \in DOMAIN s /\ s.finish = m.finish
      BY <1>2, TakeKeepsReason DEF Reason
    <2>2. Chat!Follow(m, e) \in {m, s, [s EXCEPT !.phase = "finished", !.finish = e.finish]}
      BY <1>2 DEF Chat!Follow, IsChunk
    <2> HIDE DEF s
    <2>3. QED
      BY <1>2, <2>1, <2>2, Zenon DEF IsChunk
  <1>3. QED
    BY <1>1, <1>2

LEMMA ClaudeStop ==
    ASSUME NEW m, "stop" \in DOMAIN m, NEW e, e.t \in ClaudeKinds
    PROVE  /\ "stop" \in DOMAIN Claude!Follow(m, e)
           /\ \/ Claude!Follow(m, e).stop = m.stop
              \/ e.t = "message_delta" /\ Claude!Follow(m, e).stop = e.stop
  BY DEF Claude!Follow, ClaudeKinds

-----------------------------------------------------------------------------
(***************************************************************************)
(* Sequences of whatever.                                                  *)
(***************************************************************************)
\* A sequence of whatever.
IsSeq(s) == s \in Seq({s[i] : i \in DOMAIN s})

LEMMA SeqFacts ==
    ASSUME NEW s, IsSeq(s)
    PROVE  Len(s) \in Nat /\ DOMAIN s = 1 .. Len(s)
  BY DEF IsSeq

LEMMA SomeSeq ==
    ASSUME NEW R, NEW s \in Seq(R)
    PROVE  IsSeq(s)
  <1> DEFINE Q == {s[i] : i \in DOMAIN s}
  <1>1. /\ Len(s) \in Nat /\ DOMAIN s = 1 .. Len(s)
        /\ s = [i \in 1 .. Len(s) |-> s[i]]
    OBVIOUS
  <1>2. \A i \in 1 .. Len(s) : s[i] \in Q
    BY <1>1
  <1> HIDE DEF Q
  <1>3. [i \in 1 .. Len(s) |-> s[i]] \in Seq(Q)
    BY <1>1, <1>2
  <1>4. s \in Seq(Q)
    BY <1>1, <1>3
  <1>5. QED
    BY <1>4 DEF IsSeq, Q

LEMMA EmptyIsSeq == \A x : x = <<>> => IsSeq(x)
  <1>1. \A x : x = <<>> => x \in Seq({})
    OBVIOUS
  <1>2. \A x : x \in Seq({}) => IsSeq(x)
    BY SomeSeq
  <1>3. QED
    BY <1>1, <1>2

\* ... and one with an element more.
LEMMA Longer ==
    ASSUME NEW s, IsSeq(s), NEW e
    PROVE  /\ IsSeq(Append(s, e)) /\ Append(s, e) # <<>>
           /\ Len(Append(s, e)) = Len(s) + 1
           /\ DOMAIN Append(s, e) = 1 .. (Len(s) + 1)
           /\ \A i \in 1 .. Len(s) : Append(s, e)[i] = s[i]
           /\ Append(s, e)[Len(s) + 1] = e
  <1> DEFINE Q == {s[i] : i \in DOMAIN s} \union {e}
  <1>1. s \in Seq(Q) /\ e \in Q
    BY DEF IsSeq
  <1> HIDE DEF Q
  <1>2. Append(s, e) \in Seq(Q) /\ Len(Append(s, e)) = Len(s) + 1 /\ Len(s) \in Nat
    BY <1>1
  <1>3. Append(s, e) # <<>>
    <2>1. Len(<<>>) = 0
      OBVIOUS
    <2>2. Len(Append(s, e)) # 0
      BY <1>2
    <2>3. QED
      BY <2>1, <2>2
  <1>4. IsSeq(Append(s, e))
    BY <1>2, SomeSeq, Zenon
  <1>5. QED
    BY <1>1, <1>2, <1>3, <1>4

LEMMA SeqWith ==
    ASSUME NEW s, IsSeq(s), NEW e
    PROVE  \E R : s \in Seq(R) /\ e \in R
  <1> DEFINE Q == {s[i] : i \in DOMAIN s} \union {e}
  <1>1. s \in Seq(Q) /\ e \in Q
    BY DEF IsSeq
  <1> HIDE DEF Q
  <1>2. QED
    BY <1>1

\* One element of a sequence changes.
LEMMA Changed ==
    ASSUME NEW s, IsSeq(s), NEW k \in DOMAIN s, NEW e
    PROVE  /\ IsSeq([s EXCEPT ![k] = e]) /\ Len([s EXCEPT ![k] = e]) = Len(s)
           /\ DOMAIN [s EXCEPT ![k] = e] = DOMAIN s
  <1> DEFINE Q == {s[i] : i \in DOMAIN s} \union {e}
  <1>1. s \in Seq(Q) /\ e \in Q
    BY DEF IsSeq
  <1> HIDE DEF Q
  <1>2. [s EXCEPT ![k] = e] \in Seq(Q) /\ Len([s EXCEPT ![k] = e]) = Len(s)
    BY <1>1
  <1>3. QED
    BY <1>2, SomeSeq, Zenon

Always(x, aim) == TRUE

-----------------------------------------------------------------------------
(***************************************************************************)
(* A client of chat.                                                       *)
(***************************************************************************)
ChatAccepts(m, chunk, with) == Chat!Accept(m, chunk)
ChatTakes(m, piece, with) == Chat!TakePiece(m, piece)
ChatReceives == INSTANCE FoldFacts WITH Op <- ChatAccepts, Good <- Always
ChatPieces1 == INSTANCE FoldFacts WITH Op <- ChatTakes, Good <- Always
LEMMA ChatReceivesInduction == ChatReceives!Induction /\ ChatPieces1!Induction
  BY IndexInduction, Zenon DEF ChatReceives!Induction, ChatPieces1!Induction

LEMMA ChatReceive ==
    /\ \A m : Chat!Receive(m, <<>>) = m
    /\ \A m, out, e : IsSeq(out) =>
         Chat!Receive(m, Append(out, e)) = Chat!Accept(Chat!Receive(m, out), e)
  <1>1. \A m, out : Chat!Receive(m, out) = ChatReceives!Folded(0, m, out)
    BY DEF Chat!Receive, ChatReceives!Folded, ChatReceives!Part, ChatReceives!Table,
           ChatReceives!Top, ChatAccepts, Chat!FoldLeft, Chat!MapThenFoldSet, Chat!Max
  <1>2. \A m : ChatReceives!Folded(0, m, <<>>) = m
    BY ChatReceivesInduction, ChatReceives!FoldShort, Zenon
  <1>3. ASSUME NEW m, NEW out, NEW e, IsSeq(out)
        PROVE  ChatReceives!Folded(0, m, Append(out, e))
                 = Chat!Accept(ChatReceives!Folded(0, m, out), e)
    <2>1. PICK R : out \in Seq(R) /\ e \in R
      BY <1>3, SeqWith
    <2>2. QED
      BY <2>1, ChatReceivesInduction, ChatReceives!FoldAppend DEF ChatAccepts
  <1>4. QED
    BY <1>1, <1>2, <1>3

LEMMA ChatTake ==
    ASSUME NEW m, NEW p
    PROVE  /\ Chat!FoldLeft(Chat!TakePiece, m, <<>>) = m
           /\ Chat!FoldLeft(Chat!TakePiece, m, <<p>>) = Chat!TakePiece(m, p)
  <1>1. \A out : Chat!FoldLeft(Chat!TakePiece, m, out) = ChatPieces1!Folded(0, m, out)
    BY DEF ChatPieces1!Folded, ChatPieces1!Part, ChatPieces1!Table,
           ChatPieces1!Top, ChatTakes, Chat!FoldLeft, Chat!MapThenFoldSet, Chat!Max
  <1>2. /\ ChatPieces1!Folded(0, m, <<>>) = m
        /\ ChatPieces1!Folded(0, m, <<p>>) = ChatTakes(m, p, 0)
    BY ChatReceivesInduction, ChatPieces1!FoldShort
  <1>3. QED
    BY <1>1, <1>2, Zenon DEF ChatTakes

\* A client all of whose calls are known.
CallFields == {"of", "id", "name", "args"}
IsKnown(c) == DOMAIN c = CallFields /\ c.id = TRUE /\ c.name = TRUE
AllKnown(q) == \E R : q \in Seq(R) /\ \A c \in R : IsKnown(c)
\* The piece of a call begins the next one, or does not name an old one again.
NextOrOld(p, n) ==
    /\ p.call = n => p.id = TRUE /\ p.name = TRUE
    /\ p.call # n => p.call \in 0 .. n - 1 /\ p.id = FALSE /\ p.name = FALSE
Unfinished(chunk) == chunk.finish = ""
ChatKnown(m) ==
    /\ DOMAIN m = {"phase", "text", "think", "calls", "finish"}
    /\ AllKnown(m.calls)

\* Empty sequences.
LEMMA Nothing ==
    \A x : x = <<>> =>
      /\ IsSeq(x) /\ AllKnown(x) /\ Len(x) = 0 /\ DOMAIN x = {}
      /\ \A m : Chat!Receive(m, x) = m
  <1>1. \A x : x = <<>> => Len(x) = 0 /\ x \in Seq({}) /\ DOMAIN x = {}
    OBVIOUS
  <1>2. \A x : x \in Seq({}) => IsSeq(x) /\ AllKnown(x)
    BY SomeSeq DEF AllKnown
  <1> DEFINE e == <<>>
  <1>3. \A m : Chat!Receive(m, e) = m
    BY ChatReceive
  <1> HIDE DEF e
  <1>4. \A x : x = e => \A m : Chat!Receive(m, x) = m
    BY <1>3
  <1>5. QED
    BY <1>1, <1>2, <1>4 DEF e

LEMMA AllKnownFacts ==
    ASSUME NEW q, AllKnown(q)
    PROVE  /\ Len(q) \in Nat /\ DOMAIN q = 1 .. Len(q)
           /\ \A i \in DOMAIN q : IsKnown(q[i])
           /\ \A c : IsKnown(c) => AllKnown(Append(q, c)) /\ Len(Append(q, c)) = Len(q) + 1
           /\ \A k \in DOMAIN q : \A c : IsKnown(c) =>
                AllKnown([q EXCEPT ![k] = c]) /\ Len([q EXCEPT ![k] = c]) = Len(q)
  <1>1. PICK R : q \in Seq(R) /\ \A c \in R : IsKnown(c)
    BY DEF AllKnown
  <1>2. /\ Len(q) \in Nat /\ DOMAIN q = 1 .. Len(q)
        /\ \A i \in DOMAIN q : IsKnown(q[i])
    BY <1>1
  <1>3. ASSUME NEW c, IsKnown(c)
        PROVE  /\ AllKnown(Append(q, c)) /\ Len(Append(q, c)) = Len(q) + 1
               /\ \A k \in DOMAIN q :
                    AllKnown([q EXCEPT ![k] = c]) /\ Len([q EXCEPT ![k] = c]) = Len(q)
    <2> DEFINE Q == R \union {c}
    <2>1. q \in Seq(Q) /\ c \in Q /\ \A x \in Q : IsKnown(x)
      BY <1>1, <1>3
    <2> HIDE DEF Q
    <2>2. Append(q, c) \in Seq(Q) /\ Len(Append(q, c)) = Len(q) + 1
      BY <2>1
    <2>3. \A k \in DOMAIN q : [q EXCEPT ![k] = c] \in Seq(Q) /\ Len([q EXCEPT ![k] = c]) = Len(q)
      BY <2>1
    <2>4. QED
      BY <2>1, <2>2, <2>3 DEF AllKnown
  <1>4. QED
    BY <1>2, <1>3

\* A call gets a piece that does not name it again.
LEMMA CallGrows ==
    ASSUME NEW d, IsKnown(d), NEW p
    PROVE  IsKnown(Chat!Grown(d, p))
  <1> DEFINE b == Chat!Grown(d, p)
  <1>1. DOMAIN d = CallFields /\ d.id = TRUE /\ d.name = TRUE
        /\ "id" \in CallFields /\ "name" \in CallFields
    BY DEF IsKnown, CallFields
  <1>2. DOMAIN b = DOMAIN d /\ ("id" \in DOMAIN d => b.id = (d.id \/ p.id))
        /\ ("name" \in DOMAIN d => b.name = (d.name \/ p.name))
    BY Zenon DEF Chat!Grown
  <1> HIDE DEF b
  <1>3. IsKnown(b)
    BY <1>1, <1>2, Zenon DEF IsKnown
  <1>4. QED
    BY <1>3 DEF b

\* A chunk without calls, one that begins a call and one that continues one.
LEMMA ChatContent ==
    ASSUME NEW m, ChatKnown(m), m.phase \in {"before", "message"},
           NEW chunk, chunk.t = "chunk", chunk.choice = TRUE, chunk.calls = <<>>
    PROVE  /\ ChatKnown(Chat!Accept(m, chunk))
           /\ Chat!Accept(m, chunk).calls = m.calls
           /\ Chat!Accept(m, chunk).phase = IF Unfinished(chunk) THEN "message" ELSE "finished"
           /\ ~Unfinished(chunk) => Chat!Accept(m, chunk).finish = chunk.finish
  <1> DEFINE s == [m EXCEPT !.phase = "message", !.text = @ \o chunk.text,
                            !.think = @ \o chunk.think]
  <1>1. DOMAIN s = DOMAIN m /\ s.phase = "message" /\ s.calls = m.calls
    BY DEF ChatKnown
  <1>2. Chat!Take(m, chunk) = s
    BY ChatTake, Zenon DEF Chat!Take
  <1> HIDE DEF s
  <1>3. Chat!Known(s)
    BY <1>1, AllKnownFacts, Zenon DEF Chat!Known, ChatKnown, IsKnown
  <1>4. Chat!Accept(m, chunk) = IF Unfinished(chunk) THEN s
                                ELSE [s EXCEPT !.phase = "finished", !.finish = chunk.finish]
    BY <1>1, <1>2, <1>3, Zenon DEF Chat!Accept, Chat!MayFollow, Chat!Follow, Unfinished
  <1>5. QED
    BY <1>1, <1>4 DEF ChatKnown

LEMMA ChatCall ==
    ASSUME NEW m, ChatKnown(m), m.phase \in {"before", "message"},
           NEW p, NEW chunk, chunk.t = "chunk", chunk.choice = TRUE, chunk.calls = <<p>>,
           Unfinished(chunk),
           NextOrOld(p, Len(m.calls))
    PROVE  /\ ChatKnown(Chat!Accept(m, chunk))
           /\ Len(Chat!Accept(m, chunk).calls) = IF p.call = Len(m.calls) THEN Len(m.calls) + 1
                                                 ELSE Len(m.calls)
           /\ Chat!Accept(m, chunk).phase = "message"
  <1>a. /\ p.call = Len(m.calls) => p.id = TRUE /\ p.name = TRUE
        /\ p.call # Len(m.calls) =>
             p.call \in 0 .. Len(m.calls) - 1 /\ p.id = FALSE /\ p.name = FALSE
    BY DEF NextOrOld
  <1> DEFINE s == [m EXCEPT !.phase = "message", !.text = @ \o chunk.text,
                            !.think = @ \o chunk.think]
             a == Chat!Add(s, p)
  <1>1. DOMAIN s = DOMAIN m /\ s.phase = "message" /\ s.calls = m.calls
    BY DEF ChatKnown
  <1>2. Chat!Take(m, chunk) = Chat!FoldLeft(Chat!TakePiece, s, <<p>>)
    BY DEF Chat!Take
  <1> HIDE DEF s
  <1>3. Chat!Take(m, chunk) = Chat!TakePiece(s, p)
    BY <1>2, ChatTake, Zenon
  <1>4. AllKnown(s.calls)
    BY <1>1 DEF ChatKnown
  <1>5. Chat!MayAdd(s, p)
    BY <1>1, <1>a DEF Chat!MayAdd
  <1>6. /\ DOMAIN a = DOMAIN s /\ a.phase = "message"
        /\ AllKnown(a.calls)
        /\ Len(a.calls) = IF p.call = Len(m.calls) THEN Len(m.calls) + 1 ELSE Len(m.calls)
    <2>1. CASE p.call = Len(m.calls)
      <3> DEFINE c == [of |-> p.of, id |-> p.id, name |-> p.name, args |-> p.args]
      <3>1. p.call = Len(s.calls)
        BY <1>1, <2>1
      <3>2. a = [s EXCEPT !.calls = Append(@, c)]
        BY <3>1, Zenon DEF Chat!Add
      <3>3. DOMAIN c = CallFields
        BY DEF CallFields
      <3>4. c.id = p.id /\ c.name = p.name
        BY Zenon
      <3> HIDE DEF c, a
      <3>5. IsKnown(c)
        BY <1>a, <2>1, <3>3, <3>4, Zenon DEF IsKnown
      <3>6. DOMAIN a = DOMAIN s /\ a.phase = "message" /\ a.calls = Append(s.calls, c)
        BY <1>1, <3>2 DEF ChatKnown
      <3>7. AllKnown(Append(s.calls, c)) /\ Len(Append(s.calls, c)) = Len(s.calls) + 1
        BY <1>4, <3>5, AllKnownFacts
      <3>8. QED
        BY <1>1, <2>1, <3>6, <3>7
    <2>2. CASE p.call # Len(m.calls)
      <3> DEFINE k == p.call + 1
                 b == Chat!Grown(s.calls[k], p)
      <3>1. p.call # Len(s.calls)
        BY <1>1, <2>2
      <3>2. a = [s EXCEPT !.calls[k] = b]
        BY <3>1, Zenon DEF Chat!Add
      <3>3. k \in DOMAIN s.calls
        <4>1. Len(s.calls) \in Nat /\ DOMAIN s.calls = 1 .. Len(s.calls)
          BY <1>4, AllKnownFacts
        <4>2. p.call \in Int /\ 0 <= p.call /\ p.call <= Len(s.calls) - 1
          BY <1>1, <1>a, <2>2, <4>1
        <4>3. k \in 1 .. Len(s.calls)
          BY <4>1, <4>2
        <4>4. QED
          BY <4>1, <4>3
      <3> HIDE DEF k
      <3>4. IsKnown(s.calls[k])
        BY <1>4, <3>3, AllKnownFacts
      <3>5. IsKnown(b)
        BY <3>4, CallGrows
      <3> HIDE DEF b, a
      <3>6. DOMAIN a = DOMAIN s /\ a.phase = "message" /\ a.calls = [s.calls EXCEPT ![k] = b]
        BY <1>1, <3>2 DEF ChatKnown
      <3>7. AllKnown([s.calls EXCEPT ![k] = b]) /\ Len([s.calls EXCEPT ![k] = b]) = Len(s.calls)
        BY <1>4, <3>3, <3>5, AllKnownFacts
      <3>8. QED
        BY <1>1, <2>2, <3>6, <3>7
    <2>3. QED
      BY <2>1, <2>2
  <1> HIDE DEF a
  <1>7. Chat!Accept(m, chunk) = a
    BY <1>3, <1>5, <1>6, Zenon DEF Chat!TakePiece, Chat!Accept, Chat!MayFollow, Chat!Follow, Unfinished, a
  <1>8. QED
    BY <1>1, <1>6, <1>7 DEF ChatKnown

\* The chunks that the translators write.
IsContent(chunk) == chunk.t = "chunk" /\ chunk.choice = TRUE /\ chunk.calls = <<>>
IsPiece(chunk, p) == /\ chunk.t = "chunk" /\ chunk.choice = TRUE /\ chunk.calls = <<p>>
                     /\ Unfinished(chunk)

LEMMA ChatChunks ==
    /\ \A b : IsContent(Chat!Think(b)) /\ Unfinished(Chat!Think(b))
    /\ \A b : IsContent(Chat!Text(b)) /\ Unfinished(Chat!Text(b))
    /\ IsContent(Chat!Chunk) /\ Unfinished(Chat!Chunk)
    /\ \A r : IsContent([Chat!Finish(r) EXCEPT !.usage = TRUE])
              /\ [Chat!Finish(r) EXCEPT !.usage = TRUE].finish = r
    /\ \A p : IsPiece(Chat!Calls(<<p>>), p)
    /\ Chat!UsageOnly.t = "chunk" /\ Chat!UsageOnly.choice = FALSE
  BY Zenon DEF IsContent, IsPiece, Unfinished, Chat!Think, Chat!Text, Chat!Finish, Chat!Calls,
               Chat!Chunk, Chat!UsageOnly

\* The client after the translator's output.
ChatSoFar(m, st) == Chat!Receive(m, st.out)
ChatOpen(m) == ChatKnown(m) /\ m.phase \in {"before", "message"}

\* A chunk more.
LEMMA ChatSaid ==
    \A m, st, e, x : IsSeq(st.out) /\ x.out = Append(st.out, e) =>
      IsSeq(x.out) /\ ChatSoFar(m, x) = Chat!Accept(ChatSoFar(m, st), e)
  BY ChatReceive, Longer DEF ChatSoFar

\* The same for a client that is open, in short.
LEMMA ChatCalled ==
    \A m, e, p : ChatOpen(m) /\ IsPiece(e, p) /\ NextOrOld(p, Len(m.calls)) =>
      /\ ChatOpen(Chat!Accept(m, e))
      /\ Len(Chat!Accept(m, e).calls) = IF p.call = Len(m.calls) THEN Len(m.calls) + 1
                                        ELSE Len(m.calls)
  <1> SUFFICES ASSUME NEW m, NEW e, NEW p, ChatOpen(m), IsPiece(e, p),
                      NextOrOld(p, Len(m.calls))
               PROVE  /\ ChatOpen(Chat!Accept(m, e))
                      /\ Len(Chat!Accept(m, e).calls) = IF p.call = Len(m.calls)
                                                        THEN Len(m.calls) + 1 ELSE Len(m.calls)
    OBVIOUS
  <1>1. ChatKnown(m) /\ m.phase \in {"before", "message"}
    BY DEF ChatOpen
  <1>2. e.t = "chunk" /\ e.choice = TRUE /\ e.calls = <<p>> /\ Unfinished(e)
    BY DEF IsPiece
  <1>3. QED
    BY <1>1, <1>2, ChatCall, Zenon DEF ChatOpen

-----------------------------------------------------------------------------
(***************************************************************************)
(* From responses to chat: index is the index of the client's last call,   *)
(* and the calls in the table are among the client's.                      *)
(***************************************************************************)
CodexFields == {"index", "calls", "current", "out"}
CallStates(calls, n) ==
    \A c \in DOMAIN calls : /\ DOMAIN calls[c] = {"index", "emitted", "done"}
                            /\ calls[c].index \in 0 .. n
CodexInStep(st, m) ==
    /\ DOMAIN st = CodexFields /\ IsSeq(st.out)
    /\ ChatOpen(ChatSoFar(m, st))
    /\ st.index = Len(ChatSoFar(m, st).calls) - 1
    /\ CallStates(st.calls, st.index)
    /\ st.current = CodexChat!None \/ st.current \in DOMAIN st.calls

LEMMA CodexIndex ==
    ASSUME NEW st, NEW m, CodexInStep(st, m)
    PROVE  st.index \in Int /\ Len(ChatSoFar(m, st).calls) = st.index + 1
  BY AllKnownFacts DEF CodexInStep, ChatOpen, ChatKnown

LEMMA CodexContent ==
    ASSUME NEW st, NEW m, CodexInStep(st, m), NEW e, IsContent(e), Unfinished(e)
    PROVE  CodexInStep(CodexChat!Emit(st, e), m)
  <1> DEFINE x == CodexChat!Emit(st, e)
  <1>1. /\ DOMAIN x = DOMAIN st /\ x.out = Append(st.out, e) /\ x.index = st.index
        /\ x.calls = st.calls /\ x.current = st.current
    BY DEF CodexInStep, CodexFields, CodexChat!Emit
  <1> HIDE DEF x
  <1>2. IsSeq(x.out) /\ ChatSoFar(m, x) = Chat!Accept(ChatSoFar(m, st), e)
    <2>1. IsSeq(st.out)
      BY DEF CodexInStep
    <2>2. QED
      BY <1>1, <2>1, ChatSaid, Zenon
  <1>3. ChatOpen(ChatSoFar(m, x)) /\ ChatSoFar(m, x).calls = ChatSoFar(m, st).calls
    BY <1>2, ChatContent, Zenon DEF CodexInStep, ChatOpen, IsContent
  <1>4. CodexInStep(x, m)
    BY <1>1, <1>2, <1>3 DEF CodexInStep
  <1>5. QED
    BY <1>4 DEF x

LEMMA CodexPiece ==
    ASSUME NEW st, NEW m, CodexInStep(st, m), NEW c \in DOMAIN st.calls, NEW args
    PROVE  CodexInStep(CodexChat!Say(st, c, args), m)
  <1> DEFINE p == CodexChat!Piece(st.calls[c].index, 0, FALSE, args)
             e == Chat!Calls(<<p>>)
             x == CodexChat!Emit(st, e)
  <1>0. /\ p.call \in 0 .. st.index /\ p.call = st.calls[c].index
        /\ p.id = FALSE /\ p.name = FALSE
    BY DEF CodexChat!Piece, CodexInStep, CallStates
  <1> HIDE DEF p
  <1>1. /\ DOMAIN x = DOMAIN st /\ x.out = Append(st.out, e) /\ x.index = st.index
        /\ x.calls = st.calls /\ x.current = st.current
    BY DEF CodexInStep, CodexFields, CodexChat!Emit
  <1>a. IsPiece(e, p)
    BY ChatChunks
  <1> HIDE DEF e, x
  <1>2. IsSeq(x.out) /\ ChatSoFar(m, x) = Chat!Accept(ChatSoFar(m, st), e)
    <2>1. IsSeq(st.out)
      BY DEF CodexInStep
    <2>2. QED
      BY <1>1, <2>1, ChatSaid, Zenon
  <1> DEFINE r == ChatSoFar(m, st)
             k == st.index
  <1>b. ChatOpen(r) /\ k \in Int /\ Len(r.calls) = k + 1 /\ p.call \in 0 .. k
    BY <1>0, CodexIndex DEF CodexInStep
  <1> HIDE DEF r, k
  <1>c. p.call # Len(r.calls) /\ NextOrOld(p, Len(r.calls))
    BY <1>0, <1>b DEF NextOrOld
  <1>3. ChatOpen(Chat!Accept(r, e)) /\ Len(Chat!Accept(r, e).calls) = Len(r.calls)
    BY <1>a, <1>b, <1>c, ChatCalled
  <1>4. CodexInStep(x, m)
    BY <1>1, <1>2, <1>3 DEF CodexInStep, r
  <1>5. CodexChat!Say(st, c, args) = IF args = <<>> THEN st ELSE x
    BY Zenon DEF CodexChat!Say, x, e, p, CodexChat!Calls, Chat!Calls, CodexChat!Chunk, Chat!Chunk
  <1>6. QED
    BY <1>4, <1>5

\* A call more.
LEMMA CodexNewCall ==
    ASSUME NEW st, NEW m, CodexInStep(st, m), NEW ix, NEW emitted \in BOOLEAN, NEW of, NEW args
    PROVE  CodexInStep(CodexChat!Emit(CodexChat!Register(st, ix, emitted),
             CodexChat!Calls(<<CodexChat!Piece(st.index + 1, of, TRUE, args)>>)), m)
  <1> DEFINE s == CodexChat!Register(st, ix, emitted)
             p == CodexChat!Piece(st.index + 1, of, TRUE, args)
             e == Chat!Calls(<<p>>)
             x == CodexChat!Emit(s, e)
             c == [index |-> st.index + 1, emitted |-> emitted, done |-> emitted]
  <1>1. /\ DOMAIN s = DOMAIN st /\ s.out = st.out /\ s.index = st.index + 1
        /\ s.calls = CodexChat!Put(st.calls, ix, c) /\ s.current = ix
    BY DEF CodexInStep, CodexFields, CodexChat!Register
  <1>2. DOMAIN c = {"index", "emitted", "done"} /\ c.index = st.index + 1
    OBVIOUS
  <1>3. p.call = st.index + 1 /\ p.id = TRUE /\ p.name = TRUE
    BY DEF CodexChat!Piece
  <1> HIDE DEF s, p, c
  <1>4. IsPiece(e, p)
    BY ChatChunks
  <1>5. CodexChat!Calls(<<p>>) = e
    BY Zenon DEF CodexChat!Calls, Chat!Calls, CodexChat!Chunk, Chat!Chunk
  <1> HIDE DEF e
  <1>6. /\ DOMAIN x = CodexFields /\ x.out = Append(st.out, e) /\ x.index = st.index + 1
        /\ x.calls = CodexChat!Put(st.calls, ix, c) /\ x.current = ix
    BY <1>1 DEF CodexInStep, CodexFields, CodexChat!Emit
  <1> HIDE DEF x
  <1>7. IsSeq(x.out) /\ ChatSoFar(m, x) = Chat!Accept(ChatSoFar(m, st), e)
    <2>1. IsSeq(st.out)
      BY DEF CodexInStep
    <2>2. QED
      BY <1>6, <2>1, ChatSaid, Zenon
  <1> DEFINE r == ChatSoFar(m, st)
             k == st.index
  <1>8. ChatOpen(r) /\ k \in Int /\ Len(r.calls) = k + 1 /\ p.call = k + 1
    BY <1>3, CodexIndex DEF CodexInStep
  <1> HIDE DEF r, k
  <1>9. p.call = Len(r.calls) /\ NextOrOld(p, Len(r.calls))
    BY <1>3, <1>8 DEF NextOrOld
  <1>10. ChatOpen(Chat!Accept(r, e)) /\ Len(Chat!Accept(r, e).calls) = Len(r.calls) + 1
    BY <1>4, <1>8, <1>9, ChatCalled
  <1>11. CallStates(x.calls, x.index) /\ x.current \in DOMAIN x.calls
    <2> DEFINE old == st.calls
    <2>1. CallStates(old, k) /\ x.index = k + 1 /\ x.calls = CodexChat!Put(old, ix, c)
          /\ x.current = ix /\ c.index = k + 1 /\ k + 1 \in Nat
      <3>1. Len(r.calls) \in Nat
        BY <1>8, AllKnownFacts DEF ChatOpen, ChatKnown
      <3>2. CallStates(st.calls, st.index)
        BY DEF CodexInStep
      <3>3. QED
        BY <1>2, <1>6, <1>8, <3>1, <3>2 DEF k
    <2> HIDE DEF old
    <2>2. QED
      BY <1>2, <1>8, <2>1 DEF CallStates, CodexChat!Put
  <1>12. x.index = Len(ChatSoFar(m, x).calls) - 1
    BY <1>6, <1>7, <1>8, <1>10 DEF r, k
  <1>13. CodexInStep(x, m)
    BY <1>6, <1>7, <1>10, <1>11, <1>12 DEF CodexInStep, r
  <1>14. QED
    BY <1>5, <1>13 DEF x, s, p

\* What is noted of a call does not matter to that.
LEMMA CodexMarked ==
    ASSUME NEW st, NEW m, CodexInStep(st, m), NEW c \in DOMAIN st.calls
    PROVE  /\ CodexInStep([st EXCEPT !.calls[c].emitted = TRUE], m)
           /\ c \in DOMAIN [st EXCEPT !.calls[c].emitted = TRUE].calls
           /\ CodexInStep([st EXCEPT !.calls[c].done = TRUE], m)
           /\ c \in DOMAIN [st EXCEPT !.calls[c].done = TRUE].calls
  <1>1. ASSUME NEW b, DOMAIN b = DOMAIN st, b.out = st.out, b.index = st.index,
               b.current = st.current, DOMAIN b.calls = DOMAIN st.calls,
               CallStates(b.calls, st.index)
        PROVE  CodexInStep(b, m)
    BY <1>1 DEF CodexInStep, ChatSoFar
  <1>2. CallStates(st.calls, st.index)
    BY DEF CodexInStep
  <1> DEFINE b1 == [st EXCEPT !.calls[c].emitted = TRUE]
             b2 == [st EXCEPT !.calls[c].done = TRUE]
  <1>3. /\ DOMAIN b1 = DOMAIN st /\ b1.out = st.out /\ b1.index = st.index
        /\ b1.current = st.current
        /\ b1.calls = [st.calls EXCEPT ![c] = [@ EXCEPT !.emitted = TRUE]]
    BY DEF CodexInStep, CodexFields
  <1>4. /\ DOMAIN b2 = DOMAIN st /\ b2.out = st.out /\ b2.index = st.index
        /\ b2.current = st.current
        /\ b2.calls = [st.calls EXCEPT ![c] = [@ EXCEPT !.done = TRUE]]
    BY DEF CodexInStep, CodexFields
  <1> HIDE DEF b1, b2
  <1>5. CallStates(b1.calls, st.index) /\ DOMAIN b1.calls = DOMAIN st.calls
    BY <1>2, <1>3 DEF CallStates
  <1>6. CallStates(b2.calls, st.index) /\ DOMAIN b2.calls = DOMAIN st.calls
    BY <1>2, <1>4 DEF CallStates
  <1>7. CodexInStep(b1, m) /\ c \in DOMAIN b1.calls
    BY <1>1, <1>3, <1>5
  <1>8. CodexInStep(b2, m) /\ c \in DOMAIN b2.calls
    BY <1>1, <1>4, <1>6
  <1>9. QED
    BY <1>7, <1>8 DEF b1, b2

LEMMA CodexArguments ==
    ASSUME NEW st, NEW m, CodexInStep(st, m), NEW e
    PROVE  /\ CodexInStep(CodexChat!ArgumentPiece(st, e), m)
           /\ CodexInStep(CodexChat!AllArguments(st, e), m)
           /\ CodexInStep(CodexChat!CallDone(st, e), m)
  <1> DEFINE c == CodexChat!Find(st, e.ix)
             b1 == [st EXCEPT !.calls[c].emitted = TRUE]
             b2 == [st EXCEPT !.calls[c].done = TRUE]
             b3 == [b2 EXCEPT !.calls[c].emitted = TRUE]
             x1 == CodexChat!ArgumentPiece(st, e)
             x2 == CodexChat!AllArguments(st, e)
             x3 == CodexChat!CallDone(st, e)
             first == CodexChat!Complete(st, e)
  <1>1. c = CodexChat!None \/ c \in DOMAIN st.calls
    BY DEF CodexChat!Find, CodexInStep
  <1>2. x1 = st \/ (c # CodexChat!None /\ x1 = CodexChat!Say(b1, c, e.body))
    BY DEF CodexChat!ArgumentPiece
  <1>3. x2 = st \/ (c # CodexChat!None /\ x2 = CodexChat!Say(b1, c, e.body))
    BY DEF CodexChat!AllArguments
  <1>4. \/ x3 = first
        \/ c # CodexChat!None /\ x3 = b2
        \/ c # CodexChat!None /\ x3 = CodexChat!Say(b3, c, e.item.body)
    BY DEF CodexChat!CallDone
  <1>5. CodexInStep(first, m)
    BY CodexNewCall, Zenon DEF CodexChat!Complete
  <1> HIDE DEF c
  <1>6. ASSUME c \in DOMAIN st.calls PROVE CodexInStep(b1, m) /\ c \in DOMAIN b1.calls
    BY <1>6, CodexMarked, Zenon
  <1>7. ASSUME c \in DOMAIN st.calls PROVE CodexInStep(b2, m) /\ c \in DOMAIN b2.calls
    BY <1>7, CodexMarked, Zenon
  <1> HIDE DEF b1, b2
  <1>8. ASSUME c \in DOMAIN st.calls PROVE CodexInStep(b3, m) /\ c \in DOMAIN b3.calls
    BY <1>7, <1>8, CodexMarked, Zenon
  <1> HIDE DEF b3, x1, x2, x3, first
  <1>9. CodexInStep(x1, m) /\ CodexInStep(x2, m)
    BY <1>1, <1>2, <1>3, <1>6, CodexPiece
  <1>10. CodexInStep(x3, m)
    BY <1>1, <1>4, <1>5, <1>7, <1>8, CodexPiece
  <1>11. QED
    BY <1>9, <1>10 DEF x1, x2, x3

\* ConvertCodexResponseToOpenAI keeps step up to the last event, which is legal.
LEMMA CodexTranslate ==
    ASSUME NEW st, NEW m, CodexInStep([st EXCEPT !.out = <<>>], m), NEW e
    PROVE  /\ IsSeq(CodexChat!Translate(st, e).out)
           /\ e.t # "terminal" => CodexInStep(CodexChat!Translate(st, e), m)
           /\ e.t = "terminal" => ChatSoFar(m, CodexChat!Translate(st, e)).phase # "wrong"
  <1> DEFINE s == [st EXCEPT !.out = <<>>]
             x == CodexChat!Translate(st, e)
             end(r) == [Chat!Finish(r) EXCEPT !.usage = TRUE]
  <1> HIDE DEF s, end
  <1>a. /\ \A b : CodexChat!Think(b) = Chat!Think(b) /\ CodexChat!Text(b) = Chat!Text(b)
        /\ \A r : [CodexChat!Finish(r) EXCEPT !.usage = TRUE] = end(r)
    BY Zenon DEF CodexChat!Think, Chat!Think, CodexChat!Text, Chat!Text, CodexChat!Finish,
                 Chat!Finish, CodexChat!Chunk, Chat!Chunk, end
  <1>1. \/ x = s
        \/ \E b : x = CodexChat!Emit(s, Chat!Think(b)) \/ x = CodexChat!Emit(s, Chat!Text(b))
        \/ x = CodexChat!ArgumentPiece(s, e) \/ x = CodexChat!AllArguments(s, e)
        \/ x = CodexChat!CallDone(s, e) \/ x = CodexChat!Announce(s, e)
        \/ e.t = "terminal" /\ \E r : x = CodexChat!Emit(s, end(r))
    BY <1>a, Zenon DEF CodexChat!Translate, s
  <1>2. CodexInStep(s, m)
    BY DEF s
  <1> HIDE DEF x
  <1>3. \A b : CodexInStep(CodexChat!Emit(s, Chat!Think(b)), m)
               /\ CodexInStep(CodexChat!Emit(s, Chat!Text(b)), m)
    BY <1>2, ChatChunks, CodexContent
  <1>4. CodexInStep(CodexChat!Announce(s, e), m)
    BY <1>2, CodexNewCall, Zenon DEF CodexChat!Announce
  <1>5. ASSUME NEW r, x = CodexChat!Emit(s, end(r))
        PROVE  IsSeq(x.out) /\ ChatSoFar(m, x).phase # "wrong"
    <2>1. x.out = Append(s.out, end(r)) /\ IsSeq(s.out) /\ ChatOpen(ChatSoFar(m, s))
      BY <1>2, <1>5 DEF CodexChat!Emit, CodexInStep, CodexFields
    <2>2. IsSeq(x.out) /\ ChatSoFar(m, x) = Chat!Accept(ChatSoFar(m, s), end(r))
      BY <2>1, ChatSaid, Zenon
    <2>3. IsContent(end(r))
      BY ChatChunks DEF end
    <2>4. Chat!Accept(ChatSoFar(m, s), end(r)).phase
            = IF Unfinished(end(r)) THEN "message" ELSE "finished"
      BY <2>1, <2>3, ChatContent, Zenon DEF IsContent, ChatOpen
    <2>5. QED
      BY <2>2, <2>4
  <1>6. CodexInStep(x, m) \/ (e.t = "terminal" /\ \E r : x = CodexChat!Emit(s, end(r)))
    BY <1>1, <1>2, <1>3, <1>4, CodexArguments
  <1>7. CodexInStep(x, m) => IsSeq(x.out) /\ ChatSoFar(m, x).phase # "wrong"
    BY DEF CodexInStep, ChatOpen
  <1>8. QED
    BY <1>5, <1>6, <1>7 DEF x

\* The last event tells the client to run tools if it has calls, unless it was cut off.
HasCalls(m) == DOMAIN m.calls # {}

LEMMA CodexFinish ==
    ASSUME NEW st, NEW m, CodexInStep([st EXCEPT !.out = <<>>], m), NEW e, e.t = "terminal",
           NEW r, r = ChatSoFar(m, CodexChat!Translate(st, e))
    PROVE  r.finish = CodexChat!FinishReason(e.status, e.reason, HasCalls(r))
  <1> DEFINE s == [st EXCEPT !.out = <<>>]
             reason == CodexChat!FinishReason(e.status, e.reason, s.index # -1)
             f == [Chat!Finish(reason) EXCEPT !.usage = TRUE]
             x == CodexChat!Emit(s, f)
             q == ChatSoFar(m, s)
  <1>1. CodexChat!Translate(st, e) = x
    BY Zenon DEF CodexChat!Translate, CodexChat!Finish, Chat!Finish, CodexChat!Chunk, Chat!Chunk
  <1>2. CodexInStep(s, m)
    OBVIOUS
  <1>3. reason # ""
    BY Zenon DEF CodexChat!FinishReason
  <1> HIDE DEF s
  <1>4. IsContent(f) /\ f.finish = reason
    BY ChatChunks
  <1>5. ~Unfinished(f)
    <2> HIDE DEF f, reason
    <2>1. QED
      BY <1>3, <1>4, Zenon DEF Unfinished
  <1>6. s.index # -1 <=> HasCalls(q)
    <2>1. s.index \in Int /\ Len(q.calls) = s.index + 1
      BY <1>2, CodexIndex
    <2>2. Len(q.calls) \in Nat /\ DOMAIN q.calls = 1 .. Len(q.calls)
      BY <1>2, AllKnownFacts DEF CodexInStep, ChatOpen, ChatKnown
    <2> HIDE DEF q
    <2>3. QED
      BY <2>1, <2>2 DEF HasCalls
  <1> HIDE DEF f
  <1>7. x.out = Append(s.out, f) /\ IsSeq(s.out) /\ ChatOpen(q)
    BY <1>2 DEF CodexChat!Emit, CodexInStep, CodexFields
  <1> HIDE DEF x
  <1>8. ChatSoFar(m, x) = Chat!Accept(q, f)
    BY <1>7, ChatSaid, Zenon
  <1>9. Chat!Accept(q, f).calls = q.calls /\ Chat!Accept(q, f).finish = f.finish
    <2> HIDE DEF q
    <2>1. ChatKnown(q) /\ q.phase \in {"before", "message"}
      BY <1>7 DEF ChatOpen
    <2>2. f.t = "chunk" /\ f.choice = TRUE /\ f.calls = <<>>
      BY <1>4 DEF IsContent
    <2>3. QED
      BY <1>5, <2>1, <2>2, ChatContent
  <1>10. HasCalls(r) <=> HasCalls(q)
    BY <1>1, <1>8, <1>9 DEF HasCalls
  <1> HIDE DEF q
  <1>11. r.finish = reason
    BY <1>1, <1>4, <1>8, <1>9
  <1>12. (s.index # -1) = HasCalls(r)
    BY <1>6, <1>10 DEF HasCalls
  <1>13. QED
    BY <1>11, <1>12

-----------------------------------------------------------------------------
(***************************************************************************)
(* From Claude to chat: a call is collected while its block is open and is *)
(* the client's next one when the block stops.                             *)
(***************************************************************************)
GatherFields == {"calls", "next", "finish", "usage", "told", "out"}
Gathered(calls, n) ==
    \A c \in DOMAIN calls : DOMAIN calls[c] = {"of", "index", "args"} /\ calls[c].index = n
Gathers(st, m) ==
    /\ DOMAIN st = GatherFields /\ IsSeq(st.out)
    /\ ChatOpen(ChatSoFar(m, st))
    /\ Gathered(st.calls, Len(ChatSoFar(m, st).calls))
    /\ st.next = IF DOMAIN st.calls = {} THEN Len(ChatSoFar(m, st).calls)
                 ELSE Len(ChatSoFar(m, st).calls) + 1

LEMMA GatherContent ==
    ASSUME NEW st, NEW m, Gathers(st, m), NEW e, IsContent(e), Unfinished(e)
    PROVE  /\ Gathers(ClaudeChat!Emit(st, e), m)
           /\ ClaudeChat!Emit(st, e).calls = st.calls
           /\ ChatSoFar(m, ClaudeChat!Emit(st, e)).calls = ChatSoFar(m, st).calls
  <1> DEFINE x == ClaudeChat!Emit(st, e)
  <1>1. /\ DOMAIN x = DOMAIN st /\ x.out = Append(st.out, e) /\ x.next = st.next
        /\ x.calls = st.calls
    BY DEF Gathers, GatherFields, ClaudeChat!Emit
  <1> HIDE DEF x
  <1>2. IsSeq(x.out) /\ ChatSoFar(m, x) = Chat!Accept(ChatSoFar(m, st), e)
    <2>1. IsSeq(st.out)
      BY DEF Gathers
    <2>2. QED
      BY <1>1, <2>1, ChatSaid, Zenon
  <1>3. ChatOpen(ChatSoFar(m, x)) /\ ChatSoFar(m, x).calls = ChatSoFar(m, st).calls
    BY <1>2, ChatContent, Zenon DEF Gathers, ChatOpen, IsContent
  <1>4. Gathers(x, m)
    BY <1>1, <1>2, <1>3 DEF Gathers
  <1>5. QED
    BY <1>1, <1>3, <1>4 DEF x

LEMMA GatherStart ==
    ASSUME NEW st, NEW m, Gathers(st, m), DOMAIN st.calls = {}, NEW e
    PROVE  /\ Gathers(ClaudeChat!StartCall(st, e), m)
           /\ DOMAIN ClaudeChat!StartCall(st, e).calls = {e.ix}
  <1> DEFINE x == ClaudeChat!StartCall(st, e)
             c == [of |-> e.of, index |-> st.next, args |-> <<>>]
             n == Len(ChatSoFar(m, st).calls)
  <1>1. /\ DOMAIN x = DOMAIN st /\ x.out = st.out /\ x.next = st.next + 1
        /\ x.calls = ClaudeChat!Put(st.calls, e.ix, c)
    BY DEF Gathers, GatherFields, ClaudeChat!StartCall
  <1>2. DOMAIN c = {"of", "index", "args"} /\ c.index = st.next
    OBVIOUS
  <1> HIDE DEF c, x
  <1>3. DOMAIN x.calls = {e.ix} /\ x.calls[e.ix] = c
    BY <1>1 DEF ClaudeChat!Put
  <1>4. st.next = n /\ ChatSoFar(m, x) = ChatSoFar(m, st)
    BY <1>1 DEF Gathers, ChatSoFar
  <1>5. Gathered(x.calls, n)
    BY <1>2, <1>3, <1>4 DEF Gathered
  <1>6. Gathers(x, m)
    BY <1>1, <1>3, <1>4, <1>5, Zenon DEF Gathers
  <1>7. QED
    BY <1>3, <1>6 DEF x

LEMMA GatherPiece ==
    ASSUME NEW st, NEW m, Gathers(st, m), NEW ix \in DOMAIN st.calls, NEW body
    PROVE  /\ Gathers([st EXCEPT !.calls[ix].args = @ \o body], m)
           /\ DOMAIN [st EXCEPT !.calls[ix].args = @ \o body].calls = DOMAIN st.calls
  <1> DEFINE x == [st EXCEPT !.calls[ix].args = @ \o body]
             c == [st.calls[ix] EXCEPT !.args = @ \o body]
  <1>1. /\ DOMAIN x = DOMAIN st /\ x.out = st.out /\ x.next = st.next
        /\ x.calls = [st.calls EXCEPT ![ix] = c]
    BY DEF Gathers, GatherFields
  <1>2. DOMAIN c = {"of", "index", "args"} /\ c.index = st.calls[ix].index
    BY DEF Gathers, Gathered
  <1> HIDE DEF c, x
  <1>3. DOMAIN x.calls = DOMAIN st.calls /\ ChatSoFar(m, x) = ChatSoFar(m, st)
    BY <1>1 DEF ChatSoFar
  <1>4. Gathered(x.calls, Len(ChatSoFar(m, st).calls))
    BY <1>1, <1>2 DEF Gathers, Gathered
  <1>5. Gathers(x, m)
    BY <1>1, <1>3, <1>4 DEF Gathers
  <1>6. QED
    BY <1>3, <1>5 DEF x

LEMMA GatherEnd ==
    ASSUME NEW st, NEW m, Gathers(st, m), NEW ix, DOMAIN st.calls \subseteq {ix}
    PROVE  /\ Gathers(ClaudeChat!EndCall(st, ix), m)
           /\ DOMAIN ClaudeChat!EndCall(st, ix).calls = {}
  <1>1. CASE ix \notin DOMAIN st.calls
    BY <1>1, Zenon DEF ClaudeChat!EndCall
  <1>2. CASE ix \in DOMAIN st.calls
    <2> DEFINE call == st.calls[ix]
               p == ClaudeChat!Piece(call.index, call.of, TRUE, ClaudeChat!Orderly(call.args))
               e == Chat!Calls(<<p>>)
               x == [ClaudeChat!Emit(st, e) EXCEPT !.calls = [i \in DOMAIN @ \ {ix} |-> @[i]]]
               r == ChatSoFar(m, st)
    <2>1. p.call = Len(r.calls) /\ p.id = TRUE /\ p.name = TRUE
      BY <1>2 DEF ClaudeChat!Piece, Gathers, Gathered
    <2> HIDE DEF p
    <2>2. IsPiece(e, p)
      BY ChatChunks
    <2>3. ClaudeChat!Calls(<<p>>) = e
      BY Zenon DEF ClaudeChat!Calls, Chat!Calls, ClaudeChat!Chunk, Chat!Chunk
    <2> HIDE DEF e
    <2>4. /\ DOMAIN x = DOMAIN st /\ x.out = Append(st.out, e) /\ x.next = st.next
          /\ DOMAIN x.calls = {}
      BY DEF Gathers, GatherFields, ClaudeChat!Emit
    <2>5. ClaudeChat!EndCall(st, ix) = x
      BY <1>2, <2>3, Zenon DEF ClaudeChat!EndCall, p
    <2> HIDE DEF x
    <2>6. IsSeq(x.out) /\ ChatSoFar(m, x) = Chat!Accept(r, e)
      <3>1. IsSeq(st.out) /\ x.out = Append(st.out, e)
        BY <2>4 DEF Gathers
      <3>2. QED
        BY <3>1, ChatSaid, Zenon
    <2>7. ChatOpen(r) /\ st.next = Len(r.calls) + 1
      BY <1>2 DEF Gathers
    <2> HIDE DEF r
    <2>8. ChatOpen(Chat!Accept(r, e)) /\ Len(Chat!Accept(r, e).calls) = Len(r.calls) + 1
      <3>1. NextOrOld(p, Len(r.calls))
        BY <2>1 DEF NextOrOld
      <3>2. QED
        BY <2>1, <2>2, <2>7, <3>1, ChatCalled
    <2>9. Gathered(x.calls, Len(ChatSoFar(m, x).calls))
      BY <2>4 DEF Gathered
    <2>10. Gathers(x, m)
      BY <2>4, <2>6, <2>7, <2>8, <2>9 DEF Gathers
    <2>11. QED
      BY <2>4, <2>5, <2>10
  <1>3. QED
    BY <1>1, <1>2

\* What the upstream has sent is a list of blocks.
MessageFields == {"phase", "blocks", "open", "stop"}
IsMessage(src) ==
    /\ DOMAIN src = MessageFields /\ IsSeq(src.blocks)
    /\ src.open = TRUE => Len(src.blocks) >= 1

MessageStep(src, e, next) ==
    /\ IsMessage(next)
    /\ e.t = "message_start" => src.phase = "before" /\ next.phase = "message"
    /\ e.t = "content_block_start" =>
         /\ src.phase = "message" /\ next.phase = "message"
         /\ src.open # TRUE /\ e.ix = Len(src.blocks)
         /\ next.open = TRUE /\ Len(next.blocks) = Len(src.blocks) + 1
    /\ e.t \in {"content_block_delta", "signature_delta"} =>
         /\ src.phase = "message" /\ next.phase = "message" /\ next.open = src.open
         /\ Len(next.blocks) = Len(src.blocks)
    /\ e.t = "content_block_stop" =>
         src.phase = "message" /\ next.phase = "message" /\ e.ix = Len(src.blocks) - 1
    /\ e.t = "message_delta" => src.phase = "message" /\ next.phase = "delta"
    /\ e.t = "message_stop" => src.phase = "delta" /\ next.phase = "end"

LEMMA MessageGrows ==
    ASSUME NEW src, IsMessage(src), NEW e, e.t \in ClaudeKinds, e.t # "error",
           Claude!MayFollow(src, e), NEW next, next = Claude!Follow(src, e)
    PROVE  MessageStep(src, e, next)
  <1>1. Len(src.blocks) \in Nat /\ DOMAIN src.blocks = 1 .. Len(src.blocks)
    BY SeqFacts DEF IsMessage
  <1>2. CASE e.t \in {"message_start", "message_stop"}
    <2>1. next.blocks = src.blocks /\ next.open = src.open /\ DOMAIN next = MessageFields
      BY <1>2, Zenon DEF IsMessage, MessageFields, Claude!Follow
    <2>2. e.t = "message_start" => src.phase = "before" /\ next.phase = "message"
      BY DEF IsMessage, MessageFields, Claude!Follow, Claude!MayFollow
    <2>3. e.t = "message_stop" => src.phase = "delta" /\ next.phase = "end"
      BY DEF IsMessage, MessageFields, Claude!Follow, Claude!MayFollow
    <2>4. IsMessage(next)
      BY <2>1 DEF IsMessage
    <2>5. QED
      BY <1>2, <2>2, <2>3, <2>4, Zenon DEF MessageStep
  <1>3. CASE e.t = "message_delta"
    <2>1. /\ next.blocks = src.blocks /\ next.open = src.open /\ DOMAIN next = MessageFields
          /\ next.phase = "delta"
      BY <1>3, Zenon DEF IsMessage, MessageFields, Claude!Follow
    <2>2. src.phase = "message"
      BY <1>3 DEF Claude!MayFollow
    <2>3. IsMessage(next)
      BY <2>1 DEF IsMessage
    <2>4. QED
      BY <1>3, <2>1, <2>2, <2>3 DEF MessageStep
  <1>4. CASE e.t = "content_block_start"
    <2> DEFINE b == Claude!Block(e.kind, e.of, <<>>)
    <2>1. src.phase = "message" /\ ~src.open /\ e.ix = Len(src.blocks)
      BY <1>4, Zenon DEF Claude!MayFollow
    <2>2. src.open # TRUE
      BY <2>1, Zenon
    <2>3. next = [src EXCEPT !.blocks = Append(@, b), !.open = TRUE]
      BY <1>4, Zenon DEF Claude!Follow
    <2> HIDE DEF b
    <2>4. /\ DOMAIN next = MessageFields /\ next.phase = src.phase /\ next.open = TRUE
          /\ next.blocks = Append(src.blocks, b)
      BY <2>3 DEF IsMessage, MessageFields
    <2>5. IsSeq(next.blocks) /\ Len(next.blocks) = Len(src.blocks) + 1
      <3>1. IsSeq(src.blocks)
        BY DEF IsMessage
      <3>2. IsSeq(Append(src.blocks, b)) /\ Len(Append(src.blocks, b)) = Len(src.blocks) + 1
        BY <3>1, Longer
      <3>3. QED
        BY <2>4, <3>2
    <2>6. IsMessage(next)
      BY <1>1, <2>4, <2>5 DEF IsMessage
    <2>7. QED
      BY <1>4, <2>1, <2>2, <2>4, <2>5, <2>6, Zenon DEF MessageStep
  <1>5. CASE e.t \in {"content_block_delta", "signature_delta"}
    <2>1. Claude!InBlock(src, e.ix)
      BY <1>5, Zenon DEF Claude!MayFollow
    <2>2. src.phase = "message" /\ src.open
      BY <2>1, Zenon DEF Claude!InBlock
    <2> DEFINE n == Len(src.blocks)
    <2>3. PICK b : next = [src EXCEPT !.blocks = [src.blocks EXCEPT ![n] = b]]
      BY <1>5, Zenon DEF Claude!Follow
    <2>4. n \in DOMAIN src.blocks
      BY <1>1, <2>2 DEF IsMessage
    <2>5. /\ DOMAIN next = MessageFields /\ next.phase = src.phase /\ next.open = src.open
          /\ next.blocks = [src.blocks EXCEPT ![n] = b]
      BY <2>3 DEF IsMessage, MessageFields
    <2>6. IsSeq(next.blocks) /\ Len(next.blocks) = Len(src.blocks)
      <3>1. IsSeq(src.blocks)
        BY DEF IsMessage
      <3> HIDE DEF n
      <3>2. IsSeq([src.blocks EXCEPT ![n] = b])
            /\ Len([src.blocks EXCEPT ![n] = b]) = Len(src.blocks)
        BY <2>4, <3>1, Changed
      <3>3. QED
        BY <2>5, <3>2
    <2>7. IsMessage(next)
      BY <2>5, <2>6 DEF IsMessage
    <2>8. QED
      BY <1>5, <2>2, <2>5, <2>6, <2>7 DEF MessageStep
  <1>6. CASE e.t = "content_block_stop"
    <2>1. Claude!InBlock(src, e.ix)
      BY <1>6, Zenon DEF Claude!MayFollow
    <2>2. src.phase = "message" /\ e.ix = Len(src.blocks) - 1
      BY <2>1, Zenon DEF Claude!InBlock
    <2>3. next = [src EXCEPT !.open = FALSE]
      BY <1>6, Zenon DEF Claude!Follow
    <2>4. /\ DOMAIN next = MessageFields /\ next.phase = src.phase /\ next.open = FALSE
          /\ next.blocks = src.blocks
      BY <2>3 DEF IsMessage, MessageFields
    <2>5. IsMessage(next)
      BY <2>4 DEF IsMessage
    <2>6. QED
      BY <1>6, <2>2, <2>4, <2>5 DEF MessageStep
  <1>7. QED
    BY <1>2, <1>3, <1>4, <1>5, <1>6 DEF ClaudeKinds

\* The translator of Claude's messages in step with what came and with its client.
MessageInStep(st, m, src) ==
    /\ IsMessage(src) /\ src.phase \in {"before", "message", "delta"}
    /\ src.phase # "delta" => Gathers(st, m)
    /\ src.phase = "before" =>
         DOMAIN st.calls = {} /\ Len(ChatSoFar(m, st).calls) = 0
    /\ src.phase = "message" =>
         \/ DOMAIN st.calls = {}
         \/ src.open = TRUE /\ DOMAIN st.calls = {Len(src.blocks) - 1}
    /\ src.phase = "delta" =>
         DOMAIN st = GatherFields /\ IsSeq(st.out) /\ ChatSoFar(m, st).phase = "finished"

\* ConvertClaudeResponseToOpenAI keeps step with both.
LEMMA MessageTranslate ==
    ASSUME NEW st, NEW m, NEW src, MessageInStep([st EXCEPT !.out = <<>>], m, src),
           NEW e, e.t \in ClaudeKinds, e.t # "error",
           Claude!MayFollow(src, e), NEW next, next = Claude!Follow(src, e)
    PROVE  /\ IsSeq(ClaudeChat!Translate(st, e).out)
           /\ e.t # "message_stop" => MessageInStep(ClaudeChat!Translate(st, e), m, next)
           /\ e.t = "message_stop" => ChatSoFar(m, ClaudeChat!Translate(st, e)).phase # "wrong"
  <1> DEFINE s == [st EXCEPT !.out = <<>>]
             x == ClaudeChat!Translate(st, e)
  <1>1. MessageInStep(s, m, src)
    OBVIOUS
  <1> HIDE DEF s
  <1>a. MessageStep(src, e, next)
    <2>1. IsMessage(src)
      BY <1>1 DEF MessageInStep
    <2>2. QED
      BY <2>1, MessageGrows
  <1>2. /\ IsMessage(next)
        /\ e.t = "message_start" => src.phase = "before" /\ next.phase = "message"
        /\ e.t = "content_block_start" =>
             /\ src.phase = "message" /\ next.phase = "message"
             /\ src.open # TRUE /\ e.ix = Len(src.blocks)
             /\ next.open = TRUE /\ Len(next.blocks) = Len(src.blocks) + 1
        /\ e.t \in {"content_block_delta", "signature_delta"} =>
             /\ src.phase = "message" /\ next.phase = "message" /\ next.open = src.open
             /\ Len(next.blocks) = Len(src.blocks)
        /\ e.t = "content_block_stop" =>
             src.phase = "message" /\ next.phase = "message" /\ e.ix = Len(src.blocks) - 1
        /\ e.t = "message_delta" => src.phase = "message" /\ next.phase = "delta"
        /\ e.t = "message_stop" => src.phase = "delta" /\ next.phase = "end"
    BY <1>a, Zenon DEF MessageStep
  <1>3. Len(src.blocks) \in Nat
    BY <1>1, SeqFacts DEF MessageInStep, IsMessage
  <1>4. ASSUME NEW y, Gathers(y, m), next.phase = "message",
               \/ DOMAIN y.calls = {}
               \/ next.open = TRUE /\ DOMAIN y.calls = {Len(next.blocks) - 1}
        PROVE  IsSeq(y.out) /\ MessageInStep(y, m, next)
    BY <1>2, <1>4 DEF MessageInStep, Gathers
  <1>5. CASE e.t = "message_start"
    <2> DEFINE z == [s EXCEPT !.next = 0]
    <2>1. x = ClaudeChat!Emit(z, Chat!Chunk)
      BY <1>5, Zenon DEF ClaudeChat!Translate, s, ClaudeChat!Chunk, Chat!Chunk
    <2>2. Gathers(s, m) /\ DOMAIN s.calls = {} /\ Len(ChatSoFar(m, s).calls) = 0
      BY <1>1, <1>2, <1>5 DEF MessageInStep
    <2>3. /\ DOMAIN z = DOMAIN s /\ z.out = s.out /\ z.calls = s.calls /\ z.next = 0
      BY <2>2 DEF Gathers, GatherFields
    <2> HIDE DEF z, x
    <2>4. ChatSoFar(m, z) = ChatSoFar(m, s)
      BY <2>3 DEF ChatSoFar
    <2>5. Gathers(z, m)
      BY <2>2, <2>3, <2>4 DEF Gathers
    <2>6. IsContent(Chat!Chunk) /\ Unfinished(Chat!Chunk)
      BY ChatChunks
    <2>7. Gathers(x, m) /\ x.calls = z.calls
      BY <2>1, <2>5, <2>6, GatherContent
    <2>8. QED
      BY <1>2, <1>4, <1>5, <2>2, <2>3, <2>7, Zenon DEF x
  <1>6. CASE e.t = "content_block_start"
    <2>1. Gathers(s, m) /\ DOMAIN s.calls = {}
      BY <1>1, <1>2, <1>6, Zenon DEF MessageInStep
    <2>2. x = s \/ x = ClaudeChat!StartCall(s, e)
      BY <1>6, Zenon DEF ClaudeChat!Translate, s
    <2> HIDE DEF x
    <2>3. Gathers(x, m) /\ (DOMAIN x.calls = {} \/ DOMAIN x.calls = {e.ix})
      BY <2>1, <2>2, GatherStart
    <2>4. e.ix = Len(next.blocks) - 1
      BY <1>2, <1>3, <1>6
    <2>5. QED
      BY <1>2, <1>4, <1>6, <2>3, <2>4, Zenon DEF x
  <1>7. CASE e.t \in {"content_block_delta", "signature_delta"}
    <2>1. /\ Gathers(s, m)
          /\ \/ DOMAIN s.calls = {}
             \/ next.open = TRUE /\ DOMAIN s.calls = {Len(next.blocks) - 1}
      BY <1>1, <1>2, <1>7 DEF MessageInStep
    <2>2. \/ x = s
          \/ x = ClaudeChat!Emit(s, Chat!Text(e.body)) \/ x = ClaudeChat!Emit(s, Chat!Think(e.body))
          \/ e.ix \in DOMAIN s.calls /\ x = [s EXCEPT !.calls[e.ix].args = @ \o e.body]
      BY <1>7, Zenon DEF ClaudeChat!Translate, ClaudeChat!BlockPiece, s, ClaudeChat!Text,
             Chat!Text, ClaudeChat!Think, Chat!Think, ClaudeChat!Chunk, Chat!Chunk
    <2> HIDE DEF x
    <2>3. Gathers(x, m) /\ DOMAIN x.calls = DOMAIN s.calls
      <3> DEFINE text == Chat!Text(e.body)
                 think == Chat!Think(e.body)
      <3>1. /\ IsContent(text) /\ Unfinished(text)
            /\ IsContent(think) /\ Unfinished(think)
        BY ChatChunks
      <3> HIDE DEF text, think
      <3>2. /\ Gathers(ClaudeChat!Emit(s, text), m) /\ ClaudeChat!Emit(s, text).calls = s.calls
            /\ Gathers(ClaudeChat!Emit(s, think), m) /\ ClaudeChat!Emit(s, think).calls = s.calls
        BY <2>1, <3>1, GatherContent
      <3>3. ASSUME e.ix \in DOMAIN s.calls, x = [s EXCEPT !.calls[e.ix].args = @ \o e.body]
            PROVE  Gathers(x, m) /\ DOMAIN x.calls = DOMAIN s.calls
        BY <2>1, <3>3, GatherPiece, Zenon
      <3>4. QED
        BY <2>1, <2>2, <3>2, <3>3 DEF text, think
    <2>4. QED
      BY <1>2, <1>4, <1>7, <2>1, <2>3, Zenon DEF x
  <1>8. CASE e.t = "content_block_stop"
    <2>1. Gathers(s, m) /\ DOMAIN s.calls \subseteq {e.ix}
      BY <1>1, <1>2, <1>8 DEF MessageInStep
    <2>2. x = ClaudeChat!EndCall(s, e.ix)
      BY <1>8, Zenon DEF ClaudeChat!Translate, s
    <2> HIDE DEF x
    <2>3. Gathers(x, m) /\ DOMAIN x.calls = {}
      BY <2>1, <2>2, GatherEnd
    <2>4. QED
      BY <1>2, <1>4, <1>8, <2>3, Zenon DEF x
  <1>9. CASE e.t = "message_delta"
    <2> DEFINE f == [Chat!Finish(ClaudeChat!FinishReason(e.stop)) EXCEPT !.usage = TRUE]
               y == ClaudeChat!Emit(s, f)
    <2>1. x = [y EXCEPT !.finish = ClaudeChat!FinishReason(e.stop), !.usage = TRUE]
      BY <1>9, Zenon DEF ClaudeChat!Translate, ClaudeChat!EndKnown, s, ClaudeChat!Finish,
             Chat!Finish, ClaudeChat!Chunk, Chat!Chunk
    <2>2. IsContent(f) /\ f.finish = ClaudeChat!FinishReason(e.stop)
      BY ChatChunks
    <2>3. ~Unfinished(f)
      <3>1. ClaudeChat!FinishReason(e.stop) # ""
        BY Zenon DEF ClaudeChat!FinishReason
      <3> HIDE DEF f
      <3>2. QED
        BY <2>2, <3>1, Zenon DEF Unfinished
    <2> HIDE DEF f
    <2>4. Gathers(s, m)
      BY <1>1, <1>2, <1>9 DEF MessageInStep
    <2>5. DOMAIN x = GatherFields /\ x.out = Append(s.out, f)
      BY <2>1, <2>4 DEF Gathers, GatherFields, ClaudeChat!Emit
    <2> HIDE DEF x, y
    <2>6. IsSeq(x.out) /\ ChatSoFar(m, x) = Chat!Accept(ChatSoFar(m, s), f)
      <3>1. IsSeq(s.out)
        BY <2>4 DEF Gathers
      <3>2. QED
        <4>1. x.out = Append(s.out, f)
          BY <2>5
        <4>2. IsSeq(Append(s.out, f))
          BY <3>1, Longer
        <4>3. Chat!Receive(m, Append(s.out, f)) = Chat!Accept(Chat!Receive(m, s.out), f)
          BY <3>1, ChatReceive
        <4>4. QED
          BY <4>1, <4>2, <4>3 DEF ChatSoFar
    <2>7. ChatSoFar(m, x).phase = "finished"
      BY <2>2, <2>3, <2>4, <2>6, ChatContent, Zenon DEF Gathers, ChatOpen, IsContent
    <2>8. QED
      BY <1>2, <1>9, <2>5, <2>6, <2>7 DEF MessageInStep, x
  <1>10. CASE e.t = "message_stop"
    <2> DEFINE y == ClaudeChat!Emit(s, Chat!UsageOnly)
    <2>1. x = s \/ x = [y EXCEPT !.told = TRUE]
      BY <1>10, Zenon DEF ClaudeChat!Translate, ClaudeChat!UsageTold, s, ClaudeChat!UsageOnly,
             Chat!UsageOnly, ClaudeChat!Chunk, Chat!Chunk
    <2>2. DOMAIN s = GatherFields /\ IsSeq(s.out) /\ ChatSoFar(m, s).phase = "finished"
      BY <1>1, <1>2, <1>10 DEF MessageInStep
    <2>3. x.out = s.out \/ x.out = Append(s.out, Chat!UsageOnly)
      BY <2>1, <2>2, Zenon DEF GatherFields, ClaudeChat!Emit
    <2> HIDE DEF x, y
    <2>4. CASE x.out = s.out
      BY <1>10, <2>2, <2>4 DEF ChatSoFar, x
    <2>5. CASE x.out = Append(s.out, Chat!UsageOnly)
      <3>1. IsSeq(x.out) /\ ChatSoFar(m, x) = Chat!Accept(ChatSoFar(m, s), Chat!UsageOnly)
        BY <2>2, <2>5, ChatSaid, Zenon
      <3>2. Chat!UsageOnly.t = "chunk" /\ Chat!UsageOnly.choice = FALSE
        BY ChatChunks
      <3>3. Chat!Accept(ChatSoFar(m, s), Chat!UsageOnly) = ChatSoFar(m, s)
        BY <2>2, <3>2, Zenon DEF Chat!Accept, Chat!MayFollow, Chat!Follow
      <3>4. QED
        BY <1>10, <2>2, <3>1, <3>3 DEF x
    <2>6. QED
      BY <2>3, <2>4, <2>5
  <1>11. QED
    BY <1>5, <1>6, <1>7, <1>8, <1>9, <1>10 DEF ClaudeKinds

\* The blocks that call tools, and the calls that were begun for them.
Kinded(src) == \A i \in DOMAIN src.blocks : "kind" \in DOMAIN src.blocks[i]
Tools(src) == \E i \in DOMAIN src.blocks : src.blocks[i].kind = "tool_use"
Counted(st, src) == Tools(src) <=> st.next # 0

LEMMA ToolsGrow ==
    ASSUME NEW src, IsMessage(src), Kinded(src), NEW e, e.t \in ClaudeKinds, e.t # "error",
           Claude!MayFollow(src, e), NEW next, next = Claude!Follow(src, e)
    PROVE  /\ Kinded(next)
           /\ Tools(next) <=>
                Tools(src) \/ (e.t = "content_block_start" /\ e.kind = "tool_use")
           /\ next.stop = IF e.t = "message_delta" THEN e.stop ELSE src.stop
  <1>1. Len(src.blocks) \in Nat /\ DOMAIN src.blocks = 1 .. Len(src.blocks)
    BY SeqFacts DEF IsMessage
  <1>2. CASE e.t \in {"message_start", "message_delta", "message_stop", "content_block_stop"}
    <2>1. next.blocks = src.blocks
      BY <1>2, Zenon DEF IsMessage, MessageFields, Claude!Follow
    <2>2. next.stop = IF e.t = "message_delta" THEN e.stop ELSE src.stop
      BY <1>2 DEF IsMessage, MessageFields, Claude!Follow
    <2>3. QED
      BY <1>2, <2>1, <2>2 DEF Kinded, Tools
  <1>3. CASE e.t = "content_block_start"
    <2> DEFINE b == Claude!Block(e.kind, e.of, <<>>)
               n == Len(src.blocks)
    <2>1. next = [src EXCEPT !.blocks = Append(@, b), !.open = TRUE]
      BY <1>3, Zenon DEF Claude!Follow
    <2>2. "kind" \in DOMAIN b /\ b.kind = e.kind
      BY DEF Claude!Block
    <2> HIDE DEF b
    <2>3. next.blocks = Append(src.blocks, b) /\ next.stop = src.stop
      BY <2>1 DEF IsMessage, MessageFields
    <2>4. /\ DOMAIN next.blocks = 1 .. (n + 1) /\ next.blocks[n + 1] = b
          /\ \A i \in 1 .. n : next.blocks[i] = src.blocks[i]
      BY <2>3, Longer DEF IsMessage
    <2> HIDE DEF n
    <2>5. /\ \A i \in DOMAIN next.blocks : i \in DOMAIN src.blocks \/ i = n + 1
          /\ DOMAIN src.blocks \subseteq DOMAIN next.blocks
          /\ n + 1 \in DOMAIN next.blocks
          /\ \A i \in DOMAIN src.blocks : next.blocks[i] = src.blocks[i]
      BY <1>1, <2>4 DEF n
    <2>6. Kinded(next)
      BY <2>2, <2>4, <2>5, Zenon DEF Kinded
    <2>7. Tools(next) <=> Tools(src) \/ e.kind = "tool_use"
      BY <2>2, <2>4, <2>5, Zenon DEF Tools
    <2>8. QED
      BY <1>3, <2>3, <2>6, <2>7
  <1>4. CASE e.t \in {"content_block_delta", "signature_delta"}
    <2> DEFINE n == Len(src.blocks)
               old == src.blocks[n]
    <2>1. Claude!InBlock(src, e.ix)
      BY <1>4, Zenon DEF Claude!MayFollow
    <2>2. src.open
      BY <2>1, Zenon DEF Claude!InBlock
    <2>3. n \in DOMAIN src.blocks
      BY <1>1, <2>2 DEF IsMessage
    <2>4. \E b : /\ next = [src EXCEPT !.blocks = [src.blocks EXCEPT ![n] = b]]
                 /\ DOMAIN b = DOMAIN old
                 /\ "kind" \in DOMAIN old => b.kind = old.kind
      <3>1. CASE e.t = "content_block_delta"
        <4> DEFINE body == old.body \o e.body
                   b == [old EXCEPT !.body = body]
        <4>1. next = [src EXCEPT !.blocks = [src.blocks EXCEPT ![n] = b]]
          BY <3>1, Zenon DEF Claude!Follow
        <4> HIDE DEF body, n, old
        <4>2. DOMAIN b = DOMAIN old /\ ("kind" \in DOMAIN old => b.kind = old.kind)
          OBVIOUS
        <4> HIDE DEF b
        <4>3. QED
          BY <4>1, <4>2
      <3>2. CASE e.t = "signature_delta"
        <4> DEFINE b == [old EXCEPT !.signed = TRUE]
        <4>1. next = [src EXCEPT !.blocks = [src.blocks EXCEPT ![n] = b]]
          BY <3>2, Zenon DEF Claude!Follow
        <4> HIDE DEF n, old
        <4>2. DOMAIN b = DOMAIN old /\ ("kind" \in DOMAIN old => b.kind = old.kind)
          OBVIOUS
        <4> HIDE DEF b
        <4>3. QED
          BY <4>1, <4>2
      <3>3. QED
        BY <1>4, <3>1, <3>2
    <2> HIDE DEF n, old
    <2>5. PICK b : /\ next = [src EXCEPT !.blocks = [src.blocks EXCEPT ![n] = b]]
                   /\ DOMAIN b = DOMAIN old /\ ("kind" \in DOMAIN old => b.kind = old.kind)
      BY <2>4
    <2>6. /\ DOMAIN next.blocks = DOMAIN src.blocks /\ next.blocks[n] = b
          /\ \A i \in DOMAIN src.blocks : i # n => next.blocks[i] = src.blocks[i]
          /\ next.stop = src.stop
      BY <2>3, <2>5 DEF IsMessage, MessageFields
    <2>7. "kind" \in DOMAIN src.blocks[n] /\ src.blocks[n] = old
      BY <2>3 DEF Kinded, old
    <2>8. \A i \in DOMAIN src.blocks :
            "kind" \in DOMAIN next.blocks[i] /\ next.blocks[i].kind = src.blocks[i].kind
      <3>1. \A i \in DOMAIN src.blocks : i # n => "kind" \in DOMAIN next.blocks[i]
        BY <2>6 DEF Kinded
      <3>2. "kind" \in DOMAIN next.blocks[n] /\ next.blocks[n].kind = src.blocks[n].kind
        BY <2>5, <2>6, <2>7
      <3>3. QED
        BY <2>6, <3>1, <3>2
    <2>9. QED
      BY <1>4, <2>6, <2>8 DEF Kinded, Tools
  <1>5. QED
    BY <1>2, <1>3, <1>4 DEF ClaudeKinds

\* The client has calls exactly if the message has blocks that call tools, and its end
\* is the message's.
LEMMA MessageTold ==
    ASSUME NEW st, NEW m, NEW src, MessageInStep([st EXCEPT !.out = <<>>], m, src),
           Kinded(src), src.phase # "delta" => Counted([st EXCEPT !.out = <<>>], src),
           NEW e, e.t \in ClaudeKinds, e.t # "error",
           Claude!MayFollow(src, e), NEW next, next = Claude!Follow(src, e),
           NEW x, x = ClaudeChat!Translate(st, e)
    PROVE  /\ e.t \notin {"message_delta", "message_stop"} => Counted(x, next)
           /\ e.t = "message_delta" =>
                /\ HasCalls(ChatSoFar(m, x)) <=> Tools(next)
                /\ ChatSoFar(m, x).finish = ClaudeChat!FinishReason(next.stop)
           /\ e.t = "message_stop" => src.phase = "delta" /\ ChatSoFar(m, x) = m
  <1> DEFINE s == [st EXCEPT !.out = <<>>]
  <1>1. MessageInStep(s, m, src) /\ (src.phase # "delta" => Counted(s, src))
    OBVIOUS
  <1>2. s.out = <<>> \/ "out" \notin DOMAIN st
    OBVIOUS
  <1> HIDE DEF s
  <1>3. IsMessage(src) /\ MessageStep(src, e, next)
    <2>1. IsMessage(src)
      BY <1>1 DEF MessageInStep
    <2>2. QED
      BY <2>1, MessageGrows
  <1>4. /\ Tools(next) <=>
             Tools(src) \/ (e.t = "content_block_start" /\ e.kind = "tool_use")
        /\ e.t = "message_delta" => next.stop = e.stop
    BY <1>3, ToolsGrow
  <1>5. DOMAIN s = GatherFields
    BY <1>1 DEF MessageInStep, Gathers
  <1>6. CASE e.t = "message_start"
    <2>1. x.next = 0
      BY <1>5, <1>6, Zenon DEF ClaudeChat!Translate, ClaudeChat!Emit, s, GatherFields
    <2>2. s.next = 0 /\ src.phase = "before"
      BY <1>1, <1>3, <1>6 DEF MessageInStep, MessageStep, Gathers
    <2>3. QED
      BY <1>1, <1>4, <1>6, <2>1, <2>2 DEF Counted
  <1>7. CASE e.t = "content_block_start"
    <2>1. x = IF e.kind = "tool_use" THEN ClaudeChat!StartCall(s, e) ELSE s
      BY <1>7, Zenon DEF ClaudeChat!Translate, s
    <2>2. x.next = IF e.kind = "tool_use" THEN s.next + 1 ELSE s.next
      BY <1>5, <2>1 DEF ClaudeChat!StartCall, GatherFields
    <2>3. src.phase = "message" /\ Gathers(s, m)
      BY <1>1, <1>3, <1>7 DEF MessageInStep, MessageStep
    <2>4. s.next \in Nat
      <3>1. Len(ChatSoFar(m, s).calls) \in Nat
        BY <2>3, AllKnownFacts DEF Gathers, ChatOpen, ChatKnown
      <3>2. QED
        BY <2>3, <3>1 DEF Gathers
    <2>5. QED
      BY <1>1, <1>4, <1>7, <2>2, <2>3, <2>4 DEF Counted
  <1>8. CASE e.t \in {"content_block_delta", "signature_delta", "content_block_stop"}
    <2>1. x.next = s.next
      BY <1>5, <1>8 DEF ClaudeChat!Translate, ClaudeChat!BlockPiece, ClaudeChat!EndCall,
                        ClaudeChat!Emit, s, GatherFields
    <2>2. src.phase = "message"
      BY <1>3, <1>8 DEF MessageStep
    <2>3. QED
      BY <1>1, <1>4, <1>8, <2>1, <2>2 DEF Counted
  <1>9. CASE e.t = "message_delta"
    <2> DEFINE reason == ClaudeChat!FinishReason(e.stop)
               f == [Chat!Finish(reason) EXCEPT !.usage = TRUE]
               y == ClaudeChat!Emit(s, f)
               q == ChatSoFar(m, s)
    <2>1. x = [y EXCEPT !.finish = reason, !.usage = TRUE]
      BY <1>9, Zenon DEF ClaudeChat!Translate, ClaudeChat!EndKnown, s, ClaudeChat!Finish,
             Chat!Finish, ClaudeChat!Chunk, Chat!Chunk
    <2>2. IsContent(f) /\ f.finish = reason
      BY ChatChunks
    <2>3. reason # ""
      BY Zenon DEF ClaudeChat!FinishReason
    <2> HIDE DEF f, reason
    <2>4. ~Unfinished(f)
      BY <2>2, <2>3, Zenon DEF Unfinished
    <2>5. src.phase = "message" /\ ~src.open /\ Gathers(s, m)
      BY <1>1, <1>3, <1>9 DEF MessageInStep, MessageStep, Claude!MayFollow
    <2>6. s.next = Len(q.calls)
      BY <1>1, <2>5 DEF MessageInStep, Gathers
    <2>7. x.out = Append(s.out, f) /\ IsSeq(s.out)
      BY <1>5, <2>1, <2>5 DEF Gathers, GatherFields, ClaudeChat!Emit
    <2> HIDE DEF y
    <2>8. ChatSoFar(m, x) = Chat!Accept(q, f)
      BY <2>7, ChatSaid, Zenon
    <2>9. ChatKnown(q) /\ q.phase \in {"before", "message"}
      BY <2>5 DEF Gathers, ChatOpen
    <2>10. DOMAIN q.calls = 1 .. Len(q.calls) /\ Len(q.calls) \in Nat
      BY <2>9, AllKnownFacts DEF ChatKnown
    <2> HIDE DEF q
    <2>11. Chat!Accept(q, f).calls = q.calls /\ Chat!Accept(q, f).finish = f.finish
      <3>1. f.t = "chunk" /\ f.choice = TRUE /\ f.calls = <<>>
        BY <2>2 DEF IsContent
      <3>2. QED
        BY <2>4, <2>9, <3>1, ChatContent, Zenon
    <2>12. HasCalls(ChatSoFar(m, x)) <=> s.next # 0
      <3> DEFINE n == Len(q.calls)
      <3>1. ChatSoFar(m, x).calls = q.calls
        BY <2>8, <2>11
      <3>2. s.next = n /\ n \in Nat /\ DOMAIN ChatSoFar(m, x).calls = 1 .. n
        BY <2>6, <2>10, <3>1
      <3> HIDE DEF n
      <3>3. QED
        BY <3>2 DEF HasCalls
    <2>13. ChatSoFar(m, x).finish = ClaudeChat!FinishReason(next.stop)
      BY <1>4, <1>9, <2>2, <2>8, <2>11 DEF reason
    <2>14. QED
      BY <1>1, <1>4, <1>9, <2>5, <2>12, <2>13 DEF Counted
  <1>10. CASE e.t = "message_stop"
    <2> DEFINE y == ClaudeChat!Emit(s, Chat!UsageOnly)
               q == ChatSoFar(m, s)
    <2>1. x = s \/ x = [y EXCEPT !.told = TRUE]
      BY <1>10, Zenon DEF ClaudeChat!Translate, ClaudeChat!UsageTold, s, ClaudeChat!UsageOnly,
             Chat!UsageOnly, ClaudeChat!Chunk, Chat!Chunk
    <2>2. src.phase = "delta" /\ IsSeq(s.out) /\ q.phase = "finished"
      BY <1>1, <1>3, <1>10 DEF MessageInStep, MessageStep
    <2>3. x.out = s.out \/ x.out = Append(s.out, Chat!UsageOnly)
      BY <1>5, <2>1, Zenon DEF GatherFields, ClaudeChat!Emit
    <2> HIDE DEF y
    <2>4. q = m
      <3>1. s.out = <<>>
        BY <1>2, <1>5 DEF s, GatherFields
      <3> HIDE DEF q
      <3>2. QED
        BY <3>1, Nothing DEF q, ChatSoFar
    <2>5. ChatSoFar(m, x) = q
      <3>1. CASE x.out = s.out
        BY <3>1 DEF ChatSoFar
      <3>2. CASE x.out = Append(s.out, Chat!UsageOnly)
        <4>a. IsSeq(s.out)
          BY <2>2
        <4>1. ChatSoFar(m, x) = Chat!Accept(q, Chat!UsageOnly)
          BY <3>2, <4>a, ChatSaid, Zenon
        <4>2. Chat!UsageOnly.t = "chunk" /\ Chat!UsageOnly.choice = FALSE
          BY ChatChunks
        <4>3. QED
          BY <2>2, <4>1, <4>2, Zenon DEF Chat!Accept, Chat!MayFollow, Chat!Follow
      <3>3. QED
        BY <2>3, <3>1, <3>2
    <2>6. QED
      BY <1>10, <2>2, <2>4, <2>5
  <1>11. QED
    BY <1>6, <1>7, <1>8, <1>9, <1>10 DEF ClaudeKinds

-----------------------------------------------------------------------------
(***************************************************************************)
(* A client of Claude: between blocks, with n of them, or in the last one, *)
(* whose index is n, of a kind.                                            *)
(***************************************************************************)
ClaudeAccepts(m, e, with) == Claude!Accept(m, e)
ClaudeReceives == INSTANCE FoldFacts WITH Op <- ClaudeAccepts, Good <- Always
LEMMA ClaudeReceivesInduction == ClaudeReceives!Induction
  BY IndexInduction, Zenon DEF ClaudeReceives!Induction

LEMMA ClaudeReceive ==
    /\ \A m, out : out = <<>> => Claude!Receive(m, out) = m
    /\ \A m, out, e : IsSeq(out) =>
         Claude!Receive(m, Append(out, e)) = Claude!Accept(Claude!Receive(m, out), e)
  <1>1. \A m, out : Claude!Receive(m, out) = ClaudeReceives!Folded(0, m, out)
    BY DEF Claude!Receive, ClaudeReceives!Folded, ClaudeReceives!Part, ClaudeReceives!Table,
           ClaudeReceives!Top, ClaudeAccepts, Claude!FoldLeft, Claude!MapThenFoldSet, Claude!Max
  <1>2. \A m : ClaudeReceives!Folded(0, m, <<>>) = m
    BY ClaudeReceivesInduction, ClaudeReceives!FoldShort, Zenon
  <1>3. ASSUME NEW m, NEW out, NEW e, IsSeq(out)
        PROVE  ClaudeReceives!Folded(0, m, Append(out, e))
                 = Claude!Accept(ClaudeReceives!Folded(0, m, out), e)
    <2>1. PICK R : out \in Seq(R) /\ e \in R
      BY <1>3, SeqWith
    <2>2. QED
      BY <2>1, ClaudeReceivesInduction, ClaudeReceives!FoldAppend DEF ClaudeAccepts
  <1>4. QED
    BY <1>1, <1>2, <1>3

BlockFields == {"kind", "of", "body", "signed"}
Between(m, n) ==
    /\ DOMAIN m = MessageFields /\ m.phase = "message" /\ m.open = FALSE
    /\ IsSeq(m.blocks) /\ Len(m.blocks) = n
Within(m, n, kind) ==
    /\ DOMAIN m = MessageFields /\ m.phase = "message" /\ m.open = TRUE
    /\ IsSeq(m.blocks) /\ Len(m.blocks) = n + 1 /\ n \in Nat
    /\ DOMAIN m.blocks[n + 1] = BlockFields /\ m.blocks[n + 1].kind = kind

\* The events of a stream, by what they say.
Opens(e) == e.t = "message_start"
Begins(e, ix, kind) == e.t = "content_block_start" /\ e.ix = ix /\ e.kind = kind
Brings(e, ix, kind) == e.t = "content_block_delta" /\ e.ix = ix /\ e.kind = kind
Signs(e, ix) == e.t = "signature_delta" /\ e.ix = ix
Stops(e, ix) == e.t = "content_block_stop" /\ e.ix = ix
Concludes(e) == e.t = "message_delta"
Closes(e) == e.t = "message_stop"

LEMMA AcceptOpening ==
    ASSUME NEW m, DOMAIN m = MessageFields, m.phase = "before", m.open = FALSE, IsSeq(m.blocks),
           Len(m.blocks) = 0, NEW e, Opens(e)
    PROVE  Between(Claude!Accept(m, e), 0)
  <1> DEFINE x == Claude!Accept(m, e)
  <1>1. x = [m EXCEPT !.phase = "message"]
    BY DEF Claude!Accept, Claude!MayFollow, Claude!Follow, Opens
  <1> HIDE DEF x
  <1>2. QED
    BY <1>1 DEF Between, MessageFields, x

LEMMA AcceptBegin ==
    ASSUME NEW m, NEW n, Between(m, n), NEW e, NEW kind, Begins(e, n, kind)
    PROVE  Within(Claude!Accept(m, e), n, kind)
  <1> DEFINE x == Claude!Accept(m, e)
             b == Claude!Block(e.kind, e.of, <<>>)
  <1>1. m.phase = "message" /\ m.open = FALSE /\ e.ix = Len(m.blocks)
    BY DEF Between, Begins
  <1>2. Claude!MayFollow(m, e)
    BY <1>1, Zenon DEF Claude!MayFollow, Begins
  <1>3. x = [m EXCEPT !.blocks = Append(@, b), !.open = TRUE]
    BY <1>2, Zenon DEF Claude!Accept, Claude!Follow, Begins
  <1>4. DOMAIN b = BlockFields /\ b.kind = kind
    BY Zenon DEF Claude!Block, BlockFields, Begins
  <1> HIDE DEF x, b
  <1>5. /\ DOMAIN x = MessageFields /\ x.phase = "message" /\ x.open = TRUE
        /\ x.blocks = Append(m.blocks, b)
    BY <1>3 DEF Between, MessageFields
  <1>6. IsSeq(m.blocks) /\ Len(m.blocks) = n /\ n \in Nat
    BY SeqFacts DEF Between
  <1>7. IsSeq(x.blocks) /\ Len(x.blocks) = n + 1 /\ x.blocks[n + 1] = b
    <2>1. IsSeq(Append(m.blocks, b)) /\ Len(Append(m.blocks, b)) = n + 1
          /\ Append(m.blocks, b)[n + 1] = b
      BY <1>6, Longer
    <2>2. QED
      BY <1>5, <2>1
  <1>8. Within(x, n, kind)
    BY <1>4, <1>5, <1>6, <1>7 DEF Within
  <1>9. QED
    BY <1>8 DEF x

LEMMA WithinFacts ==
    ASSUME NEW m, NEW n, NEW kind, Within(m, n, kind)
    PROVE  /\ n \in Nat /\ Len(m.blocks) = n + 1 /\ n + 1 \in DOMAIN m.blocks
           /\ Claude!InBlock(m, n) /\ Claude!Last(m.blocks) = m.blocks[n + 1]
  <1>1. n \in Nat /\ Len(m.blocks) = n + 1 /\ DOMAIN m.blocks = 1 .. (n + 1)
    BY SeqFacts DEF Within
  <1>2. n = Len(m.blocks) - 1
    BY <1>1
  <1>3. m.phase = "message" /\ m.open = TRUE
    BY DEF Within
  <1>4. Claude!InBlock(m, n)
    BY <1>2, <1>3, Zenon DEF Claude!InBlock
  <1>5. Claude!Last(m.blocks) = m.blocks[n + 1]
    BY <1>1 DEF Claude!Last
  <1>6. n + 1 \in DOMAIN m.blocks
    BY <1>1
  <1>7. QED
    BY <1>1, <1>4, <1>5, <1>6

\* The last block changes, but not its kind.
LEMMA WithinKept ==
    ASSUME NEW m, NEW n, NEW kind, Within(m, n, kind),
           NEW b, DOMAIN b = BlockFields, b.kind = kind,
           NEW x, x = [m EXCEPT !.blocks = [m.blocks EXCEPT ![n + 1] = b]]
    PROVE  Within(x, n, kind)
  <1>1. n \in Nat /\ Len(m.blocks) = n + 1 /\ n + 1 \in DOMAIN m.blocks
    BY WithinFacts
  <1>2. DOMAIN m = MessageFields /\ m.phase = "message" /\ m.open = TRUE /\ IsSeq(m.blocks)
    BY DEF Within
  <1> DEFINE q == [m.blocks EXCEPT ![n + 1] = b]
  <1>3. /\ DOMAIN x = MessageFields /\ x.phase = "message" /\ x.open = TRUE
        /\ x.blocks = q
    BY <1>2 DEF MessageFields
  <1>4. q[n + 1] = b
    BY <1>1
  <1>5. IsSeq(q) /\ Len(q) = n + 1
    BY <1>1, <1>2, Changed
  <1> HIDE DEF q
  <1>6. QED
    BY <1>1, <1>3, <1>4, <1>5, Zenon DEF Within

LEMMA AcceptPiece ==
    ASSUME NEW m, NEW n, NEW kind, Within(m, n, kind), NEW e, Brings(e, n, kind)
    PROVE  Within(Claude!Accept(m, e), n, kind)
  <1> DEFINE x == Claude!Accept(m, e)
             d == m.blocks[n + 1]
             b == [d EXCEPT !.body = @ \o e.body]
  <1>1. DOMAIN d = BlockFields /\ d.kind = kind
    BY DEF Within
  <1>2. Claude!InBlock(m, n) /\ Claude!Last(m.blocks) = d /\ Len(m.blocks) = n + 1
    BY WithinFacts
  <1>3. DOMAIN b = BlockFields /\ b.kind = kind
    <2> HIDE DEF d
    <2>1. QED
      BY <1>1 DEF BlockFields
  <1>4. Claude!MayFollow(m, e)
    <2>1. Claude!InBlock(m, e.ix) /\ e.kind = Claude!Last(m.blocks).kind
      BY <1>1, <1>2, Zenon DEF Brings
    <2>2. QED
      BY <2>1, Zenon DEF Claude!MayFollow, Brings
  <1>5. x = [m EXCEPT !.blocks = [m.blocks EXCEPT ![n + 1] = b]]
    BY <1>2, <1>4, Zenon DEF Claude!Accept, Claude!Follow, Brings
  <1> HIDE DEF x, b, d
  <1>6. Within(x, n, kind)
    BY <1>3, <1>5, WithinKept
  <1>7. QED
    BY <1>6 DEF x

LEMMA AcceptSignature ==
    ASSUME NEW m, NEW n, Within(m, n, "thinking"), NEW e, Signs(e, n)
    PROVE  Within(Claude!Accept(m, e), n, "thinking")
  <1> DEFINE x == Claude!Accept(m, e)
             d == m.blocks[n + 1]
             b == [d EXCEPT !.signed = TRUE]
  <1>1. DOMAIN d = BlockFields /\ d.kind = "thinking"
    BY DEF Within
  <1>2. Claude!InBlock(m, n) /\ Claude!Last(m.blocks) = d /\ Len(m.blocks) = n + 1
    BY WithinFacts
  <1>3. DOMAIN b = BlockFields /\ b.kind = "thinking"
    <2> HIDE DEF d
    <2>1. QED
      BY <1>1 DEF BlockFields
  <1>4. Claude!MayFollow(m, e)
    <2>1. Claude!InBlock(m, e.ix) /\ Claude!Last(m.blocks).kind = "thinking"
      BY <1>1, <1>2, Zenon DEF Signs
    <2>2. QED
      BY <2>1, Zenon DEF Claude!MayFollow, Signs
  <1>5. x = [m EXCEPT !.blocks = [m.blocks EXCEPT ![n + 1] = b]]
    BY <1>2, <1>4, Zenon DEF Claude!Accept, Claude!Follow, Signs
  <1> HIDE DEF x, b, d
  <1>6. Within(x, n, "thinking")
    BY <1>3, <1>5, WithinKept
  <1>7. QED
    BY <1>6 DEF x

LEMMA AcceptStop ==
    ASSUME NEW m, NEW n, NEW kind, Within(m, n, kind), NEW e, Stops(e, n)
    PROVE  Between(Claude!Accept(m, e), n + 1)
  <1> DEFINE x == Claude!Accept(m, e)
  <1>1. Claude!InBlock(m, n) /\ Len(m.blocks) = n + 1
    BY WithinFacts
  <1>2. Claude!MayFollow(m, e)
    BY <1>1, Zenon DEF Claude!MayFollow, Stops
  <1>3. x = [m EXCEPT !.open = FALSE]
    BY <1>2, Zenon DEF Claude!Accept, Claude!Follow, Stops
  <1> HIDE DEF x
  <1>4. Between(x, n + 1)
    BY <1>1, <1>3 DEF Within, Between, MessageFields
  <1>5. QED
    BY <1>4 DEF x

LEMMA AcceptEnd ==
    ASSUME NEW m, NEW n, Between(m, n), NEW e, Concludes(e), NEW f, Closes(f)
    PROVE  Claude!Accept(Claude!Accept(m, e), f).phase = "end"
  <1> DEFINE x == Claude!Accept(m, e)
             y == Claude!Accept(x, f)
  <1>1. m.phase = "message" /\ m.open = FALSE /\ DOMAIN m = MessageFields
    BY DEF Between
  <1>2. Claude!MayFollow(m, e)
    BY <1>1, Zenon DEF Claude!MayFollow, Concludes
  <1>3. x = [m EXCEPT !.phase = "delta", !.stop = e.stop]
    BY <1>2, Zenon DEF Claude!Accept, Claude!Follow, Concludes
  <1> HIDE DEF x
  <1>4. x.phase = "delta" /\ DOMAIN x = MessageFields
    BY <1>1, <1>3 DEF MessageFields
  <1>5. y = [x EXCEPT !.phase = "end"]
    BY <1>4 DEF Claude!Accept, Claude!MayFollow, Claude!Follow, Closes
  <1>6. QED
    BY <1>4, <1>5 DEF x, MessageFields

(***************************************************************************)
(* The same of what a translator has written: a client m that gets out is  *)
(* between blocks, or in one.                                              *)
(***************************************************************************)
NoBlocks(m) ==
    /\ DOMAIN m = MessageFields /\ m.phase = "before" /\ m.open = FALSE
    /\ IsSeq(m.blocks) /\ Len(m.blocks) = 0
Unopened(m, out) == IsSeq(out) /\ NoBlocks(Claude!Receive(m, out))
Idle(m, out, n) == IsSeq(out) /\ Between(Claude!Receive(m, out), n)
Writing(m, out, n, kind) == IsSeq(out) /\ Within(Claude!Receive(m, out), n, kind)
Closed(m, out) == IsSeq(out) /\ Claude!Receive(m, out).phase = "end"

LEMMA WriteOpening ==
    \A m, out, e : Unopened(m, out) /\ Opens(e) => Idle(m, Append(out, e), 0)
  <1> SUFFICES ASSUME NEW m, NEW out, NEW e, Unopened(m, out), Opens(e)
               PROVE  Idle(m, Append(out, e), 0)
    OBVIOUS
  <1> DEFINE r == Claude!Receive(m, out)
  <1>1. Claude!Receive(m, Append(out, e)) = Claude!Accept(r, e) /\ IsSeq(Append(out, e))
    BY ClaudeReceive, Longer DEF Unopened
  <1>2. NoBlocks(r)
    BY DEF Unopened
  <1> HIDE DEF r
  <1>3. Between(Claude!Accept(r, e), 0)
    BY <1>2, AcceptOpening, Zenon DEF NoBlocks
  <1>4. QED
    BY <1>1, <1>3 DEF Idle

LEMMA WriteBegin ==
    \A m, out, n, kind, e : Idle(m, out, n) /\ Begins(e, n, kind) =>
      Writing(m, Append(out, e), n, kind)
  <1> SUFFICES ASSUME NEW m, NEW out, NEW n, NEW kind, NEW e, Idle(m, out, n), Begins(e, n, kind)
               PROVE  Writing(m, Append(out, e), n, kind)
    OBVIOUS
  <1> DEFINE r == Claude!Receive(m, out)
  <1>1. Claude!Receive(m, Append(out, e)) = Claude!Accept(r, e) /\ IsSeq(Append(out, e))
    BY ClaudeReceive, Longer DEF Idle
  <1>2. Between(r, n)
    BY DEF Idle
  <1> HIDE DEF r
  <1>3. Within(Claude!Accept(r, e), n, kind)
    BY <1>2, AcceptBegin
  <1>4. QED
    BY <1>1, <1>3 DEF Writing

LEMMA WritePiece ==
    \A m, out, n, kind, e :
      Writing(m, out, n, kind) /\ (Brings(e, n, kind) \/ (Signs(e, n) /\ kind = "thinking")) =>
        Writing(m, Append(out, e), n, kind)
  <1> SUFFICES ASSUME NEW m, NEW out, NEW n, NEW kind, NEW e, Writing(m, out, n, kind),
                      Brings(e, n, kind) \/ (Signs(e, n) /\ kind = "thinking")
               PROVE  Writing(m, Append(out, e), n, kind)
    OBVIOUS
  <1> DEFINE r == Claude!Receive(m, out)
  <1>1. Claude!Receive(m, Append(out, e)) = Claude!Accept(r, e) /\ IsSeq(Append(out, e))
    BY ClaudeReceive, Longer DEF Writing
  <1>2. Within(r, n, kind)
    BY DEF Writing
  <1> HIDE DEF r
  <1>3. Within(Claude!Accept(r, e), n, kind)
    BY <1>2, AcceptPiece, AcceptSignature
  <1>4. QED
    BY <1>1, <1>3 DEF Writing

LEMMA WriteStop ==
    \A m, out, n, kind, e : Writing(m, out, n, kind) /\ Stops(e, n) =>
      Idle(m, Append(out, e), n + 1)
  <1> SUFFICES ASSUME NEW m, NEW out, NEW n, NEW kind, NEW e, Writing(m, out, n, kind),
                      Stops(e, n)
               PROVE  Idle(m, Append(out, e), n + 1)
    OBVIOUS
  <1> DEFINE r == Claude!Receive(m, out)
  <1>1. Claude!Receive(m, Append(out, e)) = Claude!Accept(r, e) /\ IsSeq(Append(out, e))
    BY ClaudeReceive, Longer DEF Writing
  <1>2. Within(r, n, kind)
    BY DEF Writing
  <1> HIDE DEF r
  <1>3. Between(Claude!Accept(r, e), n + 1)
    BY <1>2, AcceptStop
  <1>4. QED
    BY <1>1, <1>3 DEF Idle

LEMMA WriteEnd ==
    \A m, out, n, e, f : Idle(m, out, n) /\ Concludes(e) /\ Closes(f) =>
      Closed(m, Append(Append(out, e), f))
  <1> SUFFICES ASSUME NEW m, NEW out, NEW n, NEW e, NEW f, Idle(m, out, n), Concludes(e),
                      Closes(f)
               PROVE  Closed(m, Append(Append(out, e), f))
    OBVIOUS
  <1> DEFINE r == Claude!Receive(m, out)
             o == Append(out, e)
  <1>1. Claude!Receive(m, o) = Claude!Accept(r, e) /\ IsSeq(o)
    BY ClaudeReceive, Longer DEF Idle
  <1>2. Between(r, n)
    BY DEF Idle
  <1> HIDE DEF r, o
  <1>3. Claude!Receive(m, Append(o, f)) = Claude!Accept(Claude!Receive(m, o), f)
        /\ IsSeq(Append(o, f))
    BY <1>1, ClaudeReceive, Longer
  <1>4. Claude!Accept(Claude!Accept(r, e), f).phase = "end"
    BY <1>2, AcceptEnd
  <1>5. QED
    BY <1>1, <1>3, <1>4 DEF Closed, o

-----------------------------------------------------------------------------
(***************************************************************************)
(* From chat to Claude: the translator knows which block its client has    *)
(* open, if any, and the number of the next one.                           *)
(***************************************************************************)
TellFields == {"started", "at", "next", "tool", "toolAt", "calls", "announced", "finish",
               "any", "held", "closed", "ended", "stopped", "out"}
Kinds == {"text", "thinking"}
\* Its calls are numbered, and it knows which have begun.
PendingFields == {"id", "name", "args", "begun"}
Numbered(calls) ==
    /\ IsFiniteSet(DOMAIN calls) /\ DOMAIN calls \subseteq Nat
    /\ \A c \in DOMAIN calls : DOMAIN calls[c] = PendingFields /\ calls[c].begun \in BOOLEAN
Shaped(st) ==
    /\ DOMAIN st = TellFields /\ DOMAIN st.at = Kinds
    /\ Numbered(st.calls) /\ IsSeq(st.held) /\ st.next \in Nat
Live(st) == st.started = TRUE /\ st.closed = FALSE /\ st.ended = FALSE /\ st.stopped = FALSE

\* No block is open; one of text or of thoughts is; that of a call is.
Unused(st) == \A kind \in Kinds : st.at[kind] = -1
Free(st, m) == Unused(st) /\ st.tool = -1 /\ Idle(m, st.out, st.next)
InContent(st, m, kind) ==
    /\ kind \in Kinds /\ st.tool = -1
    /\ st.next - 1 \in Nat /\ st.at[kind] = st.next - 1
    /\ \A other \in Kinds : other # kind => st.at[other] = -1
    /\ Writing(m, st.out, st.next - 1, kind)
InCall(st, m) ==
    /\ Unused(st) /\ st.tool \in DOMAIN st.calls /\ st.calls[st.tool].begun = TRUE
    /\ st.next - 1 \in Nat /\ st.toolAt = st.next - 1
    /\ Writing(m, st.out, st.toolAt, "tool_use")
Talks(st, m) == Free(st, m) \/ (\E kind \in Kinds : InContent(st, m, kind))
Talking(st, m) == Shaped(st) /\ (Talks(st, m) \/ InCall(st, m))

\* The events that it writes.
LEMMA TellEvents ==
    /\ Opens(ChatClaude!MessageStart)
    /\ \A ix, kind, of : Begins(ChatClaude!BlockStart(ix, kind, of), ix, kind)
    /\ \A ix, kind, body : Brings(ChatClaude!BlockDelta(ix, kind, body), ix, kind)
    /\ \A ix : Stops(ChatClaude!BlockStop(ix), ix)
    /\ \A stop : Concludes(ChatClaude!MessageDelta(stop))
    /\ Closes(ChatClaude!MessageStop)
  BY Zenon DEF Opens, Begins, Brings, Stops, Concludes, Closes, ChatClaude!MessageStart,
     ChatClaude!BlockStart, ChatClaude!BlockDelta, ChatClaude!BlockStop,
     ChatClaude!MessageDelta, ChatClaude!MessageStop

\* What blocks of text and thoughts leave alone.
Beside(x, st) ==
    /\ DOMAIN x = DOMAIN st
    /\ x.started = st.started /\ x.tool = st.tool /\ x.toolAt = st.toolAt
    /\ x.calls = st.calls /\ x.held = st.held
    /\ x.closed = st.closed /\ x.ended = st.ended /\ x.stopped = st.stopped

\* A block of text or of thoughts is stopped, if it is open.
LEMMA TellStop ==
    ASSUME NEW st, NEW m, Shaped(st), NEW kind \in Kinds, NEW x, x = ChatClaude!Stop(st, kind)
    PROVE  /\ st.at[kind] = -1 => x = st
           /\ InContent(st, m, kind) => Shaped(x) /\ Free(x, m) /\ Beside(x, st)
  <1>1. ASSUME st.at[kind] = -1 PROVE x = st
    BY <1>1 DEF ChatClaude!Stop, ChatClaude!None
  <1>2. ASSUME InContent(st, m, kind) PROVE Shaped(x) /\ Free(x, m) /\ Beside(x, st)
    <2> DEFINE e == ChatClaude!BlockStop(st.at[kind])
    <2>1. /\ st.at[kind] = st.next - 1 /\ st.next - 1 \in Nat /\ st.next \in Int
          /\ \A other \in Kinds : other # kind => st.at[other] = -1
          /\ Writing(m, st.out, st.next - 1, kind) /\ st.tool = -1
      BY <1>2 DEF InContent, Shaped
    <2>2. x = [[st EXCEPT !.out = Append(@, e)] EXCEPT !.at[kind] = -1]
      BY <2>1 DEF ChatClaude!Stop, ChatClaude!None, ChatClaude!Emit
    <2> HIDE DEF e
    <2>3. /\ DOMAIN x = TellFields /\ x.out = Append(st.out, e) /\ x.next = st.next
          /\ x.at = [st.at EXCEPT ![kind] = -1] /\ Beside(x, st)
      BY <2>2 DEF Shaped, TellFields, Beside
    <2>4. Unused(x)
      BY <2>1, <2>3 DEF Unused, Shaped
    <2>5. Idle(m, Append(st.out, e), st.next - 1 + 1)
      BY <2>1, TellEvents, WriteStop DEF e
    <2>6. Idle(m, x.out, x.next)
      BY <2>1, <2>3, <2>5
    <2>7. QED
      BY <2>1, <2>3, <2>4, <2>6 DEF Shaped, Free, Beside
  <1>3. QED
    BY <1>1, <1>2

\* Before the block of a call, the others are stopped.
LEMMA TellStops ==
    ASSUME NEW st, NEW m, Shaped(st),
           NEW x, x = ChatClaude!Stop(ChatClaude!Stop(st, "thinking"), "text")
    PROVE  /\ Unused(st) => x = st
           /\ Talks(st, m) => Shaped(x) /\ Free(x, m) /\ Beside(x, st)
  <1> DEFINE a == ChatClaude!Stop(st, "thinking")
  <1>1. "text" \in Kinds /\ "thinking" \in Kinds /\ "text" # "thinking"
    BY DEF Kinds
  <1>2. ASSUME Unused(st) PROVE x = st
    <2>1. a = st
      BY <1>1, <1>2, TellStop DEF Unused
    <2>2. QED
      BY <1>1, <1>2, <2>1, TellStop DEF Unused
  <1>3. CASE Free(st, m)
    BY <1>2, <1>3 DEF Free, Beside
  <1>4. CASE InContent(st, m, "thinking")
    <2>1. Shaped(a) /\ Free(a, m) /\ Beside(a, st)
      BY <1>1, <1>4, TellStop
    <2> HIDE DEF a
    <2>2. x = a
      BY <1>1, <2>1, TellStop, Zenon DEF Free, Unused, a
    <2>3. QED
      BY <1>4, <2>1, <2>2 DEF InContent, Unused
  <1>5. CASE InContent(st, m, "text")
    <2>1. a = st
      BY <1>1, <1>5, TellStop DEF InContent
    <2> HIDE DEF a
    <2>2. x = ChatClaude!Stop(st, "text")
      BY <2>1 DEF a
    <2>3. QED
      BY <1>1, <1>5, <2>2, TellStop DEF InContent, Unused
  <1>6. QED
    BY <1>2, <1>3, <1>4, <1>5 DEF Talks, Kinds

\* A block is started, if none is open.
LEMMA TellStart ==
    ASSUME NEW st, NEW m, Shaped(st), NEW kind \in Kinds, NEW x, x = ChatClaude!Start(st, kind),
           Free(st, m) \/ InContent(st, m, kind)
    PROVE  Shaped(x) /\ InContent(x, m, kind) /\ Beside(x, st)
  <1>1. CASE InContent(st, m, kind)
    <2>1. x = st
      BY <1>1 DEF InContent, ChatClaude!Start, ChatClaude!None
    <2>2. QED
      BY <1>1, <2>1 DEF Beside
  <1>2. CASE Free(st, m)
    <2> DEFINE e == ChatClaude!BlockStart(st.next, kind, 0)
               y == [[st EXCEPT !.out = Append(@, e)] EXCEPT !.at[kind] = st.next]
    <2>1. x = [y EXCEPT !.next = @ + 1]
      <3>1. st.at[kind] = -1
        BY <1>2 DEF Free, Unused
      <3>2. x = [[st EXCEPT !.out = Append(@, e)] EXCEPT !.at[kind] = st.next, !.next = @ + 1]
        BY <3>1 DEF ChatClaude!Start, ChatClaude!None, ChatClaude!Emit
      <3> HIDE DEF e
      <3>3. QED
        BY <3>2 DEF Shaped, TellFields
    <2> HIDE DEF e
    <2>2. /\ DOMAIN y = TellFields /\ y.out = Append(st.out, e) /\ y.next = st.next
          /\ y.at = [st.at EXCEPT ![kind] = st.next] /\ Beside(y, st)
      BY DEF Shaped, TellFields, Beside
    <2> HIDE DEF y
    <2>3. /\ DOMAIN x = TellFields /\ x.out = y.out /\ x.next = st.next + 1
          /\ x.at = y.at /\ Beside(x, st)
      BY <2>1, <2>2 DEF Shaped, TellFields, Beside
    <2>4. x.next - 1 = st.next /\ st.next \in Nat /\ x.next \in Nat
      BY <2>3 DEF Shaped
    <2>5. x.at[kind] = st.next /\ DOMAIN x.at = Kinds
          /\ \A other \in Kinds : other # kind => x.at[other] = -1
      BY <1>2, <2>2, <2>3 DEF Free, Unused, Shaped
    <2>6. Writing(m, Append(st.out, e), st.next, kind)
      BY <1>2, TellEvents, WriteBegin DEF Free, e
    <2>7. QED
      BY <1>2, <2>2, <2>3, <2>4, <2>5, <2>6 DEF Shaped, InContent, Free, Beside
  <1>3. QED
    BY <1>1, <1>2

SameFlags(x, st) ==
    /\ x.started = st.started /\ x.closed = st.closed
    /\ x.ended = st.ended /\ x.stopped = st.stopped

\* What is held back stays a sequence.
LEMMA TellHold ==
    \A held, kind, body : IsSeq(held) => IsSeq(ChatClaude!Hold(held, kind, body))
  <1> SUFFICES ASSUME NEW held, NEW kind, NEW body, IsSeq(held)
               PROVE  IsSeq(ChatClaude!Hold(held, kind, body))
    OBVIOUS
  <1>1. ASSUME held # <<>> PROVE IsSeq(ChatClaude!Front(held))
    <2>1. PICK R : held \in Seq(R)
      BY DEF IsSeq
    <2>2. SubSeq(held, 1, Len(held) - 1) \in Seq(R)
      BY <1>1, <2>1
    <2>3. QED
      BY <2>2, SomeSeq, Zenon DEF ChatClaude!Front
  <1>2. \A h : IsSeq(Append(held, h))
    BY Longer
  <1>3. \A h : held # <<>> => IsSeq(Append(ChatClaude!Front(held), h))
    BY <1>1, Longer
  <1>4. \E h : \/ ChatClaude!Hold(held, kind, body) = Append(held, h)
               \/ /\ held # <<>>
                  /\ ChatClaude!Hold(held, kind, body) = Append(ChatClaude!Front(held), h)
    BY Zenon DEF ChatClaude!Hold
  <1>5. QED
    BY <1>2, <1>3, <1>4, Zenon

\* Text and thoughts, whatever is open.
LEMMA TellContent ==
    ASSUME NEW st, NEW m, Talking(st, m), NEW kind \in Kinds, NEW other \in Kinds, kind # other,
           NEW body, NEW x, x = ChatClaude!Content(st, kind, other, body)
    PROVE  Talking(x, m) /\ SameFlags(x, st)
  <1>1. CASE body = <<>>
    <2>1. x = st
      BY <1>1, Zenon DEF ChatClaude!Content
    <2>2. QED
      BY <2>1 DEF SameFlags
  <1>2. CASE body # <<>> /\ InCall(st, m)
    <2>1. st.tool # -1
      BY <1>2 DEF InCall, Talking, Shaped, Numbered
    <2> DEFINE h == ChatClaude!Hold(st.held, kind, body)
               any == st.any \/ kind = "text"
    <2>2. x = [st EXCEPT !.any = any, !.held = h]
      BY <1>2, <2>1, Zenon DEF ChatClaude!Content, ChatClaude!None
    <2>3. IsSeq(h)
      BY TellHold DEF Talking, Shaped
    <2> HIDE DEF h, any
    <2>4. /\ DOMAIN x = DOMAIN st /\ x.at = st.at /\ x.next = st.next /\ x.tool = st.tool
          /\ x.toolAt = st.toolAt /\ x.calls = st.calls /\ x.out = st.out /\ x.held = h
          /\ SameFlags(x, st)
      BY <2>2 DEF Talking, Shaped, TellFields, SameFlags
    <2>5. Shaped(x)
      BY <2>3, <2>4 DEF Talking, Shaped
    <2>6. InCall(x, m)
      BY <1>2, <2>4 DEF InCall, Unused
    <2>7. QED
      BY <2>4, <2>5, <2>6 DEF Talking
  <1>3. CASE body # <<>> /\ Talks(st, m)
    <2>1. Shaped(st) /\ st.tool = -1
      BY <1>3 DEF Talking, Talks, Free, InContent
    <2> DEFINE a == ChatClaude!Stop(st, other)
               s == ChatClaude!Start(a, kind)
               e == ChatClaude!BlockDelta(s.at[kind], kind, body)
               any == s.any \/ kind = "text"
    <2>2. x = [[s EXCEPT !.out = Append(@, e)] EXCEPT !.any = any]
      <3>1. x = [ChatClaude!Emit(s, e) EXCEPT !.any = ChatClaude!Emit(s, e).any \/ kind = "text"]
        BY <1>3, <2>1, Zenon DEF ChatClaude!Content, ChatClaude!None
      <3> HIDE DEF s, e
      <3>2. QED
        BY <3>1 DEF ChatClaude!Emit
    <2>3. Shaped(a) /\ Beside(a, st) /\ (Free(a, m) \/ InContent(a, m, kind))
      <3>1. CASE Free(st, m)
        BY <2>1, <3>1, TellStop DEF Free, Unused, Beside
      <3>2. CASE InContent(st, m, kind)
        BY <2>1, <3>2, TellStop DEF InContent, Beside
      <3>3. CASE InContent(st, m, other)
        BY <2>1, <3>3, TellStop
      <3>4. \A k \in Kinds : k = kind \/ k = other
        BY DEF Kinds
      <3>5. QED
        BY <1>3, <3>1, <3>2, <3>3, <3>4 DEF Talks
    <2> HIDE DEF a
    <2>4. Shaped(s) /\ InContent(s, m, kind) /\ Beside(s, a)
      BY <2>3, TellStart
    <2> HIDE DEF s, any
    <2>5. Brings(e, s.at[kind], kind)
      BY TellEvents
    <2> HIDE DEF e
    <2>6. /\ DOMAIN x = DOMAIN s /\ x.at = s.at /\ x.next = s.next /\ x.tool = s.tool
          /\ x.calls = s.calls /\ x.held = s.held
          /\ x.out = Append(s.out, e) /\ SameFlags(x, s)
      BY <2>2, <2>4 DEF Shaped, TellFields, SameFlags
    <2>7. Writing(m, Append(s.out, e), s.next - 1, kind)
      <3>1. Writing(m, s.out, s.next - 1, kind) /\ Brings(e, s.next - 1, kind)
        BY <2>4, <2>5 DEF InContent
      <3>2. QED
        BY <3>1, WritePiece
    <2>8. InContent(x, m, kind)
      BY <2>4, <2>6, <2>7 DEF InContent
    <2>9. Shaped(x)
      BY <2>4, <2>6 DEF Shaped
    <2>10. QED
      BY <2>3, <2>4, <2>6, <2>8, <2>9 DEF Talking, Talks, SameFlags, Beside
  <1>4. QED
    BY <1>1, <1>2, <1>3 DEF Talking

\* The block of a call is started.
LEMMA TellStartCall ==
    ASSUME NEW st, NEW m, Shaped(st), Talks(st, m), NEW c \in DOMAIN st.calls,
           NEW x, x = ChatClaude!StartCall(st, c)
    PROVE  /\ Shaped(x) /\ InCall(x, m) /\ x.tool = c /\ SameFlags(x, st)
           /\ x.calls = [st.calls EXCEPT ![c].begun = TRUE]
  <1> DEFINE s == ChatClaude!Stop(ChatClaude!Stop(st, "thinking"), "text")
             e == ChatClaude!BlockStart(s.next, "tool_use", c)
             calls == [s.calls EXCEPT ![c].begun = TRUE]
  <1>1. Shaped(s) /\ Free(s, m) /\ Beside(s, st)
    BY TellStops
  <1>2. x = [[s EXCEPT !.out = Append(@, e)] EXCEPT !.next = @ + 1, !.calls[c].begun = TRUE,
                !.announced = TRUE, !.tool = c, !.toolAt = s.next]
    BY DEF ChatClaude!StartCall, ChatClaude!Emit
  <1> HIDE DEF s
  <1>3. Begins(e, s.next, "tool_use")
    BY TellEvents
  <1> HIDE DEF e
  <1>4. /\ DOMAIN x = TellFields /\ x.at = s.at /\ x.next = s.next + 1 /\ x.tool = c
        /\ x.toolAt = s.next /\ x.calls = calls /\ x.held = s.held /\ x.out = Append(s.out, e)
        /\ SameFlags(x, s)
    BY <1>1, <1>2 DEF Shaped, TellFields, SameFlags
  <1>5. /\ DOMAIN calls = DOMAIN s.calls /\ Numbered(calls) /\ calls[c].begun = TRUE
    BY <1>1, Zenon DEF Shaped, Beside, Numbered, PendingFields
  <1> HIDE DEF calls
  <1>6. s.next \in Nat /\ x.next - 1 = s.next /\ x.next \in Nat
    BY <1>1, <1>4 DEF Shaped
  <1>7. Writing(m, Append(s.out, e), s.next, "tool_use")
    <2>1. Idle(m, s.out, s.next)
      BY <1>1 DEF Free
    <2>2. QED
      BY <1>3, <2>1, WriteBegin
  <1>8. Shaped(x)
    BY <1>1, <1>4, <1>5, <1>6 DEF Shaped
  <1>9. InCall(x, m)
    BY <1>1, <1>4, <1>5, <1>6, <1>7 DEF InCall, Free, Unused, Beside
  <1>10. QED
    BY <1>1, <1>4, <1>8, <1>9 DEF calls, SameFlags, Beside

\* A piece of a call.
LEMMA TellPiece ==
    ASSUME NEW st, NEW m, Talking(st, m), NEW piece, piece.call \in Nat,
           NEW x, x = ChatClaude!CallPiece(st, piece)
    PROVE  Talking(x, m) /\ SameFlags(x, st)
  <1> DEFINE c == piece.call
             old == IF c \in DOMAIN st.calls THEN st.calls[c] ELSE ChatClaude!NewCall
             new == [old EXCEPT !.id = @ \/ piece.id, !.name = @ \/ piece.name,
                                !.args = @ \o piece.args]
             calls == ChatClaude!Put(st.calls, c, new)
             s == [st EXCEPT !.calls = ChatClaude!Put(@, c, new)]
  <1>1. x = s \/ (st.tool = -1 /\ x = ChatClaude!StartCall(s, c))
    BY Zenon DEF ChatClaude!CallPiece, ChatClaude!None
  <1>2. Numbered(st.calls) /\ Shaped(st)
    BY DEF Talking, Shaped
  <1>3. DOMAIN old = PendingFields /\ old.begun \in BOOLEAN
    <2>1. DOMAIN ChatClaude!NewCall = PendingFields /\ ChatClaude!NewCall.begun = FALSE
      BY DEF ChatClaude!NewCall, PendingFields
    <2>2. QED
      BY <1>2, <2>1, Zenon DEF Numbered
  <1>4. DOMAIN new = PendingFields /\ new.begun = old.begun
    <2> HIDE DEF old
    <2>1. QED
      BY <1>3 DEF PendingFields
  <1>5. c \in DOMAIN st.calls => new.begun = st.calls[c].begun
    BY <1>4
  <1>6. s = [st EXCEPT !.calls = calls]
    BY Zenon
  <1> HIDE DEF new, old, s
  <1>7. /\ DOMAIN calls = DOMAIN st.calls \union {c} /\ calls[c] = new
        /\ \A d \in DOMAIN st.calls : d # c => calls[d] = st.calls[d]
    BY DEF ChatClaude!Put
  <1> HIDE DEF calls
  <1>8. Numbered(calls)
    <2>1. IsFiniteSet(DOMAIN st.calls \union {c})
      BY <1>2, FS_AddElement, Zenon DEF Numbered
    <2>2. QED
      BY <1>2, <1>3, <1>4, <1>7, <2>1 DEF Numbered
  <1>9. /\ DOMAIN s = TellFields /\ s.calls = calls /\ s.at = st.at /\ s.next = st.next
        /\ s.tool = st.tool /\ s.toolAt = st.toolAt /\ s.held = st.held /\ s.out = st.out
        /\ SameFlags(s, st)
    BY <1>2, <1>6 DEF Shaped, TellFields, SameFlags
  <1>10. Shaped(s)
    BY <1>2, <1>8, <1>9 DEF Shaped
  <1>11. Talks(st, m) => Talks(s, m)
    BY <1>9 DEF Talks, Free, InContent, Unused
  <1>12. InCall(st, m) => InCall(s, m)
    BY <1>2, <1>5, <1>7, <1>9 DEF InCall, Unused
  <1>13. CASE x = s
    BY <1>9, <1>10, <1>11, <1>12, <1>13 DEF Talking
  <1>14. CASE st.tool = -1 /\ x = ChatClaude!StartCall(s, c)
    <2>1. Talks(st, m)
      BY <1>2, <1>14 DEF Talking, InCall, Numbered
    <2>2. c \in DOMAIN s.calls
      BY <1>7, <1>9
    <2>3. Shaped(x) /\ InCall(x, m) /\ SameFlags(x, s)
      BY <1>10, <1>11, <1>14, <2>1, <2>2, TellStartCall, Zenon
    <2>4. QED
      BY <1>9, <2>3 DEF Talking, SameFlags
  <1>15. QED
    BY <1>1, <1>13, <1>14

\* A call ends that is open, or one that never began.
MayEnd(st, m, c) ==
    /\ c \in DOMAIN st.calls
    /\ \/ InCall(st, m) /\ st.tool = c
       \/ Free(st, m) /\ st.calls[c].begun = FALSE

LEMMA TellEndCall ==
    ASSUME NEW st, NEW m, Shaped(st), NEW c, MayEnd(st, m, c),
           NEW x, x = ChatClaude!EndCall(st, c)
    PROVE  /\ Shaped(x) /\ Free(x, m) /\ SameFlags(x, st)
           /\ DOMAIN x.calls = DOMAIN st.calls
           /\ \A d \in DOMAIN st.calls : d # c => x.calls[d] = st.calls[d]
  <1>0. /\ c \in DOMAIN st.calls
        /\ \/ InCall(st, m) /\ st.tool = c
           \/ Free(st, m) /\ st.calls[c].begun = FALSE
    BY DEF MayEnd
  <1> DEFINE call == st.calls[c]
             s == IF call.begun THEN st ELSE ChatClaude!StartCall(st, c)
             e == ChatClaude!BlockDelta(s.toolAt, "tool_use", call.args)
             a == IF call.args = <<>> THEN s ELSE ChatClaude!Emit(s, e)
             f == ChatClaude!BlockStop(s.toolAt)
             y == [ChatClaude!Emit(a, f) EXCEPT !.tool = -1, !.toolAt = -1]
  <1>1. (x = st /\ ~call.begun) \/ x = y
    BY Zenon DEF ChatClaude!EndCall, ChatClaude!None
  <1>2. CASE x = st /\ ~call.begun
    <2>1. Free(st, m)
      BY <1>0, <1>2, Zenon DEF InCall
    <2>2. QED
      BY <1>2, <2>1 DEF SameFlags
  <1>3. CASE x = y
    <2>1. /\ Shaped(s) /\ InCall(s, m) /\ SameFlags(s, st)
          /\ DOMAIN s.calls = DOMAIN st.calls
          /\ \A d \in DOMAIN st.calls : d # c => s.calls[d] = st.calls[d]
      <3>1. CASE InCall(st, m) /\ st.tool = c
        <4>1. s = st
          BY <3>1, Zenon DEF InCall
        <4>2. QED
          BY <3>1, <4>1 DEF SameFlags
      <3>2. CASE Free(st, m) /\ st.calls[c].begun = FALSE
        <4>1. s = ChatClaude!StartCall(st, c)
          BY <3>2, Zenon
        <4> HIDE DEF s
        <4>2. /\ Shaped(s) /\ InCall(s, m) /\ SameFlags(s, st)
              /\ s.calls = [st.calls EXCEPT ![c].begun = TRUE]
          BY <1>0, <3>2, <4>1, TellStartCall DEF Talks
        <4>3. QED
          BY <4>2 DEF Shaped
      <3>3. QED
        BY <1>0, <3>1, <3>2, Zenon
    <2> HIDE DEF s
    <2>2. Brings(e, s.toolAt, "tool_use") /\ Stops(f, s.toolAt)
      BY TellEvents
    <2> HIDE DEF e, f
    <2>3. /\ DOMAIN a = TellFields /\ (a.out = s.out \/ a.out = Append(s.out, e))
          /\ a.at = s.at /\ a.next = s.next /\ a.calls = s.calls /\ a.held = s.held
          /\ SameFlags(a, s)
      BY <2>1 DEF Shaped, TellFields, SameFlags, ChatClaude!Emit
    <2> HIDE DEF a
    <2>4. /\ DOMAIN x = TellFields /\ x.out = Append(a.out, f) /\ x.at = s.at /\ x.next = s.next
          /\ x.calls = s.calls /\ x.held = s.held /\ x.tool = -1 /\ SameFlags(x, s)
      BY <1>3, <2>3 DEF TellFields, SameFlags, ChatClaude!Emit
    <2> HIDE DEF y
    <2>5. Shaped(x)
      BY <2>1, <2>4 DEF Shaped
    <2>6. /\ Writing(m, s.out, s.toolAt, "tool_use") /\ s.toolAt = s.next - 1 /\ s.next \in Nat
      BY <2>1 DEF InCall, Shaped
    <2>7. Writing(m, a.out, s.toolAt, "tool_use")
      BY <2>2, <2>3, <2>6, WritePiece, Zenon
    <2>8. Idle(m, Append(a.out, f), s.toolAt + 1)
      BY <2>2, <2>7, WriteStop
    <2>9. s.toolAt + 1 = s.next
      BY <2>6
    <2>10. Free(x, m)
      BY <2>1, <2>4, <2>8, <2>9 DEF Free, InCall, Unused
    <2>11. QED
      BY <2>1, <2>4, <2>5, <2>10 DEF SameFlags
  <1>4. QED
    BY <1>1, <1>2, <1>3

\* Numbers in their order: each of them once.
LEMMA RanksOfNumbers ==
    ASSUME NEW S, IsFiniteSet(S), S \subseteq Nat
    PROVE  \A i \in 1 .. Cardinality(S) : \E a \in S : Cardinality({b \in S : b < a}) = i - 1
  <1> DEFINE First(a) == {b \in S : b < a}
             n == Cardinality(S)
             rank == [a \in S |-> Cardinality(First(a)) + 1]
  <1>1. n \in Nat
    BY FS_CardinalityType
  <1>2. ASSUME NEW a \in S
        PROVE  /\ IsFiniteSet(First(a)) /\ Cardinality(First(a)) \in Nat
               /\ Cardinality(First(a)) < n
    <2>1. First(a) \subseteq S /\ a \notin First(a) /\ First(a) # S
      OBVIOUS
    <2> HIDE DEF First
    <2>2. QED
      BY <2>1, FS_Subset, FS_CardinalityType
  <1>3. ASSUME NEW a \in S, NEW b \in S, a < b
        PROVE  Cardinality(First(a)) < Cardinality(First(b))
    <2>1. a \in Nat /\ b \in Nat /\ \A c \in S : c \in Nat /\ (c < a => c < b)
      BY <1>3
    <2>2. a \in First(b) /\ a \notin First(a) /\ First(a) \subseteq First(b)
      <3>1. \A c : c \in First(a) <=> c \in S /\ c < a
        OBVIOUS
      <3>2. \A c : c \in First(b) <=> c \in S /\ c < b
        OBVIOUS
      <3>3. ~(a < a)
        BY <2>1
      <3> HIDE DEF First
      <3>4. a \in First(b)
        BY <1>3, <3>2
      <3>5. a \notin First(a)
        BY <3>1, <3>3
      <3>6. ASSUME NEW c \in First(a) PROVE c \in First(b)
        BY <2>1, <3>1, <3>2, <3>6, Zenon
      <3>7. QED
        BY <3>4, <3>5, <3>6, Zenon
    <2> HIDE DEF First
    <2>3. QED
      BY <1>2, <2>2, FS_Subset
  <1> HIDE DEF First
  <1>4. rank \in [S -> 1 .. n]
    BY <1>1, <1>2
  <1>5. \A a, b \in S : rank[a] = rank[b] => a = b
    <2>1. SUFFICES ASSUME NEW a \in S, NEW b \in S, a # b PROVE rank[a] # rank[b]
      OBVIOUS
    <2>2. a < b \/ b < a
      BY <2>1
    <2>3. QED
      BY <1>2, <1>3, <2>2
  <1>6. rank \in Injection(S, 1 .. n)
    BY <1>4, <1>5 DEF Injection, IsInjective
  <1>7. IsFiniteSet(1 .. n) /\ Cardinality(1 .. n) = n
    BY <1>1, FS_Interval
  <1>8. rank \in Surjection(S, 1 .. n)
    BY <1>6, <1>7, FS_Injection
  <1>9. \A i \in 1 .. n : \E a \in S : rank[a] = i
    BY <1>8, Zenon DEF Surjection
  <1>10. \A a \in S : \A i \in 1 .. n : rank[a] = i => Cardinality(First(a)) = i - 1
    BY <1>2
  <1>11. QED
    BY <1>9, <1>10 DEF First

ListOnce(l, S) ==
    /\ \E n \in Nat : DOMAIN l = 1 .. n
    /\ \A i \in DOMAIN l : l[i] \in S
    /\ \A i, j \in DOMAIN l : l[i] = l[j] => i = j

LEMMA TellOrder ==
    ASSUME NEW S, IsFiniteSet(S), S \subseteq Nat
    PROVE  ListOnce(ChatClaude!Ordered(S, <), S)
  <1> DEFINE n == Cardinality(S)
             l == ChatClaude!Ordered(S, <)
             Rank(a) == Cardinality({b \in S : b < a})
  <1>1. n \in Nat
    BY FS_CardinalityType
  <1>2. l = [i \in 1 .. n |-> CHOOSE a \in S : Rank(a) = i - 1]
    BY DEF ChatClaude!Ordered, ChatClaude!Cardinality, Cardinality
  <1>3. \A i \in 1 .. n : \E a \in S : Rank(a) = i - 1
    BY RanksOfNumbers, Zenon
  <1> HIDE DEF Rank, l, n
  <1>4. \A i \in 1 .. n : l[i] \in S /\ Rank(l[i]) = i - 1
    BY <1>2, <1>3
  <1>5. DOMAIN l = 1 .. n
    BY <1>2
  <1>6. ListOnce(l, S)
    BY <1>1, <1>4, <1>5 DEF ListOnce
  <1>7. QED
    BY <1>6, Zenon DEF l

\* The calls that are left when an answer ends begin and end one after the other.
EndCallStep(st, c, with) == ChatClaude!EndCall(st, c)
\* m is the client, first the state before, and left says which calls are still to end.
Leaves(x, aim) ==
    /\ Shaped(x) /\ Free(x, aim.m) /\ SameFlags(x, aim.first)
    /\ \A c \in aim.left : c \in DOMAIN x.calls /\ x.calls[c].begun = FALSE
RestFold == INSTANCE FoldFacts WITH Op <- EndCallStep, Good <- Leaves
LEMMA RestInduction == RestFold!Induction
  BY IndexInduction, Zenon DEF RestFold!Induction

LEMMA TellRest ==
    ASSUME NEW st, NEW m, Shaped(st), Free(st, m), NEW l,
           ListOnce(l, {c \in DOMAIN st.calls : st.calls[c].begun = FALSE}),
           NEW x, x = ChatClaude!FoldLeft(ChatClaude!EndCall, st, l)
    PROVE  Shaped(x) /\ Free(x, m) /\ SameFlags(x, st)
  <1> DEFINE S == {c \in DOMAIN st.calls : st.calls[c].begun = FALSE}
  <1>1. PICK n \in Nat : DOMAIN l = 1 .. n
    BY DEF ListOnce
  <1> DEFINE Left(k) == {l[j] : j \in k + 1 .. n}
             aims == [k \in 0 .. n |-> [m |-> m, first |-> st, left |-> Left(k)]]
  <1>2. x = RestFold!Folded(0, st, l)
    BY DEF RestFold!Folded, RestFold!Part, RestFold!Table, RestFold!Top, EndCallStep,
           ChatClaude!FoldLeft, ChatClaude!MapThenFoldSet, ChatClaude!Max
  <1>3. \A k \in 0 .. n : /\ aims[k].m = m /\ aims[k].first = st /\ aims[k].left = Left(k)
    OBVIOUS
  <1>4. \A k \in 1 .. n : /\ k - 1 \in 0 .. n /\ k \in 0 .. n /\ l[k] \in Left(k - 1)
                          /\ l[k] \notin Left(k) /\ Left(k) \subseteq Left(k - 1)
    <2> SUFFICES ASSUME NEW k \in 1 .. n
                 PROVE  /\ k - 1 \in 0 .. n /\ k \in 0 .. n /\ l[k] \in Left(k - 1)
                        /\ l[k] \notin Left(k) /\ Left(k) \subseteq Left(k - 1)
      OBVIOUS
    <2>1. k - 1 \in 0 .. n /\ k \in 0 .. n /\ k \in k - 1 + 1 .. n
      BY <1>1
    <2>2. \A j \in k + 1 .. n : j \in 1 .. n /\ j # k /\ j \in k - 1 + 1 .. n
      BY <1>1
    <2>3. l[k] \notin Left(k)
      BY <1>1, <2>2 DEF ListOnce
    <2>4. QED
      BY <2>1, <2>2, <2>3
  <1>5. Leaves(st, aims[0])
    <2>1. \A c \in Left(0) : c \in S
      BY <1>1 DEF ListOnce
    <2>2. 0 \in 0 .. n
      BY <1>1
    <2> HIDE DEF aims, Left
    <2>3. QED
      BY <1>3, <2>1, <2>2 DEF Leaves, SameFlags
  <1> HIDE DEF aims, Left, S
  <1>6. \A y : \A k \in 1 .. n : Leaves(y, aims[k - 1]) => Leaves(EndCallStep(y, l[k], 0), aims[k])
    <2> SUFFICES ASSUME NEW y, NEW k \in 1 .. n, Leaves(y, aims[k - 1])
                 PROVE  Leaves(EndCallStep(y, l[k], 0), aims[k])
      OBVIOUS
    <2>1. /\ Shaped(y) /\ Free(y, m) /\ SameFlags(y, st)
          /\ \A c \in Left(k - 1) : c \in DOMAIN y.calls /\ y.calls[c].begun = FALSE
      BY <1>3, <1>4 DEF Leaves
    <2> DEFINE z == EndCallStep(y, l[k], 0)
             c1 == l[k]
    <2>2. z = ChatClaude!EndCall(y, c1) /\ c1 \in DOMAIN y.calls
          /\ Free(y, m) /\ y.calls[c1].begun = FALSE
      BY <1>4, <2>1 DEF EndCallStep
    <2> HIDE DEF z, c1
    <2>3. /\ Shaped(z) /\ Free(z, m) /\ SameFlags(z, y)
          /\ DOMAIN z.calls = DOMAIN y.calls
          /\ \A d \in DOMAIN y.calls : d # c1 => z.calls[d] = y.calls[d]
      <3>1. MayEnd(y, m, c1)
        BY <2>2 DEF MayEnd
      <3>2. QED
        BY <2>1, <2>2, <3>1, TellEndCall
    <2>4. \A c \in Left(k) : c \in DOMAIN z.calls /\ z.calls[c].begun = FALSE
      BY <1>4, <2>1, <2>3 DEF c1
    <2>5. SameFlags(z, st)
      BY <2>1, <2>3 DEF SameFlags
    <2>6. Leaves(z, aims[k])
      BY <1>3, <1>4, <2>3, <2>4, <2>5 DEF Leaves
    <2>7. QED
      BY <2>6 DEF z
  <1>7. Leaves(RestFold!Folded(0, st, l), aims[n])
    BY <1>1, <1>5, <1>6, RestInduction, RestFold!FoldReaches
  <1>8. QED
    BY <1>1, <1>2, <1>3, <1>7 DEF Leaves

\* Three events one after the other.
LEMMA ThreeMore ==
    \A out, a, b, c : IsSeq(out) =>
      out \o <<a, b, c>> = Append(Append(Append(out, a), b), c)
  <1> SUFFICES ASSUME NEW out, NEW a, NEW b, NEW c, IsSeq(out)
               PROVE  out \o <<a, b, c>> = Append(Append(Append(out, a), b), c)
    BY Zenon
  <1> DEFINE R == {out[i] : i \in DOMAIN out} \union {a, b, c}
  <1>1. out \in Seq(R)
    <2>1. PICK S : out \in Seq(S)
      BY DEF IsSeq
    <2>2. \A i \in 1 .. Len(out) : out[i] \in R
      BY <2>1
    <2> HIDE DEF R
    <2>3. QED
      BY <2>1, <2>2
  <1>2. a \in R /\ b \in R /\ c \in R
    OBVIOUS
  <1> HIDE DEF R
  <1>3. <<a, b, c>> \in Seq(R)
    BY <1>2
  <1> DEFINE x == out \o <<a, b, c>>
             y == Append(Append(Append(out, a), b), c)
  <1>4. x \in Seq(R) /\ Len(x) = Len(out) + 3
    BY <1>1, <1>3
  <1>5. y \in Seq(R) /\ Len(y) = Len(out) + 3
    BY <1>1, <1>2
  <1>6. \A i \in 1 .. Len(out) + 3 : x[i] = y[i]
    BY <1>1, <1>2, <1>3
  <1> HIDE DEF x, y
  <1>7. x = y
    BY <1>4, <1>5, <1>6
  <1>8. QED
    BY <1>7 DEF x, y

\* What was held back is sent, block after block.
SendBlockStep(st, h, with) == ChatClaude!SendBlock(st, h)
\* m is the client and first the state before.
Sent(x, aim) ==
    /\ Shaped(x) /\ Free(x, aim.m) /\ SameFlags(x, aim.first) /\ x.held = aim.first.held
SendFold == INSTANCE FoldFacts WITH Op <- SendBlockStep, Good <- Sent
LEMMA SendInduction == SendFold!Induction
  BY IndexInduction, Zenon DEF SendFold!Induction

LEMMA TellSend ==
    ASSUME NEW st, NEW m, Shaped(st), Free(st, m), NEW h, NEW x, x = ChatClaude!SendBlock(st, h)
    PROVE  Shaped(x) /\ Free(x, m) /\ SameFlags(x, st) /\ x.held = st.held
  <1> DEFINE a == ChatClaude!BlockStart(st.next, h.kind, 0)
             b == ChatClaude!BlockDelta(st.next, h.kind, h.body)
             c == ChatClaude!BlockStop(st.next)
             o == st.out \o <<a, b, c>>
  <1>1. Begins(a, st.next, h.kind) /\ Brings(b, st.next, h.kind) /\ Stops(c, st.next)
    BY TellEvents
  <1>2. x = [st EXCEPT !.next = @ + 1, !.out = o]
    BY Zenon DEF ChatClaude!SendBlock
  <1> HIDE DEF a, b, c
  <1>3. Idle(m, st.out, st.next) /\ IsSeq(st.out)
    BY DEF Free, Idle
  <1>4. Writing(m, Append(st.out, a), st.next, h.kind)
    BY <1>1, <1>3, WriteBegin
  <1>5. Writing(m, Append(Append(st.out, a), b), st.next, h.kind)
    BY <1>1, <1>4, WritePiece
  <1>6. Idle(m, Append(Append(Append(st.out, a), b), c), st.next + 1)
    BY <1>1, <1>5, WriteStop
  <1>10. o = Append(Append(Append(st.out, a), b), c)
    BY <1>3, ThreeMore
  <1> HIDE DEF o
  <1>7. Idle(m, o, st.next + 1)
    BY <1>6, <1>10
  <1>8. /\ DOMAIN x = TellFields /\ x.out = o /\ x.next = st.next + 1 /\ x.at = st.at
        /\ x.tool = st.tool /\ x.calls = st.calls /\ x.held = st.held /\ SameFlags(x, st)
    BY <1>2 DEF Shaped, TellFields, SameFlags
  <1>9. QED
    BY <1>7, <1>8 DEF Shaped, Free, Unused

LEMMA TellRelease ==
    ASSUME NEW st, NEW m, Shaped(st), Free(st, m), NEW x, x = ChatClaude!Release(st)
    PROVE  Shaped(x) /\ Free(x, m) /\ SameFlags(x, st)
  <1> DEFINE y == ChatClaude!FoldLeft(ChatClaude!SendBlock, st, st.held)
             aim == [m |-> m, first |-> st]
             none == <<>>
  <1>1. x = [y EXCEPT !.held = none]
    BY DEF ChatClaude!Release
  <1>2. y = SendFold!Folded(0, st, st.held)
    BY DEF SendFold!Folded, SendFold!Part, SendFold!Table, SendFold!Top, SendBlockStep,
           ChatClaude!FoldLeft, ChatClaude!MapThenFoldSet, ChatClaude!Max
  <1> HIDE DEF y
  <1>3. aim.m = m /\ aim.first = st
    OBVIOUS
  <1> HIDE DEF aim
  <1>4. Sent(st, aim)
    BY <1>3 DEF Sent, SameFlags
  <1>5. \A z, h : Sent(z, aim) => Sent(SendBlockStep(z, h, 0), aim)
    <2> SUFFICES ASSUME NEW z, NEW h, Sent(z, aim) PROVE Sent(SendBlockStep(z, h, 0), aim)
      OBVIOUS
    <2>1. Shaped(z) /\ Free(z, m) /\ SameFlags(z, st) /\ z.held = st.held
      BY <1>3 DEF Sent
    <2> DEFINE w == ChatClaude!SendBlock(z, h)
    <2>2. Shaped(w) /\ Free(w, m) /\ SameFlags(w, z) /\ w.held = z.held
      BY <2>1, TellSend
    <2> HIDE DEF w
    <2>3. Sent(w, aim)
      BY <1>3, <2>1, <2>2 DEF Sent, SameFlags
    <2>4. QED
      BY <2>3 DEF w, SendBlockStep
  <1>6. \E n \in Nat : DOMAIN st.held = 1 .. n
    BY SeqFacts DEF Shaped
  <1>7. Sent(y, aim)
    <2>1. SendFold!Line(DOMAIN st.held)
      BY <1>6 DEF SendFold!Line
    <2> DEFINE z == SendFold!Folded(0, st, st.held)
    <2>2. Sent(z, aim)
      BY <1>4, <1>5, <2>1, SendInduction, SendFold!FoldKeeps
    <2> HIDE DEF z
    <2>3. y = z
      BY <1>2 DEF z
    <2>4. QED
      BY <2>2, <2>3
  <1>8. IsSeq(none)
    BY EmptyIsSeq
  <1> HIDE DEF none
  <1>9. Shaped(y) /\ Free(y, m) /\ SameFlags(y, st)
    BY <1>3, <1>7 DEF Sent
  <1>10. /\ DOMAIN x = TellFields /\ x.out = y.out /\ x.next = y.next /\ x.at = y.at
         /\ x.tool = y.tool /\ x.calls = y.calls /\ x.held = none /\ SameFlags(x, y)
    BY <1>1, <1>9 DEF Shaped, TellFields, SameFlags
  <1>11. QED
    BY <1>8, <1>9, <1>10 DEF Shaped, Free, Unused, SameFlags

\* All blocks are closed: afterwards none is open, and nothing of the others is left.
Shut(x, st) ==
    /\ x.started = st.started /\ x.closed = TRUE /\ x.ended = st.ended
    /\ x.stopped = st.stopped

LEMMA TellClose ==
    ASSUME NEW st, NEW m, Talking(st, m), st.closed = FALSE,
           NEW x, x = ChatClaude!CloseBlocks(st)
    PROVE  Shaped(x) /\ Free(x, m) /\ Shut(x, st)
  <1> DEFINE s == ChatClaude!Stop(ChatClaude!Stop(st, "thinking"), "text")
             a == IF s.tool = -1 THEN s ELSE ChatClaude!EndCall(s, s.tool)
             S == {c \in DOMAIN a.calls : ~a.calls[c].begun}
             rest == ChatClaude!Ordered(S, <)
             b == ChatClaude!FoldLeft(ChatClaude!EndCall, a, rest)
             d == [b EXCEPT !.closed = TRUE]
  <1>0. Shaped(st) /\ (Talks(st, m) \/ InCall(st, m))
    BY DEF Talking
  <1>1. Shaped(s) /\ (Free(s, m) \/ InCall(s, m)) /\ SameFlags(s, st)
    <2>1. CASE Talks(st, m)
      BY <1>0, <2>1, TellStops DEF Beside, SameFlags
    <2>2. CASE InCall(st, m)
      <3>1. s = st
        BY <1>0, <2>2, TellStops DEF InCall
      <3> HIDE DEF s
      <3>2. QED
        BY <1>0, <2>2, <3>1 DEF SameFlags
    <2>3. QED
      BY <1>0, <2>1, <2>2
  <1>2. x = ChatClaude!Release(d)
    <2>1. ~s.closed
      BY <1>1, Zenon DEF SameFlags
    <2>2. QED
      BY <2>1, Zenon DEF ChatClaude!CloseBlocks, ChatClaude!None
  <1> HIDE DEF s
  <1>3. Shaped(a) /\ Free(a, m) /\ SameFlags(a, s)
    <2>1. CASE Free(s, m)
      <3>1. a = s
        BY <2>1 DEF Free
      <3>2. QED
        BY <1>1, <2>1, <3>1 DEF SameFlags
    <2>2. CASE InCall(s, m)
      <3>1. s.tool # -1
        BY <1>1, <2>2 DEF InCall, Shaped, Numbered
      <3>2. a = ChatClaude!EndCall(s, s.tool)
        BY <3>1
      <3>3. MayEnd(s, m, s.tool)
        BY <2>2 DEF MayEnd, InCall
      <3> HIDE DEF a
      <3>4. QED
        BY <1>1, <3>2, <3>3, TellEndCall
    <2>3. QED
      BY <1>1, <2>1, <2>2
  <1> HIDE DEF a
  <1>4. S = {c \in DOMAIN a.calls : a.calls[c].begun = FALSE}
    <2>1. \A c \in DOMAIN a.calls : a.calls[c].begun \in BOOLEAN
      BY <1>3 DEF Shaped, Numbered
    <2>2. \A c \in DOMAIN a.calls : (~a.calls[c].begun) <=> (a.calls[c].begun = FALSE)
      BY <2>1
    <2>3. QED
      BY <2>2, Zenon
  <1>5. IsFiniteSet(S) /\ S \subseteq Nat
    <2>1. IsFiniteSet(DOMAIN a.calls) /\ DOMAIN a.calls \subseteq Nat /\ S \subseteq DOMAIN a.calls
      BY <1>3 DEF Shaped, Numbered
    <2> HIDE DEF S
    <2>2. QED
      BY <2>1, FS_Subset
  <1> HIDE DEF S
  <1>6. ListOnce(rest, S)
    BY <1>5, TellOrder, Zenon
  <1> HIDE DEF rest
  <1>7. Shaped(b) /\ Free(b, m) /\ SameFlags(b, a)
    BY <1>3, <1>4, <1>6, TellRest, Zenon
  <1> HIDE DEF b
  <1>8. /\ DOMAIN d = TellFields /\ d.out = b.out /\ d.next = b.next /\ d.at = b.at
        /\ d.tool = b.tool /\ d.calls = b.calls /\ d.held = b.held /\ Shut(d, b)
    BY <1>7 DEF Shaped, TellFields, Shut
  <1> HIDE DEF d
  <1>9. Shaped(d) /\ Free(d, m)
    BY <1>7, <1>8 DEF Shaped, Free, Unused
  <1>10. Shaped(x) /\ Free(x, m) /\ SameFlags(x, d)
    BY <1>2, <1>9, TellRelease
  <1>11. QED
    BY <1>1, <1>3, <1>7, <1>8, <1>10 DEF SameFlags, Shut

\* Once closed, closing changes nothing.
LEMMA TellCloseAgain ==
    ASSUME NEW st, Shaped(st), Unused(st), st.closed = TRUE
    PROVE  ChatClaude!CloseBlocks(st) = st
  <1> DEFINE s == ChatClaude!Stop(ChatClaude!Stop(st, "thinking"), "text")
  <1>1. s = st
    BY TellStops
  <1>2. s.closed => ChatClaude!CloseBlocks(st) = s
    BY Zenon DEF ChatClaude!CloseBlocks
  <1>3. QED
    BY <1>1, <1>2

\* The end: it is told once.
LEMMA TellEnd ==
    ASSUME NEW st, Shaped(st), NEW x, x = ChatClaude!End(st)
    PROVE  /\ \A m : Free(st, m) /\ st.ended = FALSE /\ st.stopped = FALSE =>
                /\ Shaped(x) /\ Unused(x) /\ x.tool = -1
                /\ x.closed = st.closed /\ x.ended = TRUE /\ x.stopped = TRUE
                /\ Closed(m, x.out)
           /\ st.ended = TRUE /\ st.stopped = TRUE => x = st
  <1> DEFINE s == IF st.ended THEN st
                  ELSE [ChatClaude!Emit(st, ChatClaude!MessageDelta(ChatClaude!StopReason(st)))
                          EXCEPT !.ended = TRUE]
  <1>1. x = IF s.stopped THEN s ELSE [ChatClaude!Emit(s, ChatClaude!MessageStop) EXCEPT !.stopped = TRUE]
    BY DEF ChatClaude!End
  <1>2. ASSUME st.ended = TRUE, st.stopped = TRUE PROVE x = st
    <2>1. s = st
      BY <1>2, Zenon
    <2> HIDE DEF s
    <2>2. QED
      BY <1>1, <1>2, <2>1, Zenon
  <1>3. ASSUME NEW m, Free(st, m), st.ended = FALSE, st.stopped = FALSE
        PROVE  /\ Shaped(x) /\ Unused(x) /\ x.tool = -1
               /\ x.closed = st.closed /\ x.ended = TRUE /\ x.stopped = TRUE
               /\ Closed(m, x.out)
    <2> DEFINE e == ChatClaude!MessageDelta(ChatClaude!StopReason(st))
               f == ChatClaude!MessageStop
               y == [ChatClaude!Emit(st, e) EXCEPT !.ended = TRUE]
               z == [ChatClaude!Emit(y, f) EXCEPT !.stopped = TRUE]
    <2>1. s = y
      BY <1>3, Zenon
    <2> HIDE DEF s
    <2>2. Concludes(e) /\ Closes(f)
      BY TellEvents
    <2> HIDE DEF e, f
    <2>3. /\ DOMAIN y = TellFields /\ y.out = Append(st.out, e) /\ y.at = st.at /\ y.next = st.next
          /\ y.tool = st.tool /\ y.calls = st.calls /\ y.held = st.held
          /\ y.closed = st.closed /\ y.ended = TRUE /\ y.stopped = st.stopped
      BY DEF Shaped, TellFields, ChatClaude!Emit
    <2> HIDE DEF y
    <2>4. x = z
      <3>1. y.stopped = FALSE
        BY <1>3, <2>3
      <3> HIDE DEF z
      <3>2. x = IF y.stopped THEN y ELSE z
        BY <1>1, <2>1 DEF z, f
      <3>3. QED
        BY <3>1, <3>2, Zenon
    <2>5. /\ DOMAIN z = TellFields /\ z.out = Append(y.out, f) /\ z.at = y.at /\ z.next = y.next
          /\ z.tool = y.tool /\ z.calls = y.calls /\ z.held = y.held
          /\ z.closed = y.closed /\ z.ended = TRUE /\ z.stopped = TRUE
      BY <2>3 DEF TellFields, ChatClaude!Emit
    <2> HIDE DEF z
    <2>6. Closed(m, z.out)
      <3>1. Idle(m, st.out, st.next)
        BY <1>3 DEF Free
      <3>2. QED
        BY <2>2, <2>3, <2>5, <3>1, WriteEnd
    <2>7. Shaped(x) /\ Unused(x)
      BY <1>3, <2>3, <2>4, <2>5 DEF Shaped, Free, Unused
    <2>8. QED
      BY <1>3, <2>3, <2>4, <2>5, <2>6, <2>7 DEF Free
  <1>4. QED
    BY <1>2, <1>3, Zenon

\* The chunks of an upstream, and what a client of it would have.
IsChoice(e) ==
    /\ e.t = "chunk" /\ e.choice = TRUE /\ e.delta = TRUE
    /\ e.usage \in BOOLEAN /\ (e.usage = TRUE => ~Unfinished(e))
    /\ e.calls = <<>> \/ \E p : e.calls = <<p>>
IsUsage(e) ==
    /\ e.t = "chunk" /\ e.choice = FALSE /\ e.delta = FALSE /\ e.usage = TRUE /\ Unfinished(e)
    /\ e.calls = <<>>
IsCompletion(src) ==
    DOMAIN src = {"phase", "text", "think", "calls", "finish"} /\ IsSeq(src.calls)
\* The calls a chunk has pieces of are numbered.
PiecesCount(e) == e.calls = <<>> \/ \E p : e.calls = <<p>> /\ p.call \in Nat

LEMMA ChunkShapes ==
    \A e : IsChoice(e) \/ IsUsage(e) => IsChunk(e)
  <1> SUFFICES ASSUME NEW e, IsChoice(e) \/ IsUsage(e) PROVE IsChunk(e)
    OBVIOUS
  <1>1. \A q : q = <<>> => DOMAIN q = 1 .. 0
    OBVIOUS
  <1>2. \A q, p : q = <<p>> => DOMAIN q = 1 .. 1
    OBVIOUS
  <1>3. e.t = "chunk" /\ (e.calls = <<>> \/ \E p : e.calls = <<p>>)
    BY Zenon DEF IsChoice, IsUsage
  <1>4. 0 \in Nat /\ 1 \in Nat
    OBVIOUS
  <1>5. QED
    BY <1>1, <1>2, <1>3, <1>4, Zenon DEF IsChunk

LEMMA ChoiceStep ==
    ASSUME NEW src, IsCompletion(src), NEW e, IsChoice(e), Chat!MayFollow(src, e),
           NEW next, next = Chat!Follow(src, e)
    PROVE  /\ IsCompletion(next) /\ PiecesCount(e)
           /\ src.phase \in {"before", "message"}
           /\ next.phase = IF Unfinished(e) THEN "message" ELSE "finished"
  <1> DEFINE s == [src EXCEPT !.phase = "message", !.text = @ \o e.text,
                              !.think = @ \o e.think]
             t == Chat!Take(src, e)
  <1>1. src.phase \in {"before", "message"} /\ t.phase # "wrong"
    BY Zenon DEF Chat!MayFollow, IsChoice
  <1>2. next = IF Unfinished(e) THEN t ELSE [t EXCEPT !.phase = "finished", !.finish = e.finish]
    BY Zenon DEF Chat!Follow, IsChoice, Unfinished
  <1>3. DOMAIN s = DOMAIN src /\ s.phase = "message" /\ s.calls = src.calls
    BY DEF IsCompletion
  <1>4. t = Chat!FoldLeft(Chat!TakePiece, s, e.calls)
    BY DEF Chat!Take
  <1> HIDE DEF s, t
  <1>5. IsCompletion(t) /\ t.phase = "message" /\ PiecesCount(e)
    <2>1. CASE e.calls = <<>>
      <3>1. t = s
        BY <1>4, <2>1, ChatTake, Zenon
      <3>2. QED
        BY <1>3, <2>1, <3>1 DEF IsCompletion, PiecesCount
    <2>2. ASSUME NEW p, e.calls = <<p>>
          PROVE  IsCompletion(t) /\ t.phase = "message" /\ PiecesCount(e)
      <3> DEFINE a == Chat!Add(s, p)
                 n == Len(s.calls)
                 w == [s EXCEPT !.phase = "wrong"]
      <3>1. t = IF Chat!MayAdd(s, p) THEN a ELSE w
        BY <1>4, <2>2, ChatTake, Zenon DEF Chat!TakePiece
      <3>2. w.phase = "wrong"
        BY <1>3 DEF IsCompletion
      <3> HIDE DEF w
      <3>3. Chat!MayAdd(s, p) /\ t = a
        BY <1>1, <3>1, <3>2
      <3>4. IsSeq(s.calls) /\ n \in Nat /\ DOMAIN s.calls = 1 .. n
        BY <1>3, SeqFacts DEF IsCompletion
      <3>5. p.call = n \/ (p.call # n /\ p.call \in 0 .. n - 1)
        BY <3>3, Zenon DEF Chat!MayAdd
      <3> HIDE DEF a
      <3>6. p.call \in Nat
        BY <3>4, <3>5
      <3>7. IsCompletion(a) /\ a.phase = "message"
        <4>1. CASE p.call = n
          <5> DEFINE c == [of |-> p.of, id |-> p.id, name |-> p.name, args |-> p.args]
          <5>1. a = [s EXCEPT !.calls = Append(@, c)]
            BY <4>1, Zenon DEF Chat!Add, a
          <5> HIDE DEF c
          <5>2. IsSeq(Append(s.calls, c))
            BY <3>4, Longer
          <5>3. DOMAIN a = DOMAIN s /\ a.phase = "message" /\ a.calls = Append(s.calls, c)
            BY <1>3, <5>1 DEF IsCompletion
          <5>4. QED
            BY <1>3, <5>2, <5>3 DEF IsCompletion
        <4>2. CASE p.call # n /\ p.call \in 0 .. n - 1
          <5> DEFINE k == p.call + 1
                     b == Chat!Grown(s.calls[k], p)
          <5>1. a = [s EXCEPT !.calls[k] = b]
            BY <4>2, Zenon DEF Chat!Add, a
          <5>2. k \in DOMAIN s.calls
            BY <3>4, <4>2
          <5> HIDE DEF k, b
          <5>3. IsSeq([s.calls EXCEPT ![k] = b])
            BY <3>4, <5>2, Changed
          <5>4. DOMAIN a = DOMAIN s /\ a.phase = "message" /\ a.calls = [s.calls EXCEPT ![k] = b]
            BY <1>3, <5>1 DEF IsCompletion
          <5>5. QED
            BY <1>3, <5>3, <5>4 DEF IsCompletion
        <4>3. QED
          BY <3>5, <4>1, <4>2
      <3>8. QED
        BY <2>2, <3>3, <3>6, <3>7 DEF PiecesCount
    <2>3. QED
      BY <2>1, <2>2 DEF IsChoice
  <1>6. QED
    BY <1>1, <1>2, <1>5 DEF IsCompletion

-----------------------------------------------------------------------------
\* The translator and its client, with what the upstream has sent: before the first
\* chunk, until the reason to finish, and after it.
Waiting(st, m) ==
    /\ Unused(st) /\ st.tool = -1 /\ st.next = 0 /\ Unopened(m, st.out)
    /\ st.started = FALSE /\ st.closed = FALSE /\ st.ended = FALSE /\ st.stopped = FALSE
Finished(st, m) ==
    /\ Unused(st) /\ st.closed = TRUE
    /\ \/ Free(st, m) /\ st.ended = FALSE /\ st.stopped = FALSE
       \/ Closed(m, st.out) /\ st.ended = TRUE /\ st.stopped = TRUE
TellInStep(st, m, src) ==
    /\ IsCompletion(src) /\ Shaped(st)
    /\ src.phase \in {"before", "message", "finished"}
    /\ src.phase = "before" => Waiting(st, m)
    /\ src.phase = "message" => Live(st) /\ Talking(st, m)
    /\ src.phase = "finished" => Finished(st, m)

PieceOfCall(st, piece, with) == ChatClaude!CallPiece(st, piece)
TellPieces == INSTANCE FoldFacts WITH Op <- PieceOfCall, Good <- Always
LEMMA TellPiecesInduction == TellPieces!Induction
  BY IndexInduction, Zenon DEF TellPieces!Induction

\* The delta of a choice.
LEMMA TellDelta ==
    ASSUME NEW st, NEW m, Shaped(st), Waiting(st, m) \/ (Live(st) /\ Talking(st, m)),
           NEW e, IsChoice(e), PiecesCount(e), NEW x, x = ChatClaude!Delta(st, e)
    PROVE  Live(x) /\ Talking(x, m)
  <1> DEFINE s == IF st.started THEN st
                  ELSE [ChatClaude!Emit(st, ChatClaude!MessageStart) EXCEPT !.started = TRUE]
             a == ChatClaude!Content(s, "thinking", "text", e.think)
             b == ChatClaude!Content(a, "text", "thinking", e.text)
  <1>1. x = ChatClaude!FoldLeft(ChatClaude!CallPiece, b, e.calls)
    BY Zenon DEF ChatClaude!Delta, IsChoice
  <1>2. Live(s) /\ Talking(s, m)
    <2>1. CASE Live(st) /\ Talking(st, m)
      <3>1. s = st
        BY <2>1, Zenon DEF Live
      <3>2. QED
        BY <2>1, <3>1
    <2>2. CASE Waiting(st, m)
      <3> DEFINE f == ChatClaude!MessageStart
                 y == [ChatClaude!Emit(st, f) EXCEPT !.started = TRUE]
      <3>1. s = y
        BY <2>2, Zenon DEF Waiting
      <3> HIDE DEF s
      <3>2. Opens(f)
        BY TellEvents
      <3> HIDE DEF f
      <3>3. /\ DOMAIN y = TellFields /\ y.out = Append(st.out, f) /\ y.at = st.at
            /\ y.next = st.next /\ y.tool = st.tool /\ y.calls = st.calls /\ y.held = st.held
            /\ y.started = TRUE /\ y.closed = st.closed /\ y.ended = st.ended
            /\ y.stopped = st.stopped
        BY DEF Shaped, TellFields, ChatClaude!Emit
      <3> HIDE DEF y
      <3>4. Idle(m, Append(st.out, f), 0)
        BY <2>2, <3>2, WriteOpening DEF Waiting
      <3>5. QED
        BY <2>2, <3>1, <3>3, <3>4 DEF Waiting, Live, Talking, Talks, Free, Unused, Shaped
    <2>3. QED
      BY <2>1, <2>2
  <1> HIDE DEF s
  <1>3. "text" \in Kinds /\ "thinking" \in Kinds /\ "text" # "thinking"
    BY DEF Kinds
  <1>4. Talking(a, m) /\ SameFlags(a, s)
    BY <1>2, <1>3, TellContent
  <1> HIDE DEF a
  <1>5. Talking(b, m) /\ SameFlags(b, a)
    BY <1>3, <1>4, TellContent
  <1> HIDE DEF b
  <1>6. Talking(x, m) /\ SameFlags(x, b)
    <2>1. \A l : ChatClaude!FoldLeft(ChatClaude!CallPiece, b, l) = TellPieces!Folded(0, b, l)
      BY DEF TellPieces!Folded, TellPieces!Part, TellPieces!Table, TellPieces!Top, PieceOfCall,
             ChatClaude!FoldLeft, ChatClaude!MapThenFoldSet, ChatClaude!Max
    <2>2. /\ TellPieces!Folded(0, b, <<>>) = b
          /\ \A p : TellPieces!Folded(0, b, <<p>>) = PieceOfCall(b, p, 0)
      BY TellPiecesInduction, TellPieces!FoldShort
    <2>3. CASE e.calls = <<>>
      <3>1. x = b
        BY <1>1, <2>1, <2>2, <2>3
      <3>2. QED
        BY <1>5, <3>1 DEF SameFlags
    <2>4. ASSUME NEW p, e.calls = <<p>>, p.call \in Nat PROVE Talking(x, m) /\ SameFlags(x, b)
      <3>1. x = ChatClaude!CallPiece(b, p)
        BY <1>1, <2>1, <2>2, <2>4 DEF PieceOfCall
      <3>2. QED
        BY <1>5, <2>4, <3>1, TellPiece
    <2>5. QED
      BY <2>3, <2>4 DEF PiecesCount
  <1>7. QED
    BY <1>2, <1>4, <1>5, <1>6 DEF Live, SameFlags

\* The reason to finish.
LEMMA TellFinish ==
    ASSUME NEW st, NEW m, Live(st), Talking(st, m), NEW e, NEW x, x = ChatClaude!Finish(st, e)
    PROVE  /\ Unfinished(e) => x = st
           /\ ~Unfinished(e) => Shaped(x) /\ Finished(x, m)
  <1>1. Unfinished(e) => x = st
    BY Zenon DEF ChatClaude!Finish, Unfinished
  <1>2. ASSUME ~Unfinished(e) PROVE Shaped(x) /\ Finished(x, m)
    <2>1. PICK reason : x = ChatClaude!CloseBlocks([st EXCEPT !.finish = reason])
      BY <1>2, Zenon DEF ChatClaude!Finish, Unfinished
    <2> DEFINE s == [st EXCEPT !.finish = reason]
    <2>2. /\ DOMAIN s = TellFields /\ s.out = st.out /\ s.at = st.at /\ s.next = st.next
          /\ s.tool = st.tool /\ s.toolAt = st.toolAt /\ s.calls = st.calls /\ s.held = st.held
          /\ s.started = st.started /\ s.closed = st.closed /\ s.ended = st.ended
          /\ s.stopped = st.stopped
      BY DEF Talking, Shaped, TellFields
    <2> HIDE DEF s
    <2>3. Talking(s, m) /\ s.closed = FALSE
      BY <2>2 DEF Live, Talking, Talks, InCall, InContent, Free, Unused, Shaped
    <2>4. Shaped(x) /\ Free(x, m) /\ Shut(x, s)
      BY <2>1, <2>3, TellClose DEF s
    <2>5. QED
      BY <2>2, <2>4 DEF Live, Shut, Finished, Free
  <1>3. QED
    BY <1>1, <1>2

\* The usage, and [DONE].
LEMMA TellLast ==
    ASSUME NEW st, NEW m, Shaped(st), Finished(st, m)
    PROVE  /\ \A x : x = ChatClaude!End(ChatClaude!CloseBlocks(st)) =>
                Shaped(x) /\ Finished(x, m) /\ Closed(m, x.out)
           /\ \A e : Shaped(ChatClaude!Usage(st, e)) /\ Finished(ChatClaude!Usage(st, e), m)
  <1>1. ChatClaude!CloseBlocks(st) = st
    BY TellCloseAgain DEF Finished
  <1>2. ASSUME NEW x, x = ChatClaude!End(st)
        PROVE  Shaped(x) /\ Finished(x, m) /\ Closed(m, x.out)
    <2>1. CASE Free(st, m) /\ st.ended = FALSE /\ st.stopped = FALSE
      BY <1>2, <2>1, TellEnd DEF Finished
    <2>2. CASE Closed(m, st.out) /\ st.ended = TRUE /\ st.stopped = TRUE
      BY <1>2, <2>2, TellEnd
    <2>3. QED
      BY <2>1, <2>2 DEF Finished
  <1>3. \A e : ChatClaude!Usage(st, e) \in {st, ChatClaude!End(ChatClaude!CloseBlocks(st))}
    BY Zenon DEF ChatClaude!Usage
  <1>4. QED
    BY <1>1, <1>2, <1>3

\* Whatever the chunk, the translator keeps step; after [DONE] the client has the end.
LEMMA TellTranslate ==
    ASSUME NEW st, NEW m, NEW src, TellInStep([st EXCEPT !.out = <<>>], m, src),
           NEW e, IsChoice(e) \/ IsUsage(e) \/ e.t = "done", Chat!MayFollow(src, e),
           NEW next, next = Chat!Follow(src, e), NEW x, x = ChatClaude!Translate(st, e)
    PROVE  /\ IsSeq(x.out)
           /\ e.t # "done" => TellInStep(x, m, next)
           /\ e.t = "done" => Closed(m, x.out)
  <1> DEFINE s == [st EXCEPT !.out = <<>>]
             a == ChatClaude!Delta(s, e)
             b == ChatClaude!Finish(a, e)
  <1>1. IF e.t = "done" THEN x = ChatClaude!End(ChatClaude!CloseBlocks(s))
        ELSE x = ChatClaude!Usage(b, e)
    BY Zenon DEF ChatClaude!Translate
  <1>2. /\ IsCompletion(src) /\ Shaped(s)
        /\ src.phase \in {"before", "message", "finished"}
        /\ src.phase = "before" => Waiting(s, m)
        /\ src.phase = "message" => Live(s) /\ Talking(s, m)
        /\ src.phase = "finished" => Finished(s, m)
    BY DEF TellInStep
  <1> HIDE DEF s
  <1>3. CASE e.t = "done"
    <2>1. src.phase = "finished"
      BY <1>3, Zenon DEF Chat!MayFollow
    <2>2. Closed(m, x.out)
      BY <1>1, <1>2, <1>3, <2>1, TellLast
    <2>3. QED
      BY <1>3, <2>2 DEF Closed
  <1>4. CASE IsChoice(e)
    <2>1. /\ IsCompletion(next) /\ PiecesCount(e) /\ src.phase \in {"before", "message"}
          /\ next.phase = IF Unfinished(e) THEN "message" ELSE "finished"
      BY <1>2, <1>4, ChoiceStep
    <2>2. Live(a) /\ Talking(a, m)
      BY <1>2, <1>4, <2>1, TellDelta
    <2> HIDE DEF a
    <2>3. (Unfinished(e) => b = a) /\ (~Unfinished(e) => Shaped(b) /\ Finished(b, m))
      BY <2>2, TellFinish
    <2> HIDE DEF b
    <2>4. e.t # "done" /\ x = ChatClaude!Usage(b, e)
      BY <1>1, <1>4 DEF IsChoice
    <2>5. CASE Unfinished(e)
      <3>1. x = b
        BY <1>4, <2>4, <2>5, Zenon DEF ChatClaude!Usage, IsChoice
      <3>2. x = a /\ next.phase = "message"
        BY <2>1, <2>3, <2>5, <3>1
      <3>3. TellInStep(x, m, next)
        BY <2>1, <2>2, <3>2 DEF TellInStep, Talking
      <3>4. IsSeq(x.out)
        BY <2>2, <3>2 DEF Talking, Talks, InCall, InContent, Free, Idle, Writing
      <3>5. QED
        BY <2>4, <3>3, <3>4
    <2>6. CASE ~Unfinished(e)
      <3>1. Shaped(x) /\ Finished(x, m) /\ next.phase = "finished"
        BY <2>1, <2>3, <2>4, <2>6, TellLast
      <3>2. TellInStep(x, m, next)
        BY <2>1, <3>1 DEF TellInStep
      <3>3. IsSeq(x.out)
        BY <3>1 DEF Finished, Free, Idle, Closed
      <3>4. QED
        BY <2>4, <3>2, <3>3
    <2>7. QED
      BY <2>5, <2>6
  <1>5. CASE IsUsage(e)
    <2>1. src.phase = "finished" /\ next = src
      BY <1>5, Zenon DEF Chat!MayFollow, Chat!Follow, IsUsage
    <2>2. a = s
      BY <1>5, Zenon DEF ChatClaude!Delta, IsUsage
    <2>3. b = a
      BY <1>5, Zenon DEF ChatClaude!Finish, IsUsage, Unfinished
    <2>4. e.t # "done" /\ x = ChatClaude!Usage(s, e)
      BY <1>1, <1>5, <2>2, <2>3 DEF IsUsage
    <2>5. Shaped(x) /\ Finished(x, m)
      BY <1>2, <2>1, <2>4, TellLast
    <2>6. TellInStep(x, m, next)
      BY <1>2, <2>1, <2>5 DEF TellInStep
    <2>7. IsSeq(x.out)
      BY <2>5 DEF Finished, Free, Idle, Closed
    <2>8. QED
      BY <2>4, <2>6, <2>7
  <1>6. QED
    BY <1>3, <1>4, <1>5

\* A client that is told nothing illegal.
LEMMA TellLegal ==
    ASSUME NEW st, NEW m, NEW src, TellInStep(st, m, src)
    PROVE  Claude!Receive(m, st.out).phase # "wrong"
  BY DEF TellInStep, Waiting, Talking, Talks, Finished, Free, InContent, InCall, Unopened, NoBlocks,
         Idle, Between, Writing, Within, Closed
=============================================================================
