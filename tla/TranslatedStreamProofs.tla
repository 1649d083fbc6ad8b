----------------------- MODULE TranslatedStreamProofs -----------------------
(***************************************************************************)
(* What a client gets, for every upstream of module Upstream: any number   *)
(* of pieces, calls, blocks and searches, and any set of freeform tools.   *)
(*                                                                         *)
(* A client of responses is told of no end that the upstream did not tell  *)
(* (responsesTerminalTracker): the translators make none before the last   *)
(* event of the upstream, their output until then is quiet, and the        *)
(* tracker lets only the end through that it has seen.                     *)
(*                                                                         *)
(* The stream to a client of chat or of Claude is legal: translator and    *)
(* client are in step.  Module TranslatorProofs shows that for three of    *)
(* the four translators; what concerns the fourth, from responses to       *)
(* Claude, is here.                                                        *)
(*                                                                         *)
(* The end that a client of chat is told fits the calls it has: they are   *)
(* counted along while the upstream sends them (EndTheorem).               *)
(***************************************************************************)
EXTENDS TranslatedStream, TranslatorProofs

-----------------------------------------------------------------------------
(***************************************************************************)
(* What the tracker passes on.                                             *)
(***************************************************************************)
\* The folds of Passed: the output fits the tracker, and stays quiet if it was.
PassStep(out, e, t) == out \o Authorized(t, e)
StaysFitting(out, status) == Fitting(out, status)
StaysQuiet(out, aim) == Quiet(out)
PassFold == INSTANCE FoldFacts WITH Op <- PassStep, Good <- StaysFitting
QuietFold == INSTANCE FoldFacts WITH Op <- PassStep, Good <- StaysQuiet
LEMMA PassInduction == PassFold!Induction /\ QuietFold!Induction
  BY IndexInduction, Zenon DEF PassFold!Induction, QuietFold!Induction

LEMMA PassFitting ==
    ASSUME Active, NEW t, NEW out, Fitting(out, t.status), NEW e, IsEvent(e)
    PROVE  Fitting(PassStep(out, e, t), t.status)
  <1>1. PICK R : out \in Seq(R) /\ \A x \in R : Fits(x, t.status)
    BY DEF Fitting
  <1> DEFINE y == [e EXCEPT !.status = "incomplete", !.reason = t.reason]
  <1>2. \/ Authorized(t, e) = <<>>
        \/ Authorized(t, e) = <<e>> /\ Fits(e, t.status)
        \/ Authorized(t, e) = <<y>> /\ Fits(y, t.status)
    BY DEF Authorized, Fits, IsEvent, EventKinds
  <1>3. ASSUME NEW x, Fits(x, t.status), Authorized(t, e) = <<x>>
        PROVE  Fitting(PassStep(out, e, t), t.status)
    <2> DEFINE Q == R \union {x}
    <2>1. out \in Seq(Q) /\ x \in Q /\ \A z \in Q : Fits(z, t.status)
      BY <1>1, <1>3
    <2> HIDE DEF Q
    <2>2. out \o <<x>> \in Seq(Q)
      BY <2>1
    <2>3. QED
      BY <1>3, <2>1, <2>2 DEF Fitting, PassStep
  <1>4. ASSUME Authorized(t, e) = <<>>
        PROVE  Fitting(PassStep(out, e, t), t.status)
    <2>1. out \o <<>> \in Seq(R)
      BY <1>1
    <2>2. QED
      BY <1>1, <1>4, <2>1 DEF Fitting, PassStep
  <1> HIDE DEF y
  <1>5. QED
    BY <1>2, <1>3, <1>4

LEMMA PassQuiet ==
    ASSUME Active, NEW t, NEW out, Quiet(out), NEW e, IsPlain(e)
    PROVE  Quiet(PassStep(out, e, t))
  <1>1. Authorized(t, e) = <<e>>
    BY DEF Authorized, IsPlain, IsEvent, EventKinds
  <1>2. PICK R : out \in Seq(R) /\ \A x \in R : IsPlain(x)
    BY DEF Quiet
  <1> DEFINE Q == R \union {e}
  <1>3. out \in Seq(Q) /\ e \in Q /\ \A z \in Q : IsPlain(z)
    BY <1>2
  <1> HIDE DEF Q
  <1>4. out \o <<e>> \in Seq(Q)
    BY <1>3
  <1>5. QED
    BY <1>1, <1>3, <1>4 DEF Quiet, PassStep

\* translatedFrame passes on no end but that of the tracker.
LEMMA PassedFits ==
    ASSUME Active, NEW t, NEW events, Proper(events)
    PROVE  Fitting(Passed(t, events), t.status)
  <1>1. PICK R : events \in Seq(R) /\ \A x \in R : IsEvent(x)
    BY DEF Proper
  <1>2. Passed(t, events) = PassFold!Folded(t, <<>>, events)
    BY DEF PassFold!Folded, PassFold!Part, PassFold!Table, PassFold!Top, PassStep, Passed,
           FoldLeft, MapThenFoldSet, Max
  <1>3. StaysFitting(PassFold!Folded(t, <<>>, events), t.status)
    <2>1. PassFold!Line(DOMAIN events)
      BY <1>1 DEF PassFold!Line
    <2>2. StaysFitting(<<>>, t.status)
      <3> DEFINE Q == {}
      <3>1. <<>> \in Seq(Q) /\ \A e \in Q : Fits(e, t.status)
        OBVIOUS
      <3> HIDE DEF Q
      <3>2. QED
        BY <3>1 DEF StaysFitting, Fitting
    <2>3. \A x : \A i \in DOMAIN events :
            StaysFitting(x, t.status) => StaysFitting(PassStep(x, events[i], t), t.status)
      BY <1>1, PassFitting DEF StaysFitting
    <2>4. QED
      BY <2>1, <2>2, <2>3, PassInduction, PassFold!FoldKeeps
  <1>4. QED
    BY <1>2, <1>3 DEF StaysFitting

\* It makes no end where the translator made none.
LEMMA PassedQuiet ==
    ASSUME Active, NEW t, NEW events, Quiet(events)
    PROVE  Quiet(Passed(t, events))
  <1>1. PICK R : events \in Seq(R) /\ \A x \in R : IsPlain(x)
    BY DEF Quiet
  <1>2. Passed(t, events) = QuietFold!Folded(t, <<>>, events)
    BY DEF QuietFold!Folded, QuietFold!Part, QuietFold!Table, QuietFold!Top, PassStep, Passed,
           FoldLeft, MapThenFoldSet, Max
  <1>3. StaysQuiet(QuietFold!Folded(t, <<>>, events), 0)
    <2>1. QuietFold!Line(DOMAIN events)
      BY <1>1 DEF QuietFold!Line
    <2>2. StaysQuiet(<<>>, 0)
      BY EmptyIsQuiet DEF StaysQuiet
    <2>3. \A x : \A i \in DOMAIN events :
            StaysQuiet(x, 0) => StaysQuiet(PassStep(x, events[i], t), 0)
      BY <1>1, PassQuiet DEF StaysQuiet
    <2>4. QED
      BY <2>1, <2>2, <2>3, PassInduction, QuietFold!FoldKeeps
  <1>4. QED
    BY <1>2, <1>3 DEF StaysQuiet

\* A client without an end gets one only from an end that is passed on.
LEMMA ReceiveTold ==
    ASSUME Active, NEW m, {"phase", "status"} \subseteq DOMAIN m, ~Ended(m),
           NEW status, NEW out, Fitting(out, status)
    PROVE  Told(Receive(m, out), [ends |-> Ends(out), status |-> status])
  <1> DEFINE aim == [ends |-> Ends(out), status |-> status]
  <1>1. PICK R : out \in Seq(R) /\ \A x \in R : Fits(x, status)
    BY DEF Fitting
  <1>2. Receive(m, out) = Responses!Receive(m, out)
    BY DEF Receive, Active
  <1>3. Responses!Receive(m, out) = AcceptFold!Folded(0, m, out)
    BY DEF AcceptFold!Folded, AcceptFold!Part, AcceptFold!Table, AcceptFold!Top, AcceptStep,
           Responses!Receive, Responses!FoldLeft, Responses!MapThenFoldSet, Responses!Max
  <1>4. aim.status = status /\ aim.ends = Ends(out)
    OBVIOUS
  <1> HIDE DEF aim
  <1>5. Told(AcceptFold!Folded(0, m, out), aim)
    <2>1. AcceptFold!Line(DOMAIN out)
      BY <1>1 DEF AcceptFold!Line
    <2>2. Told(m, aim)
      BY DEF Told, Ended
    <2>3. ASSUME NEW x, NEW i \in DOMAIN out, Told(x, aim)
          PROVE  Told(AcceptStep(x, out[i], 0), aim)
      <3>1. Fits(out[i], aim.status)
        BY <1>1, <1>4
      <3>2. out[i].t = "terminal" => aim.ends
        BY <1>4 DEF Ends
      <3>3. QED
        BY <2>3, <3>1, <3>2, AcceptTold DEF AcceptStep
    <2>4. QED
      BY <2>1, <2>2, <2>3, AcceptInduction, AcceptFold!FoldKeeps
  <1>6. QED
    BY <1>2, <1>3, <1>5 DEF aim

-----------------------------------------------------------------------------
(***************************************************************************)
(* What the upstream sends.                                                *)
(***************************************************************************)
\* A chunk without a reason to finish, and one of each kind.
LEMMA PlainChunk ==
    /\ DOMAIN Chat!Chunk = {"t", "delta", "think", "text", "calls", "finish", "usage", "choice"}
    /\ Chat!Chunk.t = "chunk" /\ Chat!Chunk.delta = TRUE /\ Chat!Chunk.choice = TRUE
    /\ Chat!Chunk.usage = FALSE /\ Chat!Chunk.calls = <<>> /\ Unfinished(Chat!Chunk)
  <1> DEFINE none == ""
             Whatever(f) == [t |-> "chunk", delta |-> TRUE, think |-> <<>>, text |-> <<>>,
                             calls |-> <<>>, finish |-> f, usage |-> FALSE, choice |-> TRUE]
             c == Chat!Chunk
  <1>1. c = Whatever(none)
    BY Zenon DEF Chat!Chunk
  <1> HIDE DEF none, c
  <1>2. /\ DOMAIN c = {"t", "delta", "think", "text", "calls", "finish", "usage", "choice"}
        /\ c.t = "chunk" /\ c.delta = TRUE /\ c.choice = TRUE /\ c.usage = FALSE
        /\ c.calls = <<>> /\ c.finish = none
    BY <1>1
  <1>3. Unfinished(c)
    BY <1>2, Zenon DEF Unfinished, none
  <1>4. QED
    BY <1>2, <1>3 DEF c

\* What the upstream sends of a completion.
ChatShape(e) == IsChoice(e) \/ IsUsage(e) \/ e.t \in {"done", "error"}

LEMMA ChatShapes == \A e \in ChatEvents : ChatShape(e)
  <1> DEFINE c == Chat!Chunk
             Fields == {"t", "delta", "think", "text", "calls", "finish", "usage", "choice"}
  <1>0. /\ DOMAIN c = Fields /\ c.t = "chunk" /\ c.delta = TRUE /\ c.choice = TRUE
        /\ c.usage = FALSE /\ c.calls = <<>> /\ Unfinished(c)
    BY PlainChunk
  <1>1. \A b : ChatShape(Chat!Think(b)) /\ ChatShape(Chat!Text(b))
    <2> SUFFICES ASSUME NEW b PROVE ChatShape(Chat!Think(b)) /\ ChatShape(Chat!Text(b))
      OBVIOUS
    <2> DEFINE x == [c EXCEPT !.think = b]
               y == [c EXCEPT !.text = b]
    <2>1. x = Chat!Think(b) /\ y = Chat!Text(b)
      BY DEF Chat!Think, Chat!Text
    <2> HIDE DEF c
    <2>2. IsChoice(x) /\ IsChoice(y)
      BY <1>0, Zenon DEF IsChoice
    <2>3. QED
      BY <2>1, <2>2 DEF ChatShape
  <1>2. \A p : ChatShape(Chat!Calls(<<p>>))
    <2> SUFFICES ASSUME NEW p PROVE ChatShape(Chat!Calls(<<p>>))
      BY Zenon
    <2> DEFINE q == <<p>>
               x == [c EXCEPT !.calls = q]
    <2>1. x = Chat!Calls(<<p>>)
      BY DEF Chat!Calls
    <2> HIDE DEF c
    <2>2. IsChoice(x)
      <3>1. x.calls = q
        BY <1>0
      <3> HIDE DEF q
      <3>2. x.t = "chunk" /\ x.choice = TRUE /\ x.delta = TRUE /\ x.usage = FALSE
        BY <1>0
      <3> HIDE DEF x
      <3>3. \E r : x.calls = <<r>>
        BY <3>1, Zenon DEF q
      <3>4. QED
        BY <3>2, <3>3, Zenon DEF IsChoice
    <2>3. QED
      BY <2>1, <2>2 DEF ChatShape
  <1>3. \A b, p : ChatShape([Chat!Text(b) EXCEPT !.calls = <<p>>])
    <2> SUFFICES ASSUME NEW b, NEW p PROVE ChatShape([Chat!Text(b) EXCEPT !.calls = <<p>>])
      OBVIOUS
    <2> DEFINE q == <<p>>
               y == [c EXCEPT !.text = b]
               x == [y EXCEPT !.calls = q]
    <2>1. x = [Chat!Text(b) EXCEPT !.calls = <<p>>]
      BY DEF Chat!Text
    <2> HIDE DEF c
    <2>2. IsChoice(x)
      <3>1. x.calls = q
        BY <1>0
      <3> HIDE DEF q
      <3>2. x.t = "chunk" /\ x.choice = TRUE /\ x.delta = TRUE /\ x.usage = FALSE
        BY <1>0
      <3> HIDE DEF x
      <3>3. \E r : x.calls = <<r>>
        BY <3>1, Zenon DEF q
      <3>4. QED
        BY <3>2, <3>3, Zenon DEF IsChoice
    <2> HIDE DEF x
    <2>3. ChatShape(x)
      BY <2>2 DEF ChatShape
    <2>4. QED
      BY <2>1, <2>3
  <1>4. \A r, u : r \in ChatReasons /\ u \in BOOLEAN => ChatShape([Chat!Finish(r) EXCEPT !.usage = u])
    <2> SUFFICES ASSUME NEW r \in ChatReasons, NEW u \in BOOLEAN
                 PROVE  ChatShape([Chat!Finish(r) EXCEPT !.usage = u])
      OBVIOUS
    <2> DEFINE y == [c EXCEPT !.finish = r]
               x == [y EXCEPT !.usage = u]
    <2>1. x = [Chat!Finish(r) EXCEPT !.usage = u]
      BY DEF Chat!Finish
    <2> HIDE DEF c
    <2>2. /\ x.t = "chunk" /\ x.choice = TRUE /\ x.delta = TRUE /\ x.usage = u
          /\ x.calls = <<>> /\ x.finish = r
      BY <1>0
    <2> HIDE DEF x
    <2>3. r \in {"length", "tool_calls", "stop", "content_filter"}
      BY DEF ChatReasons
    <2>4. ~Unfinished(x)
      <3>1. "length" # "" /\ "tool_calls" # "" /\ "stop" # "" /\ "content_filter" # ""
        BY Zenon
      <3>2. r # ""
        BY <2>3, <3>1, Zenon
      <3>3. QED
        BY <2>2, <3>2, Zenon DEF Unfinished
    <2>5. IsChoice(x)
      BY <2>2, <2>4 DEF IsChoice
    <2>6. ChatShape(x)
      BY <2>5 DEF ChatShape
    <2>7. QED
      BY <2>1, <2>6
  <1>5. ChatShape(Chat!UsageOnly) /\ ChatShape(Chat!Done) /\ ChatShape(Chat!Fault)
    <2> DEFINE x == [c EXCEPT !.delta = FALSE, !.choice = FALSE, !.usage = TRUE]
    <2>1. x = Chat!UsageOnly
      BY DEF Chat!UsageOnly
    <2> HIDE DEF c
    <2>2. /\ x.t = "chunk" /\ x.choice = FALSE /\ x.delta = FALSE /\ x.usage = TRUE
          /\ x.calls = <<>> /\ x.finish = c.finish
      BY <1>0
    <2> HIDE DEF x
    <2>3. Unfinished(x)
      BY <1>0, <2>2, Zenon DEF Unfinished
    <2>4. IsUsage(x)
      BY <2>2, <2>3 DEF IsUsage
    <2>5. ChatShape(x) /\ ChatShape(Chat!Done) /\ ChatShape(Chat!Fault)
      BY <2>4 DEF ChatShape, Chat!Done, Chat!Fault
    <2>6. QED
      BY <2>1, <2>5
  <1> DEFINE texts == IF source.calls # <<>> /\ ~Has("text_after_call") THEN {} ELSE Fresh
             A == {Chat!Think(b) : b \in Fresh}
             B == {Chat!Text(b) : b \in texts}
             C == {Chat!Calls(<<p>>) : p \in ChatPieces}
             D == {[Chat!Text(b) EXCEPT !.calls = <<p>>] :
                     b \in texts, p \in {p \in ChatPieces : p.args = <<>>}}
             E == {[Chat!Finish(r) EXCEPT !.usage = u] : r \in ChatReasons, u \in BOOLEAN}
             F == {Chat!UsageOnly, Chat!Done, Chat!Fault}
  <1>6. ChatEvents = A \union B \union C \union D \union E \union F
    BY DEF ChatEvents
  <1>7. \A e \in A \union B \union C : ChatShape(e)
    <2> HIDE DEF texts
    <2>1. QED
      BY <1>1, <1>2, Zenon
  <1>8. \A e \in D : ChatShape(e)
    <2> DEFINE Both(b, p) == [Chat!Text(b) EXCEPT !.calls = <<p>>]
    <2>1. \A b, p : ChatShape(Both(b, p))
      BY <1>3
    <2>2. \A e \in D : \E b, p : e = Both(b, p)
      <3>1. D = {Both(b, p) : b \in texts, p \in {p \in ChatPieces : p.args = <<>>}}
        OBVIOUS
      <3> DEFINE few == {p \in ChatPieces : p.args = <<>>}
      <3>2. D = {Both(b, p) : b \in texts, p \in few}
        BY <3>1
      <3> HIDE DEF Both, texts, D, few
      <3>3. QED
        BY <3>2
    <2> HIDE DEF Both, D
    <2>3. QED
      BY <2>1, <2>2
  <1>9. \A e \in E : ChatShape(e)
    <2> DEFINE Finishing(r, u) == [Chat!Finish(r) EXCEPT !.usage = u]
    <2>1. E = {Finishing(r, u) : r \in ChatReasons, u \in BOOLEAN}
      OBVIOUS
    <2>2. \A r \in ChatReasons, u \in BOOLEAN : ChatShape(Finishing(r, u))
      BY <1>4
    <2> HIDE DEF Finishing, E
    <2>3. QED
      BY <2>1, <2>2
  <1>10. \A e \in F : ChatShape(e)
    BY <1>5
  <1> HIDE DEF A, B, C, D, E, F
  <1>11. QED
    BY <1>6, <1>7, <1>8, <1>9, <1>10

LEMMA ClaudeShapes == \A e \in ClaudeEvents : e.t \in ClaudeKinds
  <1>1. /\ Claude!MessageStart.t \in ClaudeKinds /\ Claude!MessageStop.t \in ClaudeKinds
        /\ Claude!Fault.t \in ClaudeKinds
        /\ \A ix, kind, of : Claude!BlockStart(ix, kind, of).t \in ClaudeKinds
        /\ \A ix, kind, body : Claude!BlockDelta(ix, kind, body).t \in ClaudeKinds
        /\ \A ix : Claude!BlockStop(ix).t \in ClaudeKinds /\ Claude!Signature(ix).t \in ClaudeKinds
        /\ \A s : Claude!MessageDelta(s).t \in ClaudeKinds
    BY DEF ClaudeKinds, Claude!MessageStart, Claude!MessageStop, Claude!Fault,
           Claude!BlockStart, Claude!BlockDelta, Claude!BlockStop, Claude!Signature,
           Claude!MessageDelta
  <1> DEFINE Good(e) == e.t \in ClaudeKinds
  <1>2. /\ Good(Claude!MessageStart) /\ Good(Claude!MessageStop) /\ Good(Claude!Fault)
        /\ \A ix, kind, of : Good(Claude!BlockStart(ix, kind, of))
        /\ \A ix, kind, body : Good(Claude!BlockDelta(ix, kind, body))
        /\ \A ix : Good(Claude!BlockStop(ix)) /\ Good(Claude!Signature(ix))
        /\ \A s : Good(Claude!MessageDelta(s))
    BY <1>1
  <1> HIDE DEF Good
  <1>3. \A e \in ClaudeEvents : Good(e)
    BY <1>2 DEF ClaudeEvents
  <1>4. QED
    BY <1>3 DEF Good

-----------------------------------------------------------------------------
(***************************************************************************)
(* The invariant.                                                          *)
(***************************************************************************)
\* The answer was cut off or filtered, as the upstream said so far.
CutStops == {"max_tokens", "model_context_window_exceeded"}
CutShort ==
    IF From(route) = "chat" THEN source.finish \in {"length", "content_filter"}
    ELSE source.stop \in CutStops
\* While the answer is under way: the translator is calm, the client has no end, the
\* upstream did not fail, and the tracker knows of an answer that was cut off.
Underway ==
    /\ route = "chat-responses" => Calm(state) /\ "finish" \in DOMAIN source
    /\ route = "claude-responses" => ClaudeCalm(state) /\ "stop" \in DOMAIN source
    /\ {"phase", "status"} \subseteq DOMAIN client /\ ~Ended(client)
    /\ {"status", "reason", "seen"} \subseteq DOMAIN tracker /\ tracker.status # "failed"
    /\ CutShort => tracker.status = "incomplete"
EarnedInv ==
    /\ profile \in Profiles
    /\ SuccessIsEarned
    /\ (Active /\ outcome = "") => Underway

\* Two routes lead to clients of responses.
LEMMA ActiveRoutes ==
    ASSUME profile \in Profiles, Active
    PROVE  route \in {"chat-responses", "claude-responses"}
  BY ProfilesAssumption DEF Active, To, Routes, route

\* observeSource never replaces a stronger end by a weaker one.
LEMMA ObserveKeeps ==
    ASSUME Active, NEW t, {"status", "reason", "seen"} \subseteq DOMAIN t, t.status # "failed",
           NEW end, end.status # "failed"
    PROVE  LET u == ObserveSource(t, end)
           IN /\ {"status", "reason", "seen"} \subseteq DOMAIN u /\ u.status # "failed"
              /\ t.status = "incomplete" => u.status = "incomplete"
              /\ end.status = "incomplete" => u.status = "incomplete"
  BY DEF ObserveSource, Priority

\* The last event of the upstream: an end that reaches the client was told by it.
LEMMA PassEnd ==
    ASSUME Active, {"phase", "status"} \subseteq DOMAIN client, ~Ended(client),
           NEW e, EndsSource(e), NEW t, {"status", "reason", "seen"} \subseteq DOMAIN t,
           NEW st, Proper(st.out), Pass(e, t, st, Passed(t, st.out))
    PROVE  /\ outcome' # ""
           /\ Ended(client') => outcome' = "done" /\ client'.status = t.status
  <1> DEFINE out == Passed(t, st.out)
  <1>1. Fitting(out, t.status)
    BY PassedFits
  <1>2. /\ tracker' = [t EXCEPT !.seen = t.seen \/ (Active /\ Ends(out))]
        /\ client' = Receive(client, out) /\ outcome' = Ending(tracker', TRUE)
    BY DEF Pass, Ends
  <1> HIDE DEF out
  <1>3. Told(client', [ends |-> Ends(out), status |-> t.status])
    BY <1>1, <1>2, ReceiveTold
  <1>4. Ended(client') => Ends(out) /\ client'.status = t.status
    BY <1>3 DEF Told, Ended
  <1>5. Ends(out) => tracker'.seen
    BY <1>2, Zenon
  <1>6. outcome' # ""
    BY <1>2 DEF Ending
  <1>7. tracker'.seen => outcome' = "done"
    BY <1>2 DEF Ending
  <1>8. QED
    BY <1>4, <1>5, <1>6, <1>7, Zenon

\* Any other event: the client has no end yet, and the forwarding goes on.
LEMMA PassOpen ==
    ASSUME Active, {"phase", "status"} \subseteq DOMAIN client, ~Ended(client),
           NEW e, ~EndsSource(e), NEW t, {"status", "reason", "seen"} \subseteq DOMAIN t,
           NEW st, Quiet(st.out), Pass(e, t, st, Passed(t, st.out))
    PROVE  /\ outcome' = "" /\ state' = [st EXCEPT !.out = <<>>]
           /\ {"phase", "status"} \subseteq DOMAIN client' /\ ~Ended(client')
           /\ {"status", "reason", "seen"} \subseteq DOMAIN tracker'
           /\ tracker'.status = t.status
  <1> DEFINE out == Passed(t, st.out)
  <1>1. PICK R : out \in Seq(R) /\ \A x \in R : IsPlain(x)
    BY PassedQuiet DEF Quiet
  <1>2. /\ tracker' = [t EXCEPT !.seen = t.seen \/ (Active /\ Ends(out))]
        /\ client' = Receive(client, out) /\ outcome' = "" /\ state' = [st EXCEPT !.out = <<>>]
    BY Zenon DEF Pass, Ends
  <1> HIDE DEF out
  <1>3. Fitting(out, "")
    BY <1>1, Zenon DEF Fitting, Fits, IsPlain
  <1>4. ~Ends(out)
    BY <1>1 DEF Ends, IsPlain
  <1>5. Told(client', [ends |-> Ends(out), status |-> ""])
    BY <1>2, <1>3, ReceiveTold, Zenon
  <1>6. {"phase", "status"} \subseteq DOMAIN client' /\ ~Ended(client')
    BY <1>4, <1>5, Zenon DEF Told, Ended
  <1>7. QED
    BY <1>2, <1>6, Zenon

LEMMA ClearedKept ==
    /\ \A st : Calm(st) => Calm([st EXCEPT !.out = <<>>]) /\ Quiet(st.out)
    /\ \A st : ClaudeCalm(st) => ClaudeCalm([st EXCEPT !.out = <<>>]) /\ Quiet(st.out)
  BY EmptyIsQuiet DEF ClaudeCalm, Calm

LEMMA EarnedInit ==
    ASSUME Init
    PROVE  EarnedInv
  <1>1. SuccessIsEarned
    <2>1. Active => ~Ended(client)
      BY Zenon DEF Init, NewClient, Active, Ended, Responses!NoResponse
    <2>2. QED
      BY <2>1 DEF SuccessIsEarned
  <1>2. ASSUME Active PROVE Underway
    <2>1. client = Responses!NoResponse /\ tracker = NoEnd
      BY <1>2, Zenon DEF Init, NewClient, Active
    <2>2. route \in {"chat-responses", "claude-responses"}
      BY <1>2, ActiveRoutes, Zenon DEF Init
    <2>3. IsFiniteSet(DOMAIN <<>>)
      <3>1. DOMAIN <<>> = {}
        OBVIOUS
      <3>2. QED
        BY <3>1, FS_EmptySet
    <2>4. CASE route = "chat-responses"
      <3>1. source = Chat!NoCompletion /\ state = ChatResponses!Fresh(Freeform)
            /\ From(route) = "chat"
        BY <2>4, Zenon DEF Init, NewClient, NewState, From
      <3>2. Calm(ChatResponses!Fresh(Freeform))
        BY <2>3, EmptyIsQuiet DEF Calm, ChatResponses!Fresh
      <3>3. QED
        BY <2>1, <2>4, <3>1, <3>2, Zenon
           DEF Underway, CutShort, Ended, Responses!NoResponse, NoEnd, Chat!NoCompletion
    <2>5. CASE route = "claude-responses"
      <3>1. source = Claude!NoMessage /\ state = ClaudeResponses!Fresh(Freeform)
            /\ From(route) = "claude"
        BY <2>5, Zenon DEF Init, NewClient, NewState, From
      <3>2. ClaudeCalm(ClaudeResponses!Fresh(Freeform))
        BY <2>3, EmptyIsQuiet DEF ClaudeCalm, Calm, ClaudeResponses!Fresh
      <3>3. QED
        BY <2>1, <2>5, <3>1, <3>2, Zenon
           DEF Underway, CutShort, CutStops, Ended, Responses!NoResponse, NoEnd, Claude!NoMessage
    <2>6. QED
      BY <2>2, <2>4, <2>5
  <1>3. QED
    BY <1>1, <1>2, Zenon DEF Init, EarnedInv

\* A step that leaves the client without an end earns nothing.
LEMMA NothingTold ==
    ASSUME EarnedInv, profile' = profile, outcome = "", outcome' # "", client' = client
    PROVE  EarnedInv'
  <1>1. Active' = Active /\ (Active => ~Ended(client))
    BY Zenon DEF EarnedInv, Underway, Active, route
  <1>2. SuccessIsEarned'
    BY <1>1, Zenon DEF SuccessIsEarned, Ended
  <1>3. QED
    BY <1>2, Zenon DEF EarnedInv

\* A frame of a chat completion, and one of a Claude message.
LEMMA ChatEarned ==
    ASSUME EarnedInv, route = "chat-responses", outcome = "", NEW e \in ChatEvents,
           Sends(e), NEW end, end = SourceStatus(e), end.status # "failed",
           NEW t, t = ObserveSource(tracker, end), MayTranslate(t, e),
           NEW st, st = Translate(state, e), Pass(e, t, st, Passed(t, st.out))
    PROVE  EarnedInv'
  <1>1. Active /\ From(route) = "chat" /\ Underway
    BY Zenon DEF EarnedInv, Active, To, From
  <1>2. IsChunk(e) \/ e.t = "done"
    BY ChatShapes, ChunkShapes, Zenon DEF ChatShape, SourceStatus, NoEnd
  <1>3. profile' = profile /\ source' = Chat!Follow(source, e)
    BY <1>1, Zenon DEF Sends
  <1>4. /\ {"status", "reason", "seen"} \subseteq DOMAIN t /\ t.status # "failed"
        /\ tracker.status = "incomplete" => t.status = "incomplete"
        /\ end.status = "incomplete" => t.status = "incomplete"
    BY <1>1, ObserveKeeps, Zenon DEF Underway
  <1>5. /\ "finish" \in DOMAIN source'
        /\ source'.finish \in {"length", "content_filter"} => t.status = "incomplete"
    <2>1. "finish" \in DOMAIN source
      BY <1>1, Zenon DEF Underway
    <2>2. /\ "finish" \in DOMAIN source'
          /\ \/ source'.finish = source.finish
             \/ e.t = "chunk" /\ source'.finish = e.finish
      BY <1>2, <1>3, <2>1, ChatReason, Zenon
    <2>3. source.finish \in {"length", "content_filter"} => t.status = "incomplete"
      BY <1>1, <1>4, Zenon DEF Underway, CutShort
    <2>4. ASSUME e.t = "chunk", e.finish \in {"length", "content_filter"}
          PROVE  end.status = "incomplete"
      BY <2>4, Zenon DEF SourceStatus, StopStatus, NoEnd
    <2>5. QED
      BY <1>4, <2>2, <2>3, <2>4, Zenon
  <1>6. route' = route /\ Active' /\ From(route') = "chat"
    BY <1>1, <1>3, Zenon DEF route, Active
  <1>7. {"phase", "status"} \subseteq DOMAIN client /\ ~Ended(client) /\ Calm(state)
    BY <1>1, Zenon DEF Underway
  <1>8. st = ChatResponses!Translate(state, e)
    BY Zenon DEF Translate
  <1>9. CASE IsChunk(e)
    <2>1. Calm(st) /\ ~EndsSource(e)
      BY <1>7, <1>8, <1>9, ChatTranslate, Zenon DEF IsChunk, EndsSource
    <2>2. /\ outcome' = "" /\ state' = [st EXCEPT !.out = <<>>]
          /\ {"phase", "status"} \subseteq DOMAIN client' /\ ~Ended(client')
          /\ {"status", "reason", "seen"} \subseteq DOMAIN tracker'
          /\ tracker'.status = t.status
      BY <1>1, <1>4, <1>7, <2>1, ClearedKept, PassOpen, Zenon
    <2>3. Calm(state')
      BY <2>1, <2>2, ClearedKept, Zenon
    <2>4. SuccessIsEarned'
      BY <2>2, Zenon DEF SuccessIsEarned, Ended
    <2>5. Underway'
      <3>1. CutShort' => tracker'.status = "incomplete"
        BY <1>5, <1>6, <2>2, Zenon DEF CutShort
      <3>2. QED
        BY <1>4, <1>5, <1>6, <2>2, <2>3, <3>1, Zenon DEF Underway, Ended
    <2>6. QED
      BY <1>3, <2>4, <2>5, Zenon DEF EarnedInv
  <1>10. CASE e.t = "done"
    <2>1. Proper(st.out) /\ EndsSource(e)
      BY <1>7, <1>8, <1>10, ChatTranslate, Zenon DEF EndsSource
    <2>2. /\ outcome' # ""
          /\ Ended(client') => outcome' = "done" /\ client'.status = t.status
      BY <1>1, <1>4, <1>7, <2>1, PassEnd, Zenon
    <2>3. SuccessIsEarned'
      BY <1>5, <1>6, <2>2, Zenon DEF SuccessIsEarned, CutOff, Ended
    <2>4. QED
      BY <1>3, <2>2, <2>3, Zenon DEF EarnedInv
  <1>11. QED
    BY <1>2, <1>9, <1>10, Zenon

LEMMA ClaudeEarned ==
    ASSUME EarnedInv, route = "claude-responses", outcome = "", NEW e \in ClaudeEvents,
           Sends(e), NEW end, end = SourceStatus(e), end.status # "failed",
           NEW t, t = ObserveSource(tracker, end),
           NEW st, st = Translate(state, e), Pass(e, t, st, Passed(t, st.out))
    PROVE  EarnedInv'
  <1>1. Active /\ From(route) = "claude" /\ Underway
    BY Zenon DEF EarnedInv, Active, To, From
  <1>2. e.t \in ClaudeKinds /\ e.t # "error"
    BY ClaudeShapes, Zenon DEF SourceStatus, NoEnd
  <1>3. profile' = profile /\ source' = Claude!Follow(source, e)
    BY <1>1, Zenon DEF Sends
  <1>4. /\ {"status", "reason", "seen"} \subseteq DOMAIN t /\ t.status # "failed"
        /\ tracker.status = "incomplete" => t.status = "incomplete"
        /\ end.status = "incomplete" => t.status = "incomplete"
    BY <1>1, ObserveKeeps, Zenon DEF Underway
  <1>5. /\ "stop" \in DOMAIN source'
        /\ source'.stop \in CutStops => t.status = "incomplete"
    <2>1. "stop" \in DOMAIN source
      BY <1>1, Zenon DEF Underway
    <2>2. /\ "stop" \in DOMAIN source'
          /\ \/ source'.stop = source.stop
             \/ e.t = "message_delta" /\ source'.stop = e.stop
      BY <1>2, <1>3, <2>1, ClaudeStop, Zenon
    <2>3. source.stop \in CutStops => t.status = "incomplete"
      BY <1>1, <1>4, Zenon DEF Underway, CutShort
    <2>4. ASSUME e.t = "message_delta", e.stop \in CutStops
          PROVE  end.status = "incomplete"
      BY <2>4, Zenon DEF SourceStatus, StopStatus, NoEnd, CutStops
    <2>5. QED
      BY <1>4, <2>2, <2>3, <2>4, Zenon
  <1>6. route' = route /\ Active' /\ From(route') = "claude"
    BY <1>1, <1>3, Zenon DEF route, Active
  <1>7. {"phase", "status"} \subseteq DOMAIN client /\ ~Ended(client) /\ ClaudeCalm(state)
    BY <1>1, Zenon DEF Underway
  <1>8. st = ClaudeResponses!Translate(state, e)
    BY Zenon DEF Translate
  <1>9. CASE e.t # "message_stop"
    <2>1. ClaudeCalm(st) /\ ~EndsSource(e)
      BY <1>2, <1>7, <1>8, <1>9, ClaudeTranslate, Zenon DEF EndsSource, ClaudeKinds
    <2>2. /\ outcome' = "" /\ state' = [st EXCEPT !.out = <<>>]
          /\ {"phase", "status"} \subseteq DOMAIN client' /\ ~Ended(client')
          /\ {"status", "reason", "seen"} \subseteq DOMAIN tracker'
          /\ tracker'.status = t.status
      BY <1>1, <1>4, <1>7, <2>1, ClearedKept, PassOpen, Zenon
    <2>3. ClaudeCalm(state')
      BY <2>1, <2>2, ClearedKept, Zenon
    <2>4. SuccessIsEarned'
      BY <2>2, Zenon DEF SuccessIsEarned, Ended
    <2>5. Underway'
      <3>1. CutShort' => tracker'.status = "incomplete"
        BY <1>5, <1>6, <2>2, Zenon DEF CutShort
      <3>2. QED
        BY <1>4, <1>5, <1>6, <2>2, <2>3, <3>1, Zenon DEF Underway, Ended
    <2>6. QED
      BY <1>3, <2>4, <2>5, Zenon DEF EarnedInv
  <1>10. CASE e.t = "message_stop"
    <2>1. Proper(st.out) /\ EndsSource(e)
      BY <1>7, <1>8, <1>10, ClaudeTranslate, Zenon DEF EndsSource
    <2>2. /\ outcome' # ""
          /\ Ended(client') => outcome' = "done" /\ client'.status = t.status
      BY <1>1, <1>4, <1>7, <2>1, PassEnd, Zenon
    <2>3. SuccessIsEarned'
      BY <1>5, <1>6, <2>2, Zenon DEF SuccessIsEarned, CutOff, CutStops, Ended
    <2>4. QED
      BY <1>3, <2>2, <2>3, Zenon DEF EarnedInv
  <1>11. QED
    BY <1>9, <1>10, Zenon

LEMMA EarnedFrame ==
    ASSUME EarnedInv, Frame
    PROVE  EarnedInv'
  <1>1. PICK e \in Events : Sends(e) /\ Forward(e)
    BY Zenon DEF Frame
  <1>2. outcome = "" /\ profile' = profile
    BY <1>1, Zenon DEF Frame, Sends
  <1>3. CASE ~Active
    BY <1>2, <1>3, Zenon DEF EarnedInv, SuccessIsEarned, Active, route
  <1>4. CASE Active
    <2> DEFINE end == SourceStatus(e)
               t == ObserveSource(tracker, end)
    <2>1. CASE outcome' # "" /\ client' = client
      BY <1>2, <2>1, NothingTold, Zenon
    <2>2. ASSUME ~(outcome' # "" /\ client' = client)
          PROVE  /\ end.status # "failed" /\ MayTranslate(t, e)
                 /\ \E st \in {Translate(state, e)} : Pass(e, t, st, Passed(t, st.out))
      <3>1. ~MayTranslate(t, e) => EndsSource(e)
        BY DEF MayTranslate, EndsSource
      <3>2. Ending(t, FALSE) # ""
        BY DEF Ending
      <3> HIDE DEF end, t
      <3>3. QED
        BY <1>1, <2>2, <3>1, <3>2, Zenon DEF Forward, end, t
    <2>3. route \in {"chat-responses", "claude-responses"}
      BY <1>4, ActiveRoutes, Zenon DEF EarnedInv
    <2>4. route = "chat-responses" => e \in ChatEvents
      BY <1>1 DEF Events, From
    <2>5. route = "claude-responses" => e \in ClaudeEvents
      BY <1>1 DEF Events, From
    <2> HIDE DEF t, end
    <2>6. ASSUME ~(outcome' # "" /\ client' = client) PROVE EarnedInv'
      <3>1. PICK st : st = Translate(state, e) /\ Pass(e, t, st, Passed(t, st.out))
        BY <2>2, <2>6, Zenon
      <3>2. end.status # "failed" /\ MayTranslate(t, e)
        BY <2>2, <2>6, Zenon
      <3>3. end = SourceStatus(e) /\ t = ObserveSource(tracker, end)
        BY DEF end, t
      <3>4. CASE route = "chat-responses"
        BY <1>1, <1>2, <2>4, <3>1, <3>2, <3>3, <3>4, ChatEarned, Zenon
      <3>5. CASE route = "claude-responses"
        BY <1>1, <1>2, <2>5, <3>1, <3>2, <3>3, <3>5, ClaudeEarned, Zenon
      <3>6. QED
        BY <2>3, <3>4, <3>5
    <2>7. QED
      BY <2>1, <2>6, Zenon
  <1>5. QED
    BY <1>3, <1>4

LEMMA EarnedNext ==
    ASSUME EarnedInv, [Next]_vars
    PROVE  EarnedInv'
  <1>1. CASE Frame
    BY <1>1, EarnedFrame
  <1>2. CASE Hangup
    <2>1. outcome = "" /\ outcome' # "" /\ client' = client /\ profile' = profile
      BY <1>2 DEF Hangup, Ending
    <2>2. QED
      BY <2>1, NothingTold
  <1>3. CASE UNCHANGED vars
    BY <1>3 DEF vars, EarnedInv, SuccessIsEarned, Underway, Active, route, Ended, CutOff,
                CutShort
  <1>4. QED
    BY <1>1, <1>2, <1>3 DEF Next

\* A client of responses is told that its answer is complete only when the upstream
\* completed it, and of an end only when there was one, for every upstream.
THEOREM EarnedTheorem == Spec => []SuccessIsEarned
  <1>1. EarnedInv => SuccessIsEarned
    BY DEF EarnedInv
  <1>2. QED
    BY <1>1, EarnedInit, EarnedNext, PTL DEF Spec

-----------------------------------------------------------------------------
(***************************************************************************)
(* The tracker leaves streams to other clients as they are.                *)
(***************************************************************************)
Same(x, aim) == x = aim
AllFold == INSTANCE FoldFacts WITH Op <- PassStep, Good <- Same
LEMMA AllInduction == AllFold!Induction
  BY IndexInduction, Zenon DEF AllFold!Induction

Steps(out, n) ==
    /\ SubSeq(out, 1, 0) = <<>> /\ SubSeq(out, 1, n) = out
    /\ \A k \in 1 .. n : SubSeq(out, 1, k - 1) \o <<out[k]>> = SubSeq(out, 1, k)

LEMMA FirstOnes ==
    ASSUME NEW R, NEW out \in Seq(R)
    PROVE  Steps(out, Len(out))
  <1>1. SubSeq(out, 1, 0) = <<>>
    OBVIOUS
  <1>2. SubSeq(out, 1, Len(out)) = out
    OBVIOUS
  <1>3. ASSUME NEW k \in 1 .. Len(out)
        PROVE  SubSeq(out, 1, k - 1) \o <<out[k]>> = SubSeq(out, 1, k)
    <2> DEFINE a == SubSeq(out, 1, k - 1)
               b == SubSeq(out, 1, k)
               c == a \o <<out[k]>>
    <2>1. a \in Seq(R) /\ Len(a) = k - 1 /\ \A i \in 1 .. k - 1 : a[i] = out[i]
      OBVIOUS
    <2>2. b \in Seq(R) /\ Len(b) = k /\ \A i \in 1 .. k : b[i] = out[i]
      OBVIOUS
    <2>3. out[k] \in R
      OBVIOUS
    <2> HIDE DEF a, b
    <2>4. c \in Seq(R) /\ Len(c) = k /\ \A i \in 1 .. k : c[i] = out[i]
      BY <2>1, <2>3
    <2> HIDE DEF c
    <2>5. c = b
      BY <2>2, <2>4
    <2>6. QED
      BY <2>5 DEF a, b, c
  <1>4. QED
    BY <1>1, <1>2, <1>3 DEF Steps

LEMMA PassedAll ==
    ASSUME ~Active, NEW t, NEW out, IsSeq(out)
    PROVE  Passed(t, out) = out
  <1>1. PICK R : out \in Seq(R)
    BY DEF IsSeq
  <1> DEFINE n == Len(out)
             aims == [k \in 0 .. n |-> SubSeq(out, 1, k)]
  <1>2. n \in Nat /\ DOMAIN out = 1 .. n
    BY <1>1
  <1>3. Passed(t, out) = AllFold!Folded(t, <<>>, out)
    BY DEF AllFold!Folded, AllFold!Part, AllFold!Table, AllFold!Top, PassStep, Passed,
           FoldLeft, MapThenFoldSet, Max
  <1>4. \A x, e : PassStep(x, e, t) = x \o <<e>>
    <2>1. \A e : Authorized(t, e) = <<e>>
      BY Zenon DEF Authorized
    <2>2. QED
      BY <2>1, Zenon DEF PassStep
  <1>5. /\ aims[0] = <<>> /\ aims[n] = out
        /\ \A k \in 1 .. n : aims[k - 1] \o <<out[k]>> = aims[k]
    <2>1. \A k \in 0 .. n : aims[k] = SubSeq(out, 1, k)
      OBVIOUS
    <2>2. 0 \in 0 .. n /\ n \in 0 .. n /\ \A k \in 1 .. n : k \in 0 .. n /\ k - 1 \in 0 .. n
      BY <1>2
    <2>3. Steps(out, n)
      BY <1>1, FirstOnes
    <2> HIDE DEF n, aims
    <2>4. QED
      BY <2>1, <2>2, <2>3 DEF Steps
  <1> HIDE DEF n, aims
  <1>6. Same(AllFold!Folded(t, <<>>, out), aims[n])
    <2>1. Same(<<>>, aims[0])
      BY <1>5 DEF Same
    <2>2. \A x : \A k \in 1 .. n :
            Same(x, aims[k - 1]) => Same(PassStep(x, out[k], t), aims[k])
      BY <1>4, <1>5 DEF Same
    <2>3. QED
      BY <1>2, <2>1, <2>2, AllInduction, AllFold!FoldReaches
  <1>7. QED
    BY <1>3, <1>5, <1>6 DEF Same

-----------------------------------------------------------------------------
(***************************************************************************)
(* From responses to Claude: the translator knows which block of text or   *)
(* thoughts its client has open; that of a call is the one at the head of  *)
(* its queue.                                                              *)
(***************************************************************************)
QueueFields == {"toolUse", "next", "textSeen", "open", "signature", "summary", "uses",
                "results", "calls", "queue", "active", "deferred", "out"}
StreamFields == {"of", "named", "args", "sent", "streamed", "hail", "done"}
IsStream(c) == DOMAIN c = StreamFields /\ c.named \in BOOLEAN /\ c.done \in BOOLEAN
Streams(calls) == DOMAIN calls \subseteq Nat /\ \A ix \in DOMAIN calls : IsStream(calls[ix])
Lined(queue, calls) == IsSeq(queue) /\ \A i \in DOMAIN queue : queue[i] \in DOMAIN calls
QueueShaped(st) ==
    /\ DOMAIN st = QueueFields /\ Streams(st.calls) /\ Lined(st.queue, st.calls)
    /\ IsSeq(st.deferred)

\* No block is open; one of text or of thoughts is; that of a call is.
Resting(st, m) == st.active = -1 /\ st.open \notin Kinds /\ Idle(m, st.out, st.next)
Telling(st, m, kind) ==
    st.active = -1 /\ kind \in Kinds /\ st.open = kind /\ Writing(m, st.out, st.next, kind)
Calling(st, m) ==
    /\ st.open \notin Kinds /\ Writing(m, st.out, st.next, "tool_use")
    /\ 0 < Len(st.queue) /\ st.active = Head(st.queue) /\ st.calls[st.active].named = TRUE
Chats(st, m) == Resting(st, m) \/ \E kind \in Kinds : Telling(st, m, kind)

\* What text and thoughts leave alone.
Apart(x, st) ==
    /\ DOMAIN x = DOMAIN st
    /\ x.calls = st.calls /\ x.queue = st.queue /\ x.active = st.active
    /\ x.deferred = st.deferred
Plainly(x, st) == Apart(x, st) /\ x.uses = st.uses

LEMMA QueueEvents ==
    /\ Opens(CodexClaude!MessageStart)
    /\ \A ix, kind, of : Begins(CodexClaude!BlockStart(ix, kind, of), ix, kind)
    /\ \A ix, kind, body : Brings(CodexClaude!BlockDelta(ix, kind, body), ix, kind)
    /\ \A ix : Signs(CodexClaude!Signature(ix), ix)
    /\ \A ix : Stops(CodexClaude!BlockStop(ix), ix)
    /\ \A stop : Concludes(CodexClaude!MessageDelta(stop))
    /\ Closes(CodexClaude!MessageStop)
  BY Zenon DEF Opens, Begins, Brings, Signs, Stops, Concludes, Closes,
       CodexClaude!MessageStart, CodexClaude!BlockStart, CodexClaude!BlockDelta,
       CodexClaude!Signature, CodexClaude!BlockStop, CodexClaude!MessageDelta,
       CodexClaude!MessageStop

\* An event more.
LEMMA QueueEmit ==
    \A st, e, x : DOMAIN st = QueueFields /\ x = CodexClaude!Emit(st, e) =>
      /\ Plainly(x, st) /\ x.out = Append(st.out, e) /\ x.next = st.next /\ x.open = st.open
      /\ x.signature = st.signature /\ x.results = st.results
  BY DEF QueueFields, CodexClaude!Emit, Plainly, Apart

\* States that differ in what no client sees.
LEMMA QueueUnseen ==
    \A st, x : /\ DOMAIN x = DOMAIN st /\ Plainly(x, st)
               /\ x.out = st.out /\ x.next = st.next /\ x.open = st.open
      => /\ QueueShaped(st) => QueueShaped(x)
         /\ \A m : Resting(st, m) => Resting(x, m)
         /\ \A m, kind : Telling(st, m, kind) => Telling(x, m, kind)
         /\ \A m : Chats(st, m) => Chats(x, m)
         /\ \A m : Calling(st, m) => Calling(x, m)
  BY DEF Plainly, Apart, QueueShaped, Resting, Telling, Calling, Chats

\* What is apart keeps its shape.
LEMMA QueueApart ==
    \A st, x : QueueShaped(st) /\ Apart(x, st) => QueueShaped(x)
  BY DEF Apart, QueueShaped

\* More of the block.
LEMMA QueueSay ==
    \A st, m, kind, body, x :
      DOMAIN st = QueueFields /\ Telling(st, m, kind) /\ x = CodexClaude!Say(st, kind, body) =>
        Telling(x, m, kind) /\ Plainly(x, st)
  <1> SUFFICES ASSUME NEW st, NEW m, NEW kind, NEW body, NEW x, DOMAIN st = QueueFields,
                      Telling(st, m, kind), x = CodexClaude!Say(st, kind, body)
               PROVE  Telling(x, m, kind) /\ Plainly(x, st)
    OBVIOUS
  <1> DEFINE e == CodexClaude!BlockDelta(st.next, kind, body)
  <1>1. x = CodexClaude!Emit(st, e)
    BY DEF CodexClaude!Say
  <1>2. Brings(e, st.next, kind)
    BY QueueEvents
  <1> HIDE DEF e
  <1>3. /\ Plainly(x, st) /\ x.out = Append(st.out, e) /\ x.next = st.next /\ x.open = st.open
    BY <1>1, QueueEmit
  <1>4. Writing(m, Append(st.out, e), st.next, kind)
    BY <1>2, WritePiece DEF Telling
  <1>5. QED
    BY <1>3, <1>4 DEF Telling, Plainly, Apart

\* A block is stopped, if it is open: of thoughts, after their signature.
LEMMA QueueStop ==
    \A st, m, kind, x :
      DOMAIN st = QueueFields /\ kind \in Kinds /\ x = CodexClaude!Stop(st, kind) =>
        /\ st.open # kind => x = st
        /\ Telling(st, m, kind) => Resting(x, m) /\ Plainly(x, st)
  <1> SUFFICES ASSUME NEW st, NEW m, NEW kind \in Kinds, NEW x, DOMAIN st = QueueFields,
                      x = CodexClaude!Stop(st, kind)
               PROVE  /\ st.open # kind => x = st
                      /\ Telling(st, m, kind) => Resting(x, m) /\ Plainly(x, st)
    OBVIOUS
  <1>1. ASSUME st.open # kind PROVE x = st
    BY <1>1, Zenon DEF CodexClaude!Stop
  <1>2. ASSUME Telling(st, m, kind) PROVE Resting(x, m) /\ Plainly(x, st)
    <2> DEFINE signed == kind = "thinking" /\ st.signature
               f == CodexClaude!Signature(st.next)
               s == IF signed THEN CodexClaude!Emit(st, f) ELSE st
               e == CodexClaude!BlockStop(st.next)
               y == CodexClaude!Emit(s, e)
    <2>1. \E none : none \notin Kinds /\ x = [y EXCEPT !.open = none, !.next = @ + 1]
      <3>1. "" \notin Kinds
        BY Zenon DEF Kinds
      <3>2. st.open = kind
        BY <1>2 DEF Telling
      <3>3. x = [y EXCEPT !.open = "", !.next = @ + 1]
        BY <3>2, Zenon DEF CodexClaude!Stop
      <3>4. QED
        BY <3>1, <3>3, Zenon
    <2>2. Signs(f, st.next) /\ Stops(e, st.next)
      BY QueueEvents
    <2> HIDE DEF e, f
    <2>3. Telling(s, m, kind) /\ Plainly(s, st) /\ s.next = st.next
      <3>1. CASE signed
        <4>1. s = CodexClaude!Emit(st, f) /\ kind = "thinking"
          BY <3>1
        <4> HIDE DEF s, signed
        <4>2. /\ Plainly(s, st) /\ s.out = Append(st.out, f) /\ s.next = st.next
              /\ s.open = st.open
          BY <4>1, QueueEmit
        <4>3. Writing(m, Append(st.out, f), st.next, kind)
          BY <1>2, <2>2, <4>1, WritePiece DEF Telling
        <4>4. QED
          BY <1>2, <4>2, <4>3 DEF Telling, Plainly, Apart
      <3>2. CASE ~signed
        <4>1. s = st
          BY <3>2
        <4> HIDE DEF s, signed
        <4>2. QED
          BY <1>2, <4>1 DEF Plainly, Apart
      <3>3. QED
        BY <3>1, <3>2
    <2> HIDE DEF s, signed
    <2>4. /\ Plainly(y, s) /\ y.out = Append(s.out, e) /\ y.next = s.next
      BY <2>3, QueueEmit DEF Plainly, Apart
    <2> HIDE DEF y
    <2>5. PICK none : none \notin Kinds /\ x = [y EXCEPT !.open = none, !.next = @ + 1]
      BY <2>1, Zenon
    <2>6. /\ Plainly(x, y) /\ x.out = y.out /\ x.next = y.next + 1 /\ x.open = none
      BY <2>3, <2>4, <2>5 DEF Plainly, Apart, QueueFields
    <2>7. Idle(m, Append(s.out, e), st.next + 1)
      BY <2>2, <2>3, WriteStop DEF Telling
    <2>8. Resting(x, m)
      <3>1. x.out = Append(s.out, e) /\ x.next = st.next + 1 /\ x.open \notin Kinds
        BY <2>3, <2>4, <2>5, <2>6
      <3>2. x.active = -1
        BY <2>3, <2>4, <2>6 DEF Telling, Plainly, Apart
      <3>3. QED
        BY <2>7, <3>1, <3>2 DEF Resting
    <2>9. QED
      BY <2>3, <2>4, <2>6, <2>8 DEF Plainly, Apart
  <1>3. QED
    BY <1>1, <1>2

\* A block is started, if it is not the open one.
LEMMA QueueStart ==
    \A st, m, kind, x :
      /\ DOMAIN st = QueueFields /\ kind \in Kinds /\ x = CodexClaude!Start(st, kind)
      /\ Resting(st, m) \/ Telling(st, m, kind)
      => Telling(x, m, kind) /\ Plainly(x, st)
  <1> SUFFICES ASSUME NEW st, NEW m, NEW kind \in Kinds, NEW x, DOMAIN st = QueueFields,
                      x = CodexClaude!Start(st, kind), Resting(st, m) \/ Telling(st, m, kind)
               PROVE  Telling(x, m, kind) /\ Plainly(x, st)
    OBVIOUS
  <1>1. CASE Telling(st, m, kind)
    <2>1. x = st
      BY <1>1 DEF Telling, CodexClaude!Start
    <2>2. QED
      BY <1>1, <2>1 DEF Plainly, Apart
  <1>2. CASE Resting(st, m)
    <2> DEFINE e == CodexClaude!BlockStart(st.next, kind, 0)
               y == CodexClaude!Emit(st, e)
    <2>1. x = [y EXCEPT !.open = kind]
      <3>1. st.open # kind
        BY <1>2 DEF Resting
      <3>2. QED
        BY <3>1, Zenon DEF CodexClaude!Start
    <2>2. Begins(e, st.next, kind)
      BY QueueEvents
    <2> HIDE DEF e
    <2>3. Plainly(y, st) /\ y.out = Append(st.out, e) /\ y.next = st.next
      BY QueueEmit
    <2> HIDE DEF y
    <2>4. Plainly(x, y) /\ x.out = y.out /\ x.next = y.next /\ x.open = kind
      BY <2>1, <2>3 DEF Plainly, Apart, QueueFields
    <2>5. Writing(m, Append(st.out, e), st.next, kind)
      BY <1>2, <2>2, WriteBegin DEF Resting
    <2>6. QED
      BY <1>2, <2>3, <2>4, <2>5 DEF Telling, Resting, Plainly, Apart
  <1>3. QED
    BY <1>1, <1>2

\* Another block is stopped before one is started, and both before a call.
LEMMA QueueTurns ==
    \A st, m, kind, other, x :
      /\ DOMAIN st = QueueFields /\ kind \in Kinds /\ other \in Kinds /\ kind # other
      /\ Chats(st, m) /\ x = CodexClaude!Stop(st, other)
      => Plainly(x, st) /\ (Resting(x, m) \/ Telling(x, m, kind))
  <1> SUFFICES ASSUME NEW st, NEW m, NEW kind \in Kinds, NEW other \in Kinds, NEW x,
                      DOMAIN st = QueueFields, kind # other, Chats(st, m),
                      x = CodexClaude!Stop(st, other)
               PROVE  Plainly(x, st) /\ (Resting(x, m) \/ Telling(x, m, kind))
    OBVIOUS
  <1>1. CASE st.open # other
    <2>1. x = st
      BY <1>1, QueueStop
    <2>2. Resting(st, m) \/ Telling(st, m, kind)
      BY <1>1 DEF Chats, Telling, Kinds
    <2>3. QED
      BY <2>1, <2>2 DEF Plainly, Apart
  <1>2. CASE st.open = other
    <2>1. Telling(st, m, other)
      BY <1>2 DEF Chats, Telling, Resting
    <2>2. QED
      BY <2>1, QueueStop
  <1>3. QED
    BY <1>1, <1>2

LEMMA QueueStops ==
    \A st, x : DOMAIN st = QueueFields /\ x = CodexClaude!StopBoth(st) =>
      /\ st.open \notin Kinds => x = st
      /\ \A m : Chats(st, m) => Resting(x, m) /\ Plainly(x, st)
  <1> SUFFICES ASSUME NEW st, NEW x, DOMAIN st = QueueFields, x = CodexClaude!StopBoth(st)
               PROVE  /\ st.open \notin Kinds => x = st
                      /\ \A m : Chats(st, m) => Resting(x, m) /\ Plainly(x, st)
    OBVIOUS
  <1> DEFINE a == CodexClaude!Stop(st, "thinking")
  <1>1. "text" \in Kinds /\ "thinking" \in Kinds /\ "text" # "thinking"
    BY DEF Kinds
  <1>2. x = CodexClaude!Stop(a, "text")
    BY DEF CodexClaude!StopBoth
  <1>3. ASSUME st.open \notin Kinds PROVE x = st
    <2>1. a = st
      BY <1>1, <1>3, QueueStop
    <2>2. QED
      BY <1>1, <1>2, <1>3, <2>1, QueueStop
  <1>4. ASSUME NEW m, Chats(st, m) PROVE Resting(x, m) /\ Plainly(x, st)
    <2>1. Plainly(a, st) /\ (Resting(a, m) \/ Telling(a, m, "text"))
      BY <1>1, <1>4, QueueTurns
    <2> HIDE DEF a
    <2>2. DOMAIN a = QueueFields
      BY <2>1 DEF Plainly, Apart
    <2>3. CASE Resting(a, m)
      <3>1. x = a
        BY <1>1, <1>2, <2>2, <2>3, QueueStop DEF Resting
      <3>2. QED
        BY <2>1, <2>3, <3>1
    <2>4. CASE Telling(a, m, "text")
      <3>1. Resting(x, m) /\ Plainly(x, a)
        BY <1>1, <1>2, <2>2, <2>4, QueueStop
      <3>2. QED
        BY <2>1, <3>1 DEF Plainly, Apart
    <2>5. QED
      BY <2>1, <2>3, <2>4
  <1>5. QED
    BY <1>3, <1>4

\* Two events one after the other.
LEMMA TwoMore ==
    \A out, a, b : IsSeq(out) => out \o <<a, b>> = Append(Append(out, a), b)
  <1> SUFFICES ASSUME NEW out, NEW a, NEW b, IsSeq(out)
               PROVE  out \o <<a, b>> = Append(Append(out, a), b)
    BY Zenon
  <1>1. PICK R : Append(out, a) \in Seq(R) /\ b \in R
    BY Longer, SeqWith, Zenon
  <1>2. PICK S : out \in Seq(S) /\ a \in S
    BY SeqWith
  <1> DEFINE Q == R \union S
  <1>3. out \in Seq(Q) /\ a \in Q /\ b \in Q
    <2>1. \A i \in 1 .. Len(out) : out[i] \in Q
      BY <1>2
    <2> HIDE DEF Q
    <2>2. out \in Seq(Q)
      BY <1>2, <2>1
    <2>3. QED
      BY <1>1, <1>2, <2>2 DEF Q
  <1> HIDE DEF Q
  <1>4. <<a, b>> \in Seq(Q)
    BY <1>3
  <1> DEFINE x == out \o <<a, b>>
             y == Append(Append(out, a), b)
  <1>5. x \in Seq(Q) /\ Len(x) = Len(out) + 2
    BY <1>3, <1>4
  <1>6. y \in Seq(Q) /\ Len(y) = Len(out) + 2
    BY <1>3
  <1>7. \A i \in 1 .. Len(out) + 2 : x[i] = y[i]
    BY <1>3, <1>4
  <1> HIDE DEF x, y
  <1>8. x = y
    BY <1>5, <1>6, <1>7
  <1>9. QED
    BY <1>8 DEF x, y

\* A search that was not asked for yet is a block of its own.
LEMMA QueueAsk ==
    \A st, m, ix, query, x :
      /\ QueueShaped(st) /\ Chats(st, m) /\ ix \notin st.uses
      /\ x = CodexClaude!SearchUse(st, ix, query)
      => Resting(x, m) /\ Apart(x, st) /\ x.uses = st.uses \union {ix}
  <1> SUFFICES ASSUME NEW st, NEW m, NEW ix, NEW query, NEW x, QueueShaped(st), Chats(st, m),
                      ix \notin st.uses, x = CodexClaude!SearchUse(st, ix, query)
               PROVE  Resting(x, m) /\ Apart(x, st) /\ x.uses = st.uses \union {ix}
    OBVIOUS
  <1> DEFINE s == CodexClaude!StopBoth(st)
             e == CodexClaude!BlockStart(s.next, "server_tool_use", ix)
             y == CodexClaude!Emit(s, e)
             f == CodexClaude!BlockDelta(y.next, "server_tool_use", query)
             a == IF query = <<>> THEN y ELSE CodexClaude!Emit(y, f)
             g == CodexClaude!BlockStop(a.next)
             z == CodexClaude!Emit(a, g)
  <1>1. x = [z EXCEPT !.next = @ + 1, !.uses = @ \union {ix}]
    BY Zenon DEF CodexClaude!SearchUse, CodexClaude!Say
  <1>2. Resting(s, m) /\ Plainly(s, st)
    BY QueueStops DEF QueueShaped
  <1> HIDE DEF s
  <1>3. DOMAIN s = QueueFields
    BY <1>2 DEF Plainly, Apart, QueueShaped
  <1>4. Begins(e, s.next, "server_tool_use") /\ Brings(f, y.next, "server_tool_use")
        /\ Stops(g, a.next)
    BY QueueEvents
  <1> HIDE DEF e, f, g
  <1>5. /\ Plainly(y, s) /\ y.out = Append(s.out, e) /\ y.next = s.next /\ y.open = s.open
    BY <1>3, QueueEmit
  <1> HIDE DEF y
  <1>6. Writing(m, y.out, y.next, "server_tool_use") /\ DOMAIN y = QueueFields
    <2>1. Writing(m, Append(s.out, e), s.next, "server_tool_use")
      BY <1>2, <1>4, WriteBegin DEF Resting
    <2>2. QED
      BY <1>3, <1>5, <2>1 DEF Plainly, Apart
  <1>7. /\ Plainly(a, y) /\ Writing(m, a.out, a.next, "server_tool_use") /\ a.open = y.open
        /\ DOMAIN a = QueueFields
    <2>1. CASE query = <<>>
      <3>1. a = y
        BY <2>1
      <3>2. QED
        BY <1>6, <3>1 DEF Plainly, Apart
    <2>2. CASE query # <<>>
      <3>1. a = CodexClaude!Emit(y, f)
        BY <2>2
      <3> HIDE DEF a
      <3>2. Plainly(a, y) /\ a.out = Append(y.out, f) /\ a.next = y.next /\ a.open = y.open
        BY <1>6, <3>1, QueueEmit
      <3>3. Writing(m, Append(y.out, f), y.next, "server_tool_use")
        BY <1>4, <1>6, WritePiece
      <3>4. QED
        BY <1>6, <3>2, <3>3 DEF Plainly, Apart
    <2>3. QED
      BY <2>1, <2>2
  <1> HIDE DEF a
  <1>8. /\ Plainly(z, a) /\ z.out = Append(a.out, g) /\ z.next = a.next /\ z.open = a.open
    BY <1>7, QueueEmit
  <1> HIDE DEF z
  <1>9. Idle(m, Append(a.out, g), a.next + 1)
    BY <1>4, <1>7, WriteStop
  <1>10. /\ Apart(x, z) /\ x.out = z.out /\ x.next = z.next + 1 /\ x.open = z.open
         /\ x.uses = z.uses \union {ix}
    BY <1>1, <1>7, <1>8 DEF Plainly, Apart, QueueFields
  <1>11. x.out = Append(a.out, g) /\ x.next = a.next + 1 /\ x.open = s.open
    BY <1>5, <1>7, <1>8, <1>10
  <1>12. Apart(x, s) /\ x.uses = s.uses \union {ix}
    BY <1>5, <1>7, <1>8, <1>10 DEF Plainly, Apart
  <1>13. Resting(x, m)
    BY <1>2, <1>9, <1>11, <1>12 DEF Resting, Apart
  <1>14. QED
    BY <1>2, <1>12, <1>13 DEF Plainly, Apart

LEMMA QueueFound ==
    \A st, m, ix, query, x :
      /\ QueueShaped(st) /\ Chats(st, m) /\ ix \notin st.uses
      /\ x = CodexClaude!SearchResult(st, ix, query)
      => Resting(x, m) /\ Apart(x, st) /\ x.uses = st.uses \union {ix}
  <1> SUFFICES ASSUME NEW st, NEW m, NEW ix, NEW query, NEW x, QueueShaped(st), Chats(st, m),
                      ix \notin st.uses, x = CodexClaude!SearchResult(st, ix, query)
               PROVE  Resting(x, m) /\ Apart(x, st) /\ x.uses = st.uses \union {ix}
    OBVIOUS
  <1> DEFINE s == CodexClaude!SearchUse(st, ix, query)
             e == CodexClaude!BlockStart(s.next, "web_search_tool_result", ix)
             f == CodexClaude!BlockStop(s.next)
             o == s.out \o <<e, f>>
             r == s.results \union {ix}
             y == [s EXCEPT !.next = @ + 1, !.results = r, !.out = o]
  <1>1. x = s \/ x = y
    BY Zenon DEF CodexClaude!SearchResult
  <1>2. Resting(s, m) /\ Apart(s, st) /\ s.uses = st.uses \union {ix}
    BY QueueAsk, Zenon
  <1> HIDE DEF s
  <1>3. Begins(e, s.next, "web_search_tool_result") /\ Stops(f, s.next)
    BY QueueEvents
  <1>4. o = Append(Append(s.out, e), f)
    BY <1>2, TwoMore DEF Resting, Idle
  <1> HIDE DEF e, f, o, r
  <1>5. Idle(m, Append(Append(s.out, e), f), s.next + 1)
    <2>1. Writing(m, Append(s.out, e), s.next, "web_search_tool_result")
      BY <1>2, <1>3, WriteBegin DEF Resting
    <2>2. QED
      BY <1>3, <2>1, WriteStop
  <1>6. /\ Apart(y, s) /\ y.out = o /\ y.next = s.next + 1 /\ y.open = s.open /\ y.uses = s.uses
    BY <1>2 DEF Apart, QueueShaped, QueueFields
  <1> HIDE DEF y
  <1>7. Resting(y, m)
    BY <1>2, <1>4, <1>5, <1>6 DEF Resting, Apart
  <1>8. QED
    BY <1>1, <1>2, <1>6, <1>7 DEF Apart

\* Reasoning is finished.
LEMMA QueueReasoning ==
    \A st, m, item, x :
      QueueShaped(st) /\ Chats(st, m) /\ x = CodexClaude!ReasoningDone(st, item) =>
        Chats(x, m) /\ Plainly(x, st)
  <1> SUFFICES ASSUME NEW st, NEW m, NEW item, NEW x, QueueShaped(st), Chats(st, m),
                      x = CodexClaude!ReasoningDone(st, item)
               PROVE  Chats(x, m) /\ Plainly(x, st)
    OBVIOUS
  <1> DEFINE t == CodexClaude!Stop(st, "text")
             sign == t.signature \/ item.signed
             s == [t EXCEPT !.signature = sign]
             a == IF s.summary \/ ~s.signature THEN s ELSE CodexClaude!Start(s, "thinking")
             b == IF s.summary \/ s.signature THEN CodexClaude!Stop(a, "thinking") ELSE a
  <1>1. x = [b EXCEPT !.signature = FALSE, !.summary = FALSE]
    BY DEF CodexClaude!ReasoningDone
  <1>2. "text" \in Kinds /\ "thinking" \in Kinds /\ "text" # "thinking"
    BY DEF Kinds
  <1>3. Plainly(t, st) /\ (Resting(t, m) \/ Telling(t, m, "thinking"))
    BY <1>2, QueueTurns DEF QueueShaped
  <1> HIDE DEF t, sign
  <1>4. DOMAIN t = QueueFields
    BY <1>3 DEF Plainly, Apart, QueueShaped
  <1>5. /\ Plainly(s, t) /\ s.out = t.out /\ s.next = t.next /\ s.open = t.open
        /\ DOMAIN s = QueueFields
    BY <1>4 DEF Plainly, Apart, QueueFields
  <1> HIDE DEF s
  <1>6. Plainly(s, st) /\ (Resting(s, m) \/ Telling(s, m, "thinking"))
    <2>1. Resting(s, m) \/ Telling(s, m, "thinking")
      BY <1>3, <1>4, <1>5, QueueUnseen
    <2>2. QED
      BY <1>3, <1>5, <2>1 DEF Plainly, Apart
  <1>7. Plainly(a, st) /\ (Resting(a, m) \/ Telling(a, m, "thinking"))
    <2> DEFINE y == CodexClaude!Start(s, "thinking")
    <2>1. Telling(y, m, "thinking") /\ Plainly(y, s)
      BY <1>2, <1>5, <1>6, QueueStart
    <2>2. a = s \/ a = y
      OBVIOUS
    <2> HIDE DEF y, a
    <2>3. QED
      BY <1>6, <2>1, <2>2 DEF Plainly, Apart
  <1> HIDE DEF a
  <1>8. Plainly(b, st) /\ Chats(b, m)
    <2> DEFINE y == CodexClaude!Stop(a, "thinking")
    <2>1. Plainly(y, a) /\ Resting(y, m)
      <3>1. CASE Telling(a, m, "thinking")
        BY <1>2, <1>4, <1>7, <3>1, <1>3, QueueStop DEF Plainly, Apart
      <3>2. CASE Resting(a, m)
        <4>1. y = a
          BY <1>2, <1>3, <1>4, <1>7, <3>2, QueueStop DEF Resting, Plainly, Apart
        <4>2. QED
          BY <3>2, <4>1 DEF Plainly, Apart
      <3>3. QED
        BY <1>7, <3>1, <3>2
    <2>2. b = a \/ b = y
      OBVIOUS
    <2> HIDE DEF y, b
    <2>3. QED
      BY <1>2, <1>7, <2>1, <2>2 DEF Chats, Plainly, Apart
  <1> HIDE DEF b
  <1>9. Plainly(x, b) /\ x.out = b.out /\ x.next = b.next /\ x.open = b.open
    BY <1>1, <1>3, <1>4, <1>8, Zenon DEF Plainly, Apart, QueueFields
  <1>10. Chats(x, m)
    BY <1>8, <1>9, QueueUnseen DEF Plainly, Apart
  <1>11. QED
    BY <1>8, <1>9, <1>10 DEF Plainly, Apart

\* Text that comes at once, and in pieces.
LEMMA QueueText ==
    \A st, m, kind, other, body, x :
      /\ QueueShaped(st) /\ Chats(st, m) /\ kind \in Kinds /\ other \in Kinds /\ kind # other
      /\ x = CodexClaude!Say(CodexClaude!Start(CodexClaude!Stop(st, other), kind), kind, body)
      => Telling(x, m, kind) /\ Plainly(x, st)
  <1> SUFFICES ASSUME NEW st, NEW m, NEW kind \in Kinds, NEW other \in Kinds, kind # other,
                      NEW body, NEW x, QueueShaped(st), Chats(st, m),
                      x = CodexClaude!Say(CodexClaude!Start(CodexClaude!Stop(st, other), kind),
                                          kind, body)
               PROVE  Telling(x, m, kind) /\ Plainly(x, st)
    OBVIOUS
  <1> DEFINE a == CodexClaude!Stop(st, other)
             b == CodexClaude!Start(a, kind)
  <1>1. Plainly(a, st) /\ (Resting(a, m) \/ Telling(a, m, kind))
    BY QueueTurns DEF QueueShaped
  <1> HIDE DEF a
  <1>2. Telling(b, m, kind) /\ Plainly(b, a)
    BY <1>1, QueueStart DEF Plainly, Apart, QueueShaped
  <1> HIDE DEF b
  <1>3. x = CodexClaude!Say(b, kind, body)
    BY DEF b, a
  <1>4. Telling(x, m, kind) /\ Plainly(x, b)
    BY <1>1, <1>2, <1>3, QueueSay DEF Plainly, Apart, QueueShaped
  <1>5. QED
    BY <1>1, <1>2, <1>4 DEF Plainly, Apart

LEMMA QueueMessage ==
    \A st, m, item, x :
      QueueShaped(st) /\ Chats(st, m) /\ x = CodexClaude!MessageDone(st, item) =>
        Chats(x, m) /\ Plainly(x, st)
  <1> SUFFICES ASSUME NEW st, NEW m, NEW item, NEW x, QueueShaped(st), Chats(st, m),
                      x = CodexClaude!MessageDone(st, item)
               PROVE  Chats(x, m) /\ Plainly(x, st)
    OBVIOUS
  <1> DEFINE a == CodexClaude!Say(CodexClaude!Start(CodexClaude!Stop(st, "thinking"), "text"),
                                  "text", item.body)
             b == CodexClaude!Stop(a, "text")
             y == [b EXCEPT !.textSeen = TRUE]
  <1>1. x = st \/ x = y
    BY Zenon DEF CodexClaude!MessageDone
  <1>2. "text" \in Kinds /\ "thinking" \in Kinds /\ "text" # "thinking"
    BY DEF Kinds
  <1>3. Telling(a, m, "text") /\ Plainly(a, st)
    BY <1>2, QueueText
  <1> HIDE DEF a
  <1>4. Resting(b, m) /\ Plainly(b, a)
    BY <1>2, <1>3, QueueStop DEF Plainly, Apart, QueueShaped
  <1> HIDE DEF b
  <1>5. Plainly(y, b) /\ y.out = b.out /\ y.next = b.next /\ y.open = b.open
    BY <1>3, <1>4 DEF Plainly, Apart, QueueFields, QueueShaped
  <1> HIDE DEF y
  <1>6. Resting(y, m)
    BY <1>4, <1>5 DEF Resting, Plainly, Apart
  <1>7. QED
    BY <1>1, <1>3, <1>4, <1>5, <1>6 DEF Chats, Plainly, Apart

\* A finished search, of which every item has one.
Searching(e) == e.t = "item_done" /\ e.item.kind = "web_search_call"
SearchOf(e) == IF Searching(e) THEN {e.ix} ELSE {}

\* Every event but those of calls and the first, while no call is open.
LEMMA QueueContent ==
    \A st, m, e, x :
      /\ QueueShaped(st) /\ Chats(st, m) /\ e.t # "created"
      /\ Searching(e) => e.ix \notin st.uses
      /\ x = CodexClaude!Content(st, e)
      => Chats(x, m) /\ Apart(x, st) /\ x.uses \subseteq st.uses \union SearchOf(e)
  <1> SUFFICES ASSUME NEW st, NEW m, NEW e, NEW x, QueueShaped(st), Chats(st, m),
                      e.t # "created", Searching(e) => e.ix \notin st.uses,
                      x = CodexClaude!Content(st, e)
               PROVE  Chats(x, m) /\ Apart(x, st) /\ x.uses \subseteq st.uses \union SearchOf(e)
    OBVIOUS
  <1> DEFINE a == CodexClaude!Stop(st, "text")
             b == IF a.open = "thinking" THEN CodexClaude!Say(a, "thinking", <<>>)
                  ELSE CodexClaude!Start(a, "thinking")
             x1 == [b EXCEPT !.summary = TRUE]
             x2 == CodexClaude!Start(CodexClaude!Stop(st, "thinking"), "text")
             x3 == CodexClaude!Say(CodexClaude!Start(a, "thinking"), "thinking", e.body)
             c == CodexClaude!Say(x2, "text", e.body)
             x4 == [c EXCEPT !.textSeen = TRUE]
             d == CodexClaude!Stop(a, "thinking")
             x6 == [d EXCEPT !.summary = FALSE, !.signature = e.item.signed]
             x7 == CodexClaude!MessageDone(st, e.item)
             x8 == CodexClaude!ReasoningDone(st, e.item)
             x9 == CodexClaude!SearchResult(st, e.ix, e.item.body)
  <1>1. \/ x \in {x1, x2, x3, x4, a, x6, x7, x8, st}
        \/ Searching(e) /\ x = x9
    BY Zenon DEF CodexClaude!Content, Searching
  <1> DEFINE Fine(y) == Chats(y, m) /\ Plainly(y, st)
  <1>2. "text" \in Kinds /\ "thinking" \in Kinds /\ "text" # "thinking"
    BY DEF Kinds
  <1>3. DOMAIN st = QueueFields
    BY DEF QueueShaped
  <1>4. Plainly(a, st) /\ (Resting(a, m) \/ Telling(a, m, "thinking")) /\ DOMAIN a = QueueFields
    BY <1>2, <1>3, QueueTurns DEF Plainly, Apart
  <1>5. Fine(a)
    BY <1>2, <1>4 DEF Chats
  <1>6. Fine(x1)
    <2> HIDE DEF a
    <2>1. Telling(b, m, "thinking") /\ Plainly(b, a)
      <3> DEFINE none == <<>>
                 y == CodexClaude!Say(a, "thinking", none)
                 z == CodexClaude!Start(a, "thinking")
      <3>1. a.open = "thinking" => Telling(a, m, "thinking")
        BY <1>2, <1>4 DEF Resting
      <3>2. a.open = "thinking" => b = y
        OBVIOUS
      <3>3. a.open # "thinking" => b = z
        OBVIOUS
      <3> HIDE DEF none
      <3>4. Telling(a, m, "thinking") => Telling(y, m, "thinking") /\ Plainly(y, a)
        BY <1>4, QueueSay
      <3>5. Telling(z, m, "thinking") /\ Plainly(z, a)
        BY <1>2, <1>4, QueueStart
      <3> HIDE DEF y, z, b
      <3>6. QED
        BY <3>1, <3>2, <3>3, <3>4, <3>5
    <2> HIDE DEF b
    <2>2. DOMAIN b = QueueFields
      BY <1>4, <2>1 DEF Plainly, Apart
    <2>3. Plainly(x1, b) /\ x1.out = b.out /\ x1.next = b.next /\ x1.open = b.open
          /\ DOMAIN x1 = DOMAIN b
      BY <2>2 DEF Plainly, Apart, QueueFields
    <2> HIDE DEF x1
    <2>4. Telling(x1, m, "thinking")
      BY <2>1, <2>3, QueueUnseen
    <2>5. QED
      BY <1>2, <1>4, <2>1, <2>3, <2>4 DEF Chats, Plainly, Apart
  <1>7. Telling(x2, m, "text") /\ Plainly(x2, st)
    <2> DEFINE y == CodexClaude!Stop(st, "thinking")
    <2>1. Plainly(y, st) /\ (Resting(y, m) \/ Telling(y, m, "text"))
      BY <1>2, <1>3, QueueTurns
    <2> HIDE DEF y
    <2>2. x2 = CodexClaude!Start(y, "text")
      BY DEF y
    <2> HIDE DEF x2
    <2>3. Telling(x2, m, "text") /\ Plainly(x2, y)
      BY <1>2, <1>3, <2>1, <2>2, QueueStart DEF Plainly, Apart
    <2>4. QED
      BY <2>1, <2>3 DEF Plainly, Apart
  <1>8. Fine(x2)
    BY <1>2, <1>7 DEF Chats
  <1>9. Fine(x3)
    <2>1. Telling(x3, m, "thinking") /\ Plainly(x3, st)
      BY <1>2, QueueText
    <2> HIDE DEF x3
    <2>2. QED
      BY <1>2, <2>1 DEF Chats
  <1>10. Fine(x4)
    <2>1. Telling(c, m, "text") /\ Plainly(c, st)
      BY <1>2, QueueText
    <2> HIDE DEF c
    <2>2. DOMAIN c = QueueFields
      BY <1>3, <2>1 DEF Plainly, Apart
    <2>3. Plainly(x4, c) /\ x4.out = c.out /\ x4.next = c.next /\ x4.open = c.open
          /\ DOMAIN x4 = DOMAIN c
      BY <2>2 DEF Plainly, Apart, QueueFields
    <2> HIDE DEF x4
    <2>4. Telling(x4, m, "text")
      BY <2>1, <2>3, QueueUnseen
    <2>5. QED
      BY <1>2, <2>1, <2>3, <2>4 DEF Chats, Plainly, Apart
  <1>11. Fine(x6)
    <2> HIDE DEF a
    <2>1. Plainly(d, a) /\ Resting(d, m)
      <3>1. CASE Telling(a, m, "thinking")
        BY <1>2, <1>4, <3>1, QueueStop
      <3>2. CASE Resting(a, m)
        <4>1. d = a
          BY <1>2, <1>4, <3>2, QueueStop DEF Resting
        <4>2. QED
          BY <3>2, <4>1 DEF Plainly, Apart
      <3>3. QED
        BY <1>4, <3>1, <3>2
    <2> HIDE DEF d
    <2>2. DOMAIN d = QueueFields
      BY <1>4, <2>1 DEF Plainly, Apart
    <2> DEFINE signed == e.item.signed
    <2> HIDE DEF signed
    <2>3. x6 = [d EXCEPT !.summary = FALSE, !.signature = signed]
      BY DEF signed
    <2> HIDE DEF x6
    <2>4. Plainly(x6, d) /\ x6.out = d.out /\ x6.next = d.next /\ x6.open = d.open
      BY <2>2, <2>3 DEF Plainly, Apart, QueueFields
    <2>5. Resting(x6, m)
      BY <2>1, <2>4 DEF Resting, Plainly, Apart
    <2>6. QED
      BY <1>4, <2>1, <2>4, <2>5 DEF Chats, Plainly, Apart
  <1>12. Fine(x7)
    BY QueueMessage
  <1>13. Fine(x8)
    BY QueueReasoning
  <1>14. Fine(st)
    BY DEF Plainly, Apart
  <1>15. ASSUME Searching(e) PROVE Chats(x9, m) /\ Apart(x9, st) /\ x9.uses = st.uses \union {e.ix}
    <2> DEFINE ix == e.ix
               query == e.item.body
    <2>0. ix \notin st.uses /\ x9 = CodexClaude!SearchResult(st, ix, query)
      BY <1>15
    <2> HIDE DEF ix, query, x9
    <2>3. Resting(x9, m) /\ Apart(x9, st) /\ x9.uses = st.uses \union {ix}
      BY <2>0, QueueFound
    <2>1. Resting(x9, m) /\ Apart(x9, st) /\ x9.uses = st.uses \union {e.ix}
      BY <2>3 DEF ix
    <2>2. QED
      BY <2>1 DEF Chats
  <1> HIDE DEF a, x1, x2, x3, x4, x6, x7, x8, x9
  <1>16. CASE Searching(e) /\ x = x9
    BY <1>15, <1>16 DEF SearchOf
  <1>17. CASE Fine(x)
    BY <1>17 DEF Plainly
  <1>18. QED
    <2> HIDE DEF Fine
    <2>1. QED
      BY <1>1, <1>5, <1>6, <1>8, <1>9, <1>10, <1>11, <1>12, <1>13, <1>14, <1>16, <1>17

\* What was deferred is sent, event after event.
ContentStep(st, e, with) == CodexClaude!Content(st, e)
\* m is the client, first the state before, left the searches still to come and found
\* all that there are.
Replayed(x, aim) ==
    /\ QueueShaped(x) /\ Chats(x, aim.m) /\ Apart(x, aim.first)
    /\ x.uses \intersect aim.left = {} /\ x.uses \subseteq aim.found
ReplayFold == INSTANCE FoldFacts WITH Op <- ContentStep, Good <- Replayed
LEMMA ReplayInduction == ReplayFold!Induction
  BY IndexInduction, Zenon DEF ReplayFold!Induction

\* Deferred events are no first ones, and no search is asked for twice.
Deferrable(deferred, uses) ==
    /\ \A j \in DOMAIN deferred : deferred[j].t # "created"
    /\ \A j \in DOMAIN deferred : Searching(deferred[j]) => deferred[j].ix \notin uses
    /\ \A i, j \in DOMAIN deferred :
         Searching(deferred[i]) /\ Searching(deferred[j]) /\ deferred[i].ix = deferred[j].ix
           => i = j
SearchesIn(deferred) == UNION {SearchOf(deferred[j]) : j \in DOMAIN deferred}

LEMMA QueueReplay ==
    \A st, m, x :
      /\ QueueShaped(st) /\ Chats(st, m) /\ Deferrable(st.deferred, st.uses)
      /\ x = CodexClaude!Replay(st)
      => /\ QueueShaped(x) /\ Chats(x, m) /\ x.deferred = <<>>
         /\ x.calls = st.calls /\ x.queue = st.queue
         /\ x.uses \subseteq st.uses \union SearchesIn(st.deferred)
  <1> SUFFICES ASSUME NEW st, NEW m, NEW x, QueueShaped(st), Chats(st, m),
                      Deferrable(st.deferred, st.uses), x = CodexClaude!Replay(st)
               PROVE  /\ QueueShaped(x) /\ Chats(x, m) /\ x.deferred = <<>>
                      /\ x.calls = st.calls /\ x.queue = st.queue
                      /\ x.uses \subseteq st.uses \union SearchesIn(st.deferred)
    OBVIOUS
  <1> DEFINE none == <<>>
             s == [st EXCEPT !.deferred = none]
             l == st.deferred
             n == Len(l)
             Left(k) == UNION {SearchOf(l[j]) : j \in k + 1 .. n}
             found == st.uses \union SearchesIn(l)
             aims == [k \in 0 .. n |-> [m |-> m, first |-> s, left |-> Left(k), found |-> found]]
  <1>1. x = ReplayFold!Folded(0, s, l)
    BY DEF ReplayFold!Folded, ReplayFold!Part, ReplayFold!Table, ReplayFold!Top, ContentStep,
           CodexClaude!Replay,
           CodexClaude!FoldLeft, CodexClaude!MapThenFoldSet, CodexClaude!Max
  <1>2. n \in Nat /\ DOMAIN l = 1 .. n
    BY SeqFacts DEF QueueShaped
  <1>3. /\ DOMAIN s = QueueFields /\ s.deferred = none /\ s.calls = st.calls
        /\ s.queue = st.queue /\ s.active = st.active /\ s.uses = st.uses /\ s.open = st.open
        /\ s.out = st.out /\ s.next = st.next
    BY DEF QueueShaped, QueueFields
  <1>4. IsSeq(none)
    BY EmptyIsSeq
  <1> HIDE DEF none, s
  <1>5. QueueShaped(s) /\ Chats(s, m)
    BY <1>3, <1>4 DEF QueueShaped, Chats, Resting, Telling
  <1>6. \A k \in 0 .. n : /\ aims[k].m = m /\ aims[k].first = s /\ aims[k].left = Left(k)
                          /\ aims[k].found = found
    OBVIOUS
  <1>7. \A k \in 1 .. n : /\ k - 1 \in 0 .. n /\ k \in 0 .. n /\ k \in DOMAIN l
                          /\ SearchOf(l[k]) \subseteq Left(k - 1) /\ Left(k) \subseteq Left(k - 1)
                          /\ SearchOf(l[k]) \intersect Left(k) = {}
                          /\ SearchOf(l[k]) \subseteq found
    <2> SUFFICES ASSUME NEW k \in 1 .. n
                 PROVE  /\ k - 1 \in 0 .. n /\ k \in 0 .. n /\ k \in DOMAIN l
                        /\ SearchOf(l[k]) \subseteq Left(k - 1) /\ Left(k) \subseteq Left(k - 1)
                        /\ SearchOf(l[k]) \intersect Left(k) = {}
                        /\ SearchOf(l[k]) \subseteq found
      BY Zenon
    <2>1. k - 1 \in 0 .. n /\ k \in 0 .. n /\ k \in k - 1 + 1 .. n /\ k \in DOMAIN l
      BY <1>2
    <2>2. \A j \in k + 1 .. n : j \in DOMAIN l /\ j # k /\ j \in k - 1 + 1 .. n
      BY <1>2
    <2>3. SearchOf(l[k]) \intersect Left(k) = {}
      <3>1. \A j \in k + 1 .. n : SearchOf(l[k]) \intersect SearchOf(l[j]) = {}
        BY <2>1, <2>2 DEF Deferrable, SearchOf
      <3> HIDE DEF l
      <3>2. QED
        BY <3>1
    <2>4. SearchOf(l[k]) \subseteq found
      BY <2>1 DEF SearchesIn
    <2> HIDE DEF l
    <2>5. QED
      BY <2>1, <2>2, <2>3, <2>4
  <1>8. Replayed(s, aims[0])
    <2>1. st.uses \intersect Left(0) = {}
      <3>1. \A j \in 0 + 1 .. n : j \in DOMAIN l
        BY <1>2
      <3>2. \A j \in DOMAIN l : st.uses \intersect SearchOf(l[j]) = {}
        BY DEF Deferrable, SearchOf
      <3> HIDE DEF l
      <3>3. QED
        BY <3>1, <3>2
    <2>2. 0 \in 0 .. n /\ st.uses \subseteq found
      BY <1>2
    <2>3. Apart(s, s)
      BY DEF Apart
    <2> HIDE DEF aims, Left, found
    <2>4. QED
      BY <1>3, <1>5, <1>6, <2>1, <2>2, <2>3 DEF Replayed
  <1> HIDE DEF aims, Left, found
  <1>9. \A y : \A k \in 1 .. n : Replayed(y, aims[k - 1]) => Replayed(ContentStep(y, l[k], 0), aims[k])
    <2> SUFFICES ASSUME NEW y, NEW k \in 1 .. n, Replayed(y, aims[k - 1])
                 PROVE  Replayed(ContentStep(y, l[k], 0), aims[k])
      OBVIOUS
    <2>1. /\ QueueShaped(y) /\ Chats(y, m) /\ Apart(y, s)
          /\ y.uses \intersect Left(k - 1) = {} /\ y.uses \subseteq found
      BY <1>6, <1>7 DEF Replayed
    <2> DEFINE e == l[k]
               z == CodexClaude!Content(y, e)
    <2>2. e.t # "created" /\ (Searching(e) => e.ix \notin y.uses)
      <3>1. e.t # "created"
        BY <1>7 DEF Deferrable
      <3>2. SearchOf(e) \intersect y.uses = {}
        BY <1>7, <2>1
      <3> HIDE DEF e
      <3>3. QED
        BY <3>1, <3>2 DEF SearchOf
    <2>3. SearchOf(e) \intersect Left(k) = {} /\ SearchOf(e) \subseteq found
          /\ Left(k) \subseteq Left(k - 1)
      BY <1>7
    <2>4. ContentStep(y, l[k], 0) = z
      BY DEF ContentStep
    <2> HIDE DEF e
    <2>5. Chats(z, m) /\ Apart(z, y) /\ z.uses \subseteq y.uses \union SearchOf(e)
      BY <2>1, <2>2, QueueContent
    <2> HIDE DEF z
    <2>6. QueueShaped(z) /\ Apart(z, s)
      BY <2>1, <2>5, QueueApart DEF Apart
    <2>7. z.uses \intersect Left(k) = {} /\ z.uses \subseteq found
      BY <2>1, <2>3, <2>5
    <2>8. Replayed(z, aims[k])
      BY <1>6, <1>7, <2>5, <2>6, <2>7 DEF Replayed
    <2>9. QED
      BY <2>4, <2>8
  <1>10. Replayed(ReplayFold!Folded(0, s, l), aims[n])
    BY <1>2, <1>8, <1>9, ReplayInduction, ReplayFold!FoldReaches, Zenon
  <1>11. Replayed(x, aims[n]) /\ n \in 0 .. n
    BY <1>1, <1>2, <1>10
  <1>12. QueueShaped(x) /\ Chats(x, m) /\ Apart(x, s) /\ x.uses \subseteq found
    BY <1>6, <1>11 DEF Replayed
  <1>13. QED
    BY <1>3, <1>12 DEF Apart, found, none

\* The calls and the queue, whatever is told of them.
CallsKept(calls, old) ==
    /\ DOMAIN calls = DOMAIN old /\ Streams(calls)
    /\ \A ix \in DOMAIN old : calls[ix].named = old[ix].named /\ calls[ix].done = old[ix].done
Aside(x, st) ==
    DOMAIN x = DOMAIN st /\ x.uses = st.uses /\ x.deferred = st.deferred
Moves(st, m) == QueueShaped(st) /\ (Resting(st, m) \/ Calling(st, m))

LEMMA QueueHead ==
    \A st, m : QueueShaped(st) /\ Calling(st, m) =>
      /\ st.active = st.queue[1] /\ 1 \in DOMAIN st.queue
      /\ st.active \in DOMAIN st.calls /\ st.active \in Nat /\ st.active # -1
  <1> SUFFICES ASSUME NEW st, NEW m, QueueShaped(st), Calling(st, m)
               PROVE  /\ st.active = st.queue[1] /\ 1 \in DOMAIN st.queue
                      /\ st.active \in DOMAIN st.calls /\ st.active \in Nat /\ st.active # -1
    OBVIOUS
  <1>1. IsSeq(st.queue) /\ \A i \in DOMAIN st.queue : st.queue[i] \in DOMAIN st.calls
    BY DEF QueueShaped, Lined
  <1>2. 1 \in DOMAIN st.queue
    BY <1>1, SeqFacts DEF Calling
  <1>3. st.active = st.queue[1]
    BY <1>1 DEF Calling, IsSeq
  <1>4. DOMAIN st.calls \subseteq Nat
    BY DEF QueueShaped, Streams
  <1>5. QED
    BY <1>1, <1>2, <1>3, <1>4

\* The arguments that have come so far are sent on, when the call is open.
LEMMA QueueSend ==
    \A st, m, x :
      /\ QueueShaped(st) /\ x = CodexClaude!SendArguments(st)
      /\ Chats(st, m) \/ Calling(st, m)
      => /\ QueueShaped(x) /\ Aside(x, st) /\ CallsKept(x.calls, st.calls)
         /\ x.queue = st.queue /\ x.active = st.active /\ x.open = st.open
         /\ Chats(st, m) => x = st
         /\ Calling(st, m) => Calling(x, m)
  <1> SUFFICES ASSUME NEW st, NEW m, NEW x, QueueShaped(st), Chats(st, m) \/ Calling(st, m),
                      x = CodexClaude!SendArguments(st)
               PROVE  /\ QueueShaped(x) /\ Aside(x, st) /\ CallsKept(x.calls, st.calls)
                      /\ x.queue = st.queue /\ x.active = st.active /\ x.open = st.open
                      /\ Chats(st, m) => x = st
                      /\ Calling(st, m) => Calling(x, m)
    OBVIOUS
  <1> DEFINE call == st.calls[st.active]
             body == SubSeq(call.args, call.sent + 1, Len(call.args))
             e == CodexClaude!BlockDelta(st.next, "tool_use", body)
             a == CodexClaude!Emit(st, e)
             n == Len(call.args)
             y == [a EXCEPT !.calls[st.active].sent = n]
  <1>1. x = st \/ (st.active # -1 /\ x = y)
    BY Zenon DEF CodexClaude!SendArguments, CodexClaude!None, CodexClaude!Say
  <1>2. CallsKept(st.calls, st.calls)
    BY DEF CallsKept, QueueShaped
  <1>3. CASE x = st
    BY <1>2, <1>3 DEF Aside
  <1>4. CASE st.active # -1 /\ x = y
    <2>1. Calling(st, m)
      BY <1>4, Zenon DEF Chats, Resting, Telling
    <2>2. st.active \in DOMAIN st.calls /\ ~Chats(st, m)
      BY <1>4, <2>1, QueueHead, Zenon DEF Chats, Resting, Telling
    <2>3. Brings(e, st.next, "tool_use")
      BY QueueEvents
    <2> HIDE DEF e
    <2>4. Plainly(a, st) /\ a.out = Append(st.out, e) /\ a.next = st.next /\ a.open = st.open
      BY QueueEmit DEF QueueShaped
    <2> HIDE DEF a, n
    <2> DEFINE new == [call EXCEPT !.sent = n]
               calls == [st.calls EXCEPT ![st.active] = new]
    <2>5. y = [a EXCEPT !.calls = calls]
      <3>1. a.calls = st.calls /\ DOMAIN a = QueueFields
        BY <2>4 DEF Plainly, Apart, QueueShaped
      <3>2. QED
        BY <3>1 DEF QueueFields
    <2>6. IsStream(new) /\ new.named = call.named /\ new.done = call.done
      BY <2>2 DEF QueueShaped, Streams, IsStream, StreamFields
    <2> HIDE DEF new
    <2>7. CallsKept(calls, st.calls) /\ Streams(calls) /\ DOMAIN calls = DOMAIN st.calls
          /\ calls[st.active].named = call.named
      BY <2>2, <2>6 DEF CallsKept, QueueShaped, Streams
    <2> HIDE DEF calls, y
    <2>8. /\ Aside(x, st) /\ x.calls = calls /\ x.queue = st.queue /\ x.active = st.active
          /\ x.open = st.open /\ x.next = st.next /\ x.out = Append(st.out, e)
          /\ DOMAIN x = QueueFields
      BY <1>4, <2>4, <2>5 DEF Plainly, Apart, Aside, QueueShaped, QueueFields
    <2>9. QueueShaped(x)
      BY <2>7, <2>8 DEF QueueShaped, Lined, Aside
    <2>10. Writing(m, Append(st.out, e), st.next, "tool_use")
      BY <2>1, <2>3, WritePiece DEF Calling
    <2>11. Calling(x, m)
      BY <2>1, <2>7, <2>8, <2>10 DEF Calling
    <2>12. QED
      BY <2>2, <2>7, <2>8, <2>9, <2>11
  <1>5. QED
    BY <1>1, <1>3, <1>4, Zenon

\* The block of the call at the head of the queue is started,
LEMMA QueueBegin ==
    \A st, m, ix, x :
      /\ QueueShaped(st) /\ Resting(st, m) /\ 0 < Len(st.queue) /\ Head(st.queue) = ix
      /\ st.calls[ix].named = TRUE /\ x = CodexClaude!StartCall(st, ix)
      => /\ QueueShaped(x) /\ Calling(x, m) /\ Aside(x, st)
         /\ x.calls = st.calls /\ x.queue = st.queue /\ x.active = ix
  <1> SUFFICES ASSUME NEW st, NEW m, NEW ix, NEW x, QueueShaped(st), Resting(st, m),
                      0 < Len(st.queue), Head(st.queue) = ix, st.calls[ix].named = TRUE,
                      x = CodexClaude!StartCall(st, ix)
               PROVE  /\ QueueShaped(x) /\ Calling(x, m) /\ Aside(x, st)
                      /\ x.calls = st.calls /\ x.queue = st.queue /\ x.active = ix
    BY Zenon
  <1> DEFINE e == CodexClaude!BlockStart(st.next, "tool_use", st.calls[ix].of)
             s == CodexClaude!Emit(st, e)
             none == <<>>
             f == CodexClaude!BlockDelta(s.next, "tool_use", none)
             a == IF st.calls[ix].hail THEN CodexClaude!Emit(s, f) ELSE s
  <1>1. x = [a EXCEPT !.active = ix, !.toolUse = TRUE]
    BY DEF CodexClaude!StartCall, CodexClaude!Say
  <1>2. Begins(e, st.next, "tool_use") /\ Brings(f, s.next, "tool_use")
    BY QueueEvents
  <1> HIDE DEF e, f
  <1>3. Plainly(s, st) /\ s.out = Append(st.out, e) /\ s.next = st.next /\ s.open = st.open
        /\ DOMAIN s = QueueFields
    BY QueueEmit DEF QueueShaped, Plainly, Apart
  <1> HIDE DEF s
  <1>4. Writing(m, s.out, s.next, "tool_use")
    BY <1>2, <1>3, WriteBegin DEF Resting
  <1>5. Plainly(a, st) /\ Writing(m, a.out, a.next, "tool_use") /\ a.open = st.open
        /\ DOMAIN a = QueueFields
    <2>1. CASE st.calls[ix].hail
      <3>1. a = CodexClaude!Emit(s, f)
        BY <2>1
      <3> HIDE DEF a
      <3>2. Plainly(a, s) /\ a.out = Append(s.out, f) /\ a.next = s.next /\ a.open = s.open
        BY <1>3, <3>1, QueueEmit
      <3>3. Writing(m, Append(s.out, f), s.next, "tool_use")
        BY <1>2, <1>4, WritePiece
      <3>4. QED
        BY <1>3, <3>2, <3>3 DEF Plainly, Apart
    <2>2. CASE ~st.calls[ix].hail
      <3>1. a = s
        BY <2>2
      <3> HIDE DEF a
      <3>2. QED
        BY <1>3, <1>4, <3>1, Zenon
    <2>3. QED
      BY <2>1, <2>2
  <1> HIDE DEF a
  <1>6. /\ DOMAIN x = QueueFields /\ x.active = ix /\ x.calls = st.calls /\ x.queue = st.queue
        /\ x.out = a.out /\ x.next = a.next /\ x.open = st.open /\ x.uses = st.uses
        /\ x.deferred = st.deferred
    BY <1>1, <1>5 DEF Plainly, Apart, QueueFields
  <1>7. QueueShaped(x) /\ Aside(x, st)
    BY <1>6 DEF QueueShaped, Aside
  <1>8. Calling(x, m)
    BY <1>5, <1>6 DEF Calling, Resting
  <1>9. QED
    BY <1>6, <1>7, <1>8

\* and stopped.
LEMMA QueueClose ==
    \A st, m, x :
      QueueShaped(st) /\ Calling(st, m) /\ x = CodexClaude!CloseCall(st) =>
        /\ QueueShaped(x) /\ Resting(x, m) /\ Aside(x, st)
        /\ x.calls = st.calls /\ Len(x.queue) = Len(st.queue) - 1
  <1> SUFFICES ASSUME NEW st, NEW m, NEW x, QueueShaped(st), Calling(st, m),
                      x = CodexClaude!CloseCall(st)
               PROVE  /\ QueueShaped(x) /\ Resting(x, m) /\ Aside(x, st)
                      /\ x.calls = st.calls /\ Len(x.queue) = Len(st.queue) - 1
    OBVIOUS
  <1> DEFINE e == CodexClaude!BlockStop(st.next)
             s == CodexClaude!Emit(st, e)
             q == Tail(st.queue)
  <1>1. Stops(e, st.next)
    BY QueueEvents
  <1> HIDE DEF e
  <1>2. Plainly(s, st) /\ s.out = Append(st.out, e) /\ s.next = st.next /\ s.open = st.open
        /\ DOMAIN s = QueueFields
    BY QueueEmit DEF QueueShaped, Plainly, Apart
  <1>3. x = [s EXCEPT !.next = @ + 1, !.active = -1, !.queue = q]
    <2>1. x = [s EXCEPT !.next = @ + 1, !.active = -1, !.queue = Tail(@)]
      BY DEF CodexClaude!CloseCall, CodexClaude!None, e
    <2>2. s.queue = st.queue
      BY <1>2 DEF Plainly, Apart
    <2> HIDE DEF s
    <2>3. QED
      BY <1>2, <2>1, <2>2 DEF QueueFields
  <1> HIDE DEF s
  <1>4. Lined(q, st.calls) /\ Len(q) = Len(st.queue) - 1
    <2>1. PICK R : st.queue \in Seq(R)
      BY DEF QueueShaped, Lined, IsSeq
    <2>2. Len(st.queue) \in Nat /\ 0 < Len(st.queue) /\ DOMAIN st.queue = 1 .. Len(st.queue)
      BY <2>1 DEF Calling
    <2>3. q \in Seq(R) /\ Len(q) = Len(st.queue) - 1
      BY <2>1, <2>2
    <2>4. \A i \in 1 .. Len(q) : q[i] = st.queue[i + 1] /\ i + 1 \in DOMAIN st.queue
      BY <2>1, <2>2, <2>3
    <2>5. DOMAIN q = 1 .. Len(q) /\ IsSeq(q)
      <3> HIDE DEF q
      <3>1. QED
        BY <2>3, SomeSeq, SeqFacts
    <2> HIDE DEF q
    <2>6. QED
      BY <2>3, <2>4, <2>5 DEF QueueShaped, Lined
  <1> HIDE DEF q
  <1>5. /\ DOMAIN x = QueueFields /\ x.active = -1 /\ x.calls = st.calls /\ x.queue = q
        /\ x.out = Append(st.out, e) /\ x.next = st.next + 1 /\ x.open = st.open
        /\ x.uses = st.uses /\ x.deferred = st.deferred
    BY <1>2, <1>3 DEF Plainly, Apart, QueueFields
  <1>6. Idle(m, Append(st.out, e), st.next + 1)
    BY <1>1, WriteStop DEF Calling
  <1>7. QueueShaped(x) /\ Aside(x, st)
    BY <1>4, <1>5 DEF QueueShaped, Aside
  <1>8. QED
    BY <1>4, <1>5, <1>6, <1>7 DEF Resting, Calling

\* The turn of a call: the queue loses one at most.
AllDone(calls) == \A ix \in DOMAIN calls : calls[ix].done = TRUE

LEMMA QueueTurn ==
    \A st, m, ix, x :
      /\ Moves(st, m) /\ 0 < Len(st.queue) /\ ix \in Nat /\ x = CodexClaude!Turn(st, ix)
      => /\ Moves(x, m) /\ Aside(x, st) /\ CallsKept(x.calls, st.calls)
         /\ Len(x.queue) >= Len(st.queue) - 1
         /\ AllDone(st.calls) /\ st.active \in {-1, ix} => x.active = -1
  <1> SUFFICES ASSUME NEW st, NEW m, NEW ix \in Nat, NEW x, Moves(st, m),
                      0 < Len(st.queue), x = CodexClaude!Turn(st, ix)
               PROVE  /\ Moves(x, m) /\ Aside(x, st) /\ CallsKept(x.calls, st.calls)
                      /\ Len(x.queue) >= Len(st.queue) - 1
                      /\ AllDone(st.calls) /\ st.active \in {-1, ix} => x.active = -1
    OBVIOUS
  <1> DEFINE a == IF st.active = -1 /\ Head(st.queue) = ix /\ st.calls[ix].named
                  THEN CodexClaude!StartCall(st, ix) ELSE st
             b == CodexClaude!SendArguments(a)
             y == CodexClaude!CloseCall(b)
  <1>0. QueueShaped(st) /\ (Resting(st, m) \/ Calling(st, m))
    BY DEF Moves
  <1>1. x = IF b.active = ix /\ b.calls[ix].done THEN y ELSE b
    BY DEF CodexClaude!Turn, CodexClaude!None
  <1>2. /\ QueueShaped(a) /\ (Resting(a, m) \/ Calling(a, m))
        /\ Aside(a, st) /\ a.calls = st.calls /\ a.queue = st.queue
        /\ a.active \in {st.active, ix}
    <2>1. CASE st.active = -1 /\ Head(st.queue) = ix /\ st.calls[ix].named
      <3>1. a = CodexClaude!StartCall(st, ix)
        BY <2>1, Zenon
      <3>2. Resting(st, m)
        BY <1>0, <2>1, QueueHead
      <3>3. st.calls[ix].named = TRUE
        <4>1. ix = st.queue[1] /\ 1 \in DOMAIN st.queue
          <5>1. IsSeq(st.queue)
            BY <1>0 DEF QueueShaped, Lined
          <5>2. QED
            BY <2>1, <5>1, SeqFacts DEF IsSeq
        <4>2. st.calls[ix].named \in BOOLEAN
          BY <1>0, <4>1 DEF QueueShaped, Lined, Streams, IsStream
        <4>3. QED
          BY <2>1, <4>2
      <3> HIDE DEF a
      <3>4. QED
        BY <1>0, <2>1, <3>1, <3>2, <3>3, QueueBegin
    <2>2. CASE ~(st.active = -1 /\ Head(st.queue) = ix /\ st.calls[ix].named)
      <3>1. a = st
        BY <2>2, Zenon
      <3> HIDE DEF a
      <3>2. QED
        BY <1>0, <3>1 DEF Aside
    <2>3. QED
      BY <2>1, <2>2
  <1> HIDE DEF a
  <1>3. /\ QueueShaped(b) /\ (Resting(b, m) \/ Calling(b, m))
        /\ Aside(b, st) /\ CallsKept(b.calls, st.calls) /\ b.queue = st.queue
        /\ b.active \in {st.active, ix}
    <2>1. /\ QueueShaped(b) /\ Aside(b, a) /\ CallsKept(b.calls, a.calls)
          /\ b.queue = a.queue /\ b.active = a.active
          /\ Chats(a, m) => b = a
          /\ Calling(a, m) => Calling(b, m)
      BY <1>2, QueueSend DEF Chats
    <2> HIDE DEF b
    <2>2. Resting(b, m) \/ Calling(b, m)
      BY <1>2, <2>1 DEF Chats
    <2>3. QED
      BY <1>2, <2>1, <2>2 DEF Aside
  <1> HIDE DEF b
  <1>4. Len(b.queue) \in Nat
    BY <1>3, SeqFacts DEF QueueShaped, Lined
  <1>5. CASE b.active = ix /\ b.calls[ix].done /\ Calling(b, m)
    <2>1. x = y
      BY <1>1, <1>5, Zenon
    <2>2. /\ QueueShaped(y) /\ Resting(y, m) /\ Aside(y, b)
          /\ y.calls = b.calls /\ Len(y.queue) = Len(b.queue) - 1
      BY <1>3, <1>5, QueueClose
    <2> HIDE DEF y
    <2>3. QED
      BY <1>3, <1>4, <2>1, <2>2 DEF Moves, Aside, Resting
  <1>6. CASE ~(b.active = ix /\ b.calls[ix].done)
    <2>1. x = b
      BY <1>1, <1>6, Zenon
    <2>2. Moves(b, m)
      BY <1>3 DEF Moves
    <2>3. ASSUME AllDone(st.calls), st.active \in {-1, ix}
          PROVE  b.active = -1
      <3>1. CASE Resting(b, m)
        BY <3>1 DEF Resting
      <3>2. CASE Calling(b, m)
        <4>1. b.active \in DOMAIN b.calls /\ b.active # -1
          BY <1>3, <3>2, QueueHead
        <4>2. b.active = ix
          BY <1>3, <2>3, <4>1
        <4>3. b.calls[ix].done = TRUE
          BY <1>3, <2>3, <4>1, <4>2 DEF CallsKept, AllDone
        <4>4. QED
          BY <1>6, <4>2, <4>3, Zenon
      <3>3. QED
        BY <1>3, <3>1, <3>2
    <2>4. QED
      BY <1>3, <1>4, <2>1, <2>2, <2>3
  <1>7. CASE Resting(b, m)
    <2>1. b.active # ix
      BY <1>7 DEF Resting
    <2>2. QED
      BY <1>6, <2>1
  <1>8. QED
    BY <1>3, <1>5, <1>6, <1>7

\* The calls of the queue have their turns.
TurnStep(st, ix, with) == CodexClaude!Turn(st, ix)
\* m is the client, first the state before; left calls at least are still queued, and
\* when all are finished only those of open may be open.
Advanced(x, aim) ==
    /\ Moves(x, aim.m) /\ Aside(x, aim.first) /\ CallsKept(x.calls, aim.first.calls)
    /\ Len(x.queue) >= aim.left
    /\ AllDone(x.calls) => x.active \in aim.open
TurnFold == INSTANCE FoldFacts WITH Op <- TurnStep, Good <- Advanced
LEMMA TurnInduction == TurnFold!Induction
  BY IndexInduction, Zenon DEF TurnFold!Induction

LEMMA QueueAdvance ==
    \A st, m, x : Moves(st, m) /\ x = CodexClaude!Advance(st) =>
      /\ Moves(x, m) /\ Aside(x, st) /\ CallsKept(x.calls, st.calls)
      /\ AllDone(st.calls) => x.active = -1
  <1> SUFFICES ASSUME NEW st, NEW m, NEW x, Moves(st, m), x = CodexClaude!Advance(st)
               PROVE  /\ Moves(x, m) /\ Aside(x, st) /\ CallsKept(x.calls, st.calls)
                      /\ AllDone(st.calls) => x.active = -1
    OBVIOUS
  <1> DEFINE l == st.queue
             n == Len(l)
             Open(k) == IF k = 0 THEN {-1, st.active} ELSE {-1}
             aims == [k \in 0 .. n |-> [m |-> m, first |-> st, left |-> n - k, open |-> Open(k)]]
  <1>1. x = TurnFold!Folded(0, st, l)
    BY DEF TurnFold!Folded, TurnFold!Part, TurnFold!Table, TurnFold!Top, TurnStep,
           CodexClaude!Advance,
           CodexClaude!FoldLeft, CodexClaude!MapThenFoldSet, CodexClaude!Max
  <1>2. QueueShaped(st) /\ (Resting(st, m) \/ Calling(st, m))
    BY DEF Moves
  <1>3. n \in Nat /\ DOMAIN l = 1 .. n /\ \A k \in 1 .. n : l[k] \in Nat
    BY <1>2, SeqFacts DEF QueueShaped, Lined, Streams
  <1>4. st.active = -1 \/ (0 < n /\ st.active = l[1])
    BY <1>2, QueueHead DEF Resting, Calling
  <1>5. \A k \in 0 .. n : /\ aims[k].m = m /\ aims[k].first = st /\ aims[k].left = n - k
                          /\ aims[k].open = Open(k)
    OBVIOUS
  <1>6. \A k \in 1 .. n : /\ k - 1 \in 0 .. n /\ k \in 0 .. n /\ n - (k - 1) > 0 /\ n - k \in Nat
                          /\ n - (k - 1) - 1 = n - k
                          /\ Open(k - 1) \subseteq {-1, l[k]} /\ Open(k) = {-1}
    <2> SUFFICES ASSUME NEW k \in 1 .. n
                 PROVE  /\ k - 1 \in 0 .. n /\ k \in 0 .. n /\ n - (k - 1) > 0 /\ n - k \in Nat
                        /\ n - (k - 1) - 1 = n - k
                        /\ Open(k - 1) \subseteq {-1, l[k]} /\ Open(k) = {-1}
      OBVIOUS
    <2>1. k - 1 \in 0 .. n /\ k \in 0 .. n /\ n - (k - 1) > 0 /\ n - k \in Nat
          /\ n - (k - 1) - 1 = n - k /\ k # 0
      BY <1>3
    <2>2. k - 1 = 0 => k = 1
      BY <1>3
    <2>3. Open(k - 1) \subseteq {-1, l[k]}
      BY <1>4, <2>2
    <2>4. QED
      BY <2>1, <2>3
  <1>7. CallsKept(st.calls, st.calls)
    BY <1>2 DEF CallsKept, QueueShaped
  <1>8. Advanced(st, aims[0])
    <2>1. 0 \in 0 .. n /\ n - 0 = n /\ st.active \in Open(0) /\ n >= n
      BY <1>3
    <2>2. Aside(st, st)
      BY DEF Aside
    <2> HIDE DEF aims, Open
    <2>3. QED
      BY <1>5, <1>7, <2>1, <2>2 DEF Advanced
  <1>9. Open(n) = {-1} \/ (n = 0 /\ st.active = -1 /\ Open(n) = {-1, st.active})
    BY <1>3, <1>4
  <1> HIDE DEF aims, Open
  <1>10. \A y : \A k \in 1 .. n : Advanced(y, aims[k - 1]) => Advanced(TurnStep(y, l[k], 0), aims[k])
    <2> SUFFICES ASSUME NEW y, NEW k \in 1 .. n, Advanced(y, aims[k - 1])
                 PROVE  Advanced(TurnStep(y, l[k], 0), aims[k])
      BY Zenon
    <2>1. /\ Moves(y, m) /\ Aside(y, st) /\ CallsKept(y.calls, st.calls)
          /\ Len(y.queue) >= n - (k - 1)
          /\ AllDone(y.calls) => y.active \in Open(k - 1)
      BY <1>5, <1>6, Zenon DEF Advanced
    <2> DEFINE ix == l[k]
               z == CodexClaude!Turn(y, ix)
    <2>2. ix \in Nat /\ Open(k - 1) \subseteq {-1, ix}
      BY <1>3, <1>6
    <2> HIDE DEF ix
    <2>3. Len(y.queue) \in Nat
      BY <2>1, SeqFacts DEF Moves, QueueShaped, Lined
    <2>4. n - (k - 1) \in Int /\ n - k \in Int
      BY <1>3
    <2>5. 0 < Len(y.queue)
      BY <1>6, <2>1, <2>3, <2>4
    <2>6. /\ Moves(z, m) /\ Aside(z, y) /\ CallsKept(z.calls, y.calls)
          /\ Len(z.queue) >= Len(y.queue) - 1
          /\ AllDone(y.calls) /\ y.active \in {-1, ix} => z.active = -1
      BY <2>1, <2>2, <2>5, QueueTurn, Zenon
    <2> HIDE DEF z
    <2>7. Len(z.queue) \in Nat
      BY <2>6, SeqFacts DEF Moves, QueueShaped, Lined
    <2>8. Len(z.queue) >= n - k
      BY <1>6, <2>1, <2>3, <2>4, <2>6, <2>7
    <2>9. Aside(z, st) /\ CallsKept(z.calls, st.calls)
      BY <2>1, <2>6 DEF Aside, CallsKept
    <2>10. AllDone(z.calls) => z.active \in Open(k)
      <3>1. AllDone(z.calls) => AllDone(y.calls)
        BY <2>6 DEF AllDone, CallsKept
      <3>2. QED
        BY <1>6, <2>1, <2>2, <2>6, <3>1
    <2>11. Advanced(z, aims[k])
      BY <1>5, <1>6, <2>6, <2>8, <2>9, <2>10, Zenon DEF Advanced
    <2>12. QED
      BY <2>11 DEF z, ix, TurnStep
  <1>11. Advanced(TurnFold!Folded(0, st, l), aims[n])
    BY <1>3, <1>8, <1>10, TurnInduction, TurnFold!FoldReaches, Zenon
  <1>12. Advanced(x, aims[n]) /\ n \in 0 .. n
    BY <1>1, <1>3, <1>11
  <1>13. /\ Moves(x, m) /\ Aside(x, st) /\ CallsKept(x.calls, st.calls)
         /\ AllDone(x.calls) => x.active \in Open(n)
    BY <1>5, <1>12 DEF Advanced
  <1>14. AllDone(st.calls) => AllDone(x.calls)
    BY <1>13 DEF AllDone, CallsKept
  <1>15. QED
    BY <1>9, <1>13, <1>14

-----------------------------------------------------------------------------
\* What is written of one call: c takes its place.
Suits(c, calls, ix) == ix \in DOMAIN calls => IsStream(c) /\ c.named = calls[ix].named

LEMMA QueueSettle ==
    \A st, ix, c, x :
      /\ QueueShaped(st) /\ x = [st EXCEPT !.calls[ix] = c]
      /\ Suits(c, st.calls, ix)
      => /\ QueueShaped(x) /\ Aside(x, st) /\ x.open = st.open
         /\ \A m : Chats(st, m) => Chats(x, m)
         /\ \A m : Calling(st, m) => Calling(x, m)
         /\ \A m : Moves(st, m) => Moves(x, m)
  <1> SUFFICES ASSUME NEW st, NEW ix, NEW c, NEW x, QueueShaped(st),
                      x = [st EXCEPT !.calls[ix] = c],
                      Suits(c, st.calls, ix)
               PROVE  /\ QueueShaped(x) /\ Aside(x, st) /\ x.open = st.open
                      /\ \A m : Chats(st, m) => Chats(x, m)
                      /\ \A m : Calling(st, m) => Calling(x, m)
                      /\ \A m : Moves(st, m) => Moves(x, m)
    BY Zenon
  <1> DEFINE calls == [st.calls EXCEPT ![ix] = c]
  <1>1. /\ DOMAIN x = QueueFields /\ x.calls = calls /\ x.queue = st.queue
        /\ x.active = st.active /\ x.open = st.open /\ x.next = st.next /\ x.out = st.out
        /\ x.uses = st.uses /\ x.deferred = st.deferred
    BY DEF QueueShaped, QueueFields
  <1>2. /\ DOMAIN calls = DOMAIN st.calls /\ Streams(calls)
        /\ \A d \in DOMAIN st.calls : calls[d].named = st.calls[d].named
    BY DEF QueueShaped, Streams, Suits
  <1> HIDE DEF calls
  <1>3. QueueShaped(x) /\ Aside(x, st)
    BY <1>1, <1>2 DEF QueueShaped, Lined, Aside
  <1>4. \A m : Chats(st, m) => Chats(x, m)
    BY <1>1 DEF Chats, Resting, Telling
  <1>5. \A m : Calling(st, m) => Calling(x, m)
    <2>1. \A m : Calling(st, m) => st.active \in DOMAIN st.calls
      BY QueueHead
    <2>2. QED
      BY <1>1, <1>2, <2>1 DEF Calling
  <1>6. \A m : Resting(st, m) => Resting(x, m)
    BY <1>1 DEF Resting
  <1>7. QED
    BY <1>1, <1>3, <1>4, <1>5, <1>6 DEF Moves

LEMMA QueueWritten ==
    \A c, body : IsStream(c) =>
      /\ IsStream(CodexClaude!Grown(c, body)) /\ CodexClaude!Grown(c, body).named = c.named
      /\ IsStream(CodexClaude!Settled(c, body)) /\ CodexClaude!Settled(c, body).named = c.named
      /\ IsStream([CodexClaude!Settled(c, body) EXCEPT !.done = TRUE])
      /\ [CodexClaude!Settled(c, body) EXCEPT !.done = TRUE].named = c.named
  <1> SUFFICES ASSUME NEW c, NEW body, IsStream(c)
               PROVE  /\ IsStream(CodexClaude!Grown(c, body))
                      /\ CodexClaude!Grown(c, body).named = c.named
                      /\ IsStream(CodexClaude!Settled(c, body))
                      /\ CodexClaude!Settled(c, body).named = c.named
                      /\ IsStream([CodexClaude!Settled(c, body) EXCEPT !.done = TRUE])
                      /\ [CodexClaude!Settled(c, body) EXCEPT !.done = TRUE].named = c.named
    OBVIOUS
  <1> DEFINE s == CodexClaude!Settled(c, body)
  <1>1. IsStream(CodexClaude!Grown(c, body)) /\ CodexClaude!Grown(c, body).named = c.named
    BY DEF IsStream, StreamFields, CodexClaude!Grown
  <1>2. s = c \/ s = [c EXCEPT !.args = body]
    BY Zenon DEF CodexClaude!Settled
  <1> HIDE DEF s
  <1>3. IsStream(s) /\ s.named = c.named
    BY <1>2 DEF IsStream, StreamFields
  <1>4. IsStream([s EXCEPT !.done = TRUE]) /\ [s EXCEPT !.done = TRUE].named = s.named
    BY <1>3 DEF IsStream, StreamFields
  <1>5. QED
    BY <1>1, <1>3, <1>4 DEF s

\* A call is recorded: a new one at the end of the queue.
LEMMA QueueRecord ==
    \A st, m, ix, item, x :
      /\ Moves(st, m) /\ ix \in Nat /\ x = CodexClaude!Record(st, ix, item)
      => Moves(x, m) /\ Aside(x, st) /\ ix \in DOMAIN x.calls
  <1> SUFFICES ASSUME NEW st, NEW m, NEW ix \in Nat, NEW item, NEW x, Moves(st, m),
                      x = CodexClaude!Record(st, ix, item)
               PROVE  Moves(x, m) /\ Aside(x, st) /\ ix \in DOMAIN x.calls
    OBVIOUS
  <1> DEFINE calls == CodexClaude!Put(st.calls, ix, CodexClaude!NewCall)
             queue == Append(st.queue, ix)
             new == [st EXCEPT !.calls = calls, !.queue = queue]
             s == IF ix \in DOMAIN st.calls THEN st ELSE new
             of == item.of
             named == item.named
  <1>0. QueueShaped(st) /\ (Resting(st, m) \/ Calling(st, m))
    BY DEF Moves
  <1>1. x = [s EXCEPT !.calls[ix].of = of, !.calls[ix].named = @ \/ named]
    <2>1. new = [st EXCEPT !.calls = CodexClaude!Put(@, ix, CodexClaude!NewCall),
                           !.queue = Append(@, ix)]
      <3> HIDE DEF calls, queue, s
      <3>1. QED
        BY DEF calls, queue
    <2> HIDE DEF new
    <2>2. QED
      BY <2>1 DEF CodexClaude!Record
  <1> HIDE DEF of, named
  <1>2. QueueShaped(s) /\ Moves(s, m) /\ Aside(s, st) /\ ix \in DOMAIN s.calls
    <2>1. CASE ix \in DOMAIN st.calls
      <3>1. s = st
        BY <2>1
      <3>2. QED
        BY <1>0, <2>1, <3>1 DEF Aside
    <2>2. CASE ix \notin DOMAIN st.calls
      <3>1. s = new
        BY <2>2
      <3>2. IsStream(CodexClaude!NewCall)
        BY DEF IsStream, StreamFields, CodexClaude!NewCall
      <3>3. DOMAIN calls = DOMAIN st.calls \union {ix} /\ calls[ix] = CodexClaude!NewCall
            /\ \A d \in DOMAIN st.calls : calls[d] = st.calls[d]
        BY <2>2 DEF CodexClaude!Put
      <3> HIDE DEF calls
      <3>4. Streams(calls)
        BY <1>0, <3>2, <3>3 DEF QueueShaped, Streams
      <3>5. Lined(queue, calls) /\ Len(queue) > 0
            /\ (0 < Len(st.queue) => Head(queue) = Head(st.queue))
        <4>1. IsSeq(st.queue) /\ \A i \in DOMAIN st.queue : st.queue[i] \in DOMAIN st.calls
          BY <1>0 DEF QueueShaped, Lined
        <4>2. Len(st.queue) \in Nat /\ DOMAIN st.queue = 1 .. Len(st.queue)
          BY <4>1, SeqFacts
        <4>3. /\ IsSeq(queue) /\ Len(queue) = Len(st.queue) + 1
              /\ DOMAIN queue = 1 .. (Len(st.queue) + 1)
              /\ \A i \in 1 .. Len(st.queue) : queue[i] = st.queue[i]
              /\ queue[Len(st.queue) + 1] = ix
          BY <4>1, Longer
        <4> HIDE DEF queue
        <4>4. \A i \in DOMAIN queue : queue[i] \in DOMAIN calls
          <5>1. \A i \in 1 .. (Len(st.queue) + 1) : i \in 1 .. Len(st.queue) \/ i = Len(st.queue) + 1
            BY <4>2
          <5>2. QED
            BY <3>3, <4>1, <4>2, <4>3, <5>1
        <4>5. Head(queue) = queue[1] /\ (0 < Len(st.queue) => Head(st.queue) = st.queue[1])
          <5>1. PICK R : queue \in Seq(R)
            BY <4>3 DEF IsSeq
          <5>2. PICK S : st.queue \in Seq(S)
            BY <4>1 DEF IsSeq
          <5>3. QED
            BY <4>2, <4>3, <5>1, <5>2
        <4>6. QED
          BY <4>2, <4>3, <4>4, <4>5 DEF Lined
      <3> HIDE DEF queue
      <3>6. /\ DOMAIN new = QueueFields /\ new.calls = calls /\ new.queue = queue
            /\ new.active = st.active /\ new.open = st.open /\ new.next = st.next
            /\ new.out = st.out /\ new.uses = st.uses /\ new.deferred = st.deferred
        BY <1>0 DEF QueueShaped, QueueFields
      <3> HIDE DEF new, s
      <3>7. QueueShaped(new)
        BY <1>0, <3>4, <3>5, <3>6 DEF QueueShaped
      <3>8. Resting(st, m) => Resting(new, m)
        BY <3>6 DEF Resting
      <3>9. Calling(st, m) => Calling(new, m)
        <4>1. Calling(st, m) => st.active \in DOMAIN st.calls
          BY <1>0, QueueHead
        <4>2. QED
          BY <3>3, <3>5, <3>6, <4>1 DEF Calling
      <3>10. QED
        BY <1>0, <3>1, <3>3, <3>6, <3>7, <3>8, <3>9 DEF Moves, Aside, QueueShaped
    <2>3. QED
      BY <2>1, <2>2
  <1> HIDE DEF s
  <1> DEFINE old == s.calls[ix]
             c1 == [old EXCEPT !.of = of]
             c2 == [c1 EXCEPT !.named = @ \/ named]
             calls2 == [s.calls EXCEPT ![ix] = c2]
  <1>3. IsStream(old) /\ IsStream(c1) /\ c1.named = old.named
    <2>1. IsStream(old)
      BY <1>2 DEF QueueShaped, Streams
    <2> HIDE DEF old
    <2>2. QED
      BY <2>1 DEF IsStream, StreamFields
  <1>4. IsStream(c2) /\ (old.named = TRUE => c2.named = TRUE)
    <2> HIDE DEF c1, old
    <2>1. QED
      BY <1>3 DEF IsStream, StreamFields
  <1>5. x = [s EXCEPT !.calls = calls2]
    <2>0. DOMAIN s = QueueFields /\ ix \in DOMAIN s.calls /\ DOMAIN old = StreamFields
      BY <1>2, <1>3 DEF QueueShaped, IsStream
    <2>1. x.calls = calls2
      BY <1>1, <2>0 DEF QueueFields, StreamFields
    <2>2. DOMAIN x = DOMAIN s /\ \A f \in DOMAIN s : f # "calls" => x[f] = s[f]
      BY <1>1, <2>0 DEF QueueFields
    <2>3. x = [f \in DOMAIN x |-> x[f]]
      BY <1>1, Zenon
    <2> HIDE DEF calls2
    <2>4. QED
      BY <2>0, <2>1, <2>2, <2>3 DEF QueueFields
  <1>6. /\ DOMAIN calls2 = DOMAIN s.calls /\ Streams(calls2)
        /\ \A d \in DOMAIN s.calls : s.calls[d].named = TRUE => calls2[d].named = TRUE
    <2> HIDE DEF c2
    <2>1. QED
      BY <1>2, <1>4 DEF QueueShaped, Streams
  <1> HIDE DEF calls2
  <1>7. /\ DOMAIN x = QueueFields /\ x.calls = calls2 /\ x.queue = s.queue
        /\ x.active = s.active /\ x.open = s.open /\ x.next = s.next /\ x.out = s.out
        /\ x.uses = s.uses /\ x.deferred = s.deferred
    BY <1>2, <1>5 DEF QueueShaped, QueueFields
  <1>8. QueueShaped(x) /\ Aside(x, st)
    BY <1>2, <1>6, <1>7, Zenon DEF QueueShaped, Lined, Aside
  <1>9. Resting(s, m) => Resting(x, m)
    BY <1>7 DEF Resting
  <1>10. Calling(s, m) => Calling(x, m)
    <2>1. Calling(s, m) => s.active \in DOMAIN s.calls
      BY <1>2, QueueHead
    <2>2. QED
      BY <1>6, <1>7, <2>1 DEF Calling
  <1>11. QED
    BY <1>2, <1>6, <1>7, <1>8, <1>9, <1>10 DEF Moves

\* What a step of a call leaves: text, thoughts or a call may be under way.
AtWork(st, m) == QueueShaped(st) /\ (Chats(st, m) \/ Calling(st, m))

\* Before a call the blocks of text and thoughts are stopped.
LEMMA QueueReady ==
    \A st, m, x : AtWork(st, m) /\ x = CodexClaude!StopBoth(st) =>
      Moves(x, m) /\ Aside(x, st) /\ x.calls = st.calls /\ x.queue = st.queue
  <1> SUFFICES ASSUME NEW st, NEW m, NEW x, AtWork(st, m), x = CodexClaude!StopBoth(st)
               PROVE  Moves(x, m) /\ Aside(x, st) /\ x.calls = st.calls /\ x.queue = st.queue
    OBVIOUS
  <1>1. QueueShaped(st) /\ DOMAIN st = QueueFields
    BY DEF AtWork, QueueShaped
  <1>2. CASE Chats(st, m)
    <2>1. Resting(x, m) /\ Plainly(x, st)
      BY <1>1, <1>2, QueueStops
    <2>2. QueueShaped(x)
      BY <1>1, <2>1, QueueApart DEF Plainly
    <2>3. QED
      BY <2>1, <2>2 DEF Moves, Aside, Plainly, Apart
  <1>3. CASE Calling(st, m)
    <2>1. x = st
      BY <1>1, <1>3, QueueStops DEF Calling
    <2>2. QED
      BY <1>1, <1>3, <2>1 DEF Moves, Aside
  <1>4. QED
    BY <1>2, <1>3 DEF AtWork

\* A call is announced, or finished.
LEMMA QueueTold ==
    \A st, m, ix, item, c, s, x :
      /\ AtWork(st, m) /\ ix \in Nat
      /\ s = CodexClaude!Record(CodexClaude!StopBoth(st), ix, item)
      /\ IsStream(s.calls[ix]) => IsStream(c) /\ c.named = s.calls[ix].named
      /\ x = CodexClaude!Advance([s EXCEPT !.calls[ix] = c])
      => AtWork(x, m) /\ Aside(x, st)
  <1> SUFFICES ASSUME NEW st, NEW m, NEW ix \in Nat, NEW item, NEW c, NEW s, NEW x,
                      AtWork(st, m),
                      s = CodexClaude!Record(CodexClaude!StopBoth(st), ix, item),
                      IsStream(s.calls[ix]) => IsStream(c) /\ c.named = s.calls[ix].named,
                      x = CodexClaude!Advance([s EXCEPT !.calls[ix] = c])
               PROVE  AtWork(x, m) /\ Aside(x, st)
    OBVIOUS
  <1> DEFINE a == CodexClaude!StopBoth(st)
             b == [s EXCEPT !.calls[ix] = c]
  <1>1. Moves(a, m) /\ Aside(a, st)
    BY QueueReady
  <1>2. s = CodexClaude!Record(a, ix, item)
    OBVIOUS
  <1> HIDE DEF a
  <1>3. Moves(s, m) /\ Aside(s, a) /\ ix \in DOMAIN s.calls
    BY <1>1, <1>2, QueueRecord
  <1>4. QueueShaped(s) /\ IsStream(s.calls[ix])
    BY <1>3 DEF Moves, QueueShaped, Streams
  <1>5. Moves(b, m) /\ Aside(b, s)
    BY <1>3, <1>4, QueueSettle DEF Suits
  <1>6. x = CodexClaude!Advance(b)
    OBVIOUS
  <1> HIDE DEF b
  <1>7. Moves(x, m) /\ Aside(x, b)
    BY <1>5, <1>6, QueueAdvance
  <1>8. QED
    BY <1>1, <1>3, <1>5, <1>7 DEF Moves, AtWork, Chats, Aside

\* Arguments of a call come.
LEMMA QueueBrought ==
    \A st, m, ix, c, x :
      /\ AtWork(st, m)
      /\ IsStream(st.calls[ix]) => IsStream(c) /\ c.named = st.calls[ix].named
      /\ x = CodexClaude!SendArguments([st EXCEPT !.calls[ix] = c])
      => AtWork(x, m) /\ Aside(x, st)
  <1> SUFFICES ASSUME NEW st, NEW m, NEW ix, NEW c, NEW x, AtWork(st, m),
                      IsStream(st.calls[ix]) => IsStream(c) /\ c.named = st.calls[ix].named,
                      x = CodexClaude!SendArguments([st EXCEPT !.calls[ix] = c])
               PROVE  AtWork(x, m) /\ Aside(x, st)
    OBVIOUS
  <1> DEFINE b == [st EXCEPT !.calls[ix] = c]
  <1>1. QueueShaped(st) /\ (ix \in DOMAIN st.calls => IsStream(st.calls[ix]))
    BY DEF AtWork, QueueShaped, Streams
  <1>2. /\ QueueShaped(b) /\ Aside(b, st)
        /\ Chats(st, m) => Chats(b, m)
        /\ Calling(st, m) => Calling(b, m)
    <2>1. b = [st EXCEPT !.calls[ix] = c]
      OBVIOUS
    <2> HIDE DEF b
    <2>2. Suits(c, st.calls, ix)
      BY <1>1 DEF Suits
    <2>3. QueueShaped(st)
      BY <1>1
    <2>4. \A z : z = [st EXCEPT !.calls[ix] = c] =>
            /\ QueueShaped(z) /\ Aside(z, st)
            /\ \A n : Chats(st, n) => Chats(z, n)
            /\ \A n : Calling(st, n) => Calling(z, n)
      BY ONLY <2>2, <2>3, QueueSettle, Zenon
    <2>5. QED
      BY <2>1, <2>4
  <1>3. x = CodexClaude!SendArguments(b)
    OBVIOUS
  <1> HIDE DEF b
  <1>4. Chats(b, m) \/ Calling(b, m)
    BY <1>2 DEF AtWork
  <1>5. /\ QueueShaped(x) /\ Aside(x, b) /\ (Chats(b, m) => x = b)
        /\ (Calling(b, m) => Calling(x, m))
    BY <1>2, <1>3, <1>4, QueueSend
  <1>6. QED
    BY <1>2, <1>4, <1>5 DEF AtWork, Aside

LEMMA QueueCall ==
    \A st, m, e, x :
      /\ AtWork(st, m) /\ CodexClaude!IsCall(e)
      /\ e.t \in {"item_added", "item_done"} => e.ix \in Nat
      /\ x = CodexClaude!Call(st, e)
      => AtWork(x, m) /\ Aside(x, st)
  <1> SUFFICES ASSUME NEW st, NEW m, NEW e, NEW x, AtWork(st, m), CodexClaude!IsCall(e),
                      e.t \in {"item_added", "item_done"} => e.ix \in Nat,
                      x = CodexClaude!Call(st, e)
               PROVE  AtWork(x, m) /\ Aside(x, st)
    OBVIOUS
  <1> DEFINE ix == e.ix
             item == e.item
             s == CodexClaude!Record(CodexClaude!StopBoth(st), ix, item)
             named == s.calls[ix].named
             c1 == [s.calls[ix] EXCEPT !.hail = @ \/ named]
             whole == item.body
             c2 == [CodexClaude!Settled(s.calls[ix], whole) EXCEPT !.done = TRUE]
             body == e.body
             c3 == CodexClaude!Grown(st.calls[ix], body)
             c4 == CodexClaude!Settled(st.calls[ix], body)
  <1>1. e.t \in {"item_added", "item_done", "delta", "body_done"}
    BY DEF CodexClaude!IsCall
  <1>2. CASE e.t = "item_added"
    <2>1. x = CodexClaude!Advance([s EXCEPT !.calls[ix] = c1])
      BY <1>2 DEF CodexClaude!Call
    <2> HIDE DEF ix, item, s, named
    <2>2. IsStream(s.calls[ix]) => IsStream(c1) /\ c1.named = s.calls[ix].named
      BY DEF IsStream, StreamFields
    <2>3. ix \in Nat
      BY <1>2 DEF ix
    <2> HIDE DEF c1
    <2>4. QED
      BY <2>1, <2>2, <2>3, QueueTold, Zenon DEF s
  <1>3. CASE e.t = "item_done"
    <2>1. x = CodexClaude!Advance([s EXCEPT !.calls[ix] = c2])
      BY <1>3 DEF CodexClaude!Call
    <2> HIDE DEF ix, item, s, whole
    <2>2. IsStream(s.calls[ix]) => IsStream(c2) /\ c2.named = s.calls[ix].named
      BY QueueWritten
    <2>3. ix \in Nat
      BY <1>3 DEF ix
    <2> HIDE DEF c2
    <2>4. QED
      BY <2>1, <2>2, <2>3, QueueTold, Zenon DEF s
  <1>4. CASE e.t = "delta"
    <2>1. x = CodexClaude!SendArguments([st EXCEPT !.calls[ix] = c3])
      BY <1>4 DEF CodexClaude!Call
    <2> HIDE DEF ix, body
    <2>2. IsStream(st.calls[ix]) => IsStream(c3) /\ c3.named = st.calls[ix].named
      BY QueueWritten, Zenon
    <2> HIDE DEF c3
    <2>3. QED
      BY <2>1, <2>2, QueueBrought, Zenon
  <1>5. CASE e.t = "body_done"
    <2>1. x = CodexClaude!SendArguments([st EXCEPT !.calls[ix] = c4])
      BY <1>5 DEF CodexClaude!Call
    <2> HIDE DEF ix, body
    <2>2. IsStream(st.calls[ix]) => IsStream(c4) /\ c4.named = st.calls[ix].named
      BY QueueWritten, Zenon
    <2> HIDE DEF c4
    <2>3. QED
      BY <2>1, <2>2, QueueBrought, Zenon
  <1>6. QED
    BY <1>1, <1>2, <1>3, <1>4, <1>5

\* The last event has the calls again.
CompleteStep(st, i, output) == CodexClaude!Complete(st, output, i)
Recorded(x, aim) == Moves(x, aim.m) /\ Aside(x, aim.first)
CompleteFold == INSTANCE FoldFacts WITH Op <- CompleteStep, Good <- Recorded
LEMMA CompleteInduction == CompleteFold!Induction
  BY IndexInduction, Zenon DEF CompleteFold!Induction

LEMMA QueueComplete ==
    \A st, m, output, i, x :
      Moves(st, m) /\ i - 1 \in Nat /\ x = CodexClaude!Complete(st, output, i) =>
        Moves(x, m) /\ Aside(x, st)
  <1> SUFFICES ASSUME NEW st, NEW m, NEW output, NEW i, NEW x, Moves(st, m), i - 1 \in Nat,
                      x = CodexClaude!Complete(st, output, i)
               PROVE  Moves(x, m) /\ Aside(x, st)
    OBVIOUS
  <1> DEFINE ix == i - 1
             item == output[i]
             whole == output[i].body
             s == CodexClaude!Record(st, ix, item)
             c == [CodexClaude!Settled(s.calls[ix], whole) EXCEPT !.done = TRUE]
  <1>1. x = st \/ x = [s EXCEPT !.calls[ix] = c]
    BY DEF CodexClaude!Complete
  <1>2. ix \in Nat
    OBVIOUS
  <1> HIDE DEF ix, item, whole
  <1>3. Moves(s, m) /\ Aside(s, st) /\ ix \in DOMAIN s.calls
    BY <1>2, QueueRecord
  <1> HIDE DEF s
  <1>4. QueueShaped(s) /\ IsStream(s.calls[ix])
    BY <1>3 DEF Moves, QueueShaped, Streams
  <1>5. Suits(c, s.calls, ix)
    BY <1>4, QueueWritten DEF Suits
  <1> HIDE DEF c
  <1>6. \A z : z = [s EXCEPT !.calls[ix] = c] => Moves(z, m) /\ Aside(z, s)
    BY ONLY <1>3, <1>4, <1>5, QueueSettle, Zenon
  <1>7. CASE x = st
    BY <1>7 DEF Aside
  <1>8. CASE x = [s EXCEPT !.calls[ix] = c]
    BY <1>3, <1>6, <1>8 DEF Aside
  <1>9. QED
    BY <1>1, <1>7, <1>8

AllTold(st, output) ==
    CodexClaude!FoldLeft(LAMBDA s, i : CodexClaude!Complete(s, output, i), st,
                         [i \in DOMAIN output |-> i])

LEMMA QueueCompletes ==
    \A st, m, output, n, x :
      /\ Moves(st, m) /\ n \in Nat /\ DOMAIN output = 1 .. n
      /\ x = AllTold(st, output)
      => Moves(x, m) /\ Aside(x, st)
  <1> SUFFICES ASSUME NEW st, NEW m, NEW output, NEW n \in Nat, NEW x, Moves(st, m),
                      DOMAIN output = 1 .. n,
                      x = AllTold(st, output)
               PROVE  Moves(x, m) /\ Aside(x, st)
    OBVIOUS
  <1> DEFINE l == [i \in DOMAIN output |-> i]
             aim == [m |-> m, first |-> st]
             z == CompleteFold!Folded(output, st, l)
  <1>1. x = z
    BY DEF CompleteFold!Folded, CompleteFold!Part, CompleteFold!Table, CompleteFold!Top,
           CompleteStep, AllTold,
           CodexClaude!FoldLeft, CodexClaude!MapThenFoldSet, CodexClaude!Max
  <1>2. /\ CompleteFold!Line(DOMAIN l) /\ DOMAIN l = 1 .. n
        /\ \A i \in DOMAIN l : l[i] = i /\ l[i] - 1 \in Nat
    BY DEF CompleteFold!Line
  <1>3. aim.m = m /\ aim.first = st
    OBVIOUS
  <1> HIDE DEF l, aim
  <1>4. Recorded(st, aim)
    BY <1>3 DEF Recorded, Aside
  <1>5. \A y : \A i \in DOMAIN l : Recorded(y, aim) => Recorded(CompleteStep(y, l[i], output), aim)
    <2> SUFFICES ASSUME NEW y, NEW i \in DOMAIN l, Recorded(y, aim)
                 PROVE  Recorded(CompleteStep(y, l[i], output), aim)
      OBVIOUS
    <2> DEFINE w == CodexClaude!Complete(y, output, l[i])
    <2>1. Moves(y, m) /\ Aside(y, st) /\ l[i] - 1 \in Nat
      BY <1>2, <1>3 DEF Recorded
    <2>2. Moves(w, m) /\ Aside(w, y)
      BY <2>1, QueueComplete
    <2> HIDE DEF w
    <2>3. Recorded(w, aim)
      BY <1>3, <2>1, <2>2 DEF Recorded, Aside
    <2>4. QED
      BY <2>3 DEF w, CompleteStep
  <1>6. Recorded(z, aim)
    BY <1>2, <1>4, <1>5, CompleteInduction, CompleteFold!FoldKeeps
  <1> HIDE DEF z
  <1>7. QED
    BY <1>1, <1>3, <1>6 DEF Recorded

\* The calls whose tool is known stay, in their order.
NamedStep(q, ix, calls) == IF calls[ix].named THEN Append(q, ix) ELSE q
\* After k calls; head is the first one.
Sifted(q, aim) ==
    /\ Lined(q, aim.calls)
    /\ aim.k = 0 => Len(q) = 0
    /\ aim.k > 0 /\ aim.calls[aim.head].named = TRUE => 0 < Len(q) /\ Head(q) = aim.head
SiftFold == INSTANCE FoldFacts WITH Op <- NamedStep, Good <- Sifted
LEMMA SiftInduction == SiftFold!Induction
  BY IndexInduction, Zenon DEF SiftFold!Induction

\* A place in a line, and the first one of it.
LEMMA LinedFacts ==
    \A q, calls : Lined(q, calls) =>
      /\ Len(q) \in Nat /\ DOMAIN q = 1 .. Len(q) /\ Head(q) = q[1]
  <1> SUFFICES ASSUME NEW q, NEW calls, Lined(q, calls)
               PROVE  Len(q) \in Nat /\ DOMAIN q = 1 .. Len(q) /\ Head(q) = q[1]
    OBVIOUS
  <1>1. PICK R : q \in Seq(R)
    BY DEF Lined, IsSeq
  <1>2. QED
    BY <1>1

LEMMA LinedMore ==
    \A q, calls, ix, x : Lined(q, calls) /\ ix \in DOMAIN calls /\ x = Append(q, ix) =>
      /\ Lined(x, calls) /\ 0 < Len(x)
      /\ Len(q) = 0 => Head(x) = ix
      /\ 0 < Len(q) => Head(x) = Head(q)
  <1> SUFFICES ASSUME NEW q, NEW calls, NEW ix \in DOMAIN calls, NEW x, Lined(q, calls),
                      x = Append(q, ix)
               PROVE  /\ Lined(x, calls) /\ 0 < Len(x)
                      /\ Len(q) = 0 => Head(x) = ix
                      /\ 0 < Len(q) => Head(x) = Head(q)
    BY Zenon
  <1>1. Len(q) \in Nat /\ DOMAIN q = 1 .. Len(q) /\ Head(q) = q[1]
    BY LinedFacts
  <1>2. /\ IsSeq(x) /\ Len(x) = Len(q) + 1 /\ DOMAIN x = 1 .. (Len(q) + 1)
        /\ \A i \in 1 .. Len(q) : x[i] = q[i]
        /\ x[Len(q) + 1] = ix
    BY Longer DEF Lined
  <1>3. \A i \in 1 .. (Len(q) + 1) : i \in 1 .. Len(q) \/ i = Len(q) + 1
    BY <1>1
  <1>4. Lined(x, calls)
    BY <1>1, <1>2, <1>3 DEF Lined
  <1>5. Head(x) = x[1]
    BY <1>4, LinedFacts
  <1>6. QED
    BY <1>1, <1>2, <1>4, <1>5

NamedOnes(queue, calls) ==
    CodexClaude!FoldLeft(LAMBDA q, ix : IF calls[ix].named THEN Append(q, ix) ELSE q, <<>>, queue)

LEMMA QueueSift ==
    \A queue, calls, x :
      /\ Lined(queue, calls) /\ Streams(calls)
      /\ x = NamedOnes(queue, calls)
      => /\ Lined(x, calls)
         /\ 0 < Len(queue) /\ calls[Head(queue)].named = TRUE
              => 0 < Len(x) /\ Head(x) = Head(queue)
  <1> SUFFICES ASSUME NEW queue, NEW calls, NEW x, Lined(queue, calls), Streams(calls),
                      x = NamedOnes(queue, calls)
               PROVE  /\ Lined(x, calls)
                      /\ 0 < Len(queue) /\ calls[Head(queue)].named = TRUE
                           => 0 < Len(x) /\ Head(x) = Head(queue)
    BY Zenon
  <1> DEFINE n == Len(queue)
             head == Head(queue)
             aims == [k \in 0 .. n |-> [calls |-> calls, k |-> k, head |-> head]]
             none == <<>>
             z == SiftFold!Folded(calls, none, queue)
  <1>1. x = z
    BY DEF SiftFold!Folded, SiftFold!Part, SiftFold!Table, SiftFold!Top, NamedStep, NamedOnes,
           CodexClaude!FoldLeft, CodexClaude!MapThenFoldSet, CodexClaude!Max
  <1>2. n \in Nat /\ DOMAIN queue = 1 .. n /\ head = queue[1]
    BY LinedFacts
  <1>3. \A k \in 0 .. n : aims[k].calls = calls /\ aims[k].k = k /\ aims[k].head = head
    OBVIOUS
  <1>4. IsSeq(none) /\ Len(none) = 0 /\ DOMAIN none = {}
    <2>1. IsSeq(<<>>)
      BY EmptyIsSeq
    <2>2. Len(<<>>) = 0 /\ DOMAIN <<>> = {}
      OBVIOUS
    <2>3. QED
      BY <2>1, <2>2
  <1> HIDE DEF head, aims, none
  <1>5. Sifted(none, aims[0])
    <2>1. 0 \in 0 .. n
      BY <1>2
    <2>2. QED
      BY <1>3, <1>4, <2>1 DEF Sifted, Lined
  <1>6. \A q : \A k \in 1 .. n : Sifted(q, aims[k - 1]) => Sifted(NamedStep(q, queue[k], calls), aims[k])
    <2> SUFFICES ASSUME NEW q, NEW k \in 1 .. n, Sifted(q, aims[k - 1])
                 PROVE  Sifted(NamedStep(q, queue[k], calls), aims[k])
      OBVIOUS
    <2>1. /\ k - 1 \in 0 .. n /\ k \in 0 .. n /\ k > 0 /\ (k - 1 = 0 => k = 1)
          /\ (k - 1 > 0 \/ k - 1 = 0)
      BY <1>2
    <2> DEFINE ix == queue[k]
               y == NamedStep(q, ix, calls)
               a == Append(q, ix)
    <2>2. /\ Lined(q, calls) /\ (k - 1 = 0 => Len(q) = 0)
          /\ k - 1 > 0 /\ calls[head].named = TRUE => 0 < Len(q) /\ Head(q) = head
      BY <1>3, <2>1 DEF Sifted
    <2>3. ix \in DOMAIN calls /\ (k - 1 = 0 => ix = head)
      BY <1>2, <2>1 DEF Lined
    <2>4. calls[ix].named = TRUE \/ calls[ix].named = FALSE
      BY <2>3 DEF Streams, IsStream
    <2> HIDE DEF ix
    <2>5. CASE calls[ix].named = TRUE
      <3>1. y = a
        BY <2>5 DEF NamedStep
      <3>2. /\ Lined(a, calls) /\ 0 < Len(a)
            /\ Len(q) = 0 => Head(a) = ix
            /\ 0 < Len(q) => Head(a) = Head(q)
        BY <2>2, <2>3, LinedMore, Zenon
      <3> HIDE DEF a, y
      <3>3. Sifted(a, aims[k])
        BY <1>3, <2>1, <2>2, <2>3, <3>2 DEF Sifted
      <3>4. QED
        BY <3>1, <3>3 DEF y, ix
    <2>6. CASE calls[ix].named = FALSE
      <3>1. y = q
        BY <2>6 DEF NamedStep
      <3> HIDE DEF y
      <3>2. Sifted(q, aims[k])
        BY <1>3, <2>1, <2>2, <2>3, <2>6 DEF Sifted
      <3>3. QED
        BY <3>1, <3>2 DEF y, ix
    <2>7. QED
      BY <2>4, <2>5, <2>6, Zenon
  <1>7. Sifted(z, aims[n])
    BY <1>2, <1>5, <1>6, SiftInduction, SiftFold!FoldReaches
  <1> HIDE DEF z
  <1>8. n \in 0 .. n
    BY <1>2
  <1>9. QED
    BY <1>1, <1>2, <1>3, <1>7, <1>8 DEF Sifted, head

\* Every call that waits is finished from the last event, or dropped.
LEMMA QueueTerminal ==
    \A st, m, output, n, x :
      /\ Moves(st, m) /\ n \in Nat /\ DOMAIN output = 1 .. n
      /\ x = CodexClaude!CallsFromTerminal(st, output)
      => QueueShaped(x) /\ Resting(x, m) /\ Aside(x, st) /\ x.queue = <<>>
  <1> SUFFICES ASSUME NEW st, NEW m, NEW output, NEW n \in Nat, NEW x, Moves(st, m),
                      DOMAIN output = 1 .. n, x = CodexClaude!CallsFromTerminal(st, output)
               PROVE  QueueShaped(x) /\ Resting(x, m) /\ Aside(x, st) /\ x.queue = <<>>
    OBVIOUS
  <1> DEFINE all == AllTold(st, output)
             named == NamedOnes(all.queue, all.calls)
             calls == [ix \in DOMAIN all.calls |-> [all.calls[ix] EXCEPT !.done = TRUE]]
             ready == [all EXCEPT !.queue = named, !.calls = calls]
             y == CodexClaude!Advance(ready)
             none == <<>>
  <1>1. x = [y EXCEPT !.calls = none, !.queue = none, !.active = -1]
    BY Zenon DEF CodexClaude!CallsFromTerminal, AllTold, NamedOnes, CodexClaude!None
  <1>2. Moves(all, m) /\ Aside(all, st)
    BY QueueCompletes
  <1> HIDE DEF all
  <1>3. QueueShaped(all) /\ Lined(all.queue, all.calls) /\ Streams(all.calls)
        /\ DOMAIN all = QueueFields /\ IsSeq(all.deferred)
    BY <1>2 DEF Moves, QueueShaped
  <1>4. /\ Lined(named, all.calls)
        /\ 0 < Len(all.queue) /\ all.calls[Head(all.queue)].named = TRUE
             => 0 < Len(named) /\ Head(named) = Head(all.queue)
    BY <1>3, QueueSift
  <1> HIDE DEF named
  <1>5. /\ DOMAIN calls = DOMAIN all.calls /\ Streams(calls) /\ AllDone(calls)
        /\ \A ix \in DOMAIN all.calls : calls[ix].named = all.calls[ix].named
    BY <1>3, Zenon DEF Streams, IsStream, StreamFields, AllDone
  <1> HIDE DEF calls
  <1>6. /\ DOMAIN ready = QueueFields /\ ready.calls = calls /\ ready.queue = named
        /\ ready.active = all.active /\ ready.open = all.open /\ ready.next = all.next
        /\ ready.out = all.out /\ ready.uses = all.uses /\ ready.deferred = all.deferred
    BY <1>3 DEF QueueFields
  <1> HIDE DEF ready
  <1>7. QueueShaped(ready) /\ Aside(ready, all)
    BY <1>3, <1>4, <1>5, <1>6 DEF QueueShaped, Lined, Aside
  <1>8. Resting(all, m) => Resting(ready, m)
    BY <1>6 DEF Resting
  <1>9. Calling(all, m) => Calling(ready, m)
    <2>1. Calling(all, m) => all.active \in DOMAIN all.calls
      BY <1>3, QueueHead
    <2>2. QED
      BY <1>4, <1>5, <1>6, <2>1 DEF Calling
  <1>10. Moves(ready, m)
    BY <1>2, <1>7, <1>8, <1>9 DEF Moves
  <1>11. Moves(y, m) /\ Aside(y, ready) /\ y.active = -1
    BY <1>5, <1>6, <1>10, QueueAdvance, Zenon
  <1> HIDE DEF y
  <1>12. QueueShaped(y) /\ Resting(y, m)
    BY <1>11, QueueHead DEF Moves
  <1>13. IsSeq(none) /\ DOMAIN none = {}
    <2>1. IsSeq(<<>>)
      BY EmptyIsSeq
    <2>2. DOMAIN <<>> = {}
      OBVIOUS
    <2>3. QED
      BY <2>1, <2>2
  <1>14. none = <<>>
    OBVIOUS
  <1> HIDE DEF none
  <1>15. /\ DOMAIN x = QueueFields /\ x.calls = none /\ x.queue = none /\ x.active = -1
         /\ x.open = y.open /\ x.next = y.next /\ x.out = y.out /\ x.uses = y.uses
         /\ x.deferred = y.deferred
    BY <1>1, <1>12 DEF QueueShaped, QueueFields
  <1>16. QueueShaped(x) /\ Resting(x, m)
    BY <1>12, <1>13, <1>15 DEF QueueShaped, Lined, Streams, Resting
  <1>17. Aside(x, st)
    BY <1>2, <1>7, <1>11, <1>12, <1>15 DEF Aside, QueueShaped
  <1>18. QED
    BY <1>14, <1>15, <1>16, <1>17

\* The last event: what was deferred comes after the calls.
LEMMA QueueEnd ==
    \A st, m, e, n, x :
      /\ AtWork(st, m) /\ Deferrable(st.deferred, st.uses)
      /\ n \in Nat /\ DOMAIN e.output = 1 .. n
      /\ x = CodexClaude!End(st, e)
      => DOMAIN x = QueueFields /\ Closed(m, x.out) /\ x.queue = <<>> /\ x.deferred = <<>>
  <1> SUFFICES ASSUME NEW st, NEW m, NEW e, NEW n \in Nat, NEW x, AtWork(st, m),
                      Deferrable(st.deferred, st.uses), DOMAIN e.output = 1 .. n,
                      x = CodexClaude!End(st, e)
               PROVE  /\ DOMAIN x = QueueFields /\ Closed(m, x.out) /\ x.queue = <<>>
                      /\ x.deferred = <<>>
    OBVIOUS
  <1> DEFINE output == e.output
             a == CodexClaude!StopBoth(st)
             b == CodexClaude!CallsFromTerminal(a, output)
             c == CodexClaude!Replay(b)
             s == CodexClaude!StopBoth(c)
             f == CodexClaude!MessageDelta(CodexClaude!StopReason(e.reason, s.toolUse))
             g == CodexClaude!MessageStop
             y == CodexClaude!Emit(s, f)
             none == <<>>
  <1>1. x = CodexClaude!Emit(y, g)
    BY DEF CodexClaude!End
  <1>2. Moves(a, m) /\ Aside(a, st)
    BY QueueReady
  <1>3. Concludes(f) /\ Closes(g)
    BY QueueEvents
  <1>4. DOMAIN output = 1 .. n
    OBVIOUS
  <1> HIDE DEF a, f, g, output
  <1>5. QueueShaped(b) /\ Resting(b, m) /\ Aside(b, a) /\ b.queue = none
    BY <1>2, <1>4, QueueTerminal, Zenon
  <1> HIDE DEF b
  <1>6. Deferrable(b.deferred, b.uses) /\ Chats(b, m)
    BY <1>2, <1>5 DEF Aside, Chats
  <1>7. QueueShaped(c) /\ Chats(c, m) /\ c.deferred = none /\ c.queue = b.queue
    BY <1>5, <1>6, QueueReplay, Zenon
  <1> HIDE DEF c
  <1>8. Resting(s, m) /\ Plainly(s, c)
    BY <1>7, QueueStops DEF QueueShaped
  <1> HIDE DEF s, none
  <1>9. DOMAIN s = QueueFields
    BY <1>7, <1>8 DEF Plainly, Apart, QueueShaped
  <1>10. Plainly(y, s) /\ y.out = Append(s.out, f)
    BY <1>9, QueueEmit
  <1> HIDE DEF y
  <1>11. Plainly(x, y) /\ x.out = Append(y.out, g)
    BY <1>1, <1>9, <1>10, QueueEmit DEF Plainly, Apart
  <1>12. Closed(m, Append(Append(s.out, f), g))
    BY <1>3, <1>8, WriteEnd DEF Resting
  <1>13. DOMAIN x = QueueFields /\ x.queue = none /\ x.deferred = none
    BY <1>5, <1>7, <1>8, <1>9, <1>10, <1>11 DEF Plainly, Apart
  <1>14. QED
    BY <1>10, <1>11, <1>12, <1>13 DEF none

-----------------------------------------------------------------------------
(***************************************************************************)
(* The response that the upstream has sent so far: every event goes on in  *)
(* an item that is not finished, so that no search is finished twice.      *)
(***************************************************************************)
EntryFields == {"item", "body", "step"}
IsResponse(src) ==
    /\ DOMAIN src = {"phase", "items", "output", "status", "reason"}
    /\ DOMAIN src.items \subseteq Nat /\ IsFiniteSet(DOMAIN src.items)
    /\ \A ix \in DOMAIN src.items : DOMAIN src.items[ix] = EntryFields
Found(src) == {ix \in DOMAIN src.items : src.items[ix].step = "done"}

InEntry == {"part_added", "delta", "body_done", "part_done"}
GoesOn(src, e) ==
    /\ e.t \in {"created", "item_added", "item_done", "terminal"} \union InEntry
    /\ src.phase = IF e.t = "created" THEN "before" ELSE "response"
    /\ e.t = "terminal" => \E n \in Nat : DOMAIN e.output = 1 .. n
    /\ e.t \in {"item_added", "item_done"} => e.ix \in Nat
    /\ e.t \in InEntry => e.ix \in DOMAIN src.items
    /\ e.t \in {"item_added"} \union InEntry \/ Searching(e) => e.ix \notin Found(src)

\* An entry takes its place, or changes.
LEMMA EntryPut ==
    \A src, ix, entry, x :
      /\ IsResponse(src) /\ ix \in Nat /\ DOMAIN entry = EntryFields
      /\ entry.step = "done" \/ ix \notin Found(src)
      /\ x = [src EXCEPT !.items = Responses!Put(@, ix, entry)]
      => /\ IsResponse(x) /\ Found(src) \subseteq Found(x) /\ x.phase = src.phase
         /\ entry.step = "done" => ix \in Found(x)
  <1> SUFFICES ASSUME NEW src, NEW ix \in Nat, NEW entry, NEW x, IsResponse(src),
                      DOMAIN entry = EntryFields, entry.step = "done" \/ ix \notin Found(src),
                      x = [src EXCEPT !.items = Responses!Put(@, ix, entry)]
               PROVE  /\ IsResponse(x) /\ Found(src) \subseteq Found(x) /\ x.phase = src.phase
                      /\ entry.step = "done" => ix \in Found(x)
    OBVIOUS
  <1> DEFINE items == Responses!Put(src.items, ix, entry)
  <1>1. /\ DOMAIN items = DOMAIN src.items \union {ix} /\ items[ix] = entry
        /\ \A i \in DOMAIN src.items : i # ix => items[i] = src.items[i]
    BY DEF Responses!Put
  <1>2. /\ DOMAIN x = DOMAIN src /\ x.items = items /\ x.phase = src.phase
    BY DEF IsResponse
  <1> HIDE DEF items
  <1>3. IsFiniteSet(DOMAIN items)
    BY <1>1, FS_AddElement DEF IsResponse
  <1>4. IsResponse(x)
    BY <1>1, <1>2, <1>3 DEF IsResponse
  <1>5. QED
    BY <1>1, <1>2, <1>4 DEF Found

LEMMA EntryChange ==
    \A src, ix, entry, x :
      /\ IsResponse(src) /\ ix \in DOMAIN src.items \ Found(src) /\ DOMAIN entry = EntryFields
      /\ x = [src EXCEPT !.items = [src.items EXCEPT ![ix] = entry]]
      => IsResponse(x) /\ Found(src) \subseteq Found(x) /\ x.phase = src.phase
  <1> SUFFICES ASSUME NEW src, NEW ix \in DOMAIN src.items \ Found(src), NEW entry, NEW x,
                      IsResponse(src), DOMAIN entry = EntryFields,
                      x = [src EXCEPT !.items = [src.items EXCEPT ![ix] = entry]]
               PROVE  IsResponse(x) /\ Found(src) \subseteq Found(x) /\ x.phase = src.phase
    OBVIOUS
  <1> DEFINE items == [src.items EXCEPT ![ix] = entry]
  <1>1. /\ DOMAIN items = DOMAIN src.items /\ items[ix] = entry
        /\ \A i \in DOMAIN src.items : i # ix => items[i] = src.items[i]
    OBVIOUS
  <1>2. /\ DOMAIN x = DOMAIN src /\ x.items = items /\ x.phase = src.phase
    BY DEF IsResponse
  <1> HIDE DEF items
  <1>3. IsResponse(x)
    BY <1>1, <1>2 DEF IsResponse
  <1>4. QED
    BY <1>1, <1>2, <1>3 DEF Found

LEMMA ResponseStep ==
    ASSUME NEW src, IsResponse(src), NEW e, GoesOn(src, e),
           NEW next, next = Responses!Follow(src, e)
    PROVE  /\ IsResponse(next) /\ Found(src) \subseteq Found(next)
           /\ Searching(e) => e.ix \in Found(next)
           /\ e.t # "terminal" => next.phase = "response"
  <1>1. CASE e.t = "created"
    <2>1. next = [src EXCEPT !.phase = "response"]
      BY <1>1 DEF Responses!Follow
    <2>2. QED
      BY <1>1, <2>1 DEF IsResponse, Found, Searching
  <1>2. CASE e.t = "item_added"
    <2> DEFINE ix == e.ix
               item == e.item
               none == <<>>
               entry == [item |-> item, body |-> none, step |-> "added"]
    <2>1. next = [src EXCEPT !.items = Responses!Put(@, ix, entry)]
      BY <1>2 DEF Responses!Follow
    <2>2. ix \in Nat /\ ix \notin Found(src) /\ src.phase = "response"
      BY <1>2 DEF GoesOn
    <2> HIDE DEF ix, item, none
    <2>3. DOMAIN entry = EntryFields
      BY DEF EntryFields
    <2> HIDE DEF entry
    <2>4. IsResponse(next) /\ Found(src) \subseteq Found(next) /\ next.phase = src.phase
      BY <2>1, <2>2, <2>3, EntryPut
    <2>5. QED
      BY <1>2, <2>2, <2>4 DEF Searching
  <1>3. CASE e.t = "item_done"
    <2> DEFINE ix == e.ix
               item == e.item
               body == e.item.body
               entry == [item |-> item, body |-> body, step |-> "done"]
    <2>1. next = [src EXCEPT !.items = Responses!Put(@, ix, entry)]
      BY <1>3 DEF Responses!Follow
    <2>2. ix \in Nat /\ src.phase = "response"
      BY <1>3 DEF GoesOn
    <2> HIDE DEF ix, item, body
    <2>3. DOMAIN entry = EntryFields /\ entry.step = "done"
      BY DEF EntryFields
    <2> HIDE DEF entry
    <2>4. IsResponse(next) /\ Found(src) \subseteq Found(next) /\ next.phase = src.phase
          /\ ix \in Found(next)
      BY <2>1, <2>2, <2>3, EntryPut
    <2>5. QED
      BY <2>2, <2>4 DEF ix
  <1>4. CASE e.t = "terminal"
    <2> DEFINE output == e.output
               status == e.status
               reason == e.reason
    <2> HIDE DEF output, status, reason
    <2>1. next = [src EXCEPT !.phase = "end", !.output = output, !.status = status,
                             !.reason = reason]
      BY <1>4 DEF Responses!Follow, output, status, reason
    <2>2. DOMAIN next = DOMAIN src /\ next.items = src.items
      BY <2>1 DEF IsResponse
    <2>3. QED
      BY <1>4, <2>2 DEF IsResponse, Found, Searching
  <1>5. CASE e.t \in InEntry
    <2> DEFINE ix == e.ix
               old == src.items[ix]
    <2>1. ix \in DOMAIN src.items \ Found(src) /\ src.phase = "response"
      BY <1>5 DEF GoesOn, InEntry
    <2>2. \E entry : /\ DOMAIN entry = EntryFields
                     /\ next = [src EXCEPT !.items = [src.items EXCEPT ![ix] = entry]]
      <3>1. DOMAIN old = EntryFields
        BY <2>1 DEF IsResponse
      <3>2. CASE e.t = "part_added"
        <4>1. next = [src EXCEPT !.items[ix].step = "part"]
          BY <3>2 DEF Responses!Follow
        <4> HIDE DEF ix
        <4>2. QED
          BY <3>1, <4>1, Zenon
      <3>3. CASE e.t = "part_done"
        <4>1. next = [src EXCEPT !.items[ix].step = "part_done"]
          BY <3>3 DEF Responses!Follow
        <4> HIDE DEF ix
        <4>2. QED
          BY <3>1, <4>1, Zenon
      <3>4. CASE e.t = "delta"
        <4> DEFINE body == src.items[ix].body \o e.body
        <4>1. next = [src EXCEPT !.items[ix].body = body]
          BY <3>4 DEF Responses!Follow
        <4> HIDE DEF ix, body
        <4>2. QED
          BY <3>1, <4>1, Zenon
      <3>5. CASE e.t = "body_done"
        <4> DEFINE body == e.body
        <4>1. next = [src EXCEPT !.items[ix].body = body, !.items[ix].step = "body"]
          BY <3>5 DEF Responses!Follow
        <4> HIDE DEF ix, body
        <4> DEFINE entry == [old EXCEPT !.body = body, !.step = "body"]
                   items == [src.items EXCEPT ![ix] = entry]
        <4>2. DOMAIN entry = EntryFields
          BY <3>1
        <4>3. next.items = items
          BY <2>1, <3>1, <4>1 DEF IsResponse, EntryFields
        <4>4. DOMAIN next = DOMAIN src /\ \A f \in DOMAIN src : f # "items" => next[f] = src[f]
          BY <4>1 DEF IsResponse
        <4>5. next = [f \in DOMAIN next |-> next[f]]
          BY <4>1, Zenon
        <4> HIDE DEF items
        <4>6. next = [src EXCEPT !.items = items]
          BY <4>3, <4>4, <4>5 DEF IsResponse
        <4>7. QED
          BY <4>2, <4>6, Zenon DEF items
      <3>6. QED
        BY <1>5, <3>2, <3>3, <3>4, <3>5 DEF InEntry
    <2> HIDE DEF ix, old
    <2>3. IsResponse(next) /\ Found(src) \subseteq Found(next) /\ next.phase = src.phase
      BY <2>1, <2>2, EntryChange
    <2>4. QED
      BY <1>5, <2>1, <2>3 DEF Searching, InEntry
  <1>6. QED
    BY <1>1, <1>2, <1>3, <1>4, <1>5 DEF GoesOn

\* The translator and its client, with what the upstream has sent: what is deferred is
\* of finished items, and no search of it was told.
Silent(st, m) ==
    /\ st.active = -1 /\ st.open \notin Kinds /\ st.next = 0 /\ Unopened(m, st.out)
    /\ st.deferred = <<>> /\ st.uses = {}
QueueInStep(st, m, src) ==
    /\ IsResponse(src) /\ QueueShaped(st) /\ src.phase \in {"before", "response"}
    /\ src.phase = "before" => Silent(st, m)
    /\ src.phase = "response" => AtWork(st, m) /\ Deferrable(st.deferred, st.uses)
    /\ st.uses \union SearchesIn(st.deferred) \subseteq Found(src)

LEMMA QueueLegal ==
    \A st, m, src : QueueInStep(st, m, src) => Claude!Receive(m, st.out).phase # "wrong"
  BY DEF QueueInStep, Silent, AtWork, Chats, Resting, Telling, Calling, Unopened, NoBlocks,
         Idle, Between, Writing, Within

\* With nothing deferred there is nothing to send.
LEMMA QueueNothing ==
    \A st, x : DOMAIN st = QueueFields /\ st.deferred = <<>> /\ x = CodexClaude!Replay(st) =>
      x.out = st.out
  <1> SUFFICES ASSUME NEW st, NEW x, DOMAIN st = QueueFields, st.deferred = <<>>,
                      x = CodexClaude!Replay(st)
               PROVE  x.out = st.out
    OBVIOUS
  <1> DEFINE none == <<>>
             s == [st EXCEPT !.deferred = none]
             z == ReplayFold!Folded(0, s, <<>>)
  <1>1. x = ReplayFold!Folded(0, s, st.deferred)
    BY DEF ReplayFold!Folded, ReplayFold!Part, ReplayFold!Table, ReplayFold!Top, ContentStep,
           CodexClaude!Replay,
           CodexClaude!FoldLeft, CodexClaude!MapThenFoldSet, CodexClaude!Max
  <1>2. x = z
    BY <1>1
  <1> HIDE DEF none
  <1>3. s.out = st.out
    BY DEF QueueFields
  <1> HIDE DEF s
  <1>4. z = s
    BY ReplayInduction, ReplayFold!FoldShort, Zenon
  <1> HIDE DEF z
  <1>5. QED
    BY <1>2, <1>3, <1>4

LEMMA DeferNothing ==
    \A deferred, uses : deferred = <<>> => Deferrable(deferred, uses) /\ SearchesIn(deferred) = {}
  <1> SUFFICES ASSUME NEW deferred, NEW uses, deferred = <<>>
               PROVE  Deferrable(deferred, uses) /\ SearchesIn(deferred) = {}
    OBVIOUS
  <1>1. DOMAIN deferred = {}
    OBVIOUS
  <1>2. SearchesIn(deferred) = {}
    BY <1>1, Zenon DEF SearchesIn
  <1>3. QED
    BY <1>1, <1>2 DEF Deferrable

\* An event more is deferred.
LEMMA DeferMore ==
    \A deferred, uses, found, e :
      /\ IsSeq(deferred) /\ Deferrable(deferred, uses) /\ e.t # "created"
      /\ uses \union SearchesIn(deferred) \subseteq found
      /\ Searching(e) => e.ix \notin found
      => /\ Deferrable(Append(deferred, e), uses)
         /\ SearchesIn(Append(deferred, e)) \subseteq SearchesIn(deferred) \union SearchOf(e)
  <1> SUFFICES ASSUME NEW deferred, NEW uses, NEW found, NEW e, IsSeq(deferred),
                      Deferrable(deferred, uses), e.t # "created",
                      uses \union SearchesIn(deferred) \subseteq found,
                      Searching(e) => e.ix \notin found
               PROVE  /\ Deferrable(Append(deferred, e), uses)
                      /\ SearchesIn(Append(deferred, e))
                           \subseteq SearchesIn(deferred) \union SearchOf(e)
    OBVIOUS
  <1> DEFINE n == Len(deferred)
             more == Append(deferred, e)
  <1>1. n \in Nat /\ DOMAIN deferred = 1 .. n
    BY SeqFacts
  <1>2. /\ DOMAIN more = 1 .. (n + 1) /\ \A i \in 1 .. n : more[i] = deferred[i]
        /\ more[n + 1] = e
    BY Longer
  <1>3. \A i \in 1 .. (n + 1) : i \in 1 .. n \/ i = n + 1
    BY <1>1
  <1> HIDE DEF more
  <1>4. \A i \in DOMAIN more :
          (i \in DOMAIN deferred /\ more[i] = deferred[i]) \/ (i = n + 1 /\ more[i] = e)
    BY <1>1, <1>2, <1>3
  <1> HIDE DEF n
  <1>5. \A i \in DOMAIN deferred : Searching(deferred[i]) => deferred[i].ix \in found
    <2> SUFFICES ASSUME NEW i \in DOMAIN deferred, Searching(deferred[i])
                 PROVE  deferred[i].ix \in found
      OBVIOUS
    <2>1. deferred[i].ix \in SearchOf(deferred[i])
      BY DEF SearchOf
    <2>2. deferred[i].ix \in SearchesIn(deferred)
      BY <2>1 DEF SearchesIn
    <2>3. QED
      BY <2>2
  <1>6. \A j \in DOMAIN more : more[j].t # "created"
    BY <1>4 DEF Deferrable
  <1>7. \A j \in DOMAIN more : Searching(more[j]) => more[j].ix \notin uses
    BY <1>4 DEF Deferrable
  <1>8. \A i, j \in DOMAIN more :
          Searching(more[i]) /\ Searching(more[j]) /\ more[i].ix = more[j].ix => i = j
    <2> SUFFICES ASSUME NEW i \in DOMAIN more, NEW j \in DOMAIN more, Searching(more[i]),
                        Searching(more[j]), more[i].ix = more[j].ix
                 PROVE  i = j
      OBVIOUS
    <2>1. CASE i \in DOMAIN deferred /\ more[i] = deferred[i]
               /\ j \in DOMAIN deferred /\ more[j] = deferred[j]
      BY <2>1 DEF Deferrable
    <2>2. CASE i \in DOMAIN deferred /\ more[i] = deferred[i] /\ j = n + 1 /\ more[j] = e
      BY <1>5, <2>2
    <2>3. CASE i = n + 1 /\ more[i] = e /\ j \in DOMAIN deferred /\ more[j] = deferred[j]
      BY <1>5, <2>3
    <2>4. QED
      BY <1>4, <2>1, <2>2, <2>3
  <1>9. SearchesIn(more) \subseteq SearchesIn(deferred) \union SearchOf(e)
    <2> SUFFICES ASSUME NEW ix, NEW j \in DOMAIN more, ix \in SearchOf(more[j])
                 PROVE  ix \in SearchesIn(deferred) \union SearchOf(e)
      BY DEF SearchesIn
    <2>1. CASE j \in DOMAIN deferred /\ more[j] = deferred[j]
      BY <2>1 DEF SearchesIn
    <2>2. CASE more[j] = e
      BY <2>2
    <2>3. QED
      BY <1>4, <2>1, <2>2
  <1>10. QED
    BY <1>6, <1>7, <1>8, <1>9 DEF Deferrable, more

\* What an event of the upstream leaves of the translator, when nothing is deferred:
\* the events that were are sent once no call waits.
LEMMA QueueGoesOn ==
    \A r, m, found, x :
      /\ AtWork(r, m) /\ Deferrable(r.deferred, r.uses)
      /\ r.uses \union SearchesIn(r.deferred) \subseteq found
      /\ x = IF r.queue = <<>> THEN CodexClaude!Replay(r) ELSE r
      => /\ QueueShaped(x) /\ AtWork(x, m) /\ Deferrable(x.deferred, x.uses)
         /\ x.uses \union SearchesIn(x.deferred) \subseteq found
  <1> SUFFICES ASSUME NEW r, NEW m, NEW found, NEW x, AtWork(r, m),
                      Deferrable(r.deferred, r.uses),
                      r.uses \union SearchesIn(r.deferred) \subseteq found,
                      x = IF r.queue = <<>> THEN CodexClaude!Replay(r) ELSE r
               PROVE  /\ QueueShaped(x) /\ AtWork(x, m) /\ Deferrable(x.deferred, x.uses)
                      /\ x.uses \union SearchesIn(x.deferred) \subseteq found
    OBVIOUS
  <1> DEFINE y == CodexClaude!Replay(r)
  <1>1. CASE r.queue = <<>>
    <2>1. x = y /\ Len(r.queue) = 0
      BY <1>1
    <2>2. Chats(r, m) /\ QueueShaped(r)
      BY <2>1 DEF AtWork, Calling
    <2>3. QueueShaped(y) /\ Chats(y, m) /\ y.deferred = <<>>
          /\ y.uses \subseteq r.uses \union SearchesIn(r.deferred)
      BY <2>2, QueueReplay, Zenon
    <2> HIDE DEF y
    <2>4. Deferrable(y.deferred, y.uses) /\ SearchesIn(y.deferred) = {}
      BY <2>3, DeferNothing
    <2>5. QED
      BY <2>1, <2>3, <2>4 DEF AtWork
  <1>2. CASE r.queue # <<>>
    BY <1>2 DEF AtWork
  <1>3. QED
    BY <1>1, <1>2

LEMMA QueueTranslate ==
    ASSUME NEW st, NEW m, NEW src, QueueInStep([st EXCEPT !.out = <<>>], m, src),
           NEW e, GoesOn(src, e), NEW next, next = Responses!Follow(src, e),
           NEW x, x = CodexClaude!Translate(st, e)
    PROVE  /\ IsSeq(x.out)
           /\ e.t # "terminal" => QueueInStep(x, m, next)
           /\ e.t = "terminal" => Closed(m, x.out)
  <1> DEFINE s == [st EXCEPT !.out = <<>>]
             end == CodexClaude!End(s, e)
             call == CodexClaude!Call(s, e)
             content == CodexClaude!Content(s, e)
             more == Append(s.deferred, e)
             later == [s EXCEPT !.deferred = more]
             SentOn(r) == IF r.queue = <<>> THEN CodexClaude!Replay(r) ELSE r
  <1>1. /\ e.t = "terminal" => x = SentOn(end)
        /\ e.t # "terminal" /\ CodexClaude!IsCall(e) => x = SentOn(call)
        /\ e.t # "terminal" /\ ~CodexClaude!IsCall(e) /\ s.active = -1 => x = SentOn(content)
        /\ e.t # "terminal" /\ ~CodexClaude!IsCall(e) /\ s.active # -1 => x = later
    <2>1. e.t # "error"
      BY DEF GoesOn, InEntry
    <2> DEFINE r == CASE e.t = "terminal" -> end
                      [] e.t = "error" -> CodexClaude!Emit(s, CodexClaude!Fault)
                      [] CodexClaude!IsCall(e) -> call
                      [] OTHER -> content
    <2>2. x = IF s.active # -1 /\ ~CodexClaude!IsCall(e) /\ e.t \notin {"terminal", "error"}
              THEN later ELSE SentOn(r)
      BY DEF CodexClaude!Translate, CodexClaude!None
    <2>3. CodexClaude!IsCall(e) => e.t # "terminal"
      BY DEF CodexClaude!IsCall
    <2>4. /\ e.t = "terminal" => r = end
          /\ e.t # "terminal" /\ CodexClaude!IsCall(e) => r = call
          /\ e.t # "terminal" /\ ~CodexClaude!IsCall(e) => r = content
      <3> HIDE DEF end, call, content, s
      <3>1. QED
        BY <2>1, <2>3
    <2> HIDE DEF r, later, SentOn, end, call, content, s
    <2>5. QED
      BY <2>1, <2>2, <2>3, <2>4
  <1>2. /\ IsResponse(src) /\ QueueShaped(s) /\ DOMAIN s = QueueFields
        /\ src.phase = "before" => Silent(s, m)
        /\ src.phase = "response" => AtWork(s, m) /\ Deferrable(s.deferred, s.uses)
        /\ s.uses \union SearchesIn(s.deferred) \subseteq Found(src)
    BY DEF QueueInStep, QueueShaped
  <1>3. /\ IsResponse(next) /\ Found(src) \subseteq Found(next)
        /\ Searching(e) => e.ix \in Found(next) /\ e.ix \notin Found(src)
        /\ e.t # "terminal" => next.phase = "response"
    BY <1>2, ResponseStep DEF GoesOn
  <1> HIDE DEF s
  <1>4. ASSUME NEW y, AtWork(y, m) PROVE IsSeq(y.out)
    BY <1>4 DEF AtWork, Chats, Resting, Telling, Calling, Idle, Writing
  <1>5. ASSUME NEW r, e.t # "terminal", AtWork(r, m), Deferrable(r.deferred, r.uses),
               r.uses \union SearchesIn(r.deferred) \subseteq Found(next), x = SentOn(r)
        PROVE  IsSeq(x.out) /\ QueueInStep(x, m, next)
    <2> DEFINE found == Found(next)
    <2>1. x = IF r.queue = <<>> THEN CodexClaude!Replay(r) ELSE r
      BY <1>5
    <2> HIDE DEF found
    <2>2. /\ QueueShaped(x) /\ AtWork(x, m) /\ Deferrable(x.deferred, x.uses)
          /\ x.uses \union SearchesIn(x.deferred) \subseteq found
      BY <1>5, <2>1, QueueGoesOn DEF found
    <2>3. QED
      BY <1>3, <1>4, <1>5, <2>2 DEF QueueInStep, found
  <1>6. CASE e.t = "terminal"
    <2>1. AtWork(s, m) /\ Deferrable(s.deferred, s.uses)
      BY <1>2, <1>6 DEF GoesOn
    <2>2. PICK n \in Nat : DOMAIN e.output = 1 .. n
      BY <1>6 DEF GoesOn
    <2>3. DOMAIN end = QueueFields /\ Closed(m, end.out) /\ end.queue = <<>>
          /\ end.deferred = <<>>
      BY <2>1, <2>2, QueueEnd
    <2> DEFINE y == CodexClaude!Replay(end)
    <2>4. x = y
      BY <1>1, <1>6, <2>3
    <2> HIDE DEF end
    <2>5. y.out = end.out
      BY <2>3, QueueNothing
    <2>6. QED
      BY <1>6, <2>3, <2>4, <2>5 DEF Closed
  <1>7. CASE e.t # "terminal" /\ CodexClaude!IsCall(e)
    <2>1. src.phase = "response"
      BY <1>7 DEF GoesOn, CodexClaude!IsCall
    <2>2. AtWork(call, m) /\ Aside(call, s)
      BY <1>2, <2>1, <1>7, QueueCall DEF GoesOn
    <2> HIDE DEF call
    <2>3. Deferrable(call.deferred, call.uses)
          /\ call.uses \union SearchesIn(call.deferred) \subseteq Found(next)
      BY <1>2, <1>3, <2>1, <2>2 DEF Aside
    <2>4. x = SentOn(call)
      BY <1>1, <1>7
    <2> HIDE DEF SentOn
    <2>5. QED
      BY <1>5, <1>7, <2>2, <2>3, <2>4
  <1>8. CASE e.t # "terminal" /\ ~CodexClaude!IsCall(e) /\ s.active # -1
    <2>1. src.phase = "response" /\ e.t # "created"
      BY <1>2, <1>8 DEF GoesOn, Silent
    <2>2. x = later
      BY <1>1, <1>8
    <2>3. IsSeq(s.deferred)
      BY <1>2 DEF QueueShaped
    <2>4. Deferrable(more, s.uses)
          /\ SearchesIn(more) \subseteq SearchesIn(s.deferred) \union SearchOf(e)
      <3> DEFINE found == Found(src)
                 deferred == s.deferred
                 uses == s.uses
      <3>1. /\ IsSeq(deferred) /\ Deferrable(deferred, uses) /\ e.t # "created"
            /\ uses \union SearchesIn(deferred) \subseteq found
            /\ Searching(e) => e.ix \notin found
        BY <1>2, <1>3, <2>1, <2>3
      <3> HIDE DEF found, deferred, uses
      <3>2. Deferrable(Append(deferred, e), uses)
            /\ SearchesIn(Append(deferred, e)) \subseteq SearchesIn(deferred) \union SearchOf(e)
        BY <3>1, DeferMore, Zenon
      <3>3. QED
        BY <3>2 DEF deferred, uses
    <2>5. IsSeq(more)
      BY <2>3, Longer
    <2> HIDE DEF more
    <2>6. /\ DOMAIN later = QueueFields /\ later.deferred = more /\ later.calls = s.calls
          /\ later.queue = s.queue /\ later.active = s.active /\ later.open = s.open
          /\ later.next = s.next /\ later.out = s.out /\ later.uses = s.uses
      BY <1>2 DEF QueueFields
    <2> HIDE DEF later
    <2>7. QueueShaped(later)
      BY <1>2, <2>5, <2>6 DEF QueueShaped
    <2>8. Calling(s, m)
      BY <1>2, <1>8, <2>1 DEF AtWork, Chats, Resting, Telling
    <2>9. Calling(later, m)
      BY <2>6, <2>8 DEF Calling
    <2>10. SearchesIn(more) \subseteq Found(next)
      BY <1>2, <1>3, <2>4 DEF SearchOf
    <2>11. QueueInStep(later, m, next)
      BY <1>2, <1>3, <1>8, <2>4, <2>6, <2>7, <2>9, <2>10 DEF QueueInStep, AtWork
    <2>12. QED
      BY <1>4, <1>8, <2>2, <2>7, <2>9, <2>11 DEF AtWork
  <1>9. CASE e.t # "terminal" /\ ~CodexClaude!IsCall(e) /\ s.active = -1
    <2>1. x = SentOn(content)
      BY <1>1, <1>9
    <2>2. /\ AtWork(content, m) /\ Deferrable(content.deferred, content.uses)
          /\ content.uses \union SearchesIn(content.deferred) \subseteq Found(next)
      <3>1. CASE e.t = "created"
        <4>1. Silent(s, m)
          BY <1>2, <3>1 DEF GoesOn
        <4> DEFINE f == CodexClaude!MessageStart
        <4>2. content = CodexClaude!Emit(s, f)
          BY <3>1 DEF CodexClaude!Content
        <4>3. Opens(f)
          BY QueueEvents
        <4> HIDE DEF f, content
        <4>4. /\ Plainly(content, s) /\ content.out = Append(s.out, f)
              /\ content.next = s.next /\ content.open = s.open
          BY <1>2, <4>2, QueueEmit
        <4>5. Idle(m, Append(s.out, f), 0)
          BY <4>1, <4>3, WriteOpening DEF Silent
        <4>6. Resting(content, m)
          BY <4>1, <4>4, <4>5 DEF Resting, Silent, Plainly, Apart
        <4>7. QueueShaped(content)
          BY <1>2, <4>4, QueueApart DEF Plainly
        <4>8. content.deferred = <<>> /\ content.uses = {}
          BY <4>1, <4>4 DEF Silent, Plainly, Apart
        <4>9. Deferrable(content.deferred, content.uses) /\ SearchesIn(content.deferred) = {}
          BY <4>8, DeferNothing
        <4>10. QED
          BY <4>6, <4>7, <4>8, <4>9 DEF AtWork, Chats
      <3>2. CASE e.t # "created"
        <4>1. AtWork(s, m) /\ Deferrable(s.deferred, s.uses)
          BY <1>2, <1>9, <3>2 DEF GoesOn
        <4>2. Chats(s, m)
          BY <1>2, <1>9, <4>1, QueueHead DEF AtWork
        <4>3. Searching(e) => e.ix \notin s.uses
          BY <1>2, <1>3
        <4>4. /\ Chats(content, m) /\ Apart(content, s)
              /\ content.uses \subseteq s.uses \union SearchOf(e)
          BY <1>2, <3>2, <4>2, <4>3, QueueContent, Zenon
        <4> HIDE DEF content
        <4>5. QueueShaped(content) /\ content.deferred = s.deferred
          BY <1>2, <4>4, QueueApart DEF Apart
        <4>6. \A j \in DOMAIN s.deferred : Searching(s.deferred[j]) => s.deferred[j].ix \in Found(src)
          <5> SUFFICES ASSUME NEW j \in DOMAIN s.deferred, Searching(s.deferred[j])
                       PROVE  s.deferred[j].ix \in Found(src)
            OBVIOUS
          <5>1. s.deferred[j].ix \in SearchOf(s.deferred[j])
            BY DEF SearchOf
          <5>2. s.deferred[j].ix \in SearchesIn(s.deferred)
            BY <5>1 DEF SearchesIn
          <5>3. QED
            BY <1>2, <5>2
        <4>7. \A j \in DOMAIN s.deferred :
                Searching(s.deferred[j]) => s.deferred[j].ix \notin content.uses
          BY <1>3, <4>1, <4>4, <4>6 DEF Deferrable, SearchOf
        <4>8. Deferrable(content.deferred, content.uses)
          BY <4>1, <4>5, <4>7 DEF Deferrable
        <4>9. content.uses \union SearchesIn(content.deferred) \subseteq Found(next)
          BY <1>2, <1>3, <4>4, <4>5 DEF SearchOf
        <4>10. QED
          BY <4>4, <4>5, <4>8, <4>9 DEF AtWork
      <3>3. QED
        BY <3>1, <3>2
    <2> HIDE DEF content, SentOn
    <2>3. QED
      BY <1>5, <1>9, <2>1, <2>2
  <1>10. QED
    BY <1>6, <1>7, <1>8, <1>9

\* What the upstream sends of a response, wherever it does so.
CodexShape(e) ==
    /\ e.t \in {"created", "item_added", "item_done", "terminal", "failed", "error"} \union InEntry
    /\ e.t \in {"item_added", "item_done"} => e.ix \in Nat
    /\ e.t = "terminal" => \E n \in Nat : DOMAIN e.output = 1 .. n

LEMMA CodexKinds ==
    /\ \A ix \in Nat : \A item :
         /\ CodexShape(Responses!ItemAdded(ix, item))
         /\ CodexShape(Responses!ItemDone(ix, item))
    /\ \A ix, kind, body : /\ CodexShape(Responses!PartAdded(ix, kind))
                           /\ CodexShape(Responses!Delta(ix, kind, body))
                           /\ CodexShape(Responses!BodyDone(ix, kind, body))
                           /\ CodexShape(Responses!PartDone(ix, kind, body))
    /\ \A status, reason, output : \A n \in Nat :
         DOMAIN output = 1 .. n => CodexShape(Responses!Terminal(status, reason, output))
    /\ \A e \in {Responses!Created, Responses!Failed, Responses!Fault} : CodexShape(e)
  BY DEF CodexShape, InEntry, Responses!ItemAdded, Responses!ItemDone, Responses!PartAdded,
         Responses!Delta, Responses!BodyDone, Responses!PartDone, Responses!Terminal,
         Responses!Created, Responses!Failed, Responses!Fault

LEMMA ItemShapes ==
    ASSUME IsResponse(source)
    PROVE  \A e \in CodexItems : CodexShape(e)
  <1> DEFINE n == Cardinality(DOMAIN source.items)
             open == {ix \in DOMAIN source.items : source.items[ix].step # "done"}
             writing == \E ix \in open : source.items[ix].item.kind \in Responses!Parted
             kinds == IF writing THEN profile.kinds \ Responses!Parted ELSE profile.kinds
             named == {TRUE, ~Has("late_name")}
             Named(b) == [Responses!Item("function_call", n, <<>>) EXCEPT !.named = b]
             Plain(k) == Responses!Item(k, n, <<>>)
             Brief(b) == Responses!Item("function_call", n, b)
             Added(item) == Responses!ItemAdded(n, item)
             Done(item) == Responses!ItemDone(n, item)
             A == {Added(Plain(k)) : k \in kinds}
             B == {Added(Named(b)) : b \in named}
             C == {Done(Brief(b)) : b \in Fresh}
  <1>1. n \in Nat
    BY FS_CardinalityType DEF IsResponse
  <1>2. CodexItems \subseteq A \union B \union C
    BY Zenon DEF CodexItems
  <1>3. \A item : CodexShape(Added(item)) /\ CodexShape(Done(item))
    <2> HIDE DEF n
    <2>1. QED
      BY <1>1, CodexKinds
  <1> HIDE DEF n, kinds, named, Named, Plain, Brief, Added, Done
  <1>4. QED
    BY <1>2, <1>3

LEMMA EndShapes ==
    ASSUME IsResponse(source)
    PROVE  \A e \in CodexEnds : CodexShape(e)
  <1> DEFINE n == Cardinality(DOMAIN source.items)
             none == ""
             Full(ix) == [source.items[ix].item EXCEPT !.body = source.items[ix].body,
                                                       !.named = TRUE]
             output == [i \in 1 .. n |-> Full(i - 1)]
             Cuts(r) == Responses!Terminal("incomplete", r, output)
             whole == Responses!Terminal("completed", none, output)
             A == {Cuts(r) : r \in {"max_output_tokens", "content_filter"}}
  <1>1. n \in Nat
    BY FS_CardinalityType DEF IsResponse
  <1>2. CodexEnds \subseteq A \union {whole}
    BY Zenon DEF CodexEnds
  <1> HIDE DEF none
  <1>3. DOMAIN output = 1 .. n
    BY Zenon
  <1> HIDE DEF n, output
  <1>4. CodexShape(whole) /\ \A r : CodexShape(Cuts(r))
    BY <1>1, <1>3, CodexKinds
  <1> HIDE DEF whole, Cuts
  <1>5. QED
    BY <1>2, <1>4

LEMMA CodexShapes ==
    ASSUME IsResponse(source)
    PROVE  \A e \in CodexEvents : CodexShape(e)
  <1> DEFINE Item(ix, b) == [Responses!Item(source.items[ix].item.kind, source.items[ix].item.of, b)
                               EXCEPT !.signed = (source.items[ix].item.kind = "reasoning")]
             OfItem(ix) ==
               LET entry == source.items[ix]
                   kind == entry.item.kind
                   bodies == IF kind \in Responses!Parted THEN Fresh ELSE More(entry.body)
                   done == IF kind = "web_search_call" THEN Fresh \union {<<>>}
                           ELSE Endings(entry)
               IN {Responses!PartAdded(ix, kind)}
                  \union {Responses!Delta(ix, kind, b) : b \in bodies}
                  \union {Responses!BodyDone(ix, kind, b) : b \in Endings(entry)}
                  \union {Responses!PartDone(ix, kind, entry.body)}
                  \union {Responses!ItemDone(ix, Item(ix, b)) : b \in done}
             open == {ix \in DOMAIN source.items : source.items[ix].step # "done"}
  <1>1. CodexEvents = {Responses!Created, Responses!Failed, Responses!Fault}
                        \union CodexItems \union CodexEnds \union UNION {OfItem(ix) : ix \in open}
    BY Zenon DEF CodexEvents
  <1>2. \A ix \in Nat : \A e \in OfItem(ix) : CodexShape(e)
    <2> SUFFICES ASSUME NEW ix \in Nat, NEW e \in OfItem(ix) PROVE CodexShape(e)
      BY Zenon
    <2> DEFINE kind == source.items[ix].item.kind
    <2>1. \/ \E b : e \in {Responses!PartAdded(ix, kind), Responses!Delta(ix, kind, b),
                           Responses!BodyDone(ix, kind, b), Responses!PartDone(ix, kind, b)}
          \/ \E b : e = Responses!ItemDone(ix, Item(ix, b))
      <3> HIDE DEF Item
      <3>1. QED
        BY Zenon
    <2> HIDE DEF OfItem, Item, kind
    <2>2. QED
      BY <2>1, CodexKinds
  <1>3. open \subseteq Nat
    BY DEF IsResponse
  <1> HIDE DEF OfItem, open
  <1>4. QED
    BY <1>1, <1>2, <1>3, ItemShapes, EndShapes, CodexKinds

\* So what it sends goes on in the response so far, until it fails.
LEMMA ResponseGoesOn ==
    ASSUME IsResponse(source), NEW e \in CodexEvents, e.t \notin {"failed", "error"},
           Responses!MayFollow(source, e) \/ Beyond(e)
    PROVE  GoesOn(source, e)
  <1>1. CodexShape(e)
    BY CodexShapes
  <1>2. CASE Beyond(e)
    <2>1. /\ e.t \in {"item_done", "terminal"} /\ source.phase = "response"
          /\ e.t = "item_done" => \/ e.item.kind \in {"message", "function_call"}
                                  \/ e.ix \notin DOMAIN source.items
      <3>1. CASE e.t = "item_done"
        <4>1. e.t # "terminal"
          BY <3>1, Zenon
        <4>2. /\ source.phase = "response"
              /\ \/ e.item.kind \in {"message", "function_call"}
                 \/ e.ix \notin DOMAIN source.items
          BY <1>2, <4>1, Zenon DEF Beyond
        <4>3. QED
          BY <3>1, <4>2
      <3>2. CASE e.t # "item_done"
        <4>1. e.t = "terminal" /\ source.phase = "response"
          BY <1>2, <3>2, Zenon DEF Beyond
        <4>2. QED
          BY <3>2, <4>1
      <3>3. QED
        BY <3>1, <3>2
    <2>2. Searching(e) => e.ix \notin Found(source)
      BY <2>1 DEF Searching, Found
    <2>3. QED
      BY <1>1, <2>1, <2>2 DEF CodexShape, GoesOn, InEntry
  <1>3. CASE Responses!MayFollow(source, e)
    <2>1. source.phase = IF e.t = "created" THEN "before" ELSE "response"
      BY <1>1, <1>3, Zenon DEF CodexShape, InEntry, Responses!MayFollow, Responses!InItem
    <2>2. e.t \in InEntry => e.ix \in DOMAIN source.items /\ e.ix \notin Found(source)
      BY <1>3, Zenon DEF Found, InEntry, Responses!MayFollow, Responses!InItem, Responses!Growing,
                  Responses!At
    <2>3. e.t = "item_added" => e.ix \notin Found(source)
      BY <1>3 DEF Found, Responses!MayFollow
    <2>4. Searching(e) => e.ix \notin Found(source)
      <3> SUFFICES ASSUME Searching(e) PROVE e.ix \notin Found(source)
        OBVIOUS
      <3>1. e.t = "item_done" /\ e.item.kind = "web_search_call"
        BY DEF Searching
      <3>2. Responses!Closed(e.item.kind) = "added"
        BY <3>1 DEF Responses!Closed, Responses!Parted
      <3>3. Responses!InItem(source, e, {"added"})
        BY <1>3, <3>1, <3>2 DEF Responses!MayFollow
      <3>4. QED
        BY <3>3 DEF Found, Responses!InItem, Responses!At
    <2>5. QED
      BY <1>1, <2>1, <2>2, <2>3, <2>4 DEF CodexShape, GoesOn
  <1>4. QED
    BY <1>2, <1>3

-----------------------------------------------------------------------------
(***************************************************************************)
(* The forwarding to a client of chat or of Claude.                        *)
(***************************************************************************)
ToChat == To(route) = "chat"
Over == outcome # ""
Cleared(st) == [st EXCEPT !.out = <<>>]
ChatStep(st, m, src) ==
    IF route = "codex-chat" THEN CodexInStep(st, m) ELSE MessageInStep(st, m, src)
ClaudeStep(st, m, src) ==
    IF route = "codex-claude" THEN QueueInStep(st, m, src) ELSE TellInStep(st, m, src)
InStep(st, m, src) == IF ToChat THEN ChatStep(st, m, src) ELSE ClaudeStep(st, m, src)
LegalInv ==
    /\ profile \in Profiles
    /\ ~Active => DownstreamIsLegal
    /\ (~Active /\ ~Over) => InStep(Cleared(state), client, source)

\* The route decides the protocols.
LEMMA PlainRoutes ==
    ASSUME profile \in Profiles, ~Active
    PROVE  IF ToChat
           THEN \/ route = "codex-chat" /\ From(route) = "codex"
                \/ route = "claude-chat" /\ From(route) = "claude"
           ELSE /\ To(route) = "claude"
                /\ \/ route = "codex-claude" /\ From(route) = "codex"
                   \/ route = "chat-claude" /\ From(route) = "chat"
  BY ProfilesAssumption DEF ToChat, Active, To, From, Routes, route

LEMMA PlainReceive ==
    ASSUME profile \in Profiles, ~Active
    PROVE  \A m, out : Receive(m, out) = IF ToChat THEN Chat!Receive(m, out)
                                         ELSE Claude!Receive(m, out)
  BY PlainRoutes DEF Receive, ToChat

\* The translator's output is the client's, so it can be cleared.
LEMMA ChatCleared ==
    ASSUME NEW st, NEW m, NEW src, ChatStep(st, m, src),
           NEW next, next = ChatSoFar(m, st), NEW x, x = Cleared(st)
    PROVE  ChatStep(Cleared(x), next, src)
  <1> DEFINE y == Cleared(x)
  <1>1. \/ DOMAIN st = CodexFields
        \/ DOMAIN st = GatherFields
    BY DEF ChatStep, CodexInStep, MessageInStep, Gathers
  <1>2. y.out = <<>> /\ DOMAIN y = DOMAIN st /\ \A f \in DOMAIN st \ {"out"} : y[f] = st[f]
    BY <1>1, Zenon DEF Cleared, CodexFields, GatherFields
  <1>3. IsSeq(y.out) /\ ChatSoFar(next, y) = ChatSoFar(m, st)
    <2>1. ChatSoFar(m, st) = next /\ y.out = <<>>
      BY <1>2
    <2> HIDE DEF y
    <2>2. QED
      BY <2>1, Nothing DEF ChatSoFar
  <1> HIDE DEF y
  <1>4. CASE route = "codex-chat"
    <2>1. CodexInStep(st, m)
      BY <1>4 DEF ChatStep
    <2>2. y.index = st.index /\ y.calls = st.calls /\ y.current = st.current
      BY <1>2, <2>1 DEF CodexInStep, CodexFields
    <2>3. CodexInStep(y, next)
      BY <1>2, <1>3, <2>1, <2>2 DEF CodexInStep
    <2>4. QED
      BY <1>4, <2>3 DEF ChatStep, y
  <1>5. CASE route # "codex-chat"
    <2>1. MessageInStep(st, m, src)
      BY <1>5 DEF ChatStep
    <2>2. DOMAIN st = GatherFields
      BY <2>1 DEF MessageInStep, Gathers
    <2>3. y.calls = st.calls /\ y.next = st.next
      BY <1>2, <2>2 DEF GatherFields
    <2>4. Gathers(st, m) => Gathers(y, next)
      BY <1>2, <1>3, <2>3 DEF Gathers
    <2>5. MessageInStep(y, next, src)
      BY <1>2, <1>3, <2>1, <2>3, <2>4 DEF MessageInStep
    <2>6. QED
      BY <1>5, <2>5 DEF ChatStep, y
  <1>6. QED
    BY <1>4, <1>5

LEMMA ClaudeCleared ==
    ASSUME NEW st, NEW m, NEW src, ClaudeStep(st, m, src),
           NEW next, next = Claude!Receive(m, st.out), NEW x, x = Cleared(st)
    PROVE  ClaudeStep(Cleared(x), next, src)
  <1> DEFINE y == Cleared(x)
             out == st.out
  <1>1. \/ DOMAIN st = QueueFields
        \/ DOMAIN st = TellFields
    BY DEF ClaudeStep, QueueInStep, QueueShaped, TellInStep, Shaped
  <1>2. y.out = <<>> /\ DOMAIN y = DOMAIN st /\ \A f \in DOMAIN st \ {"out"} : y[f] = st[f]
    BY <1>1, Zenon DEF Cleared, QueueFields, TellFields
  <1> HIDE DEF y
  <1>3. IsSeq(y.out) /\ Claude!Receive(next, y.out) = next
    <2>1. y.out = <<>>
      BY <1>2
    <2>2. IsSeq(y.out)
      BY <2>1, EmptyIsSeq
    <2>3. Claude!Receive(next, y.out) = next
      BY <2>1, ClaudeReceive
    <2>4. QED
      BY <2>2, <2>3
  <1>4. /\ Unopened(m, out) => Unopened(next, y.out)
        /\ \A n : Idle(m, out, n) => Idle(next, y.out, n)
        /\ \A n, kind : Writing(m, out, n, kind) => Writing(next, y.out, n, kind)
        /\ Closed(m, out) => Closed(next, y.out)
    BY <1>3 DEF Unopened, Idle, Writing, Closed
  <1> HIDE DEF out
  <1>5. CASE route = "codex-claude"
    <2>1. QueueInStep(st, m, src)
      BY <1>5 DEF ClaudeStep
    <2>2. DOMAIN st = QueueFields
      BY <2>1 DEF QueueInStep, QueueShaped
    <2>3. /\ y.active = st.active /\ y.open = st.open /\ y.next = st.next
          /\ y.deferred = st.deferred /\ y.uses = st.uses /\ y.calls = st.calls
          /\ y.queue = st.queue
      BY <1>2, <2>2 DEF QueueFields
    <2>4. QueueShaped(y)
      BY <1>2, <2>1, <2>3 DEF QueueInStep, QueueShaped
    <2>5. Silent(st, m) => Silent(y, next)
      BY <1>4, <2>3 DEF Silent, out
    <2>6. AtWork(st, m) => AtWork(y, next)
      <3>1. Resting(st, m) => Resting(y, next)
        BY <1>4, <2>3 DEF Resting, out
      <3>2. \A kind : Telling(st, m, kind) => Telling(y, next, kind)
        BY <1>4, <2>3 DEF Telling, out
      <3>3. Calling(st, m) => Calling(y, next)
        BY <1>4, <2>3 DEF Calling, out
      <3>4. QED
        BY <2>4, <3>1, <3>2, <3>3 DEF AtWork, Chats
    <2>7. QueueInStep(y, next, src)
      BY <2>1, <2>3, <2>4, <2>5, <2>6 DEF QueueInStep
    <2>8. QED
      BY <1>5, <2>7 DEF ClaudeStep, y
  <1>6. CASE route # "codex-claude"
    <2>1. TellInStep(st, m, src)
      BY <1>6 DEF ClaudeStep
    <2>2. DOMAIN st = TellFields
      BY <2>1 DEF TellInStep, Shaped
    <2>3. /\ y.started = st.started /\ y.at = st.at /\ y.next = st.next /\ y.tool = st.tool
          /\ y.toolAt = st.toolAt /\ y.calls = st.calls /\ y.held = st.held
          /\ y.closed = st.closed /\ y.ended = st.ended /\ y.stopped = st.stopped
      BY <1>2, <2>2 DEF TellFields
    <2>4. Shaped(y)
      BY <1>2, <2>1, <2>3 DEF TellInStep, Shaped
    <2>5. Unused(st) => Unused(y)
      BY <2>3 DEF Unused
    <2>6. Free(st, m) => Free(y, next)
      BY <1>4, <2>3, <2>5 DEF Free, out
    <2>7. Waiting(st, m) => Waiting(y, next)
      BY <1>4, <2>3, <2>5 DEF Waiting, out
    <2>8. Finished(st, m) => Finished(y, next)
      BY <1>4, <2>3, <2>5, <2>6 DEF Finished, out
    <2>9. Live(st) /\ Talking(st, m) => Live(y) /\ Talking(y, next)
      <3>1. \A kind : InContent(st, m, kind) => InContent(y, next, kind)
        BY <1>4, <2>3 DEF InContent, out
      <3>2. InCall(st, m) => InCall(y, next)
        BY <1>4, <2>3, <2>5 DEF InCall, out
      <3>3. Live(st) => Live(y)
        BY <2>3 DEF Live
      <3>4. QED
        BY <2>4, <2>6, <3>1, <3>2, <3>3 DEF Talking, Talks
    <2>10. TellInStep(y, next, src)
      BY <2>1, <2>4, <2>7, <2>8, <2>9 DEF TellInStep
    <2>11. QED
      BY <1>6, <2>10 DEF ClaudeStep, y
  <1>7. QED
    BY <1>5, <1>6

\* A frame of the upstream: it ends the forwarding and tells the client nothing, or the
\* client gets what the translator makes of it.
LEMMA PlainFrame ==
    ASSUME ~Active, Frame
    PROVE  \E e \in Events :
             /\ Sends(e)
             /\ \/ Over' /\ ~Delivered' /\ client' = client
                \/ /\ e.t \notin {"failed", "error"}
                   /\ EndsSource(e) <=> Over'
                   /\ state' = Cleared(Translate(state, e))
                   /\ IsSeq(Translate(state, e).out) =>
                        client' = Receive(client, Translate(state, e).out)
  <1>1. PICK e \in Events : Sends(e) /\ Forward(e)
    BY Zenon DEF Frame
  <1> DEFINE end == SourceStatus(e)
             t == ObserveSource(tracker, end)
             st == Translate(state, e)
  <1>2. CASE end.status = "failed"
    <2>1. outcome' = "upstream_error" /\ client' = client
      BY <1>1, <1>2 DEF Forward
    <2>2. QED
      BY <1>1, <2>1 DEF Over, Delivered
  <1>3. CASE end.status # "failed"
    <2>1. e.t \notin {"failed", "error"}
      BY <1>3 DEF SourceStatus, NoEnd
    <2>2. MayTranslate(t, e)
      BY DEF MayTranslate
    <2>3. Pass(e, t, st, Passed(t, st.out))
      BY <1>1, <1>3, <2>2 DEF Forward
    <2>4. EndsSource(e) <=> Over'
      BY <2>3 DEF Pass, Over, Ending
    <2>5. state' = Cleared(st)
      BY <2>3, Zenon DEF Pass, Cleared
    <2>6. IsSeq(st.out) => client' = Receive(client, st.out)
      <3>1. client' = Receive(client, Passed(t, st.out))
        BY <2>3, Zenon DEF Pass
      <3> HIDE DEF t, st
      <3>2. IsSeq(st.out) => Passed(t, st.out) = st.out
        BY PassedAll
      <3>3. QED
        BY <3>1, <3>2
    <2>7. QED
      BY <1>1, <2>1, <2>4, <2>5, <2>6
  <1>4. QED
    BY <1>2, <1>3

\* At first the client has nothing and the translator is fresh.
LEMMA ChatInit ==
    ASSUME Init, ToChat
    PROVE  DownstreamIsLegal /\ ChatStep(Cleared(state), client, source)
  <1>1. client = Chat!NoCompletion
    BY Zenon DEF Init, NewClient, ToChat
  <1>2. DownstreamIsLegal
    BY <1>1, Zenon DEF DownstreamIsLegal, Chat!NoCompletion
  <1>3. /\ ChatKnown(client) /\ client.phase = "before" /\ Len(client.calls) = 0
    <2>1. client.calls = <<>> /\ client.phase = "before"
          /\ DOMAIN client = {"phase", "text", "think", "calls", "finish"}
      BY <1>1, Zenon DEF Chat!NoCompletion
    <2>2. AllKnown(client.calls) /\ Len(client.calls) = 0
      BY <2>1, Nothing
    <2>3. QED
      BY <2>1, <2>2 DEF ChatKnown
  <1>4. DOMAIN <<>> = {}
    OBVIOUS
  <1>5. CASE route = "codex-chat"
    <2>1. state = CodexChat!Fresh
      BY <1>5, Zenon DEF Init, NewState
    <2> DEFINE y == Cleared(state)
    <2>2. /\ DOMAIN y = CodexFields /\ y.out = <<>> /\ y.index = -1 /\ y.calls = <<>>
          /\ y.current = CodexChat!None
      BY <2>1 DEF Cleared, CodexChat!Fresh, CodexFields
    <2> HIDE DEF y
    <2>3. IsSeq(y.out) /\ ChatSoFar(client, y) = client
      BY <2>2, Nothing DEF ChatSoFar
    <2>4. CallStates(y.calls, y.index)
      BY <1>4, <2>2 DEF CallStates
    <2>5. CodexInStep(y, client)
      BY <1>3, <2>2, <2>3, <2>4 DEF CodexInStep, ChatOpen
    <2>6. QED
      BY <1>2, <1>5, <2>5 DEF ChatStep, y
  <1>6. CASE route = "claude-chat"
    <2>1. state = ClaudeChat!Fresh /\ source = Claude!NoMessage
      BY <1>6, Zenon DEF Init, NewState, NewClient, From
    <2> DEFINE y == Cleared(state)
    <2>2. /\ DOMAIN y = GatherFields /\ y.out = <<>> /\ y.next = 0 /\ y.calls = <<>>
      BY <2>1, Zenon DEF Cleared, ClaudeChat!Fresh, GatherFields
    <2> HIDE DEF y
    <2>3. IsSeq(y.out) /\ ChatSoFar(client, y) = client
      BY <2>2, Nothing DEF ChatSoFar
    <2>4. Gathers(y, client)
      BY <1>3, <1>4, <2>2, <2>3 DEF Gathers, Gathered, ChatOpen
    <2>5. IsMessage(source) /\ source.phase = "before"
      <3>1. /\ DOMAIN source = MessageFields /\ source.blocks = <<>> /\ source.open = FALSE
            /\ source.phase = "before"
        BY <2>1, Zenon DEF MessageFields, Claude!NoMessage
      <3>2. IsSeq(source.blocks)
        BY <3>1, Nothing
      <3>3. QED
        BY <3>1, <3>2 DEF IsMessage
    <2>6. MessageInStep(y, client, source)
      BY <1>3, <1>4, <2>2, <2>3, <2>4, <2>5 DEF MessageInStep
    <2>7. QED
      BY <1>2, <1>6, <2>6 DEF ChatStep, y
  <1>7. QED
    BY <1>5, <1>6, PlainRoutes, Zenon DEF Init, ToChat, Active

LEMMA ClaudeInit ==
    ASSUME Init, To(route) = "claude"
    PROVE  DownstreamIsLegal /\ ClaudeStep(Cleared(state), client, source)
  <1> DEFINE y == Cleared(state)
             none == ""
             nothing == <<>>
  <1>1. client = Claude!NoMessage
    BY Zenon DEF Init, NewClient
  <1>2. /\ DOMAIN client = MessageFields /\ client.phase = "before" /\ client.open = FALSE
        /\ client.blocks = <<>>
    BY <1>1, Zenon DEF MessageFields, Claude!NoMessage
  <1>3. DownstreamIsLegal
    BY <1>2 DEF DownstreamIsLegal
  <1>4. \A x : x = <<>> => /\ IsSeq(x) /\ Len(x) = 0 /\ DOMAIN x = {}
                           /\ \A m : Claude!Receive(m, x) = m
    BY Nothing, ClaudeReceive
  <1>5. \A x : x = <<>> => Unopened(client, x)
    BY <1>2, <1>4 DEF Unopened, NoBlocks
  <1>6. CASE route = "codex-claude"
    <2> DEFINE Start(open) ==
                 [toolUse |-> FALSE, next |-> 0, textSeen |-> FALSE, open |-> open,
                  signature |-> FALSE, summary |-> FALSE, uses |-> {}, results |-> {},
                  calls |-> <<>>, queue |-> <<>>, active |-> -1, deferred |-> <<>>,
                  out |-> <<>>]
    <2>1. state = Start(none)
      <3>1. state = CodexClaude!Fresh
        BY <1>6, Zenon DEF Init, NewState
      <3>2. CodexClaude!None = -1
        BY DEF CodexClaude!None
      <3> HIDE DEF none
      <3>3. QED
        BY <3>1, <3>2, Zenon DEF CodexClaude!Fresh, none
    <2>2. none \notin Kinds
      BY Zenon DEF Kinds
    <2> HIDE DEF none
    <2>3. /\ DOMAIN y = QueueFields /\ y.next = 0 /\ y.open = none /\ y.uses = {}
          /\ y.calls = <<>> /\ y.queue = <<>> /\ y.active = -1 /\ y.deferred = <<>>
          /\ y.out = <<>>
      BY <2>1 DEF Cleared, QueueFields
    <2> HIDE DEF y
    <2>4. QueueShaped(y)
      BY <1>4, <2>3 DEF QueueShaped, Streams, Lined
    <2>5. Silent(y, client)
      BY <1>5, <2>2, <2>3 DEF Silent
    <2>6. source = Responses!NoResponse
      BY <1>6, Zenon DEF Init, NewClient, From
    <2> DEFINE src(status) == [phase |-> "before", items |-> <<>>, output |-> <<>>,
                               status |-> status, reason |-> status]
    <2>7. source = src(none)
      BY <2>6, Zenon DEF Responses!NoResponse, none
    <2>8. IsResponse(source) /\ source.phase = "before"
      <3>1. /\ DOMAIN source = {"phase", "items", "output", "status", "reason"}
            /\ source.phase = "before" /\ source.items = <<>>
        BY <2>7
      <3>2. DOMAIN source.items = {}
        BY <1>4, <3>1
      <3>3. QED
        BY <3>1, <3>2, FS_EmptySet DEF IsResponse
    <2>9. y.uses \union SearchesIn(y.deferred) \subseteq Found(source)
      <3>1. DOMAIN y.deferred = {}
        BY <1>4, <2>3
      <3>2. SearchesIn(y.deferred) = {}
        BY <3>1 DEF SearchesIn
      <3>3. QED
        BY <2>3, <3>2
    <2>10. QueueInStep(y, client, source)
      BY <2>4, <2>5, <2>8, <2>9 DEF QueueInStep
    <2>11. QED
      BY <1>3, <1>6, <2>10 DEF ClaudeStep, y
  <1>7. CASE route = "chat-claude"
    <2> DEFINE Start(finish) ==
                 [started |-> FALSE, at |-> [text |-> -1, thinking |-> -1], next |-> 0,
                  tool |-> -1, toolAt |-> -1, calls |-> <<>>, announced |-> FALSE,
                  finish |-> finish, any |-> FALSE, held |-> <<>>, closed |-> FALSE,
                  ended |-> FALSE, stopped |-> FALSE, out |-> <<>>]
    <2>1. state = Start(none)
      <3>1. state = ChatClaude!Fresh
        BY <1>7, Zenon DEF Init, NewState
      <3>2. ChatClaude!None = -1
        BY DEF ChatClaude!None
      <3> HIDE DEF none
      <3>3. QED
        BY <3>1, <3>2, Zenon DEF ChatClaude!Fresh, none
    <2> HIDE DEF none
    <2>2. /\ DOMAIN y = TellFields /\ y.started = FALSE /\ y.next = 0 /\ y.tool = -1
          /\ y.at = [text |-> -1, thinking |-> -1] /\ y.calls = <<>> /\ y.held = <<>>
          /\ y.closed = FALSE /\ y.ended = FALSE /\ y.stopped = FALSE /\ y.out = <<>>
      BY <2>1 DEF Cleared, TellFields
    <2> HIDE DEF y
    <2>3. DOMAIN y.at = Kinds /\ \A kind \in Kinds : y.at[kind] = -1
      BY <2>2 DEF Kinds
    <2>4. Numbered(y.calls)
      <3>1. DOMAIN y.calls = {}
        BY <1>4, <2>2
      <3>2. QED
        BY <3>1, FS_EmptySet DEF Numbered
    <2>5. Shaped(y)
      BY <1>4, <2>2, <2>3, <2>4 DEF Shaped
    <2>6. Waiting(y, client)
      BY <1>5, <2>2, <2>3 DEF Waiting, Unused
    <2>7. source = Chat!NoCompletion
      BY <1>7, Zenon DEF Init, NewClient, From
    <2> DEFINE src(finish) == [phase |-> "before", text |-> <<>>, think |-> <<>>,
                               calls |-> <<>>, finish |-> finish]
    <2>8. source = src(none)
      BY <2>7, Zenon DEF Chat!NoCompletion, none
    <2>9. IsCompletion(source) /\ source.phase = "before"
      <3>1. /\ DOMAIN source = {"phase", "text", "think", "calls", "finish"}
            /\ source.phase = "before" /\ source.calls = <<>>
        BY <2>8
      <3>2. QED
        BY <1>4, <3>1 DEF IsCompletion
    <2>10. TellInStep(y, client, source)
      BY <2>5, <2>6, <2>9 DEF TellInStep
    <2>11. QED
      BY <1>3, <1>7, <2>10 DEF ClaudeStep, y
  <1>8. QED
    BY <1>6, <1>7, PlainRoutes, Zenon DEF Init, ToChat, Active

LEMMA LegalInit ==
    ASSUME Init
    PROVE  LegalInv
  BY ChatInit, ClaudeInit, PlainRoutes, Zenon DEF LegalInv, Init, InStep, ToChat

\* Whatever the upstream sends, the translator keeps step, and what it makes of an end
\* is legal.
LEMMA ChatTranslated ==
    ASSUME profile \in Profiles, ~Active, ToChat, ChatStep(Cleared(state), client, source),
           NEW e \in Events, Sends(e), e.t \notin {"failed", "error"},
           NEW x, x = Translate(state, e)
    PROVE  /\ IsSeq(x.out)
           /\ ~EndsSource(e) => ChatStep(x, client, source')
           /\ Chat!Receive(client, x.out).phase # "wrong"
  <1>1. CASE route = "codex-chat" /\ From(route) = "codex"
    <2>1. x = CodexChat!Translate(state, e)
      BY <1>1, Zenon DEF Translate
    <2>2. CodexInStep([state EXCEPT !.out = <<>>], client)
      BY <1>1 DEF ChatStep, Cleared
    <2>3. /\ IsSeq(x.out)
          /\ e.t # "terminal" => CodexInStep(x, client)
          /\ e.t = "terminal" => ChatSoFar(client, x).phase # "wrong"
      BY <2>1, <2>2, CodexTranslate, Zenon
    <2>4. CodexInStep(x, client) => ChatSoFar(client, x).phase # "wrong"
      BY DEF CodexInStep, ChatOpen
    <2>5. e.t = "terminal" => EndsSource(e)
      BY DEF EndsSource
    <2>6. QED
      BY <1>1, <2>3, <2>4, <2>5 DEF ChatStep, ChatSoFar
  <1>2. CASE route = "claude-chat" /\ From(route) = "claude"
    <2>1. x = ClaudeChat!Translate(state, e)
      BY <1>2, Zenon DEF Translate
    <2>2. MessageInStep([state EXCEPT !.out = <<>>], client, source)
      BY <1>2 DEF ChatStep, Cleared
    <2>3. e.t \in ClaudeKinds
      BY <1>2, ClaudeShapes DEF Events
    <2>4. Claude!MayFollow(source, e) /\ source' = Claude!Follow(source, e)
      BY <1>2 DEF Sends
    <2>5. /\ IsSeq(x.out)
          /\ e.t # "message_stop" => MessageInStep(x, client, source')
          /\ e.t = "message_stop" => ChatSoFar(client, x).phase # "wrong"
      BY <2>1, <2>2, <2>3, <2>4, MessageTranslate
    <2>6. MessageInStep(x, client, source') => ChatSoFar(client, x).phase # "wrong"
      BY DEF MessageInStep, Gathers, ChatOpen
    <2>7. e.t = "message_stop" => EndsSource(e)
      BY DEF EndsSource
    <2>8. QED
      BY <1>2, <2>5, <2>6, <2>7 DEF ChatStep, ChatSoFar
  <1>3. QED
    BY <1>1, <1>2, PlainRoutes

LEMMA ClaudeTranslated ==
    ASSUME profile \in Profiles, ~Active, ~ToChat, ClaudeStep(Cleared(state), client, source),
           NEW e \in Events, Sends(e), e.t \notin {"failed", "error"},
           NEW x, x = Translate(state, e)
    PROVE  /\ IsSeq(x.out)
           /\ ~EndsSource(e) => ClaudeStep(x, client, source')
           /\ Claude!Receive(client, x.out).phase # "wrong"
  <1>1. Closed(client, x.out) => Claude!Receive(client, x.out).phase # "wrong"
    BY DEF Closed
  <1>2. e.t \in {"terminal", "done"} => EndsSource(e)
    BY DEF EndsSource
  <1>3. CASE route = "codex-claude" /\ From(route) = "codex"
    <2>1. x = CodexClaude!Translate(state, e)
      BY <1>3, Zenon DEF Translate
    <2>2. QueueInStep([state EXCEPT !.out = <<>>], client, source)
      BY <1>3 DEF ClaudeStep, Cleared
    <2>3. e \in CodexEvents
      BY <1>3 DEF Events
    <2>4. /\ Responses!MayFollow(source, e) \/ Beyond(e)
          /\ source' = Responses!Follow(source, e)
      BY <1>3 DEF Sends
    <2>5. GoesOn(source, e)
      BY <2>2, <2>3, <2>4, ResponseGoesOn DEF QueueInStep
    <2>6. /\ IsSeq(x.out)
          /\ e.t # "terminal" => QueueInStep(x, client, source')
          /\ e.t = "terminal" => Closed(client, x.out)
      BY <2>1, <2>2, <2>4, <2>5, QueueTranslate
    <2>7. QueueInStep(x, client, source') => Claude!Receive(client, x.out).phase # "wrong"
      BY QueueLegal
    <2>8. QED
      BY <1>1, <1>2, <1>3, <2>6, <2>7 DEF ClaudeStep
  <1>4. CASE route = "chat-claude" /\ From(route) = "chat"
    <2>1. x = ChatClaude!Translate(state, e)
      BY <1>4, Zenon DEF Translate
    <2>2. TellInStep([state EXCEPT !.out = <<>>], client, source)
      BY <1>4 DEF ClaudeStep, Cleared
    <2>3. IsChoice(e) \/ IsUsage(e) \/ e.t = "done"
      BY <1>4, ChatShapes DEF Events, ChatShape
    <2>4. Chat!MayFollow(source, e) /\ source' = Chat!Follow(source, e)
      BY <1>4 DEF Sends
    <2>5. /\ IsSeq(x.out)
          /\ e.t # "done" => TellInStep(x, client, source')
          /\ e.t = "done" => Closed(client, x.out)
      BY <2>1, <2>2, <2>3, <2>4, TellTranslate
    <2>6. TellInStep(x, client, source') => Claude!Receive(client, x.out).phase # "wrong"
      BY TellLegal
    <2>7. route # "codex-claude"
      BY <1>4
    <2>8. QED
      BY <1>1, <1>2, <2>5, <2>6, <2>7 DEF ClaudeStep
  <1>5. QED
    BY <1>3, <1>4, PlainRoutes

LEMMA LegalFrame ==
    ASSUME LegalInv, Frame
    PROVE  LegalInv'
  <1>1. profile' = profile /\ profile \in Profiles
    BY Zenon DEF Frame, Sends, LegalInv
  <1> SUFFICES ASSUME ~Active
               PROVE  /\ DownstreamIsLegal'
                      /\ ~Over' => InStep(Cleared(state), client, source)'
    BY <1>1 DEF LegalInv, Active, route
  <1>2. DownstreamIsLegal /\ InStep(Cleared(state), client, source)
    BY Zenon DEF LegalInv, Frame, Over
  <1>3. PICK e \in Events :
          /\ Sends(e)
          /\ \/ Over' /\ client' = client
             \/ /\ e.t \notin {"failed", "error"}
                /\ EndsSource(e) => Over'
                /\ state' = Cleared(Translate(state, e))
                /\ IsSeq(Translate(state, e).out) =>
                     client' = Receive(client, Translate(state, e).out)
    BY PlainFrame
  <1>4. CASE Over' /\ client' = client
    BY <1>2, <1>4 DEF DownstreamIsLegal
  <1>5. CASE /\ e.t \notin {"failed", "error"}
             /\ EndsSource(e) => Over'
             /\ state' = Cleared(Translate(state, e))
             /\ IsSeq(Translate(state, e).out) =>
                  client' = Receive(client, Translate(state, e).out)
    <2> DEFINE x == Translate(state, e)
    <2>1. route' = route
      BY <1>1 DEF route
    <2> SUFFICES DownstreamIsLegal' /\ (~Over' => InStep(Cleared(state'), client', source'))
      BY <2>1 DEF InStep, ToChat, ChatStep, ClaudeStep, Cleared
    <2>2. x = Translate(state, e)
      OBVIOUS
    <2> HIDE DEF x
    <2>3. CASE ToChat
      <3>1. /\ IsSeq(x.out)
            /\ ~EndsSource(e) => ChatStep(x, client, source')
            /\ Chat!Receive(client, x.out).phase # "wrong"
        BY <1>1, <1>2, <1>3, <1>5, <2>2, <2>3, ChatTranslated DEF InStep
      <3>2. client' = ChatSoFar(client, x) /\ state' = Cleared(x)
        BY <1>1, <1>5, <2>2, <2>3, <3>1, PlainReceive DEF ChatSoFar
      <3>3. ~Over' => ChatStep(Cleared(state'), client', source')
        BY <1>5, <3>1, <3>2, ChatCleared
      <3>4. QED
        BY <2>3, <3>1, <3>2, <3>3 DEF InStep, DownstreamIsLegal, ChatSoFar
    <2>4. CASE ~ToChat
      <3>1. /\ IsSeq(x.out)
            /\ ~EndsSource(e) => ClaudeStep(x, client, source')
            /\ Claude!Receive(client, x.out).phase # "wrong"
        BY <1>1, <1>2, <1>3, <1>5, <2>2, <2>4, ClaudeTranslated DEF InStep
      <3>2. client' = Claude!Receive(client, x.out) /\ state' = Cleared(x)
        BY <1>1, <1>5, <2>2, <2>4, <3>1, PlainReceive
      <3>3. ~Over' => ClaudeStep(Cleared(state'), client', source')
        BY <1>5, <3>1, <3>2, ClaudeCleared
      <3>4. QED
        BY <2>4, <3>1, <3>2, <3>3 DEF InStep, DownstreamIsLegal
    <2>5. QED
      BY <2>3, <2>4
  <1>6. QED
    BY <1>3, <1>4, <1>5

LEMMA LegalNext ==
    ASSUME LegalInv, [Next]_vars
    PROVE  LegalInv'
  <1>1. CASE Frame
    BY <1>1, LegalFrame
  <1>2. CASE Hangup
    <2>1. profile' = profile /\ client' = client /\ Over'
      BY <1>2, Zenon DEF Hangup, Over, Ending
    <2>2. QED
      BY <2>1 DEF LegalInv, DownstreamIsLegal, Active, route
  <1>3. CASE UNCHANGED vars
    BY <1>3, Zenon DEF vars, LegalInv, DownstreamIsLegal, Active, ToChat, route, Over, InStep,
                ChatStep, ClaudeStep, Cleared
  <1>4. QED
    BY <1>1, <1>2, <1>3 DEF Next

\* The stream that a client of chat or of Claude gets is legal in its protocol, for every
\* upstream that the model knows, whatever the order in which it sends the parts of its
\* answer (ConvertCodexResponseToOpenAI, ConvertClaudeResponseToOpenAI,
\* ConvertOpenAIResponseToClaude, ConvertCodexResponseToClaude).
THEOREM LegalTheorem == Spec => [](To(route) # "responses" => DownstreamIsLegal)
  <1>1. Spec => []LegalInv
    BY LegalInit, LegalNext, PTL DEF Spec
  <1>2. LegalInv => (To(route) # "responses" => DownstreamIsLegal)
    BY DEF LegalInv, Active
  <1>3. QED
    BY <1>1, <1>2, PTL

-----------------------------------------------------------------------------
(***************************************************************************)
(* The end that a client of chat is told.                                  *)
(***************************************************************************)
\* A response that names a reason to be cut off is one.
Trimmed(e) == (e.t = "terminal" /\ e.reason = "max_output_tokens") => e.status = "incomplete"

LEMMA EndReasons == \A e \in CodexEvents : Trimmed(e)
  <1>1. /\ Trimmed(Responses!Created) /\ Trimmed(Responses!Failed) /\ Trimmed(Responses!Fault)
        /\ \A ix, item : Trimmed(Responses!ItemAdded(ix, item))
                         /\ Trimmed(Responses!ItemDone(ix, item))
        /\ \A ix, kind, body : /\ Trimmed(Responses!PartAdded(ix, kind))
                               /\ Trimmed(Responses!Delta(ix, kind, body))
                               /\ Trimmed(Responses!BodyDone(ix, kind, body))
                               /\ Trimmed(Responses!PartDone(ix, kind, body))
        /\ \A reason, output : Trimmed(Responses!Terminal("incomplete", reason, output))
    BY DEF Trimmed, Responses!Created, Responses!Failed, Responses!Fault, Responses!ItemAdded,
           Responses!ItemDone, Responses!PartAdded, Responses!Delta, Responses!BodyDone,
           Responses!PartDone, Responses!Terminal
  <1>2. \A output : Trimmed(Responses!Terminal("completed", "", output))
    BY Zenon DEF Trimmed, Responses!Terminal
  <1> HIDE DEF Trimmed
  <1>3. \A e \in CodexItems : Trimmed(e)
    BY <1>1, Zenon DEF CodexItems
  <1>4. \A e \in CodexEnds : Trimmed(e)
    BY <1>1, <1>2, Zenon DEF CodexEnds
  <1> DEFINE Item(ix, b) == [Responses!Item(source.items[ix].item.kind, source.items[ix].item.of, b)
                               EXCEPT !.signed = (source.items[ix].item.kind = "reasoning")]
             OfItem(ix) ==
               LET entry == source.items[ix]
                   kind == entry.item.kind
                   bodies == IF kind \in Responses!Parted THEN Fresh ELSE More(entry.body)
                   done == IF kind = "web_search_call" THEN Fresh \union {<<>>}
                           ELSE Endings(entry)
               IN {Responses!PartAdded(ix, kind)}
                  \union {Responses!Delta(ix, kind, b) : b \in bodies}
                  \union {Responses!BodyDone(ix, kind, b) : b \in Endings(entry)}
                  \union {Responses!PartDone(ix, kind, entry.body)}
                  \union {Responses!ItemDone(ix, Item(ix, b)) : b \in done}
             open == {ix \in DOMAIN source.items : source.items[ix].step # "done"}
  <1>5. CodexEvents = {Responses!Created, Responses!Failed, Responses!Fault}
                        \union CodexItems \union CodexEnds \union UNION {OfItem(ix) : ix \in open}
    BY Zenon DEF CodexEvents
  <1>6. ASSUME NEW ix, NEW e \in OfItem(ix) PROVE Trimmed(e)
    <2> DEFINE kind == source.items[ix].item.kind
    <2>1. \/ \E b : e \in {Responses!PartAdded(ix, kind), Responses!Delta(ix, kind, b),
                           Responses!BodyDone(ix, kind, b), Responses!PartDone(ix, kind, b)}
          \/ \E b : e = Responses!ItemDone(ix, Item(ix, b))
      <3> HIDE DEF Item
      <3>1. QED
        BY Zenon
    <2> HIDE DEF OfItem, Item, kind
    <2>2. QED
      BY <1>1, <2>1, Zenon
  <1> HIDE DEF OfItem, Item, open
  <1>7. QED
    BY <1>1, <1>3, <1>4, <1>5, <1>6, Zenon

\* A message stops to call tools if it has calls, unless it was cut off.
MessageStops(src) ==
    \/ src.stop = "max_tokens"
    \/ src.stop = "model_context_window_exceeded" /\ Has("window")
    \/ IF Tools(src) THEN src.stop = "tool_use" ELSE src.stop \in {"end_turn", "refusal"}

LEMMA StopReasons ==
    \A e \in ClaudeEvents : e.t = "message_delta" => e.stop \in ClaudeStops
  <1> DEFINE Good(e) == e.t = "message_delta" => e.stop \in ClaudeStops
  <1>1. /\ Good(Claude!MessageStart) /\ Good(Claude!MessageStop) /\ Good(Claude!Fault)
        /\ \A ix, kind, of : Good(Claude!BlockStart(ix, kind, of))
        /\ \A ix, kind, body : Good(Claude!BlockDelta(ix, kind, body))
        /\ \A ix : Good(Claude!BlockStop(ix)) /\ Good(Claude!Signature(ix))
        /\ \A stop \in ClaudeStops : Good(Claude!MessageDelta(stop))
    BY DEF Claude!MessageStart, Claude!MessageStop, Claude!Fault, Claude!BlockStart,
           Claude!BlockDelta, Claude!BlockStop, Claude!Signature, Claude!MessageDelta
  <1> HIDE DEF Good
  <1>2. \A e \in ClaudeEvents : Good(e)
    BY <1>1 DEF ClaudeEvents
  <1>3. QED
    BY <1>2 DEF Good

\* At the end the client is told what the upstream said and what the client has fits.
\* Until then there is nothing but the calls of a message to account for.
Agreed(m, src) ==
    IF route = "codex-chat"
    THEN /\ m.finish = CodexChat!FinishReason(src.status, src.reason, HasCalls(m))
         /\ src.reason = "max_output_tokens" => src.status = "incomplete"
    ELSE /\ HasCalls(m) <=> Tools(src)
         /\ m.finish = ClaudeChat!FinishReason(src.stop)
         /\ MessageStops(src)
Following(st, m, src) ==
    IF route = "codex-chat" THEN IsResponse(src)
    ELSE /\ Kinded(src)
         /\ IF src.phase = "delta" THEN Agreed(m, src) ELSE Counted(st, src)
EndInv ==
    ToChat => /\ Delivered => Agreed(client, source)
              /\ ~Over => Following(Cleared(state), client, source)

LEMMA EndInit ==
    ASSUME Init, ToChat
    PROVE  Following(Cleared(state), client, source)
  <1>1. profile \in Profiles /\ ~Active
    BY Zenon DEF Init, ToChat, Active
  <1>2. DOMAIN <<>> = {}
    OBVIOUS
  <1>3. CASE route = "codex-chat"
    <2> DEFINE src(status) == [phase |-> "before", items |-> <<>>, output |-> <<>>,
                               status |-> status, reason |-> status]
               none == ""
    <2>1. source = Responses!NoResponse
      BY <1>3, Zenon DEF Init, NewClient, From
    <2>2. source = src(none)
      BY <2>1, Zenon DEF Responses!NoResponse
    <2> HIDE DEF none
    <2>3. /\ DOMAIN source = {"phase", "items", "output", "status", "reason"}
          /\ source.items = <<>>
      BY <2>2
    <2>4. DOMAIN source.items = {}
      BY <1>2, <2>3
    <2>5. QED
      BY <1>3, <2>3, <2>4, FS_EmptySet DEF Following, IsResponse
  <1>4. CASE route = "claude-chat"
    <2>1. state = ClaudeChat!Fresh /\ source = Claude!NoMessage
      BY <1>4, Zenon DEF Init, NewState, NewClient, From
    <2>2. source.blocks = <<>> /\ source.phase = "before"
      BY <2>1, Zenon DEF Claude!NoMessage
    <2>3. Cleared(state).next = 0
      BY <2>1, Zenon DEF Cleared, ClaudeChat!Fresh
    <2>4. DOMAIN source.blocks = {}
      BY <1>2, <2>2
    <2>5. QED
      BY <1>4, <2>2, <2>3, <2>4 DEF Following, Kinded, Counted, Tools
  <1>5. QED
    BY <1>1, <1>3, <1>4, PlainRoutes

\* What the client has follows what the upstream sends, and agrees with it at the end.
LEMMA ChatFollows ==
    ASSUME profile \in Profiles, ~Active, ToChat, ChatStep(Cleared(state), client, source),
           Following(Cleared(state), client, source),
           NEW e \in Events, Sends(e), e.t \notin {"failed", "error"},
           NEW x, x = Translate(state, e), NEW m, m = ChatSoFar(client, x)
    PROVE  /\ ~EndsSource(e) => Following(x, m, source')
           /\ EndsSource(e) => Agreed(m, source')
  <1>1. CASE route = "codex-chat" /\ From(route) = "codex"
    <2>1. x = CodexChat!Translate(state, e) /\ CodexInStep([state EXCEPT !.out = <<>>], client)
      BY <1>1, Zenon DEF Translate, ChatStep, Cleared
    <2>2. IsResponse(source) /\ e \in CodexEvents
      BY <1>1 DEF Following, Events
    <2>3. /\ Responses!MayFollow(source, e) \/ Beyond(e)
          /\ source' = Responses!Follow(source, e)
      BY <1>1 DEF Sends
    <2>4. GoesOn(source, e)
      BY <2>2, <2>3, ResponseGoesOn
    <2>5. IsResponse(source')
      BY <2>2, <2>3, <2>4, ResponseStep
    <2>6. EndsSource(e) => e.t = "terminal"
      BY <2>4 DEF EndsSource, GoesOn, InEntry
    <2>7. ASSUME e.t = "terminal" PROVE Agreed(m, source')
      <3>1. m.finish = CodexChat!FinishReason(e.status, e.reason, HasCalls(m))
        BY <2>1, <2>7, CodexFinish
      <3>2. e.reason = "max_output_tokens" => e.status = "incomplete"
        BY <2>2, <2>7, EndReasons DEF Trimmed
      <3>3. source'.status = e.status /\ source'.reason = e.reason
        BY <2>2, <2>3, <2>7 DEF IsResponse, Responses!Follow
      <3>4. QED
        BY <1>1, <3>1, <3>2, <3>3 DEF Agreed
    <2>8. QED
      BY <1>1, <2>5, <2>6, <2>7 DEF Following
  <1>2. CASE route = "claude-chat" /\ From(route) = "claude"
    <2> DEFINE next == source'
    <2>1. x = ClaudeChat!Translate(state, e)
          /\ MessageInStep([state EXCEPT !.out = <<>>], client, source)
      BY <1>2, Zenon DEF Translate, ChatStep, Cleared
    <2>2. e.t \in ClaudeKinds /\ e \in ClaudeEvents
      BY <1>2, ClaudeShapes DEF Events
    <2>3. Claude!MayFollow(source, e) /\ next = Claude!Follow(source, e)
      BY <1>2 DEF Sends
    <2>4. Kinded(source) /\ IsMessage(source)
      BY <1>2, <2>1 DEF Following, MessageInStep
    <2>5. /\ source.phase = "delta" => Agreed(client, source)
          /\ source.phase # "delta" => Counted([state EXCEPT !.out = <<>>], source)
      BY <1>2 DEF Following, Cleared
    <2>6. /\ Kinded(next)
          /\ Tools(next) <=>
               Tools(source) \/ (e.t = "content_block_start" /\ e.kind = "tool_use")
          /\ next.stop = IF e.t = "message_delta" THEN e.stop ELSE source.stop
      BY <2>2, <2>3, <2>4, ToolsGrow
    <2>7. /\ e.t \notin {"message_delta", "message_stop"} => Counted(x, next)
          /\ e.t = "message_delta" =>
               /\ HasCalls(m) <=> Tools(next)
               /\ m.finish = ClaudeChat!FinishReason(next.stop)
          /\ e.t = "message_stop" => source.phase = "delta" /\ m = client
      BY <2>1, <2>2, <2>3, <2>4, <2>5, MessageTold
    <2>8. e.t \notin {"message_delta", "message_stop"} => next.phase = "message"
      <3>1. e.t # "error"
        OBVIOUS
      <3>2. MessageStep(source, e, next)
        BY <2>2, <2>3, <2>4, <3>1, MessageGrows
      <3> HIDE DEF next
      <3>3. QED
        BY <2>2, <3>2 DEF MessageStep, ClaudeKinds
    <2>9. e.t = "message_delta" => next.phase = "delta"
      BY <2>2, <2>3, <2>4, MessageGrows DEF MessageStep
    <2>10. EndsSource(e) <=> e.t = "message_stop"
      BY <2>2 DEF EndsSource, ClaudeKinds
    <2>11. ASSUME e.t = "message_delta" PROVE Agreed(m, next)
      <3>1. next.stop \in ClaudeStops
        BY <2>2, <2>6, <2>11, StopReasons
      <3>2. Tools(next) <=> Tools(source)
        BY <2>6, <2>11
      <3>3. ClaudeStops \subseteq
              {"max_tokens"} \union {s \in {"model_context_window_exceeded"} : Has("window")}
                \union (IF Tools(source) THEN {"tool_use"} ELSE {"end_turn", "refusal"})
        BY Zenon DEF ClaudeStops, Tools
      <3>4. MessageStops(next)
        BY <3>1, <3>2, <3>3 DEF MessageStops
      <3>5. QED
        BY <1>2, <2>7, <2>11, <3>4 DEF Agreed
    <2>12. ASSUME e.t = "message_stop" PROVE Agreed(m, next)
      <3>1. Agreed(client, source) /\ m = client /\ next.stop = source.stop
            /\ (Tools(next) <=> Tools(source))
        BY <2>5, <2>6, <2>7, <2>12
      <3>2. QED
        BY <1>2, <3>1 DEF Agreed, MessageStops
    <2>13. QED
      BY <1>2, <2>6, <2>7, <2>8, <2>9, <2>10, <2>11, <2>12 DEF Following
  <1>3. QED
    BY <1>1, <1>2, PlainRoutes

\* Clearing the translator's output changes nothing of that.
LEMMA FollowsCleared ==
    ASSUME NEW st, NEW m, NEW src, NEW q, ChatStep(st, q, src), Following(st, m, src)
    PROVE  Following(Cleared(Cleared(st)), m, src)
  <1>1. CASE route = "codex-chat"
    BY <1>1 DEF Following
  <1>2. CASE route # "codex-chat"
    <2>1. DOMAIN st = GatherFields
      BY <1>2 DEF ChatStep, MessageInStep, Gathers
    <2>2. Cleared(Cleared(st)).next = st.next
      BY <2>1 DEF GatherFields, Cleared
    <2>3. QED
      BY <1>2, <2>2 DEF Following, Counted
  <1>3. QED
    BY <1>1, <1>2

LEMMA EndFrame ==
    ASSUME LegalInv, EndInv, Frame
    PROVE  EndInv'
  <1>1. profile' = profile /\ profile \in Profiles /\ ~Over
    BY Zenon DEF Frame, Sends, LegalInv, Over
  <1>2. route' = route
    BY <1>1 DEF route
  <1> SUFFICES ASSUME ToChat
               PROVE  /\ Delivered' => Agreed(client, source)'
                      /\ ~Over' => Following(Cleared(state), client, source)'
    BY <1>2 DEF EndInv, ToChat
  <1>3. ~Active
    BY DEF Active, ToChat
  <1>4. ChatStep(Cleared(state), client, source) /\ Following(Cleared(state), client, source)
    BY <1>1, <1>3 DEF LegalInv, InStep, EndInv
  <1>5. PICK e \in Events :
          /\ Sends(e)
          /\ \/ Over' /\ ~Delivered' /\ client' = client
             \/ /\ e.t \notin {"failed", "error"}
                /\ EndsSource(e) <=> Over'
                /\ state' = Cleared(Translate(state, e))
                /\ IsSeq(Translate(state, e).out) =>
                     client' = Receive(client, Translate(state, e).out)
    BY <1>3, PlainFrame
  <1>6. CASE Over' /\ ~Delivered'
    BY <1>6
  <1>7. CASE /\ e.t \notin {"failed", "error"}
             /\ EndsSource(e) <=> Over'
             /\ state' = Cleared(Translate(state, e))
             /\ IsSeq(Translate(state, e).out) =>
                  client' = Receive(client, Translate(state, e).out)
    <2> DEFINE x == Translate(state, e)
    <2>1. x = Translate(state, e)
      OBVIOUS
    <2> HIDE DEF x
    <2>2. IsSeq(x.out) /\ (~EndsSource(e) => ChatStep(x, client, source'))
      BY <1>1, <1>3, <1>4, <1>5, <1>7, <2>1, ChatTranslated
    <2>3. client' = ChatSoFar(client, x) /\ state' = Cleared(x)
      BY <1>1, <1>3, <1>7, <2>1, <2>2, PlainReceive DEF ChatSoFar
    <2>4. /\ ~EndsSource(e) => Following(x, client', source')
          /\ EndsSource(e) => Agreed(client', source')
      BY <1>1, <1>3, <1>4, <1>5, <1>7, <2>1, <2>3, ChatFollows
    <2>5. ~Over' => Following(Cleared(state'), client', source')
      BY <1>7, <2>2, <2>3, <2>4, FollowsCleared
    <2>6. Delivered' => Over'
      BY DEF Delivered, Over
    <2>7. QED
      BY <1>1, <1>2, <1>7, <2>4, <2>5, <2>6
         DEF Agreed, Following, MessageStops, Has, Cleared
  <1>8. QED
    BY <1>5, <1>6, <1>7

LEMMA EndNext ==
    ASSUME LegalInv, EndInv, [Next]_vars
    PROVE  EndInv'
  <1>1. CASE Frame
    BY <1>1, EndFrame
  <1>2. CASE Hangup
    <2>1. ~Over /\ Over' /\ profile' = profile /\ source' = source
      BY <1>2, Zenon DEF Hangup, Over, Ending
    <2>2. ToChat => ~Delivered'
      <3> SUFFICES ASSUME ToChat, Delivered' PROVE FALSE
        OBVIOUS
      <3>1. profile \in Profiles /\ ~Active /\ ChatStep(Cleared(state), client, source)
        BY <2>1 DEF LegalInv, InStep, Active, ToChat
      <3>2. CASE route = "codex-chat" /\ From(route) = "codex"
        BY <1>2, <3>2 DEF Hangup, Ending, Delivered
      <3>3. CASE route = "claude-chat"
        <4>1. source.phase \in {"before", "message", "delta"}
          BY <3>1, <3>3 DEF ChatStep, MessageInStep
        <4>2. QED
          BY <2>1, <4>1 DEF Delivered
      <3>4. QED
        BY <3>1, <3>2, <3>3, PlainRoutes
    <2>3. QED
      BY <2>1, <2>2 DEF EndInv, ToChat, route
  <1>3. CASE UNCHANGED vars
    BY <1>3, Zenon DEF vars, EndInv, ToChat, Delivered, Over, Following, Agreed, MessageStops, Has,
                       Cleared, route
  <1>4. QED
    BY <1>1, <1>2, <1>3 DEF Next

\* What was agreed on is an end that fits, when a full context window is not told as
\* such by the upstream.
LEMMA EndFits ==
    ASSUME LegalInv, EndInv, ToChat, From(route) = "claude" => ~Has("window")
    PROVE  EndIsTold
  <1> SUFFICES ASSUME Delivered
               PROVE  LET calls == Said(To(route), client).calls # <<>>
                          whole == ~CutOff /\ (From(route) = "codex" => source.status = "completed")
                      IN /\ ToldTools => calls
                         /\ (calls /\ whole) => ToldTools
                         /\ CutOff => ToldCut \/ (route = "codex-claude" /\ calls)
    BY Zenon DEF EndIsTold
  <1>1. Agreed(client, source) /\ profile \in Profiles /\ ~Active
    BY DEF EndInv, LegalInv, Active, ToChat
  <1>2. Said(To(route), client).calls # <<>> <=> HasCalls(client)
    <2> DEFINE call(i) == Called(client.calls[i].of, client.calls[i].args)
               made(S) == [i \in S |-> call(i)]
    <2>1. Said(To(route), client).calls = made(DOMAIN client.calls)
      BY Zenon DEF Said, ChatAnswer, ToChat
    <2> HIDE DEF call
    <2>2. DOMAIN client.calls = {} => made(DOMAIN client.calls) = <<>>
      BY SMT
    <2>3. DOMAIN client.calls # {} => made(DOMAIN client.calls) # <<>>
      <3>1. DOMAIN made(DOMAIN client.calls) = DOMAIN client.calls /\ DOMAIN <<>> = {}
        OBVIOUS
      <3> HIDE DEF made
      <3>2. QED
        BY <3>1, Zenon
    <2>4. QED
      BY <2>1, <2>2, <2>3, Zenon DEF HasCalls
  <1>3. ToldTools <=> client.finish = "tool_calls"
    BY DEF ToldTools, ToChat
  <1>4. ToldCut <=> client.finish = "length"
    BY DEF ToldCut, ToChat
  <1>5. CASE route = "codex-chat" /\ From(route) = "codex"
    <2>1. CutOff <=> source.reason = "max_output_tokens"
      BY <1>5 DEF CutOff
    <2>2. /\ client.finish = CodexChat!FinishReason(source.status, source.reason, HasCalls(client))
          /\ source.reason = "max_output_tokens" => source.status = "incomplete"
      BY <1>1, <1>5 DEF Agreed
    <2>3. QED
      BY <1>2, <1>3, <1>4, <1>5, <2>1, <2>2 DEF CodexChat!FinishReason
  <1>6. CASE route = "claude-chat" /\ From(route) = "claude"
    <2>1. CutOff <=> source.stop \in {"max_tokens", "model_context_window_exceeded"}
      BY <1>6 DEF CutOff
    <2>2. /\ HasCalls(client) <=> Tools(source)
          /\ client.finish = ClaudeChat!FinishReason(source.stop)
          /\ source.stop \in {"max_tokens", "tool_use", "end_turn", "refusal"}
          /\ source.stop # "max_tokens" => (Tools(source) <=> source.stop = "tool_use")
          /\ source.stop = "tool_use" => Tools(source)
      BY <1>1, <1>6 DEF Agreed, MessageStops
    <2>3. QED
      BY <1>2, <1>3, <1>4, <1>6, <2>1, <2>2 DEF ClaudeChat!FinishReason
  <1>7. QED
    BY <1>1, <1>5, <1>6, PlainRoutes

\* A client of chat is told to run tools exactly if it has calls and the answer was not
\* cut off or filtered, and is told when it was cut off, for every upstream that does not
\* stop a message because the context window is full (FinishReason of
\* ConvertCodexResponseToOpenAI and mapAnthropicStopReasonToOpenAI).
THEOREM EndTheorem ==
    Spec => []((To(route) = "chat" /\ (From(route) = "claude" => ~Has("window"))) => EndIsTold)
  <1>1. Init => LegalInv /\ EndInv
    <2>1. ASSUME Init PROVE EndInv
      <3>1. ~Delivered
        BY <2>1, Zenon DEF Init, Delivered
      <3>2. QED
        BY <2>1, <3>1, EndInit DEF EndInv
    <2>2. QED
      BY <2>1, LegalInit
  <1>2. LegalInv /\ EndInv /\ [Next]_vars => (LegalInv /\ EndInv)'
    BY LegalNext, EndNext
  <1>3. LegalInv /\ EndInv =>
          ((To(route) = "chat" /\ (From(route) = "claude" => ~Has("window"))) => EndIsTold)
    BY EndFits DEF ToChat
  <1>4. QED
    BY <1>1, <1>2, <1>3, PTL DEF Spec
=============================================================================
