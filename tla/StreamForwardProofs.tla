------------------------ MODULE StreamForwardProofs ------------------------
(***************************************************************************)
(* Theorems about StreamForward, for every number of streams, every        *)
(* capacity and every number of frames.                                    *)
(***************************************************************************)
EXTENDS StreamForward, TLAPS

-----------------------------------------------------------------------------
(* What the operations on channels do to their items.                      *)

Has(q, item) == \E i \in 1 .. Len(q) : q[i] = item

LEMMA AppendFacts ==
    ASSUME NEW q \in Seq(Items), NEW x \in Items
    PROVE  /\ Append(q, x) \in Seq(Items)
           /\ Len(Append(q, x)) = Len(q) + 1
           /\ Has(Append(q, x), x)
           /\ \A y \in Items : Has(q, y) => Has(Append(q, x), y)
  <1>1. Append(q, x) \in Seq(Items) /\ Len(Append(q, x)) = Len(q) + 1
        /\ Len(q) \in Nat
    OBVIOUS
  <1>2. Append(q, x)[Len(q) + 1] = x
        /\ \A i \in 1 .. Len(q) : Append(q, x)[i] = q[i]
    OBVIOUS
  <1>3. QED BY <1>1, <1>2 DEF Has

LEMMA TailFacts ==
    ASSUME NEW q \in Seq(Items), q # <<>>
    PROVE  /\ Tail(q) \in Seq(Items)
           /\ Len(Tail(q)) = Len(q) - 1 /\ Len(q) \in Nat \ {0}
           /\ Head(q) \in Items
           /\ \A y \in Items : Has(q, y) /\ y # Head(q) => Has(Tail(q), y)
  <1>1. Tail(q) \in Seq(Items) /\ Len(Tail(q)) = Len(q) - 1
        /\ Len(q) \in Nat \ {0} /\ Head(q) = q[1] /\ Head(q) \in Items
    OBVIOUS
  <1>2. \A i \in 1 .. Len(q) - 1 : Tail(q)[i] = q[i + 1]
    OBVIOUS
  <1>3. ASSUME NEW y \in Items, NEW i \in 1 .. Len(q), q[i] = y, y # Head(q)
        PROVE  Has(Tail(q), y)
    <2>1. i - 1 \in 1 .. Len(Tail(q)) /\ Tail(q)[i - 1] = y
      BY <1>1, <1>2, <1>3
    <2>2. QED BY <2>1 DEF Has
  <1>4. QED BY <1>1, <1>3 DEF Has

-----------------------------------------------------------------------------
(* Types.                                                                  *)

LEMMA TypeInit == Init => TypeOK
  <1>1. <<>> \in Seq(Items) /\ Len(<<>>) = 0
    OBVIOUS
  <1>2. NoChunk \in Chunks
    BY DEF NoChunk, Chunks, Kinds
  <1>3. 0 \in 0 .. MaxFrames /\ 0 <= Room
    BY RoomAssumption, FramesAssumption
  <1> SUFFICES ASSUME Init PROVE TypeOK
    OBVIOUS
  <1>4. ch \in [Streams -> Seq(Items)] /\ \A s \in Streams : Len(ch[s]) <= Room
    BY <1>1, <1>3 DEF Init
  <1>5. frames \in [Streams -> 0 .. MaxFrames] /\ chunk \in [Streams -> Chunks]
    BY <1>2, <1>3 DEF Init
  <1>6. QED
    BY <1>4, <1>5 DEF Init, TypeOK, Reasons

LEMMA HandleTypes ==
    ASSUME TypeOK, NEW s \in Streams, Handle(s)
    PROVE  TypeOK'
  <1>1. CASE Open(s) \/ OpenFails(s) \/ Start(s) \/ StartRefused(s)
    BY <1>1 DEF TypeOK, Open, OpenFails, Start, StartRefused, Cleanup, CloseStream,
       upstream, forwarder, output, shutdown
  <1>2. CASE Receive(s) \/ ReceiveError(s)
    <2>1. ch' = [ch EXCEPT ![s] = Tail(@)] /\ ch[s] # <<>>
      BY <1>2 DEF Receive, ReceiveError
    <2>2. ch[s] \in Seq(Items) /\ Len(ch[s]) <= Room
      BY DEF TypeOK
    <2>3. Tail(ch[s]) \in Seq(Items) /\ Len(Tail(ch[s])) <= Room
      BY <2>1, <2>2, TailFacts, RoomAssumption
    <2>4. ch' \in [Streams -> Seq(Items)] /\ \A t \in Streams : Len(ch'[t]) <= Room
      BY <2>1, <2>3 DEF TypeOK
    <2>5. handler' \in [Streams -> {"idle", "opened", "receiving", "done"}]
          /\ told' \in [Streams -> {"nothing", "clean", "error", "left", "refused"}]
      BY <1>2 DEF Receive, ReceiveError, Cleanup, TypeOK
    <2>6. delivered' \in [Streams -> BOOLEAN]
      BY <1>2 DEF Receive, ReceiveError, TypeOK
    <2>7. UNCHANGED <<gone, body, complete, frames, forward, chunk, seen, reason,
                      shut, tasks, cut, closer, todo>>
      BY <1>2 DEF Receive, ReceiveError, upstream, forwarder, shutdown
    <2>8. QED BY <2>4, <2>5, <2>6, <2>7 DEF TypeOK
  <1>3. CASE ReceiveEnd(s)
    BY <1>3 DEF ReceiveEnd, Cleanup, TypeOK, upstream, forwarder, output, shutdown
  <1>4. QED BY <1>1, <1>2, <1>3 DEF Handle

(* The two ways processing what was read can go.                           *)
Emits(s, c) ==
    /\ c.kind \in {"data", "terminal"}
    /\ forward' = [forward EXCEPT ![s] = "emit"]
    /\ chunk' = [chunk EXCEPT ![s] = c]
    /\ seen' = [seen EXCEPT ![s] = @ \/ /\ c.kind = "terminal"
                                        /\ Format[s] = "responses"]
    /\ UNCHANGED reason

Ends(s, c) ==
    \/ c.kind = "fault" /\ Quit(s, "upstream_error")
    \/ c.kind = "end" /\ Quit(s, EndReason(s))
    \/ c.kind = "terminal" /\ Format[s] = "openai" /\ Quit(s, "")

LEMMA ProcessCases ==
    ASSUME NEW s \in Streams, NEW c \in Chunks, Process(s, c)
    PROVE  Emits(s, c) \/ (Ends(s, c) /\ UNCHANGED seen)
  <1>1. c.kind \in Kinds
    BY DEF Chunks
  <1>2. CASE c.kind = "fault"
    BY <1>2 DEF Process, Ends
  <1>3. CASE c.kind = "end"
    BY <1>3 DEF Process, Ends
  <1>4. CASE c.kind = "terminal" /\ Format[s] = "openai"
    BY <1>4 DEF Process, Ends
  <1>5. CASE c.kind = "data" \/ (c.kind = "terminal" /\ Format[s] # "openai")
    BY <1>5 DEF Process, Emits
  <1>6. QED BY <1>1, <1>2, <1>3, <1>4, <1>5 DEF Kinds

LEMMA SentCases ==
    ASSUME NEW s \in Streams, Sent(s)
    PROVE  \/ chunk[s].kind = "terminal" /\ Quit(s, "")
           \/ chunk[s].kind # "terminal" /\ chunk[s].last /\ Quit(s, EndReason(s))
           \/ /\ chunk[s].kind # "terminal"
              /\ forward' = [forward EXCEPT ![s] = "read"]
              /\ chunk' = [chunk EXCEPT ![s] = NoChunk]
              /\ UNCHANGED reason
  <1>1. CASE chunk[s].kind = "terminal"
    BY <1>1 DEF Sent
  <1>2. CASE chunk[s].kind # "terminal" /\ chunk[s].last
    BY <1>2 DEF Sent
  <1>3. CASE chunk[s].kind # "terminal" /\ ~chunk[s].last
    BY <1>3 DEF Sent
  <1>4. QED BY <1>1, <1>2, <1>3

LEMMA ReturnedTypes ==
    ASSUME TypeOK, NEW s \in Streams, NEW c \in Chunks, Returned(s, c)
    PROVE  /\ forward' \in [Streams -> {"none", "read", "emit", "close", "output",
                                        "leave", "done"}]
           /\ chunk' \in [Streams -> Chunks]
           /\ seen' \in [Streams -> BOOLEAN]
           /\ reason' \in [Streams -> Reasons]
  <1>1. NoChunk \in Chunks /\ EndReason(s) \in Reasons
    BY DEF NoChunk, Chunks, Kinds, Reasons, EndReason
  <1>2. ASSUME NEW why \in Reasons, Quit(s, why), seen' = seen
        PROVE  /\ forward' \in [Streams -> {"none", "read", "emit", "close",
                                            "output", "leave", "done"}]
               /\ chunk' \in [Streams -> Chunks]
               /\ seen' \in [Streams -> BOOLEAN]
               /\ reason' \in [Streams -> Reasons]
    BY <1>1, <1>2 DEF Quit, TypeOK
  <1>3. CASE TaskDone(s)
    BY <1>2, <1>3 DEF Returned, Reasons
  <1>4. CASE Process(s, c)
    <2>1. CASE Ends(s, c) /\ UNCHANGED seen
      BY <1>1, <1>2, <2>1 DEF Ends, Reasons
    <2>2. CASE Emits(s, c)
      BY <2>2 DEF Emits, TypeOK
    <2>3. QED BY <1>4, <2>1, <2>2, ProcessCases
  <1>5. QED BY <1>3, <1>4 DEF Returned

LEMMA ReadTypes ==
    ASSUME TypeOK, NEW s \in Streams, Read(s) \/ ReadCut(s)
    PROVE  TypeOK'
  <1>1. PICK c \in Chunks : Returned(s, c)
    BY DEF Read, ReadCut, Chunks, Kinds
  <1>2. frames' \in [Streams -> 0 .. MaxFrames] /\ complete' \in [Streams -> BOOLEAN]
    <2>1. CASE ReadCut(s)
      BY <2>1 DEF ReadCut, TypeOK, upstream
    <2>2. CASE Read(s)
      <3>1. PICK d \in Chunks :
               /\ d.kind \in {"data", "terminal"} => frames[s] < MaxFrames
               /\ frames' = [frames EXCEPT ![s] =
                                IF d.kind \in {"data", "terminal"} THEN @ + 1 ELSE @]
               /\ complete' = [complete EXCEPT ![s] =
                                  \/ @
                                  \/ d.kind = "terminal"
                                  \/ (d.last /\ d.kind # "fault")]
        BY <2>2 DEF Read
      <3> DEFINE n == IF d.kind \in {"data", "terminal"} THEN frames[s] + 1
                      ELSE frames[s]
      <3>2. n \in 0 .. MaxFrames
        BY <3>1, FramesAssumption DEF TypeOK
      <3>3. frames' \in [Streams -> 0 .. MaxFrames]
        BY <3>1, <3>2 DEF TypeOK
      <3> DEFINE b == \/ complete[s]
                      \/ d.kind = "terminal"
                      \/ (d.last /\ d.kind # "fault")
      <3>4. b \in BOOLEAN /\ complete' = [complete EXCEPT ![s] = b]
        BY <3>1 DEF TypeOK, Chunks
      <3> HIDE DEF b
      <3>5. complete' \in [Streams -> BOOLEAN]
        BY <3>4 DEF TypeOK
      <3>6. QED BY <3>3, <3>5
    <2>3. QED BY <2>1, <2>2
  <1>3. UNCHANGED <<handler, told, delivered, gone, body, ch, shut, tasks, cut,
                    closer, todo>>
    BY <1>1 DEF Returned, client, output, shutdown
  <1>4. QED BY <1>1, <1>2, <1>3, ReturnedTypes DEF TypeOK

LEMMA SendTypes ==
    ASSUME TypeOK, NEW s \in Streams, NEW item \in Items, Send(s, item)
    PROVE  ch' \in [Streams -> Seq(Items)] /\ \A t \in Streams : Len(ch'[t]) <= Room
  <1>1. ch[s] \in Seq(Items) /\ Len(ch[s]) < Room
    BY DEF TypeOK, Send
  <1>2. Append(ch[s], item) \in Seq(Items) /\ Len(Append(ch[s], item)) <= Room
    BY <1>1, AppendFacts, RoomAssumption
  <1>3. QED BY <1>2 DEF Send, TypeOK

(* Only frames are ever held for sending.                                  *)
Frames ==
    \A s \in Streams : forward[s] = "emit" => chunk[s].kind \in {"data", "terminal"}

LEMMA ForwardTypes ==
    ASSUME TypeOK, Frames, NEW s \in Streams, Forward(s)
    PROVE  TypeOK'
  <1>1. NoChunk \in Chunks /\ EndReason(s) \in Reasons
    BY DEF NoChunk, Chunks, Kinds, Reasons, EndReason
  <1>2. CASE ReadCut(s)
    BY <1>2, ReadTypes
  <1>3. CASE Emit(s)
    <2>1. UNCHANGED <<handler, told, delivered, gone, body, complete, frames,
                      seen, shut, tasks, cut, closer, todo>>
      BY <1>3 DEF Emit, client, upstream, shutdown
    <2>2. chunk[s].kind \in Items
      BY <1>3 DEF Frames, Emit, Items
    <2>3. ch' \in [Streams -> Seq(Items)] /\ \A t \in Streams : Len(ch'[t]) <= Room
      <3>1. CASE Send(s, chunk[s].kind)
        BY <2>2, <3>1, SendTypes
      <3>2. CASE UNCHANGED ch
        BY <3>2 DEF TypeOK
      <3>3. QED BY <1>3, <3>1, <3>2 DEF Emit
    <2>4. ASSUME NEW why \in Reasons, Quit(s, why)
          PROVE  /\ forward' \in [Streams -> {"none", "read", "emit", "close",
                                              "output", "leave", "done"}]
                 /\ chunk' \in [Streams -> Chunks]
                 /\ reason' \in [Streams -> Reasons]
      BY <1>1, <2>4 DEF Quit, TypeOK
    <2>5. \/ \E why \in Reasons : Quit(s, why)
          \/ /\ forward' = [forward EXCEPT ![s] = "read"]
             /\ chunk' = [chunk EXCEPT ![s] = NoChunk]
             /\ UNCHANGED reason
      BY <1>1, <1>3, SentCases DEF Emit, Reasons
    <2>6. /\ forward' \in [Streams -> {"none", "read", "emit", "close", "output",
                                       "leave", "done"}]
          /\ chunk' \in [Streams -> Chunks]
          /\ reason' \in [Streams -> Reasons]
      <3>1. CASE \E why \in Reasons : Quit(s, why)
        <4>1. PICK why \in Reasons : Quit(s, why)
          BY <3>1
        <4>2. QED
          BY <2>4, <4>1
      <3>2. CASE /\ forward' = [forward EXCEPT ![s] = "read"]
                 /\ chunk' = [chunk EXCEPT ![s] = NoChunk]
                 /\ UNCHANGED reason
        BY <1>1, <3>2 DEF TypeOK
      <3>3. QED
        BY <2>5, <3>1, <3>2
    <2>7. QED BY <2>1, <2>3, <2>6 DEF TypeOK
  <1>4. CASE CloseUpstream(s) \/ LeaveTable(s)
    BY <1>4 DEF CloseUpstream, LeaveTable, CloseStream, TypeOK, client, upstream,
       output, shutdown
  <1>5. CASE CloseOutput(s)
    <2>1. ch' \in [Streams -> Seq(Items)] /\ \A t \in Streams : Len(ch'[t]) <= Room
      <3>1. CASE Send(s, "error")
        BY <3>1, SendTypes DEF Items
      <3>2. CASE UNCHANGED ch
        BY <3>2 DEF TypeOK
      <3>3. QED BY <1>5, <3>1, <3>2 DEF CloseOutput, output
    <2>2. QED
      BY <1>5, <2>1 DEF CloseOutput, TypeOK, client, upstream, shutdown, output
  <1>6. QED BY <1>2, <1>3, <1>4, <1>5 DEF Forward

LEMMA TypeStep ==
    ASSUME TypeOK, Frames, [Next]_vars
    PROVE  TypeOK'
  <1>1. ASSUME NEW s \in Streams, Leave(s) PROVE TypeOK'
    BY <1>1 DEF Leave, TypeOK, client, upstream, forwarder, output, shutdown
  <1>2. CASE Shutdown \/ Close
    <2>1. UNCHANGED <<handler, told, delivered, gone, complete, frames, forward,
                      chunk, seen, reason, ch, shut, tasks>>
      BY <1>2 DEF Shutdown, Close, CancelTask, CloseTask, WaitForTasks, Stopped,
         client, upstream, forwarder, output
    <2>2. /\ body' \in [Streams -> {"none", "open", "closed"}]
          /\ cut' \subseteq Streams
          /\ closer' \in {"running", "cancelling", "closing", "waiting", "stopped"}
          /\ todo' \subseteq Streams
      <3>1. CASE Shutdown
        BY <3>1 DEF Shutdown, TypeOK
      <3>2. ASSUME NEW s \in Streams, CancelTask(s) \/ CloseTask(s)
            PROVE  <2>2!1 /\ <2>2!2 /\ <2>2!3 /\ <2>2!4
        BY <3>2 DEF CancelTask, CloseTask, CloseStream, TypeOK
      <3>3. CASE WaitForTasks \/ Stopped
        BY <3>3 DEF WaitForTasks, Stopped, TypeOK
      <3>4. QED BY <1>2, <3>1, <3>2, <3>3 DEF Close
    <2>3. QED BY <2>1, <2>2 DEF TypeOK
  <1>3. CASE UNCHANGED vars
    BY <1>3 DEF vars, TypeOK
  <1>4. QED
    BY <1>1, <1>2, <1>3, HandleTypes, ReadTypes, ForwardTypes DEF Next

-----------------------------------------------------------------------------
(* Who holds what: the phases of the handler, of the forwarder and of the  *)
(* body of a stream, and the table of tasks.                               *)

Held(s) ==
    /\ s \in tasks <=> forward[s] \notin {"none", "done"}
    /\ handler[s] \in {"idle", "opened"} => forward[s] = "none"
    /\ handler[s] = "receiving" => forward[s] # "none"
    /\ s \in todo => forward[s] # "none"
    /\ handler[s] = "idle" => body[s] = "none"
    /\ handler[s] = "opened" => body[s] = "open"
    /\ handler[s] = "done" /\ forward[s] = "none" => body[s] # "open"
    /\ forward[s] \in {"output", "leave", "done"} => body[s] # "open"
    /\ forward[s] = "emit" => chunk[s].kind \in {"data", "terminal"}
    /\ forward[s] \in {"read", "emit"} => body[s] = "open" \/ s \in cut

HeldInv ==
    /\ \A s \in Streams : Held(s)
    /\ closer = "stopped" => tasks = {}

LEMMA HeldHandle ==
    ASSUME TypeOK, HeldInv, NEW s \in Streams, Handle(s)
    PROVE  HeldInv'
  <1>1. UNCHANGED <<chunk, cut, closer, todo>>
    BY DEF Handle, Open, OpenFails, Start, StartRefused, Receive, ReceiveError,
       ReceiveEnd, forwarder, shutdown
  <1>2. CASE Open(s)
    BY <1>1, <1>2 DEF Open, HeldInv, Held, TypeOK, forwarder
  <1>3. CASE OpenFails(s)
    BY <1>1, <1>3 DEF OpenFails, Cleanup, HeldInv, Held, TypeOK, forwarder
  <1>4. CASE Start(s)
    BY <1>1, <1>4 DEF Start, MayStart, Stopping, HeldInv, Held, TypeOK
  <1>5. CASE StartRefused(s)
    BY <1>1, <1>5 DEF StartRefused, CloseStream, Cleanup, HeldInv, Held, TypeOK,
       forwarder
  <1>6. CASE Receive(s) \/ ReceiveError(s) \/ ReceiveEnd(s)
    <2>1. /\ handler[s] = "receiving"
          /\ handler' = handler \/ handler' = [handler EXCEPT ![s] = "done"]
          /\ UNCHANGED <<body, forward, tasks>>
      BY <1>6 DEF Receive, ReceiveError, ReceiveEnd, Cleanup, forwarder
    <2>2. forward[s] # "none"
      BY <2>1 DEF HeldInv, Held
    <2>3. QED BY <1>1, <2>1, <2>2 DEF HeldInv, Held, TypeOK
  <1>7. QED BY <1>2, <1>3, <1>4, <1>5, <1>6 DEF Handle

(* What was read is sent next, or the forwarder ends.                      *)
LEMMA ReturnedCases ==
    ASSUME TypeOK, NEW s \in Streams, NEW c \in Chunks, Returned(s, c)
    PROVE  /\ \/ Emits(s, c)
              \/ /\ \E why \in Reasons : Quit(s, why)
                 /\ UNCHANGED seen
           /\ UNCHANGED <<client, gone, body, output, tasks, shutdown>>
  <1>1. EndReason(s) \in Reasons
    BY DEF EndReason, Reasons
  <1>2. CASE TaskDone(s)
    BY <1>2 DEF Returned, Reasons
  <1>3. CASE Emits(s, c)
    BY <1>3 DEF Returned
  <1>4. CASE Ends(s, c) /\ UNCHANGED seen
    BY <1>1, <1>4 DEF Ends, Returned, Reasons
  <1>5. QED BY <1>2, <1>3, <1>4, ProcessCases DEF Returned

LEMMA HeldForward ==
    ASSUME TypeOK, HeldInv, NEW s \in Streams, Read(s) \/ Forward(s)
    PROVE  HeldInv'
  <1>1. CASE Read(s) \/ ReadCut(s)
    <2>1. PICK c \in Chunks : Returned(s, c)
      BY <1>1 DEF Read, ReadCut, Chunks, Kinds
    <2>2. forward[s] = "read"
      BY <1>1 DEF Read, ReadCut
    <2>3. UNCHANGED <<handler, body, tasks, cut, closer, todo>>
      BY <2>1 DEF Returned, client, shutdown
    <2>4. CASE Emits(s, c)
      BY <2>2, <2>3, <2>4 DEF Emits, HeldInv, Held, TypeOK
    <2>5. CASE \E why \in Reasons : Quit(s, why)
      BY <2>2, <2>3, <2>5 DEF Quit, HeldInv, Held, TypeOK
    <2>6. QED BY <2>1, <2>4, <2>5, ReturnedCases
  <1>2. CASE Emit(s)
    <2>1. forward[s] = "emit" /\ UNCHANGED <<handler, body, tasks, cut, closer, todo>>
      BY <1>2 DEF Emit, client, shutdown
    <2>2. /\ forward' \in {[forward EXCEPT ![s] = "read"], [forward EXCEPT ![s] = "close"]}
          /\ chunk' = [chunk EXCEPT ![s] = NoChunk]
      BY <1>2, SentCases DEF Emit, Quit
    <2>3. CASE forward' = [forward EXCEPT ![s] = "read"]
      BY <2>1, <2>2, <2>3 DEF HeldInv, Held, TypeOK
    <2>4. CASE forward' = [forward EXCEPT ![s] = "close"]
      BY <2>1, <2>2, <2>4 DEF HeldInv, Held, TypeOK
    <2>5. QED BY <2>2, <2>3, <2>4
  <1>3. CASE CloseUpstream(s)
    BY <1>3 DEF CloseUpstream, CloseStream, HeldInv, Held, TypeOK, client, shutdown
  <1>4. CASE CloseOutput(s)
    BY <1>4 DEF CloseOutput, HeldInv, Held, TypeOK, client, shutdown
  <1>5. CASE LeaveTable(s)
    BY <1>5 DEF LeaveTable, HeldInv, Held, TypeOK, client, shutdown
  <1>6. QED BY <1>1, <1>2, <1>3, <1>4, <1>5 DEF Forward

LEMMA HeldClose ==
    ASSUME TypeOK, HeldInv, Shutdown \/ Close
    PROVE  HeldInv'
  <1>1. UNCHANGED <<handler, forward, chunk, tasks>>
    BY DEF Shutdown, Close, CancelTask, CloseTask, WaitForTasks, Stopped, client,
       forwarder
  <1>2. CASE Shutdown \/ WaitForTasks \/ Stopped
    BY <1>1, <1>2 DEF Shutdown, WaitForTasks, Stopped, HeldInv, Held, TypeOK
  <1>3. ASSUME NEW s \in Streams, CancelTask(s) PROVE HeldInv'
    BY <1>1, <1>3 DEF CancelTask, HeldInv, Held
  <1>4. ASSUME NEW s \in Streams, CloseTask(s) PROVE HeldInv'
    <2>1. handler[s] \notin {"idle", "opened"}
      BY <1>4 DEF CloseTask, HeldInv, Held
    <2>2. QED BY <1>1, <1>4, <2>1 DEF CloseTask, CloseStream, HeldInv, Held, TypeOK
  <1>5. QED BY <1>2, <1>3, <1>4 DEF Close

LEMMA HeldStep ==
    ASSUME TypeOK, HeldInv, [Next]_vars
    PROVE  HeldInv'
  <1>1. ASSUME NEW s \in Streams, Leave(s) PROVE HeldInv'
    BY <1>1 DEF Leave, HeldInv, Held, client, forwarder, shutdown
  <1>2. CASE UNCHANGED vars
    BY <1>2 DEF vars, HeldInv, Held
  <1>3. QED BY <1>1, <1>2, HeldHandle, HeldForward, HeldClose DEF Next

-----------------------------------------------------------------------------
(* What the reason, the channel and the verdict say of the answer.         *)

Ended(s) == forward[s] \in {"close", "output", "leave", "done"}

Whole(s) ==
    complete[s] /\ (Format[s] = "responses" =>
                       \/ delivered[s]
                       \/ handler[s] = "done"
                       \/ Has(ch[s], "terminal"))

Honest(s) ==
    /\ forward[s] \in {"none", "read"} => ~seen[s]
    /\ forward[s] = "emit" /\ seen[s] => chunk[s].kind = "terminal"
    /\ forward[s] = "emit" /\ (chunk[s].kind = "terminal" \/ chunk[s].last) =>
           complete[s]
    /\ shut[s] => forward[s] \in {"leave", "done"}
    /\ Ended(s) /\ reason[s] = "" => Whole(s)
    /\ shut[s] /\ handler[s] = "receiving" /\ reason[s] # "" /\ ~gone[s] =>
           Has(ch[s], "error")
    /\ told[s] = "clean" /\ ~gone[s] =>
           complete[s] /\ (Format[s] = "responses" => delivered[s])

HonestInv == \A s \in Streams : Honest(s)

(* Nothing Honest looks at has changed for t.                              *)
Same(t) ==
    /\ handler'[t] = handler[t] /\ gone'[t] = gone[t] /\ told'[t] = told[t]
    /\ delivered'[t] = delivered[t] /\ complete'[t] = complete[t]
    /\ forward'[t] = forward[t] /\ chunk'[t] = chunk[t] /\ seen'[t] = seen[t]
    /\ reason'[t] = reason[t] /\ ch'[t] = ch[t] /\ shut'[t] = shut[t]

LEMMA HonestFrame ==
    ASSUME NEW t \in Streams, Honest(t), Same(t)
    PROVE  Honest(t)'
  BY DEF Same, Honest, Ended, Whole

LEMMA HonestHandle ==
    ASSUME TypeOK, HeldInv, HonestInv, NEW s \in Streams, Handle(s)
    PROVE  HonestInv'
  <1>1. ASSUME NEW t \in Streams, t # s PROVE Honest(t)'
    <2>1. CASE Open(s) \/ OpenFails(s) \/ Start(s) \/ StartRefused(s)
      BY <1>1, <2>1, HonestFrame DEF Same, HonestInv, TypeOK, Open, OpenFails, Start,
         StartRefused, Cleanup, upstream, forwarder, output
    <2>2. CASE Receive(s) \/ ReceiveError(s) \/ ReceiveEnd(s)
      BY <1>1, <2>2, HonestFrame DEF Same, HonestInv, TypeOK, Receive, ReceiveError,
         ReceiveEnd, Cleanup, upstream, forwarder, output
    <2>3. QED BY <2>1, <2>2 DEF Handle
  <1>2. Honest(s) /\ Held(s)
    BY DEF HonestInv, HeldInv
  <1>3. ASSUME Open(s) \/ OpenFails(s) \/ Start(s) \/ StartRefused(s)
        PROVE  Honest(s)'
    <2>1. /\ forward[s] = "none"
          /\ forward'[s] \in {"none", "read"}
          /\ told'[s] = told[s] \/ told'[s] = "refused"
          /\ UNCHANGED <<gone, complete, seen, shut, delivered>>
      BY <1>2, <1>3 DEF Held, TypeOK, Open, OpenFails, Start, StartRefused, Cleanup,
         upstream, forwarder, output
    <2>2. QED BY <1>2, <2>1 DEF Honest, Ended, Whole
  <1>4. ASSUME Receive(s) PROVE Honest(s)'
    <2> DEFINE item == Head(ch[s])
    <2>1. /\ item # "error" /\ handler[s] = "receiving"
          /\ ch'[s] = Tail(ch[s])
          /\ \/ /\ delivered'[s] = (delivered[s] \/ item = "terminal")
                /\ UNCHANGED <<handler, told>>
             \/ /\ UNCHANGED delivered
                /\ handler'[s] = "done" /\ told'[s] = "left"
          /\ UNCHANGED <<gone, complete, forward, chunk, seen, reason, shut>>
      BY <1>4 DEF Receive, Cleanup, TypeOK, upstream, forwarder
    <2>2. \A y \in Items : Has(ch[s], y) /\ y # item => Has(ch'[s], y)
      BY <1>4, <2>1, TailFacts DEF Receive, TypeOK
    <2>3. "terminal" \in Items /\ "error" \in Items
      BY DEF Items
    <2> HIDE DEF item
    <2>4. QED BY <1>2, <2>1, <2>2, <2>3 DEF Honest, Ended, Whole
  <1>5. ASSUME ReceiveError(s) PROVE Honest(s)'
    <2>1. /\ handler'[s] = "done" /\ told'[s] = "error"
          /\ UNCHANGED <<gone, complete, forward, chunk, seen, reason, shut, delivered>>
      BY <1>5 DEF ReceiveError, Cleanup, TypeOK, upstream, forwarder
    <2>2. QED BY <1>2, <2>1 DEF Honest, Ended, Whole
  <1>6. ASSUME ReceiveEnd(s) PROVE Honest(s)'
    <2>1. /\ handler[s] = "receiving" /\ shut[s] /\ ch[s] = <<>>
          /\ handler'[s] = "done" /\ told'[s] = "clean"
          /\ UNCHANGED <<gone, complete, forward, chunk, seen, reason, ch, shut,
                         delivered>>
      BY <1>6 DEF ReceiveEnd, Cleanup, TypeOK, upstream, forwarder, output
    <2>2. ~Has(ch[s], "error") /\ ~Has(ch[s], "terminal")
      BY <2>1 DEF Has
    <2>3. ~gone[s] => complete[s] /\ (Format[s] = "responses" => delivered[s])
      BY <1>2, <2>1, <2>2 DEF Honest, Ended, Whole
    <2>4. QED BY <1>2, <2>1, <2>3 DEF Honest, Ended, Whole
  <1>7. Honest(s)'
    BY <1>3, <1>4, <1>5, <1>6 DEF Handle
  <1>8. QED BY <1>1, <1>7 DEF HonestInv

LEMMA HonestRead ==
    ASSUME TypeOK, HeldInv, HonestInv, NEW s \in Streams, Read(s) \/ ReadCut(s)
    PROVE  HonestInv'
  <1>1. /\ forward[s] = "read"
        /\ Honest(s) /\ Held(s)
        /\ ~seen[s] /\ ~shut[s]
    BY DEF Read, ReadCut, HonestInv, HeldInv, Honest
  <1>2. PICK c \in Chunks :
           /\ Returned(s, c)
           /\ TaskDone(s) \/ ((c.kind = "terminal" \/ (c.last /\ c.kind # "fault")) =>
                                 complete'[s])
           /\ c.kind = "end" => c.last
    <2>1. CASE Read(s)
      BY <2>1 DEF Read, TypeOK
    <2>2. CASE ReadCut(s)
      <3>1. TaskDone(s)
        BY <1>1, <2>2 DEF ReadCut, Held, TaskDone
      <3>2. PICK kind \in {"end", "fault"} : Returned(s, [kind |-> kind, last |-> TRUE])
        BY <2>2 DEF ReadCut
      <3>3. [kind |-> kind, last |-> TRUE] \in Chunks
        BY DEF Chunks, Kinds
      <3>4. QED BY <3>1, <3>2, <3>3
    <2>3. QED BY <2>1, <2>2
  <1>3. UNCHANGED <<handler, told, delivered, gone, ch, shut>>
    BY <1>2 DEF Returned, client, output
  <1>4. \A t \in Streams : t # s => complete'[t] = complete[t]
    BY DEF Read, ReadCut, TypeOK, upstream
  <1>5. complete[s] => complete'[s]
    BY DEF Read, ReadCut, TypeOK, upstream
  <1>6. CASE ~TaskDone(s) /\ Emits(s, c)
    <2>1. ASSUME NEW t \in Streams, t # s PROVE Honest(t)'
      BY <1>3, <1>4, <1>6, <2>1, HonestFrame DEF Same, HonestInv, Emits, TypeOK
    <2>2. Honest(s)'
      <3>1. /\ forward'[s] = "emit" /\ chunk'[s] = c
            /\ seen'[s] => c.kind = "terminal"
            /\ c.kind \in {"data", "terminal"}
        BY <1>1, <1>6 DEF Emits, TypeOK
      <3>2. QED BY <1>1, <1>2, <1>3, <1>5, <1>6, <3>1 DEF Honest, Ended, Whole
    <2>3. QED BY <2>1, <2>2 DEF HonestInv
  <1>7. CASE (TaskDone(s) \/ Ends(s, c)) /\ ~(~TaskDone(s) /\ Emits(s, c))
    <2>1. PICK why \in Reasons :
             /\ Quit(s, why) /\ UNCHANGED seen
             /\ why = "" => complete'[s] /\ Format[s] # "responses"
      <3>1. CASE TaskDone(s)
        BY <1>2, <3>1 DEF Returned, Reasons
      <3>2. CASE ~TaskDone(s)
        <4>1. Ends(s, c) /\ UNCHANGED seen
          BY <1>2, <1>7, <3>2, ProcessCases DEF Returned
        <4>2. QED BY <1>1, <1>2, <3>2, <4>1 DEF Ends, EndReason, Reasons
      <3>3. QED BY <3>1, <3>2
    <2>2. ASSUME NEW t \in Streams, t # s PROVE Honest(t)'
      BY <1>3, <1>4, <2>1, <2>2, HonestFrame DEF Same, HonestInv, Quit, TypeOK
    <2>3. Honest(s)'
      <3>1. forward'[s] = "close" /\ reason'[s] = why
        BY <2>1 DEF Quit, TypeOK
      <3>2. QED BY <1>1, <1>3, <1>5, <2>1, <3>1 DEF Honest, Ended, Whole
    <2>4. QED BY <2>2, <2>3 DEF HonestInv
  <1>8. QED BY <1>2, <1>6, <1>7, ProcessCases DEF Returned

LEMMA HonestEmit ==
    ASSUME TypeOK, HeldInv, HonestInv, NEW s \in Streams, Emit(s)
    PROVE  HonestInv'
  <1>1. /\ forward[s] = "emit"
        /\ Honest(s) /\ ~shut[s]
        /\ chunk[s].kind \in {"data", "terminal"}
        /\ UNCHANGED <<handler, told, delivered, gone, complete, seen, shut>>
    BY DEF Emit, HonestInv, HeldInv, Held, Honest, client, upstream
  <1>2. ASSUME NEW t \in Streams, t # s PROVE Honest(t)'
    <2>1. ch'[t] = ch[t]
      BY <1>2 DEF Emit, Send, TypeOK
    <2>2. forward'[t] = forward[t] /\ chunk'[t] = chunk[t] /\ reason'[t] = reason[t]
      <3>1. CASE Quit(s, "downstream_closed")
        BY <1>2, <3>1 DEF Quit, TypeOK
      <3>2. CASE Sent(s)
        <4>1. \/ \E why : Quit(s, why)
              \/ /\ forward' = [forward EXCEPT ![s] = "read"]
                 /\ chunk' = [chunk EXCEPT ![s] = NoChunk]
                 /\ UNCHANGED reason
          BY <3>2, SentCases
        <4>2. CASE \E why : Quit(s, why)
          BY <1>2, <4>2 DEF Quit, TypeOK
        <4>3. CASE forward' = [forward EXCEPT ![s] = "read"] /\ UNCHANGED reason
                   /\ chunk' = [chunk EXCEPT ![s] = NoChunk]
          BY <1>2, <4>3 DEF TypeOK
        <4>4. QED BY <4>1, <4>2, <4>3
      <3>3. QED BY <3>1, <3>2 DEF Emit
    <2>3. QED BY <1>1, <1>2, <2>1, <2>2, HonestFrame DEF Same, HonestInv
  <1>3. ASSUME Rejected(s), Quit(s, "downstream_closed"), UNCHANGED ch
        PROVE  Honest(s)'
    <2>1. forward'[s] = "close" /\ reason'[s] = "downstream_closed"
      BY <1>3 DEF Quit, TypeOK
    <2>2. QED BY <1>1, <1>3, <2>1 DEF Honest, Ended, Whole
  <1>4. ASSUME Send(s, chunk[s].kind), Sent(s)
        PROVE  Honest(s)'
    <2>1. chunk[s].kind = "terminal" => Has(ch'[s], "terminal")
      BY <1>1, <1>4, AppendFacts DEF Send, TypeOK, Items
    <2>2. CASE chunk[s].kind = "terminal" /\ Quit(s, "")
      <3>1. forward'[s] = "close" /\ reason'[s] = ""
        BY <2>2 DEF Quit, TypeOK
      <3>2. QED BY <1>1, <2>1, <2>2, <3>1 DEF Honest, Ended, Whole
    <2>3. CASE chunk[s].kind # "terminal" /\ chunk[s].last /\ Quit(s, EndReason(s))
      <3>1. forward'[s] = "close" /\ reason'[s] = EndReason(s)
        BY <2>3 DEF Quit, TypeOK
      <3>2. reason'[s] = "" => Format[s] # "responses"
        BY <1>1, <2>3, <3>1 DEF Honest, EndReason
      <3>3. QED BY <1>1, <2>3, <3>1, <3>2 DEF Honest, Ended, Whole
    <2>4. CASE /\ forward' = [forward EXCEPT ![s] = "read"]
               /\ chunk[s].kind # "terminal"
      <3>1. forward'[s] = "read"
        BY <2>4 DEF TypeOK
      <3>2. QED BY <1>1, <2>4, <3>1 DEF Honest, Ended, Whole
    <2>5. QED BY <1>4, <2>2, <2>3, <2>4, SentCases
  <1>5. Honest(s)'
    BY <1>3, <1>4 DEF Emit
  <1>6. QED BY <1>2, <1>5 DEF HonestInv

LEMMA HonestEnd ==
    ASSUME TypeOK, HeldInv, HonestInv, NEW s \in Streams,
           CloseUpstream(s) \/ CloseOutput(s) \/ LeaveTable(s)
    PROVE  HonestInv'
  <1>1. Honest(s) /\ UNCHANGED <<handler, told, delivered, gone, complete, chunk, seen, reason>>
    BY DEF CloseUpstream, CloseOutput, LeaveTable, HonestInv, client, upstream
  <1>2. ASSUME NEW t \in Streams, t # s PROVE Honest(t)'
    <2>1. ch'[t] = ch[t] /\ shut'[t] = shut[t] /\ forward'[t] = forward[t]
      <3>1. CASE CloseUpstream(s) \/ LeaveTable(s)
        BY <1>2, <3>1 DEF CloseUpstream, LeaveTable, TypeOK, output
      <3>2. CASE CloseOutput(s)
        <4>1. forward'[t] = forward[t]
          BY <1>2, <3>2 DEF CloseOutput, TypeOK
        <4>2. ch'[t] = ch[t] /\ shut'[t] = shut[t]
          BY <1>2, <3>2 DEF CloseOutput, Send, TypeOK, output
        <4>3. QED BY <4>1, <4>2
      <3>3. QED BY <3>1, <3>2
    <2>2. QED BY <1>1, <1>2, <2>1, HonestFrame DEF Same, HonestInv
  <1>3. ASSUME CloseUpstream(s) PROVE Honest(s)'
    <2>1. forward[s] = "close" /\ forward'[s] = "output" /\ UNCHANGED <<ch, shut>>
      BY <1>3 DEF CloseUpstream, TypeOK, output
    <2>2. QED BY <1>1, <2>1 DEF Honest, Ended, Whole
  <1>4. ASSUME LeaveTable(s) PROVE Honest(s)'
    <2>1. forward[s] = "leave" /\ forward'[s] = "done" /\ UNCHANGED <<ch, shut>>
      BY <1>4 DEF LeaveTable, TypeOK, output
    <2>2. QED BY <1>1, <2>1 DEF Honest, Ended, Whole
  <1>5. ASSUME CloseOutput(s) PROVE Honest(s)'
    <2>1. forward[s] = "output" /\ forward'[s] = "leave"
      BY <1>5 DEF CloseOutput, TypeOK
    <2>2. CASE Registered(s) /\ reason[s] # "" /\ Send(s, "error")
      <3>1. Has(ch'[s], "error")
        BY <2>2, AppendFacts DEF Send, TypeOK, Items
      <3>2. QED BY <1>1, <2>1, <2>2, <3>1 DEF Honest, Ended, Whole
    <2>3. CASE Registered(s) /\ (reason[s] = "" \/ StreamDone(s)) /\ UNCHANGED ch
      BY <1>1, <2>1, <2>3 DEF StreamDone, Honest, Ended, Whole
    <2>4. CASE ~Registered(s) /\ UNCHANGED output
      BY <1>1, <2>1, <2>4 DEF output, Honest, Ended, Whole
    <2>5. QED BY <1>5, <2>2, <2>3, <2>4 DEF CloseOutput
  <1>6. QED BY <1>2, <1>3, <1>4, <1>5 DEF HonestInv

LEMMA HonestStep ==
    ASSUME TypeOK, HeldInv, HonestInv, [Next]_vars
    PROVE  HonestInv'
  <1>1. CASE Shutdown \/ Close \/ UNCHANGED vars
    <2>1. UNCHANGED <<handler, told, delivered, gone, complete, forward, chunk, seen,
                      reason, ch, shut>>
      BY <1>1 DEF Shutdown, Close, CancelTask, CloseTask, WaitForTasks, Stopped, vars,
         client, upstream, forwarder, output
    <2>2. QED BY <2>1, HonestFrame DEF Same, HonestInv
  <1>2. ASSUME NEW s \in Streams, Leave(s) PROVE HonestInv'
    <2>1. /\ UNCHANGED <<handler, told, delivered, complete, forward, chunk, seen,
                         reason, ch, shut>>
          /\ \A t \in Streams : gone[t] => gone'[t]
      BY <1>2 DEF Leave, TypeOK, client, upstream, forwarder, output
    <2>2. QED BY <2>1 DEF HonestInv, Honest, Ended, Whole
  <1>3. QED
    BY <1>1, <1>2, HonestHandle, HonestRead, HonestEmit, HonestEnd DEF Next, Forward

-----------------------------------------------------------------------------
(* The inductive invariant and what it implies.                            *)

StreamInv == TypeOK /\ HeldInv /\ HonestInv

(* StreamInv holds initially and every step of a handler, a forwarder, the *)
(* client or Engine.Close keeps it.                                        *)
THEOREM Invariance == Spec => []StreamInv
  <1>1. Init => StreamInv
    <2>1. Init => HeldInv
      BY DEF Init, HeldInv, Held
    <2>2. Init => HonestInv
      BY DEF Init, HonestInv, Honest, Ended, Whole
    <2>3. QED BY <2>1, <2>2, TypeInit DEF StreamInv
  <1>2. StreamInv /\ [Next]_vars => StreamInv'
    <2> SUFFICES ASSUME StreamInv, [Next]_vars PROVE StreamInv'
      OBVIOUS
    <2>1. Frames
      BY DEF StreamInv, HeldInv, Held, Frames
    <2>2. QED BY <2>1, TypeStep, HeldStep, HonestStep DEF StreamInv
  <1>3. QED BY <1>1, <1>2, PTL DEF Spec

(* Every variable of the streams keeps to its type; in particular no       *)
(* channel holds more than its capacity.                                   *)
THEOREM TypeCorrect == Spec => []TypeOK
  <1>1. StreamInv => TypeOK
    BY DEF StreamInv
  <1>2. QED BY <1>1, Invariance, PTL

(* forwardCopilotStream and closeOutput: a client that stayed and was told *)
(* of no error has the whole answer, whatever was cut, and when.           *)
THEOREM TruncationTheorem == Spec => []NoSilentTruncation
  <1>1. StreamInv => NoSilentTruncation
    BY DEF StreamInv, HonestInv, Honest, NoSilentTruncation
  <1>2. QED BY <1>1, Invariance, PTL

(* closeStream and the table of tasks: nothing of a finished stream stays. *)
THEOREM NothingHeldTheorem == Spec => []NothingHeld
  <1>1. StreamInv => NothingHeld
    BY DEF StreamInv, HeldInv, Held, NothingHeld
  <1>2. QED BY <1>1, Invariance, PTL

(* stopStreamForwarding: no forwarder outlives Engine.Close, and none is   *)
(* started after it.                                                       *)
THEOREM QuietTheorem == Spec => []QuietAfterClose
  <1>1. StreamInv => QuietAfterClose
    BY DEF StreamInv, HeldInv, Held, QuietAfterClose
  <1>2. QED BY <1>1, Invariance, PTL
=============================================================================
