--------------------------- MODULE StreamForward ---------------------------
(***************************************************************************)
(* Streaming answers: the HTTP handler of a streaming request, the         *)
(* forwarder goroutine that copies the upstream body to it, the client     *)
(* that may leave at any moment and Engine.Close, which stops every        *)
(* forwarder.                                                              *)
(*                                                                         *)
(* They meet in three places: the bounded channel of a stream's output     *)
(* (runtimeHost.outputs), the upstream body (runtimeHost.readers) and the  *)
(* table of forwarding tasks.  A chunk of the upstream is one frame here;  *)
(* only whether it is the terminal frame of the protocol matters.          *)
(***************************************************************************)
EXTENDS Naturals, Sequences

CONSTANTS
    Streams,    \* streaming requests
    Format,     \* their client protocols
    MaxFrames,  \* bound: frames the upstream sends on one stream
    Room        \* capacity of an output channel (16 in the code)

Formats == {"responses", "claude", "openai"}

ASSUME FormatAssumption == Format \in [Streams -> Formats]
ASSUME RoomAssumption == Room \in Nat \ {0}
ASSUME FramesAssumption == MaxFrames \in Nat

VARIABLES
    handler,    \* where inference stands with the stream
    gone,       \* the client has left: the context of its request is done
    body,       \* the upstream response body
    complete,   \* the upstream has ended the answer itself (history)
    frames,     \* frames the upstream has sent
    forward,    \* where the forwarder goroutine stands
    chunk,      \* what the forwarder has read and not yet sent
    seen,       \* responsesTerminalTracker.seen
    reason,     \* why forwarding stopped; "" when it ended well
    ch,         \* streamOutput.ch
    shut,       \* that channel is closed
    told,       \* how the answer ended for the client
    delivered,  \* the client got the terminal frame (history)
    tasks,      \* service.streamTasks, and streamWG: its members are counted
    cut,        \* tasks whose context the closer has cancelled
    closer,     \* where Engine.Close stands
    todo        \* the tasks its snapshot still holds

client == <<handler, told, delivered>>
upstream == <<complete, frames>>
forwarder == <<forward, chunk, seen, reason>>
output == <<ch, shut>>
shutdown == <<cut, closer, todo>>
vars == <<handler, gone, body, complete, frames, forward, chunk, seen, reason,
          ch, shut, told, delivered, tasks, cut, closer, todo>>

Kinds == {"data", "terminal", "end", "fault"}
Chunks == [kind : Kinds, last : BOOLEAN]
Items == {"data", "terminal", "error"}
NoChunk == [kind |-> "end", last |-> TRUE]

(* The reasons of streamForwardError that close the stream with an error.  *)
Reasons == {"", "service_shutdown", "downstream_closed", "upstream_error",
            "missing_terminal_event"}

TypeOK ==
    /\ handler \in [Streams -> {"idle", "opened", "receiving", "done"}]
    /\ gone \in [Streams -> BOOLEAN]
    /\ body \in [Streams -> {"none", "open", "closed"}]
    /\ complete \in [Streams -> BOOLEAN]
    /\ frames \in [Streams -> 0..MaxFrames]
    /\ forward \in [Streams -> {"none", "read", "emit", "close", "output",
                                "leave", "done"}]
    /\ chunk \in [Streams -> Chunks]
    /\ seen \in [Streams -> BOOLEAN]
    /\ reason \in [Streams -> Reasons]
    /\ ch \in [Streams -> Seq(Items)]
    /\ \A s \in Streams : Len(ch[s]) <= Room
    /\ shut \in [Streams -> BOOLEAN]
    /\ told \in [Streams -> {"nothing", "clean", "error", "left", "refused"}]
    /\ delivered \in [Streams -> BOOLEAN]
    /\ tasks \subseteq Streams
    /\ cut \subseteq Streams
    /\ closer \in {"running", "cancelling", "closing", "waiting", "stopped"}
    /\ todo \subseteq Streams

Init ==
    /\ handler = [s \in Streams |-> "idle"]
    /\ gone = [s \in Streams |-> FALSE]
    /\ body = [s \in Streams |-> "none"]
    /\ complete = [s \in Streams |-> FALSE]
    /\ frames = [s \in Streams |-> 0]
    /\ forward = [s \in Streams |-> "none"]
    /\ chunk = [s \in Streams |-> NoChunk]
    /\ seen = [s \in Streams |-> FALSE]
    /\ reason = [s \in Streams |-> ""]
    /\ ch = [s \in Streams |-> <<>>]
    /\ shut = [s \in Streams |-> FALSE]
    /\ told = [s \in Streams |-> "nothing"]
    /\ delivered = [s \in Streams |-> FALSE]
    /\ tasks = {}
    /\ cut = {}
    /\ closer = "running"
    /\ todo = {}

-----------------------------------------------------------------------------
(* Contexts.  Engine.Stream derives its context from the request's and     *)
(* cancels it in cleanup; the forwarder's derives from it in turn.  The    *)
(* upstream body is tied to the first of the two.                          *)

StreamDone(s) == gone[s] \/ handler[s] = "done"
TaskDone(s) == StreamDone(s) \/ s \in cut

(* The output is in runtimeHost.outputs from Engine.Stream to cleanup.     *)
Registered(s) == handler[s] \in {"opened", "receiving"}

Stopping == closer # "running"

(* The handler runs cleanup and returns.                                   *)
Cleanup(s, end) ==
    /\ handler' = [handler EXCEPT ![s] = "done"]
    /\ told' = [told EXCEPT ![s] = end]

(* closeStream: the body leaves the readers and is closed; closing twice   *)
(* does nothing.                                                           *)
CloseStream(s) ==
    body' = [body EXCEPT ![s] = IF @ = "open" THEN "closed" ELSE @]

-----------------------------------------------------------------------------
(* The handler.                                                            *)

(* Engine.Stream up to openStream: the upstream answers 2xx ...            *)
Open(s) ==
    /\ handler[s] = "idle" /\ ~gone[s]
    /\ handler' = [handler EXCEPT ![s] = "opened"]
    /\ body' = [body EXCEPT ![s] = "open"]
    /\ UNCHANGED <<gone, upstream, forwarder, output, told, delivered, tasks,
                   shutdown>>

(* ... or anything else, and what was opened is closed on the spot; the    *)
(* handler answers with an error or goes on to another account.            *)
OpenFails(s) ==
    /\ handler[s] = "idle"
    /\ Cleanup(s, "refused")
    /\ \/ body' = [body EXCEPT ![s] = "closed"]
       \/ UNCHANGED body
    /\ UNCHANGED <<gone, upstream, forwarder, output, delivered, tasks,
                   shutdown>>

(* startStreamForwarding.                                                  *)
\* Mutant: the flag is not looked at.
MayStartAlways == TRUE
MayStart == ~Stopping

Start(s) ==
    /\ handler[s] = "opened"
    /\ MayStart
    /\ handler' = [handler EXCEPT ![s] = "receiving"]
    /\ tasks' = tasks \cup {s}
    /\ forward' = [forward EXCEPT ![s] = "read"]
    /\ UNCHANGED <<gone, body, upstream, chunk, seen, reason, output, told,
                   delivered, shutdown>>

\* Mutant: the body of a refused stream is forgotten.
StartRefusedLeaks(s) ==
    /\ handler[s] = "opened" /\ ~MayStart
    /\ Cleanup(s, "refused")
    /\ UNCHANGED <<gone, body, upstream, forwarder, output, delivered, tasks,
                   shutdown>>

StartRefused(s) ==
    /\ handler[s] = "opened"
    /\ ~MayStart
    /\ CloseStream(s)
    /\ Cleanup(s, "refused")
    /\ UNCHANGED <<gone, upstream, forwarder, output, delivered, tasks,
                   shutdown>>

(* One turn of the handler's loop over the channel.  A write fails when    *)
(* the client is gone or has not read for the length of the deadline.      *)
Receive(s) ==
    /\ handler[s] = "receiving" /\ ch[s] # <<>> /\ Head(ch[s]) # "error"
    /\ ch' = [ch EXCEPT ![s] = Tail(@)]
    /\ \/ /\ delivered' = [delivered EXCEPT ![s] = @ \/ Head(ch[s]) = "terminal"]
          /\ UNCHANGED <<handler, told>>
       \/ Cleanup(s, "left") /\ UNCHANGED delivered
    /\ UNCHANGED <<gone, body, upstream, forwarder, shut, tasks, shutdown>>

ReceiveError(s) ==
    /\ handler[s] = "receiving" /\ ch[s] # <<>> /\ Head(ch[s]) = "error"
    /\ ch' = [ch EXCEPT ![s] = Tail(@)]
    /\ Cleanup(s, "error")
    /\ UNCHANGED <<gone, body, upstream, forwarder, shut, delivered, tasks,
                   shutdown>>

ReceiveEnd(s) ==
    /\ handler[s] = "receiving" /\ ch[s] = <<>> /\ shut[s]
    /\ Cleanup(s, "clean")
    /\ UNCHANGED <<gone, body, upstream, forwarder, output, delivered, tasks,
                   shutdown>>

(* The client goes away.                                                   *)
Leave(s) ==
    /\ ~gone[s] /\ handler[s] # "done"
    /\ gone' = [gone EXCEPT ![s] = TRUE]
    /\ UNCHANGED <<client, body, upstream, forwarder, output, tasks, shutdown>>

-----------------------------------------------------------------------------
(* The forwarder.                                                          *)

(* Its end, with the reason to report.                                     *)
Quit(s, why) ==
    /\ forward' = [forward EXCEPT ![s] = "close"]
    /\ reason' = [reason EXCEPT ![s] = why]
    /\ chunk' = [chunk EXCEPT ![s] = NoChunk]

(* The end of the upstream: a Responses client must have got a terminal    *)
(* frame.                                                                  *)
EndReason(s) ==
    IF Format[s] = "responses" /\ ~seen[s] THEN "missing_terminal_event"
    ELSE ""

(* What is left to do with what was read.  The terminal frame of the chat  *)
(* format ends forwarding without being forwarded.                         *)
Process(s, c) ==
    CASE c.kind = "fault" -> Quit(s, "upstream_error") /\ UNCHANGED seen
      [] c.kind = "end" -> Quit(s, EndReason(s)) /\ UNCHANGED seen
      [] c.kind = "terminal" /\ Format[s] = "openai" ->
             Quit(s, "") /\ UNCHANGED seen
      [] OTHER ->
             /\ forward' = [forward EXCEPT ![s] = "emit"]
             /\ chunk' = [chunk EXCEPT ![s] = c]
             /\ seen' = [seen EXCEPT ![s] = @ \/ /\ c.kind = "terminal"
                                                 /\ Format[s] = "responses"]
             /\ UNCHANGED reason

(* readStream has returned c.  The context is looked at before anything    *)
(* that was read, so nothing read at a shutdown is taken for the end.      *)
\* Mutant: the context is not looked at after a read.
ReturnedBlind(s, c) ==
    /\ Process(s, c)
    /\ UNCHANGED <<client, gone, body, output, tasks, shutdown>>
Returned(s, c) ==
    /\ IF TaskDone(s)
         THEN Quit(s, "service_shutdown") /\ UNCHANGED seen
         ELSE Process(s, c)
    /\ UNCHANGED <<client, gone, body, output, tasks, shutdown>>

(* The upstream sends a frame, perhaps with the end of the body, ends the  *)
(* body, or breaks it (an oversized frame and a panic end the same way).   *)
Read(s) ==
    /\ forward[s] = "read" /\ body[s] = "open"
    /\ \E c \in Chunks :
          /\ c.kind \in {"data", "terminal"} => frames[s] < MaxFrames
          /\ c.kind \in {"end", "fault"} => c.last
          /\ frames' = [frames EXCEPT ![s] =
                           IF c.kind \in {"data", "terminal"} THEN @ + 1 ELSE @]
          /\ complete' = [complete EXCEPT ![s] =
                             \/ @
                             \/ c.kind = "terminal"
                             \/ (c.last /\ c.kind # "fault")]
          /\ Returned(s, c)

(* The read ends because the context of the request is done, or because    *)
(* the body was closed: a parked read fails, and one that finds no reader  *)
(* reports the end of the stream.                                          *)
ReadCut(s) ==
    /\ forward[s] = "read"
    /\ StreamDone(s) \/ body[s] = "closed"
    /\ \E kind \in IF body[s] = "closed" THEN {"end", "fault"} ELSE {"fault"} :
          Returned(s, [kind |-> kind, last |-> TRUE])
    /\ UNCHANGED upstream

(* A frame was sent: forwarding ends after a terminal one or with the body.*)
Sent(s) ==
    CASE chunk[s].kind = "terminal" -> Quit(s, "")
      [] chunk[s].kind # "terminal" /\ chunk[s].last -> Quit(s, EndReason(s))
      [] OTHER -> /\ forward' = [forward EXCEPT ![s] = "read"]
                  /\ chunk' = [chunk EXCEPT ![s] = NoChunk]
                  /\ UNCHANGED reason

(* emit waits for room in the channel or for the stream's context.         *)
Send(s, item) ==
    /\ Registered(s) /\ Len(ch[s]) < Room
    /\ ch' = [ch EXCEPT ![s] = Append(@, item)]

\* Mutant: emit waits for room only.
RejectedNever(s) == FALSE
Rejected(s) == StreamDone(s)

Emit(s) ==
    /\ forward[s] = "emit"
    /\ \/ Send(s, chunk[s].kind) /\ Sent(s)
       \/ Rejected(s) /\ Quit(s, "downstream_closed") /\ UNCHANGED ch
    /\ UNCHANGED <<client, gone, body, upstream, seen, shut, tasks, shutdown>>

(* The deferred end: the body is closed, ...                               *)
CloseUpstream(s) ==
    /\ forward[s] = "close"
    /\ CloseStream(s)
    /\ forward' = [forward EXCEPT ![s] = "output"]
    /\ UNCHANGED <<client, gone, upstream, chunk, seen, reason, output, tasks,
                   shutdown>>

(* ... the output is closed, after an error if there was one (any reason   *)
(* carries a message, the benign ones too), ...                            *)
CloseOutput(s) ==
    /\ forward[s] = "output"
    /\ IF ~Registered(s) THEN UNCHANGED output
       ELSE /\ \/ reason[s] # "" /\ Send(s, "error")
               \/ (reason[s] = "" \/ StreamDone(s)) /\ UNCHANGED ch
            /\ shut' = [shut EXCEPT ![s] = TRUE]
    /\ forward' = [forward EXCEPT ![s] = "leave"]
    /\ UNCHANGED <<client, gone, body, upstream, chunk, seen, reason, tasks,
                   shutdown>>

(* ... and the task is taken off the table.                                *)
LeaveTable(s) ==
    /\ forward[s] = "leave"
    /\ forward' = [forward EXCEPT ![s] = "done"]
    /\ tasks' = tasks \ {s}
    /\ UNCHANGED <<client, gone, body, upstream, chunk, seen, reason, output,
                   shutdown>>

-----------------------------------------------------------------------------
(* Engine.Close: the flag and the snapshot under streamMu, then for each   *)
(* task cancel and closeStream, then the wait for all of them.             *)

Shutdown ==
    /\ closer = "running"
    /\ closer' = "cancelling"
    /\ todo' = tasks
    /\ UNCHANGED <<client, gone, body, upstream, forwarder, output, tasks, cut>>

CancelTask(s) ==
    /\ closer = "cancelling" /\ s \in todo
    /\ cut' = cut \cup {s}
    /\ closer' = "closing"
    /\ UNCHANGED <<client, gone, body, upstream, forwarder, output, tasks, todo>>

\* Mutant: a task is cancelled and its body left open.
CloseTaskNotBody(s) ==
    /\ closer = "closing" /\ s \in todo \cap cut
    /\ todo' = todo \ {s}
    /\ closer' = "cancelling"
    /\ UNCHANGED <<client, gone, body, upstream, forwarder, output, tasks, cut>>

CloseTask(s) ==
    /\ closer = "closing" /\ s \in todo \cap cut
    /\ CloseStream(s)
    /\ todo' = todo \ {s}
    /\ closer' = "cancelling"
    /\ UNCHANGED <<client, gone, upstream, forwarder, output, tasks, cut>>

WaitForTasks ==
    /\ closer = "cancelling" /\ todo = {}
    /\ closer' = "waiting"
    /\ UNCHANGED <<client, gone, body, upstream, forwarder, output, tasks, cut,
                   todo>>

Stopped ==
    /\ closer = "waiting" /\ tasks = {}
    /\ closer' = "stopped"
    /\ UNCHANGED <<client, gone, body, upstream, forwarder, output, tasks, cut,
                   todo>>

Handle(s) ==
    \/ Open(s) \/ OpenFails(s) \/ Start(s) \/ StartRefused(s)
    \/ Receive(s) \/ ReceiveError(s) \/ ReceiveEnd(s)
Forward(s) ==
    \/ ReadCut(s) \/ Emit(s)
    \/ CloseUpstream(s) \/ CloseOutput(s) \/ LeaveTable(s)
Close ==
    \/ \E s \in Streams : CancelTask(s) \/ CloseTask(s)
    \/ WaitForTasks \/ Stopped

Next ==
    \/ \E s \in Streams : Handle(s) \/ Read(s) \/ Forward(s) \/ Leave(s)
    \/ Shutdown \/ Close

(* The goroutines of the process are scheduled; the upstream owes nothing, *)
(* nobody has to leave and the server need not be stopped.                 *)
Fairness ==
    /\ \A s \in Streams : WF_vars(Handle(s)) /\ WF_vars(Forward(s))
    /\ WF_vars(Close)

Spec == Init /\ [][Next]_vars
LiveSpec == Spec /\ Fairness

-----------------------------------------------------------------------------
(* A client that stayed and was told of no error has the whole answer: the *)
(* upstream ended it, and a Responses client got its terminal event, even  *)
(* when the stream was cut by a shutdown (stopStreamForwarding cancels     *)
(* before it closes the body, whose absence reads as the end).             *)
NoSilentTruncation ==
    \A s \in Streams :
        told[s] = "clean" /\ ~gone[s] =>
            complete[s] /\ (Format[s] = "responses" => delivered[s])

(* Once the handler and the forwarder of a stream are through, its body is *)
(* closed and its task is off the table, whoever was first to give up.     *)
NothingHeld ==
    \A s \in Streams :
        handler[s] = "done" /\ forward[s] \in {"none", "done"} =>
            body[s] # "open" /\ s \notin tasks

(* After Engine.Close no forwarder runs: a request in openStream when the  *)
(* flag is set is refused, not started.                                    *)
QuietAfterClose ==
    closer = "stopped" =>
        \A s \in Streams : forward[s] \in {"none", "done"}

(* Engine.Close returns though upstreams are silent and clients stay: a    *)
(* parked read does not end with its task's context, closeStream ends it.  *)
CloseReturns == Stopping ~> closer = "stopped"

(* A client that leaves pins nothing: the upstream body of its stream is   *)
(* released though the upstream goes on or falls silent and the channel is *)
(* full.                                                                   *)
AbandonedIsReleased ==
    \A s \in Streams : gone[s] ~> (handler[s] = "done" /\ body[s] # "open")
=============================================================================
