----------------------------- MODULE MemoryGate -----------------------------
(***************************************************************************)
(* The gate that bounds the request bodies in progress                     *)
(* (internal/app/security.go, memoryGate) with the requests that pass it   *)
(* (internal/app/server.go, inference): acquire before the body is read,   *)
(* resize when its size is known, release at the end.                      *)
(*                                                                         *)
(* g.changed is a channel that every resize closes and replaces.  A waiter *)
(* holds the channel it read under the mutex, so all that matters of it is *)
(* whether it has been closed since.                                       *)
(***************************************************************************)
EXTENDS Integers, FiniteSets, FiniteSetsExt

CONSTANTS
    Procs,       \* goroutines serving inference requests
    Capacity,    \* requestMemoryBudget, no smaller than the largest body
    Declared,    \* reservations asked for, from Content-Length or the maximum
    MinWeight,   \* minInferenceWeight
    MaxArrivals  \* bound: requests that arrive in a behaviour

ASSUME GateAssumption ==
    /\ Capacity \in Nat \ {0} /\ MinWeight \in Nat \ {0}
    /\ Declared \subseteq Nat
    /\ \A w \in Declared : MinWeight <= w /\ w <= Capacity
    /\ MaxArrivals \in Nat /\ IsFiniteSet(Procs)

VARIABLES
    used,      \* g.used
    weight,    \* of each request: asked for while waiting, then l.weight
    closed,    \* waiters whose channel has been closed
    pc,
    arrivals

vars == <<used, weight, closed, pc, arrivals>>

PCs == {"idle", "acquire", "wait", "read", "run"}
Holders == {p \in Procs : pc[p] \in {"read", "run"}}

Init == /\ used = 0
        /\ weight = [p \in Procs |-> 0]
        /\ closed = {}
        /\ pc = [p \in Procs |-> "idle"]
        /\ arrivals = 0

-----------------------------------------------------------------------------
\* A request with a body no longer than the maximum.
Arrive(p) ==
    /\ pc[p] = "idle" /\ arrivals < MaxArrivals
    /\ arrivals' = arrivals + 1
    /\ \E w \in Declared : weight' = [weight EXCEPT ![p] = w]
    /\ pc' = [pc EXCEPT ![p] = "acquire"]
    /\ UNCHANGED <<used, closed>>

\* Mutant: the weight of the request that asks is left out.
FitsOneMore(w) == used <= Capacity

Fits(w) == used = 0 \/ used + w <= Capacity

\* One turn of the loop in acquire, under g.mu: the request enters, or takes the
\* channel of the moment to wait on.
Acquire(p) ==
    /\ pc[p] = "acquire"
    /\ IF Fits(weight[p])
       THEN /\ used' = used + weight[p]
            /\ pc' = [pc EXCEPT ![p] = "read"]
       ELSE /\ pc' = [pc EXCEPT ![p] = "wait"]
            /\ UNCHANGED used
    /\ UNCHANGED <<weight, closed, arrivals>>

\* The channel was closed: try again.
Wake(p) ==
    /\ pc[p] = "wait" /\ p \in closed
    /\ closed' = closed \ {p}
    /\ pc' = [pc EXCEPT ![p] = "acquire"]
    /\ UNCHANGED <<used, weight, arrivals>>

\* Thirty seconds are over or the client has gone; 503 in the first case.
GiveUp(p) ==
    /\ pc[p] = "wait"
    /\ closed' = closed \ {p}
    /\ weight' = [weight EXCEPT ![p] = 0]
    /\ pc' = [pc EXCEPT ![p] = "idle"]
    /\ UNCHANGED <<used, arrivals>>

\* Mutants: the lease keeps its old weight; waiters are told only when the gate is
\* empty, or only when a request shrinks.
ResizeKeepsLease(p, w) ==
    IF w >= weight[p] THEN UNCHANGED <<used, weight, closed>>
    ELSE /\ used' = used - (weight[p] - w)
         /\ weight' = IF w = 0 THEN [weight EXCEPT ![p] = 0] ELSE weight
         /\ closed' = {q \in Procs : pc[q] = "wait"}
ResizeTellsWhenEmpty(p, w) ==
    IF w >= weight[p] THEN UNCHANGED <<used, weight, closed>>
    ELSE /\ used' = used - (weight[p] - w)
         /\ weight' = [weight EXCEPT ![p] = w]
         /\ closed' = IF used' = 0 THEN {q \in Procs : pc[q] = "wait"}
                      ELSE closed
ResizeTellsWhenShrunk(p, w) ==
    IF w >= weight[p] THEN UNCHANGED <<used, weight, closed>>
    ELSE /\ used' = used - (weight[p] - w)
         /\ weight' = [weight EXCEPT ![p] = w]
         /\ closed' = IF w > 0 THEN {q \in Procs : pc[q] = "wait"}
                      ELSE closed

\* resize lowers a reservation and closes the channel of all who wait.
ResizeTo(p, w) ==
    IF w >= weight[p] THEN UNCHANGED <<used, weight, closed>>
    ELSE /\ used' = used - (weight[p] - w)
         /\ weight' = [weight EXCEPT ![p] = w]
         /\ closed' = {q \in Procs : pc[q] = "wait"}

\* The body has been read and has some length up to the declared one.
Resize(p) ==
    /\ pc[p] = "read"
    /\ \E w \in MinWeight .. weight[p] : ResizeTo(p, w)
    /\ pc' = [pc EXCEPT ![p] = "run"]
    /\ UNCHANGED arrivals

\* The handler returns, after the answer or because the body was too large.
Release(p) ==
    /\ pc[p] \in {"read", "run"}
    /\ ResizeTo(p, 0)
    /\ pc' = [pc EXCEPT ![p] = "idle"]
    /\ UNCHANGED arrivals

Step(p) == Acquire(p) \/ Wake(p) \/ Resize(p) \/ Release(p)

\* The bound on arrivals is reached and all requests are done.
Quiet == /\ arrivals = MaxArrivals /\ \A p \in Procs : pc[p] = "idle"
         /\ UNCHANGED vars

Next == \/ \E p \in Procs : Arrive(p) \/ Step(p) \/ GiveUp(p)
        \/ Quiet

Spec == Init /\ [][Next]_vars

\* Goroutines run, and requests end.  Nobody has to give up.
FairSpec == Spec /\ \A p \in Procs : WF_vars(Step(p))

-----------------------------------------------------------------------------
TypeOK == /\ used \in Int
          /\ weight \in [Procs -> Nat]
          /\ closed \in SUBSET Procs
          /\ pc \in [Procs -> PCs]
          /\ arrivals \in 0 .. MaxArrivals

\* What is counted is what is held: nothing leaks when requests shrink, end early
\* or give up, so the gate never closes for good.
UsedIsHeld == used = MapThenSumSet(LAMBDA p : weight[p], Holders)

\* Requests that enter and shrink at the same time never exceed the budget.
WithinBudget == used <= Capacity

\* No wakeup is lost: whoever sleeps on an open channel does not fit.
NoLostWakeup == \A p \in Procs : pc[p] = "wait" /\ p \notin closed => ~Fits(weight[p])

\* Once requests stop arriving, all who wait get in; nobody needs the timeout.
WaitersGetIn == \A p \in Procs : pc[p] = "wait" ~> pc[p] # "wait"
=============================================================================
