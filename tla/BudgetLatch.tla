----------------------------- MODULE BudgetLatch -----------------------------
(***************************************************************************)
(* What the budget guard of one account object promises for as long as the *)
(* process runs, whatever the rest of the program does.  Once it blocks,   *)
(* it keeps blocking until its reset time is known and has passed; the     *)
(* reset time is only ever learned once or, when it has passed, moved to a *)
(* later cycle.  AccountStore implements this.                             *)
(***************************************************************************)
EXTENDS Naturals

VARIABLES now,      \* the clock
          exists,   \* the account object has been created
          blocked,  \* guard.Blocked
          resetAt   \* guard.ResetAt, 0 when unknown

latch == <<exists, blocked, resetAt>>

Init == /\ now \in Nat /\ resetAt \in Nat
        /\ exists = FALSE /\ blocked = FALSE

Tick == now' > now /\ UNCHANGED latch

\* A new object starts from whatever it inherits.
Create == /\ ~exists /\ exists'
          /\ UNCHANGED now

Latch == /\ exists /\ ~blocked /\ blocked'
         /\ UNCHANGED <<now, exists>>

Due == resetAt # 0 /\ now >= resetAt

Postpone == /\ exists /\ blocked
            /\ \/ resetAt = 0
               \/ Due /\ resetAt' > resetAt
            /\ UNCHANGED <<now, exists, blocked>>

Lift == /\ exists /\ blocked /\ Due
        /\ ~blocked'
        /\ UNCHANGED <<now, exists>>

Next == Tick \/ Create \/ Latch \/ Postpone \/ Lift

Spec == Init /\ [][Next]_<<now, latch>>
=============================================================================
