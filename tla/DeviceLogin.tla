---------------------------- MODULE DeviceLogin ----------------------------
(***************************************************************************)
(* GitHub's device authorization (internal/copilot/auth.go): sessions that *)
(* one request starts and any number of others poll, at the same time, to  *)
(* their end.                                                              *)
(*                                                                         *)
(* A poll looks its session up under s.mu and works on it under the mutex  *)
(* of the session, which it drops while it waits for GitHub.  Expiry is    *)
(* noticed by polls and by starts, who remove and clear sessions that      *)
(* others may still work on.  A secret is either there or not.             *)
(***************************************************************************)
EXTENDS Naturals, FiniteSets

CONSTANTS
    Procs,        \* goroutines serving login requests
    MaxSessions,  \* sessions that may be pending (256 in the code)
    Lifetime,     \* expires_in of a device code
    Intervals,    \* seconds between polls that GitHub may ask for
    MaxStarts,    \* bound: sessions started
    MaxTime       \* bound: clock

ASSUME LoginAssumption ==
    /\ {MaxSessions, Lifetime} \subseteq Nat \ {0}
    /\ Intervals \subseteq Nat \ {0}
    /\ {MaxStarts, MaxTime} \subseteq Nat
    /\ IsFiniteSet(Procs)

VARIABLES
    now,      \* coarse clock
    started,  \* how many sessions there have been
    session,  \* the loginSession objects, by order of creation
    table,    \* s.sessions
    op,       \* what each goroutine is doing, with its local variables
    asked,    \* history: when each device code was last presented to GitHub
    won       \* history: how often each session has produced an account

vars == <<now, started, session, table, op, asked, won>>

Ids == 1 .. MaxStarts

Session == [code : BOOLEAN, token : BOOLEAN, phase : {"waiting", "exchanging"},
            polling : BOOLEAN, interval : Intervals \cup {0}, nextPoll : Nat,
            expires : Nat]
Blank == [code |-> FALSE, token |-> FALSE, phase |-> "waiting", polling |-> FALSE,
          interval |-> 0, nextPoll |-> 0, expires |-> 0]

PCs == {"idle", "insert", "look", "ask", "tokenReply", "complete",
        "exchangeReply", "drop", "clear", "land"}

\* at is the time the request has read, as long as it matters; mine, that it has
\* set polling; sent, that it has presented a device code; todo the sessions to
\* clear, then what comes after.
Op == [pc : PCs, obj : 0 .. MaxStarts, at : Nat, mine : BOOLEAN, sent : BOOLEAN,
       todo : SUBSET Ids, then : PCs]
Idle == [pc |-> "idle", obj |-> 0, at |-> 0, mine |-> FALSE, sent |-> FALSE,
         todo |-> {}, then |-> "idle"]

Init ==
    /\ now = 1
    /\ started = 0
    /\ session = [s \in Ids |-> Blank]
    /\ table = {}
    /\ op = [p \in Procs |-> Idle]
    /\ asked = [s \in Ids |-> 0]
    /\ won = [s \in Ids |-> 0]

-----------------------------------------------------------------------------
Goto(p, pc) == op' = [op EXCEPT ![p].pc = pc]
Return(p) == op' = [op EXCEPT ![p] = Idle]

\* The sessions in todo are to be cleared before the goroutine goes on.
Clearing(r, todo, then) ==
    IF todo = {} THEN [r EXCEPT !.pc = then, !.todo = {}, !.then = "idle"]
    ELSE [r EXCEPT !.pc = "clear", !.todo = todo, !.then = then]

Inserting == {p \in Procs : "insert" \in {op[p].pc, op[p].then}}

HasRoom(rest) == Cardinality(rest) < MaxSessions

\* reserveLoginSessionCapacity, when GitHub has given out a device code: expired
\* sessions leave the table, to be cleared when s.mu is released, and if there is
\* room the new one will be inserted, under s.mu again.
Reserve(p) ==
    /\ op[p].pc = "idle"
    /\ started + Cardinality(Inserting) < MaxStarts
    /\ LET expired == {s \in table : now >= session[s].expires}
           rest == table \ expired
       IN /\ table' = rest
          /\ op' = [op EXCEPT ![p] =
                      Clearing([Idle EXCEPT !.at = now], expired,
                               IF HasRoom(rest) THEN "insert" ELSE "idle")]
    /\ UNCHANGED <<now, started, session, asked, won>>

Insert(p) ==
    /\ op[p].pc = "insert"
    /\ \E interval \in Intervals :
         session' = [session EXCEPT ![started + 1] =
           [Blank EXCEPT !.code = TRUE, !.interval = interval,
                         !.nextPoll = op[p].at + interval,
                         !.expires = op[p].at + Lifetime]]
    /\ started' = started + 1
    /\ table' = table \cup {started + 1}
    /\ Return(p)
    /\ UNCHANGED <<now, asked, won>>

\* Mutant: the token is kept.
ClearCodeOnly(p) ==
    /\ op[p].pc = "clear"
    /\ \E s \in op[p].todo :
         /\ session' = [session EXCEPT ![s].code = FALSE]
         /\ op' = [op EXCEPT ![p] = Clearing(@, op[p].todo \ {s}, op[p].then)]
    /\ UNCHANGED <<now, started, table, asked, won>>

\* clearLoginSessionSecrets, one session after the other.
Clear(p) ==
    /\ op[p].pc = "clear"
    /\ \E s \in op[p].todo :
         /\ session' = [session EXCEPT ![s].code = FALSE, ![s].token = FALSE]
         /\ op' = [op EXCEPT ![p] = Clearing(@, op[p].todo \ {s}, op[p].then)]
    /\ UNCHANGED <<now, started, table, asked, won>>

-----------------------------------------------------------------------------
\* pollLoginRequest: the lookup under s.mu, and the clock is read.
Lookup(p) ==
    /\ op[p].pc = "idle"
    /\ \E s \in table :
         op' = [op EXCEPT ![p] = [Idle EXCEPT !.pc = "look", !.obj = s, !.at = now]]
    /\ UNCHANGED <<now, started, session, table, asked, won>>

\* Mutants: another poll that is under way is not waited for; the interval is not.
MayPollTwice(s, t) == t >= session[s].nextPoll
MayPollEarly(s, t) == ~session[s].polling
MayPoll(s, t) == ~session[s].polling /\ t >= session[s].nextPoll

\* Under the mutex of the session: it is removed when it has expired, left alone
\* when it is polled already or not due, and polled otherwise.
Look(p) ==
    /\ op[p].pc = "look"
    /\ LET s == op[p].obj IN
       \/ /\ op[p].at >= session[s].expires
          /\ op' = [op EXCEPT ![p].pc = "drop", ![p].at = 0]
          /\ UNCHANGED session
       \/ /\ op[p].at < session[s].expires
          /\ ~MayPoll(s, op[p].at)
          /\ Return(p)
          /\ UNCHANGED session
       \/ /\ op[p].at < session[s].expires
          /\ MayPoll(s, op[p].at)
          /\ session' = [session EXCEPT ![s].polling = TRUE]
          /\ op' = [op EXCEPT ![p].mine = TRUE, ![p].at = 0,
                      ![p].pc = IF session[s].phase = "waiting" THEN "ask"
                                ELSE "complete"]
    /\ UNCHANGED <<now, started, table, asked, won>>

\* pollGitHubToken reads the device code without the mutex.  A goroutine that
\* clears the session meanwhile may tear the read, which ends in a panic that the
\* HTTP server recovers from.
Ask(p) ==
    /\ op[p].pc = "ask"
    /\ LET s == op[p].obj IN
       \/ /\ op' = [op EXCEPT ![p].pc = "tokenReply", ![p].sent = session[s].code]
          /\ asked' = IF session[s].code THEN [asked EXCEPT ![s] = now] ELSE asked
       \/ /\ \E q \in Procs : op[q].pc = "clear" /\ s \in op[q].todo
          /\ session[s].code
          /\ Goto(p, "land")
          /\ UNCHANGED asked
    /\ UNCHANGED <<now, started, session, table, won>>

\* reschedule.
Rescheduled(s, interval) ==
    [session EXCEPT ![s].interval = interval, ![s].nextPoll = now + interval]

\* GitHub has granted the token, asks to wait or to slow down (from then on the
\* interval is the one it names), failed for the moment, or refused.  A poll that
\* could not present a device code gets no token.
TokenReply(p) ==
    /\ op[p].pc = "tokenReply"
    /\ LET s == op[p].obj IN
       \/ /\ op[p].sent
          /\ session' = [session EXCEPT ![s].token = TRUE, ![s].code = FALSE,
                                        ![s].phase = "exchanging"]
          /\ Goto(p, "complete")
       \/ /\ \E interval \in Intervals :
               /\ interval # session[s].interval => op[p].sent
               /\ session' = Rescheduled(s, interval)
          /\ Goto(p, "land")
       \/ Goto(p, "drop") /\ UNCHANGED session
    /\ UNCHANGED <<now, started, table, asked, won>>

\* completeLogin reads the token under the mutex; without one it fails for good.
Complete(p) ==
    /\ op[p].pc = "complete"
    /\ Goto(p, IF session[op[p].obj].token THEN "exchangeReply" ELSE "drop")
    /\ UNCHANGED <<now, started, session, table, asked, won>>

\* The exchange and the models arrive, may be tried again, or are refused.
ExchangeReply(p) ==
    /\ op[p].pc = "exchangeReply"
    /\ LET s == op[p].obj IN
       \/ /\ won' = [won EXCEPT ![s] = @ + 1]
          /\ Goto(p, "drop")
          /\ UNCHANGED session
       \/ /\ session' = Rescheduled(s, session[s].interval)
          /\ Goto(p, "land")
          /\ UNCHANGED won
       \/ /\ Goto(p, "drop")
          /\ UNCHANGED <<session, won>>
    /\ UNCHANGED <<now, started, table, asked>>

\* Mutant: the session is not cleared.
DropUncleared(p) ==
    /\ op[p].pc = "drop"
    /\ table' = table \ {op[p].obj}
    /\ Goto(p, IF op[p].mine THEN "land" ELSE "idle")
    /\ UNCHANGED <<now, started, session, asked, won>>

\* deleteSession: the session leaves the table under s.mu and is cleared when it
\* was still there; the deferred reset of polling comes last.
Drop(p) ==
    /\ op[p].pc = "drop"
    /\ table' = table \ {op[p].obj}
    /\ op' = [op EXCEPT ![p] = Clearing(@, {op[p].obj} \cap table,
                                        IF op[p].mine THEN "land" ELSE "idle")]
    /\ UNCHANGED <<now, started, session, asked, won>>

Land(p) ==
    /\ op[p].pc = "land"
    /\ session' = [session EXCEPT ![op[p].obj].polling = FALSE]
    /\ Return(p)
    /\ UNCHANGED <<now, started, table, asked, won>>

Tick == /\ now < MaxTime
        /\ now' = now + 1
        /\ UNCHANGED <<started, session, table, op, asked, won>>

Step(p) == \/ Insert(p) \/ Clear(p) \/ Look(p) \/ Ask(p) \/ TokenReply(p)
           \/ Complete(p) \/ ExchangeReply(p) \/ Drop(p) \/ Land(p)

Next == \/ \E p \in Procs : Reserve(p) \/ Lookup(p) \/ Step(p)
        \/ Tick

Spec == Init /\ [][Next]_vars

-----------------------------------------------------------------------------
TypeOK ==
    /\ now \in Nat
    /\ started \in 0 .. MaxStarts
    /\ session \in [Ids -> Session]
    /\ table \subseteq 1 .. started
    /\ op \in [Procs -> Op]
    /\ asked \in [Ids -> Nat]
    /\ won \in [Ids -> Nat]

\* polling is up exactly while one request is at work on the session, so GitHub
\* never gets two polls of one device code at a time and no session is left that
\* every poll finds busy.
PollHasOwner ==
    \A s \in 1 .. started :
      LET at == {p \in Procs : op[p].mine /\ op[p].obj = s} IN
      Cardinality(at) = IF session[s].polling THEN 1 ELSE 0

\* Until it expires, a session produces one account at most, however many polls
\* have found it before it left the table.
OneAccountPerLogin ==
    \A s \in 1 .. started : won[s] > 1 => now >= session[s].expires

\* A session that has left the table before it expired holds no secret once its
\* requests are through, although they may have put one there after it left.
SecretsGo ==
    \A s \in (1 .. started) \ table :
      \/ session[s].code \/ session[s].token
      => \/ now >= session[s].expires
         \/ \E p \in Procs : op[p].obj = s /\ op[p].pc # "idle"

\* Until it expires, the device code is never presented again before the interval
\* has passed that GitHub asked for last, whichever requests present it.
GitHubNotHurried ==
    [][\A p \in Procs :
         LET s == op[p].obj IN
         op[p].pc = "ask" /\ op'[p].sent /\ asked[s] # 0 /\ now < session[s].expires =>
           now >= asked[s] + session[s].interval]_vars

\* The table exceeds its limit by no more than the starts that can overlap: the
\* room is looked for in one critical section and used in another.
TableNearlyBounded ==
    Cardinality(table) < MaxSessions + Cardinality(Procs)
=============================================================================
