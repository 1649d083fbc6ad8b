------------------------------ MODULE Dispatch ------------------------------
(***************************************************************************)
(* How inference requests choose accounts (internal/app/server.go:         *)
(* candidates, inference, retryAccount) and conversations stick to them    *)
(* (internal/app/affinity.go), while users, quota checks and the monitor   *)
(* change the accounts.                                                    *)
(*                                                                         *)
(* A request takes a snapshot of usable accounts and walks through it;     *)
(* every step of the walk that reads or writes an account is one critical  *)
(* section of a.mu, and anything may happen between two of them.  What a   *)
(* quota check or a refresh does inside is AccountStore's subject: here    *)
(* only its result counts.                                                 *)
(***************************************************************************)
EXTENDS Naturals, FiniteSets, Sequences, SequencesExt, FiniteSetsExt

CONSTANTS
    Reqs,        \* goroutines serving inference requests
    Accounts,    \* account objects; their order is the order of their ids
    Priority,    \* a.priority of each
    Sessions,    \* affinity keys; their order is that of the strings
    RoundRobin,  \* routing-strategy: round-robin or fill-first
    Affinity,    \* session-affinity is on
    MaxBindings, \* maxSessionBindings
    TTL,         \* session-affinity-ttl
    Pause,       \* a cooldown: one minute
    Fresh,       \* how long a refreshed session token is good
    Env,         \* what happens around the requests
    Results,     \* how Copilot may answer a request
    MaxPicks,    \* bound: requests in a behaviour
    MaxTime      \* bound: clock

AllEnv == {"users", "delete", "guard", "refresh", "outage", "cancel", "models"}
AllResults == {"ok", "auth", "rate", "server", "client"}

ASSUME DispatchAssumption ==
    /\ Accounts \subseteq Nat /\ IsFiniteSet(Accounts)
    /\ Sessions \subseteq Nat /\ Sessions # {}
    /\ Priority \in [Accounts -> Nat]
    /\ RoundRobin \in BOOLEAN /\ Affinity \in BOOLEAN
    /\ {MaxBindings, TTL, Pause, Fresh, MaxTime} \subseteq Nat \ {0}
    /\ MaxPicks \in Nat
    /\ Env \subseteq AllEnv /\ Results \subseteq AllResults

VARIABLES
    now,       \* coarse clock
    acct,      \* the fields of each account that dispatch looks at
    sequence,  \* s.sequence
    affinity,  \* s.affinity: session |-> binding
    req,       \* each request with its local variables
    limited    \* history: until when Copilot's last 429 asks for a pause

vars == <<now, acct, sequence, affinity, req, limited>>

Account == [off : BOOLEAN, deleted : BOOLEAN, blocked : BOOLEAN,
            cooldown : Nat, kind : {"", "auth", "rate"}, nextRefresh : Nat]

Binding == [id : Accounts, expires : Nat]

PCs == {"idle", "quota", "refresh", "check", "send", "wait"}

\* todo is the rest of the candidates, its head the one at work; first is where
\* the list began.  History: tried holds the accounts the request was sent to, shut
\* those that have been shut ever since it turned to the present candidate.
Req == [pc : PCs, session : Sessions, todo : Seq(Accounts), first : Accounts \cup {0},
        shut : SUBSET Accounts, tried : SUBSET Accounts]

Idle == [pc |-> "idle", session |-> Min(Sessions), todo |-> <<>>, first |-> 0,
         shut |-> {}, tried |-> {}]

Init ==
    /\ now = 1
    /\ acct = [a \in Accounts |->
                 [off |-> FALSE, deleted |-> FALSE, blocked |-> FALSE,
                  cooldown |-> 0, kind |-> "", nextRefresh |-> 0]]
    /\ sequence = 0
    /\ affinity = [s \in {} |-> s]
    /\ req = [p \in Reqs |-> Idle]
    /\ limited = [a \in Accounts |-> 0]

-----------------------------------------------------------------------------
\* What a user or the budget guard can make of an account.
Closed(x) == x.deleted \/ x.off \/ x.blocked

\* Mutant: only deletion is looked at.
ShutIfDeleted(a) == acct[a].deleted

\* The test inference makes twice before it uses an account.
Shut(a) == Closed(acct[a])

Usable == {a \in Accounts : ~Shut(a) /\ now >= acct[a].cooldown}

\* The members of S in the order of a relation: each has as many before it.
Ordered(S, before) ==
    [i \in 1 .. Cardinality(S) |->
       CHOOSE a \in S : Cardinality({b \in S : <<b, a>> \in before}) = i - 1]

\* How many usable accounts have a smaller id.
Ahead(a) == Cardinality({b \in Usable : b < a})

\* The place of a usable account by id, with the first start ones moved behind the
\* others.
Place(a, start) ==
    IF Ahead(a) < start THEN Ahead(a) + Cardinality(Usable) ELSE Ahead(a)

\* Which usable account comes before which: the higher priority, then the place.
Before(start) ==
    {pair \in Usable \X Usable :
       \/ Priority[pair[1]] > Priority[pair[2]]
       \/ /\ Priority[pair[1]] = Priority[pair[2]]
          /\ Place(pair[1], start) < Place(pair[2], start)}

\* Mutant: the rotation counts one account too many.
RankedOffByOne(offset) ==
    LET n == Cardinality(Usable)
    IN Ordered(Usable, Before(IF RoundRobin /\ n # 0 THEN offset % (n + 1) ELSE 0))

\* The usable accounts by id, rotated by the request's number, and then stably
\* sorted by priority.
Ranked(offset) ==
    LET n == Cardinality(Usable)
    IN Ordered(Usable, Before(IF RoundRobin /\ n # 0 THEN offset % n ELSE 0))

Bound(session) == {affinity[s].id : s \in {t \in DOMAIN affinity :
                      t = session /\ affinity[t].expires > now}}

\* Mutant: the bound account is put in front and left where it was.
PromoteCopy(list, session) ==
    IF Affinity /\ Bound(session) \cap Range(list) # {}
    THEN <<Max(Bound(session))>> \o list
    ELSE list

\* The account the conversation is bound to, when it is usable, comes first.
Promote(list, session) ==
    IF Affinity /\ Bound(session) \cap Range(list) # {}
    THEN LET i == CHOOSE i \in DOMAIN list : list[i] \in Bound(session)
         IN <<list[i]>> \o RemoveAt(list, i)
    ELSE list

-----------------------------------------------------------------------------
Live(bindings) == {s \in DOMAIN bindings : bindings[s].expires > now}

\* Mutant: a full table loses somebody on every renewal.
KeptOnRenewal(session) ==
    IF Cardinality(DOMAIN affinity) < MaxBindings THEN DOMAIN affinity
    ELSE Live(affinity) \ {CHOOSE s \in Live(affinity) : \A t \in Live(affinity) : s <= t}

\* Mutant: a full table is not noticed.
KeptUnbounded(session) == DOMAIN affinity

\* The bindings that stay when session is bound.  Only a new session in a full
\* table costs any: the expired ones, and if none has expired the one that
\* expires first, the smaller key on a tie.
Kept(session) ==
    IF session \in DOMAIN affinity \/ Cardinality(DOMAIN affinity) < MaxBindings
    THEN DOMAIN affinity
    ELSE IF Cardinality(Live(affinity)) < MaxBindings THEN Live(affinity)
    ELSE Live(affinity) \
           {CHOOSE s \in Live(affinity) : \A t \in Live(affinity) :
              \/ affinity[s].expires < affinity[t].expires
              \/ affinity[s].expires = affinity[t].expires /\ s <= t}

Bind(session, a) ==
    affinity' = [s \in Kept(session) \cup {session} |->
                   IF s = session THEN [id |-> a, expires |-> now + TTL]
                   ELSE affinity[s]]

Began(session, list) ==
    IF list = <<>> THEN Idle
    ELSE [pc |-> "quota", session |-> session, todo |-> list, first |-> Head(list),
          shut |-> {a \in Accounts : Closed(acct[a])}, tried |-> {}]

\* Mutant: the choice is not remembered before the answer.
BeginUnreserved(p) ==
    /\ req[p].pc = "idle" /\ sequence < MaxPicks
    /\ \E session \in Sessions :
         req' = [req EXCEPT ![p] =
                   Began(session, Promote(Ranked(sequence + 1), session))]
    /\ sequence' = sequence + 1
    /\ UNCHANGED <<now, acct, affinity, limited>>

\* A request takes its list of candidates under s.mu.  A conversation that has no
\* usable binding is bound at once, before anybody has answered.
Begin(p) ==
    /\ req[p].pc = "idle" /\ sequence < MaxPicks
    /\ \E session \in Sessions :
         LET list == Promote(Ranked(sequence + 1), session) IN
         /\ req' = [req EXCEPT ![p] = Began(session, list)]
         /\ IF Affinity /\ list # <<>> /\ Bound(session) \cap Range(list) = {}
            THEN Bind(session, Head(list))
            ELSE UNCHANGED affinity
    /\ sequence' = sequence + 1
    /\ UNCHANGED <<now, acct, limited>>

\* Mutant: a request that may be retried stays with its account.
AdvanceNowhere(r) == [r EXCEPT !.pc = "quota", !.shut = {a \in Accounts : Closed(acct[a])}]

\* On to the next candidate, or to the answer that there is none.
Advance(r) ==
    LET rest == Tail(r.todo) IN
    IF rest = <<>> THEN Idle
    ELSE [r EXCEPT !.pc = "quota", !.todo = rest,
                   !.shut = {a \in Accounts : Closed(acct[a])}]

Goto(p, pc) == req' = [req EXCEPT ![p].pc = pc]
Skip(p) == req' = [req EXCEPT ![p] = Advance(@)]

\* The quota check is over, whatever it found.
AfterQuota(p) ==
    /\ req[p].pc = "quota"
    /\ IF Shut(Head(req[p].todo)) THEN Skip(p) ELSE Goto(p, "refresh")
    /\ UNCHANGED <<now, acct, sequence, affinity, limited>>

\* The end of a refresh.  A new session token ends the pause a refused one began.
Refreshed(a, ok) ==
    LET over == ok /\ acct[a].kind = "auth" IN
    acct' = [acct EXCEPT ![a] =
      [@ EXCEPT !.nextRefresh = now + (IF ok THEN Fresh ELSE Pause),
                !.cooldown = IF over THEN 0 ELSE acct[a].cooldown,
                !.kind = IF over THEN "" ELSE acct[a].kind]]

\* refresh returns at once when the token is not due, also after a failure.
AfterRefresh(p) ==
    /\ req[p].pc = "refresh"
    /\ LET a == Head(req[p].todo) IN
       \/ /\ acct[a].deleted
          /\ Skip(p) /\ UNCHANGED acct
       \/ /\ ~acct[a].deleted /\ now < acct[a].nextRefresh
          /\ Goto(p, "check") /\ UNCHANGED acct
       \/ /\ ~acct[a].deleted /\ now >= acct[a].nextRefresh
          /\ \/ Refreshed(a, TRUE) /\ Goto(p, "check")
             \/ "outage" \in Env /\ Refreshed(a, FALSE) /\ Skip(p)
    /\ UNCHANGED <<now, sequence, affinity, limited>>

\* After catalog, the credential and the models are read together with a second
\* look at the account.
Check(p) ==
    /\ req[p].pc = "check"
    /\ \/ Shut(Head(req[p].todo)) /\ Skip(p)
       \/ "models" \in Env /\ Skip(p)
       \/ ~Shut(Head(req[p].todo)) /\ Goto(p, "send")
    /\ UNCHANGED <<now, acct, sequence, affinity, limited>>

Send(p) ==
    /\ req[p].pc = "send"
    /\ req' = [req EXCEPT ![p].pc = "wait", ![p].tried = @ \cup {Head(req[p].todo)}]
    /\ UNCHANGED <<now, acct, sequence, affinity, limited>>

\* Mutant: the kind of the pause is not noted.
RetryAccountNoKind(a, result) ==
    acct' = [acct EXCEPT ![a] =
      CASE result = "auth" -> [@ EXCEPT !.nextRefresh = 0, !.cooldown = now + Pause,
                                        !.kind = "auth"]
        [] result = "rate" -> [@ EXCEPT !.cooldown = now + Pause]
        [] OTHER -> @]

\* retryAccount: 401 and 403 ask for a new token and a pause, 429 for a pause; a
\* server error leaves the account as it is.
RetryAccount(a, result) ==
    acct' = [acct EXCEPT ![a] =
      CASE result = "auth" -> [@ EXCEPT !.nextRefresh = 0, !.cooldown = now + Pause,
                                        !.kind = "auth"]
        [] result = "rate" -> [@ EXCEPT !.cooldown = now + Pause, !.kind = "rate"]
        [] OTHER -> @]

\* Copilot answers.  Success binds the conversation, a client error is passed on,
\* anything else sends the request to the next candidate.
Reply(p) ==
    /\ req[p].pc = "wait"
    /\ \E result \in Results :
         LET a == Head(req[p].todo) IN
         /\ limited' = IF result = "rate" THEN [limited EXCEPT ![a] = now + Pause]
                       ELSE limited
         /\ IF result = "ok" /\ Affinity THEN Bind(req[p].session, a)
            ELSE UNCHANGED affinity
         /\ IF result \in {"ok", "client"}
            THEN req' = [req EXCEPT ![p] = Idle] /\ UNCHANGED acct
            ELSE RetryAccount(a, result) /\ Skip(p)
    /\ UNCHANGED <<now, sequence>>

\* The client goes away.  inference looks between its steps; a reply that has
\* come in the meantime is dropped with the request.
Cancel(p) ==
    /\ "cancel" \in Env /\ req[p].pc \in {"quota", "check"}
    /\ req' = [req EXCEPT ![p] = Idle]
    /\ UNCHANGED <<now, acct, sequence, affinity, limited>>

-----------------------------------------------------------------------------
\* What a user or the guard makes of an account; requests note when it opens.
Becomes(a, next) ==
    /\ acct' = [acct EXCEPT ![a] = next]
    /\ req' = IF Closed(next) THEN req
              ELSE [p \in Reqs |-> [req[p] EXCEPT !.shut = @ \ {a}]]
    /\ UNCHANGED <<now, sequence, affinity, limited>>

UserToggles(a) == /\ "users" \in Env /\ ~acct[a].deleted
                  /\ Becomes(a, [acct[a] EXCEPT !.off = ~@])

UserDeletes(a) == /\ "delete" \in Env /\ ~acct[a].deleted
                  /\ Becomes(a, [acct[a] EXCEPT !.deleted = TRUE])

\* Somebody's quota check latches or lifts the guard.
GuardMoves(a) == /\ "guard" \in Env /\ ~acct[a].deleted
                 /\ Becomes(a, [acct[a] EXCEPT !.blocked = ~@])

\* The monitor's or the management's refresh ends; the latter may be forced.
Refreshes(a) == /\ "refresh" \in Env /\ ~acct[a].deleted
                /\ \E ok \in {TRUE, "outage" \notin Env} : Refreshed(a, ok)
                /\ UNCHANGED <<now, sequence, affinity, req, limited>>

Tick == /\ now < MaxTime
        /\ now' = now + 1
        /\ UNCHANGED <<acct, sequence, affinity, req, limited>>

-----------------------------------------------------------------------------
Step(p) == \/ AfterQuota(p) \/ AfterRefresh(p) \/ Check(p) \/ Send(p) \/ Reply(p)

Next == \/ \E p \in Reqs : Begin(p) \/ Step(p) \/ Cancel(p)
        \/ \E a \in Accounts : \/ UserToggles(a) \/ UserDeletes(a)
                               \/ GuardMoves(a) \/ Refreshes(a)
        \/ Tick

Spec == Init /\ [][Next]_vars

\* Provider calls time out, and the flights a request waits for land
\* (FlightsLand of AccountStore).
FairSpec == Spec /\ \A p \in Reqs : WF_vars(Step(p))

-----------------------------------------------------------------------------
\* The affinity table keeps to its limit.
TableBounded == Cardinality(DOMAIN affinity) <= MaxBindings

\* Every variable holds what the code's types allow, a request at work has a
\* candidate, and the affinity table keeps to its limit.
TypeOK ==
    /\ now \in 1 .. MaxTime
    /\ acct \in [Accounts -> Account]
    /\ sequence \in 0 .. MaxPicks
    /\ DOMAIN affinity \subseteq Sessions
    /\ TableBounded
    /\ \A s \in DOMAIN affinity : affinity[s] \in Binding
    /\ \A p \in Reqs : /\ req[p] \in Req
                        /\ req[p].pc # "idle" => req[p].todo # <<>>
    /\ limited \in [Accounts -> Nat]

\* A request goes to each account at most once: whatever is ahead of it on its list
\* is new, however the list was rotated, sorted and promoted.
NoRepeat ==
    \A p \in Reqs :
      /\ IsInjective(req[p].todo)
      /\ \A i \in DOMAIN req[p].todo :
           req[p].todo[i] \in req[p].tried => i = 1 /\ req[p].pc = "wait"

\* A request is never sent to an account that has been disabled, deleted or blocked
\* by the budget guard ever since the request turned to it.
NeverServedWhileShut ==
    \A p \in Reqs : req[p].pc = "wait" => Head(req[p].todo) \notin req[p].shut

\* A conversation loses a binding that has not expired only to a new conversation
\* in a table full of live ones, and only if its own expires first.
LiveBindingsSurvive ==
    [][\A s \in Live(affinity) \ DOMAIN affinity' :
         /\ Cardinality(Live(affinity)) = MaxBindings
         /\ DOMAIN affinity' \ DOMAIN affinity # {}
         /\ \A t \in Live(affinity) : affinity[s].expires <= affinity[t].expires]_vars

\* Overlapping requests of one conversation all start with the same account, the
\* first ones included, which find no binding yet.  Only a lost binding excuses
\* another: expired, given up by a full table, or to an account that is closed.
OneAccountPerConversation ==
    /\ now <= TTL /\ Cardinality(DOMAIN affinity) < MaxBindings
    /\ Usable = Accounts
    => \A p, q \in Reqs :
         /\ req[p].pc # "idle" /\ req[q].pc # "idle"
         /\ req[p].session = req[q].session
         => req[p].first = req[q].first

\* Accounts of the highest priority among the usable ones.
Top == {a \in Usable : \A b \in Usable : Priority[b] <= Priority[a]}

\* Round robin shares the load: in as many requests as make up full turns, every
\* account of the top priority comes first equally often.
RoundRobinShares ==
    RoundRobin /\ Usable # {} =>
      LET n == Cardinality(Usable) IN
      \A a \in Top :
        Cardinality({k \in 1 .. n * Cardinality(Top) :
                       Head(Ranked(sequence + k)) = a}) = n

\* No request chooses among accounts one that Copilot has asked to pause.
RateLimitRespected ==
    [][\A p \in Reqs :
         req[p].pc = "idle" /\ req'[p].pc # "idle" =>
           \A a \in Range(req'[p].todo) : now >= limited[a]]_vars

\* Every request is answered.
Answered == \A p \in Reqs : req[p].pc # "idle" ~> req[p].pc = "idle"
=============================================================================
