--------------------------- MODULE DispatchProofs ---------------------------
(***************************************************************************)
(* Proofs about Dispatch, for any number of requests, accounts and         *)
(* sessions: no request is sent to an account that was shut all along or   *)
(* twice to the same one, the affinity table keeps to its limit and gives  *)
(* up only what expires first, and, each where its hypothesis says, round  *)
(* robin shares equally, pauses are respected and conversations do not fan *)
(* out.                                                                    *)
(***************************************************************************)
EXTENDS Dispatch, FiniteSetTheorems, SequenceTheorems, WellFoundedInduction, TLAPS

-----------------------------------------------------------------------------
\* The affinity table.

\* Bindings expire at some time, and there are finitely many.
TableInv ==
    /\ now \in Nat
    /\ DOMAIN affinity \subseteq Sessions
    /\ \A s \in DOMAIN affinity : affinity[s].expires \in Nat
    /\ IsFiniteSet(DOMAIN affinity)
    /\ TableBounded

LEMMA NatHasLeast ==
    ASSUME NEW S \in SUBSET Nat, S # {}
    PROVE  \E x \in S : \A y \in S : x <= y
  <1> DEFINE R == OpToRel(<, Nat)
  <1>1. IsWellFoundedOn(R, Nat)
    BY NatLessThanWellFounded
  <1>2. \A x, y \in Nat : y < x => <<y, x>> \in R
    BY DEF OpToRel
  <1> HIDE DEF R
  <1>3. PICK x \in S : \A y \in S : ~(<<y, x>> \in R)
    BY <1>1, WFMin
  <1>4. ASSUME NEW y \in S PROVE x <= y
    <2>1. x \in Nat /\ y \in Nat
      OBVIOUS
    <2>2. ~(y < x)
      BY <1>2, <1>3, <2>1
    <2>3. QED
      BY <2>1, <2>2
  <1>5. QED
    BY <1>4

\* The binding a full table gives up exists: among those that expire first there
\* is one with the smallest key.
LEMMA VictimExists ==
    ASSUME TableInv, Live(affinity) # {}
    PROVE  \E s \in Live(affinity) : \A t \in Live(affinity) :
             \/ affinity[s].expires < affinity[t].expires
             \/ affinity[s].expires = affinity[t].expires /\ s <= t
  <1> DEFINE Times == {affinity[s].expires : s \in Live(affinity)}
  <1>1. \A s \in Live(affinity) : s \in Nat /\ affinity[s].expires \in Nat
    BY DispatchAssumption DEF Live, TableInv
  <1>2. PICK e \in Times : \A f \in Times : e <= f
    <2>1. Times \in SUBSET Nat /\ Times # {}
      BY <1>1
    <2> HIDE DEF Times
    <2>2. QED
      BY <2>1, NatHasLeast
  <1> DEFINE First == {s \in Live(affinity) : affinity[s].expires = e}
  <1>3. PICK s \in First : \A t \in First : s <= t
    <2>1. First \in SUBSET Nat /\ First # {}
      BY <1>1, <1>2
    <2> HIDE DEF First
    <2>2. QED
      BY <2>1, NatHasLeast
  <1>4. ASSUME NEW t \in Live(affinity)
        PROVE  \/ affinity[s].expires < affinity[t].expires
               \/ affinity[s].expires = affinity[t].expires /\ s <= t
    <2>1. e <= affinity[t].expires /\ e \in Nat /\ affinity[t].expires \in Nat
      BY <1>1, <1>2
    <2>2. CASE affinity[t].expires = e
      BY <1>3, <2>2
    <2>3. CASE affinity[t].expires # e
      BY <1>3, <2>1, <2>3
    <2>4. QED
      BY <2>2, <2>3
  <1>5. QED
    BY <1>3, <1>4

\* What is kept leaves room for the session.
LEMMA KeptLeavesRoom ==
    ASSUME TableInv, NEW session \in Sessions
    PROVE  /\ Kept(session) \subseteq DOMAIN affinity
           /\ IsFiniteSet(Kept(session) \cup {session})
           /\ Cardinality(Kept(session) \cup {session}) <= MaxBindings
  <1>1. MaxBindings \in Nat \ {0}
    BY DispatchAssumption
  <1>2. IsFiniteSet(DOMAIN affinity) /\ Cardinality(DOMAIN affinity) <= MaxBindings
        /\ Cardinality(DOMAIN affinity) \in Nat
    BY FS_CardinalityType DEF TableInv, TableBounded
  <1>3. ASSUME NEW K \in SUBSET DOMAIN affinity,
               Cardinality(K) < MaxBindings \/ (session \in K)
        PROVE  /\ IsFiniteSet(K \cup {session})
               /\ Cardinality(K \cup {session}) <= MaxBindings
    <2>1. IsFiniteSet(K) /\ Cardinality(K) <= Cardinality(DOMAIN affinity)
      BY <1>2, FS_Subset
    <2>2. Cardinality(K) \in Nat
      BY <2>1, FS_CardinalityType
    <2>3. /\ IsFiniteSet(K \cup {session})
          /\ Cardinality(K \cup {session}) =
               IF session \in K THEN Cardinality(K) ELSE Cardinality(K) + 1
      BY <2>1, FS_AddElement
    <2>4. QED
      BY <1>1, <1>2, <1>3, <2>1, <2>2, <2>3
  <1>4. CASE session \in DOMAIN affinity \/ Cardinality(DOMAIN affinity) < MaxBindings
    <2>1. Kept(session) = DOMAIN affinity
      BY <1>4 DEF Kept
    <2>2. QED
      BY <1>3, <1>4, <2>1
  <1>5. CASE ~(session \in DOMAIN affinity \/ Cardinality(DOMAIN affinity) < MaxBindings)
    <2>1. Live(affinity) \subseteq DOMAIN affinity
      BY DEF Live
    <2>2. CASE Cardinality(Live(affinity)) < MaxBindings
      <3>1. Kept(session) = Live(affinity)
        BY <1>5, <2>2 DEF Kept
      <3>2. QED
        BY <1>3, <2>1, <2>2, <3>1
    <2>3. CASE ~(Cardinality(Live(affinity)) < MaxBindings)
      <3> DEFINE victim == CHOOSE s \in Live(affinity) : \A t \in Live(affinity) :
                             \/ affinity[s].expires < affinity[t].expires
                             \/ affinity[s].expires = affinity[t].expires /\ s <= t
      <3>1. Kept(session) = Live(affinity) \ {victim}
        BY <1>5, <2>3 DEF Kept
      <3>2. IsFiniteSet(Live(affinity)) /\ Cardinality(Live(affinity)) \in Nat
            /\ Cardinality(Live(affinity)) <= MaxBindings
        BY <1>1, <1>2, <2>1, FS_Subset, FS_CardinalityType
      <3>3. Live(affinity) # {}
        BY <1>1, <2>3, FS_EmptySet
      <3>4. victim \in Live(affinity)
        BY <3>3, VictimExists
      <3> HIDE DEF victim
      <3>5. Cardinality(Live(affinity) \ {victim}) < MaxBindings
        <4>1. Cardinality(Live(affinity) \ {victim}) = Cardinality(Live(affinity)) - 1
          BY <3>2, <3>4, FS_RemoveElement
        <4>2. QED
          BY <1>1, <3>2, <4>1
      <3>6. QED
        BY <1>3, <2>1, <3>1, <3>5
    <2>4. QED
      BY <2>2, <2>3
  <1>6. QED
    BY <1>4, <1>5

LEMMA BindKeepsTable ==
    ASSUME TableInv, NEW session \in Sessions, NEW a, Bind(session, a), now' = now
    PROVE  TableInv'
  <1> DEFINE K == Kept(session) \cup {session}
  <1>1. /\ K \subseteq DOMAIN affinity \cup {session}
        /\ IsFiniteSet(K) /\ Cardinality(K) <= MaxBindings
    BY KeptLeavesRoom
  <1>2. affinity' = [s \in K |-> IF s = session THEN [id |-> a, expires |-> now + TTL]
                                ELSE affinity[s]]
    BY DEF Bind
  <1> HIDE DEF K
  <1>3. DOMAIN affinity' = K
    BY <1>2
  <1>4. \A s \in K : affinity'[s].expires \in Nat
    BY <1>1, <1>2, DispatchAssumption DEF TableInv
  <1>5. QED
    BY <1>1, <1>3, <1>4 DEF TableInv, TableBounded

LEMMA TableStays ==
    ASSUME TableInv, affinity' = affinity, now' \in Nat
    PROVE  TableInv'
  BY DEF TableInv, TableBounded

-----------------------------------------------------------------------------
\* The walk.

ClosedNow == {a \in Accounts : Closed(acct[a])}

\* A request at work has a session; what it holds for shut is closed, and the
\* account it is about to ask, or waits for, is not among it.
IsReq(r) == r = [pc |-> r.pc, session |-> r.session, todo |-> r.todo,
                 first |-> r.first, shut |-> r.shut, tried |-> r.tried]

Sound(r, closed) ==
    /\ IsReq(r)
    /\ r.pc # "idle" => r.session \in Sessions
    /\ r.shut \subseteq closed
    /\ r.pc \in {"send", "wait"} => Head(r.todo) \notin r.shut

DispatchInv ==
    /\ TableInv
    /\ acct \in [Accounts -> Account]
    /\ req = [p \in Reqs |-> req[p]]
    /\ \A p \in Reqs : Sound(req[p], ClosedNow)

LEMMA IdleSound ==
    ASSUME NEW closed
    PROVE  Sound(Idle, closed)
  BY DEF Sound, IsReq, Idle

LEMMA BeganSound ==
    ASSUME NEW session \in Sessions, NEW list
    PROVE  Sound(Began(session, list), ClosedNow)
  <1>1. CASE list = <<>>
    BY <1>1, IdleSound DEF Began
  <1>2. CASE list # <<>>
    BY <1>2 DEF Began, Sound, IsReq, ClosedNow
  <1>3. QED
    BY <1>1, <1>2

LEMMA AdvanceSound ==
    ASSUME NEW r, NEW closed, Sound(r, closed), r.pc # "idle"
    PROVE  Sound(Advance(r), ClosedNow)
  <1>1. CASE Tail(r.todo) = <<>>
    BY <1>1, IdleSound DEF Advance
  <1>2. CASE Tail(r.todo) # <<>>
    <2>1. Advance(r) = [pc |-> "quota", session |-> r.session, todo |-> Tail(r.todo),
                        first |-> r.first, shut |-> ClosedNow, tried |-> r.tried]
      BY <1>2 DEF Advance, Sound, IsReq, ClosedNow
    <2>2. r.session \in Sessions
      BY DEF Sound
    <2>3. QED
      BY <2>1, <2>2 DEF Sound, IsReq
  <1>3. QED
    BY <1>1, <1>2

\* One request moves on; others stay where they are.
LEMMA MoveStep ==
    ASSUME DispatchInv, NEW p \in Reqs, NEW r, req' = [req EXCEPT ![p] = r],
           Sound(r, ClosedNow), ClosedNow' = ClosedNow,
           acct' \in [Accounts -> Account], TableInv'
    PROVE  DispatchInv'
  <1>1. \A q \in Reqs : req'[q] = IF q = p THEN r ELSE req[q]
    BY DEF DispatchInv
  <1>2. req' = [q \in Reqs |-> req'[q]]
    BY DEF DispatchInv
  <1>3. \A q \in Reqs : Sound(req'[q], ClosedNow)
    BY <1>1 DEF DispatchInv
  <1>4. QED
    BY <1>2, <1>3 DEF DispatchInv

LEMMA SameAccounts ==
    ASSUME DispatchInv, acct' = acct
    PROVE  ClosedNow' = ClosedNow /\ acct' \in [Accounts -> Account]
  BY DEF ClosedNow, DispatchInv

\* A refresh, and an answer of Copilot, closes and opens no account.
LEMMA PausesCloseNothing ==
    ASSUME DispatchInv, NEW a, NEW cooldown \in Nat, NEW kind \in {"", "auth", "rate"},
           NEW nextRefresh \in Nat,
           acct' = [acct EXCEPT ![a] = [acct[a] EXCEPT !.nextRefresh = nextRefresh,
                                           !.cooldown = cooldown, !.kind = kind]]
    PROVE  ClosedNow' = ClosedNow /\ acct' \in [Accounts -> Account]
  <1>1. acct \in [Accounts -> Account]
    BY DEF DispatchInv
  <1>2. CASE a \notin Accounts
    <2>1. acct' = acct
      BY <1>1, <1>2
    <2>2. QED
      BY <2>1, SameAccounts
  <1>3. CASE a \in Accounts
    <2> DEFINE x == [acct[a] EXCEPT !.nextRefresh = nextRefresh,
                                    !.cooldown = cooldown, !.kind = kind]
    <2>1. acct[a] \in Account
      BY <1>1, <1>3
    <2>2. x \in Account /\ Closed(x) = Closed(acct[a])
      BY <2>1 DEF Account, Closed
    <2>3. acct' = [acct EXCEPT ![a] = x]
      OBVIOUS
    <2> HIDE DEF x
    <2>4. \A b \in Accounts : acct'[b] = IF b = a THEN x ELSE acct[b]
      BY <1>1, <2>3
    <2>5. \A b \in Accounts : Closed(acct'[b]) = Closed(acct[b])
      BY <2>2, <2>4
    <2>6. acct' \in [Accounts -> Account]
      BY <1>1, <2>2, <2>3
    <2>7. ClosedNow' = {b \in Accounts : Closed(acct'[b])}
      BY DEF ClosedNow, Closed
    <2>8. QED
      BY <2>5, <2>6, <2>7 DEF ClosedNow
  <1>4. QED
    BY <1>2, <1>3

-----------------------------------------------------------------------------
LEMMA BeginStep ==
    ASSUME DispatchInv, NEW p \in Reqs, Begin(p)
    PROVE  DispatchInv'
  <1>1. PICK session \in Sessions :
          LET list == Promote(Ranked(sequence + 1), session) IN
          /\ req' = [req EXCEPT ![p] = Began(session, list)]
          /\ Bind(session, Head(list)) \/ affinity' = affinity
    BY DEF Begin
  <1> DEFINE list == Promote(Ranked(sequence + 1), session)
             r == Began(session, list)
  <1>2. req' = [req EXCEPT ![p] = r]
    BY <1>1
  <1>3. Sound(r, ClosedNow)
    BY BeganSound
  <1>4. Bind(session, Head(list)) \/ affinity' = affinity
    BY <1>1
  <1>5. now' = now /\ acct' = acct /\ now \in Nat
    BY DEF Begin, DispatchInv, TableInv
  <1> HIDE DEF list, r
  <1>6. TableInv'
    BY <1>4, <1>5, BindKeepsTable, TableStays DEF DispatchInv
  <1>7. QED
    BY <1>2, <1>3, <1>5, <1>6, SameAccounts, MoveStep

\* A step that leaves the clock, the accounts and the table alone.
LEMMA WalkStep ==
    ASSUME DispatchInv, NEW p \in Reqs, NEW r, req' = [req EXCEPT ![p] = r],
           Sound(r, ClosedNow), now' = now, acct' = acct, affinity' = affinity
    PROVE  DispatchInv'
  <1>1. TableInv'
    BY TableStays DEF DispatchInv, TableInv
  <1>2. QED
    BY <1>1, SameAccounts, MoveStep

\* Moving to a place that is neither before nor after the sending.
LEMMA GotoSound ==
    ASSUME NEW r, NEW closed, NEW pc \in {"refresh", "check"}, Sound(r, closed),
           r.pc # "idle"
    PROVE  Sound([r EXCEPT !.pc = pc], closed)
  <1>1. [r EXCEPT !.pc = pc] = [pc |-> pc, session |-> r.session, todo |-> r.todo,
                                first |-> r.first, shut |-> r.shut, tried |-> r.tried]
    BY DEF Sound, IsReq
  <1>2. QED
    BY <1>1 DEF Sound, IsReq

LEMMA GotoIs ==
    ASSUME DispatchInv, NEW p \in Reqs, NEW pc, Goto(p, pc)
    PROVE  req' = [req EXCEPT ![p] = [req[p] EXCEPT !.pc = pc]]
  BY DEF Goto

LEMMA SkipIs ==
    ASSUME DispatchInv, NEW p \in Reqs, Skip(p)
    PROVE  req' = [req EXCEPT ![p] = Advance(req[p])]
  BY DEF Skip, DispatchInv

LEMMA AfterQuotaStep ==
    ASSUME DispatchInv, NEW p \in Reqs, AfterQuota(p)
    PROVE  DispatchInv'
  <1>1. Sound(req[p], ClosedNow) /\ req[p].pc # "idle"
    BY DEF DispatchInv, AfterQuota
  <1>2. now' = now /\ acct' = acct /\ affinity' = affinity
    BY DEF AfterQuota
  <1>3. CASE Skip(p)
    BY <1>1, <1>2, <1>3, SkipIs, AdvanceSound, WalkStep
  <1>4. CASE Goto(p, "refresh")
    BY <1>1, <1>2, <1>4, GotoIs, GotoSound, WalkStep
  <1>5. QED
    BY <1>3, <1>4 DEF AfterQuota

\* A request is sent to an account that has just been found open.
LEMMA CheckStep ==
    ASSUME DispatchInv, NEW p \in Reqs, Check(p)
    PROVE  DispatchInv'
  <1>1. Sound(req[p], ClosedNow) /\ req[p].pc # "idle"
    BY DEF DispatchInv, Check
  <1>2. now' = now /\ acct' = acct /\ affinity' = affinity
    BY DEF Check
  <1>3. CASE Skip(p)
    BY <1>1, <1>2, <1>3, SkipIs, AdvanceSound, WalkStep
  <1>4. CASE ~Shut(Head(req[p].todo)) /\ Goto(p, "send")
    <2>1. Head(req[p].todo) \notin ClosedNow
      BY <1>4 DEF Shut, ClosedNow
    <2>2. [req[p] EXCEPT !.pc = "send"] =
            [pc |-> "send", session |-> req[p].session, todo |-> req[p].todo,
             first |-> req[p].first, shut |-> req[p].shut, tried |-> req[p].tried]
      BY <1>1 DEF Sound, IsReq
    <2>3. Sound([req[p] EXCEPT !.pc = "send"], ClosedNow)
      BY <1>1, <2>1, <2>2 DEF Sound, IsReq
    <2>4. QED
      BY <1>2, <1>4, <2>3, GotoIs, WalkStep
  <1>5. QED
    BY <1>3, <1>4 DEF Check

LEMMA SendSound ==
    ASSUME NEW r, NEW closed, NEW tried, Sound(r, closed), r.pc = "send"
    PROVE  Sound([r EXCEPT !.pc = "wait", !.tried = tried], closed)
  <1> DEFINE x == [r EXCEPT !.pc = "wait"]
             y == [x EXCEPT !.tried = tried]
  <1>1. x = [pc |-> "wait", session |-> r.session, todo |-> r.todo,
             first |-> r.first, shut |-> r.shut, tried |-> r.tried]
    BY DEF Sound, IsReq
  <1>2. [r EXCEPT !.pc = "wait", !.tried = tried] = y
    OBVIOUS
  <1>3. y = [pc |-> "wait", session |-> r.session, todo |-> r.todo,
             first |-> r.first, shut |-> r.shut, tried |-> tried]
    <2> HIDE DEF x
    <2>1. QED
      BY <1>1
  <1> HIDE DEF x, y
  <1>4. QED
    BY <1>2, <1>3 DEF Sound, IsReq

LEMMA SendStep ==
    ASSUME DispatchInv, NEW p \in Reqs, Send(p)
    PROVE  DispatchInv'
  <1>1. Sound(req[p], ClosedNow) /\ req[p].pc = "send"
    BY DEF DispatchInv, Send
  <1>2. now' = now /\ acct' = acct /\ affinity' = affinity
    BY DEF Send
  <1> DEFINE tried == req[p].tried \cup {Head(req[p].todo)}
  <1>3. req' = [req EXCEPT ![p] = [req[p] EXCEPT !.pc = "wait", !.tried = tried]]
    BY DEF Send
  <1> HIDE DEF tried
  <1>4. QED
    BY <1>1, <1>2, <1>3, SendSound, WalkStep

LEMMA CancelStep ==
    ASSUME DispatchInv, NEW p \in Reqs, Cancel(p)
    PROVE  DispatchInv'
  BY IdleSound, WalkStep DEF Cancel

-----------------------------------------------------------------------------
\* What the accounts' other fields may become.
LEMMA RefreshedKeeps ==
    ASSUME DispatchInv, NEW a, NEW ok \in BOOLEAN, Refreshed(a, ok)
    PROVE  ClosedNow' = ClosedNow /\ acct' \in [Accounts -> Account]
  <1>1. acct \in [Accounts -> Account]
    BY DEF DispatchInv
  <1>2. CASE a \notin Accounts
    <2>1. acct' = acct
      BY <1>1, <1>2 DEF Refreshed
    <2>2. QED
      BY <2>1, SameAccounts
  <1>3. CASE a \in Accounts
    <2>1. acct[a] \in Account /\ acct[a].cooldown \in Nat
          /\ acct[a].kind \in {"", "auth", "rate"}
      BY <1>1, <1>3 DEF Account
    <2> DEFINE over == ok /\ acct[a].kind = "auth"
               next == now + (IF ok THEN Fresh ELSE Pause)
               cooldown == IF over THEN 0 ELSE acct[a].cooldown
               kind == IF over THEN "" ELSE acct[a].kind
    <2>2. acct' = [acct EXCEPT ![a] = [acct[a] EXCEPT !.nextRefresh = next,
                                          !.cooldown = cooldown, !.kind = kind]]
      BY DEF Refreshed
    <2>3. cooldown \in Nat
      BY <2>1
    <2>4. kind \in {"", "auth", "rate"}
      BY <2>1
    <2>5. next \in Nat
      <3>1. now \in Nat
        BY DEF DispatchInv, TableInv
      <3>2. Fresh \in Nat /\ Pause \in Nat
        BY DispatchAssumption
      <3>3. QED
        BY <3>1, <3>2
    <2> HIDE DEF over, next, cooldown, kind
    <2>6. QED
      BY <1>3, <2>2, <2>3, <2>4, <2>5, PausesCloseNothing
  <1>4. QED
    BY <1>2, <1>3

LEMMA RetryAccountKeeps ==
    ASSUME DispatchInv, NEW a, NEW result, RetryAccount(a, result)
    PROVE  ClosedNow' = ClosedNow /\ acct' \in [Accounts -> Account]
  <1>1. acct \in [Accounts -> Account]
    BY DEF DispatchInv
  <1>2. CASE a \notin Accounts
    <2>1. acct' = acct
      BY <1>1, <1>2 DEF RetryAccount
    <2>2. QED
      BY <2>1, SameAccounts
  <1>3. CASE a \in Accounts
    <2>1. acct[a] \in Account /\ acct[a].nextRefresh \in Nat
      BY <1>1, <1>3 DEF Account
    <2> DEFINE until == now + Pause
               next == acct[a].nextRefresh
    <2>2. until \in Nat /\ next \in Nat
      BY <2>1, DispatchAssumption DEF DispatchInv, TableInv
    <2>3. CASE result = "auth"
      <3> DEFINE kind == "auth"
                 due == 0
      <3>1. acct' = [acct EXCEPT ![a] = [acct[a] EXCEPT !.nextRefresh = due,
                                            !.cooldown = until, !.kind = kind]]
        BY <2>3 DEF RetryAccount
      <3>2. kind \in {"", "auth", "rate"} /\ due \in Nat
        OBVIOUS
      <3> HIDE DEF until, kind, due
      <3>3. QED
        BY <2>2, <3>1, <3>2, PausesCloseNothing
    <2>4. CASE result = "rate"
      <3> DEFINE kind == "rate"
      <3>1. acct' = [acct EXCEPT ![a] = [acct[a] EXCEPT !.cooldown = until,
                                                        !.kind = kind]]
        BY <2>4 DEF RetryAccount
      <3>2. [acct[a] EXCEPT !.cooldown = until, !.kind = kind]
            = [acct[a] EXCEPT !.nextRefresh = next, !.cooldown = until, !.kind = kind]
        BY <2>1 DEF Account
      <3>3. kind \in {"", "auth", "rate"}
        OBVIOUS
      <3> HIDE DEF until, next, kind
      <3>4. acct' = [acct EXCEPT ![a] = [acct[a] EXCEPT !.nextRefresh = next,
                                            !.cooldown = until, !.kind = kind]]
        BY <3>1, <3>2
      <3>5. QED
        BY <2>2, <3>3, <3>4, PausesCloseNothing
    <2>5. CASE result # "auth" /\ result # "rate"
      <3>1. acct' = acct
        BY <1>1, <2>5 DEF RetryAccount
      <3>2. QED
        BY <3>1, SameAccounts
    <2>6. QED
      BY <2>3, <2>4, <2>5
  <1>4. QED
    BY <1>2, <1>3

LEMMA AfterRefreshStep ==
    ASSUME DispatchInv, NEW p \in Reqs, AfterRefresh(p)
    PROVE  DispatchInv'
  <1>1. Sound(req[p], ClosedNow) /\ req[p].pc # "idle"
    BY DEF DispatchInv, AfterRefresh
  <1>2. TableInv'
    BY TableStays DEF AfterRefresh, DispatchInv, TableInv
  <1>3. ClosedNow' = ClosedNow /\ acct' \in [Accounts -> Account]
    <2>1. CASE acct' = acct
      BY <2>1, SameAccounts
    <2>2. CASE \E ok \in BOOLEAN : Refreshed(Head(req[p].todo), ok)
      BY <2>2, RefreshedKeeps
    <2>3. QED
      BY <2>1, <2>2 DEF AfterRefresh
  <1>4. CASE Skip(p)
    <2>1. Sound(Advance(req[p]), ClosedNow)
      BY <1>1, AdvanceSound
    <2>2. req' = [req EXCEPT ![p] = Advance(req[p])]
      BY <1>4, SkipIs
    <2>3. QED
      BY <1>2, <1>3, <2>1, <2>2, MoveStep
  <1>5. CASE Goto(p, "check")
    <2>1. Sound([req[p] EXCEPT !.pc = "check"], ClosedNow)
      BY <1>1, GotoSound
    <2>2. req' = [req EXCEPT ![p] = [req[p] EXCEPT !.pc = "check"]]
      BY <1>5, GotoIs
    <2>3. QED
      BY <1>2, <1>3, <2>1, <2>2, MoveStep
  <1>6. QED
    BY <1>4, <1>5 DEF AfterRefresh

LEMMA ReplyStep ==
    ASSUME DispatchInv, NEW p \in Reqs, Reply(p)
    PROVE  DispatchInv'
  <1>1. Sound(req[p], ClosedNow) /\ req[p].pc # "idle" /\ now' = now /\ now \in Nat
    BY DEF DispatchInv, TableInv, Reply
  <1>2. PICK result \in Results :
          /\ Bind(req[p].session, Head(req[p].todo)) \/ affinity' = affinity
          /\ \/ req' = [req EXCEPT ![p] = Idle] /\ acct' = acct
             \/ RetryAccount(Head(req[p].todo), result) /\ Skip(p)
    BY DEF Reply
  <1>3. req[p].session \in Sessions
    BY <1>1 DEF Sound
  <1>4. TableInv'
    <2>1. CASE Bind(req[p].session, Head(req[p].todo))
      BY <1>1, <1>3, <2>1, BindKeepsTable DEF DispatchInv
    <2>2. CASE affinity' = affinity
      BY <1>1, <2>2, TableStays DEF DispatchInv
    <2>3. QED
      BY <1>2, <2>1, <2>2
  <1>5. CASE req' = [req EXCEPT ![p] = Idle] /\ acct' = acct
    BY <1>4, <1>5, IdleSound, SameAccounts, MoveStep
  <1>6. CASE RetryAccount(Head(req[p].todo), result) /\ Skip(p)
    BY <1>1, <1>4, <1>6, SkipIs, AdvanceSound, RetryAccountKeeps, MoveStep
  <1>7. QED
    BY <1>2, <1>5, <1>6

-----------------------------------------------------------------------------
\* A user or the guard changes an account: one that closes joins the closed ones,
\* one that opens is struck from what requests hold for shut.
LEMMA BecomesStep ==
    ASSUME DispatchInv, NEW a \in Accounts, NEW next \in Account, Becomes(a, next)
    PROVE  DispatchInv'
  <1>1. acct \in [Accounts -> Account]
    BY DEF DispatchInv
  <1>2. acct' = [acct EXCEPT ![a] = next] /\ acct' \in [Accounts -> Account]
        /\ \A b \in Accounts : acct'[b] = IF b = a THEN next ELSE acct[b]
    BY <1>1 DEF Becomes
  <1>3. TableInv'
    BY TableStays DEF Becomes, DispatchInv, TableInv
  <1>4. ClosedNow' = {b \in Accounts : Closed(acct'[b])}
    BY DEF ClosedNow, Closed
  <1>5. CASE Closed(next)
    <2>1. req' = req
      BY <1>5 DEF Becomes
    <2>2. ClosedNow \subseteq ClosedNow'
      BY <1>2, <1>4, <1>5 DEF ClosedNow
    <2>3. \A p \in Reqs : Sound(req'[p], ClosedNow')
      BY <2>1, <2>2 DEF DispatchInv, Sound
    <2>4. req' = [p \in Reqs |-> req'[p]]
      BY <2>1 DEF DispatchInv
    <2>5. QED
      BY <1>2, <1>3, <2>3, <2>4 DEF DispatchInv
  <1>6. CASE ~Closed(next)
    <2>1. req' = [p \in Reqs |-> [req[p] EXCEPT !.shut = @ \ {a}]]
      BY <1>6 DEF Becomes
    <2>2. ClosedNow \ {a} \subseteq ClosedNow'
      BY <1>2, <1>4 DEF ClosedNow
    <2>3. ASSUME NEW p \in Reqs PROVE Sound(req'[p], ClosedNow')
      <3>1. Sound(req[p], ClosedNow)
        BY DEF DispatchInv
      <3> DEFINE less == req[p].shut \ {a}
      <3>2. req'[p] = [req[p] EXCEPT !.shut = less]
        BY <2>1
      <3>3. less \subseteq ClosedNow' /\ less \subseteq req[p].shut
        BY <2>2, <3>1 DEF Sound
      <3> HIDE DEF less
      <3>4. req'[p] = [pc |-> req[p].pc, session |-> req[p].session,
                       todo |-> req[p].todo, first |-> req[p].first,
                       shut |-> less, tried |-> req[p].tried]
        BY <3>1, <3>2 DEF Sound, IsReq
      <3>5. QED
        BY <3>1, <3>3, <3>4 DEF Sound, IsReq
    <2>4. req' = [p \in Reqs |-> req'[p]]
      BY <2>1
    <2>5. QED
      BY <1>2, <1>3, <2>3, <2>4 DEF DispatchInv
  <1>7. QED
    BY <1>5, <1>6

LEMMA EnvironmentStep ==
    ASSUME DispatchInv, NEW a \in Accounts,
           UserToggles(a) \/ UserDeletes(a) \/ GuardMoves(a)
    PROVE  DispatchInv'
  <1>1. acct[a] \in Account
    BY DEF DispatchInv
  <1>2. CASE UserToggles(a)
    <2>1. [acct[a] EXCEPT !.off = ~@] \in Account
      BY <1>1 DEF Account
    <2>2. QED
      BY <1>2, <2>1, BecomesStep DEF UserToggles
  <1>3. CASE UserDeletes(a)
    <2>1. [acct[a] EXCEPT !.deleted = TRUE] \in Account
      BY <1>1 DEF Account
    <2>2. QED
      BY <1>3, <2>1, BecomesStep DEF UserDeletes
  <1>4. CASE GuardMoves(a)
    <2>1. [acct[a] EXCEPT !.blocked = ~@] \in Account
      BY <1>1 DEF Account
    <2>2. QED
      BY <1>4, <2>1, BecomesStep DEF GuardMoves
  <1>5. QED
    BY <1>2, <1>3, <1>4

\* Requests, table and what is closed are as before.
LEMMA ElsewhereStep ==
    ASSUME DispatchInv, req' = req, ClosedNow' = ClosedNow,
           acct' \in [Accounts -> Account], affinity' = affinity, now' \in Nat
    PROVE  DispatchInv'
  <1>1. TableInv'
    BY TableStays DEF DispatchInv
  <1>2. (\A p \in Reqs : Sound(req'[p], ClosedNow')) /\ req' = [p \in Reqs |-> req'[p]]
    BY DEF DispatchInv
  <1>3. QED
    BY <1>1, <1>2 DEF DispatchInv

LEMMA RefreshesStep ==
    ASSUME DispatchInv, NEW a \in Accounts, Refreshes(a)
    PROVE  DispatchInv'
  <1>1. PICK ok \in BOOLEAN : Refreshed(a, ok)
    BY DEF Refreshes
  <1>2. req' = req /\ affinity' = affinity /\ now' \in Nat
    BY DEF Refreshes, DispatchInv, TableInv
  <1>3. QED
    BY <1>1, <1>2, RefreshedKeeps, ElsewhereStep

LEMMA StillStep ==
    ASSUME DispatchInv, Tick \/ UNCHANGED vars
    PROVE  DispatchInv'
  <1>1. req' = req /\ acct' = acct /\ affinity' = affinity /\ now' \in Nat
    BY DEF Tick, vars, DispatchInv, TableInv
  <1>2. QED
    BY <1>1, SameAccounts, ElsewhereStep

LEMMA DispatchInit == Init => DispatchInv
  <1> SUFFICES ASSUME Init PROVE DispatchInv
    OBVIOUS
  <1>1. DOMAIN affinity = {}
    BY DEF Init
  <1>2. TableInv
    <2>1. IsFiniteSet(DOMAIN affinity) /\ Cardinality(DOMAIN affinity) = 0
      BY <1>1, FS_EmptySet
    <2>2. MaxBindings \in Nat \ {0}
      BY DispatchAssumption
    <2>3. now = 1
      BY DEF Init
    <2>4. QED
      BY <1>1, <2>1, <2>2, <2>3 DEF TableInv, TableBounded
  <1>3. acct \in [Accounts -> Account]
    BY DEF Init, Account
  <1>4. req = [p \in Reqs |-> req[p]] /\ \A p \in Reqs : Sound(req[p], ClosedNow)
    BY IdleSound DEF Init
  <1>5. QED
    BY <1>2, <1>3, <1>4 DEF DispatchInv

LEMMA DispatchNext ==
    ASSUME DispatchInv, [Next]_vars
    PROVE  DispatchInv'
  <1>1. ASSUME NEW p \in Reqs, Begin(p) \/ Step(p) \/ Cancel(p) PROVE DispatchInv'
    BY <1>1, BeginStep, AfterQuotaStep, AfterRefreshStep, CheckStep, SendStep, ReplyStep,
       CancelStep DEF Step
  <1>2. ASSUME NEW a \in Accounts,
               \/ UserToggles(a) \/ UserDeletes(a)
               \/ GuardMoves(a) \/ Refreshes(a)
        PROVE  DispatchInv'
    BY <1>2, EnvironmentStep, RefreshesStep
  <1>3. QED
    BY <1>1, <1>2, StillStep DEF Next

\* Requests, accounts and the table keep the invariant, whatever happens around them.
THEOREM DispatchInvariance == Spec => []DispatchInv
  <1>1. DispatchInv /\ [Next]_vars => DispatchInv'
    BY DispatchNext
  <1>2. QED
    BY <1>1, DispatchInit, PTL DEF Spec

\* Whatever users and the guard do while requests wait for quota answers, refreshes
\* and models, and however many requests and accounts there are: none is sent to an
\* account that has been disabled, deleted or blocked ever since it turned to it.
THEOREM ShutTheorem == Spec => []NeverServedWhileShut
  <1>1. DispatchInv => NeverServedWhileShut
    BY DEF DispatchInv, Sound, NeverServedWhileShut
  <1>2. QED
    BY <1>1, DispatchInvariance, PTL

\* For any number of conversations, the affinity table never exceeds its limit: a
\* full table gives up enough before it takes a new conversation in.
THEOREM TableTheorem == Spec => []TableBounded
  <1>1. DispatchInv => TableBounded
    BY DEF DispatchInv, TableInv
  <1>2. QED
    BY <1>1, DispatchInvariance, PTL

-----------------------------------------------------------------------------
\* The list of candidates.

\* A strict total order on S, as a set of pairs.
StrictOrder(S, R) ==
    /\ \A a \in S : <<a, a>> \notin R
    /\ \A a, b, c \in S : <<a, b>> \in R /\ <<b, c>> \in R => <<a, c>> \in R
    /\ \A a, b \in S : a # b => <<a, b>> \in R \/ <<b, a>> \in R

\* A list that names every member of S once.
Lists(list, S) ==
    /\ list \in Seq(S) /\ IsInjective(list)
    /\ \A a \in S : \E i \in DOMAIN list : list[i] = a

\* In a strict order of a finite set, every number below the size of the set is how
\* many members somebody has before it.
LEMMA RanksExist ==
    ASSUME NEW S, IsFiniteSet(S), NEW R, StrictOrder(S, R)
    PROVE  /\ \A a, b \in S : <<a, b>> \in R =>
                Cardinality({c \in S : <<c, a>> \in R})
                  < Cardinality({c \in S : <<c, b>> \in R})
           /\ \A i \in 1 .. Cardinality(S) : \E a \in S :
                Cardinality({c \in S : <<c, a>> \in R}) = i - 1
           /\ \A a \in S : Cardinality({c \in S : <<c, a>> \in R}) + 1 \in 1 .. Cardinality(S)
  <1> DEFINE First(a) == {c \in S : <<c, a>> \in R}
             n == Cardinality(S)
             rank == [a \in S |-> Cardinality(First(a)) + 1]
  <1>1. n \in Nat
    BY FS_CardinalityType
  <1>2. ASSUME NEW a \in S
        PROVE  /\ IsFiniteSet(First(a)) /\ Cardinality(First(a)) \in Nat
               /\ Cardinality(First(a)) < n
    <2>1. First(a) \subseteq S /\ a \notin First(a) /\ First(a) # S
      BY DEF StrictOrder
    <2> HIDE DEF First
    <2>2. QED
      BY <2>1, FS_Subset, FS_CardinalityType
  <1>3. ASSUME NEW a \in S, NEW b \in S, <<a, b>> \in R
        PROVE  Cardinality(First(a)) < Cardinality(First(b))
    <2>1. First(a) \subseteq First(b) /\ a \in First(b) /\ a \notin First(a)
      BY <1>3 DEF StrictOrder
    <2>2. First(a) # First(b)
      BY <2>1
    <2> HIDE DEF First
    <2>3. QED
      BY <1>2, <2>1, <2>2, FS_Subset
  <1> HIDE DEF First
  <1>4. rank \in [S -> 1 .. n]
    BY <1>1, <1>2
  <1>5. \A a, b \in S : rank[a] = rank[b] => a = b
    <2>1. SUFFICES ASSUME NEW a \in S, NEW b \in S, a # b PROVE rank[a] # rank[b]
      OBVIOUS
    <2>2. <<a, b>> \in R \/ <<b, a>> \in R
      BY <2>1 DEF StrictOrder
    <2>3. QED
      BY <1>2, <1>3, <2>2
  <1>6. rank \in Injection(S, 1 .. n)
    BY <1>4, <1>5 DEF Injection, IsInjective
  <1>7. IsFiniteSet(1 .. n) /\ Cardinality(1 .. n) = n
    BY <1>1, FS_Interval
  <1>8. rank \in Surjection(S, 1 .. n)
    BY <1>6, <1>7, FS_Injection
  <1>9. \A i \in 1 .. n : \E a \in S : rank[a] = i
    BY <1>8 DEF Surjection
  <1>10. \A i \in 1 .. n : \E a \in S : Cardinality(First(a)) = i - 1
    BY <1>1, <1>2, <1>9
  <1>11. \A a \in S : Cardinality(First(a)) + 1 \in 1 .. n
    BY <1>4
  <1>12. QED
    BY <1>3, <1>10, <1>11 DEF First

\* Ordered lists every member once, in the order given.
LEMMA OrderedLists ==
    ASSUME NEW S, IsFiniteSet(S), NEW R, StrictOrder(S, R)
    PROVE  /\ Lists(Ordered(S, R), S)
           /\ Len(Ordered(S, R)) = Cardinality(S)
           /\ \A i, j \in DOMAIN Ordered(S, R) :
                i < j => <<Ordered(S, R)[i], Ordered(S, R)[j]>> \in R
  <1> DEFINE Rank(a) == Cardinality({c \in S : <<c, a>> \in R})
             n == Cardinality(S)
             l == Ordered(S, R)
  <1>1. n \in Nat
    BY FS_CardinalityType
  <1>2. /\ \A a, b \in S : <<a, b>> \in R => Rank(a) < Rank(b)
        /\ \A i \in 1 .. n : \E a \in S : Rank(a) = i - 1
        /\ \A a \in S : Rank(a) + 1 \in 1 .. n
    BY RanksExist, Zenon
  <1>3. \A i \in 1 .. n : \E a \in S : Rank(a) = i - 1
    BY <1>2
  <1>4. \A a \in S : Rank(a) + 1 \in 1 .. n /\ Rank(a) \in Nat
    <2>1. \A a \in S : Rank(a) + 1 \in 1 .. n
      BY <1>2
    <2>2. \A a \in S : Rank(a) \in Nat
      <3>1. SUFFICES ASSUME NEW a \in S PROVE Rank(a) \in Nat
        OBVIOUS
      <3>2. IsFiniteSet({c \in S : <<c, a>> \in R})
        BY FS_Subset
      <3>3. QED
        BY <3>2, FS_CardinalityType
    <2>3. QED
      BY <2>1, <2>2
  <1>5. l = [i \in 1 .. n |-> CHOOSE a \in S : Rank(a) = i - 1]
    BY DEF Ordered
  <1> HIDE DEF Rank, l
  <1>6. \A i \in 1 .. n : l[i] \in S /\ Rank(l[i]) = i - 1
    BY <1>3, <1>5
  <1>7. l \in Seq(S) /\ Len(l) = n /\ DOMAIN l = 1 .. n
    <2>1. l \in [1 .. n -> S]
      BY <1>5, <1>6
    <2>2. QED
      BY <1>1, <2>1, SeqDef
  <1>8. ASSUME NEW i \in 1 .. n, NEW j \in 1 .. n PROVE i < j => <<l[i], l[j]>> \in R
    <2>1. SUFFICES ASSUME i < j PROVE <<l[i], l[j]>> \in R
      OBVIOUS
    <2>2. l[i] # l[j]
      BY <1>6, <2>1
    <2>3. ~(<<l[j], l[i]>> \in R)
      BY <1>2, <1>6, <2>1
    <2>4. QED
      BY <1>6, <2>2, <2>3 DEF StrictOrder
  <1>9. IsInjective(l)
    BY <1>6, <1>7 DEF IsInjective
  <1>10. \A a \in S : \E i \in DOMAIN l : l[i] = a
    <2>1. SUFFICES ASSUME NEW a \in S PROVE l[Rank(a) + 1] = a
      BY <1>4, <1>7
    <2> DEFINE i == Rank(a) + 1
    <2>2. i \in 1 .. n /\ Rank(l[i]) = Rank(a) /\ l[i] \in S
      BY <1>4, <1>6
    <2>3. ~(<<a, l[i]>> \in R) /\ ~(<<l[i], a>> \in R)
      BY <1>2, <1>4, <2>2
    <2>4. QED
      BY <2>2, <2>3 DEF StrictOrder
  <1>11. QED
    BY <1>7, <1>8, <1>9, <1>10 DEF Lists, l

LEMMA UsableFinite ==
    Usable \subseteq Accounts /\ Usable \subseteq Nat /\ IsFiniteSet(Usable)
    /\ Cardinality(Usable) \in Nat
  <1>1. Usable \subseteq Accounts /\ Usable \subseteq Nat
    BY DispatchAssumption DEF Usable
  <1>2. IsFiniteSet(Usable)
    BY <1>1, DispatchAssumption, FS_Subset
  <1>3. QED
    BY <1>1, <1>2, FS_CardinalityType

\* A larger id has more usable accounts ahead.
LEMMA AheadGrows ==
    /\ \A a \in Usable : Ahead(a) \in Nat /\ Ahead(a) < Cardinality(Usable)
    /\ \A a, b \in Usable : a < b => Ahead(a) < Ahead(b)
  <1> DEFINE Smaller(a) == {b \in Usable : b < a}
             n == Cardinality(Usable)
  <1>1. ASSUME NEW a \in Usable
        PROVE  /\ IsFiniteSet(Smaller(a)) /\ Cardinality(Smaller(a)) \in Nat
               /\ Cardinality(Smaller(a)) < n
    <2>1. Smaller(a) \subseteq Usable /\ a \notin Smaller(a) /\ Smaller(a) # Usable
      BY UsableFinite
    <2> HIDE DEF Smaller
    <2>2. QED
      BY <2>1, UsableFinite, FS_Subset, FS_CardinalityType
  <1>2. ASSUME NEW a \in Usable, NEW b \in Usable, a < b
        PROVE  Cardinality(Smaller(a)) < Cardinality(Smaller(b))
    <2>1. a \in Nat /\ b \in Nat /\ Usable \subseteq Nat
      BY UsableFinite
    <2>2. a \in Smaller(b) /\ a \notin Smaller(a)
      BY <1>2, <2>1
    <2>3. \A c \in Usable : c < a => c < b
      BY <1>2, <2>1
    <2>4. Smaller(a) \subseteq Smaller(b)
      BY <2>3
    <2> HIDE DEF Smaller
    <2>5. QED
      BY <1>1, <2>2, <2>4, FS_Subset
  <1>3. \A a : Ahead(a) = Cardinality(Smaller(a))
    BY DEF Ahead
  <1> HIDE DEF Smaller
  <1>4. QED
    BY <1>1, <1>2, <1>3

\* Every number of accounts is ahead of one of them.
LEMMA AheadCovers ==
    \A i \in 0 .. Cardinality(Usable) - 1 : \E a \in Usable : Ahead(a) = i
  <1> DEFINE n == Cardinality(Usable)
             R == {pair \in Usable \X Usable : pair[1] < pair[2]}
  <1>1. IsFiniteSet(Usable) /\ n \in Nat /\ Usable \subseteq Nat
    BY UsableFinite
  <1>2. StrictOrder(Usable, R)
    BY <1>1 DEF StrictOrder
  <1>3. \A a \in Usable : {b \in Usable : <<b, a>> \in R} = {b \in Usable : b < a}
    BY <1>1
  <1> HIDE DEF R
  <1>4. /\ \A a, b \in Usable : <<a, b>> \in R =>
             Cardinality({c \in Usable : <<c, a>> \in R})
               < Cardinality({c \in Usable : <<c, b>> \in R})
        /\ \A i \in 1 .. n : \E a \in Usable :
             Cardinality({c \in Usable : <<c, a>> \in R}) = i - 1
        /\ \A a \in Usable : Cardinality({c \in Usable : <<c, a>> \in R}) + 1 \in 1 .. n
    BY <1>1, <1>2, RanksExist, Zenon
  <1>5. \A i \in 1 .. n : \E a \in Usable : Ahead(a) = i - 1
    BY <1>3, <1>4 DEF Ahead
  <1>6. \A i \in 0 .. n - 1 : i + 1 \in 1 .. n /\ (i + 1) - 1 = i
    BY <1>1
  <1>7. QED
    BY <1>5, <1>6

\* Two accounts have different places, wherever the rotation starts.
LEMMA PlacesDiffer ==
    ASSUME NEW start \in Nat
    PROVE  /\ \A a \in Usable : Place(a, start) \in Nat
           /\ \A a, b \in Usable : a # b => Place(a, start) # Place(b, start)
  <1>1. Cardinality(Usable) \in Nat
    BY UsableFinite
  <1>2. \A a \in Usable : Place(a, start) \in Nat
    BY <1>1, AheadGrows DEF Place
  <1>3. ASSUME NEW a \in Usable, NEW b \in Usable, a < b
        PROVE  Place(a, start) # Place(b, start)
    BY <1>1, <1>3, AheadGrows DEF Place
  <1>4. \A a, b \in Usable : a # b => a < b \/ b < a
    BY UsableFinite
  <1>5. QED
    BY <1>2, <1>3, <1>4

LEMMA BeforeIsOrder ==
    ASSUME NEW start \in Nat
    PROVE  StrictOrder(Usable, Before(start))
  <1>1. \A a \in Usable : Priority[a] \in Nat /\ Place(a, start) \in Nat
    BY UsableFinite, PlacesDiffer, DispatchAssumption
  <1>2. \A a, b \in Usable : a # b => Place(a, start) # Place(b, start)
    BY PlacesDiffer
  <1>3. \A a, b \in Usable : <<a, b>> \in Before(start) <=>
          \/ Priority[a] > Priority[b]
          \/ Priority[a] = Priority[b] /\ Place(a, start) < Place(b, start)
    BY DEF Before
  <1>4. QED
    BY <1>1, <1>2, <1>3 DEF StrictOrder

\* However the list is rotated, the candidates are the usable accounts, each once.
LEMMA RankedLists ==
    ASSUME NEW offset \in Nat
    PROVE  Lists(Ranked(offset), Usable)
  <1> DEFINE n == Cardinality(Usable)
             start == IF RoundRobin /\ n # 0 THEN offset % n ELSE 0
  <1>1. n \in Nat
    BY UsableFinite
  <1>2. start \in Nat
    BY <1>1
  <1>3. Ranked(offset) = Ordered(Usable, Before(start))
    BY DEF Ranked
  <1> HIDE DEF start
  <1>4. QED
    BY <1>2, <1>3, BeforeIsOrder, UsableFinite, OrderedLists

LEMMA InFront ==
    ASSUME NEW S, NEW x \in S, NEW c \in Seq(S)
    PROVE  /\ (<<x>> \o c) \in Seq(S)
           /\ Len(<<x>> \o c) = Len(c) + 1
           /\ (<<x>> \o c)[1] = x
           /\ \A k \in 2 .. Len(c) + 1 : (<<x>> \o c)[k] = c[k - 1]
  OBVIOUS

\* Moving one to the front loses none.
LEMMA FrontLists ==
    ASSUME NEW S, NEW list, Lists(list, S), NEW i \in DOMAIN list
    PROVE  /\ Lists(<<list[i]>> \o RemoveAt(list, i), S)
           /\ Head(<<list[i]>> \o RemoveAt(list, i)) = list[i]
           /\ <<list[i]>> \o RemoveAt(list, i) # <<>>
  <1> DEFINE n == Len(list)
             a == SubSeq(list, 1, i - 1)
             b == SubSeq(list, i + 1, n)
             l == <<list[i]>> \o (a \o b)
  <1>1. list \in Seq(S) /\ n \in Nat /\ i \in 1 .. n /\ DOMAIN list = 1 .. n
        /\ \A k \in 1 .. n : list[k] \in S
    BY DEF Lists
  <1>2. /\ a \in Seq(S) /\ Len(a) = i - 1
        /\ \A k \in 1 .. (i - 1) : a[k] = list[k]
    BY <1>1
  <1>3. /\ b \in Seq(S) /\ Len(b) = n - i
        /\ \A k \in 1 .. (n - i) : b[k] = list[i + k]
    <2>1. /\ b \in Seq(S)
          /\ Len(b) = IF i + 1 <= n THEN n - (i + 1) + 1 ELSE 0
          /\ \A k \in 1 .. n - (i + 1) + 1 : b[k] = list[(i + 1) + k - 1]
      <3>1. /\ i + 1 \in 1 .. n + 1 /\ n \in i .. n
            /\ (i + 1) - 1 = i
        BY <1>1
      <3>2. QED
        BY <1>1, <3>1, SubSeqProperties
    <2> HIDE DEF b
    <2>2. Len(b) = n - i /\ n - (i + 1) + 1 = n - i
      BY <1>1, <2>1
    <2>3. ASSUME NEW k \in 1 .. (n - i) PROVE b[k] = list[i + k]
      <3>1. (i + 1) + k - 1 = i + k
        BY <1>1
      <3>2. QED
        BY <2>1, <2>2, <3>1
    <2>4. QED
      BY <2>1, <2>2, <2>3
  <1> HIDE DEF a, b
  <1>4. /\ l \in Seq(S) /\ Len(l) = n /\ DOMAIN l = 1 .. n
        /\ l[1] = list[i]
        /\ \A k \in 2 .. i : l[k] = list[k - 1]
        /\ \A k \in (i + 1) .. n : l[k] = list[k]
    <2> DEFINE c == a \o b
    <2>1. /\ c \in Seq(S) /\ Len(c) = n - 1
          /\ \A k \in 1 .. (i - 1) : c[k] = list[k]
          /\ \A k \in i .. (n - 1) : c[k] = list[k + 1]
      <3>1. c \in Seq(S) /\ Len(c) = n - 1
        <4>1. c \in Seq(S) /\ Len(c) = Len(a) + Len(b)
          BY <1>2, <1>3, ConcatProperties
        <4>2. QED
          BY <1>1, <1>2, <1>3, <4>1
      <3>2. ASSUME NEW k \in 1 .. (i - 1) PROVE c[k] = list[k]
        BY <1>1, <1>2, <1>3
      <3>3. ASSUME NEW k \in i .. (n - 1) PROVE c[k] = list[k + 1]
        <4>1. c[k] = b[k - (i - 1)] /\ k - (i - 1) \in 1 .. (n - i)
          BY <1>1, <1>2, <1>3
        <4>2. i + (k - (i - 1)) = k + 1
          BY <1>1
        <4>3. QED
          BY <1>3, <4>1, <4>2
      <3>4. QED
        BY <3>1, <3>2, <3>3
    <2> HIDE DEF c
    <2>2. l = <<list[i]>> \o c /\ list[i] \in S
      BY <1>1 DEF c
    <2> HIDE DEF l
    <2>3. l \in Seq(S) /\ Len(l) = Len(c) + 1 /\ l[1] = list[i]
          /\ \A k \in 2 .. Len(c) + 1 : l[k] = c[k - 1]
      BY <2>1, <2>2, InFront
    <2>4. l \in Seq(S) /\ Len(l) = n /\ l[1] = list[i]
          /\ \A k \in 2 .. n : l[k] = c[k - 1]
      <3>1. Len(c) + 1 = n
        BY <1>1, <2>1
      <3>2. QED
        BY <2>3, <3>1
    <2>5. ASSUME NEW k \in 2 .. i PROVE l[k] = list[k - 1]
      <3>1. k \in 2 .. n /\ k - 1 \in 1 .. (i - 1)
        BY <1>1
      <3>2. QED
        BY <2>1, <2>4, <3>1
    <2>6. ASSUME NEW k \in (i + 1) .. n PROVE l[k] = list[k]
      <3>1. k \in 2 .. n /\ k - 1 \in i .. (n - 1) /\ (k - 1) + 1 = k
        BY <1>1
      <3>2. QED
        BY <2>1, <2>4, <3>1
    <2>7. QED
      BY <2>4, <2>5, <2>6
  <1> HIDE DEF l
  <1>5. IsInjective(l)
    <2>1. \A x, y \in 1 .. n : list[x] = list[y] => x = y
      BY <1>1 DEF Lists, IsInjective
    <2>2. \A k \in 1 .. n : k = 1 \/ k \in 2 .. i \/ k \in (i + 1) .. n
      BY <1>1
    <2>3. ASSUME NEW x \in 1 .. n, NEW y \in 1 .. n, l[x] = l[y] PROVE x = y
      <3> DEFINE From(k) == IF k = 1 THEN i ELSE IF k <= i THEN k - 1 ELSE k
      <3>1. \A k \in 1 .. n : l[k] = list[From(k)] /\ From(k) \in 1 .. n
        BY <1>1, <1>4, <2>2
      <3>2. From(x) = From(y)
        <4> HIDE DEF From
        <4>1. QED
          BY <2>1, <2>3, <3>1
      <3>3. QED
        BY <1>1, <3>2
    <2>4. QED
      BY <1>4, <2>3 DEF IsInjective
  <1>6. ASSUME NEW x \in S PROVE \E k \in DOMAIN l : l[k] = x
    <2>1. PICK k \in 1 .. n : list[k] = x
      BY <1>1 DEF Lists
    <2>2. CASE k = i
      BY <1>1, <1>4, <2>1, <2>2
    <2>3. CASE k < i
      <3>1. k + 1 \in 2 .. i /\ k + 1 \in 1 .. n /\ (k + 1) - 1 = k
        BY <1>1, <2>3
      <3>2. l[k + 1] = list[k]
        BY <1>4, <3>1
      <3>3. QED
        BY <1>4, <2>1, <3>1, <3>2
    <2>4. CASE k > i
      <3>1. k \in (i + 1) .. n
        BY <1>1, <2>4
      <3>2. QED
        BY <1>4, <2>1, <3>1
    <2>5. QED
      BY <1>1, <2>2, <2>3, <2>4
  <1>7. l = <<list[i]>> \o RemoveAt(list, i)
    BY DEF RemoveAt, l, a, b
  <1>8. Head(l) = list[i] /\ l # <<>>
    BY <1>1, <1>4
  <1>9. QED
    BY <1>4, <1>5, <1>6, <1>7, <1>8 DEF Lists

\* So has the list a conversation's own account is moved to the front of.
LEMMA PromotedLists ==
    ASSUME NEW offset \in Nat, NEW session
    PROVE  /\ Lists(Promote(Ranked(offset), session), Usable)
           /\ Affinity /\ Bound(session) \cap Range(Ranked(offset)) # {} =>
                /\ Head(Promote(Ranked(offset), session)) \in Bound(session)
                /\ Promote(Ranked(offset), session) # <<>>
  <1> DEFINE list == Ranked(offset)
             Found(i) == i \in DOMAIN list /\ list[i] \in Bound(session)
  <1>1. Lists(list, Usable)
    BY RankedLists
  <1> HIDE DEF list
  <1>2. CASE Affinity /\ Bound(session) \cap Range(list) # {}
    <2> DEFINE i == CHOOSE i \in DOMAIN list : list[i] \in Bound(session)
    <2>1. \E k \in DOMAIN list : list[k] \in Bound(session)
      BY <1>2 DEF Range
    <2>2. i \in DOMAIN list /\ list[i] \in Bound(session)
      BY <2>1
    <2>3. Promote(list, session) = <<list[i]>> \o RemoveAt(list, i)
      BY <1>2 DEF Promote
    <2> HIDE DEF i
    <2>4. QED
      BY <1>1, <2>2, <2>3, FrontLists DEF list
  <1>3. CASE ~(Affinity /\ Bound(session) \cap Range(list) # {})
    BY <1>1, <1>3 DEF Promote, list
  <1>4. QED
    BY <1>2, <1>3

-----------------------------------------------------------------------------
\* The walk over the list.

\* A request's local variables: a request at work has a candidate, its list names
\* no account twice, and the only one on it that it has asked is the one it waits for.
Walks(r) ==
    /\ r \in Req
    /\ r.pc # "idle" => r.todo # <<>>
    /\ IsInjective(r.todo)
    /\ \A i \in DOMAIN r.todo : r.todo[i] \in r.tried => i = 1 /\ r.pc = "wait"

WalkInv ==
    /\ now \in 1 .. MaxTime
    /\ sequence \in 0 .. MaxPicks
    /\ \A s \in DOMAIN affinity : affinity[s] \in Binding
    /\ limited \in [Accounts -> Nat]
    /\ \A p \in Reqs : Walks(req[p])

LEMMA IdleWalks == Walks(Idle)
  <1>1. Min(Sessions) \in Sessions
    <2>1. \E s \in Sessions : \A t \in Sessions : s <= t
      BY DispatchAssumption, NatHasLeast
    <2>2. QED
      BY <2>1 DEF Min
  <1>2. Idle \in Req
    BY <1>1 DEF Idle, Req, PCs
  <1>3. IsInjective(Idle.todo) /\ DOMAIN Idle.todo = {}
    BY DEF Idle, IsInjective
  <1>4. QED
    BY <1>2, <1>3 DEF Walks, Idle

LEMMA ListHead ==
    ASSUME NEW list, Lists(list, Usable)
    PROVE  list \in Seq(Accounts) /\ (list # <<>> => Head(list) \in Usable)
  <1>1. list \in Seq(Usable)
    BY DEF Lists
  <1>2. list \in Seq(Accounts)
    BY <1>1, UsableFinite, SeqMonotonic
  <1>3. list # <<>> => Head(list) \in Usable
    BY <1>1
  <1>4. QED
    BY <1>2, <1>3

LEMMA BeganWalks ==
    ASSUME NEW session \in Sessions, NEW list, Lists(list, Usable)
    PROVE  Walks(Began(session, list))
  <1>1. CASE list = <<>>
    BY <1>1, IdleWalks DEF Began
  <1>2. CASE list # <<>>
    <2> DEFINE shut == {a \in Accounts : Closed(acct[a])}
    <2>1. list \in Seq(Accounts) /\ IsInjective(list) /\ Head(list) \in Accounts
      BY <1>2, UsableFinite, ListHead DEF Lists
    <2>2. shut \in SUBSET Accounts
      OBVIOUS
    <2> HIDE DEF shut
    <2>3. Began(session, list) =
            [pc |-> "quota", session |-> session, todo |-> list, first |-> Head(list),
             shut |-> shut, tried |-> {}]
      BY <1>2 DEF Began, shut
    <2>4. Began(session, list) \in Req
      BY <2>1, <2>2, <2>3 DEF Req, PCs
    <2>5. QED
      BY <1>2, <2>1, <2>3, <2>4 DEF Walks
  <1>3. QED
    BY <1>1, <1>2

\* The rest of a list names no account twice either, and none at its head.
LEMMA TailIsNew ==
    ASSUME NEW list \in Seq(Accounts), list # <<>>, IsInjective(list)
    PROVE  /\ Tail(list) \in Seq(Accounts) /\ IsInjective(Tail(list))
           /\ DOMAIN Tail(list) = 1 .. Len(list) - 1
           /\ \A i \in DOMAIN Tail(list) :
                Tail(list)[i] = list[i + 1] /\ i + 1 \in DOMAIN list
           /\ 1 \in DOMAIN list /\ Head(list) = list[1]
  <1>1. Len(list) \in Nat /\ Len(list) # 0 /\ DOMAIN list = 1 .. Len(list)
    OBVIOUS
  <1>2. /\ Tail(list) \in Seq(Accounts) /\ Len(Tail(list)) = Len(list) - 1
        /\ \A i \in 1 .. Len(list) - 1 : Tail(list)[i] = list[i + 1]
    OBVIOUS
  <1>3. DOMAIN Tail(list) = 1 .. Len(list) - 1
    BY <1>2
  <1>4. \A i \in 1 .. Len(list) - 1 : i + 1 \in DOMAIN list
    BY <1>1
  <1>5. ASSUME NEW i \in DOMAIN Tail(list), NEW j \in DOMAIN Tail(list),
               Tail(list)[i] = Tail(list)[j]
        PROVE  i = j
    <2>1. list[i + 1] = list[j + 1] /\ i + 1 \in DOMAIN list /\ j + 1 \in DOMAIN list
      BY <1>2, <1>3, <1>4, <1>5
    <2>2. i + 1 = j + 1
      BY <2>1 DEF IsInjective
    <2>3. QED
      BY <1>1, <1>3, <2>2
  <1>6. IsInjective(Tail(list))
    BY <1>5 DEF IsInjective
  <1>7. 1 \in DOMAIN list /\ Head(list) = list[1]
    BY <1>1
  <1>8. QED
    BY <1>2, <1>3, <1>4, <1>6, <1>7

LEMMA AdvanceWalks ==
    ASSUME NEW r, Walks(r), r.pc # "idle"
    PROVE  Walks(Advance(r))
  <1>1. r \in Req /\ r.todo \in Seq(Accounts) /\ r.todo # <<>> /\ IsInjective(r.todo)
    BY DEF Walks, Req
  <1>2. CASE Tail(r.todo) = <<>>
    BY <1>2, IdleWalks DEF Advance
  <1>3. CASE Tail(r.todo) # <<>>
    <2> DEFINE rest == Tail(r.todo)
               shut == {a \in Accounts : Closed(acct[a])}
    <2>1. /\ rest \in Seq(Accounts) /\ IsInjective(rest)
          /\ DOMAIN rest = 1 .. Len(r.todo) - 1
          /\ \A i \in DOMAIN rest : rest[i] = r.todo[i + 1] /\ i + 1 \in DOMAIN r.todo
      BY <1>1, TailIsNew
    <2>2. \A i \in DOMAIN rest : rest[i] \notin r.tried
      <3>1. SUFFICES ASSUME NEW i \in DOMAIN rest PROVE rest[i] \notin r.tried
        OBVIOUS
      <3>2. Len(r.todo) \in Nat
        BY <1>1
      <3>3. i + 1 # 1
        BY <2>1, <3>2
      <3>4. QED
        BY <2>1, <3>3 DEF Walks
    <2>3. shut \in SUBSET Accounts
      OBVIOUS
    <2> HIDE DEF rest, shut
    <2>4. Advance(r) = [r EXCEPT !.pc = "quota", !.todo = rest, !.shut = shut]
      BY <1>3 DEF Advance, rest, shut
    <2>5. /\ Advance(r) \in Req /\ Advance(r).todo = rest /\ Advance(r).pc = "quota"
          /\ Advance(r).tried = r.tried
      BY <1>1, <2>1, <2>3, <2>4 DEF Req, PCs
    <2>6. rest # <<>>
      BY <1>3 DEF rest
    <2>7. QED
      BY <2>1, <2>2, <2>5, <2>6 DEF Walks
  <1>4. QED
    BY <1>2, <1>3

LEMMA GotoWalks ==
    ASSUME NEW r, Walks(r), r.pc \notin {"idle", "wait"},
           NEW pc \in {"refresh", "check", "send"}
    PROVE  Walks([r EXCEPT !.pc = pc])
  <1> DEFINE x == [r EXCEPT !.pc = pc]
  <1>1. r \in Req
    BY DEF Walks
  <1>2. x \in Req /\ x.pc = pc /\ x.todo = r.todo /\ x.tried = r.tried
    BY <1>1 DEF Req, PCs
  <1> HIDE DEF x
  <1>3. Walks(x)
    BY <1>2 DEF Walks
  <1>4. QED
    BY <1>3 DEF x

LEMMA SendWalks ==
    ASSUME NEW r, Walks(r), r.pc = "send"
    PROVE  Walks([r EXCEPT !.pc = "wait", !.tried = r.tried \cup {Head(r.todo)}])
  <1> DEFINE tried == r.tried \cup {Head(r.todo)}
             x == [r EXCEPT !.pc = "wait", !.tried = tried]
  <1>1. r \in Req /\ r.todo \in Seq(Accounts) /\ r.todo # <<>> /\ IsInjective(r.todo)
        /\ r.tried \in SUBSET Accounts
    BY DEF Walks, Req
  <1>2. 1 \in DOMAIN r.todo /\ Head(r.todo) = r.todo[1] /\ Head(r.todo) \in Accounts
    BY <1>1
  <1>3. tried \in SUBSET Accounts
    BY <1>1, <1>2
  <1>4. ASSUME NEW i \in DOMAIN r.todo, r.todo[i] \in tried PROVE i = 1
    <2>1. CASE r.todo[i] \in r.tried
      BY <2>1 DEF Walks
    <2>2. CASE r.todo[i] = r.todo[1]
      BY <1>1, <1>2, <2>2 DEF IsInjective
    <2>3. QED
      BY <1>2, <1>4, <2>1, <2>2
  <1> HIDE DEF tried
  <1>5. x \in Req /\ x.pc = "wait" /\ x.todo = r.todo /\ x.tried = tried
    BY <1>1, <1>3 DEF Req, PCs
  <1> HIDE DEF x
  <1>6. Walks(x)
    BY <1>1, <1>4, <1>5 DEF Walks
  <1>7. QED
    BY <1>6 DEF x, tried

LEMMA OpenedWalks ==
    ASSUME NEW r, Walks(r), NEW a
    PROVE  Walks([r EXCEPT !.shut = @ \ {a}])
  <1> DEFINE shut == r.shut \ {a}
             x == [r EXCEPT !.shut = shut]
  <1>1. r \in Req /\ r.shut \in SUBSET Accounts
    BY DEF Walks, Req
  <1>2. shut \in SUBSET Accounts
    BY <1>1
  <1> HIDE DEF shut
  <1>3. x \in Req /\ x.pc = r.pc /\ x.todo = r.todo /\ x.tried = r.tried
    BY <1>1, <1>2 DEF Req
  <1> HIDE DEF x
  <1>4. Walks(x)
    BY <1>3 DEF Walks
  <1>5. QED
    BY <1>4 DEF x, shut

-----------------------------------------------------------------------------
\* What Bind leaves in the table.
LEMMA BindTypes ==
    ASSUME TableInv, NEW session \in Sessions, NEW a \in Accounts, Bind(session, a),
           \A s \in DOMAIN affinity : affinity[s] \in Binding
    PROVE  \A s \in DOMAIN affinity' : affinity'[s] \in Binding
  <1> DEFINE K == Kept(session) \cup {session}
             new == [id |-> a, expires |-> now + TTL]
  <1>1. K \subseteq DOMAIN affinity \cup {session}
    BY KeptLeavesRoom
  <1>2. affinity' = [s \in K |-> IF s = session THEN new ELSE affinity[s]]
    BY DEF Bind
  <1>3. new \in Binding
    BY DispatchAssumption DEF Binding, TableInv
  <1> HIDE DEF K, new
  <1>4. QED
    BY <1>1, <1>2, <1>3

\* One request moves on, and everything else keeps its type.
LEMMA MoveWalks ==
    ASSUME DispatchInv, WalkInv, NEW p \in Reqs, NEW r, req' = [req EXCEPT ![p] = r],
           Walks(r), now' = now, sequence' \in 0 .. MaxPicks,
           \A s \in DOMAIN affinity' : affinity'[s] \in Binding,
           limited' \in [Accounts -> Nat]
    PROVE  WalkInv'
  <1>1. \A q \in Reqs : req'[q] = IF q = p THEN r ELSE req[q]
    BY DEF DispatchInv
  <1>2. \A q \in Reqs : Walks(req'[q])
    BY <1>1 DEF WalkInv
  <1>3. QED
    BY <1>2 DEF WalkInv

LEMMA HeadWalks ==
    ASSUME NEW r, Walks(r), r.pc # "idle"
    PROVE  Head(r.todo) \in Accounts /\ r.session \in Sessions
  BY DEF Walks, Req

LEMMA BeginWalks ==
    ASSUME DispatchInv, WalkInv, NEW p \in Reqs, Begin(p)
    PROVE  WalkInv'
  <1>1. sequence < MaxPicks /\ sequence' = sequence + 1 /\ now' = now /\ limited' = limited
        /\ sequence \in Nat /\ sequence' \in 0 .. MaxPicks
    BY DispatchAssumption DEF Begin, WalkInv
  <1>2. PICK session \in Sessions :
          LET list == Promote(Ranked(sequence + 1), session) IN
          /\ req' = [req EXCEPT ![p] = Began(session, list)]
          /\ \/ list # <<>> /\ Bind(session, Head(list))
             \/ affinity' = affinity
    BY DEF Begin
  <1> DEFINE list == Promote(Ranked(sequence + 1), session)
             r == Began(session, list)
  <1>3. Lists(list, Usable)
    BY <1>1, PromotedLists
  <1>4. Walks(r)
    BY <1>3, BeganWalks
  <1>5. \A s \in DOMAIN affinity' : affinity'[s] \in Binding
    <2>1. CASE affinity' = affinity
      BY <2>1 DEF WalkInv
    <2>2. CASE list # <<>> /\ Bind(session, Head(list))
      <3> HIDE DEF list
      <3>1. Head(list) \in Accounts
        BY <1>3, <2>2, UsableFinite, ListHead
      <3>2. QED
        BY <2>2, <3>1, BindTypes DEF DispatchInv, WalkInv
    <2>3. QED
      BY <1>2, <2>1, <2>2
  <1>6. req' = [req EXCEPT ![p] = r]
    BY <1>2
  <1>7. limited' \in [Accounts -> Nat]
    BY <1>1 DEF WalkInv
  <1> HIDE DEF list, r
  <1>8. QED
    BY <1>1, <1>4, <1>5, <1>6, <1>7, MoveWalks

\* A step that only moves the request on, and perhaps an account's times.
LEMMA OnlyMoves ==
    ASSUME DispatchInv, WalkInv, NEW p \in Reqs, NEW r, req' = [req EXCEPT ![p] = r],
           Walks(r), UNCHANGED <<now, sequence, affinity, limited>>
    PROVE  WalkInv'
  <1>1. /\ now' = now /\ sequence' \in 0 .. MaxPicks /\ limited' \in [Accounts -> Nat]
        /\ \A s \in DOMAIN affinity' : affinity'[s] \in Binding
    BY DEF WalkInv
  <1>2. QED
    BY <1>1, MoveWalks

LEMMA StepWalks ==
    ASSUME DispatchInv, WalkInv, NEW p \in Reqs,
           AfterQuota(p) \/ AfterRefresh(p) \/ Check(p) \/ Send(p)
    PROVE  WalkInv'
  <1>1. Walks(req[p])
    BY DEF WalkInv
  <1>2. req[p].pc \notin {"idle", "wait"}
        /\ UNCHANGED <<now, sequence, affinity, limited>>
    BY DEF AfterQuota, AfterRefresh, Check, Send
  <1>3. \/ Skip(p)
        \/ \E pc \in {"refresh", "check", "send"} : Goto(p, pc)
        \/ Send(p)
    BY DEF AfterQuota, AfterRefresh, Check
  <1>4. CASE Skip(p)
    <2>1. Walks(Advance(req[p]))
      BY <1>1, <1>2, AdvanceWalks
    <2>2. QED
      BY <1>2, <1>4, <2>1, SkipIs, OnlyMoves
  <1>5. ASSUME NEW pc \in {"refresh", "check", "send"}, Goto(p, pc) PROVE WalkInv'
    <2>1. Walks([req[p] EXCEPT !.pc = pc])
      BY <1>1, <1>2, GotoWalks
    <2>2. QED
      BY <1>2, <1>5, <2>1, GotoIs, OnlyMoves
  <1>6. CASE Send(p)
    <2>1. req[p].pc = "send"
          /\ req' = [req EXCEPT ![p] = [req[p] EXCEPT !.pc = "wait",
                        !.tried = req[p].tried \cup {Head(req[p].todo)}]]
      BY <1>6 DEF Send
    <2>2. QED
      BY <1>1, <1>2, <2>1, SendWalks, OnlyMoves
  <1>7. QED
    BY <1>3, <1>4, <1>5, <1>6

LEMMA ReplyWalks ==
    ASSUME DispatchInv, WalkInv, NEW p \in Reqs, Reply(p)
    PROVE  WalkInv'
  <1>1. Walks(req[p]) /\ req[p].pc = "wait" /\ now' = now /\ sequence' = sequence
        /\ sequence' \in 0 .. MaxPicks
    BY DEF WalkInv, Reply
  <1> DEFINE a == Head(req[p].todo)
  <1>2. PICK result \in Results :
          /\ limited' = IF result = "rate" THEN [limited EXCEPT ![a] = now + Pause]
                        ELSE limited
          /\ Bind(req[p].session, a) \/ affinity' = affinity
          /\ req' = [req EXCEPT ![p] = Idle] \/ Skip(p)
    BY DEF Reply
  <1>3. a \in Accounts /\ req[p].session \in Sessions
    BY <1>1, HeadWalks
  <1>4. limited' \in [Accounts -> Nat]
    <2>1. now + Pause \in Nat
      BY DispatchAssumption DEF WalkInv
    <2>2. QED
      BY <1>2, <1>3, <2>1 DEF WalkInv
  <1>5. \A s \in DOMAIN affinity' : affinity'[s] \in Binding
    BY <1>2, <1>3, BindTypes DEF DispatchInv, WalkInv
  <1>6. CASE req' = [req EXCEPT ![p] = Idle]
    BY <1>1, <1>4, <1>5, <1>6, IdleWalks, MoveWalks
  <1>7. CASE Skip(p)
    BY <1>1, <1>4, <1>5, <1>7, SkipIs, AdvanceWalks, MoveWalks
  <1>8. QED
    BY <1>2, <1>6, <1>7

LEMMA CancelWalks ==
    ASSUME DispatchInv, WalkInv, NEW p \in Reqs, Cancel(p)
    PROVE  WalkInv'
  BY IdleWalks, OnlyMoves DEF Cancel

\* Users, the guard and the monitor take nothing off a list.
LEMMA BecomesWalks ==
    ASSUME WalkInv, NEW a, NEW next, Becomes(a, next)
    PROVE  WalkInv'
  <1>1. UNCHANGED <<now, sequence, affinity, limited>>
    BY DEF Becomes
  <1>2. \A p \in Reqs : Walks(req'[p])
    BY OpenedWalks DEF Becomes, WalkInv
  <1>3. QED
    BY <1>1, <1>2 DEF WalkInv

LEMMA ElsewhereWalks ==
    ASSUME WalkInv, UNCHANGED <<sequence, affinity, limited, req>>, now' \in 1 .. MaxTime
    PROVE  WalkInv'
  BY DEF WalkInv

LEMMA EnvironmentWalks ==
    ASSUME WalkInv,
           \/ \E a \in Accounts : \/ UserToggles(a) \/ UserDeletes(a)
                                  \/ GuardMoves(a) \/ Refreshes(a)
           \/ Tick \/ UNCHANGED vars
    PROVE  WalkInv'
  <1>1. ASSUME NEW a \in Accounts, UserToggles(a) \/ UserDeletes(a) \/ GuardMoves(a)
        PROVE  WalkInv'
    BY <1>1, BecomesWalks DEF UserToggles, UserDeletes, GuardMoves
  <1>2. ASSUME NEW a \in Accounts, Refreshes(a) PROVE WalkInv'
    BY <1>2, ElsewhereWalks DEF Refreshes, WalkInv
  <1>3. CASE Tick
    <2>1. MaxTime \in Nat /\ now \in 1 .. MaxTime /\ now < MaxTime /\ now' = now + 1
      BY <1>3, DispatchAssumption DEF Tick, WalkInv
    <2>2. now' \in 1 .. MaxTime
      BY <2>1
    <2>3. QED
      BY <1>3, <2>2, ElsewhereWalks DEF Tick
  <1>4. CASE UNCHANGED vars
    BY <1>4, ElsewhereWalks DEF vars, WalkInv
  <1>5. QED
    BY <1>1, <1>2, <1>3, <1>4

LEMMA WalkInit == Init => WalkInv
  <1> SUFFICES ASSUME Init PROVE WalkInv
    OBVIOUS
  <1>1. sequence \in 0 .. MaxPicks
    <2>1. MaxPicks \in Nat
      BY DispatchAssumption
    <2>2. sequence = 0
      BY DEF Init
    <2>3. QED
      BY <2>1, <2>2
  <1>2. now \in 1 .. MaxTime
    <2>1. MaxTime \in Nat \ {0}
      BY DispatchAssumption
    <2>2. now = 1
      BY DEF Init
    <2>3. QED
      BY <2>1, <2>2
  <1>3. DOMAIN affinity = {} /\ limited \in [Accounts -> Nat]
    BY DEF Init
  <1>4. \A p \in Reqs : Walks(req[p])
    BY IdleWalks DEF Init
  <1>5. QED
    BY <1>1, <1>2, <1>3, <1>4 DEF WalkInv

LEMMA WalkNext ==
    ASSUME DispatchInv, WalkInv, [Next]_vars
    PROVE  WalkInv'
  <1>1. ASSUME NEW p \in Reqs, Begin(p) \/ Step(p) \/ Cancel(p) PROVE WalkInv'
    BY <1>1, BeginWalks, StepWalks, ReplyWalks, CancelWalks DEF Step
  <1>2. QED
    BY <1>1, EnvironmentWalks DEF Next

\* Types, and that a list is walked forward only, are kept by every step.
THEOREM WalkInvariance == Spec => []WalkInv
  <1>1. DispatchInv /\ WalkInv /\ [Next]_vars => WalkInv'
    BY WalkNext
  <1>2. QED
    BY <1>1, WalkInit, DispatchInvariance, PTL DEF Spec

\* Every variable of the dispatcher keeps to its type, a request at work has a candidate
\* and the table keeps to its limit, for all values of the constants.
THEOREM DispatchTypeTheorem == Spec => []TypeOK
  <1>1. DispatchInv /\ WalkInv => TypeOK
    BY DEF DispatchInv, TableInv, WalkInv, Walks, TypeOK
  <1>2. QED
    BY <1>1, DispatchInvariance, WalkInvariance, PTL

\* However many accounts there are, however the list was rotated, sorted by priority
\* and promoted, and whatever refreshes and refusals come in between: a request is
\* sent to each account at most once.
THEOREM RepeatTheorem == Spec => []NoRepeat
  <1>1. WalkInv => NoRepeat
    BY DEF WalkInv, Walks, NoRepeat
  <1>2. QED
    BY <1>1, WalkInvariance, PTL

-----------------------------------------------------------------------------
\* What a full table gives up.

\* A live binding that is gone is the one that expires first in a full table.
LEMMA BindSurvives ==
    ASSUME TableInv, NEW session \in Sessions, NEW a, Bind(session, a),
           NEW s \in Live(affinity) \ DOMAIN affinity'
    PROVE  /\ Cardinality(Live(affinity)) = MaxBindings
           /\ DOMAIN affinity' \ DOMAIN affinity # {}
           /\ \A t \in Live(affinity) : affinity[s].expires <= affinity[t].expires
  <1> DEFINE live == Live(affinity)
             victim == CHOOSE v \in Live(affinity) : \A t \in Live(affinity) :
                         \/ affinity[v].expires < affinity[t].expires
                         \/ affinity[v].expires = affinity[t].expires /\ v <= t
  <1>1. DOMAIN affinity' = Kept(session) \cup {session}
    BY DEF Bind
  <1>2. live \subseteq DOMAIN affinity
    BY DEF Live
  <1>3. s \notin Kept(session) /\ s # session
    BY <1>1
  <1>4. ~(session \in DOMAIN affinity \/ Cardinality(DOMAIN affinity) < MaxBindings)
    BY <1>2, <1>3 DEF Kept
  <1>5. ~(Cardinality(live) < MaxBindings)
    BY <1>3, <1>4 DEF Kept
  <1>6. Kept(session) = live \ {victim}
    BY <1>4, <1>5 DEF Kept
  <1>7. s = victim
    BY <1>3, <1>6
  <1>8. victim \in live /\ \A t \in live :
          \/ affinity[victim].expires < affinity[t].expires
          \/ affinity[victim].expires = affinity[t].expires /\ victim <= t
    BY VictimExists
  <1>9. \A t \in live : affinity[t].expires \in Nat
    BY <1>2 DEF TableInv
  <1>10. MaxBindings \in Nat \ {0}
    BY DispatchAssumption
  <1> HIDE DEF victim
  <1>11. \A t \in live : affinity[s].expires <= affinity[t].expires
    BY <1>7, <1>8, <1>9
  <1>12. Cardinality(live) = MaxBindings
    <2>1. /\ Cardinality(live) \in Nat /\ Cardinality(live) <= Cardinality(DOMAIN affinity)
          /\ Cardinality(DOMAIN affinity) \in Nat
          /\ Cardinality(DOMAIN affinity) <= MaxBindings
      BY <1>2, FS_Subset, FS_CardinalityType DEF TableInv, TableBounded
    <2>2. QED
      BY <1>5, <1>10, <2>1
  <1>13. session \in DOMAIN affinity' \ DOMAIN affinity
    BY <1>1, <1>4
  <1>14. QED
    BY <1>11, <1>12, <1>13

\* Only binding a conversation changes the table.
LEMMA TableChanges ==
    ASSUME DispatchInv, [Next]_vars
    PROVE  \/ affinity' = affinity
           \/ \E session \in Sessions : \E a : Bind(session, a)
  <1>1. ASSUME NEW p \in Reqs, Begin(p)
        PROVE  affinity' = affinity \/ \E session \in Sessions : \E a : Bind(session, a)
    BY <1>1 DEF Begin
  <1>2. ASSUME NEW p \in Reqs, Reply(p)
        PROVE  affinity' = affinity \/ \E session \in Sessions : \E a : Bind(session, a)
    <2>1. req[p].session \in Sessions
      BY <1>2 DEF Reply, DispatchInv, Sound
    <2>2. Bind(req[p].session, Head(req[p].todo)) \/ affinity' = affinity
      BY <1>2 DEF Reply
    <2>3. QED
      BY <2>1, <2>2
  <1>3. ASSUME NEW p \in Reqs,
               AfterQuota(p) \/ AfterRefresh(p) \/ Check(p) \/ Send(p) \/ Cancel(p)
        PROVE  affinity' = affinity
    BY <1>3 DEF AfterQuota, AfterRefresh, Check, Send, Cancel
  <1>4. ASSUME NEW a \in Accounts,
               UserToggles(a) \/ UserDeletes(a) \/ GuardMoves(a) \/ Refreshes(a)
        PROVE  affinity' = affinity
    BY <1>4 DEF UserToggles, UserDeletes, GuardMoves, Refreshes, Becomes
  <1>5. CASE Tick \/ UNCHANGED vars
    BY <1>5 DEF Tick, vars
  <1>6. QED
    BY <1>1, <1>2, <1>3, <1>4, <1>5 DEF Next, Step

\* For any limit, any number of conversations and any schedule of requests: a binding
\* that has not expired is given up only for a new conversation in a table full of live
\* bindings, and only if none of these expires before it.
THEOREM BindingTheorem == Spec => LiveBindingsSurvive
  <1>1. ASSUME DispatchInv, [Next]_vars,
               NEW s \in Live(affinity) \ DOMAIN affinity'
        PROVE  /\ Cardinality(Live(affinity)) = MaxBindings
               /\ DOMAIN affinity' \ DOMAIN affinity # {}
               /\ \A t \in Live(affinity) : affinity[s].expires <= affinity[t].expires
    <2>1. affinity' # affinity
      BY DEF Live
    <2>2. PICK session \in Sessions : \E a : Bind(session, a)
      BY <1>1, <2>1, TableChanges
    <2>3. QED
      BY <1>1, <2>2, BindSurvives DEF DispatchInv
  <1>2. DispatchInv /\ [Next]_vars =>
          [\A s \in Live(affinity) \ DOMAIN affinity' :
             /\ Cardinality(Live(affinity)) = MaxBindings
             /\ DOMAIN affinity' \ DOMAIN affinity # {}
             /\ \A t \in Live(affinity) : affinity[s].expires <= affinity[t].expires]_vars
    BY <1>1
  <1>3. QED
    BY <1>2, DispatchInvariance, PTL DEF Spec, LiveBindingsSurvive

-----------------------------------------------------------------------------
\* Copilot's requests for a pause.

\* One request at a time.
Single == \A p, q \in Reqs : p = q

\* A pause that Copilot asked for is one the account is in, and not one that a new
\* session token ends; of what a lone request has ahead nothing is in such a pause.
RateInv ==
    /\ \A a \in Accounts : now < limited[a] =>
         limited[a] <= acct[a].cooldown /\ acct[a].kind = "rate"
    /\ Single => \A p \in Reqs : req[p].pc # "idle" =>
         \A i \in DOMAIN req[p].todo : now >= limited[req[p].todo[i]]

\* What the steps leave on a request's list was on it before.
Remains(r, old) ==
    r.pc # "idle" => \A i \in DOMAIN r.todo : \E j \in DOMAIN old.todo : r.todo[i] = old.todo[j]

LEMMA AdvanceRemains ==
    ASSUME NEW r, Walks(r), r.pc # "idle"
    PROVE  Advance(r).pc # "idle" =>
             \A i \in DOMAIN Advance(r).todo :
               \E j \in DOMAIN r.todo : j # 1 /\ Advance(r).todo[i] = r.todo[j]
  <1> SUFFICES ASSUME Advance(r).pc # "idle"
               PROVE  \A i \in DOMAIN Advance(r).todo :
                        \E j \in DOMAIN r.todo : j # 1 /\ Advance(r).todo[i] = r.todo[j]
    OBVIOUS
  <1>1. r \in Req /\ r.todo \in Seq(Accounts) /\ r.todo # <<>> /\ IsInjective(r.todo)
    BY DEF Walks, Req
  <1>2. Tail(r.todo) # <<>>
    BY DEF Advance, Idle
  <1> DEFINE rest == Tail(r.todo)
             shut == {a \in Accounts : Closed(acct[a])}
  <1>3. /\ DOMAIN rest = 1 .. Len(r.todo) - 1
        /\ \A i \in DOMAIN rest : rest[i] = r.todo[i + 1] /\ i + 1 \in DOMAIN r.todo
    BY <1>1, TailIsNew
  <1> HIDE DEF rest, shut
  <1>4. Advance(r) = [r EXCEPT !.pc = "quota", !.todo = rest, !.shut = shut]
    BY <1>2 DEF Advance, rest, shut
  <1>5. Advance(r).todo = rest
    BY <1>1, <1>4 DEF Req
  <1>6. ASSUME NEW i \in DOMAIN rest
        PROVE  \E j \in DOMAIN r.todo : j # 1 /\ rest[i] = r.todo[j]
    <2>1. i + 1 # 1
      BY <1>1, <1>3
    <2>2. QED
      BY <1>3, <2>1
  <1>7. QED
    BY <1>5, <1>6

\* Every step but Begin leaves of each list only what was on it.
LEMMA ListsShrink ==
    ASSUME DispatchInv, WalkInv, [Next]_vars, \A p \in Reqs : ~Begin(p),
           NEW q \in Reqs
    PROVE  Remains(req'[q], req[q]) /\ (req[q].pc = "idle" => req'[q].pc = "idle")
  <1> DEFINE Shrinks == Remains(req'[q], req[q])
                        /\ (req[q].pc = "idle" => req'[q].pc = "idle")
  <1>1. Walks(req[q]) /\ req[q] \in Req
    BY DEF WalkInv, Walks
  <1>2. CASE req' = req
    BY <1>2 DEF Remains
  <1>3. ASSUME NEW p \in Reqs, NEW r, req' = [req EXCEPT ![p] = r], Remains(r, req[p]),
               req[p].pc = "idle" => r.pc = "idle"
        PROVE  Shrinks
    <2>1. req'[q] = IF q = p THEN r ELSE req[q]
      BY <1>3 DEF DispatchInv
    <2>2. QED
      BY <1>3, <2>1 DEF Remains
  <1>4. ASSUME NEW p \in Reqs, Step(p) \/ Cancel(p) PROVE Shrinks
    <2>1. req[p].pc # "idle" /\ Walks(req[p]) /\ req[p] \in Req
      BY <1>4 DEF Step, AfterQuota, AfterRefresh, Check, Send, Reply, Cancel, WalkInv, Walks
    <2>2. CASE Skip(p)
      <3>1. Remains(Advance(req[p]), req[p])
        BY <2>1, AdvanceRemains DEF Remains
      <3>2. req' = [req EXCEPT ![p] = Advance(req[p])]
        BY <2>2, SkipIs
      <3>3. QED
        BY <1>3, <2>1, <3>1, <3>2
    <2>3. ASSUME NEW pc, Goto(p, pc) PROVE Shrinks
      <3>1. Remains([req[p] EXCEPT !.pc = pc], req[p])
        BY <2>1 DEF Remains, Req
      <3>2. QED
        BY <1>3, <2>1, <2>3, <3>1, GotoIs
    <2>4. CASE Send(p)
      <3> DEFINE tried == req[p].tried \cup {Head(req[p].todo)}
      <3>1. req' = [req EXCEPT ![p] = [req[p] EXCEPT !.pc = "wait", !.tried = tried]]
        BY <2>4 DEF Send
      <3> HIDE DEF tried
      <3>2. Remains([req[p] EXCEPT !.pc = "wait", !.tried = tried], req[p])
        BY <2>1 DEF Remains, Req
      <3>3. QED
        BY <1>3, <2>1, <3>1, <3>2
    <2>5. CASE req' = [req EXCEPT ![p] = Idle]
      BY <1>3, <2>5 DEF Remains, Idle
    <2>6. QED
      BY <1>4, <2>2, <2>3, <2>4, <2>5
         DEF Step, AfterQuota, AfterRefresh, Check, Reply, Cancel
  <1>5. ASSUME NEW a, NEW next, Becomes(a, next) PROVE Shrinks
    <2>1. CASE Closed(next)
      BY <1>2, <1>5, <2>1 DEF Becomes
    <2>2. CASE ~Closed(next)
      <3>1. req'[q] = [req[q] EXCEPT !.shut = @ \ {a}]
        BY <1>5, <2>2 DEF Becomes
      <3>2. req'[q].todo = req[q].todo /\ req'[q].pc = req[q].pc
        BY <1>1, <3>1 DEF Req
      <3>3. QED
        BY <3>2 DEF Remains
    <2>3. QED
      BY <2>1, <2>2
  <1>6. ASSUME NEW a \in Accounts,
               UserToggles(a) \/ UserDeletes(a) \/ GuardMoves(a) \/ Refreshes(a)
        PROVE  Shrinks
    BY <1>2, <1>5, <1>6 DEF UserToggles, UserDeletes, GuardMoves, Refreshes
  <1>7. CASE Tick \/ UNCHANGED vars
    BY <1>2, <1>7 DEF Tick, vars
  <1>8. QED
    BY <1>4, <1>6, <1>7 DEF Next

\* A request begins with usable accounts only.
LEMMA BeganUsable ==
    ASSUME DispatchInv, WalkInv, NEW p \in Reqs, Begin(p)
    PROVE  /\ req'[p].pc # "idle" => \A i \in DOMAIN req'[p].todo : req'[p].todo[i] \in Usable
           /\ \A q \in Reqs : q # p => req'[q] = req[q]
  <1>1. sequence + 1 \in Nat
    BY DEF WalkInv
  <1>2. PICK session \in Sessions :
          req' = [req EXCEPT ![p] =
                    Began(session, Promote(Ranked(sequence + 1), session))]
    BY DEF Begin
  <1> DEFINE list == Promote(Ranked(sequence + 1), session)
  <1>3. Lists(list, Usable)
    BY <1>1, PromotedLists
  <1> HIDE DEF list
  <1>4. \A i \in DOMAIN list : list[i] \in Usable
    BY <1>3 DEF Lists
  <1>5. req'[p] = Began(session, list) /\ \A q \in Reqs : q # p => req'[q] = req[q]
    BY <1>2 DEF DispatchInv, list
  <1>6. Began(session, list).pc # "idle" => Began(session, list).todo = list
    BY DEF Began, Idle
  <1>7. QED
    BY <1>4, <1>5, <1>6

\* A usable account is in no pause.
LEMMA UsableRested ==
    ASSUME DispatchInv, WalkInv, RateInv, NEW a \in Usable
    PROVE  now >= limited[a]
  <1>1. a \in Accounts /\ acct[a].cooldown \in Nat /\ limited[a] \in Nat /\ now \in Nat
        /\ now >= acct[a].cooldown
    BY UsableFinite DEF DispatchInv, WalkInv, TableInv, Account, Usable
  <1>2. now < limited[a] => limited[a] <= acct[a].cooldown
    BY <1>1 DEF RateInv
  <1>3. QED
    BY <1>1, <1>2

\* How a step changes the pauses: time passes, Copilot asks for one, a refused token
\* brings one, or another token ends one of these.
LEMMA PausesChange ==
    ASSUME DispatchInv, WalkInv, [Next]_vars, NEW a \in Accounts
    PROVE  \/ /\ limited'[a] = limited[a]
              /\ acct'[a].cooldown = acct[a].cooldown /\ acct'[a].kind = acct[a].kind
           \/ /\ limited'[a] = limited[a] /\ acct[a].kind = "auth"
           \/ /\ limited'[a] = acct'[a].cooldown /\ acct'[a].kind = "rate"
           \/ /\ limited'[a] = limited[a] /\ "auth" \in Results
              /\ \E p \in Reqs : req[p].pc # "idle" /\ Head(req[p].todo) = a
  <1> DEFINE Same == /\ limited'[a] = limited[a]
                     /\ acct'[a].cooldown = acct[a].cooldown
                     /\ acct'[a].kind = acct[a].kind
             Lifted == limited'[a] = limited[a] /\ acct[a].kind = "auth"
             Asked == limited'[a] = acct'[a].cooldown /\ acct'[a].kind = "rate"
             Refused == /\ limited'[a] = limited[a] /\ "auth" \in Results
                        /\ \E p \in Reqs : req[p].pc # "idle" /\ Head(req[p].todo) = a
  <1>1. acct \in [Accounts -> Account] /\ acct[a] \in Account
        /\ limited \in [Accounts -> Nat]
    BY DEF DispatchInv, WalkInv
  <1>2. ASSUME NEW b, NEW ok \in BOOLEAN, Refreshed(b, ok), limited' = limited
        PROVE  Same \/ Lifted
    <2> DEFINE over == ok /\ acct[b].kind = "auth"
               next == now + (IF ok THEN Fresh ELSE Pause)
               cooldown == IF over THEN 0 ELSE acct[b].cooldown
               kind == IF over THEN "" ELSE acct[b].kind
               x == [acct[b] EXCEPT !.nextRefresh = next, !.cooldown = cooldown,
                                    !.kind = kind]
    <2>1. acct' = [acct EXCEPT ![b] = x]
      BY <1>2 DEF Refreshed
    <2>2. CASE a # b
      <3> HIDE DEF x
      <3>1. acct'[a] = acct[a]
        BY <1>1, <2>1, <2>2
      <3>2. QED
        BY <1>2, <3>1
    <2>3. CASE a = b /\ ~over
      <3>1. cooldown = acct[a].cooldown /\ kind = acct[a].kind
        BY <2>3
      <3> HIDE DEF next, cooldown, kind, over
      <3>2. x.cooldown = cooldown /\ x.kind = kind
        BY <1>1, <2>3 DEF Account
      <3> HIDE DEF x
      <3>3. acct'[a] = x
        BY <1>1, <2>1, <2>3
      <3>4. QED
        BY <1>2, <3>1, <3>2, <3>3
    <2>4. CASE a = b /\ over
      BY <1>2, <2>4
    <2>5. QED
      BY <2>2, <2>3, <2>4
  <1>3. ASSUME NEW b, NEW next, Becomes(b, next), next.cooldown = acct[b].cooldown,
               next.kind = acct[b].kind
        PROVE  Same
    <2>1. limited' = limited /\ acct' = [acct EXCEPT ![b] = next]
      BY <1>3 DEF Becomes
    <2>2. acct'[a] = IF a = b THEN next ELSE acct[a]
      BY <1>1, <2>1
    <2>3. QED
      BY <1>3, <2>1, <2>2
  <1>4. ASSUME NEW b \in Accounts, UserToggles(b) \/ UserDeletes(b) \/ GuardMoves(b)
        PROVE  Same
    <2>1. acct[b] \in Account
      BY <1>1
    <2>2. \A off, blocked :
            /\ [acct[b] EXCEPT !.off = off].cooldown = acct[b].cooldown
            /\ [acct[b] EXCEPT !.off = off].kind = acct[b].kind
            /\ [acct[b] EXCEPT !.blocked = blocked].cooldown = acct[b].cooldown
            /\ [acct[b] EXCEPT !.blocked = blocked].kind = acct[b].kind
            /\ [acct[b] EXCEPT !.deleted = TRUE].cooldown = acct[b].cooldown
            /\ [acct[b] EXCEPT !.deleted = TRUE].kind = acct[b].kind
      BY <2>1 DEF Account
    <2>4. CASE UserToggles(b)
      BY <1>3, <2>2, <2>4 DEF UserToggles
    <2>5. CASE UserDeletes(b)
      BY <1>3, <2>2, <2>5 DEF UserDeletes
    <2>6. CASE GuardMoves(b)
      BY <1>3, <2>2, <2>6 DEF GuardMoves
    <2>7. QED
      BY <1>4, <2>4, <2>5, <2>6
  <1>5. ASSUME NEW p \in Reqs, Reply(p)
        PROVE  Same \/ Asked \/ Refused
    <2> DEFINE b == Head(req[p].todo)
    <2>1. PICK result \in Results :
            /\ limited' = IF result = "rate" THEN [limited EXCEPT ![b] = now + Pause]
                          ELSE limited
            /\ IF result \in {"ok", "client"} THEN acct' = acct
               ELSE RetryAccount(b, result)
      BY <1>5 DEF Reply
    <2>2. b \in Accounts /\ req[p].pc # "idle"
      BY <1>5, HeadWalks DEF Reply, WalkInv
    <2> HIDE DEF b
    <2>3. CASE a # b
      <3>1. limited'[a] = limited[a] /\ acct'[a] = acct[a]
        BY <1>1, <2>1, <2>3 DEF RetryAccount
      <3>2. QED
        BY <3>1
    <2>4. CASE a = b /\ result = "rate"
      <3>1. limited'[a] = now + Pause
        BY <1>1, <2>1, <2>4
      <3>2. acct' = [acct EXCEPT ![a] = [acct[a] EXCEPT !.cooldown = now + Pause,
                                                        !.kind = "rate"]]
        BY <2>1, <2>4 DEF RetryAccount
      <3>3. acct'[a] = [acct[a] EXCEPT !.cooldown = now + Pause, !.kind = "rate"]
        BY <1>1, <3>2
      <3> DEFINE until == now + Pause
      <3> HIDE DEF until
      <3>4. acct'[a] = [acct[a] EXCEPT !.cooldown = until, !.kind = "rate"]
        BY <3>3 DEF until
      <3>5. acct'[a].cooldown = until /\ acct'[a].kind = "rate"
        BY <1>1, <3>4 DEF Account
      <3>6. QED
        BY <3>1, <3>5 DEF until
    <2>5. CASE a = b /\ result = "auth"
      BY <1>1, <2>1, <2>2, <2>5 DEF b
    <2>6. CASE result \notin {"rate", "auth"}
      <3>1. acct' = acct /\ limited' = limited
        BY <1>1, <2>1, <2>6 DEF RetryAccount
      <3>2. QED
        BY <3>1
    <2>7. QED
      BY <2>3, <2>4, <2>5, <2>6
  <1>6. ASSUME NEW p \in Reqs, AfterRefresh(p) PROVE Same \/ Lifted
    BY <1>2, <1>6 DEF AfterRefresh
  <1>7. ASSUME NEW b \in Accounts, Refreshes(b) PROVE Same \/ Lifted
    BY <1>2, <1>7 DEF Refreshes
  <1>8. ASSUME NEW p \in Reqs,
               Begin(p) \/ AfterQuota(p) \/ Check(p) \/ Send(p) \/ Cancel(p)
        PROVE  Same
    BY <1>8 DEF Begin, AfterQuota, Check, Send, Cancel
  <1>9. CASE Tick \/ UNCHANGED vars
    BY <1>9 DEF Tick, vars
  <1>10. QED
    BY <1>4, <1>5, <1>6, <1>7, <1>8, <1>9 DEF Next, Step

LEMMA TimeMoves ==
    ASSUME DispatchInv, [Next]_vars
    PROVE  now \in Nat /\ now' \in Nat /\ now <= now'
  <1>1. now \in Nat
    BY DEF DispatchInv, TableInv
  <1>2. ASSUME NEW p \in Reqs, Begin(p) \/ Step(p) \/ Cancel(p) PROVE now' = now
    BY <1>2 DEF Begin, Step, AfterQuota, AfterRefresh, Check, Send, Reply, Cancel
  <1>3. ASSUME NEW a \in Accounts,
               UserToggles(a) \/ UserDeletes(a) \/ GuardMoves(a) \/ Refreshes(a)
        PROVE  now' = now
    BY <1>3 DEF UserToggles, UserDeletes, GuardMoves, Refreshes, Becomes
  <1>4. CASE Tick
    BY <1>1, <1>4 DEF Tick
  <1>5. CASE UNCHANGED vars
    BY <1>1, <1>5 DEF vars
  <1>6. now' = now \/ Tick \/ UNCHANGED vars
    BY <1>2, <1>3 DEF Next
  <1>7. QED
    BY <1>1, <1>4, <1>5, <1>6

\* What is ahead of a lone request is in no pause, also after its account asked for one.
LEMMA AheadRested ==
    ASSUME DispatchInv, WalkInv, RateInv, [Next]_vars, Single, NEW p \in Reqs,
           req'[p].pc # "idle", NEW i \in DOMAIN req'[p].todo
    PROVE  now' >= limited'[req'[p].todo[i]]
  <1>1. now \in Nat /\ now' \in Nat /\ now <= now'
    BY TimeMoves
  <1>2. \A a \in Accounts : limited[a] \in Nat
    BY DEF WalkInv
  <1>3. Walks(req[p])
    BY DEF WalkInv
  <1>4. CASE Begin(p)
    <2>1. req'[p].todo[i] \in Usable
      BY <1>4, BeganUsable
    <2>2. now >= limited[req'[p].todo[i]] /\ limited' = limited
      BY <1>4, <2>1, UsableRested DEF Begin
    <2>3. limited[req'[p].todo[i]] \in Nat
      BY <1>2, <2>1, UsableFinite
    <2>4. QED
      BY <1>1, <2>2, <2>3
  <1>5. CASE Reply(p)
    <2>1. req[p].pc # "idle" /\ req[p] \in Req /\ req[p].todo # <<>>
      BY <1>3, <1>5 DEF Reply, Walks
    <2>2. req'[p] # Idle
      BY DEF Idle
    <2>3. Skip(p)
      BY <1>5, <2>2 DEF Reply, DispatchInv
    <2>4. req'[p] = Advance(req[p])
      BY <2>3, SkipIs DEF DispatchInv
    <2>5. PICK j \in DOMAIN req[p].todo : j # 1 /\ req'[p].todo[i] = req[p].todo[j]
      BY <1>3, <2>1, <2>4, AdvanceRemains
    <2>6. req[p].todo \in Seq(Accounts) /\ IsInjective(req[p].todo)
      BY <1>3, <2>1 DEF Walks, Req
    <2>7. 1 \in DOMAIN req[p].todo /\ Head(req[p].todo) = req[p].todo[1]
      BY <2>1, <2>6
    <2>8. req[p].todo[j] # Head(req[p].todo) /\ req[p].todo[j] \in Accounts
      BY <2>5, <2>6, <2>7 DEF IsInjective
    <2>9. limited'[req[p].todo[j]] = limited[req[p].todo[j]] /\ now' = now
      BY <1>5, <2>8 DEF Reply, WalkInv
    <2>10. now >= limited[req[p].todo[j]]
      BY <2>1 DEF RateInv
    <2>11. QED
      BY <2>5, <2>9, <2>10
  <1>6. CASE ~Begin(p) /\ ~Reply(p)
    <2>1. \A q \in Reqs : q = p
      BY DEF Single
    <2>2. Remains(req'[p], req[p]) /\ req[p].pc # "idle"
      BY <1>6, <2>1, ListsShrink
    <2>3. PICK j \in DOMAIN req[p].todo : req'[p].todo[i] = req[p].todo[j]
      BY <2>2 DEF Remains
    <2>4. limited' = limited
      BY <1>6, <2>1 DEF Next, Step, vars, Begin, AfterQuota, AfterRefresh, Check, Send, Reply,
         Cancel, UserToggles, UserDeletes, GuardMoves, Refreshes, Becomes, Tick
    <2>5. now >= limited[req[p].todo[j]]
      BY <2>2 DEF RateInv
    <2>6. req[p].todo[j] \in Accounts
      BY <1>3 DEF Walks, Req
    <2>7. QED
      BY <1>1, <1>2, <2>3, <2>4, <2>5, <2>6
  <1>7. QED
    BY <1>4, <1>5, <1>6

\* A refused token changes the pause of an account that Copilot has asked to rest only
\* when several requests use it at once.
LEMMA RateNext ==
    ASSUME DispatchInv, WalkInv, RateInv, [Next]_vars, Single \/ "auth" \notin Results
    PROVE  RateInv'
  <1>1. now \in Nat /\ now' \in Nat /\ now <= now'
    BY TimeMoves
  <1>2. WalkInv' /\ DispatchInv'
    BY WalkNext, DispatchNext
  <1>3. ASSUME NEW a \in Accounts, now' < limited'[a]
        PROVE  limited'[a] <= acct'[a].cooldown /\ acct'[a].kind = "rate"
    <2>1. limited[a] \in Nat /\ limited'[a] \in Nat
      BY <1>2 DEF WalkInv
    <2>2. limited'[a] = limited[a] =>
            /\ now < limited[a] /\ limited[a] <= acct[a].cooldown
            /\ acct[a].kind = "rate"
      BY <1>1, <1>3, <2>1 DEF RateInv
    <2>3. CASE \E p \in Reqs : req[p].pc # "idle" /\ Head(req[p].todo) = a
               /\ limited'[a] = limited[a] /\ "auth" \in Results
      <3>1. PICK p \in Reqs : req[p].pc # "idle" /\ Head(req[p].todo) = a
                              /\ limited'[a] = limited[a] /\ "auth" \in Results
        BY <2>3
      <3>2. Single
        BY <3>1
      <3>3. req[p].todo \in Seq(Accounts) /\ req[p].todo # <<>>
        BY <3>1 DEF WalkInv, Walks, Req
      <3>4. 1 \in DOMAIN req[p].todo /\ req[p].todo[1] = a
        BY <3>1, <3>3
      <3>5. now >= limited[a]
        BY <3>1, <3>2, <3>4 DEF RateInv
      <3>6. QED
        BY <1>1, <2>1, <2>2, <3>1, <3>5
    <2>4. CASE limited'[a] = acct'[a].cooldown /\ acct'[a].kind = "rate"
      BY <2>1, <2>4
    <2>5. QED
      BY <2>2, <2>3, <2>4, PausesChange
  <1>4. Single => \A p \in Reqs : req'[p].pc # "idle" =>
           \A i \in DOMAIN req'[p].todo : now' >= limited'[req'[p].todo[i]]
    BY AheadRested
  <1>5. Single' = Single
    BY DEF Single
  <1>6. QED
    BY <1>3, <1>4, <1>5 DEF RateInv

LEMMA RateInit == Init => RateInv
  <1> SUFFICES ASSUME Init PROVE RateInv
    OBVIOUS
  <1>1. now = 1 /\ \A a \in Accounts : limited[a] = 0
    BY DEF Init
  <1>2. \A p \in Reqs : req[p].pc = "idle"
    BY DEF Init, Idle
  <1>3. QED
    BY <1>1, <1>2 DEF RateInv

\* An account that answered 429 rests until its pause is over: no request has it on its
\* list before.  This needs requests one at a time, or no refused token: with both, a
\* refusal that comes after the 429 turns the pause into one that the next session
\* token ends.
THEOREM RateTheorem ==
    ASSUME Single \/ "auth" \notin Results
    PROVE  Spec => RateLimitRespected
  <1>1. DispatchInv /\ WalkInv /\ RateInv /\ [Next]_vars => RateInv'
    BY RateNext
  <1>2. Spec => []RateInv
    BY <1>1, RateInit, DispatchInvariance, WalkInvariance, PTL DEF Spec
  <1>3. DispatchInv /\ WalkInv /\ RateInv /\ [Next]_vars =>
          [\A p \in Reqs :
             req[p].pc = "idle" /\ req'[p].pc # "idle" =>
               \A a \in Range(req'[p].todo) : now >= limited[a]]_vars
    <2> SUFFICES ASSUME DispatchInv, WalkInv, RateInv, Next, NEW p \in Reqs,
                        req[p].pc = "idle", req'[p].pc # "idle",
                        NEW a \in Range(req'[p].todo)
                 PROVE  now >= limited[a]
      OBVIOUS
    <2>1. PICK q \in Reqs : Begin(q)
      BY ListsShrink
    <2>2. q = p
      BY <2>1, BeganUsable
    <2>3. a \in Usable
      BY <2>1, <2>2, BeganUsable DEF Range
    <2>4. QED
      BY <2>3, UsableRested
  <1>4. QED
    BY <1>2, <1>3, DispatchInvariance, WalkInvariance, PTL DEF Spec, RateLimitRespected

-----------------------------------------------------------------------------
\* One account for a conversation.

\* Nothing moves a request on from its first account but a deletion: the conversation
\* sticks, accounts are not closed and opened again, and Copilot's answers, its token
\* and its models are there.
Steady ==
    /\ Affinity
    /\ Env \cap {"users", "guard", "models", "outage"} = {}
    /\ Results \subseteq {"ok", "client"}

\* No binding has been lost yet.
Unlost ==
    /\ now <= TTL /\ Cardinality(DOMAIN affinity) < MaxBindings
    /\ \A a \in Accounts : ~acct[a].deleted

\* While no binding is lost, a request at work is at the first account of its list and
\* its conversation bound to that one; no binding made so far expires before TTL.
FanInv ==
    /\ \A a \in Accounts : ~acct[a].off /\ ~acct[a].blocked /\ acct[a].cooldown = 0
    /\ now <= TTL => \A s \in DOMAIN affinity : affinity[s].expires > TTL
    /\ Unlost => \A p \in Reqs : req[p].pc # "idle" =>
         /\ req[p].session \in DOMAIN affinity
         /\ affinity[req[p].session].id = req[p].first
         /\ req[p].first = Head(req[p].todo)

\* The table does not shrink below its limit again while nothing expires.
LEMMA BindStaysFull ==
    ASSUME TableInv, FanInv, NEW session \in Sessions, NEW a, Bind(session, a), now <= TTL,
           Cardinality(DOMAIN affinity') < MaxBindings
    PROVE  /\ DOMAIN affinity' = DOMAIN affinity \cup {session}
           /\ session \in DOMAIN affinity \/ Cardinality(DOMAIN affinity) < MaxBindings
           /\ Cardinality(DOMAIN affinity) < MaxBindings
  <1> DEFINE D == DOMAIN affinity
  <1>1. DOMAIN affinity' = Kept(session) \cup {session}
    BY DEF Bind
  <1>2. MaxBindings \in Nat /\ TTL \in Nat
    BY DispatchAssumption
  <1>3. IsFiniteSet(D) /\ Cardinality(D) \in Nat /\ Cardinality(D) <= MaxBindings
        /\ now \in Nat
    BY FS_CardinalityType DEF TableInv, TableBounded
  <1>4. CASE session \in D \/ Cardinality(D) < MaxBindings
    <2>1. Kept(session) = D
      BY <1>4 DEF Kept
    <2>2. session \in D => Cardinality(D) < MaxBindings
      <3>1. session \in D => D \cup {session} = D
        OBVIOUS
      <3>2. QED
        BY <1>1, <2>1, <3>1
    <2>3. QED
      BY <1>1, <1>4, <2>1, <2>2
  <1>5. CASE session \notin D /\ ~(Cardinality(D) < MaxBindings)
    <2>1. Cardinality(D) = MaxBindings
      BY <1>2, <1>3, <1>5
    <2>2. Live(affinity) = D
      <3>1. \A s \in D : affinity[s].expires > now
        BY <1>2, <1>3 DEF FanInv, TableInv
      <3>2. QED
        BY <3>1 DEF Live
    <2> DEFINE victim == CHOOSE s \in Live(affinity) : \A t \in Live(affinity) :
                           \/ affinity[s].expires < affinity[t].expires
                           \/ affinity[s].expires = affinity[t].expires /\ s <= t
    <2>3. Kept(session) = D \ {victim}
      BY <1>2, <1>5, <2>1, <2>2 DEF Kept
    <2> HIDE DEF victim, D
    <2>4. /\ IsFiniteSet(D \ {victim})
          /\ Cardinality(D \ {victim}) \in Nat
          /\ Cardinality(D \ {victim}) >= Cardinality(D) - 1
      <3>1. /\ IsFiniteSet(D \ {victim})
            /\ Cardinality(D \ {victim}) =
                 IF victim \in D THEN Cardinality(D) - 1 ELSE Cardinality(D)
        BY <1>3, FS_RemoveElement
      <3>2. Cardinality(D \ {victim}) \in Nat
        BY <3>1, FS_CardinalityType
      <3>3. QED
        BY <1>3, <3>1, <3>2
    <2>5. Cardinality((D \ {victim}) \cup {session}) = Cardinality(D \ {victim}) + 1
      BY <1>5, <2>4, FS_AddElement
    <2>6. QED
      BY <1>1, <1>2, <1>3, <2>1, <2>3, <2>4, <2>5
  <1>6. QED
    BY <1>4, <1>5

\* The binding made last is the conversation's, the others are as they were.
LEMMA BindIs ==
    ASSUME TableInv, NEW session \in Sessions, NEW a, Bind(session, a)
    PROVE  /\ session \in DOMAIN affinity' /\ affinity'[session].id = a
           /\ affinity'[session].expires = now + TTL
           /\ \A s \in DOMAIN affinity' : s # session =>
                s \in DOMAIN affinity /\ affinity'[s] = affinity[s]
  <1>1. Kept(session) \subseteq DOMAIN affinity
    BY KeptLeavesRoom
  <1>2. QED
    BY <1>1 DEF Bind

LEMMA BindLasts ==
    ASSUME TableInv, WalkInv, FanInv, NEW session \in Sessions, NEW a,
           Bind(session, a) \/ affinity' = affinity, now <= TTL
    PROVE  \A s \in DOMAIN affinity' : affinity'[s].expires > TTL
  <1>1. now + TTL > TTL
    BY DispatchAssumption DEF WalkInv
  <1>2. CASE affinity' = affinity
    BY <1>2 DEF FanInv
  <1>3. CASE Bind(session, a)
    BY <1>1, <1>3, BindIs DEF FanInv
  <1>4. QED
    BY <1>2, <1>3

\* Where no account is closed, every one is on the list.
LEMMA AllUsable ==
    ASSUME DispatchInv, WalkInv, FanInv, Unlost
    PROVE  Usable = Accounts
  BY DEF DispatchInv, WalkInv, FanInv, Unlost, Usable, Shut, Closed

LEMMA BoundIs ==
    ASSUME DispatchInv, WalkInv, FanInv, Unlost, NEW session \in DOMAIN affinity
    PROVE  Bound(session) = {affinity[session].id}
  <1>1. affinity[session].expires > now
    BY DispatchAssumption DEF FanInv, Unlost, WalkInv, DispatchInv, TableInv
  <1>2. QED
    BY <1>1 DEF Bound

LEMMA BeginFans ==
    ASSUME DispatchInv, WalkInv, FanInv, Affinity, NEW p \in Reqs, Begin(p)
    PROVE  FanInv'
  <1>1. sequence + 1 \in Nat /\ now' = now /\ acct' = acct
    BY DEF Begin, WalkInv
  <1>2. PICK session \in Sessions :
          LET list == Promote(Ranked(sequence + 1), session) IN
          /\ req' = [req EXCEPT ![p] = Began(session, list)]
          /\ IF Affinity /\ list # <<>> /\ Bound(session) \cap Range(list) = {}
             THEN Bind(session, Head(list))
             ELSE UNCHANGED affinity
    BY DEF Begin
  <1> DEFINE list == Promote(Ranked(sequence + 1), session)
  <1>3. Lists(list, Usable) /\ Lists(Ranked(sequence + 1), Usable)
    BY <1>1, PromotedLists, RankedLists
  <1>4. Bound(session) \cap Range(Ranked(sequence + 1)) # {} => Head(list) \in Bound(session)
    BY <1>1, PromotedLists
  <1>5. Range(Ranked(sequence + 1)) = Usable /\ Range(list) = Usable
    BY <1>3 DEF Lists, Range
  <1> HIDE DEF list
  <1>6. /\ req' = [req EXCEPT ![p] = Began(session, list)]
        /\ IF list # <<>> /\ Bound(session) \cap Usable = {}
           THEN Bind(session, Head(list))
           ELSE affinity' = affinity
    BY <1>2, <1>5 DEF list
  <1>7. now' <= TTL => \A s \in DOMAIN affinity' : affinity'[s].expires > TTL
    BY <1>1, <1>6, BindLasts DEF DispatchInv
  <1>8. Unlost' => Unlost
    <2>1. SUFFICES ASSUME Unlost' PROVE Unlost
      OBVIOUS
    <2>2. now <= TTL /\ \A a \in Accounts : ~acct[a].deleted
      BY <1>1, <2>1 DEF Unlost
    <2>3. Cardinality(DOMAIN affinity') < MaxBindings
      BY <2>1 DEF Unlost
    <2>4. CASE affinity' = affinity
      BY <2>2, <2>3, <2>4 DEF Unlost
    <2>5. CASE Bind(session, Head(list))
      BY <2>2, <2>3, <2>5, BindStaysFull DEF Unlost, DispatchInv
    <2>6. QED
      BY <1>6, <2>4, <2>5
  <1>9. ASSUME Unlost', NEW q \in Reqs, req'[q].pc # "idle"
        PROVE  /\ req'[q].session \in DOMAIN affinity'
               /\ affinity'[req'[q].session].id = req'[q].first
               /\ req'[q].first = Head(req'[q].todo)
    <2>1. Unlost /\ Usable = Accounts
      BY <1>8, <1>9, AllUsable
    <2>2. CASE q = p
      <3>1. req'[q] = Began(session, list)
        BY <1>6, <2>2 DEF DispatchInv
      <3>2. list # <<>>
        BY <1>9, <3>1 DEF Began, Idle
      <3>3. req'[q].session = session /\ req'[q].first = Head(list)
            /\ req'[q].todo = list
        BY <3>1, <3>2 DEF Began
      <3>4. CASE Bound(session) \cap Usable = {}
        <4>1. Bind(session, Head(list))
          BY <1>6, <3>2, <3>4
        <4>2. QED
          BY <3>3, <4>1, BindIs DEF DispatchInv
      <3>5. CASE Bound(session) \cap Usable # {}
        <4>1. affinity' = affinity /\ Head(list) \in Bound(session)
          BY <1>4, <1>5, <1>6, <3>5
        <4>2. session \in DOMAIN affinity /\ affinity[session].id = Head(list)
          BY <4>1 DEF Bound
        <4>3. QED
          BY <3>3, <4>1, <4>2
      <3>6. QED
        BY <3>4, <3>5
    <2>3. CASE q # p
      <3>1. req'[q] = req[q]
        BY <1>6, <2>3 DEF DispatchInv
      <3>2. /\ req[q].session \in DOMAIN affinity
            /\ affinity[req[q].session].id = req[q].first
            /\ req[q].first = Head(req[q].todo)
        BY <1>9, <2>1, <3>1 DEF FanInv
      <3>3. CASE affinity' = affinity
        BY <3>1, <3>2, <3>3
      <3>4. CASE Bind(session, Head(list)) /\ Bound(session) \cap Usable = {}
        <4>1. req[q].session # session
          <5>1. SUFFICES ASSUME req[q].session = session PROVE FALSE
            OBVIOUS
          <5>2. session \in DOMAIN affinity
            BY <3>2, <5>1
          <5>3. affinity[session].id \in Accounts
            BY <5>2 DEF WalkInv, Binding
          <5>4. QED
            BY <2>1, <3>4, <5>2, <5>3, BoundIs
        <4>2. DOMAIN affinity' = DOMAIN affinity \cup {session}
          BY <1>1, <1>9, <2>1, <3>4, BindStaysFull DEF Unlost, DispatchInv
        <4>3. req[q].session \in DOMAIN affinity'
          BY <3>2, <4>2
        <4>4. affinity'[req[q].session] = affinity[req[q].session]
          BY <3>4, <4>1, <4>3, BindIs DEF DispatchInv
        <4>5. QED
          BY <3>1, <3>2, <4>3, <4>4
      <3>5. QED
        BY <1>6, <3>3, <3>4
    <2>4. QED
      BY <2>2, <2>3
  <1>10. \A a \in Accounts : ~acct'[a].off /\ ~acct'[a].blocked /\ acct'[a].cooldown = 0
    BY <1>1 DEF FanInv
  <1>11. QED
    BY <1>7, <1>9, <1>10 DEF FanInv

\* An answer ends the request, and binds its conversation to the account it is bound to.
LEMMA ReplyFans ==
    ASSUME DispatchInv, WalkInv, FanInv, Steady, NEW p \in Reqs, Reply(p)
    PROVE  FanInv'
  <1>1. now' = now /\ req[p].pc = "wait" /\ req[p].session \in Sessions
    BY HeadWalks DEF Reply, WalkInv
  <1>2. PICK result \in Results :
          /\ IF result = "ok" /\ Affinity THEN Bind(req[p].session, Head(req[p].todo))
             ELSE UNCHANGED affinity
          /\ IF result \in {"ok", "client"}
             THEN req' = [req EXCEPT ![p] = Idle] /\ UNCHANGED acct
             ELSE RetryAccount(Head(req[p].todo), result) /\ Skip(p)
    BY DEF Reply
  <1>3. req' = [req EXCEPT ![p] = Idle] /\ acct' = acct
    BY <1>2 DEF Steady
  <1>4. Bind(req[p].session, Head(req[p].todo)) \/ affinity' = affinity
    BY <1>2
  <1>5. now' <= TTL => \A s \in DOMAIN affinity' : affinity'[s].expires > TTL
    BY <1>1, <1>4, BindLasts DEF DispatchInv
  <1>6. Unlost' => Unlost
    <2>1. SUFFICES ASSUME Unlost' PROVE Unlost
      OBVIOUS
    <2>2. now <= TTL /\ \A a \in Accounts : ~acct[a].deleted
      BY <1>1, <1>3, <2>1 DEF Unlost
    <2>3. Cardinality(DOMAIN affinity') < MaxBindings
      BY <2>1 DEF Unlost
    <2>4. CASE affinity' = affinity
      BY <2>2, <2>3, <2>4 DEF Unlost
    <2>5. CASE Bind(req[p].session, Head(req[p].todo))
      BY <1>1, <2>2, <2>3, <2>5, BindStaysFull DEF Unlost, DispatchInv
    <2>6. QED
      BY <1>4, <2>4, <2>5
  <1>7. ASSUME Unlost', NEW q \in Reqs, req'[q].pc # "idle"
        PROVE  /\ req'[q].session \in DOMAIN affinity'
               /\ affinity'[req'[q].session].id = req'[q].first
               /\ req'[q].first = Head(req'[q].todo)
    <2>1. req'[q] = req[q]
      BY <1>3, <1>7 DEF DispatchInv, Idle
    <2>2. /\ req[q].session \in DOMAIN affinity
          /\ affinity[req[q].session].id = req[q].first
          /\ req[q].first = Head(req[q].todo)
      BY <1>6, <1>7, <2>1 DEF FanInv
    <2>3. CASE affinity' = affinity
      BY <2>1, <2>2, <2>3
    <2>4. CASE Bind(req[p].session, Head(req[p].todo))
      <3>1. DOMAIN affinity' = DOMAIN affinity \cup {req[p].session}
        BY <1>1, <1>6, <1>7, <2>4, BindStaysFull DEF Unlost, DispatchInv
      <3>2. CASE req[q].session # req[p].session
        <4>1. affinity'[req[q].session] = affinity[req[q].session]
          BY <1>1, <2>2, <2>4, <3>1, <3>2, BindIs DEF DispatchInv
        <4>2. QED
          BY <2>1, <2>2, <3>1, <4>1
      <3>3. CASE req[q].session = req[p].session
        <4>1. affinity[req[p].session].id = Head(req[p].todo)
          BY <1>1, <1>6, <1>7 DEF FanInv
        <4>2. affinity'[req[p].session].id = Head(req[p].todo)
          BY <1>1, <2>4, BindIs DEF DispatchInv
        <4>3. QED
          BY <2>1, <2>2, <3>1, <3>3, <4>1, <4>2
      <3>4. QED
        BY <3>2, <3>3
    <2>5. QED
      BY <1>4, <2>3, <2>4
  <1>8. \A a \in Accounts : ~acct'[a].off /\ ~acct'[a].blocked /\ acct'[a].cooldown = 0
    BY <1>3 DEF FanInv
  <1>9. QED
    BY <1>5, <1>7, <1>8 DEF FanInv

\* Steps that bind nothing.
LEMMA QuietFans ==
    ASSUME FanInv, affinity' = affinity, now' = now,
           \A a \in Accounts : /\ ~acct'[a].off /\ ~acct'[a].blocked
                               /\ acct'[a].cooldown = 0
                               /\ acct[a].deleted => acct'[a].deleted,
           Unlost' => \A p \in Reqs : req'[p].pc # "idle" =>
             /\ req[p].pc # "idle" /\ req'[p].session = req[p].session
             /\ req'[p].first = req[p].first /\ Head(req'[p].todo) = Head(req[p].todo)
    PROVE  FanInv'
  <1>1. Unlost' => Unlost
    BY DEF Unlost
  <1>2. QED
    BY <1>1 DEF FanInv

\* One request moves, to a later step with the same account unless one is deleted.
LEMMA MoveFans ==
    ASSUME DispatchInv, FanInv, NEW p \in Reqs, NEW r, req' = [req EXCEPT ![p] = r],
           affinity' = affinity, now' = now,
           \A a \in Accounts : /\ ~acct'[a].off /\ ~acct'[a].blocked
                               /\ acct'[a].cooldown = 0
                               /\ acct[a].deleted => acct'[a].deleted,
           Unlost' /\ r.pc # "idle" =>
             /\ req[p].pc # "idle" /\ r.session = req[p].session
             /\ r.first = req[p].first /\ r.todo = req[p].todo
    PROVE  FanInv'
  <1>1. \A q \in Reqs : req'[q] = IF q = p THEN r ELSE req[q]
    BY DEF DispatchInv
  <1>2. QED
    BY <1>1, QuietFans

LEMMA RefreshedFans ==
    ASSUME DispatchInv, FanInv, NEW a, NEW ok \in BOOLEAN, Refreshed(a, ok)
    PROVE  \A b \in Accounts : /\ ~acct'[b].off /\ ~acct'[b].blocked
                               /\ acct'[b].cooldown = 0
                               /\ acct[b].deleted => acct'[b].deleted
  <1>1. acct \in [Accounts -> Account]
    BY DEF DispatchInv
  <1>2. SUFFICES ASSUME NEW b \in Accounts
                 PROVE  /\ ~acct'[b].off /\ ~acct'[b].blocked /\ acct'[b].cooldown = 0
                        /\ acct[b].deleted => acct'[b].deleted
    OBVIOUS
  <1>3. acct[b] \in Account /\ ~acct[b].off /\ ~acct[b].blocked /\ acct[b].cooldown = 0
    BY <1>1 DEF FanInv
  <1> DEFINE over == ok /\ acct[a].kind = "auth"
             next == now + (IF ok THEN Fresh ELSE Pause)
             cooldown == IF over THEN 0 ELSE acct[a].cooldown
             kind == IF over THEN "" ELSE acct[a].kind
             x == [acct[a] EXCEPT !.nextRefresh = next, !.cooldown = cooldown,
                                  !.kind = kind]
  <1>4. acct' = [acct EXCEPT ![a] = x]
    BY DEF Refreshed
  <1>5. CASE a # b
    <2> HIDE DEF x
    <2>1. acct'[b] = acct[b]
      BY <1>1, <1>4, <1>5
    <2>2. QED
      BY <1>3, <2>1
  <1>6. CASE a = b
    <2>1. cooldown = 0
      BY <1>3, <1>6
    <2> HIDE DEF over, next, cooldown, kind
    <2>2. x.cooldown = cooldown /\ x.off = acct[b].off /\ x.blocked = acct[b].blocked
          /\ x.deleted = acct[b].deleted
      BY <1>3, <1>6 DEF Account
    <2> HIDE DEF x
    <2>3. acct'[b] = x
      BY <1>1, <1>4, <1>6
    <2>4. QED
      BY <1>3, <2>1, <2>2, <2>3
  <1>7. QED
    BY <1>5, <1>6

LEMMA StepFans ==
    ASSUME DispatchInv, WalkInv, FanInv, Steady, NEW p \in Reqs,
           AfterQuota(p) \/ AfterRefresh(p) \/ Check(p) \/ Send(p) \/ Cancel(p)
    PROVE  FanInv'
  <1>1. Walks(req[p]) /\ req[p] \in Req /\ req[p].pc # "idle"
        /\ Head(req[p].todo) \in Accounts
    BY HeadWalks DEF AfterQuota, AfterRefresh, Check, Send, Cancel, WalkInv, Walks
  <1>2. affinity' = affinity /\ now' = now
    BY DEF AfterQuota, AfterRefresh, Check, Send, Cancel
  <1>3. \A a \in Accounts : /\ ~acct'[a].off /\ ~acct'[a].blocked
                            /\ acct'[a].cooldown = 0
                            /\ acct[a].deleted => acct'[a].deleted
    <2>1. CASE acct' = acct
      BY <2>1 DEF FanInv
    <2>2. CASE \E ok \in BOOLEAN : Refreshed(Head(req[p].todo), ok)
      BY <2>2, RefreshedFans
    <2>3. QED
      BY <2>1, <2>2 DEF AfterQuota, AfterRefresh, Check, Send, Cancel
  <1>4. CASE Skip(p) /\ acct[Head(req[p].todo)].deleted
    <2>1. ~Unlost'
      BY <1>1, <1>3, <1>4 DEF Unlost
    <2>2. QED
      BY <1>2, <1>3, <1>4, <2>1, SkipIs, MoveFans
  <1>5. ASSUME NEW pc, Goto(p, pc) PROVE FanInv'
    <2> DEFINE r == [req[p] EXCEPT !.pc = pc]
    <2>1. r.session = req[p].session /\ r.first = req[p].first /\ r.todo = req[p].todo
      BY <1>1 DEF Req
    <2>2. req' = [req EXCEPT ![p] = r]
      BY <1>5, GotoIs
    <2> HIDE DEF r
    <2>3. QED
      BY <1>1, <1>2, <1>3, <2>1, <2>2, MoveFans
  <1>6. CASE Send(p)
    <2> DEFINE tried == req[p].tried \cup {Head(req[p].todo)}
               r == [req[p] EXCEPT !.pc = "wait", !.tried = tried]
    <2>1. req' = [req EXCEPT ![p] = r]
      BY <1>6 DEF Send
    <2> HIDE DEF tried
    <2>2. r.session = req[p].session /\ r.first = req[p].first /\ r.todo = req[p].todo
      BY <1>1 DEF Req
    <2> HIDE DEF r
    <2>3. QED
      BY <1>1, <1>2, <1>3, <2>1, <2>2, MoveFans
  <1>7. CASE Cancel(p)
    <2>1. req' = [req EXCEPT ![p] = Idle] /\ Idle.pc = "idle"
      BY <1>7 DEF Cancel, Idle
    <2>2. QED
      BY <1>2, <1>3, <2>1, MoveFans
  <1>8. Shut(Head(req[p].todo)) => acct[Head(req[p].todo)].deleted
    BY <1>1 DEF Shut, Closed, FanInv
  <1>9. QED
    BY <1>4, <1>5, <1>6, <1>7, <1>8 DEF AfterQuota, AfterRefresh, Check, Steady

LEMMA EnvironmentFans ==
    ASSUME DispatchInv, WalkInv, FanInv, Steady,
           \/ \E a \in Accounts : \/ UserToggles(a) \/ UserDeletes(a)
                                  \/ GuardMoves(a) \/ Refreshes(a)
           \/ Tick \/ UNCHANGED vars
    PROVE  FanInv'
  <1>1. CASE \E a \in Accounts : Refreshes(a)
    <2>1. PICK a \in Accounts, ok \in BOOLEAN : Refreshed(a, ok)
      BY <1>1 DEF Refreshes
    <2>2. req' = req /\ affinity' = affinity /\ now' = now
      BY <1>1 DEF Refreshes
    <2>3. QED
      BY <2>1, <2>2, RefreshedFans, QuietFans
  <1>2. CASE \E a \in Accounts : UserDeletes(a)
    <2>1. PICK a \in Accounts : UserDeletes(a)
      BY <1>2
    <2> DEFINE x == [acct[a] EXCEPT !.deleted = TRUE]
    <2>2. acct[a] \in Account /\ acct \in [Accounts -> Account]
      BY DEF DispatchInv
    <2>3. x.deleted /\ x.off = acct[a].off /\ x.blocked = acct[a].blocked
          /\ x.cooldown = acct[a].cooldown
      BY <2>2 DEF Account
    <2>4. acct' = [acct EXCEPT ![a] = x] /\ affinity' = affinity /\ now' = now
      BY <2>1 DEF UserDeletes, Becomes
    <2> HIDE DEF x
    <2>5. \A b \in Accounts : acct'[b] = IF b = a THEN x ELSE acct[b]
      BY <2>2, <2>4
    <2>6. \A b \in Accounts : /\ ~acct'[b].off /\ ~acct'[b].blocked
                              /\ acct'[b].cooldown = 0
                              /\ acct[b].deleted => acct'[b].deleted
      BY <2>3, <2>5 DEF FanInv
    <2>7. ~Unlost'
      BY <2>3, <2>5 DEF Unlost
    <2>8. QED
      BY <2>4, <2>6, <2>7, QuietFans
  <1>3. CASE Tick
    <2>1. affinity' = affinity /\ acct' = acct /\ req' = req /\ now' = now + 1 /\ now \in Nat
          /\ TTL \in Nat
      BY <1>3, DispatchAssumption DEF Tick, DispatchInv, TableInv
    <2>2. now' <= TTL => now <= TTL
      BY <2>1
    <2>3. QED
      BY <2>1, <2>2 DEF FanInv, Unlost
  <1>4. CASE UNCHANGED vars
    BY <1>4 DEF vars, FanInv, Unlost
  <1>5. QED
    BY <1>1, <1>2, <1>3, <1>4 DEF UserToggles, GuardMoves, Steady

\* However many requests of a conversation overlap, the first ones included, they start
\* with the same account, as long as no binding has expired or been given up, no account
\* is deleted and nothing sends requests on to other accounts.
THEOREM FanTheorem ==
    ASSUME Steady
    PROVE  Spec => []OneAccountPerConversation
  <1>1. Init => FanInv
    <2> SUFFICES ASSUME Init PROVE FanInv
      OBVIOUS
    <2>1. DOMAIN affinity = {} /\ \A p \in Reqs : req[p].pc = "idle"
      BY DEF Init, Idle
    <2>2. \A a \in Accounts : ~acct[a].off /\ ~acct[a].blocked /\ acct[a].cooldown = 0
      BY DEF Init
    <2>3. QED
      BY <2>1, <2>2 DEF FanInv
  <1>2. DispatchInv /\ WalkInv /\ FanInv /\ [Next]_vars => FanInv'
    <2>1. Affinity
      BY DEF Steady
    <2>2. QED
      BY <2>1, BeginFans, ReplyFans, StepFans, EnvironmentFans DEF Next, Step
  <1>3. FanInv => OneAccountPerConversation
    <2> SUFFICES ASSUME FanInv, now <= TTL, Cardinality(DOMAIN affinity) < MaxBindings,
                        Usable = Accounts, NEW p \in Reqs, NEW q \in Reqs,
                        req[p].pc # "idle", req[q].pc # "idle",
                        req[p].session = req[q].session
                 PROVE  req[p].first = req[q].first
      BY DEF OneAccountPerConversation
    <2>1. Unlost
      BY DEF Unlost, Usable, Shut, Closed
    <2>2. QED
      BY <2>1 DEF FanInv
  <1>4. QED
    BY <1>1, <1>2, <1>3, DispatchInvariance, WalkInvariance, PTL DEF Spec

LEMMA TimesMonotonic ==
    ASSUME NEW n \in Nat \ {0}, NEW a \in Int, NEW b \in Int
    PROVE  /\ n * a \in Int
           /\ n * (a + 1) = n * a + n
           /\ a <= b => n * a <= n * b
           /\ a < b => n * a + n <= n * b
  <1>1. n * a \in Int /\ n * (a + 1) = n * a + n
    OBVIOUS
  <1>2. a <= b => n * a <= n * b
    OBVIOUS
  <1>3. a < b => n * a + n <= n * b
    OBVIOUS
  <1>4. QED
    BY <1>1, <1>2, <1>3

LEMMA DivisionIs ==
    ASSUME NEW n \in Nat \ {0}, NEW x \in Nat
    PROVE  \E q \in Nat : x = n * q + (x % n) /\ x % n \in 0 .. n - 1
  <1>1. x = n * (x \div n) + (x % n)
    OBVIOUS
  <1>2. x % n \in 0 .. n - 1
    OBVIOUS
  <1>3. x \div n \in Nat
    OBVIOUS
  <1>4. QED
    BY <1>1, <1>2, <1>3

LEMMA RestIs ==
    ASSUME NEW n \in Nat \ {0}, NEW q \in Nat, NEW r \in 0 .. n - 1
    PROVE  (n * q + r) % n = r
  OBVIOUS

\* Of n * n consecutive numbers, n leave a given rest when divided by n.
LEMMA RestsShared ==
    ASSUME NEW n \in Nat \ {0}, NEW s \in Nat, NEW i \in 0 .. n - 1
    PROVE  Cardinality({k \in 1 .. n * n : (s + k) % n = i}) = n
  <1> DEFINE K == {k \in 1 .. n * n : (s + k) % n = i}
             c == (s + n - i) % n
             f == [m \in 1 .. n |-> n * m - c]
  <1>1. s + n - i \in Nat
    OBVIOUS
  <1>2. PICK q \in Nat : s + n - i = n * q + c /\ c \in 0 .. n - 1
    BY <1>1, DivisionIs
  <1> HIDE DEF c, K
  <1>3. n * n \in Nat
    OBVIOUS
  <1>4. ASSUME NEW m \in 1 .. n PROVE f[m] \in K
    <2>1. n * m \in Int /\ n <= n * m /\ n * m <= n * n
      <3>1. 1 \in Int /\ m \in Int /\ n \in Int /\ 1 <= m /\ m <= n
        OBVIOUS
      <3>2. n * 1 <= n * m /\ n * m <= n * n
        BY <3>1, TimesMonotonic
      <3>3. QED
        BY <3>2
    <2>2. f[m] \in 1 .. n * n
      BY <1>2, <1>3, <2>1
    <2>3. s + f[m] = n * (q + m - 1) + i
      <3>1. n * (q + m - 1) = n * q + n * m - n
        OBVIOUS
      <3>2. s + f[m] = s + n * m - c
        BY <1>2, <2>1
      <3>3. n * q \in Int
        OBVIOUS
      <3>4. QED
        BY <1>2, <2>1, <3>1, <3>2, <3>3
    <2>4. q + m - 1 \in Nat
      OBVIOUS
    <2>5. (s + f[m]) % n = i
      BY <2>3, <2>4, RestIs
    <2>6. QED
      BY <2>2, <2>5 DEF K
  <1>5. ASSUME NEW m \in 1 .. n, NEW l \in 1 .. n, f[m] = f[l] PROVE m = l
    <2>1. n * m = n * l
      <3>1. n * m \in Int /\ n * l \in Int
        OBVIOUS
      <3>2. n * m - c = n * l - c
        BY <1>5
      <3>3. QED
        BY <1>2, <3>1, <3>2
    <2>2. ~(m < l) /\ ~(l < m)
      <3>1. m \in Int /\ l \in Int
        OBVIOUS
      <3>2. m < l => n * m + n <= n * l
        BY <3>1, TimesMonotonic
      <3>3. l < m => n * l + n <= n * m
        BY <3>1, TimesMonotonic
      <3>4. n * m \in Int
        OBVIOUS
      <3>5. QED
        BY <2>1, <3>2, <3>3, <3>4
    <2>3. QED
      BY <2>2
  <1>6. ASSUME NEW k \in K PROVE \E m \in 1 .. n : f[m] = k
    <2>1. k \in 1 .. n * n /\ (s + k) % n = i /\ s + k \in Nat
      BY <1>3 DEF K
    <2>2. PICK p \in Nat : s + k = n * p + i
      BY <2>1, DivisionIs
    <2> DEFINE m == p - q + 1
    <2>3. n * m = n * p - n * q + n
      OBVIOUS
    <2>4. n * p \in Int /\ n * q \in Int /\ m \in Int
      OBVIOUS
    <2> HIDE DEF m
    <2>5. k = n * m - c
      BY <1>2, <2>1, <2>2, <2>3, <2>4
    <2>6. n * m \in Int
      BY <2>4
    <2>7. m >= 1
      <3>1. m <= 0 => n * m <= n * 0
        BY <2>4, TimesMonotonic
      <3>2. n * 0 = 0
        OBVIOUS
      <3>3. QED
        BY <1>2, <2>1, <2>4, <2>5, <2>6, <3>1, <3>2
    <2>8. m <= n
      <3>1. n < m => n * n + n <= n * m
        BY <2>4, TimesMonotonic
      <3>2. QED
        BY <1>2, <1>3, <2>1, <2>4, <2>5, <2>6, <3>1
    <2>9. QED
      BY <2>4, <2>5, <2>7, <2>8
  <1>7. f \in Bijection(1 .. n, K)
    <2>1. f \in [1 .. n -> K]
      BY <1>4
    <2> HIDE DEF f
    <2>2. QED
      BY <1>5, <1>6, <2>1 DEF Bijection, Injection, Surjection, IsInjective
  <1> HIDE DEF f
  <1>8. IsFiniteSet(1 .. n) /\ Cardinality(1 .. n) = n
    BY FS_Interval
  <1>9. IsFiniteSet(K) /\ Cardinality(K) = n
    <2>1. ExistsBijection(1 .. n, K)
      BY <1>7 DEF ExistsBijection
    <2>2. QED
      BY <1>8, <2>1, FS_Bijection
  <1>10. QED
    BY <1>9 DEF K

\* Among accounts of one priority, the rotation puts the one at its start first.
LEMMA HeadIs ==
    ASSUME RoundRobin, \A a, b \in Usable : Priority[a] = Priority[b], Usable # {},
           NEW offset \in Nat
    PROVE  /\ Head(Ranked(offset)) \in Usable
           /\ Ahead(Head(Ranked(offset))) = offset % Cardinality(Usable)
  <1> DEFINE n == Cardinality(Usable)
             start == offset % n
             list == Ranked(offset)
  <1>1. IsFiniteSet(Usable) /\ n \in Nat \ {0} /\ Usable \subseteq Nat
    BY UsableFinite, FS_EmptySet
  <1>2. start \in 0 .. n - 1
    BY <1>1
  <1>3. list = Ordered(Usable, Before(start))
    BY <1>1 DEF Ranked
  <1>4. PICK c \in Usable : Ahead(c) = start
    BY <1>2, AheadCovers
  <1> HIDE DEF list, start
  <1>5. \A a \in Usable : Place(c, start) <= Place(a, start)
    BY <1>1, <1>2, <1>4, AheadGrows DEF Place
  <1>6. /\ Lists(list, Usable) /\ Len(list) = n
        /\ \A i, j \in DOMAIN list : i < j => <<list[i], list[j]>> \in Before(start)
    <2>1. StrictOrder(Usable, Before(start))
      BY <1>2, BeforeIsOrder
    <2>2. QED
      BY <1>1, <1>3, <2>1, OrderedLists
  <1>7. list \in Seq(Usable) /\ DOMAIN list = 1 .. n /\ Head(list) = list[1]
         /\ list[1] \in Usable /\ 1 \in DOMAIN list
    BY <1>1, <1>6 DEF Lists
  <1>8. PICK j \in DOMAIN list : list[j] = c
    BY <1>6 DEF Lists
  <1>9. j = 1
    <2>1. SUFFICES ASSUME j # 1 PROVE FALSE
      OBVIOUS
    <2>2. 1 < j
      BY <1>1, <1>7, <2>1
    <2>3. <<list[1], c>> \in Before(start)
      BY <1>6, <1>7, <1>8, <2>2
    <2>4. Priority[list[1]] = Priority[c] /\ Priority[c] \in Nat
      BY <1>7, DispatchAssumption, UsableFinite
    <2>5. Place(list[1], start) < Place(c, start)
      BY <2>3, <2>4 DEF Before
    <2>6. Place(list[1], start) \in Nat /\ Place(c, start) \in Nat
      BY <1>2, <1>7, PlacesDiffer
    <2>7. QED
      BY <1>5, <1>7, <2>5, <2>6
  <1>10. Head(list) = c
    BY <1>7, <1>8, <1>9
  <1>11. QED
    BY <1>4, <1>10 DEF list, start

\* Among any number of accounts of one priority round robin gives each the same number
\* of first places, from whatever request one starts to count and whichever accounts are
\* usable.  Where priorities differ it does not.
THEOREM ShareTheorem ==
    ASSUME \A a, b \in Accounts : Priority[a] = Priority[b]
    PROVE  Spec => []RoundRobinShares
  <1>1. WalkInv => RoundRobinShares
    <2> SUFFICES ASSUME sequence \in Nat, RoundRobin, Usable # {}, NEW a \in Top
                 PROVE  Cardinality({k \in 1 .. Cardinality(Usable) * Cardinality(Top) :
                           Head(Ranked(sequence + k)) = a}) = Cardinality(Usable)
      BY DEF WalkInv, RoundRobinShares
    <2> DEFINE n == Cardinality(Usable)
               first == {k \in 1 .. n * n : Head(Ranked(sequence + k)) = a}
               rest == {k \in 1 .. n * n : (sequence + k) % n = Ahead(a)}
    <2>1. n \in Nat \ {0} /\ Usable \subseteq Nat /\ Usable \subseteq Accounts
      BY UsableFinite, FS_EmptySet
    <2>2. Top = Usable
      BY <2>1, DispatchAssumption DEF Top
    <2>3. a \in Usable /\ Ahead(a) \in 0 .. n - 1
      BY <2>1, <2>2, AheadGrows
    <2>4. ASSUME NEW b \in Usable, Ahead(b) = Ahead(a) PROVE b = a
      <3>1. a \in Nat /\ b \in Nat /\ Ahead(a) \in Nat
        BY <2>1, <2>3, AheadGrows
      <3>2. ~(a < b) /\ ~(b < a)
        BY <2>3, <2>4, <3>1, AheadGrows
      <3>3. QED
        BY <3>1, <3>2
    <2>5. ASSUME NEW k \in Nat
          PROVE  Head(Ranked(sequence + k)) = a <=> (sequence + k) % n = Ahead(a)
      <3>1. sequence + k \in Nat
        OBVIOUS
      <3>2. /\ Head(Ranked(sequence + k)) \in Usable
            /\ Ahead(Head(Ranked(sequence + k))) = (sequence + k) % n
        BY <2>1, <3>1, HeadIs
      <3>3. QED
        BY <2>4, <3>2
    <2>6. first = rest
      <3>1. \A k \in 1 .. n * n :
              Head(Ranked(sequence + k)) = a <=> (sequence + k) % n = Ahead(a)
        BY <2>5
      <3>2. ASSUME NEW k PROVE k \in first <=> k \in rest
        BY <3>1, Zenon
      <3> HIDE DEF first, rest
      <3>3. QED
        BY <3>2
    <2>7. Cardinality(rest) = n
      <3>1. sequence \in Nat
        OBVIOUS
      <3>2. \A i \in 0 .. n - 1 : Cardinality({k \in 1 .. n * n : (sequence + k) % n = i}) = n
        BY <2>1, <3>1, RestsShared, Zenon
      <3>3. QED
        BY <2>3, <3>2, Zenon
    <2> HIDE DEF first, rest
    <2>8. QED
      BY <2>2, <2>6, <2>7 DEF first
  <1>2. QED
    BY <1>1, WalkInvariance, PTL

=============================================================================
