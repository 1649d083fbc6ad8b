------------------------- MODULE DeviceLoginProofs -------------------------
(***************************************************************************)
(* Proofs about DeviceLogin, for any number of goroutines and sessions.    *)
(***************************************************************************)
EXTENDS DeviceLogin, FiniteSetTheorems, TLAPS

\* The session a goroutine works on, and how far: who has set polling goes from ask
\* to land, and a session that is cleared is one that was there.
Polling == {"ask", "tokenReply", "complete", "exchangeReply", "land"}

Role(r) ==
    /\ r.pc \in Polling \cup {"look", "drop"} => r.obj \in 1 .. started
    /\ r.pc \in Polling => r.mine
    /\ r.mine => r.obj \in 1 .. started /\ r.pc \in Polling \cup {"drop", "clear"}
    /\ r.pc = "clear" => /\ r.then \in {"idle", "insert", "land"}
                         /\ r.mine <=> r.then = "land"
                         /\ r.todo \subseteq 1 .. started
    /\ r.pc # "clear" => r.then = "idle"
    /\ r.pc = "look" => r.at <= now

\* There is a place for every session that is about to be inserted.
Places == started + Cardinality(Inserting) <= MaxStarts

LoginTypes == TypeOK /\ Places /\ \A p \in Procs : Role(op[p])

LEMMA ClearingType ==
    ASSUME NEW r \in Op, NEW todo \in SUBSET Ids, NEW then \in PCs
    PROVE  /\ Clearing(r, todo, then) \in Op
           /\ Clearing(r, todo, then).obj = r.obj
           /\ Clearing(r, todo, then).mine = r.mine
           /\ Clearing(r, todo, then).at = r.at
           /\ Clearing(r, todo, then).sent = r.sent
           /\ Clearing(r, todo, then).todo = todo
           /\ Clearing(r, todo, then).pc = IF todo = {} THEN then ELSE "clear"
           /\ Clearing(r, todo, then).then = IF todo = {} THEN "idle" ELSE then
  BY DEF Clearing, Op, PCs

LEMMA IdleType == Idle \in Op
  BY LoginAssumption DEF Idle, Op, PCs

LEMMA BlankType == Blank \in Session
  BY DEF Blank, Session

LEMMA StartType ==
    ASSUME NEW t \in Nat
    PROVE  /\ [Idle EXCEPT !.at = t] \in Op
           /\ [Idle EXCEPT !.at = t].obj = 0
           /\ ~[Idle EXCEPT !.at = t].mine
  <1> DEFINE r == [Idle EXCEPT !.at = t]
  <1>1. r \in Op
    BY IdleType DEF Op
  <1>2. r.obj = 0
    BY DEF Idle
  <1>3. ~r.mine
    BY DEF Idle
  <1>4. QED
    BY <1>1, <1>2, <1>3

LEMMA InitTypes == Init => LoginTypes
  <1> SUFFICES ASSUME Init PROVE LoginTypes
    OBVIOUS
  <1>1. TypeOK
    <2>2. QED
      BY BlankType, IdleType, LoginAssumption DEF Init, TypeOK, Ids
  <1>2. \A p \in Procs : Role(op[p])
    BY DEF Init, Role, Idle, Polling
  <1>3. Inserting = {}
    BY DEF Init, Inserting, Idle
  <1>4. Places
    BY <1>3, FS_EmptySet, LoginAssumption DEF Init, Places
  <1>5. QED
    BY <1>1, <1>2, <1>4 DEF LoginTypes

-----------------------------------------------------------------------------
(***************************************************************************)
(* Types.                                                                  *)
(***************************************************************************)
\* A step that neither takes nor uses a place for a session.
LEMMA SamePlaces ==
    ASSUME LoginTypes, NEW p \in Procs, NEW r \in Op, op' = [op EXCEPT ![p] = r],
           "insert" \in {op[p].pc, op[p].then} <=> "insert" \in {r.pc, r.then},
           started' = started
    PROVE  Places'
  <1>1. Inserting' = Inserting
    BY DEF Inserting, LoginTypes, TypeOK
  <1>2. QED
    BY <1>1 DEF Places, LoginTypes

LEMMA InsertingFinite == IsFiniteSet(Inserting) /\ Cardinality(Inserting) \in Nat
  <1>1. Inserting \subseteq Procs
    BY DEF Inserting
  <1>2. QED
    BY <1>1, FS_Subset, FS_CardinalityType, LoginAssumption

LEMMA ReserveTypes ==
    ASSUME LoginTypes, NEW p \in Procs, Reserve(p)
    PROVE  LoginTypes'
  <1> DEFINE expired == {s \in table : now >= session[s].expires}
             then == IF HasRoom(table \ expired) THEN "insert" ELSE "idle"
             start == [Idle EXCEPT !.at = now]
             r == Clearing(start, expired, then)
  <1>1. /\ op[p].pc = "idle" /\ op' = [op EXCEPT ![p] = r]
        /\ table' = table \ expired
        /\ UNCHANGED <<now, started, session, asked, won>>
    BY DEF Reserve
  <1>2. expired \in SUBSET Ids /\ then \in PCs
    <2>1. table \subseteq Ids
      BY LoginAssumption DEF LoginTypes, TypeOK, Ids
    <2>2. QED
      BY <2>1 DEF PCs
  <1>3. /\ r \in Op /\ r.obj = 0 /\ ~r.mine /\ r.todo = expired
        /\ r.pc = IF expired = {} THEN then ELSE "clear"
        /\ r.then = IF expired = {} THEN "idle" ELSE then
    <2>1. start \in Op /\ start.obj = 0 /\ ~start.mine
      BY StartType DEF LoginTypes, TypeOK
    <2> HIDE DEF start, expired, then
    <2>2. QED
      BY <1>2, <2>1, ClearingType
  <1> HIDE DEF r
  <1>4. TypeOK'
    BY <1>1, <1>3 DEF LoginTypes, TypeOK
  <1>5. ASSUME NEW q \in Procs PROVE Role(op[q])'
    <2>1. CASE q # p
      BY <1>1, <2>1 DEF LoginTypes, TypeOK, Role
    <2>2. CASE q = p
      <3>1. op'[q] = r
        BY <1>1, <2>2 DEF LoginTypes, TypeOK
      <3>2. expired \subseteq 1 .. started'
        BY <1>1 DEF LoginTypes, TypeOK
      <3>3. QED
        BY <1>3, <3>1, <3>2 DEF Polling, Role
    <2>3. QED
      BY <2>1, <2>2
  <1>6. Places'
    <2>1. Inserting' \subseteq Inserting \cup {p}
      BY <1>1 DEF Inserting, LoginTypes, TypeOK
    <2>2. /\ IsFiniteSet(Inserting \cup {p})
          /\ Cardinality(Inserting \cup {p}) =
               IF p \in Inserting THEN Cardinality(Inserting) ELSE Cardinality(Inserting) + 1
      BY InsertingFinite, FS_AddElement, Zenon
    <2>3. Cardinality(Inserting') <= Cardinality(Inserting \cup {p})
      BY <2>1, <2>2, FS_Subset
    <2>4. IsFiniteSet(Inserting') /\ Cardinality(Inserting') \in Nat
      BY <2>1, <2>2, FS_Subset, FS_CardinalityType
    <2>5. started + Cardinality(Inserting) < MaxStarts /\ started' = started
      BY DEF Reserve
    <2>6. Cardinality(Inserting \cup {p}) \in Nat
      BY <2>2, FS_CardinalityType
    <2>7. QED
      BY <2>2, <2>3, <2>4, <2>5, <2>6, InsertingFinite, LoginAssumption
         DEF Places, LoginTypes, TypeOK
  <1>7. QED
    BY <1>4, <1>5, <1>6 DEF LoginTypes
\* The other steps of a goroutine take no place, and change no more of the table than
\* to remove from it.
LEMMA StepTypes ==
    ASSUME LoginTypes, NEW p \in Procs, NEW r \in Op, op' = [op EXCEPT ![p] = r],
           "insert" \in {op[p].pc, op[p].then} <=> "insert" \in {r.pc, r.then},
           Role(r), started' = started, now' = now, table' \subseteq table,
           session' \in [Ids -> Session], asked' \in [Ids -> Nat], won' \in [Ids -> Nat]
    PROVE  LoginTypes'
  <1>1. TypeOK'
    BY DEF LoginTypes, TypeOK
  <1>2. Places'
    BY SamePlaces
  <1>3. ASSUME NEW q \in Procs PROVE Role(op[q])'
    BY DEF LoginTypes, TypeOK, Role
  <1>4. QED
    BY <1>1, <1>2, <1>3 DEF LoginTypes

LEMMA InsertTypes ==
    ASSUME LoginTypes, NEW p \in Procs, Insert(p)
    PROVE  LoginTypes'
  <1>1. op' = [op EXCEPT ![p] = Idle] /\ op[p].pc = "insert"
    BY DEF Insert, Return
  <1>2. /\ Inserting' = Inserting \ {p} /\ p \in Inserting
    BY <1>1 DEF Inserting, LoginTypes, TypeOK, Idle
  <1>3. /\ Cardinality(Inserting') = Cardinality(Inserting) - 1
        /\ Cardinality(Inserting') \in Nat
    <2>1. IsFiniteSet(Inserting \ {p})
          /\ Cardinality(Inserting \ {p}) = Cardinality(Inserting) - 1
      BY <1>2, InsertingFinite, FS_RemoveElement, Zenon
    <2>2. QED
      BY <1>2, <2>1, FS_CardinalityType
  <1>4. started' = started + 1 /\ started' \in 1 .. MaxStarts
    BY <1>3, InsertingFinite, LoginAssumption DEF Insert, Places, LoginTypes, TypeOK
  <1>5. Places'
    BY <1>3, <1>4, InsertingFinite DEF Places, LoginTypes, TypeOK
  <1>6. session' \in [Ids -> Session]
    <2>1. PICK interval \in Intervals :
            session' = [session EXCEPT ![started + 1] =
              [Blank EXCEPT !.code = TRUE, !.interval = interval,
                            !.nextPoll = op[p].at + interval,
                            !.expires = op[p].at + Lifetime]]
      BY DEF Insert
    <2>2. op[p].at \in Nat /\ interval \in Nat /\ Lifetime \in Nat
      BY LoginAssumption DEF LoginTypes, TypeOK, Op
    <2>3. [Blank EXCEPT !.code = TRUE, !.interval = interval,
                        !.nextPoll = op[p].at + interval,
                        !.expires = op[p].at + Lifetime] \in Session
      <3> DEFINE due == op[p].at + interval
                 end == op[p].at + Lifetime
      <3>1. due \in Nat /\ end \in Nat /\ Blank \in Session
        BY <2>2, BlankType
      <3> HIDE DEF due, end
      <3>2. [Blank EXCEPT !.code = TRUE, !.interval = interval,
                          !.nextPoll = due, !.expires = end] \in Session
        BY <3>1 DEF Session
      <3>3. QED
        BY <3>2 DEF due, end
    <2>4. QED
      BY <2>1, <2>3 DEF LoginTypes, TypeOK
  <1>7. TypeOK'
    BY <1>1, <1>4, <1>6, IdleType DEF Insert, LoginTypes, TypeOK
  <1>8. ASSUME NEW q \in Procs PROVE Role(op[q])'
    <2>1. CASE q = p
      BY <1>1, <2>1 DEF LoginTypes, TypeOK, Role, Idle, Polling
    <2>2. CASE q # p
      BY <1>1, <1>4, <2>2 DEF LoginTypes, TypeOK, Role, Insert
    <2>3. QED
      BY <2>1, <2>2
  <1>9. QED
    BY <1>5, <1>7, <1>8 DEF LoginTypes
\* A step that changes no more than a flag, a secret or the time of a session, and
\* the place of its goroutine.
LEMMA GotoType ==
    ASSUME LoginTypes, NEW p \in Procs, NEW pc \in PCs
    PROVE  /\ [op[p] EXCEPT !.pc = pc] \in Op
           /\ [op EXCEPT ![p].pc = pc] = [op EXCEPT ![p] = [op[p] EXCEPT !.pc = pc]]
  <1>1. op[p] \in Op /\ op \in [Procs -> Op]
    BY DEF LoginTypes, TypeOK
  <1>2. QED
    BY <1>1 DEF Op

LEMMA IdleRole == Role(Idle)
  BY DEF Role, Idle, Polling

LEMMA ClearTypes ==
    ASSUME LoginTypes, NEW p \in Procs, Clear(p)
    PROVE  LoginTypes'
  <1>1. PICK s \in op[p].todo :
          /\ session' = [session EXCEPT ![s].code = FALSE, ![s].token = FALSE]
          /\ op' = [op EXCEPT ![p] = Clearing(op[p], op[p].todo \ {s}, op[p].then)]
    BY DEF Clear, LoginTypes, TypeOK
  <1>2. op[p] \in Op /\ op[p].pc = "clear" /\ Role(op[p])
    BY DEF Clear, LoginTypes, TypeOK
  <1> DEFINE todo == op[p].todo \ {s}
             then == op[p].then
             r == Clearing(op[p], todo, then)
  <1>3. todo \in SUBSET Ids /\ then \in PCs
    BY <1>2 DEF Op
  <1>4. /\ r \in Op /\ r.obj = op[p].obj /\ r.mine = op[p].mine
        /\ r.todo = todo
        /\ r.pc = IF todo = {} THEN then ELSE "clear"
        /\ r.then = IF todo = {} THEN "idle" ELSE then
    <2> HIDE DEF todo, then
    <2>1. QED
      BY <1>2, <1>3, ClearingType
  <1>5. op' = [op EXCEPT ![p] = r]
    BY <1>1
  <1> HIDE DEF r
  <1>6. Role(r)
    BY <1>2, <1>4 DEF Role, Polling
  <1>7. "insert" \in {op[p].pc, op[p].then} <=> "insert" \in {r.pc, r.then}
    BY <1>2, <1>4
  <1>8. session' \in [Ids -> Session]
    <2>1. session \in [Ids -> Session] /\ s \in Ids
      BY <1>2 DEF LoginTypes, TypeOK, Op
    <2>2. [session[s] EXCEPT !.code = FALSE, !.token = FALSE] \in Session
      BY <2>1 DEF Session
    <2>3. session' = [session EXCEPT ![s] = [session[s] EXCEPT !.code = FALSE, !.token = FALSE]]
      BY <1>1, <2>1
    <2>4. QED
      BY <2>1, <2>2, <2>3
  <1>9. QED
    BY <1>4, <1>5, <1>6, <1>7, <1>8, StepTypes DEF Clear, LoginTypes, TypeOK

LEMMA LookupTypes ==
    ASSUME LoginTypes, NEW p \in Procs, Lookup(p)
    PROVE  LoginTypes'
  <1>1. PICK s \in table :
          op' = [op EXCEPT ![p] = [Idle EXCEPT !.pc = "look", !.obj = s, !.at = now]]
    BY DEF Lookup
  <1> DEFINE r == [Idle EXCEPT !.pc = "look", !.obj = s, !.at = now]
  <1>2. s \in 1 .. started /\ s \in 0 .. MaxStarts /\ now \in Nat
    BY LoginAssumption DEF LoginTypes, TypeOK
  <1>3. r \in Op
    BY <1>2, IdleType DEF Op, PCs
  <1>4. Role(r) /\ ~("insert" \in {r.pc, r.then})
    BY <1>2 DEF Role, Polling, Idle, LoginTypes, TypeOK
  <1>5. op[p].pc = "idle" /\ Role(op[p])
    BY DEF Lookup, LoginTypes
  <1>6. ~("insert" \in {op[p].pc, op[p].then})
    BY <1>5 DEF Role
  <1>7. op' = [op EXCEPT ![p] = r]
    BY <1>1
  <1> HIDE DEF r
  <1>8. QED
    BY <1>3, <1>4, <1>6, <1>7, StepTypes DEF Lookup, LoginTypes, TypeOK
LEMMA LookTypes ==
    ASSUME LoginTypes, NEW p \in Procs, Look(p)
    PROVE  LoginTypes'
  <1> DEFINE s == op[p].obj
  <1>1. /\ op[p] \in Op /\ Role(op[p]) /\ op[p].pc = "look"
        /\ s \in 1 .. started /\ s \in Ids /\ session[s] \in Session
        /\ session \in [Ids -> Session] /\ op \in [Procs -> Op]
    BY LoginAssumption DEF Look, LoginTypes, TypeOK, Role, Ids
  <1>2. UNCHANGED <<now, started, table, asked, won>>
    BY DEF Look
  <1>3. CASE /\ op' = [op EXCEPT ![p].pc = "drop", ![p].at = 0]
             /\ UNCHANGED session
    <2> DEFINE r == [op[p] EXCEPT !.pc = "drop", !.at = 0]
    <2>1. r \in Op /\ op' = [op EXCEPT ![p] = r]
      BY <1>1, <1>3 DEF Op, PCs
    <2>2. Role(r) /\ ("insert" \in {op[p].pc, op[p].then} <=> "insert" \in {r.pc, r.then})
      BY <1>1 DEF Role, Polling, Op
    <2> HIDE DEF r
    <2>3. QED
      BY <1>2, <1>3, <2>1, <2>2, StepTypes DEF LoginTypes, TypeOK
  <1>4. CASE Return(p) /\ UNCHANGED session
    <2>1. ~("insert" \in {op[p].pc, op[p].then}) /\ ~("insert" \in {Idle.pc, Idle.then})
      BY <1>1 DEF Role, Idle
    <2>2. op' = [op EXCEPT ![p] = Idle]
      BY <1>4 DEF Return
    <2>3. QED
      BY <1>2, <1>4, <2>1, <2>2, IdleType, IdleRole, StepTypes DEF LoginTypes, TypeOK
  <1>5. CASE /\ session' = [session EXCEPT ![s].polling = TRUE]
             /\ op' = [op EXCEPT ![p].mine = TRUE, ![p].at = 0,
                         ![p].pc = IF session[s].phase = "waiting" THEN "ask"
                                   ELSE "complete"]
    <2> DEFINE pc == IF session[s].phase = "waiting" THEN "ask" ELSE "complete"
               r == [op[p] EXCEPT !.mine = TRUE, !.at = 0, !.pc = pc]
    <2>1. pc \in {"ask", "complete"}
      OBVIOUS
    <2>2. op' = [op EXCEPT ![p] = r]
      BY <1>1, <1>5
    <2>3. session' \in [Ids -> Session]
      <3>1. [session[s] EXCEPT !.polling = TRUE] \in Session
        BY <1>1 DEF Session
      <3>2. session' = [session EXCEPT ![s] = [session[s] EXCEPT !.polling = TRUE]]
        BY <1>1, <1>5
      <3>3. QED
        BY <1>1, <3>1, <3>2
    <2> HIDE DEF pc
    <2>4. r \in Op
      BY <1>1, <2>1 DEF Op, PCs
    <2>5. Role(r) /\ ("insert" \in {op[p].pc, op[p].then} <=> "insert" \in {r.pc, r.then})
      BY <1>1, <2>1 DEF Role, Polling, Op
    <2> HIDE DEF r
    <2>6. QED
      BY <1>2, <2>2, <2>3, <2>4, <2>5, StepTypes DEF LoginTypes, TypeOK
  <1>6. QED
    BY <1>3, <1>4, <1>5 DEF Look

\* The steps of a poll that has the session, up to its end.
LEMMA PollTypes ==
    ASSUME LoginTypes, NEW p \in Procs, NEW pc \in Polling \cup {"drop"},
           op[p].pc \in Polling, op' = [op EXCEPT ![p].pc = pc],
           started' = started, now' = now, table' = table,
           session' \in [Ids -> Session], asked' \in [Ids -> Nat], won' \in [Ids -> Nat]
    PROVE  LoginTypes'
  <1> DEFINE r == [op[p] EXCEPT !.pc = pc]
  <1>1. op[p] \in Op /\ Role(op[p])
    BY DEF LoginTypes, TypeOK
  <1>2. r \in Op /\ op' = [op EXCEPT ![p] = r]
    BY GotoType DEF Polling, PCs
  <1>3. Role(r) /\ ("insert" \in {op[p].pc, op[p].then} <=> "insert" \in {r.pc, r.then})
    BY <1>1 DEF Role, Polling, Op
  <1> HIDE DEF r
  <1>4. QED
    BY <1>2, <1>3, StepTypes

LEMMA AskTypes ==
    ASSUME LoginTypes, NEW p \in Procs, Ask(p)
    PROVE  LoginTypes'
  <1> DEFINE s == op[p].obj
  <1>1. /\ op[p] \in Op /\ Role(op[p]) /\ op[p].pc = "ask" /\ s \in Ids
        /\ session[s] \in Session /\ op \in [Procs -> Op] /\ session \in [Ids -> Session]
    BY LoginAssumption DEF Ask, LoginTypes, TypeOK, Role, Polling, Ids
  <1>2. UNCHANGED <<now, started, session, table, won>>
    BY DEF Ask
  <1>3. CASE /\ op' = [op EXCEPT ![p].pc = "tokenReply", ![p].sent = session[s].code]
             /\ asked' = IF session[s].code THEN [asked EXCEPT ![s] = now] ELSE asked
    <2> DEFINE r == [op[p] EXCEPT !.pc = "tokenReply", !.sent = session[s].code]
    <2>1. op' = [op EXCEPT ![p] = r]
      BY <1>1, <1>3
    <2>2. r \in Op
      <3>1. session[s].code \in BOOLEAN
        BY <1>1 DEF Session
      <3>2. QED
        BY <1>1, <3>1 DEF Op, PCs
    <2>3. Role(r) /\ ("insert" \in {op[p].pc, op[p].then} <=> "insert" \in {r.pc, r.then})
      BY <1>1 DEF Role, Polling, Op
    <2>4. asked' \in [Ids -> Nat]
      BY <1>1, <1>3 DEF LoginTypes, TypeOK
    <2> HIDE DEF r
    <2>5. QED
      BY <1>2, <2>1, <2>2, <2>3, <2>4, StepTypes DEF LoginTypes, TypeOK
  <1>4. CASE Goto(p, "land") /\ UNCHANGED asked
    <2>1. op' = [op EXCEPT ![p].pc = "land"]
      BY <1>4 DEF Goto
    <2>2. QED
      BY <1>1, <1>2, <1>4, <2>1, PollTypes DEF Polling, LoginTypes, TypeOK
  <1>5. QED
    BY <1>3, <1>4 DEF Ask

LEMMA RescheduledType ==
    ASSUME LoginTypes, NEW s \in Ids, NEW interval \in Intervals \cup {0}
    PROVE  Rescheduled(s, interval) \in [Ids -> Session]
  <1> DEFINE due == now + interval
  <1>1. due \in Nat /\ session \in [Ids -> Session] /\ session[s] \in Session
    BY LoginAssumption DEF LoginTypes, TypeOK
  <1>2. Rescheduled(s, interval) =
          [session EXCEPT ![s] = [session[s] EXCEPT !.interval = interval, !.nextPoll = due]]
    BY <1>1 DEF Rescheduled
  <1> HIDE DEF due
  <1>3. [session[s] EXCEPT !.interval = interval, !.nextPoll = due] \in Session
    BY <1>1 DEF Session
  <1>4. QED
    BY <1>1, <1>2, <1>3

LEMMA TokenReplyTypes ==
    ASSUME LoginTypes, NEW p \in Procs, TokenReply(p)
    PROVE  LoginTypes'
  <1> DEFINE s == op[p].obj
  <1>1. /\ op[p].pc \in Polling /\ s \in Ids
        /\ session[s] \in Session /\ session \in [Ids -> Session]
    BY LoginAssumption DEF TokenReply, LoginTypes, TypeOK, Role, Polling, Ids
  <1>2. UNCHANGED <<now, started, table, asked, won>>
    BY DEF TokenReply
  <1>3. session' \in [Ids -> Session]
    <2>1. CASE session' = [session EXCEPT ![s].token = TRUE, ![s].code = FALSE,
                                          ![s].phase = "exchanging"]
      <3>1. [session[s] EXCEPT !.token = TRUE, !.code = FALSE, !.phase = "exchanging"]
              \in Session
        BY <1>1 DEF Session
      <3>2. session' = [session EXCEPT ![s] =
              [session[s] EXCEPT !.token = TRUE, !.code = FALSE, !.phase = "exchanging"]]
        BY <1>1, <2>1
      <3>3. QED
        BY <1>1, <3>1, <3>2
    <2>2. CASE \E interval \in Intervals : session' = Rescheduled(s, interval)
      BY <1>1, <2>2, RescheduledType
    <2>3. CASE UNCHANGED session
      BY <1>1, <2>3
    <2>4. QED
      BY <2>1, <2>2, <2>3 DEF TokenReply
  <1>4. PICK pc \in {"complete", "land", "drop"} : op' = [op EXCEPT ![p].pc = pc]
    BY DEF TokenReply, Goto
  <1>5. QED
    BY <1>1, <1>2, <1>3, <1>4, PollTypes DEF Polling, LoginTypes, TypeOK

LEMMA CompleteTypes ==
    ASSUME LoginTypes, NEW p \in Procs, Complete(p)
    PROVE  LoginTypes'
  <1>1. PICK pc \in {"exchangeReply", "drop"} : op' = [op EXCEPT ![p].pc = pc]
    BY DEF Complete, Goto
  <1>2. QED
    BY <1>1, PollTypes DEF Complete, Polling, LoginTypes, TypeOK

LEMMA ExchangeReplyTypes ==
    ASSUME LoginTypes, NEW p \in Procs, ExchangeReply(p)
    PROVE  LoginTypes'
  <1> DEFINE s == op[p].obj
  <1>1. /\ op[p].pc \in Polling /\ s \in Ids /\ session \in [Ids -> Session]
        /\ session[s].interval \in Intervals \cup {0} /\ won \in [Ids -> Nat]
    BY LoginAssumption DEF ExchangeReply, LoginTypes, TypeOK, Role, Polling, Ids, Session
  <1>2. UNCHANGED <<now, started, table, asked>>
    BY DEF ExchangeReply
  <1>3. session' \in [Ids -> Session] /\ won' \in [Ids -> Nat]
    BY <1>1, RescheduledType DEF ExchangeReply
  <1>4. PICK pc \in {"land", "drop"} : op' = [op EXCEPT ![p].pc = pc]
    BY DEF ExchangeReply, Goto
  <1>5. QED
    BY <1>1, <1>2, <1>3, <1>4, PollTypes DEF Polling, LoginTypes, TypeOK

LEMMA DropTypes ==
    ASSUME LoginTypes, NEW p \in Procs, Drop(p)
    PROVE  LoginTypes'
  <1> DEFINE todo == {op[p].obj} \cap table
             then == IF op[p].mine THEN "land" ELSE "idle"
             r == Clearing(op[p], todo, then)
  <1>1. op[p] \in Op /\ Role(op[p]) /\ op[p].pc = "drop" /\ op \in [Procs -> Op]
    BY DEF Drop, LoginTypes, TypeOK
  <1>2. todo \in SUBSET Ids /\ then \in PCs /\ todo \subseteq 1 .. started
    <2>1. todo \subseteq 1 .. started
      BY DEF LoginTypes, TypeOK
    <2>2. 1 .. started \subseteq Ids
      BY LoginAssumption DEF LoginTypes, TypeOK, Ids
    <2>3. then \in PCs
      BY DEF PCs
    <2>4. QED
      BY <2>1, <2>2, <2>3
  <1>3. /\ r \in Op /\ r.obj = op[p].obj /\ r.mine = op[p].mine /\ r.todo = todo
        /\ r.pc = IF todo = {} THEN then ELSE "clear"
        /\ r.then = IF todo = {} THEN "idle" ELSE then
    <2> HIDE DEF todo, then
    <2>1. QED
      BY <1>1, <1>2, ClearingType
  <1>4. op' = [op EXCEPT ![p] = r] /\ table' \subseteq table
    BY <1>1 DEF Drop
  <1>5. Role(r)
    <2>1. then \in {"land", "idle"} /\ (op[p].mine <=> then = "land")
      OBVIOUS
    <2> HIDE DEF todo, then, r
    <2>2. QED
      BY <1>1, <1>2, <1>3, <2>1 DEF Role, Polling
  <1>6. "insert" \in {op[p].pc, op[p].then} <=> "insert" \in {r.pc, r.then}
    <2> HIDE DEF r
    <2>1. QED
      BY <1>1, <1>3 DEF Role
  <1> HIDE DEF r
  <1>7. QED
    BY <1>3, <1>4, <1>5, <1>6, StepTypes DEF Drop, LoginTypes, TypeOK

LEMMA LandTypes ==
    ASSUME LoginTypes, NEW p \in Procs, Land(p)
    PROVE  LoginTypes'
  <1> DEFINE s == op[p].obj
  <1>1. /\ op[p].pc = "land" /\ Role(op[p]) /\ s \in Ids
        /\ session \in [Ids -> Session] /\ session[s] \in Session
    BY LoginAssumption DEF Land, LoginTypes, TypeOK, Role, Polling, Ids
  <1>2. session' \in [Ids -> Session]
    <2>1. [session[s] EXCEPT !.polling = FALSE] \in Session
      BY <1>1 DEF Session
    <2>2. session' = [session EXCEPT ![s] = [session[s] EXCEPT !.polling = FALSE]]
      BY <1>1 DEF Land
    <2>3. QED
      BY <1>1, <2>1, <2>2
  <1>3. ~("insert" \in {op[p].pc, op[p].then}) /\ ~("insert" \in {Idle.pc, Idle.then})
    BY <1>1 DEF Role, Idle
  <1>4. op' = [op EXCEPT ![p] = Idle]
    BY DEF Land, Return
  <1>5. QED
    BY <1>2, <1>3, <1>4, IdleType, IdleRole, StepTypes DEF Land, LoginTypes, TypeOK

LEMMA TickTypes ==
    ASSUME LoginTypes, Tick
    PROVE  LoginTypes'
  <1>1. TypeOK'
    BY DEF Tick, LoginTypes, TypeOK
  <1>2. Places'
    BY DEF Tick, LoginTypes, Places, Inserting
  <1>3. ASSUME NEW q \in Procs PROVE Role(op[q])'
    BY DEF Tick, LoginTypes, TypeOK, Role, Op
  <1>4. QED
    BY <1>1, <1>2, <1>3 DEF LoginTypes

LEMMA NextTypes == LoginTypes /\ [Next]_vars => LoginTypes'
  <1> SUFFICES ASSUME LoginTypes, [Next]_vars PROVE LoginTypes'
    OBVIOUS
  <1>1. CASE UNCHANGED vars
    BY <1>1 DEF vars, LoginTypes, TypeOK, Places, Inserting, Role
  <1>2. CASE Tick
    BY <1>2, TickTypes
  <1>3. ASSUME NEW p \in Procs, Reserve(p) \/ Lookup(p) \/ Step(p)
        PROVE  LoginTypes'
    <2>1. CASE Reserve(p)
      BY <2>1, ReserveTypes
    <2>2. CASE Lookup(p)
      BY <2>2, LookupTypes
    <2>3. CASE Insert(p)
      BY <2>3, InsertTypes
    <2>4. CASE Clear(p)
      BY <2>4, ClearTypes
    <2>5. CASE Look(p)
      BY <2>5, LookTypes
    <2>6. CASE Ask(p)
      BY <2>6, AskTypes
    <2>7. CASE TokenReply(p)
      BY <2>7, TokenReplyTypes
    <2>8. CASE Complete(p)
      BY <2>8, CompleteTypes
    <2>9. CASE ExchangeReply(p)
      BY <2>9, ExchangeReplyTypes
    <2>10. CASE Drop(p)
      BY <2>10, DropTypes
    <2>11. CASE Land(p)
      BY <2>11, LandTypes
    <2>12. QED
      BY <1>3, <2>1, <2>2, <2>3, <2>4, <2>5, <2>6, <2>7, <2>8, <2>9, <2>10, <2>11
         DEF Step
  <1>4. QED
    BY <1>1, <1>2, <1>3 DEF Next

\* The login never holds a session, a goroutine or a time out of its range: no start
\* writes past the sessions there is a place for, and no poll works on an object that
\* was never made.
THEOREM LoginTypeCorrect == Spec => []TypeOK
  <1>1. LoginTypes => TypeOK
    BY DEF LoginTypes
  <1>2. QED
    BY <1>1, InitTypes, NextTypes, PTL DEF Spec
-----------------------------------------------------------------------------
(***************************************************************************)
(* The size of the table.                                                  *)
(***************************************************************************)
Room == Cardinality(table) + Cardinality(Inserting) < MaxSessions + Cardinality(Procs)

LEMMA TableFinite ==
    ASSUME LoginTypes
    PROVE  IsFiniteSet(table) /\ Cardinality(table) \in Nat
  <1>1. IsFiniteSet(1 .. started)
    BY FS_Interval DEF LoginTypes, TypeOK
  <1>2. QED
    BY <1>1, FS_Subset, FS_CardinalityType DEF LoginTypes, TypeOK

\* Nobody but a start takes a place.
LEMMA InsertingKept ==
    ASSUME LoginTypes, NEW p \in Procs,
           \/ Lookup(p) \/ Clear(p) \/ Look(p) \/ Ask(p) \/ TokenReply(p)
           \/ Complete(p) \/ ExchangeReply(p) \/ Drop(p) \/ Land(p)
    PROVE  Inserting' \subseteq Inserting
  <1>1. op \in [Procs -> Op] /\ op[p] \in Op /\ Role(op[p])
    BY DEF LoginTypes, TypeOK
  <1>2. ASSUME NEW r, op' = [op EXCEPT ![p] = r],
               "insert" \in {r.pc, r.then} => "insert" \in {op[p].pc, op[p].then}
        PROVE  Inserting' \subseteq Inserting
    BY <1>1, <1>2 DEF Inserting
  <1>3. ASSUME NEW pc \in PCs \ {"insert"}, op' = [op EXCEPT ![p].pc = pc]
        PROVE  Inserting' \subseteq Inserting
    <2>1. op' = [op EXCEPT ![p] = [op[p] EXCEPT !.pc = pc]]
      BY <1>1, <1>3
    <2>2. [op[p] EXCEPT !.pc = pc].pc = pc /\ [op[p] EXCEPT !.pc = pc].then = op[p].then
      BY <1>1 DEF Op
    <2>3. QED
      BY <1>2, <1>3, <2>1, <2>2
  <1>4. CASE Lookup(p)
    <2>1. PICK s \in table :
            op' = [op EXCEPT ![p] = [Idle EXCEPT !.pc = "look", !.obj = s, !.at = now]]
      BY <1>4 DEF Lookup
    <2>2. QED
      BY <1>2, <2>1 DEF Idle
  <1>5. CASE Clear(p)
    <2>1. PICK s \in op[p].todo :
            op' = [op EXCEPT ![p] = Clearing(op[p], op[p].todo \ {s}, op[p].then)]
      BY <1>1, <1>5 DEF Clear
    <2> DEFINE todo == op[p].todo \ {s}
               r == Clearing(op[p], todo, op[p].then)
    <2>2. todo \in SUBSET Ids /\ op[p].then \in PCs
      BY <1>1 DEF Op
    <2>3. /\ r.pc = IF todo = {} THEN op[p].then ELSE "clear"
          /\ r.then = IF todo = {} THEN "idle" ELSE op[p].then
      <3> HIDE DEF todo
      <3>1. QED
        BY <1>1, <2>2, ClearingType
    <2>4. op' = [op EXCEPT ![p] = r]
      BY <2>1
    <2> HIDE DEF r
    <2>5. QED
      BY <1>2, <2>3, <2>4
  <1>6. CASE Look(p)
    <2>1. CASE op' = [op EXCEPT ![p].pc = "drop", ![p].at = 0]
      <3> DEFINE r == [op[p] EXCEPT !.pc = "drop", !.at = 0]
      <3>1. op' = [op EXCEPT ![p] = r]
        BY <1>1, <2>1
      <3>2. r.pc = "drop" /\ r.then = op[p].then
        BY <1>1 DEF Op
      <3> HIDE DEF r
      <3>3. QED
        BY <1>2, <3>1, <3>2
    <2>2. CASE Return(p)
      BY <1>2, <2>2 DEF Return, Idle
    <2>3. ASSUME NEW pc \in {"ask", "complete"},
                 op' = [op EXCEPT ![p].mine = TRUE, ![p].at = 0, ![p].pc = pc]
          PROVE  Inserting' \subseteq Inserting
      <3> DEFINE r == [op[p] EXCEPT !.mine = TRUE, !.at = 0, !.pc = pc]
      <3>1. op' = [op EXCEPT ![p] = r]
        BY <1>1, <2>3
      <3>2. r.pc = pc /\ r.then = op[p].then
        BY <1>1 DEF Op
      <3> HIDE DEF r
      <3>3. QED
        BY <1>2, <2>3, <3>1, <3>2
    <2>4. QED
      BY <1>6, <2>1, <2>2, <2>3 DEF Look
  <1>7. CASE Ask(p)
    <2>1. CASE op' = [op EXCEPT ![p].pc = "tokenReply", ![p].sent = session[op[p].obj].code]
      <3> DEFINE r == [op[p] EXCEPT !.pc = "tokenReply", !.sent = session[op[p].obj].code]
      <3>1. op' = [op EXCEPT ![p] = r]
        BY <1>1, <2>1
      <3>2. r.pc = "tokenReply" /\ r.then = op[p].then
        BY <1>1 DEF Op
      <3> HIDE DEF r
      <3>3. QED
        BY <1>2, <3>1, <3>2
    <2>2. CASE Goto(p, "land")
      BY <1>3, <2>2 DEF Goto, PCs
    <2>3. QED
      BY <1>7, <2>1, <2>2 DEF Ask
  <1>8. CASE TokenReply(p) \/ Complete(p) \/ ExchangeReply(p)
    <2>1. PICK pc \in {"complete", "exchangeReply", "land", "drop"} :
            op' = [op EXCEPT ![p].pc = pc]
      BY <1>8 DEF TokenReply, Complete, ExchangeReply, Goto
    <2>2. QED
      BY <1>3, <2>1 DEF PCs
  <1>9. CASE Drop(p)
    <2> DEFINE todo == {op[p].obj} \cap table
               then == IF op[p].mine THEN "land" ELSE "idle"
               r == Clearing(op[p], todo, then)
    <2>1. op' = [op EXCEPT ![p] = r]
      BY <1>1, <1>9 DEF Drop
    <2>2. then \in PCs /\ then # "insert"
      BY DEF PCs
    <2>3. todo \in SUBSET Ids
      <3>1. 1 .. started \subseteq Ids
        BY LoginAssumption DEF LoginTypes, TypeOK, Ids
      <3>2. QED
        BY <3>1 DEF LoginTypes, TypeOK
    <2>4. r.pc # "insert" /\ r.then # "insert"
      <3> HIDE DEF todo, then
      <3>1. QED
        BY <1>1, <2>2, <2>3, ClearingType
    <2> HIDE DEF r
    <2>5. QED
      BY <1>2, <2>1, <2>4
  <1>10. CASE Land(p)
    BY <1>2, <1>10 DEF Land, Return, Idle
  <1>11. QED
    BY <1>4, <1>5, <1>6, <1>7, <1>8, <1>9, <1>10

\* Fewer sessions and fewer starts under way never take room.
LEMMA RoomKept ==
    ASSUME LoginTypes, Room, table' \subseteq table, Inserting' \subseteq Inserting
    PROVE  Room'
  <1>1. /\ Cardinality(table') <= Cardinality(table) /\ Cardinality(table') \in Nat
        /\ Cardinality(Inserting') <= Cardinality(Inserting) /\ Cardinality(Inserting') \in Nat
    BY TableFinite, InsertingFinite, FS_Subset, FS_CardinalityType
  <1>2. MaxSessions \in Nat /\ Cardinality(Procs) \in Nat
    BY LoginAssumption, FS_CardinalityType
  <1>3. QED
    BY <1>1, <1>2, TableFinite, InsertingFinite DEF Room

LEMMA ReserveRoom ==
    ASSUME LoginTypes, Room, NEW p \in Procs, Reserve(p)
    PROVE  Room'
  <1> DEFINE expired == {s \in table : now >= session[s].expires}
             start == [Idle EXCEPT !.at = now]
  <1>1. table' = table \ expired /\ op[p].pc = "idle"
    BY DEF Reserve
  <1>2. CASE HasRoom(table \ expired)
    <2>1. Cardinality(table') < MaxSessions
      BY <1>1, <1>2 DEF HasRoom
    <2>2. Inserting' \subseteq Procs
      BY DEF Inserting
    <2>3. Cardinality(Inserting') <= Cardinality(Procs) /\ Cardinality(Inserting') \in Nat
      BY <2>2, LoginAssumption, FS_Subset, FS_CardinalityType
    <2>4. Cardinality(table') \in Nat
      BY <1>1, TableFinite, FS_Subset, FS_CardinalityType
    <2>5. MaxSessions \in Nat /\ Cardinality(Procs) \in Nat
      BY LoginAssumption, FS_CardinalityType
    <2>6. QED
      BY <2>1, <2>3, <2>4, <2>5 DEF Room
  <1>3. CASE ~HasRoom(table \ expired)
    <2> DEFINE r == Clearing(start, expired, "idle")
    <2>1. op' = [op EXCEPT ![p] = r]
      BY <1>3 DEF Reserve
    <2>2. r.pc # "insert" /\ r.then # "insert"
      <3>1. start \in Op /\ expired \in SUBSET Ids /\ "idle" \in PCs
        BY StartType, LoginAssumption DEF LoginTypes, TypeOK, Ids, PCs
      <3> HIDE DEF start, expired
      <3>2. QED
        BY <3>1, ClearingType
    <2> HIDE DEF r
    <2>3. Inserting' \subseteq Inserting
      BY <2>1, <2>2 DEF Inserting, LoginTypes, TypeOK
    <2>4. QED
      BY <1>1, <2>3, RoomKept
  <1>4. QED
    BY <1>2, <1>3

LEMMA InsertRoom ==
    ASSUME LoginTypes, Room, NEW p \in Procs, Insert(p)
    PROVE  Room'
  <1>1. /\ op' = [op EXCEPT ![p] = Idle] /\ op[p].pc = "insert"
        /\ table' = table \cup {started + 1}
    BY DEF Insert, Return
  <1>2. Inserting' = Inserting \ {p} /\ p \in Inserting
    BY <1>1 DEF Inserting, LoginTypes, TypeOK, Idle
  <1>3. Cardinality(Inserting \ {p}) = Cardinality(Inserting) - 1
    BY <1>2, InsertingFinite, FS_RemoveElement
  <1>4. Cardinality(table \cup {started + 1}) <= Cardinality(table) + 1
        /\ Cardinality(table \cup {started + 1}) \in Nat
    <2>1. /\ IsFiniteSet(table \cup {started + 1})
          /\ Cardinality(table \cup {started + 1}) =
               IF started + 1 \in table THEN Cardinality(table) ELSE Cardinality(table) + 1
      BY TableFinite, FS_AddElement, Zenon
    <2>2. QED
      BY <2>1, TableFinite
  <1>5. MaxSessions \in Nat /\ Cardinality(Procs) \in Nat
    BY LoginAssumption, FS_CardinalityType
  <1>6. QED
    BY <1>1, <1>2, <1>3, <1>4, <1>5, TableFinite, InsertingFinite DEF Room

\* The sessions that wait for their user are never more than the limit and the starts
\* that overlap.
THEOREM TableIsNearlyBounded == Spec => []TableNearlyBounded
  <1>1. Init => Room
    <2> SUFFICES ASSUME Init PROVE Room
      OBVIOUS
    <2>1. table = {} /\ Inserting = {}
      BY DEF Init, Inserting, Idle
    <2>2. /\ Cardinality(table) = 0 /\ Cardinality(Inserting) = 0
          /\ MaxSessions \in Nat \ {0} /\ Cardinality(Procs) \in Nat
      BY <2>1, LoginAssumption, FS_EmptySet, FS_CardinalityType
    <2>3. QED
      BY <2>2 DEF Room
  <1>2. LoginTypes /\ Room /\ [Next]_vars => Room'
    <2> SUFFICES ASSUME LoginTypes, Room, [Next]_vars PROVE Room'
      OBVIOUS
    <2>1. CASE UNCHANGED vars \/ Tick
      BY <2>1 DEF vars, Tick, Room, Inserting
    <2>2. ASSUME NEW p \in Procs, Reserve(p) \/ Lookup(p) \/ Step(p)
          PROVE  Room'
      <3>1. CASE Reserve(p)
        BY <3>1, ReserveRoom
      <3>2. CASE Insert(p)
        BY <3>2, InsertRoom
      <3>3. CASE \/ Lookup(p) \/ Clear(p) \/ Look(p) \/ Ask(p) \/ TokenReply(p)
                 \/ Complete(p) \/ ExchangeReply(p) \/ Drop(p) \/ Land(p)
        <4>1. table' \subseteq table
          BY <3>3 DEF Lookup, Clear, Look, Ask, TokenReply, Complete, ExchangeReply, Drop,
                      Land
        <4>2. QED
          BY <3>3, <4>1, InsertingKept, RoomKept
      <3>4. QED
        BY <2>2, <3>1, <3>2, <3>3 DEF Step
    <2>3. QED
      BY <2>1, <2>2 DEF Next
  <1>3. LoginTypes /\ Room => TableNearlyBounded
    BY TableFinite, InsertingFinite, LoginAssumption, FS_CardinalityType
       DEF Room, TableNearlyBounded
  <1>4. QED
    BY <1>1, <1>2, <1>3, InitTypes, NextTypes, PTL DEF Spec

-----------------------------------------------------------------------------
(***************************************************************************)
(* What DeviceLogin promises about polls, accounts and secrets, for any    *)
(* number of goroutines and sessions.                                      *)
(***************************************************************************)

Unexpired(s) == now < session[s].expires
At(p, s, pcs) == op[p].mine /\ op[p].obj = s /\ op[p].pc \in pcs

\* polling is up for as long as one goroutine has set it.
Owned ==
    /\ \A p \in Procs : op[p].mine => session[op[p].obj].polling
    /\ \A p, q \in Procs : op[p].mine /\ op[q].mine /\ op[p].obj = op[q].obj => p = q
    /\ \A s \in Ids : session[s].polling => \E p \in Procs : op[p].mine /\ op[p].obj = s

\* What is dropped or cleared has expired, or is its own goroutine's; what is to be
\* cleared has left the table.
Ends(p) ==
    /\ op[p].pc = "drop" /\ ~op[p].mine => ~Unexpired(op[p].obj)
    /\ op[p].pc = "clear" /\ op[p].mine => op[p].todo = {op[p].obj}
    /\ op[p].pc = "clear" =>
         \A s \in op[p].todo :
           s \notin table /\ (~Unexpired(s) \/ (op[p].mine /\ op[p].obj = s))
Doomed == \A p \in Procs : Ends(p)

\* Where a session that has not expired may have a secret.
Bare(s) ==
    s \notin table /\ Unexpired(s) =>
      \/ ~session[s].code /\ ~session[s].token
      \/ \E p \in Procs : At(p, s, {"clear"}) /\ s \in op[p].todo
Holds(p) ==
    /\ op[p].pc = "tokenReply" /\ op[p].sent /\ Unexpired(op[p].obj) =>
         op[p].obj \in table
    /\ op[p].pc = "exchangeReply" /\ Unexpired(op[p].obj) => session[op[p].obj].token
Secrets == (\A s \in 1 .. started : Bare(s)) /\ \A p \in Procs : Holds(p)

\* A session that has produced its account has left the table or is about to.
Once(s) ==
    /\ s > started => won[s] = 0
    /\ won[s] # 0 /\ Unexpired(s) =>
         won[s] = 1 /\ (s \notin table \/ \E p \in Procs : At(p, s, {"drop"}))
Accounted == \A s \in Ids : Once(s)

\* A device code that may be presented again is not due before its interval is over.
Waits(s) ==
    /\ asked[s] <= now
    /\ s > started => asked[s] = 0
    /\ asked[s] # 0 /\ Unexpired(s) /\ session[s].code =>
         \/ session[s].nextPoll >= asked[s] + session[s].interval
         \/ \E p \in Procs : At(p, s, {"tokenReply", "drop", "clear"})
Due(p) ==
    /\ op[p].pc \in {"look", "ask"} => ~op[p].sent
    /\ op[p].pc = "ask" => now >= session[op[p].obj].nextPoll
Paced == (\A s \in Ids : Waits(s)) /\ \A p \in Procs : Due(p)

Inv == LoginTypes /\ Owned /\ Doomed /\ Secrets /\ Accounted /\ Paced

-----------------------------------------------------------------------------
(***************************************************************************)
(* What each step does, field by field.                                    *)
(***************************************************************************)
\* The fields that the invariant reads, and their types.
LEMMA Fields ==
    ASSUME LoginTypes
    PROVE  /\ now \in Nat /\ started \in 0 .. MaxStarts /\ MaxStarts \in Nat
           /\ Ids = 1 .. MaxStarts
           /\ table \subseteq 1 .. started
           /\ \A s \in Ids : /\ session[s].code \in BOOLEAN /\ session[s].token \in BOOLEAN
                             /\ session[s].polling \in BOOLEAN
                             /\ session[s].interval \in Nat /\ session[s].nextPoll \in Nat
                             /\ session[s].expires \in Nat
                             /\ asked[s] \in Nat /\ won[s] \in Nat
           /\ \A p \in Procs : /\ Role(op[p]) /\ op[p].mine \in BOOLEAN
                               /\ op[p].sent \in BOOLEAN /\ op[p].obj \in 0 .. MaxStarts
                               /\ op[p].todo \subseteq Ids /\ op[p].at \in Nat
  <1>1. /\ now \in Nat /\ started \in 0 .. MaxStarts /\ MaxStarts \in Nat
        /\ Ids = 1 .. MaxStarts /\ table \subseteq 1 .. started
    BY LoginAssumption DEF LoginTypes, TypeOK, Ids
  <1>2. ASSUME NEW s \in Ids
        PROVE  /\ session[s].code \in BOOLEAN /\ session[s].token \in BOOLEAN
               /\ session[s].polling \in BOOLEAN
               /\ session[s].interval \in Nat /\ session[s].nextPoll \in Nat
               /\ session[s].expires \in Nat
               /\ asked[s] \in Nat /\ won[s] \in Nat
    <2>1. session[s] \in Session /\ asked[s] \in Nat /\ won[s] \in Nat
      BY DEF LoginTypes, TypeOK
    <2>2. Intervals \cup {0} \subseteq Nat
      BY LoginAssumption
    <2>3. QED
      BY <2>1, <2>2 DEF Session
  <1>3. ASSUME NEW p \in Procs
        PROVE  /\ Role(op[p]) /\ op[p].mine \in BOOLEAN
               /\ op[p].sent \in BOOLEAN /\ op[p].obj \in 0 .. MaxStarts
               /\ op[p].todo \subseteq Ids /\ op[p].at \in Nat
    BY DEF LoginTypes, TypeOK, Op
  <1>4. QED
    BY <1>1, <1>2, <1>3

\* Who has set polling, and what every place of a goroutine implies.
LEMMA Situation ==
    ASSUME LoginTypes, NEW p \in Procs
    PROVE  /\ op[p].mine => op[p].obj \in 1 .. started /\ op[p].obj \in Ids
           /\ op[p].pc \in {"idle", "insert", "look"} => ~op[p].mine
           /\ op[p].pc \in Polling => op[p].mine
           /\ op[p].pc \in Polling \cup {"look", "drop"} =>
                op[p].obj \in 1 .. started /\ op[p].obj \in Ids
           /\ op[p].pc = "clear" => /\ op[p].todo \subseteq 1 .. started
                                    /\ op[p].todo \subseteq Ids
                                    /\ op[p].mine <=> op[p].then = "land"
           /\ op[p].pc = "look" => op[p].at <= now
  <1>1. Role(op[p]) /\ 1 .. started \subseteq Ids
    BY LoginAssumption DEF LoginTypes, TypeOK, Ids
  <1>2. QED
    BY <1>1 DEF Role, Polling

\* Only p moves.
Alone(p) == \A q \in Procs \ {p} : op'[q] = op[q]

Reserved(p) ==
    /\ Alone(p) /\ UNCHANGED <<now, started, session, asked, won>>
    /\ op[p].pc = "idle" /\ ~op[p].mine /\ ~op'[p].mine /\ ~op'[p].sent
    /\ op'[p].pc \in {"idle", "insert", "clear"}
    /\ op'[p].pc = "clear" => op'[p].todo \subseteq table \ table'
    /\ table' \subseteq table
    /\ \A s \in table \ table' : now >= session[s].expires

LEMMA ReserveEffect ==
    ASSUME LoginTypes, NEW p \in Procs, Reserve(p)
    PROVE  Reserved(p)
  <1> DEFINE expired == {s \in table : now >= session[s].expires}
             then == IF HasRoom(table \ expired) THEN "insert" ELSE "idle"
             start == [Idle EXCEPT !.at = now]
             r == Clearing(start, expired, then)
  <1>1. /\ op[p].pc = "idle" /\ op' = [op EXCEPT ![p] = r]
        /\ table' = table \ expired
        /\ UNCHANGED <<now, started, session, asked, won>>
    BY DEF Reserve
  <1>2. expired \in SUBSET Ids /\ then \in PCs
    <2>1. table \subseteq Ids
      BY LoginAssumption DEF LoginTypes, TypeOK, Ids
    <2>2. QED
      BY <2>1 DEF PCs
  <1>3. ~r.mine /\ ~r.sent /\ r.todo = expired /\ r.pc = IF expired = {} THEN then ELSE "clear"
    <2>1. start \in Op /\ ~start.mine /\ ~start.sent
      BY StartType DEF LoginTypes, TypeOK, Idle
    <2> HIDE DEF start, expired, then
    <2>2. QED
      BY <1>2, <2>1, ClearingType
  <1>4. then \in {"insert", "idle"}
    OBVIOUS
  <1>5. op'[p] = r /\ Alone(p)
    BY <1>1 DEF LoginTypes, TypeOK, Alone
  <1> HIDE DEF r, then
  <1>6. QED
    <2>1. \A s \in table \ table' : now >= session[s].expires
      BY <1>1
    <2>2. table' \subseteq table /\ expired \subseteq table \ table'
      BY <1>1
    <2> HIDE DEF expired
    <2>3. QED
      BY <1>1, <1>3, <1>4, <1>5, <2>1, <2>2, Situation DEF Reserved

Inserted(p) ==
    /\ Alone(p) /\ UNCHANGED <<now, asked, won>>
    /\ op[p].pc = "insert" /\ ~op[p].mine
    /\ op'[p].pc = "idle" /\ ~op'[p].mine /\ ~op'[p].sent
    /\ started' = started + 1 /\ table' = table \cup {started + 1}
    /\ \A s \in Ids \ {started + 1} : session'[s] = session[s]
    /\ started + 1 \in Ids /\ ~session'[started + 1].polling

LEMMA InsertEffect ==
    ASSUME LoginTypes, NEW p \in Procs, Insert(p)
    PROVE  Inserted(p)
  <1>1. op' = [op EXCEPT ![p] = Idle] /\ op[p].pc = "insert"
    BY DEF Insert, Return
  <1>2. started + 1 \in Ids
    <2>1. LoginTypes'
      BY InsertTypes
    <2>2. started' = started + 1
      BY DEF Insert
    <2>3. QED
      BY <2>1, <2>2, LoginAssumption DEF LoginTypes, TypeOK, Ids
  <1>3. PICK x : session' = [session EXCEPT ![started + 1] =
                   [Blank EXCEPT !.code = TRUE, !.interval = x, !.nextPoll = op[p].at + x,
                                 !.expires = op[p].at + Lifetime]]
    BY DEF Insert
  <1>4. session \in [Ids -> Session] /\ op \in [Procs -> Op]
    BY DEF LoginTypes, TypeOK
  <1>5. ~session'[started + 1].polling
    BY <1>2, <1>3, <1>4 DEF Blank
  <1>6. ~op[p].mine
    BY <1>1, Situation
  <1>7. Alone(p) /\ op'[p].pc = "idle" /\ ~op'[p].mine /\ ~op'[p].sent
    BY <1>1, <1>4 DEF Alone, Idle
  <1>8. UNCHANGED <<now, asked, won>> /\ started' = started + 1
        /\ table' = table \cup {started + 1}
    BY DEF Insert
  <1>9. \A s \in Ids \ {started + 1} : session'[s] = session[s]
    BY <1>3, <1>4
  <1>10. QED
    BY <1>1, <1>2, <1>5, <1>6, <1>7, <1>8, <1>9 DEF Inserted

Cleared(p) ==
    /\ Alone(p) /\ UNCHANGED <<now, started, table, asked, won>>
    /\ op[p].pc = "clear"
    /\ op'[p].obj = op[p].obj /\ op'[p].mine = op[p].mine
    /\ op'[p].sent = op[p].sent
    /\ op'[p].pc \in {"idle", "insert", "land", "clear"}
    /\ \E s \in op[p].todo :
         /\ op'[p].todo = op[p].todo \ {s}
         /\ op'[p].todo # {} => op'[p].pc = "clear"
         /\ op'[p].todo = {} => op'[p].pc = op[p].then
         /\ \A t \in Ids \ {s} : session'[t] = session[t]
         /\ ~session'[s].code /\ ~session'[s].token
         /\ session'[s].polling = session[s].polling
         /\ session'[s].interval = session[s].interval
         /\ session'[s].nextPoll = session[s].nextPoll
         /\ session'[s].expires = session[s].expires

LEMMA ClearEffect ==
    ASSUME LoginTypes, NEW p \in Procs, Clear(p)
    PROVE  Cleared(p)
  <1>1. PICK s \in op[p].todo :
          /\ session' = [session EXCEPT ![s].code = FALSE, ![s].token = FALSE]
          /\ op' = [op EXCEPT ![p] = Clearing(op[p], op[p].todo \ {s}, op[p].then)]
    BY DEF Clear, LoginTypes, TypeOK
  <1>2. op[p] \in Op /\ op[p].pc = "clear" /\ Role(op[p])
    BY DEF Clear, LoginTypes, TypeOK
  <1> DEFINE todo == op[p].todo \ {s}
             then == op[p].then
             r == Clearing(op[p], todo, then)
  <1>3. todo \in SUBSET Ids /\ then \in PCs
    BY <1>2 DEF Op
  <1>4. /\ r.obj = op[p].obj /\ r.mine = op[p].mine /\ r.sent = op[p].sent
        /\ r.todo = todo
        /\ r.pc = IF todo = {} THEN then ELSE "clear"
    <2> HIDE DEF todo, then
    <2>1. QED
      BY <1>2, <1>3, ClearingType
  <1>5. op'[p] = r /\ Alone(p)
    BY <1>1 DEF LoginTypes, TypeOK, Alone
  <1> HIDE DEF r
  <1>6. s \in Ids /\ session \in [Ids -> Session] /\ session[s] \in Session
    BY <1>2 DEF LoginTypes, TypeOK, Op
  <1>7. /\ \A t \in Ids \ {s} : session'[t] = session[t]
        /\ ~session'[s].code /\ ~session'[s].token
        /\ session'[s].polling = session[s].polling
        /\ session'[s].interval = session[s].interval
        /\ session'[s].nextPoll = session[s].nextPoll
        /\ session'[s].expires = session[s].expires
    BY <1>1, <1>6 DEF Session
  <1>8. then \in {"idle", "insert", "land"}
    BY <1>2 DEF Role
  <1>9. UNCHANGED <<now, started, table, asked, won>>
    BY DEF Clear
  <1> HIDE DEF then
  <1>10. /\ op'[p].todo # {} => op'[p].pc = "clear"
         /\ op'[p].todo = {} => op'[p].pc = op[p].then
         /\ op'[p].pc \in {"idle", "insert", "land", "clear"}
    BY <1>4, <1>5, <1>8 DEF then
  <1>11. QED
    BY <1>2, <1>4, <1>5, <1>7, <1>9, <1>10 DEF Cleared

LookedUp(p) ==
    /\ Alone(p) /\ UNCHANGED <<now, started, session, table, asked, won>>
    /\ op[p].pc = "idle" /\ ~op[p].mine
    /\ op'[p].pc = "look" /\ ~op'[p].mine /\ ~op'[p].sent

LEMMA LookupEffect ==
    ASSUME LoginTypes, NEW p \in Procs, Lookup(p)
    PROVE  LookedUp(p)
  <1>1. PICK s \in table :
          op' = [op EXCEPT ![p] = [Idle EXCEPT !.pc = "look", !.obj = s, !.at = now]]
    BY DEF Lookup
  <1>2. op \in [Procs -> Op]
    BY DEF LoginTypes, TypeOK
  <1>3. QED
    BY <1>1, <1>2, Situation DEF LookedUp, Lookup, Alone, Idle

Looked(p) ==
    LET s == op[p].obj IN
    /\ Alone(p) /\ UNCHANGED <<now, started, table, asked, won>>
    /\ op[p].pc = "look" /\ ~op[p].mine
    /\ \A t \in Ids \ {s} : session'[t] = session[t]
    /\ session'[s].code = session[s].code
    /\ session'[s].token = session[s].token
    /\ session'[s].interval = session[s].interval
    /\ session'[s].nextPoll = session[s].nextPoll
    /\ session'[s].expires = session[s].expires
    /\ \/ /\ op[p].at >= session[s].expires
          /\ op'[p].pc = "drop" /\ op'[p].obj = s /\ ~op'[p].mine
          /\ session'[s].polling = session[s].polling
       \/ op'[p] = Idle /\ session'[s].polling = session[s].polling
       \/ /\ ~session[s].polling /\ op[p].at >= session[s].nextPoll
          /\ session'[s].polling
          /\ op'[p].pc \in {"ask", "complete"}
          /\ op'[p].obj = s /\ op'[p].mine /\ op'[p].sent = op[p].sent

LEMMA LookEffect ==
    ASSUME LoginTypes, NEW p \in Procs, Look(p)
    PROVE  Looked(p)
  <1> USE DEF Looked
  <1> DEFINE s == op[p].obj
  <1>1. /\ op[p] \in Op /\ op[p].pc = "look" /\ ~op[p].mine
        /\ s \in Ids /\ session[s] \in Session
        /\ session \in [Ids -> Session] /\ op \in [Procs -> Op]
    <2>1. op[p].pc = "look" /\ op[p] \in Op /\ Role(op[p])
      BY DEF Look, LoginTypes, TypeOK
    <2>2. ~op[p].mine /\ s \in 1 .. started
      BY <2>1 DEF Role, Polling
    <2>3. QED
      BY <2>1, <2>2, LoginAssumption DEF LoginTypes, TypeOK, Ids
  <1>2. CASE /\ op[p].at >= session[s].expires
             /\ op' = [op EXCEPT ![p].pc = "drop", ![p].at = 0]
             /\ UNCHANGED session
    <2>1. /\ Alone(p) /\ op'[p].pc = "drop" /\ op'[p].obj = s /\ ~op'[p].mine
      BY <1>1, <1>2 DEF Alone, Op
    <2>2. QED
      BY <1>1, <1>2, <2>1 DEF Look
  <1>3. CASE Return(p) /\ UNCHANGED session
    <2>1. Alone(p) /\ op'[p] = Idle
      BY <1>1, <1>3 DEF Return, Alone
    <2>2. QED
      BY <1>1, <1>3, <2>1 DEF Look
  <1>4. CASE /\ MayPoll(s, op[p].at)
             /\ session' = [session EXCEPT ![s].polling = TRUE]
             /\ op' = [op EXCEPT ![p].mine = TRUE, ![p].at = 0,
                         ![p].pc = IF session[s].phase = "waiting" THEN "ask"
                                   ELSE "complete"]
    <2>1. /\ Alone(p) /\ op'[p].pc \in {"ask", "complete"}
          /\ op'[p].obj = s /\ op'[p].mine /\ op'[p].sent = op[p].sent
      BY <1>1, <1>4 DEF Alone, Op
    <2>2. /\ \A t \in Ids \ {s} : session'[t] = session[t]
          /\ session'[s].code = session[s].code
          /\ session'[s].token = session[s].token
          /\ session'[s].interval = session[s].interval
          /\ session'[s].nextPoll = session[s].nextPoll
          /\ session'[s].expires = session[s].expires
          /\ session'[s].polling
      BY <1>1, <1>4 DEF Session
    <2>3. QED
      BY <1>1, <1>4, <2>1, <2>2 DEF Look, MayPoll
  <1>5. QED
    BY <1>2, <1>3, <1>4 DEF LookedUp, Look

\* A poll that has the session goes from one place to the next.
Goes(p, pc) ==
    /\ Alone(p)
    /\ op'[p].pc = pc /\ op'[p].obj = op[p].obj /\ op[p].mine /\ op'[p].mine
    /\ op'[p].sent = op[p].sent /\ op'[p].todo = op[p].todo

LEMMA GotoEffect ==
    ASSUME LoginTypes, NEW p \in Procs, op[p].mine, NEW pc, Goto(p, pc)
    PROVE  Goes(p, pc)
  <1>1. op \in [Procs -> Op] /\ op[p] \in Op
    BY DEF LoginTypes, TypeOK
  <1>2. QED
    BY <1>1 DEF Goto, Goes, Alone, Op

Asked(p) ==
    LET s == op[p].obj IN
    /\ Alone(p) /\ UNCHANGED <<now, started, session, table, won>>
    /\ op[p].pc = "ask" /\ op[p].mine
    /\ op'[p].obj = s /\ op'[p].mine
    /\ \A t \in Ids \ {s} : asked'[t] = asked[t]
    /\ \/ /\ op'[p].pc = "tokenReply" /\ op'[p].sent = session[s].code
          /\ asked'[s] = IF session[s].code THEN now ELSE asked[s]
       \/ op'[p].pc = "land" /\ op'[p].sent = op[p].sent /\ UNCHANGED asked

LEMMA AskEffect ==
    ASSUME LoginTypes, NEW p \in Procs, Ask(p)
    PROVE  Asked(p)
  <1> USE DEF Asked
  <1> DEFINE s == op[p].obj
  <1>1. /\ op[p] \in Op /\ op[p].pc = "ask" /\ op[p].mine /\ s \in Ids
        /\ op \in [Procs -> Op] /\ asked \in [Ids -> Nat]
    BY LoginAssumption DEF Ask, LoginTypes, TypeOK, Role, Polling, Ids
  <1>2. CASE /\ op' = [op EXCEPT ![p].pc = "tokenReply", ![p].sent = session[s].code]
             /\ asked' = IF session[s].code THEN [asked EXCEPT ![s] = now] ELSE asked
    <2>1. /\ Alone(p) /\ op'[p].obj = s /\ op'[p].mine
          /\ op'[p].pc = "tokenReply" /\ op'[p].sent = session[s].code
      BY <1>1, <1>2 DEF Alone, Op
    <2>2. /\ \A t \in Ids \ {s} : asked'[t] = asked[t]
          /\ asked'[s] = IF session[s].code THEN now ELSE asked[s]
      BY <1>1, <1>2
    <2>3. QED
      BY <1>1, <2>1, <2>2 DEF Ask
  <1>3. CASE Goto(p, "land") /\ UNCHANGED asked
    BY <1>1, <1>3, GotoEffect DEF Ask, Goes
  <1>4. QED
    BY <1>2, <1>3 DEF Ask

\* Only the secrets or the pace of s change, never who polls it or when it expires.
Touches(s) ==
    /\ \A t \in Ids \ {s} : session'[t] = session[t]
    /\ session'[s].polling = session[s].polling
    /\ session'[s].expires = session[s].expires

\* reschedule: the interval starts again.
Delays(s) ==
    /\ Touches(s)
    /\ session'[s].code = session[s].code /\ session'[s].token = session[s].token
    /\ session'[s].nextPoll = now + session'[s].interval /\ session'[s].interval \in Nat

LEMMA RescheduledEffect ==
    ASSUME LoginTypes, NEW s \in Ids, NEW x \in Intervals \cup {0},
           session' = Rescheduled(s, x)
    PROVE  Delays(s)
  <1>1. session \in [Ids -> Session] /\ session[s] \in Session
    BY DEF LoginTypes, TypeOK
  <1>2. x \in Nat
    BY LoginAssumption
  <1>3. QED
    BY <1>1, <1>2 DEF Rescheduled, Delays, Touches, Session

TokenReplied(p) ==
    LET s == op[p].obj IN
    /\ UNCHANGED <<now, started, table, asked, won>>
    /\ op[p].pc = "tokenReply" /\ op[p].mine
    /\ \/ /\ op[p].sent /\ Goes(p, "complete")
          /\ Touches(s) /\ ~session'[s].code /\ session'[s].token
       \/ Goes(p, "land") /\ Delays(s)
       \/ Goes(p, "drop") /\ UNCHANGED session

LEMMA TokenReplyEffect ==
    ASSUME LoginTypes, NEW p \in Procs, TokenReply(p)
    PROVE  TokenReplied(p)
  <1> USE DEF TokenReplied
  <1> DEFINE s == op[p].obj
  <1>1. /\ op[p].pc = "tokenReply" /\ op[p].mine /\ s \in Ids
        /\ session[s] \in Session /\ session \in [Ids -> Session]
    BY LoginAssumption DEF TokenReply, LoginTypes, TypeOK, Role, Polling, Ids
  <1>2. UNCHANGED <<now, started, table, asked, won>>
    BY DEF TokenReply
  <1>3. CASE /\ op[p].sent
             /\ session' = [session EXCEPT ![s].token = TRUE, ![s].code = FALSE,
                                           ![s].phase = "exchanging"]
             /\ Goto(p, "complete")
    <2>1. Touches(s) /\ ~session'[s].code /\ session'[s].token
      BY <1>1, <1>3 DEF Touches, Session
    <2>2. QED
      BY <1>1, <1>2, <1>3, <2>1, GotoEffect
  <1>4. CASE /\ \E interval \in Intervals : session' = Rescheduled(s, interval)
             /\ Goto(p, "land")
    BY <1>1, <1>2, <1>4, GotoEffect, RescheduledEffect
  <1>5. CASE Goto(p, "drop") /\ UNCHANGED session
    BY <1>1, <1>2, <1>5, GotoEffect
  <1>6. QED
    BY <1>3, <1>4, <1>5 DEF TokenReply

Completed(p) ==
    /\ UNCHANGED <<now, started, session, table, asked, won>>
    /\ op[p].pc = "complete" /\ op[p].mine
    /\ \/ Goes(p, "exchangeReply") /\ session[op[p].obj].token
       \/ Goes(p, "drop")

LEMMA CompleteEffect ==
    ASSUME LoginTypes, NEW p \in Procs, Complete(p)
    PROVE  Completed(p)
  <1> USE DEF Completed
  <1>1. op[p].pc = "complete" /\ op[p].mine
    BY DEF Complete, LoginTypes, TypeOK, Role, Polling
  <1>2. QED
    BY <1>1, GotoEffect DEF Complete

ExchangeReplied(p) ==
    LET s == op[p].obj IN
    /\ UNCHANGED <<now, started, table, asked>>
    /\ op[p].pc = "exchangeReply" /\ op[p].mine
    /\ \/ /\ Goes(p, "drop") /\ UNCHANGED session
          /\ won'[s] = won[s] + 1
          /\ \A t \in Ids \ {s} : won'[t] = won[t]
       \/ Goes(p, "land") /\ Delays(s) /\ UNCHANGED won
       \/ Goes(p, "drop") /\ UNCHANGED <<session, won>>

LEMMA ExchangeReplyEffect ==
    ASSUME LoginTypes, NEW p \in Procs, ExchangeReply(p)
    PROVE  ExchangeReplied(p)
  <1> USE DEF ExchangeReplied
  <1> DEFINE s == op[p].obj
  <1>1. /\ op[p].pc = "exchangeReply" /\ op[p].mine /\ s \in Ids
        /\ session[s].interval \in Intervals \cup {0} /\ won \in [Ids -> Nat]
    BY LoginAssumption DEF ExchangeReply, LoginTypes, TypeOK, Role, Polling, Ids, Session
  <1>2. UNCHANGED <<now, started, table, asked>>
    BY DEF ExchangeReply
  <1>3. CASE /\ won' = [won EXCEPT ![s] = @ + 1] /\ Goto(p, "drop") /\ UNCHANGED session
    BY <1>1, <1>2, <1>3, GotoEffect
  <1>4. CASE /\ session' = Rescheduled(s, session[s].interval)
             /\ Goto(p, "land") /\ UNCHANGED won
    BY <1>1, <1>2, <1>4, GotoEffect, RescheduledEffect
  <1>5. CASE Goto(p, "drop") /\ UNCHANGED <<session, won>>
    BY <1>1, <1>2, <1>5, GotoEffect
  <1>6. QED
    BY <1>3, <1>4, <1>5 DEF ExchangeReply

Dropped(p) ==
    LET s == op[p].obj IN
    /\ Alone(p) /\ UNCHANGED <<now, started, session, asked, won>>
    /\ op[p].pc = "drop" /\ s \in 1 .. started
    /\ table' = table \ {s}
    /\ op'[p].obj = s /\ op'[p].mine = op[p].mine
    /\ op'[p].sent = op[p].sent
    /\ IF s \in table THEN op'[p].pc = "clear" /\ op'[p].todo = {s}
       ELSE op'[p].pc = IF op[p].mine THEN "land" ELSE "idle"

LEMMA DropEffect ==
    ASSUME LoginTypes, NEW p \in Procs, Drop(p)
    PROVE  Dropped(p)
  <1> USE DEF Dropped
  <1> DEFINE s == op[p].obj
             todo == {op[p].obj} \cap table
             then == IF op[p].mine THEN "land" ELSE "idle"
             r == Clearing(op[p], todo, then)
  <1>1. /\ op[p] \in Op /\ Role(op[p]) /\ op[p].pc = "drop" /\ op \in [Procs -> Op]
    BY DEF Drop, LoginTypes, TypeOK
  <1>2. todo \in SUBSET Ids /\ then \in PCs /\ s \in 1 .. started
    <2>1. todo \subseteq 1 .. started
      BY DEF LoginTypes, TypeOK
    <2>2. 1 .. started \subseteq Ids
      BY LoginAssumption DEF LoginTypes, TypeOK, Ids
    <2>3. then \in PCs
      BY DEF PCs
    <2>4. s \in 1 .. started
      BY <1>1 DEF Role
    <2>5. QED
      BY <2>1, <2>2, <2>3, <2>4
  <1>3. /\ r.obj = s /\ r.mine = op[p].mine /\ r.sent = op[p].sent /\ r.todo = todo
        /\ r.pc = IF todo = {} THEN then ELSE "clear"
    <2> HIDE DEF todo, then
    <2>1. QED
      BY <1>1, <1>2, ClearingType
  <1>4. op' = [op EXCEPT ![p] = r] /\ table' = table \ {s}
    BY <1>1 DEF Drop
  <1>5. UNCHANGED <<now, started, session, asked, won>>
    BY DEF Drop
  <1> HIDE DEF r
  <1>6. op'[p] = r /\ Alone(p)
    BY <1>1, <1>4 DEF Alone
  <1>7. QED
    BY <1>1, <1>2, <1>3, <1>4, <1>5, <1>6

Landed(p) ==
    LET s == op[p].obj IN
    /\ Alone(p) /\ UNCHANGED <<now, started, table, asked, won>>
    /\ op[p].pc = "land" /\ op[p].mine /\ s \in 1 .. started
    /\ op'[p] = Idle
    /\ \A t \in Ids \ {s} : session'[t] = session[t]
    /\ ~session'[s].polling
    /\ session'[s].code = session[s].code
    /\ session'[s].token = session[s].token
    /\ session'[s].interval = session[s].interval
    /\ session'[s].nextPoll = session[s].nextPoll
    /\ session'[s].expires = session[s].expires

LEMMA LandEffect ==
    ASSUME LoginTypes, NEW p \in Procs, Land(p)
    PROVE  Landed(p)
  <1> DEFINE s == op[p].obj
  <1>1. op[p].pc = "land" /\ Role(op[p])
    BY DEF Land, LoginTypes
  <1>2. s \in 1 .. started /\ op[p].mine
    BY <1>1 DEF Role, Polling
  <1>3. /\ s \in Ids /\ session \in [Ids -> Session] /\ session[s] \in Session
        /\ op \in [Procs -> Op]
    BY <1>2, LoginAssumption DEF LoginTypes, TypeOK, Ids
  <1>4. /\ \A t \in Ids \ {s} : session'[t] = session[t]
        /\ ~session'[s].polling
        /\ session'[s].code = session[s].code
        /\ session'[s].token = session[s].token
        /\ session'[s].interval = session[s].interval
        /\ session'[s].nextPoll = session[s].nextPoll
        /\ session'[s].expires = session[s].expires
    BY <1>3 DEF Land, Session
  <1>5. Alone(p) /\ op'[p] = Idle
    BY <1>3 DEF Land, Return, Alone
  <1>6. QED
    BY <1>1, <1>2, <1>4, <1>5 DEF Landed, Land

Effect(p) ==
    \/ Reserved(p) \/ LookedUp(p) \/ Inserted(p) \/ Cleared(p) \/ Looked(p) \/ Asked(p)
    \/ TokenReplied(p) \/ Completed(p) \/ ExchangeReplied(p) \/ Dropped(p) \/ Landed(p)

LEMMA Effects ==
    ASSUME LoginTypes, NEW p \in Procs, Reserve(p) \/ Lookup(p) \/ Step(p)
    PROVE  Effect(p)
  BY ReserveEffect, LookupEffect, InsertEffect, ClearEffect, LookEffect, AskEffect,
     TokenReplyEffect, CompleteEffect, ExchangeReplyEffect, DropEffect, LandEffect
     DEF Step, Effect

-----------------------------------------------------------------------------
(***************************************************************************)
(* The invariant holds from step to step.                                  *)
(***************************************************************************)
LEMMA OwnedStep ==
    ASSUME LoginTypes, Owned, NEW p \in Procs, Effect(p)
    PROVE  Owned'
  <1>1. ASSUME Reserved(p) PROVE Owned'
    BY <1>1 DEF Owned, Reserved, Alone
  <1>2. ASSUME LookedUp(p) PROVE Owned'
    BY <1>2 DEF Owned, LookedUp, Alone
  <1>3. ASSUME Inserted(p) PROVE Owned'
    <2>1. \A q \in Procs : op[q].mine => op[q].obj \in Ids \ {started + 1}
      BY Fields, Situation
    <2>2. QED
      BY <1>3, <2>1 DEF Owned, Inserted, Alone
  <1>4. ASSUME Cleared(p) PROVE Owned'
    BY <1>4, Situation DEF Owned, Cleared, Alone
  <1>5. ASSUME Looked(p) PROVE Owned'
    BY <1>5, Situation DEF Owned, Looked, Alone, Idle
  <1>6. ASSUME Asked(p) PROVE Owned'
    BY <1>6 DEF Owned, Asked, Alone
  <1>7. ASSUME TokenReplied(p) PROVE Owned'
    BY <1>7, Situation DEF Owned, TokenReplied, Goes, Touches, Delays, Alone
  <1>8. ASSUME Completed(p) PROVE Owned'
    BY <1>8 DEF Owned, Completed, Goes, Alone
  <1>9. ASSUME ExchangeReplied(p) PROVE Owned'
    BY <1>9, Situation DEF Owned, ExchangeReplied, Goes, Touches, Delays, Alone
  <1>10. ASSUME Dropped(p) PROVE Owned'
    BY <1>10 DEF Owned, Dropped, Alone
  <1>11. ASSUME Landed(p) PROVE Owned'
    BY <1>11, Situation DEF Owned, Landed, Alone, Idle
  <1>12. QED
    BY <1>1, <1>2, <1>3, <1>4, <1>5, <1>6, <1>7, <1>8, <1>9, <1>10, <1>11 DEF Effect

\* Time and expiry are left alone by all that a poll does.
LEMMA ExpiryKept ==
    ASSUME LoginTypes, NEW p \in Procs,
           \/ Reserved(p) \/ LookedUp(p) \/ Cleared(p) \/ Looked(p) \/ Asked(p)
           \/ TokenReplied(p) \/ Completed(p) \/ ExchangeReplied(p) \/ Dropped(p)
           \/ Landed(p)
    PROVE  /\ now' = now /\ started' = started /\ table' \subseteq table
           /\ \A s \in Ids : Unexpired(s)' <=> Unexpired(s)
           /\ \A q \in Procs \ {p} : op'[q] = op[q]
  <1>1. CASE Reserved(p)
    BY <1>1 DEF Reserved, Unexpired, Alone
  <1>2. CASE LookedUp(p)
    BY <1>2 DEF LookedUp, Unexpired, Alone
  <1>3. CASE Cleared(p)
    BY <1>3 DEF Cleared, Unexpired, Alone
  <1>4. CASE Looked(p)
    BY <1>4 DEF Looked, Unexpired, Alone
  <1>5. CASE Asked(p)
    BY <1>5 DEF Asked, Unexpired, Alone
  <1>6. CASE TokenReplied(p)
    BY <1>6 DEF TokenReplied, Touches, Delays, Unexpired, Goes, Alone
  <1>7. CASE Completed(p)
    BY <1>7 DEF Completed, Unexpired, Goes, Alone
  <1>8. CASE ExchangeReplied(p)
    BY <1>8 DEF ExchangeReplied, Touches, Delays, Unexpired, Goes, Alone
  <1>9. CASE Dropped(p)
    BY <1>9 DEF Dropped, Unexpired, Alone
  <1>10. CASE Landed(p)
    BY <1>10 DEF Landed, Unexpired, Alone
  <1>11. QED
    BY <1>1, <1>2, <1>3, <1>4, <1>5, <1>6, <1>7, <1>8, <1>9, <1>10

\* Who does not move is as close to the end as before.
LEMMA EndsKept ==
    ASSUME LoginTypes, Doomed, NEW q \in Procs, op'[q] = op[q],
           \A s \in 1 .. started : Unexpired(s)' <=> Unexpired(s),
           table' \cap 1 .. started \subseteq table
    PROVE  Ends(q)'
  BY Situation DEF Doomed, Ends

LEMMA DoomedStep ==
    ASSUME LoginTypes, Doomed, NEW p \in Procs, Effect(p)
    PROVE  Doomed'
  <1>1. 1 .. started \subseteq Ids /\ table \subseteq Ids
    BY Fields
  <1>2. ASSUME Ends(p)', table' \subseteq table,
               \A s \in Ids : Unexpired(s)' <=> Unexpired(s),
               \A q \in Procs \ {p} : op'[q] = op[q]
        PROVE  Doomed'
    BY <1>1, <1>2, EndsKept DEF Doomed
  <1>3. ASSUME Reserved(p) PROVE Ends(p)'
    <2>1. \A s \in table \ table' : ~Unexpired(s)
      BY <1>3, Fields DEF Reserved, Unexpired
    <2>2. \A s \in Ids : Unexpired(s)' <=> Unexpired(s)
      BY <1>3, ExpiryKept
    <2>3. op'[p].pc # "drop" /\ ~op'[p].mine
      BY <1>3 DEF Reserved
    <2>4. op'[p].pc = "clear" =>
            \A s \in op'[p].todo : s \notin table' /\ s \in Ids /\ ~Unexpired(s)
      BY <1>1, <1>3, <2>1 DEF Reserved
    <2>5. QED
      BY <2>2, <2>3, <2>4 DEF Ends
  <1>4. ASSUME LookedUp(p) PROVE Ends(p)'
    BY <1>4 DEF LookedUp, Ends
  <1>5. ASSUME Inserted(p) PROVE Doomed'
    <2>1. \A s \in 1 .. started : s \in Ids \ {started + 1} /\ s # started + 1
      BY Fields
    <2>2. \A s \in 1 .. started : Unexpired(s)' <=> Unexpired(s)
      BY <1>5, <2>1 DEF Inserted, Unexpired
    <2>3. table' \cap 1 .. started \subseteq table
      BY <1>5, <2>1 DEF Inserted
    <2>4. Ends(p)'
      BY <1>5 DEF Inserted, Ends
    <2>5. QED
      BY <1>5, <2>2, <2>3, <2>4, EndsKept DEF Doomed, Inserted, Alone
  <1>6. ASSUME Cleared(p) PROVE Ends(p)'
    BY <1>6, ExpiryKept, Situation DEF Cleared, Doomed, Ends
  <1>7. ASSUME Looked(p) PROVE Ends(p)'
    <2>1. op[p].at >= session[op[p].obj].expires => ~Unexpired(op[p].obj)
      BY <1>7, Fields, Situation DEF Looked, Unexpired
    <2>2. \A s \in Ids : Unexpired(s)' <=> Unexpired(s)
      BY <1>7, ExpiryKept
    <2>3. /\ op'[p].pc # "clear"
          /\ op'[p].pc = "drop" /\ ~op'[p].mine =>
               ~Unexpired(op[p].obj) /\ op'[p].obj = op[p].obj
      BY <1>7, <2>1 DEF Looked, Idle
    <2>4. op[p].obj \in Ids
      BY <1>7, Situation DEF Looked
    <2>5. QED
      BY <2>2, <2>3, <2>4 DEF Ends
  <1>8. ASSUME Asked(p) PROVE Ends(p)'
    BY <1>8 DEF Asked, Ends
  <1>9. ASSUME TokenReplied(p) PROVE Ends(p)'
    BY <1>9 DEF TokenReplied, Goes, Ends
  <1>10. ASSUME Completed(p) PROVE Ends(p)'
    BY <1>10 DEF Completed, Goes, Ends
  <1>11. ASSUME ExchangeReplied(p) PROVE Ends(p)'
    BY <1>11 DEF ExchangeReplied, Goes, Ends
  <1>12. ASSUME Dropped(p) PROVE Ends(p)'
    BY <1>12, ExpiryKept, Situation DEF Dropped, Doomed, Ends
  <1>13. ASSUME Landed(p) PROVE Ends(p)'
    BY <1>13 DEF Landed, Ends, Idle
  <1>14. QED
    BY <1>1, <1>2, <1>3, <1>4, <1>5, <1>6, <1>7, <1>8, <1>9, <1>10, <1>11, <1>12, <1>13, ExpiryKept DEF Effect

\* A session that loses no more than its place in the table by expiry or its secrets,
\* as long as nobody else was to clear it.
LEMMA BareKept ==
    ASSUME Secrets, NEW p \in Procs, NEW s \in 1 .. started,
           Unexpired(s)' => Unexpired(s) /\ (s \in table => s \in table'),
           \A q \in Procs \ {p} : op'[q] = op[q],
           ~(op[p].pc = "clear" /\ op[p].obj = s),
           session'[s].code => session[s].code, session'[s].token => session[s].token
    PROVE  Bare(s)'
  BY DEF Secrets, Bare, At

LEMMA HoldsKept ==
    ASSUME LoginTypes, Secrets, NEW q \in Procs, op'[q] = op[q],
           \A s \in 1 .. started :
             Unexpired(s)' => Unexpired(s) /\ (s \in table => s \in table'),
           op[q].pc = "exchangeReply" /\ Unexpired(op[q].obj) =>
             session'[op[q].obj].token = session[op[q].obj].token
    PROVE  Holds(q)'
  BY Situation DEF Secrets, Holds, Polling

\* Nobody but its owner is to clear a session that has not expired, and a poll that
\* has presented a code or a token is its session's owner.
LEMMA SoleOwner ==
    ASSUME LoginTypes, Owned, Doomed, NEW p \in Procs, op[p].mine, NEW q \in Procs, q # p
    PROVE  /\ op[q].pc \in Polling => op[q].obj # op[p].obj
           /\ ~At(q, op[p].obj, {"clear", "drop", "tokenReply"})
           /\ op[q].pc = "clear" /\ op[p].obj \in op[q].todo => ~Unexpired(op[p].obj)
           /\ op[q].pc = "drop" /\ op[q].obj = op[p].obj => ~Unexpired(op[p].obj)
  BY Situation DEF Owned, Doomed, Ends, At

LEMMA SecretsStep ==
    ASSUME LoginTypes, Owned, Doomed, Secrets, NEW p \in Procs,
           Effect(p)
    PROVE  Secrets'
  <1>1. 1 .. started \subseteq Ids /\ table \subseteq Ids
    BY Fields
  <1>2. ASSUME \A s \in Ids : Unexpired(s)' <=> Unexpired(s), started' = started,
               \A q \in Procs \ {p} : op'[q] = op[q],
               \A s \in table \ table' : ~Unexpired(s),
               op[p].pc # "clear", Holds(p)',
               \A s \in Ids : session'[s].code => session[s].code,
               \A s \in Ids : session'[s].token = session[s].token
        PROVE  Secrets'
    <2>1. ASSUME NEW s \in 1 .. started PROVE Bare(s)'
      BY <1>1, <1>2, BareKept
    <2>2. ASSUME NEW q \in Procs \ {p} PROVE Holds(q)'
      BY <1>1, <1>2, HoldsKept, Situation DEF Polling
    <2>3. QED
      BY <1>2, <2>1, <2>2 DEF Secrets
  <1>3. ASSUME Reserved(p) PROVE Secrets'
    <2>1. \A s \in table \ table' : ~Unexpired(s)
      BY <1>3, Fields DEF Reserved, Unexpired
    <2>2. Holds(p)' /\ session' = session /\ op[p].pc # "clear"
      BY <1>3 DEF Reserved, Holds
    <2>3. QED
      BY <1>2, <1>3, <2>1, <2>2, ExpiryKept
  <1>4. ASSUME LookedUp(p) PROVE Secrets'
    <2>1. Holds(p)' /\ session' = session /\ table' = table /\ op[p].pc # "clear"
      BY <1>4 DEF LookedUp, Holds
    <2>2. QED
      BY <1>2, <1>4, <2>1, ExpiryKept
  <1>5. ASSUME Inserted(p) PROVE Secrets'
    <2>1. \A s \in 1 .. started : s \in Ids \ {started + 1} /\ s # started + 1
      BY Fields
    <2>2. \A s \in 1 .. started : Unexpired(s)' <=> Unexpired(s)
      BY <1>5, <2>1 DEF Inserted, Unexpired
    <2>3. 1 .. started' = (1 .. started) \cup {started + 1}
      BY <1>5, Fields DEF Inserted
    <2>4. ASSUME NEW s \in 1 .. started PROVE Bare(s)'
      BY <1>5, <2>1, <2>2, BareKept DEF Inserted, Alone
    <2>5. ASSUME NEW s \in {started + 1} PROVE Bare(s)'
      BY <1>5 DEF Inserted, Bare
    <2>6. ASSUME NEW q \in Procs \ {p} PROVE Holds(q)'
      BY <1>5, <2>1, <2>2, HoldsKept, Situation DEF Inserted, Alone, Polling
    <2>7. Holds(p)'
      BY <1>5 DEF Inserted, Holds
    <2>8. QED
      BY <2>3, <2>4, <2>5, <2>6, <2>7 DEF Secrets
  <1>6. ASSUME Cleared(p) PROVE Secrets'
    <2>1. /\ \A s \in Ids : Unexpired(s)' <=> Unexpired(s)
          /\ started' = started /\ table' = table
      BY <1>6, ExpiryKept DEF Cleared
    <2>2. ASSUME NEW s \in 1 .. started PROVE Bare(s)'
      BY <1>1, <1>6, <2>1 DEF Cleared, Alone, Secrets, Bare, At
    <2>3. ASSUME NEW q \in Procs PROVE Holds(q)'
      BY <1>1, <1>6, <2>1, Situation DEF Cleared, Alone, Secrets, Holds, Polling, Owned, Doomed, Ends
    <2>4. QED
      BY <2>1, <2>2, <2>3 DEF Secrets
  <1>7. ASSUME Looked(p) PROVE Secrets'
    <2>1. Holds(p)' /\ table' = table /\ op[p].pc # "clear"
      BY <1>7 DEF Looked, Holds, Idle
    <2>2. \A s \in Ids : session'[s].code = session[s].code /\ session'[s].token = session[s].token
      BY <1>7 DEF Looked
    <2>3. QED
      BY <1>2, <1>7, <2>1, <2>2, ExpiryKept
  <1>8. ASSUME Asked(p) PROVE Secrets'
    <2>1. op[p].obj \in 1 .. started
      BY <1>8, Situation DEF Asked
    <2>2. session[op[p].obj].code /\ Unexpired(op[p].obj) => op[p].obj \in table
      <3>1. \A q \in Procs : ~At(q, op[p].obj, {"clear"})
        BY <1>8, SoleOwner DEF Asked, At
      <3>2. QED
        BY <2>1, <3>1 DEF Secrets, Bare
    <2>3. \A s \in Ids : Unexpired(s)' <=> Unexpired(s)
      BY <1>8, ExpiryKept
    <2>4. Holds(p)' /\ session' = session /\ table' = table /\ op[p].pc # "clear"
      BY <1>1, <1>8, <2>1, <2>2, <2>3 DEF Asked, Holds
    <2>5. QED
      BY <1>2, <1>8, <2>4, ExpiryKept
  <1>9. ASSUME TokenReplied(p) PROVE Secrets'
    <2>1. /\ \A s \in Ids : Unexpired(s)' <=> Unexpired(s)
          /\ started' = started /\ table' = table
          /\ \A q \in Procs \ {p} : op'[q] = op[q]
      BY <1>9, ExpiryKept DEF TokenReplied
    <2>2. op[p].obj \in 1 .. started /\ op[p].pc = "tokenReply"
      BY <1>9, Situation DEF TokenReplied
    <2>3. ASSUME NEW s \in 1 .. started PROVE Bare(s)'
      BY <1>1, <1>9, <2>1, <2>2
         DEF TokenReplied, Touches, Delays, Secrets, Bare, Holds, At, Goes
    <2>4. ASSUME NEW q \in Procs PROVE Holds(q)'
      BY <1>1, <1>9, <2>1, Situation
         DEF TokenReplied, Touches, Delays, Goes, Secrets, Holds, Polling
    <2>5. QED
      BY <2>1, <2>3, <2>4 DEF Secrets
  <1>10. ASSUME Completed(p) PROVE Secrets'
    <2>1. Holds(p)' /\ session' = session /\ table' = table /\ op[p].pc # "clear"
      BY <1>10 DEF Completed, Goes, Holds
    <2>2. QED
      BY <1>2, <1>10, <2>1, ExpiryKept
  <1>11. ASSUME ExchangeReplied(p) PROVE Secrets'
    <2>1. Holds(p)' /\ table' = table /\ op[p].pc # "clear"
      BY <1>11 DEF ExchangeReplied, Goes, Holds
    <2>2. \A s \in Ids : session'[s].code = session[s].code /\ session'[s].token = session[s].token
      BY <1>11 DEF ExchangeReplied, Touches, Delays
    <2>3. QED
      BY <1>2, <1>11, <2>1, <2>2, ExpiryKept
  <1>12. ASSUME Dropped(p) PROVE Secrets'
    <2>1. /\ \A s \in Ids : Unexpired(s)' <=> Unexpired(s)
          /\ started' = started /\ session' = session
          /\ \A q \in Procs \ {p} : op'[q] = op[q]
      BY <1>12, ExpiryKept DEF Dropped
    <2>2. Ends(p)
      BY DEF Doomed
    <2>3. ASSUME NEW s \in 1 .. started PROVE Bare(s)'
      <3>1. CASE s # op[p].obj
        BY <1>1, <1>12, <2>1, <3>1, BareKept DEF Dropped
      <3>2. CASE s = op[p].obj /\ s \notin table
        BY <1>1, <1>12, <2>1, <3>2, BareKept DEF Dropped
      <3>3. CASE s = op[p].obj /\ s \in table
        BY <1>1, <1>12, <2>1, <2>2, <3>3 DEF Dropped, Bare, At, Ends
      <3>4. QED
        BY <3>1, <3>2, <3>3
    <2>4. ASSUME NEW q \in Procs \ {p} PROVE Holds(q)'
      BY <1>1, <1>12, <2>1, <2>2, Situation
         DEF Dropped, Ends, Owned, Secrets, Holds, Polling
    <2>5. Holds(p)'
      BY <1>12 DEF Dropped, Holds
    <2>6. QED
      BY <2>1, <2>3, <2>4, <2>5 DEF Secrets
  <1>13. ASSUME Landed(p) PROVE Secrets'
    <2>1. Holds(p)' /\ table' = table /\ op[p].pc # "clear"
      BY <1>13 DEF Landed, Holds, Idle
    <2>2. \A s \in Ids : session'[s].code = session[s].code /\ session'[s].token = session[s].token
      BY <1>13 DEF Landed
    <2>3. QED
      BY <1>2, <1>13, <2>1, <2>2, ExpiryKept
  <1>14. QED
    BY <1>1, <1>2, <1>3, <1>4, <1>5, <1>6, <1>7, <1>8, <1>9, <1>10, <1>11, <1>12, <1>13 DEF Effect

LEMMA OnceKept ==
    ASSUME Accounted, NEW p \in Procs, NEW s \in Ids, won'[s] = won[s],
           s > started' => s > started, Unexpired(s)' => Unexpired(s),
           s \in table' => s \in table,
           \A q \in Procs \ {p} : op'[q] = op[q],
           At(p, s, {"drop"}) => s \notin table'
    PROVE  Once(s)'
  BY DEF Accounted, Once, At

LEMMA AccountedStep ==
    ASSUME LoginTypes, Owned, Doomed, Secrets, Accounted, NEW p \in Procs,
           Effect(p)
    PROVE  Accounted'
  <1>1. ASSUME \A s \in Ids : Unexpired(s)' <=> Unexpired(s), started' = started,
               table' \subseteq table, won' = won,
               \A q \in Procs \ {p} : op'[q] = op[q],
               ~(op[p].mine /\ op[p].pc = "drop")
        PROVE  Accounted'
    BY <1>1, OnceKept DEF Accounted, At
  <1>2. ASSUME Reserved(p) PROVE Accounted'
    <2>1. won' = won /\ ~op[p].mine
      BY <1>2 DEF Reserved
    <2>2. QED
      BY <1>1, <1>2, <2>1, ExpiryKept
  <1>3. ASSUME LookedUp(p) PROVE Accounted'
    <2>1. won' = won /\ ~op[p].mine
      BY <1>3 DEF LookedUp
    <2>2. QED
      BY <1>1, <1>3, <2>1, ExpiryKept
  <1>4. ASSUME Inserted(p) PROVE Accounted'
    <2>1. ASSUME NEW s \in Ids PROVE Once(s)'
      <3>1. CASE s = started + 1
        <4>1. won'[s] = 0 /\ started' = started + 1
          BY <1>4, <3>1, Fields DEF Inserted, Accounted, Once
        <4>2. QED
          BY <4>1 DEF Once
      <3>2. CASE s # started + 1
        <4>1. Unexpired(s)' <=> Unexpired(s)
          BY <1>4, <3>2 DEF Inserted, Unexpired
        <4>2. s > started' => s > started
          BY <1>4, Fields DEF Inserted
        <4>3. QED
          BY <1>4, <3>2, <4>1, <4>2, OnceKept DEF Inserted, Alone, At
      <3>3. QED
        BY <3>1, <3>2
    <2>2. QED
      BY <2>1 DEF Accounted
  <1>5. ASSUME Cleared(p) PROVE Accounted'
    <2>1. won' = won /\ op[p].pc # "drop"
      BY <1>5 DEF Cleared
    <2>2. QED
      BY <1>1, <1>5, <2>1, ExpiryKept
  <1>6. ASSUME Looked(p) PROVE Accounted'
    <2>1. won' = won /\ ~op[p].mine
      BY <1>6 DEF Looked
    <2>2. QED
      BY <1>1, <1>6, <2>1, ExpiryKept
  <1>7. ASSUME Asked(p) PROVE Accounted'
    <2>1. won' = won /\ op[p].pc # "drop"
      BY <1>7 DEF Asked
    <2>2. QED
      BY <1>1, <1>7, <2>1, ExpiryKept
  <1>8. ASSUME TokenReplied(p) PROVE Accounted'
    <2>1. won' = won /\ op[p].pc # "drop"
      BY <1>8 DEF TokenReplied
    <2>2. QED
      BY <1>1, <1>8, <2>1, ExpiryKept
  <1>9. ASSUME Completed(p) PROVE Accounted'
    <2>1. won' = won /\ op[p].pc # "drop"
      BY <1>9 DEF Completed
    <2>2. QED
      BY <1>1, <1>9, <2>1, ExpiryKept
  <1>10. ASSUME ExchangeReplied(p) PROVE Accounted'
    <2>1. PICK x \in Ids : x = op[p].obj /\ x \in 1 .. started
      BY <1>10, Situation DEF ExchangeReplied
    <2>2. op[p].pc = "exchangeReply" /\ op[p].mine
      BY <1>10 DEF ExchangeReplied
    <2>3. CASE won' = won
      BY <1>1, <1>10, <2>2, <2>3, ExpiryKept
    <2>4. CASE /\ Goes(p, "drop") /\ won'[x] = won[x] + 1
               /\ \A t \in Ids \ {x} : won'[t] = won[t]
      <3>1. Unexpired(x) => won[x] = 0
        <4>1. \A q \in Procs : ~At(q, x, {"clear", "drop"})
          BY <2>1, <2>2, SoleOwner DEF At
        <4>2. Unexpired(x) => session[x].token
          BY <2>1, <2>2 DEF Secrets, Holds
        <4>3. Unexpired(x) => x \in table
          BY <2>1, <4>1, <4>2 DEF Secrets, Bare, At
        <4>4. QED
          BY <2>1, <2>2, <4>1, <4>3 DEF Accounted, Once, At
      <3>2. Once(x)'
        <4>1. At(p, x, {"drop"})'
          BY <2>1, <2>4 DEF Goes, At
        <4>2. Unexpired(x)' => won'[x] = 1
          <5>1. Unexpired(x)' => Unexpired(x)
            BY <1>10, ExpiryKept
          <5>2. QED
            BY <2>4, <3>1, <5>1
        <4>3. ~(x > started')
          BY <1>10, <2>1, Fields, ExpiryKept
        <4>4. QED
          BY <4>1, <4>2, <4>3 DEF Once, At
      <3>3. ASSUME NEW s \in Ids \ {x} PROVE Once(s)'
        <4>1. ~At(p, s, {"drop"})
          BY <2>1, <2>2 DEF At
        <4>2. QED
          BY <1>10, <2>4, <4>1, OnceKept, ExpiryKept
      <3>4. QED
        BY <3>2, <3>3 DEF Accounted, ExchangeReplied
    <2>5. QED
      BY <1>10, <2>1, <2>3, <2>4 DEF ExchangeReplied
  <1>11. ASSUME Dropped(p) PROVE Accounted'
    <2>1. won' = won /\ op[p].obj \notin table'
      BY <1>11 DEF Dropped
    <2>2. ASSUME NEW s \in Ids PROVE Once(s)'
      BY <1>11, <2>1, ExpiryKept, OnceKept DEF At
    <2>3. QED
      BY <2>2 DEF Accounted
  <1>12. ASSUME Landed(p) PROVE Accounted'
    <2>1. won' = won /\ op[p].pc # "drop"
      BY <1>12 DEF Landed
    <2>2. QED
      BY <1>1, <1>12, <2>1, ExpiryKept
  <1>13. QED
    BY <1>1, <1>2, <1>3, <1>4, <1>5, <1>6, <1>7, <1>8, <1>9, <1>10, <1>11, <1>12 DEF Effect

LEMMA WaitsKept ==
    ASSUME LoginTypes, Paced, NEW p \in Procs, NEW s \in Ids, asked'[s] = asked[s], now' = now,
           s > started' => s > started, Unexpired(s)' => Unexpired(s),
           session'[s].code => session[s].code,
           session'[s].interval = session[s].interval,
           session'[s].nextPoll = session[s].nextPoll,
           \A q \in Procs \ {p} : op'[q] = op[q],
           At(p, s, {"tokenReply", "drop", "clear"}) =>
             \/ ~session'[s].code
             \/ ~Unexpired(s)'
             \/ op'[p].mine /\ op'[p].obj = s /\ op'[p].pc \in {"tokenReply", "drop", "clear"}
    PROVE  Waits(s)'
  BY DEF Paced, Waits, At

\* A goroutine that does not move is as due as before, unless its session is delayed.
LEMMA DueKept ==
    ASSUME LoginTypes, Paced, NEW q \in Procs, op'[q] = op[q], now' = now,
           op[q].pc = "ask" => session'[op[q].obj].nextPoll = session[op[q].obj].nextPoll
    PROVE  Due(q)'
  BY DEF Paced, Due

LEMMA PacedStep ==
    ASSUME LoginTypes, Owned, Doomed, Secrets, Paced, NEW p \in Procs,
           Effect(p)
    PROVE  Paced'
  <1>1. ASSUME \A s \in Ids : Unexpired(s)' <=> Unexpired(s), now' = now, started' = started,
               \A q \in Procs \ {p} : op'[q] = op[q], asked' = asked,
               \A s \in Ids : /\ session'[s].code => session[s].code
                              /\ session'[s].interval = session[s].interval
                              /\ session'[s].nextPoll = session[s].nextPoll,
               op[p].pc \notin {"tokenReply", "drop", "clear"} \/ ~op[p].mine,
               Due(p)'
        PROVE  Paced'
    <2>1. ASSUME NEW s \in Ids PROVE Waits(s)'
      BY <1>1, WaitsKept DEF At
    <2>2. ASSUME NEW q \in Procs \ {p} PROVE Due(q)'
      BY <1>1, DueKept, Situation DEF Polling
    <2>3. QED
      BY <1>1, <2>1, <2>2 DEF Paced
  <1>2. ASSUME Reserved(p) PROVE Paced'
    <2>1. /\ session' = session /\ asked' = asked
          /\ ~op[p].mine /\ Due(p)'
      BY <1>2 DEF Reserved, Due
    <2>2. QED
      BY <1>1, <1>2, <2>1, ExpiryKept
  <1>3. ASSUME LookedUp(p) PROVE Paced'
    <2>1. /\ session' = session /\ asked' = asked
          /\ ~op[p].mine /\ Due(p)'
      BY <1>3 DEF LookedUp, Due
    <2>2. QED
      BY <1>1, <1>3, <2>1, ExpiryKept
  <1>4. ASSUME Inserted(p) PROVE Paced'
    <2>1. ASSUME NEW s \in Ids PROVE Waits(s)'
      <3>1. CASE s = started + 1
        <4>1. asked'[s] = 0 /\ now' \in Nat /\ started' = started + 1
          BY <1>4, <3>1, Fields DEF Inserted, Paced, Waits
        <4>2. QED
          BY <4>1 DEF Waits
      <3>2. CASE s # started + 1
        <4>1. Unexpired(s)' <=> Unexpired(s)
          BY <1>4, <3>2 DEF Inserted, Unexpired
        <4>2. s > started' => s > started
          BY <1>4, Fields DEF Inserted
        <4>3. QED
          BY <1>4, <3>2, <4>1, <4>2, WaitsKept DEF Inserted, Alone, At
      <3>3. QED
        BY <3>1, <3>2
    <2>2. \A s \in 1 .. started : s \in Ids \ {started + 1}
      BY Fields
    <2>3. ASSUME NEW q \in Procs \ {p} PROVE Due(q)'
      BY <1>4, <2>2, DueKept, Situation DEF Inserted, Alone, Polling
    <2>4. Due(p)'
      BY <1>4 DEF Inserted, Due
    <2>5. QED
      BY <2>1, <2>3, <2>4 DEF Paced
  <1>5. ASSUME Cleared(p) PROVE Paced'
    <2>1. Ends(p)
      BY DEF Doomed
    <2>2. ASSUME NEW s \in Ids PROVE Waits(s)'
      <3>1. /\ Unexpired(s)' <=> Unexpired(s)
            /\ now' = now /\ started' = started /\ asked' = asked
            /\ \A q \in Procs \ {p} : op'[q] = op[q]
        BY <1>5, ExpiryKept DEF Cleared
      <3>2. At(p, s, {"tokenReply", "drop", "clear"}) => ~session'[s].code
        BY <1>5, <2>1 DEF Cleared, Ends, At
      <3>3. /\ session'[s].code => session[s].code
            /\ session'[s].interval = session[s].interval
            /\ session'[s].nextPoll = session[s].nextPoll
        BY <1>5 DEF Cleared
      <3>4. QED
        BY <3>1, <3>2, <3>3, WaitsKept
    <2>3. \A s \in Ids : session'[s].nextPoll = session[s].nextPoll
      BY <1>5 DEF Cleared
    <2>4. ASSUME NEW q \in Procs \ {p} PROVE Due(q)'
      BY <1>5, <2>3, DueKept, Situation DEF Cleared, Alone, Polling
    <2>5. Due(p)'
      BY <1>5 DEF Cleared, Due
    <2>6. QED
      BY <2>2, <2>4, <2>5 DEF Paced
  <1>6. ASSUME Looked(p) PROVE Paced'
    <2>1. Due(p)'
      <3>1. /\ ~op[p].sent /\ op[p].at <= now /\ now' = now
            /\ op[p].at \in Nat /\ now \in Nat /\ session[op[p].obj].nextPoll \in Nat
        BY <1>6, Fields, Situation DEF Looked, Paced, Due
      <3>2. QED
        BY <1>6, <3>1 DEF Looked, Due, Idle
    <2>2. \A s \in Ids : /\ session'[s].code = session[s].code
                         /\ session'[s].interval = session[s].interval
                         /\ session'[s].nextPoll = session[s].nextPoll
      BY <1>6 DEF Looked
    <2>3. asked' = asked /\ ~op[p].mine
      BY <1>6 DEF Looked
    <2>4. QED
      BY <1>1, <1>6, <2>1, <2>2, <2>3, ExpiryKept
  <1>7. ASSUME Asked(p) PROVE Paced'
    <2>1. op[p].pc = "ask" /\ session' = session /\ Due(p)'
      BY <1>7 DEF Asked, Due
    <2>2. ASSUME NEW s \in Ids PROVE Waits(s)'
      <3>1. CASE asked'[s] = asked[s]
        BY <1>7, <2>1, <3>1, ExpiryKept, WaitsKept DEF At
      <3>2. CASE asked'[s] # asked[s]
        <4>1. asked'[s] = now /\ At(p, s, {"tokenReply"})' /\ now' = now
          BY <1>7, <3>2 DEF Asked, At
        <4>2. ~(s > started') /\ now \in Nat
          BY <1>7, <3>2, Fields, Situation DEF Asked
        <4>3. QED
          BY <4>1, <4>2 DEF Waits, At
      <3>3. QED
        BY <3>1, <3>2
    <2>3. ASSUME NEW q \in Procs \ {p} PROVE Due(q)'
      BY <1>7, <2>1, DueKept, ExpiryKept
    <2>4. QED
      BY <2>1, <2>2, <2>3 DEF Paced
  <1>8. ASSUME NEW x \in Ids, x = op[p].obj, op[p].mine, Delays(x), asked' = asked,
               now' = now, started' = started,
               \A s \in Ids : Unexpired(s)' <=> Unexpired(s),
               \A q \in Procs \ {p} : op'[q] = op[q], op'[p].pc = "land"
        PROVE  Paced'
    <2>1. ASSUME NEW s \in Ids \ {x} PROVE Waits(s)'
      BY <1>8, <2>1, WaitsKept DEF Delays, Touches, At
    <2>2. Waits(x)'
      <3>1. asked[x] <= now /\ (x > started => asked[x] = 0) /\ asked[x] \in Nat /\ now \in Nat
        BY Fields DEF Paced, Waits
      <3>2. session'[x].interval \in Nat => session'[x].nextPoll >= asked[x] + session'[x].interval
        BY <1>8, <3>1 DEF Delays
      <3>3. session'[x].interval \in Nat
        BY <1>8 DEF Delays
      <3>4. QED
        BY <1>8, <3>1, <3>2, <3>3 DEF Waits
    <2>3. ASSUME NEW q \in Procs \ {p} PROVE Due(q)'
      <3>1. op[q].pc = "ask" => op[q].obj \in Ids \ {x}
        BY <1>8, SoleOwner, Situation DEF Polling
      <3>2. QED
        BY <1>8, <3>1, DueKept DEF Delays, Touches
    <2>4. Due(p)'
      BY <1>8 DEF Due
    <2>5. QED
      BY <2>1, <2>2, <2>3, <2>4 DEF Paced
  <1>9. ASSUME TokenReplied(p) PROVE Paced'
    <2>1. PICK x \in Ids : x = op[p].obj
      BY <1>9, Situation DEF TokenReplied
    <2>2. CASE Goes(p, "land") /\ Delays(x)
      <3>1. asked' = asked /\ op[p].mine /\ op'[p].pc = "land"
        BY <1>9, <2>2 DEF TokenReplied, Goes
      <3>2. QED
        BY <1>8, <1>9, <2>1, <2>2, <3>1, ExpiryKept
    <2>3. CASE Goes(p, "drop") /\ session' = session
      <3>1. ASSUME NEW s \in Ids PROVE Waits(s)'
        BY <1>9, <2>3, ExpiryKept, WaitsKept DEF TokenReplied, Goes, At
      <3>2. ASSUME NEW q \in Procs \ {p} PROVE Due(q)'
        BY <1>9, <2>3, ExpiryKept, DueKept
      <3>3. Due(p)'
        BY <2>3 DEF Goes, Due
      <3>4. QED
        BY <3>1, <3>2, <3>3 DEF Paced
    <2>4. CASE Goes(p, "complete") /\ Touches(x) /\ ~session'[x].code
      <3>1. ASSUME NEW s \in Ids \ {x} PROVE Waits(s)'
        <4>1. ~At(p, s, {"tokenReply", "drop", "clear"}) /\ asked' = asked
          BY <1>9, <2>1 DEF TokenReplied, At
        <4>2. session'[s] = session[s]
          BY <2>4 DEF Touches
        <4>3. QED
          BY <1>9, <4>1, <4>2, ExpiryKept, WaitsKept
      <3>2. Waits(x)'
        <4>1. asked' = asked /\ now' = now /\ started' = started
          BY <1>9 DEF TokenReplied
        <4>2. QED
          BY <2>4, <4>1 DEF Paced, Waits
      <3>3. ASSUME NEW q \in Procs \ {p} PROVE Due(q)'
        <4>1. op[q].pc = "ask" => op[q].obj \in Ids \ {x}
          BY <1>9, <2>1, SoleOwner, Situation DEF TokenReplied, Polling
        <4>2. QED
          BY <1>9, <2>4, <4>1, DueKept, ExpiryKept DEF Touches
      <3>4. Due(p)'
        BY <2>4 DEF Goes, Due
      <3>5. QED
        BY <3>1, <3>2, <3>3, <3>4 DEF Paced
    <2>5. QED
      BY <1>9, <2>1, <2>2, <2>3, <2>4 DEF TokenReplied
  <1>10. ASSUME Completed(p) PROVE Paced'
    <2>1. /\ session' = session /\ asked' = asked
          /\ op[p].pc \notin {"tokenReply", "drop", "clear"} /\ Due(p)'
      BY <1>10 DEF Completed, Goes, Due
    <2>2. QED
      BY <1>1, <1>10, <2>1, ExpiryKept
  <1>11. ASSUME ExchangeReplied(p) PROVE Paced'
    <2>1. PICK x \in Ids : x = op[p].obj
      BY <1>11, Situation DEF ExchangeReplied
    <2>2. CASE Goes(p, "land") /\ Delays(x)
      <3>1. asked' = asked /\ op[p].mine /\ op'[p].pc = "land"
        BY <1>11, <2>2 DEF ExchangeReplied, Goes
      <3>2. QED
        BY <1>8, <1>11, <2>1, <2>2, <3>1, ExpiryKept
    <2>3. CASE Goes(p, "drop") /\ session' = session
      <3>1. /\ asked' = asked /\ op[p].pc \notin {"tokenReply", "drop", "clear"}
            /\ Due(p)'
        BY <1>11, <2>3 DEF ExchangeReplied, Goes, Due
      <3>2. QED
        BY <1>1, <1>11, <2>3, <3>1, ExpiryKept
    <2>4. QED
      BY <1>11, <2>1, <2>2, <2>3 DEF ExchangeReplied
  <1>12. ASSUME Dropped(p) PROVE Paced'
    <2>1. session' = session /\ asked' = asked /\ op[p].pc = "drop"
      BY <1>12 DEF Dropped
    <2>2. ASSUME NEW s \in Ids PROVE Waits(s)'
      <3>1. CASE ~At(p, s, {"drop"})
        BY <1>12, <2>1, <3>1, ExpiryKept, WaitsKept DEF At
      <3>2. CASE At(p, s, {"drop"}) /\ s \in table
        BY <1>12, <2>1, <3>2, ExpiryKept, WaitsKept DEF At, Dropped
      <3>3. CASE At(p, s, {"drop"}) /\ s \notin table
        <4>1. s = op[p].obj /\ op[p].mine /\ s \in 1 .. started
          BY <1>12, <3>3 DEF At, Dropped
        <4>2. \A q \in Procs : ~At(q, s, {"clear"})
          BY <2>1, <4>1, SoleOwner DEF At
        <4>3. Unexpired(s) => ~session[s].code
          BY <3>3, <4>1, <4>2 DEF Secrets, Bare
        <4>4. QED
          BY <1>12, <2>1, <4>3, ExpiryKept, WaitsKept
      <3>4. QED
        BY <3>1, <3>2, <3>3
    <2>3. ASSUME NEW q \in Procs \ {p} PROVE Due(q)'
      BY <1>12, <2>1, DueKept, ExpiryKept
    <2>4. Due(p)'
      BY <1>12 DEF Dropped, Due
    <2>5. QED
      BY <2>2, <2>3, <2>4 DEF Paced
  <1>13. ASSUME Landed(p) PROVE Paced'
    <2>1. /\ asked' = asked /\ op[p].pc \notin {"tokenReply", "drop", "clear"} /\ Due(p)'
      BY <1>13 DEF Landed, Due, Idle
    <2>2. \A s \in Ids : /\ session'[s].code = session[s].code
                         /\ session'[s].interval = session[s].interval
                         /\ session'[s].nextPoll = session[s].nextPoll
      BY <1>13 DEF Landed
    <2>3. QED
      BY <1>1, <1>13, <2>1, <2>2, ExpiryKept
  <1>14. QED
    BY <1>1, <1>2, <1>3, <1>4, <1>5, <1>6, <1>7, <1>8, <1>9, <1>10, <1>11, <1>12, <1>13 DEF Effect

LEMMA InitInv == Init => Inv
  <1> SUFFICES ASSUME Init PROVE Inv
    OBVIOUS
  <1>1. LoginTypes
    BY InitTypes
  <1>2. /\ \A p \in Procs : op[p].pc = "idle" /\ ~op[p].mine
        /\ \A s \in Ids : /\ ~session[s].code /\ ~session[s].token
                          /\ ~session[s].polling /\ asked[s] = 0 /\ won[s] = 0
        /\ now = 1 /\ 1 .. started = {}
    BY DEF Init, Idle, Blank
  <1>3. Owned /\ Doomed /\ Secrets
    BY <1>2 DEF Owned, Doomed, Ends, Secrets, Holds
  <1>4. Accounted /\ Paced
    BY <1>2 DEF Accounted, Once, Paced, Waits, Due
  <1>5. QED
    BY <1>1, <1>3, <1>4 DEF Inv

\* Time passes, and only ends what expires.
LEMMA TickInv ==
    ASSUME Inv, Tick
    PROVE  Owned' /\ Doomed' /\ Secrets' /\ Accounted' /\ Paced'
  <1>1. LoginTypes /\ Owned /\ Doomed /\ Secrets /\ Accounted /\ Paced
    BY DEF Inv
  <1>2. /\ now' = now + 1 /\ now \in Nat
        /\ UNCHANGED <<started, session, table, op, asked, won>>
    BY <1>1, Fields DEF Tick
  <1>3. \A s \in Ids : Unexpired(s)' => Unexpired(s)
    BY <1>1, <1>2, Fields DEF Unexpired
  <1>4. 1 .. started \subseteq Ids
    BY <1>1, Fields
  <1>5. Owned'
    BY <1>1, <1>2 DEF Owned
  <1>6. Doomed'
    BY <1>1, <1>2, <1>3, Situation DEF Doomed, Ends
  <1>7. Secrets'
    BY <1>1, <1>2, <1>3, <1>4, Situation DEF Secrets, Bare, Holds, At, Polling
  <1>8. Accounted'
    BY <1>1, <1>2, <1>3 DEF Accounted, Once, At
  <1>9. Paced'
    <2>1. ASSUME NEW s \in Ids PROVE Waits(s)'
      <3>1. Waits(s) /\ asked[s] \in Nat
        BY <1>1, Fields DEF Paced
      <3>2. asked'[s] <= now'
        BY <1>2, <3>1 DEF Waits
      <3>3. QED
        BY <1>2, <1>3, <3>1, <3>2 DEF Waits, At
    <2>2. ASSUME NEW q \in Procs PROVE Due(q)'
      <3>1. Due(q)
        BY <1>1 DEF Paced
      <3>2. op[q].pc = "ask" => session[op[q].obj].nextPoll \in Nat
        BY <1>1, Fields, Situation DEF Polling
      <3>3. QED
        BY <1>2, <3>1, <3>2 DEF Due
    <2>3. QED
      BY <2>1, <2>2 DEF Paced
  <1>10. QED
    BY <1>5, <1>6, <1>7, <1>8, <1>9

LEMMA NextInv == Inv /\ [Next]_vars => Inv'
  <1> SUFFICES ASSUME Inv, [Next]_vars PROVE Inv'
    OBVIOUS
  <1>1. LoginTypes'
    BY NextTypes DEF Inv
  <1>2. CASE UNCHANGED vars
    <2>1. UNCHANGED <<now, started, session, table, op, asked, won>>
      BY <1>2 DEF vars
    <2>2. Owned' /\ Doomed' /\ Secrets'
      BY <2>1 DEF Inv, Owned, Doomed, Ends, Secrets, Bare, Holds, At, Unexpired
    <2>3. Accounted' /\ Paced'
      BY <2>1 DEF Inv, Accounted, Once, Paced, Waits, Due, At, Unexpired
    <2>4. QED
      BY <1>1, <2>2, <2>3 DEF Inv
  <1>3. CASE Tick
    BY <1>1, <1>3, TickInv DEF Inv
  <1>4. ASSUME NEW p \in Procs, Reserve(p) \/ Lookup(p) \/ Step(p)
        PROVE  Inv'
    <2>1. LoginTypes /\ Owned /\ Doomed /\ Secrets /\ Accounted /\ Paced
      BY DEF Inv
    <2>2. Effect(p)
      BY <1>4, <2>1, Effects
    <2>3. Owned' /\ Doomed' /\ Secrets'
      BY <2>1, <2>2, OwnedStep, DoomedStep, SecretsStep
    <2>4. Accounted' /\ Paced'
      BY <2>1, <2>2, AccountedStep, PacedStep
    <2>5. QED
      BY <1>1, <2>3, <2>4 DEF Inv
  <1>5. QED
    BY <1>2, <1>3, <1>4 DEF Next

LEMMA InvAlways == Spec => []Inv
  BY InitInv, NextInv, PTL DEF Spec

-----------------------------------------------------------------------------
(***************************************************************************)
(* The properties.                                                         *)
(***************************************************************************)
\* While one request polls a session no other does, and a session that nobody polls
\* can be polled again.
THEOREM PollsHaveOwners == Spec => []PollHasOwner
  <1>1. Inv => PollHasOwner
    <2> SUFFICES ASSUME Inv, NEW s \in 1 .. started
                 PROVE  Cardinality({p \in Procs : op[p].mine /\ op[p].obj = s}) =
                          IF session[s].polling THEN 1 ELSE 0
      BY DEF PollHasOwner
    <2> DEFINE at == {p \in Procs : op[p].mine /\ op[p].obj = s}
    <2>1. Owned /\ s \in Ids /\ session[s].polling \in BOOLEAN
      BY Fields DEF Inv
    <2>2. CASE session[s].polling
      <3>1. PICK p \in Procs : op[p].mine /\ op[p].obj = s
        BY <2>1, <2>2 DEF Owned
      <3>2. at = {p}
        BY <2>1, <3>1 DEF Owned
      <3>3. QED
        BY <2>2, <3>2, FS_Singleton
    <2>3. CASE ~session[s].polling
      <3>1. at = {}
        BY <2>1, <2>3 DEF Owned
      <3>2. QED
        BY <2>3, <3>1, FS_EmptySet
    <2>4. QED
      BY <2>1, <2>2, <2>3
  <1>2. QED
    BY <1>1, InvAlways, PTL

\* A session that has not expired gives one account at most.
THEOREM AccountsAreSingle == Spec => []OneAccountPerLogin
  <1>1. Inv => OneAccountPerLogin
    <2> SUFFICES ASSUME Inv, NEW s \in 1 .. started, won[s] > 1
                 PROVE  now >= session[s].expires
      BY DEF OneAccountPerLogin
    <2>1. /\ s \in Ids /\ won[s] \in Nat /\ now \in Nat /\ session[s].expires \in Nat
          /\ Once(s)
      BY Fields DEF Inv, Accounted
    <2>2. QED
      BY <2>1 DEF Once, Unexpired
  <1>2. QED
    BY <1>1, InvAlways, PTL

\* No secret stays behind in a session that has left the table.
THEOREM SecretsAreCleared == Spec => []SecretsGo
  <1>1. Inv => SecretsGo
    <2> SUFFICES ASSUME Inv, NEW s \in (1 .. started) \ table,
                        session[s].code \/ session[s].token,
                        ~(now >= session[s].expires)
                 PROVE  \E p \in Procs : op[p].obj = s /\ op[p].pc # "idle"
      BY DEF SecretsGo
    <2>1. Bare(s) /\ Unexpired(s)
      BY Fields DEF Inv, Secrets, Unexpired
    <2>2. QED
      BY <2>1 DEF Bare, At
  <1>2. QED
    BY <1>1, InvAlways, PTL

\* The interval that GitHub asked for last is kept by all polls of a device code
\* together.
THEOREM GitHubIsNotHurried == Spec => GitHubNotHurried
  <1> DEFINE Hurry(p) ==
        LET s == op[p].obj IN
        op[p].pc = "ask" /\ op'[p].sent /\ asked[s] # 0 /\ now < session[s].expires =>
          now >= asked[s] + session[s].interval
  <1>1. Inv /\ [Next]_vars => [\A p \in Procs : Hurry(p)]_vars
    <2> SUFFICES ASSUME Inv, Next, NEW p \in Procs, op[p].pc = "ask", op'[p].sent,
                        asked[op[p].obj] # 0, now < session[op[p].obj].expires
                 PROVE  now >= asked[op[p].obj] + session[op[p].obj].interval
      OBVIOUS
    <2>1. LoginTypes /\ Due(p) /\ Paced /\ Owned /\ Doomed
      BY DEF Inv, Paced
    <2>2. PICK s \in Ids : s = op[p].obj /\ s \in 1 .. started /\ op[p].mine
      BY <2>1, Situation DEF Polling
    <2>3. session[s].code
      <3>1. CASE Tick
        BY <2>1, <3>1 DEF Tick, Due
      <3>2. ASSUME NEW q \in Procs, Reserve(q) \/ Lookup(q) \/ Step(q)
            PROVE  session[s].code
        <4>1. Effect(q)
          BY <2>1, <3>2, Effects
        <4>2. CASE q # p
          <5>1. op'[p] = op[p]
            BY <4>1, <4>2 DEF Effect, Alone, Reserved, LookedUp, Inserted, Cleared, Looked,
                 Asked, TokenReplied, Completed, ExchangeReplied, Dropped, Landed, Goes
          <5>2. QED
            BY <2>1, <5>1 DEF Due
        <4>3. CASE q = p
          <5>1. Asked(p)
            BY <2>2, <4>1, <4>3 DEF Effect, Reserved, LookedUp, Inserted, Cleared, Looked,
                 TokenReplied, Completed, ExchangeReplied, Dropped, Landed
          <5>2. QED
            BY <2>1, <2>2, <5>1 DEF Asked, Due
        <4>4. QED
          BY <4>2, <4>3
      <3>3. QED
        BY <3>1, <3>2 DEF Next
    <2>4. \A q \in Procs : ~At(q, s, {"tokenReply", "drop", "clear"})
      BY <2>1, <2>2, SoleOwner DEF At
    <2>5. session[s].nextPoll >= asked[s] + session[s].interval
      BY <2>1, <2>2, <2>3, <2>4 DEF Paced, Waits, At, Unexpired
    <2>6. now >= session[s].nextPoll
      BY <2>1, <2>2 DEF Due
    <2>7. /\ now \in Nat /\ session[s].nextPoll \in Nat /\ asked[s] \in Nat
          /\ session[s].interval \in Nat
      BY <2>1, Fields
    <2>8. QED
      BY <2>2, <2>5, <2>6, <2>7
  <1>2. QED
    BY <1>1, InvAlways, PTL DEF Spec, GitHubNotHurried
=============================================================================
