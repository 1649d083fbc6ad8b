------------------------- MODULE AccountStoreProofs -------------------------
(***************************************************************************)
(* Proofs about AccountStore, for any number of goroutines, objects,       *)
(* identities and any set of enabled operations.                           *)
(***************************************************************************)
EXTENDS AccountStore, TLAPS

\* persistMu is held by the goroutine that is between two steps of a file
\* operation, so there is never more than one.
HolderHasMutex == \A p \in Procs : op[p].pc \in HolderPCs => persistMu = p

\* An import works on the object that is still current, and has room for a new one.
ImportIsCurrent ==
    \A p \in Procs : op[p].pc \in {"importWrite", "importCommit"} =>
                       op[p].obj = cur /\ gen < MaxGen

\* Every other operation works on an object that exists.
WorksOnObject ==
    \A p \in Procs : op[p].pc \notin {"idle", "importWrite", "importCommit"} =>
                       op[p].obj \in 1 .. gen

\* The inductive invariant.
StoreInv == /\ TypeOK
            /\ cur <= gen
            /\ HolderHasMutex
            /\ ImportIsCurrent
            /\ WorksOnObject
            /\ OnlyMappedIsLive

-----------------------------------------------------------------------------
\* The helpers return values of their types.
LEMMA BlankType == BlankRaw \in Raw /\ NoGuard \in Guard /\ Idle \in Op
  <1>1. BlankRaw \in Raw
    BY StoreAssumption DEF BlankRaw, Raw, Guard, NoGuard
  <1>2. NoGuard \in Guard
    BY DEF Guard, NoGuard
  <1>3. 0 \in 0 .. MaxGen /\ "idle" \in PCs
    BY StoreAssumption DEF PCs
  <1>4. QED
    BY <1>1, <1>2, <1>3 DEF Idle, Op

LEMMA NewAccountType ==
    ASSUME NEW raw \in Raw, NEW epoch \in Nat, NEW guard \in Guard
    PROVE  NewAccount(raw, epoch, guard) \in Account
  BY DEF NewAccount, Account, Raw

LEMMA RetireType ==
    ASSUME NEW a \in Account
    PROVE  /\ Retire(a) \in Account
           /\ Retire(a).deleted
           /\ Retire(a).guard = a.guard
  <1>1. [a EXCEPT !.deleted = TRUE] \in Account
    BY DEF Account
  <1>2. a.epoch + 1 \in Nat
    BY DEF Account
  <1>3. Retire(a) = [[a EXCEPT !.deleted = TRUE] EXCEPT !.epoch = a.epoch + 1]
    BY DEF Retire, Account
  <1>4. QED
    BY <1>1, <1>2, <1>3 DEF Account

\* What the guard logic promises: a well-formed guard, and the latch.
LEMMA GuardAfterType ==
    ASSUME NEW g \in Guard, NEW state, NEW reset \in Nat, NEW t \in Nat
    PROVE  GuardAfter(g, state, reset, t) \in Guard
  BY DEF GuardAfter, Guard, NoGuard

LEMMA GuardAfterLatches ==
    ASSUME NEW g \in Guard, NEW state, NEW reset \in Nat, NEW t \in Nat,
           g.blocked
    PROVE  LET h == GuardAfter(g, state, reset, t) IN
           \/ g.resetAt # 0 /\ t >= g.resetAt /\ ~h.blocked
           \/ /\ h.blocked
              /\ \/ h.resetAt = g.resetAt
                 \/ g.resetAt = 0
                 \/ t >= g.resetAt /\ h.resetAt > g.resetAt
  BY DEF GuardAfter, Guard, NoGuard

LEMMA SavedGuardType ==
    ASSUME TypeOK, NEW raw \in Raw
    PROVE  SavedGuard(raw) \in Guard
  <1>1. CASE \E s \in stateFile : s.ident = raw.ident
    <2>1. PICK s \in stateFile : TRUE
      BY <1>1
    <2>2. (CHOOSE r \in stateFile : TRUE) \in State
      BY <2>1 DEF TypeOK
    <2>3. QED
      BY <1>1, <2>2 DEF SavedGuard, State
  <1>2. CASE ~\E s \in stateFile : s.ident = raw.ident
    <2>1. raw.mark \in Guard
      BY MarksAssumption, BlankType DEF Raw
    <2>2. QED
      BY <1>2, <2>1, BlankType DEF SavedGuard
  <1>3. QED
    BY <1>1, <1>2

LEMMA InheritedGuardType ==
    ASSUME TypeOK, NEW raw \in Raw
    PROVE  InheritedGuard(raw) \in Guard
  <1>1. cur # 0 => heap[cur].guard \in Guard
    BY StoreAssumption DEF TypeOK, Objs, Account
  <1>2. raw.mark \in Guard
    BY MarksAssumption, BlankType DEF Raw
  <1>3. QED
    BY <1>1, <1>2, SavedGuardType, BlankType DEF InheritedGuard

-----------------------------------------------------------------------------
\* An operation that only moves its own goroutine on keeps the invariant when
\* its new locals are well-formed and agree with the mutex.
LEMMA OwnStep ==
    ASSUME StoreInv, NEW p \in Procs, NEW r \in Op,
           op' = [op EXCEPT ![p] = r],
           UNCHANGED <<heap, gen, cur>>,
           now' \in Nat, authFile' \in SUBSET Raw, stateFile' \in SUBSET State,
           \/ persistMu' = persistMu /\ (r.pc \in HolderPCs => persistMu = p)
           \/ persistMu = Nobody /\ persistMu' = p
           \/ persistMu = p /\ persistMu' = Nobody /\ r.pc \notin HolderPCs,
           r.pc \in {"importWrite", "importCommit"} =>
             r.obj = cur /\ gen < MaxGen,
           r.pc \notin {"idle", "importWrite", "importCommit"} =>
             r.obj \in 1 .. gen
    PROVE  StoreInv'
  <1>1. TypeOK'
    BY DEF StoreInv, TypeOK
  <1>2. \A q \in Procs : op'[q] = IF q = p THEN r ELSE op[q]
    BY DEF StoreInv, TypeOK
  <1>3. HolderHasMutex'
    BY <1>2, StoreAssumption DEF StoreInv, HolderHasMutex
  <1>4. ImportIsCurrent' /\ WorksOnObject'
    BY <1>2 DEF StoreInv, ImportIsCurrent, WorksOnObject
  <1>5. OnlyMappedIsLive' /\ (cur <= gen)'
    BY DEF StoreInv, OnlyMappedIsLive
  <1>6. QED
    BY <1>1, <1>3, <1>4, <1>5 DEF StoreInv

\* The same for an operation that also writes fields of an object other than
\* its deletion mark.
LEMMA ObjectStep ==
    ASSUME StoreInv, NEW p \in Procs, NEW r \in Op,
           op' = [op EXCEPT ![p] = r],
           heap' \in [Objs -> Account],
           \A o \in Objs : heap'[o].deleted = heap[o].deleted,
           UNCHANGED <<now, gen, cur, authFile, stateFile>>,
           \/ persistMu' = persistMu /\ r.pc \notin HolderPCs
           \/ persistMu = p /\ persistMu' = Nobody /\ r.pc \notin HolderPCs,
           r.pc \notin {"idle", "importWrite", "importCommit"} =>
             r.obj \in 1 .. gen
    PROVE  StoreInv'
  <1>1. TypeOK'
    BY DEF StoreInv, TypeOK
  <1>2. \A q \in Procs : op'[q] = IF q = p THEN r ELSE op[q]
    BY DEF StoreInv, TypeOK
  <1>3. HolderHasMutex'
    BY <1>2, StoreAssumption DEF StoreInv, HolderHasMutex
  <1>4. ImportIsCurrent' /\ WorksOnObject'
    BY <1>2 DEF StoreInv, ImportIsCurrent, WorksOnObject, HolderPCs
  <1>5. \A o \in 1 .. gen : o \in Objs
    BY StoreAssumption DEF StoreInv, TypeOK, Objs
  <1>6. OnlyMappedIsLive' /\ (cur <= gen)'
    BY <1>5 DEF StoreInv, OnlyMappedIsLive
  <1>7. QED
    BY <1>1, <1>3, <1>4, <1>6 DEF StoreInv

-----------------------------------------------------------------------------
\* Facts every action below starts from.
LEMMA Typing ==
    ASSUME StoreInv, NEW p \in Procs
    PROVE  /\ op \in [Procs -> Op] /\ op[p] \in Op /\ op[p].raw \in Raw
           /\ op[p].guard \in Guard /\ op[p].epoch \in Nat /\ op[p].off \in BOOLEAN
           /\ 1 .. gen \subseteq Objs
           /\ cur # 0 => cur \in 1 .. gen
           /\ \A o \in 1 .. gen : /\ heap[o] \in Account /\ heap[o].raw \in Raw
                                 /\ heap[o].guard \in Guard /\ heap[o].epoch \in Nat
                                 /\ heap[o].ver \in Nat /\ heap[o].off \in BOOLEAN
           /\ now \in Nat /\ authFile \in SUBSET Raw /\ stateFile \in SUBSET State
           /\ persistMu \in Procs \cup {Nobody} /\ persistMu = Nobody => persistMu # p
  <1>1. 1 .. gen \subseteq Objs
    BY StoreAssumption DEF StoreInv, TypeOK, Objs
  <1>2. op[p] \in Op
    BY DEF StoreInv, TypeOK
  <1>3. op[p].raw \in Raw /\ op[p].guard \in Guard /\ op[p].epoch \in Nat
        /\ op[p].off \in BOOLEAN
    BY <1>2 DEF Op
  <1>4. \A o \in 1 .. gen : heap[o] \in Account
    BY <1>1 DEF StoreInv, TypeOK
  <1>5. \A o \in 1 .. gen : /\ heap[o].raw \in Raw /\ heap[o].guard \in Guard
                          /\ heap[o].epoch \in Nat /\ heap[o].ver \in Nat
                          /\ heap[o].off \in BOOLEAN
    BY <1>4 DEF Account
  <1>6. cur # 0 => cur \in 1 .. gen
    BY StoreAssumption DEF StoreInv, TypeOK
  <1>7. QED
    BY <1>1, <1>2, <1>3, <1>4, <1>5, <1>6, StoreAssumption DEF StoreInv, TypeOK

\* Locals of a goroutine that has moved on.
LEMMA LocalTypes ==
    ASSUME StoreInv, NEW p \in Procs, NEW pc \in PCs
    PROVE  /\ [op[p] EXCEPT !.pc = pc] \in Op
           /\ [op[p] EXCEPT !.pc = pc].pc = pc
           /\ [op[p] EXCEPT !.pc = pc].obj = op[p].obj
           /\ Landing(p, pc) \in Op
           /\ Landing(p, pc).pc = pc /\ Landing(p, pc).obj = op[p].obj
  <1>1. op[p] \in Op
    BY Typing
  <1>2. /\ [op[p] EXCEPT !.pc = pc] \in Op
        /\ [op[p] EXCEPT !.pc = pc].pc = pc
        /\ [op[p] EXCEPT !.pc = pc].obj = op[p].obj
    BY <1>1 DEF Op
  <1>3. [Idle EXCEPT !.pc = pc, !.obj = op[p].obj] \in Op
    <2>1. op[p].obj \in 0 .. MaxGen
      BY <1>1 DEF Op
    <2>2. [Idle EXCEPT !.pc = pc] \in Op
      BY BlankType DEF Op
    <2>3. QED
      BY <2>1, <2>2 DEF Op
  <1>4. QED
    BY <1>2, <1>3, BlankType DEF Landing, Idle

LEMMA ImportBeginStep ==
    ASSUME StoreInv, NEW p \in Procs, ImportBegin(p)
    PROVE  StoreInv'
  <1>1. PICK i \in Idents, off \in Controls, mark \in Marks :
          op' = [op EXCEPT ![p] =
                  [Idle EXCEPT !.pc = "importWrite", !.obj = cur,
                     !.raw = [ident |-> i, ver |-> 0, off |-> off, mark |-> mark],
                     !.epoch = IF cur = 0 THEN 1 ELSE heap[cur].epoch + 1,
                     !.guard = InheritedGuard([ident |-> i, ver |-> 0,
                                               off |-> off, mark |-> mark])]]
    BY DEF ImportBegin
  <1> DEFINE raw == [ident |-> i, ver |-> 0, off |-> off, mark |-> mark]
             epoch == IF cur = 0 THEN 1 ELSE heap[cur].epoch + 1
             r == [Idle EXCEPT !.pc = "importWrite", !.obj = cur, !.raw = raw,
                               !.epoch = epoch, !.guard = InheritedGuard(raw)]
  <1>2. op' = [op EXCEPT ![p] = r]
    BY <1>1
  <1>3. raw \in Raw
    BY StoreAssumption, MarksAssumption DEF Raw
  <1>4. InheritedGuard(raw) \in Guard
    BY <1>3, InheritedGuardType DEF StoreInv
  <1>5. epoch \in Nat
    BY Typing
  <1>6. "importWrite" \in PCs /\ cur \in 0 .. MaxGen
    BY DEF PCs, StoreInv, TypeOK
  <1> HIDE DEF raw, epoch
  <1>7. r \in Op /\ r.pc = "importWrite" /\ r.obj = cur
    BY <1>3, <1>4, <1>5, <1>6, BlankType DEF Op
  <1> HIDE DEF r
  <1>8. QED
    BY <1>2, <1>7, Typing, OwnStep DEF ImportBegin, disk

LEMMA ImportWriteStep ==
    ASSUME StoreInv, NEW p \in Procs, ImportWrite(p)
    PROVE  StoreInv'
  <1>1. persistMu = p /\ op[p].obj = cur /\ gen < MaxGen
    BY DEF ImportWrite, StoreInv, HolderHasMutex, ImportIsCurrent, HolderPCs
  <1>2. CASE authFile' = {op[p].raw} /\ Goto(p, "importCommit") /\ UNCHANGED persistMu
    <2> DEFINE r == [op[p] EXCEPT !.pc = "importCommit"]
    <2>1. r \in Op /\ r.pc = "importCommit" /\ r.obj = cur
      <3>1. "importCommit" \in PCs
        BY DEF PCs
      <3>2. QED
        BY <1>1, <3>1, LocalTypes
    <2>2. op' = [op EXCEPT ![p] = r]
      BY <1>2 DEF Goto
    <2> HIDE DEF r
    <2>3. QED
      BY <1>1, <1>2, <2>1, <2>2, Typing, OwnStep DEF ImportWrite
  <1>3. CASE Return(p) /\ persistMu' = Nobody /\ UNCHANGED authFile
    <2>1. Idle \in Op /\ Idle.pc = "idle" /\ "idle" \notin HolderPCs
      BY BlankType DEF Idle, HolderPCs
    <2>2. op' = [op EXCEPT ![p] = Idle]
      BY <1>3 DEF Return
    <2>3. QED
      BY <1>1, <1>3, <2>1, <2>2, Typing, OwnStep DEF ImportWrite
  <1>4. QED
    BY <1>2, <1>3 DEF ImportWrite

LEMMA ImportCommitStep ==
    ASSUME StoreInv, NEW p \in Procs, ImportCommit(p)
    PROVE  StoreInv'
  <1>1. persistMu = p /\ op[p].obj = cur /\ gen < MaxGen
    BY DEF ImportCommit, StoreInv, HolderHasMutex, ImportIsCurrent, HolderPCs
  <1> DEFINE fresh == NewAccount(op[p].raw, op[p].epoch, op[p].guard)
  <1>2. /\ heap' = [o \in Objs |-> IF o = gen + 1 THEN fresh
                                  ELSE IF o = cur THEN Retire(heap[o]) ELSE heap[o]]
        /\ gen' = gen + 1 /\ cur' = gen + 1
    BY <1>1 DEF ImportCommit
  <1>3. fresh \in Account /\ ~fresh.deleted
    BY Typing, NewAccountType DEF NewAccount
  <1> HIDE DEF fresh
  <1>4. gen + 1 \in Objs /\ gen \in Nat /\ cur \in Nat /\ cur <= gen
    BY <1>1, StoreAssumption DEF StoreInv, TypeOK, Objs
  <1>5. heap' \in [Objs -> Account]
    BY <1>2, <1>3, RetireType DEF StoreInv, TypeOK
  <1>6. op' = [op EXCEPT ![p] = Idle] /\ op' \in [Procs -> Op]
    BY BlankType, Typing DEF ImportCommit, Return
  <1>7. \A q \in Procs : op'[q] = IF q = p THEN Idle ELSE op[q]
    BY <1>6, Typing
  <1>8. TypeOK'
    BY <1>2, <1>4, <1>5, <1>6, StoreAssumption DEF ImportCommit, StoreInv, TypeOK, disk, Objs
  <1>9. HolderHasMutex' /\ ImportIsCurrent'
    BY <1>1, <1>7 DEF StoreInv, HolderHasMutex, ImportIsCurrent, HolderPCs, Idle
  <1>10. WorksOnObject'
    BY <1>2, <1>4, <1>7 DEF StoreInv, WorksOnObject, Idle
  <1>11. OnlyMappedIsLive'
    <2> SUFFICES ASSUME NEW o \in 1 .. gen'
                 PROVE  ~heap'[o].deleted <=> o = cur'
      BY DEF OnlyMappedIsLive
    <2>1. o \in Objs
      BY <1>1, <1>2, <1>4, StoreAssumption DEF Objs
    <2>2. CASE o = gen + 1
      BY <1>2, <1>3, <2>1, <2>2
    <2>3. CASE o # gen + 1 /\ o = cur
      BY <1>2, <2>1, <2>3, RetireType DEF StoreInv, TypeOK
    <2>4. CASE o # gen + 1 /\ o # cur
      <3>1. o \in 1 .. gen
        BY <1>2, <1>4, <2>4
      <3>2. QED
        BY <1>2, <2>1, <2>4, <3>1 DEF StoreInv, OnlyMappedIsLive
    <2>5. QED
      BY <2>2, <2>3, <2>4
  <1>12. (cur <= gen)'
    BY <1>2, <1>4
  <1>13. QED
    BY <1>8, <1>9, <1>10, <1>11, <1>12 DEF StoreInv

LEMMA UpdateBeginStep ==
    ASSUME StoreInv, NEW p \in Procs, UpdateBegin(p)
    PROVE  StoreInv'
  <1>1. cur \in 1 .. gen /\ heap[cur] \in Account /\ cur \in 0 .. MaxGen
    BY Typing DEF UpdateBegin, StoreInv, TypeOK
  <1>2. PICK given \in BOOLEAN, value \in Controls :
          op' = [op EXCEPT ![p] =
                  [Idle EXCEPT !.pc = "updateWrite", !.obj = cur,
                     !.epoch = heap[cur].epoch,
                     !.raw = [heap[cur].raw EXCEPT !.off = IF given THEN value ELSE @],
                     !.off = IF given THEN value ELSE heap[cur].off]]
    BY DEF UpdateBegin
  <1> DEFINE raw == [heap[cur].raw EXCEPT !.off = IF given THEN value ELSE @]
             off == IF given THEN value ELSE heap[cur].off
             epoch == heap[cur].epoch
             r == [Idle EXCEPT !.pc = "updateWrite", !.obj = cur, !.epoch = epoch,
                               !.raw = raw, !.off = off]
  <1>3. op' = [op EXCEPT ![p] = r]
    BY <1>2
  <1>4. raw \in Raw
    <2>1. heap[cur].raw \in Raw /\ value \in BOOLEAN
      BY <1>1, StoreAssumption DEF Account
    <2>2. QED
      BY <2>1 DEF Raw
  <1>5. off \in BOOLEAN /\ epoch \in Nat /\ "updateWrite" \in PCs
    BY <1>1, StoreAssumption DEF Account, PCs
  <1> HIDE DEF raw, off, epoch
  <1>6. r \in Op /\ r.pc = "updateWrite" /\ r.obj = cur
    BY <1>1, <1>4, <1>5, BlankType DEF Op
  <1> HIDE DEF r
  <1>7. QED
    BY <1>1, <1>3, <1>6, Typing, OwnStep DEF UpdateBegin, disk, HolderPCs

LEMMA WriteCredentialStep ==
    ASSUME StoreInv, NEW p \in Procs,
           NEW from \in PCs \ {"idle", "importWrite", "importCommit"},
           NEW done \in {"updateCommit", "persistCommit"},
           NEW failed \in Op, failed.pc \in {"idle", "refreshDone"},
           failed.pc = "idle" \/ failed.obj = op[p].obj,
           WriteCredential(p, from, done, failed)
    PROVE  StoreInv'
  <1>1. op[p].obj \in 1 .. gen
    BY DEF StoreInv, WorksOnObject, WriteCredential
  <1>2. CASE authFile' = {op[p].raw} /\ persistMu' = p /\ Goto(p, done)
    <2> DEFINE r == [op[p] EXCEPT !.pc = done]
    <2>1. done \in PCs
      BY DEF PCs
    <2>2. r \in Op /\ r.pc = done /\ r.obj = op[p].obj
      BY <2>1, LocalTypes
    <2>3. op' = [op EXCEPT ![p] = r]
      BY <1>2 DEF Goto
    <2> HIDE DEF r
    <2>4. QED
      BY <1>1, <1>2, <2>2, <2>3, Typing, OwnStep DEF WriteCredential
  <1>3. CASE op' = [op EXCEPT ![p] = failed] /\ UNCHANGED <<authFile, persistMu>>
    <2>1. failed.pc \notin HolderPCs
      BY DEF HolderPCs
    <2>2. QED
      BY <1>1, <1>3, <2>1, Typing, OwnStep DEF WriteCredential
  <1>4. QED
    BY <1>2, <1>3 DEF WriteCredential

LEMMA UpdateWriteStep ==
    ASSUME StoreInv, NEW p \in Procs, UpdateWrite(p)
    PROVE  StoreInv'
  <1>1. "updateWrite" \in PCs \ {"idle", "importWrite", "importCommit"}
    BY DEF PCs
  <1>2. Idle \in Op /\ Idle.pc = "idle"
    BY BlankType DEF Idle
  <1>3. QED
    BY <1>1, <1>2, WriteCredentialStep DEF UpdateWrite

LEMMA PersistWriteStep ==
    ASSUME StoreInv, NEW p \in Procs, PersistWrite(p)
    PROVE  StoreInv'
  <1>1. /\ "persistWrite" \in PCs \ {"idle", "importWrite", "importCommit"}
        /\ "refreshDone" \in PCs
    BY DEF PCs
  <1>2. /\ Landing(p, "refreshDone") \in Op
        /\ Landing(p, "refreshDone").pc = "refreshDone"
        /\ Landing(p, "refreshDone").obj = op[p].obj
    BY <1>1, LocalTypes
  <1>3. QED
    BY <1>1, <1>2, WriteCredentialStep DEF PersistWrite

LEMMA UpdateCommitStep ==
    ASSUME StoreInv, NEW p \in Procs, UpdateCommit(p)
    PROVE  StoreInv'
  <1>1. op[p].obj \in 1 .. gen /\ persistMu = p
    BY DEF UpdateCommit, StoreInv, WorksOnObject, HolderHasMutex, HolderPCs
  <1>2. heap' \in [Objs -> Account] /\ \A o \in Objs : heap'[o].deleted = heap[o].deleted
    <2>1. CASE ~Current(p)
      BY <2>1 DEF UpdateCommit, StoreInv, TypeOK
    <2>2. CASE Current(p)
      <3> DEFINE a == heap[op[p].obj]
                 b == [a EXCEPT !.off = op[p].off, !.raw = op[p].raw]
      <3>1. heap' = [heap EXCEPT ![op[p].obj] = b]
        BY <2>2 DEF UpdateCommit
      <3>2. a \in Account
        BY <1>1, Typing
      <3>3. b \in Account /\ b.deleted = a.deleted
        BY <3>2, Typing DEF Account
      <3> HIDE DEF b
      <3>4. QED
        BY <3>1, <3>3 DEF StoreInv, TypeOK
    <2>3. QED
      BY <2>1, <2>2
  <1>3. op' = [op EXCEPT ![p] = Idle] /\ Idle \in Op /\ Idle.pc = "idle"
        /\ "idle" \notin HolderPCs
    BY BlankType DEF UpdateCommit, Return, Idle, HolderPCs
  <1>4. QED
    BY <1>1, <1>2, <1>3, ObjectStep DEF UpdateCommit, disk

LEMMA DeleteBeginStep ==
    ASSUME StoreInv, NEW p \in Procs, DeleteBegin(p)
    PROVE  StoreInv'
  <1> DEFINE r == [Idle EXCEPT !.pc = "deleteFile", !.obj = cur]
  <1>1. op' = [op EXCEPT ![p] = r]
    BY DEF DeleteBegin
  <1>2. cur \in 1 .. gen /\ cur \in 0 .. MaxGen /\ "deleteFile" \in PCs
    BY Typing DEF DeleteBegin, StoreInv, TypeOK, PCs
  <1>3. r \in Op /\ r.pc = "deleteFile" /\ r.obj = cur
    BY <1>2, BlankType DEF Op
  <1> HIDE DEF r
  <1>4. QED
    BY <1>1, <1>2, <1>3, Typing, OwnStep DEF DeleteBegin, disk, HolderPCs

LEMMA DeleteFileStep ==
    ASSUME StoreInv, NEW p \in Procs, DeleteFile(p)
    PROVE  StoreInv'
  <1>1. op[p].obj \in 1 .. gen
    BY DEF StoreInv, WorksOnObject, DeleteFile
  <1>2. CASE /\ authFile' = {} /\ persistMu' = p
             /\ op' = [op EXCEPT ![p].pc = "deleteCommit",
                                 ![p].epoch = heap[op[p].obj].epoch]
    <2> DEFINE r == [op[p] EXCEPT !.pc = "deleteCommit",
                                  !.epoch = heap[op[p].obj].epoch]
    <2>1. op' = [op EXCEPT ![p] = r]
      BY <1>2
    <2>2. "deleteCommit" \in PCs /\ heap[op[p].obj].epoch \in Nat /\ op[p] \in Op
      BY <1>1, Typing DEF PCs
    <2>3. r \in Op /\ r.pc = "deleteCommit" /\ r.obj = op[p].obj
      BY <2>2 DEF Op
    <2> HIDE DEF r
    <2>4. QED
      BY <1>1, <1>2, <2>1, <2>3, Typing, OwnStep DEF DeleteFile
  <1>3. CASE Return(p) /\ UNCHANGED <<authFile, persistMu>>
    <2>1. op' = [op EXCEPT ![p] = Idle] /\ Idle \in Op /\ Idle.pc = "idle"
          /\ "idle" \notin HolderPCs
      BY <1>3, BlankType DEF Return, Idle, HolderPCs
    <2>2. QED
      BY <1>3, <2>1, Typing, OwnStep DEF DeleteFile
  <1>4. QED
    BY <1>2, <1>3 DEF DeleteFile

LEMMA DeleteCommitStep ==
    ASSUME StoreInv, NEW p \in Procs, DeleteCommit(p)
    PROVE  StoreInv'
  <1>1. op[p].obj \in 1 .. gen /\ persistMu = p
    BY DEF DeleteCommit, StoreInv, WorksOnObject, HolderHasMutex, HolderPCs
  <1>2. /\ op' = [op EXCEPT ![p] = Idle] /\ Idle \in Op /\ Idle.pc = "idle"
        /\ "idle" \notin HolderPCs
    BY BlankType DEF DeleteCommit, Return, Idle, HolderPCs
  <1>3. CASE cur # op[p].obj \/ ~Current(p)
    BY <1>1, <1>2, <1>3, Typing, OwnStep DEF DeleteCommit
  <1>4. CASE ~(cur # op[p].obj \/ ~Current(p))
    <2>1. heap' = [heap EXCEPT ![cur] = Retire(heap[cur])] /\ cur' = 0
      BY <1>4 DEF DeleteCommit
    <2>2. cur \in Objs /\ cur \in 1 .. gen
      BY <1>1, <1>4, Typing
    <2>3. heap' \in [Objs -> Account] /\ heap'[cur].deleted
          /\ \A o \in Objs : o # cur => heap'[o] = heap[o]
      BY <2>1, <2>2, RetireType DEF StoreInv, TypeOK
    <2>4. stateFile' \in SUBSET State
      BY <1>4 DEF DeleteCommit, StoreInv, TypeOK
    <2>5. op' \in [Procs -> Op] /\ \A q \in Procs : op'[q] = IF q = p THEN Idle ELSE op[q]
      BY <1>2, Typing
    <2>6. TypeOK'
      BY <2>1, <2>3, <2>4, <2>5, StoreAssumption DEF DeleteCommit, StoreInv, TypeOK
    <2>7. HolderHasMutex' /\ ImportIsCurrent'
      BY <1>1, <1>2, <2>5 DEF StoreInv, HolderHasMutex, ImportIsCurrent, HolderPCs
    <2>8. WorksOnObject'
      BY <1>2, <2>5 DEF StoreInv, WorksOnObject, DeleteCommit
    <2>9. OnlyMappedIsLive' /\ (cur <= gen)'
      <3>1. \A o \in 1 .. gen : ~heap'[o].deleted <=> o = 0
        BY <2>2, <2>3, Typing DEF StoreInv, OnlyMappedIsLive
      <3>2. gen' = gen /\ gen \in Nat
        BY DEF DeleteCommit, StoreInv, TypeOK
      <3>3. QED
        BY <2>1, <3>1, <3>2 DEF OnlyMappedIsLive
    <2>10. QED
      BY <2>6, <2>7, <2>8, <2>9 DEF StoreInv
  <1>5. QED
    BY <1>3, <1>4

LEMMA QuotaBeginStep ==
    ASSUME StoreInv, NEW p \in Procs, QuotaBegin(p)
    PROVE  StoreInv'
  <1>1. PICK o \in 1 .. gen :
          /\ heap' = [heap EXCEPT ![o].quotaFlight = TRUE]
          /\ op' = [op EXCEPT ![p] = [Idle EXCEPT !.pc = "quotaWait", !.obj = o,
                                                  !.epoch = heap[o].epoch]]
    BY DEF QuotaBegin
  <1> DEFINE r == [Idle EXCEPT !.pc = "quotaWait", !.obj = o, !.epoch = heap[o].epoch]
  <1>2. o \in Objs /\ heap[o].epoch \in Nat /\ o \in 0 .. MaxGen /\ "quotaWait" \in PCs
    BY Typing, StoreAssumption DEF Objs, PCs
  <1>3. r \in Op /\ r.pc = "quotaWait" /\ r.obj = o
    BY <1>2, BlankType DEF Op
  <1>4. op' = [op EXCEPT ![p] = r]
    BY <1>1
  <1>5. heap' \in [Objs -> Account] /\ \A x \in Objs : heap'[x].deleted = heap[x].deleted
    BY <1>1, <1>2 DEF StoreInv, TypeOK, Account
  <1> HIDE DEF r
  <1>6. QED
    BY <1>3, <1>4, <1>5, ObjectStep DEF QuotaBegin, disk, HolderPCs

LEMMA RefreshBeginStep ==
    ASSUME StoreInv, NEW p \in Procs, RefreshBegin(p)
    PROVE  StoreInv'
  <1>1. PICK o \in 1 .. gen :
          /\ heap' = [heap EXCEPT ![o].refreshFlight = TRUE]
          /\ op' = [op EXCEPT ![p] =
                [Idle EXCEPT !.pc = "refreshWait", !.obj = o, !.epoch = heap[o].epoch,
                             !.raw = [heap[o].raw EXCEPT !.ver = heap[o].ver]]]
    BY DEF RefreshBegin
  <1> DEFINE raw == [heap[o].raw EXCEPT !.ver = heap[o].ver]
             r == [Idle EXCEPT !.pc = "refreshWait", !.obj = o, !.epoch = heap[o].epoch,
                               !.raw = raw]
  <1>2. /\ o \in Objs /\ heap[o].epoch \in Nat /\ o \in 0 .. MaxGen
        /\ "refreshWait" \in PCs /\ heap[o].raw \in Raw /\ heap[o].ver \in Nat
    BY Typing, StoreAssumption DEF Objs, PCs
  <1>3. raw \in Raw
    BY <1>2 DEF Raw
  <1>4. op' = [op EXCEPT ![p] = r]
    BY <1>1
  <1> HIDE DEF raw
  <1>5. r \in Op /\ r.pc = "refreshWait" /\ r.obj = o
    BY <1>2, <1>3, BlankType DEF Op
  <1>6. heap' \in [Objs -> Account] /\ \A x \in Objs : heap'[x].deleted = heap[x].deleted
    BY <1>1, <1>2 DEF StoreInv, TypeOK, Account
  <1> HIDE DEF r
  <1>7. QED
    BY <1>4, <1>5, <1>6, ObjectStep DEF RefreshBegin, disk, HolderPCs

\* The goroutine moves on to release its flight; no object changes.
LEMMA LandStep ==
    ASSUME StoreInv, NEW p \in Procs, NEW pc \in {"quotaDone", "refreshDone"},
           op[p].obj \in 1 .. gen,
           op' = [op EXCEPT ![p] = Landing(p, pc)],
           heap' \in [Objs -> Account],
           \A o \in Objs : heap'[o].deleted = heap[o].deleted,
           UNCHANGED <<now, gen, cur, authFile, stateFile>>,
           persistMu' = persistMu \/ (persistMu = p /\ persistMu' = Nobody)
    PROVE  StoreInv'
  <1>1. pc \in PCs /\ pc \notin HolderPCs
    BY DEF PCs, HolderPCs
  <1>2. /\ Landing(p, pc) \in Op /\ Landing(p, pc).pc = pc
        /\ Landing(p, pc).obj = op[p].obj
    BY <1>1, LocalTypes
  <1>3. QED
    BY <1>1, <1>2, ObjectStep

\* What a quota answer does to the object it was asked for.
LEMMA QuotaReplyEffect ==
    ASSUME StoreInv, NEW p \in Procs, QuotaReply(p)
    PROVE  \/ UNCHANGED heap /\ Land(p, "quotaDone")
           \/ \E state \in {"fail", "unknown", "allow", "block"}, reset \in Resets :
                LET o == op[p].obj
                    guard == IF state = "fail" THEN heap[o].guard
                             ELSE GuardAfter(heap[o].guard, state, reset, now)
                IN /\ Current(p)
                   /\ heap' = [heap EXCEPT ![o].nextQuota = now + 1, ![o].guard = guard]
                   /\ \/ Land(p, "quotaDone")
                      \/ op' = [op EXCEPT ![p].pc = "quotaSave", ![p].guard = guard,
                                          ![p].raw = heap[o].raw]
  <1>1. PICK state \in {"fail", "unknown", "allow", "block"}, reset \in Resets :
          LET o == op[p].obj
              guard == IF state = "fail" THEN heap[o].guard
                       ELSE GuardAfter(heap[o].guard, state, reset, now)
          IN IF Current(p)
             THEN /\ heap' = [heap EXCEPT ![o].nextQuota = now + 1, ![o].guard = guard]
                  /\ IF state = "fail" THEN Land(p, "quotaDone")
                     ELSE op' = [op EXCEPT ![p].pc = "quotaSave", ![p].guard = guard,
                                           ![p].raw = heap[o].raw]
             ELSE Land(p, "quotaDone") /\ UNCHANGED heap
    BY DEF QuotaReply
  <1>2. CASE ~Current(p)
    BY <1>1, <1>2
  <1>3. CASE Current(p)
    BY <1>1, <1>3
  <1>4. QED
    BY <1>2, <1>3

LEMMA QuotaReplyStep ==
    ASSUME StoreInv, NEW p \in Procs, QuotaReply(p)
    PROVE  StoreInv'
  <1>1. op[p].obj \in 1 .. gen /\ op[p].pc = "quotaWait"
    BY DEF StoreInv, WorksOnObject, QuotaReply
  <1>2. UNCHANGED <<now, gen, cur, authFile, stateFile, persistMu>>
    BY DEF QuotaReply, disk
  <1>3. CASE UNCHANGED heap /\ Land(p, "quotaDone")
    <2>1. heap' \in [Objs -> Account] /\ \A o \in Objs : heap'[o].deleted = heap[o].deleted
      BY <1>3 DEF StoreInv, TypeOK
    <2>2. QED
      BY <1>1, <1>2, <1>3, <2>1, LandStep DEF Land
  <1>4. ASSUME NEW state \in {"fail", "unknown", "allow", "block"}, NEW reset \in Resets,
               NEW guard,
               guard = IF state = "fail" THEN heap[op[p].obj].guard
                       ELSE GuardAfter(heap[op[p].obj].guard, state, reset, now),
               heap' = [heap EXCEPT ![op[p].obj].nextQuota = now + 1,
                                    ![op[p].obj].guard = guard],
               \/ Land(p, "quotaDone")
               \/ op' = [op EXCEPT ![p].pc = "quotaSave", ![p].guard = guard,
                                   ![p].raw = heap[op[p].obj].raw]
        PROVE  StoreInv'
    <2>1. guard \in Guard
      <3>1. heap[op[p].obj].guard \in Guard /\ reset \in Nat /\ now \in Nat
        BY <1>1, Typing, StoreAssumption
      <3>2. GuardAfter(heap[op[p].obj].guard, state, reset, now) \in Guard
        BY <3>1, GuardAfterType
      <3>3. QED
        BY <1>4, <3>1, <3>2
    <2>2. heap' \in [Objs -> Account]
          /\ \A o \in Objs : heap'[o].deleted = heap[o].deleted
      <3> DEFINE a == heap[op[p].obj]
                 b == [a EXCEPT !.nextQuota = now + 1, !.guard = guard]
      <3>1. heap' = [heap EXCEPT ![op[p].obj] = b]
        BY <1>4
      <3>2. a \in Account /\ now + 1 \in Nat
        BY <1>1, Typing
      <3>3. b \in Account /\ b.deleted = a.deleted
        BY <2>1, <3>2 DEF Account
      <3> HIDE DEF b
      <3>4. QED
        BY <3>1, <3>3 DEF StoreInv, TypeOK
    <2>3. CASE Land(p, "quotaDone")
      BY <1>1, <1>2, <2>2, <2>3, LandStep DEF Land
    <2>4. CASE op' = [op EXCEPT ![p].pc = "quotaSave", ![p].guard = guard,
                                ![p].raw = heap[op[p].obj].raw]
      <3> DEFINE r == [op[p] EXCEPT !.pc = "quotaSave", !.guard = guard,
                                    !.raw = heap[op[p].obj].raw]
      <3>1. op' = [op EXCEPT ![p] = r]
        BY <2>4
      <3>2. op[p] \in Op /\ heap[op[p].obj].raw \in Raw /\ "quotaSave" \in PCs
        BY <1>1, Typing DEF PCs
      <3>3. r \in Op /\ r.pc = "quotaSave" /\ r.obj = op[p].obj
        BY <2>1, <3>2 DEF Op
      <3>4. "quotaSave" \notin HolderPCs
        BY DEF HolderPCs
      <3> HIDE DEF r
      <3>5. QED
        BY <1>1, <1>2, <2>2, <3>1, <3>3, <3>4, ObjectStep
    <2>5. QED
      BY <1>4, <2>3, <2>4
  <1>5. CASE ~(UNCHANGED heap /\ Land(p, "quotaDone"))
    <2>1. PICK state \in {"fail", "unknown", "allow", "block"}, reset \in Resets :
            LET o == op[p].obj
                guard == IF state = "fail" THEN heap[o].guard
                         ELSE GuardAfter(heap[o].guard, state, reset, now)
            IN /\ Current(p)
               /\ heap' = [heap EXCEPT ![o].nextQuota = now + 1, ![o].guard = guard]
               /\ \/ Land(p, "quotaDone")
                  \/ op' = [op EXCEPT ![p].pc = "quotaSave", ![p].guard = guard,
                                      ![p].raw = heap[o].raw]
      BY <1>5, QuotaReplyEffect
    <2> DEFINE guard == IF state = "fail" THEN heap[op[p].obj].guard
                        ELSE GuardAfter(heap[op[p].obj].guard, state, reset, now)
    <2>2. /\ heap' = [heap EXCEPT ![op[p].obj].nextQuota = now + 1,
                                  ![op[p].obj].guard = guard]
          /\ \/ Land(p, "quotaDone")
             \/ op' = [op EXCEPT ![p].pc = "quotaSave", ![p].guard = guard,
                                 ![p].raw = heap[op[p].obj].raw]
      BY <2>1
    <2> HIDE DEF guard
    <2>3. QED
      BY <1>4, <2>2 DEF guard
  <1>6. QED
    BY <1>3, <1>5

LEMMA QuotaSaveStep ==
    ASSUME StoreInv, NEW p \in Procs, QuotaSave(p)
    PROVE  StoreInv'
  <1>1. op[p].obj \in 1 .. gen
    BY DEF StoreInv, WorksOnObject, QuotaSave
  <1>2. CASE stateFile' = {[ident |-> op[p].raw.ident, guard |-> op[p].guard]}
             /\ Land(p, "quotaDone")
    <2>1. [ident |-> op[p].raw.ident, guard |-> op[p].guard] \in State
      <3>1. op[p].raw.ident \in Idents
        BY Typing DEF Raw
      <3>2. QED
        BY <3>1, Typing DEF State
    <2>2. "quotaDone" \in PCs /\ "quotaDone" \notin HolderPCs
      BY DEF PCs, HolderPCs
    <2>3. /\ Landing(p, "quotaDone") \in Op /\ Landing(p, "quotaDone").pc = "quotaDone"
          /\ Landing(p, "quotaDone").obj = op[p].obj
      BY <2>2, LocalTypes
    <2>4. stateFile' \in SUBSET State /\ op' = [op EXCEPT ![p] = Landing(p, "quotaDone")]
      BY <1>2, <2>1 DEF Land
    <2>5. UNCHANGED <<now, heap, gen, cur, authFile, persistMu>>
      BY DEF QuotaSave
    <2>6. QED
      BY <1>1, <2>2, <2>3, <2>4, <2>5, Typing, OwnStep
  <1>3. CASE Goto(p, "quotaSaveFailed") /\ UNCHANGED stateFile
    <2> DEFINE r == [op[p] EXCEPT !.pc = "quotaSaveFailed"]
    <2>1. "quotaSaveFailed" \in PCs /\ "quotaSaveFailed" \notin HolderPCs
      BY DEF PCs, HolderPCs
    <2>2. r \in Op /\ r.pc = "quotaSaveFailed" /\ r.obj = op[p].obj
      BY <2>1, LocalTypes
    <2>3. op' = [op EXCEPT ![p] = r]
      BY <1>3 DEF Goto
    <2> HIDE DEF r
    <2>4. QED
      BY <1>1, <1>3, <2>1, <2>2, <2>3, Typing, OwnStep DEF QuotaSave
  <1>4. QED
    BY <1>2, <1>3 DEF QuotaSave

LEMMA QuotaSaveFailedStep ==
    ASSUME StoreInv, NEW p \in Procs, QuotaSaveFailed(p)
    PROVE  StoreInv'
  <1>1. op[p].obj \in 1 .. gen /\ op[p].pc = "quotaSaveFailed"
    BY DEF StoreInv, WorksOnObject, QuotaSaveFailed
  <1>2. heap' \in [Objs -> Account] /\ \A o \in Objs : heap'[o].deleted = heap[o].deleted
    <2>1. CASE ~Current(p)
      BY <2>1 DEF QuotaSaveFailed, StoreInv, TypeOK
    <2>2. CASE Current(p)
      <3> DEFINE a == heap[op[p].obj]
                 g == [a.guard EXCEPT !.blocked = TRUE, !.reason = "write"]
                 b == [a EXCEPT !.guard = g]
      <3>1. heap' = [heap EXCEPT ![op[p].obj] = b]
        BY <2>2 DEF QuotaSaveFailed
      <3>2. a \in Account /\ a.guard \in Guard
        BY <1>1, Typing
      <3>3. g \in Guard
        BY <3>2 DEF Guard
      <3> HIDE DEF g
      <3>4. b \in Account /\ b.deleted = a.deleted
        BY <3>2, <3>3 DEF Account
      <3> HIDE DEF b
      <3>5. QED
        BY <3>1, <3>4 DEF StoreInv, TypeOK
    <2>3. QED
      BY <2>1, <2>2
  <1>3. UNCHANGED <<now, gen, cur, authFile, stateFile, persistMu>> /\ Land(p, "quotaDone")
    BY DEF QuotaSaveFailed, disk
  <1>4. QED
    BY <1>1, <1>2, <1>3, LandStep DEF Land

LEMMA QuotaDoneStep ==
    ASSUME StoreInv, NEW p \in Procs, QuotaDone(p)
    PROVE  StoreInv'
  <1>1. op[p].obj \in Objs
    BY Typing DEF StoreInv, WorksOnObject, QuotaDone
  <1>2. heap' \in [Objs -> Account] /\ \A o \in Objs : heap'[o].deleted = heap[o].deleted
    <2> DEFINE b == [heap[op[p].obj] EXCEPT !.quotaFlight = FALSE]
    <2>1. heap' = [heap EXCEPT ![op[p].obj] = b]
      BY DEF QuotaDone
    <2>2. heap[op[p].obj] \in Account
      BY <1>1 DEF StoreInv, TypeOK
    <2>3. b \in Account /\ b.deleted = heap[op[p].obj].deleted
      BY <2>2 DEF Account
    <2> HIDE DEF b
    <2>4. QED
      BY <1>1, <2>1, <2>3 DEF StoreInv, TypeOK
  <1>3. op' = [op EXCEPT ![p] = Idle] /\ Idle \in Op /\ Idle.pc = "idle"
        /\ "idle" \notin HolderPCs
    BY BlankType DEF QuotaDone, Return, Idle, HolderPCs
  <1>4. QED
    BY <1>2, <1>3, ObjectStep DEF QuotaDone, disk

LEMMA RefreshDoneStep ==
    ASSUME StoreInv, NEW p \in Procs, RefreshDone(p)
    PROVE  StoreInv'
  <1>1. op[p].obj \in Objs
    BY Typing DEF StoreInv, WorksOnObject, RefreshDone
  <1>2. heap' \in [Objs -> Account] /\ \A o \in Objs : heap'[o].deleted = heap[o].deleted
    <2> DEFINE b == [heap[op[p].obj] EXCEPT !.refreshFlight = FALSE]
    <2>1. heap' = [heap EXCEPT ![op[p].obj] = b]
      BY DEF RefreshDone
    <2>2. heap[op[p].obj] \in Account
      BY <1>1 DEF StoreInv, TypeOK
    <2>3. b \in Account /\ b.deleted = heap[op[p].obj].deleted
      BY <2>2 DEF Account
    <2> HIDE DEF b
    <2>4. QED
      BY <1>1, <2>1, <2>3 DEF StoreInv, TypeOK
  <1>3. op' = [op EXCEPT ![p] = Idle] /\ Idle \in Op /\ Idle.pc = "idle"
        /\ "idle" \notin HolderPCs
    BY BlankType DEF RefreshDone, Return, Idle, HolderPCs
  <1>4. QED
    BY <1>2, <1>3, ObjectStep DEF RefreshDone, disk

LEMMA RefreshReplyStep ==
    ASSUME StoreInv, NEW p \in Procs, RefreshReply(p)
    PROVE  StoreInv'
  <1>1. op[p].obj \in 1 .. gen
    BY DEF StoreInv, WorksOnObject, RefreshReply
  <1>2. UNCHANGED <<now, heap, gen, cur, authFile, stateFile, persistMu>>
    BY DEF RefreshReply, disk
  <1>3. heap' \in [Objs -> Account] /\ \A o \in Objs : heap'[o].deleted = heap[o].deleted
    BY <1>2 DEF StoreInv, TypeOK
  <1>4. CASE Land(p, "refreshDone")
    BY <1>1, <1>2, <1>3, <1>4, LandStep DEF Land
  <1>5. CASE op' = [op EXCEPT ![p].pc = "persistWrite",
                              ![p].epoch = heap[op[p].obj].epoch,
                              ![p].raw = [heap[op[p].obj].raw EXCEPT
                                            !.ver = op[p].raw.ver + 1]]
    <2> DEFINE raw == [heap[op[p].obj].raw EXCEPT !.ver = op[p].raw.ver + 1]
               r == [op[p] EXCEPT !.pc = "persistWrite",
                                  !.epoch = heap[op[p].obj].epoch, !.raw = raw]
    <2>1. op' = [op EXCEPT ![p] = r]
      BY <1>5
    <2>2. op[p] \in Op /\ heap[op[p].obj].epoch \in Nat /\ "persistWrite" \in PCs
      BY <1>1, Typing DEF PCs
    <2>3. raw \in Raw
      <3>1. heap[op[p].obj].raw \in Raw /\ op[p].raw \in Raw
        BY <1>1, Typing
      <3>2. op[p].raw.ver + 1 \in Nat
        BY <3>1 DEF Raw
      <3>3. QED
        BY <3>1, <3>2 DEF Raw
    <2> HIDE DEF raw
    <2>4. r \in Op /\ r.pc = "persistWrite" /\ r.obj = op[p].obj
      BY <2>2, <2>3 DEF Op
    <2>5. "persistWrite" \notin HolderPCs
      BY DEF HolderPCs
    <2> HIDE DEF r
    <2>6. QED
      BY <1>1, <1>2, <1>3, <2>1, <2>4, <2>5, ObjectStep
  <1>6. QED
    BY <1>4, <1>5 DEF RefreshReply

LEMMA PersistCommitStep ==
    ASSUME StoreInv, NEW p \in Procs, PersistCommit(p)
    PROVE  StoreInv'
  <1>1. op[p].obj \in 1 .. gen /\ persistMu = p
    BY DEF PersistCommit, StoreInv, WorksOnObject, HolderHasMutex, HolderPCs
  <1>2. heap' \in [Objs -> Account] /\ \A o \in Objs : heap'[o].deleted = heap[o].deleted
    <2>1. CASE ~Current(p)
      BY <2>1 DEF PersistCommit, StoreInv, TypeOK
    <2>2. CASE Current(p)
      <3> DEFINE a == heap[op[p].obj]
                 b == [a EXCEPT !.raw = op[p].raw, !.ver = op[p].raw.ver]
      <3>1. heap' = [heap EXCEPT ![op[p].obj] = b]
        BY <2>2 DEF PersistCommit
      <3>2. a \in Account /\ op[p].raw \in Raw /\ op[p].raw.ver \in Nat
        BY <1>1, Typing DEF Raw
      <3>3. b \in Account /\ b.deleted = a.deleted
        BY <3>2 DEF Account
      <3> HIDE DEF b
      <3>4. QED
        BY <3>1, <3>3 DEF StoreInv, TypeOK
    <2>3. QED
      BY <2>1, <2>2
  <1>3. UNCHANGED <<now, gen, cur, authFile, stateFile>> /\ Land(p, "refreshDone")
        /\ persistMu' = Nobody
    BY DEF PersistCommit, disk
  <1>4. QED
    BY <1>1, <1>2, <1>3, LandStep DEF Land

LEMMA TickStep ==
    ASSUME StoreInv, Tick
    PROVE  StoreInv'
  <1>1. UNCHANGED <<heap, gen, cur, authFile, stateFile, persistMu, op>>
    BY DEF Tick, disk
  <1>2. now' \in Nat
    BY DEF Tick, StoreInv, TypeOK
  <1>3. TypeOK'
    BY <1>1, <1>2 DEF StoreInv, TypeOK
  <1>4. HolderHasMutex' /\ ImportIsCurrent' /\ WorksOnObject' /\ OnlyMappedIsLive'
    BY <1>1 DEF StoreInv, HolderHasMutex, ImportIsCurrent, WorksOnObject,
                OnlyMappedIsLive
  <1>5. QED
    BY <1>1, <1>3, <1>4 DEF StoreInv

LEMMA BlankHeapType == BlankHeap \in [Objs -> Account]
  <1>1. NewAccount(BlankRaw, 0, NoGuard) \in Account
    BY BlankType, NewAccountType
  <1>2. QED
    BY <1>1 DEF BlankHeap

\* A start, first or not, knows nothing but the files.
LEMMA RestartStep ==
    ASSUME StoreInv, Restart
    PROVE  StoreInv'
  <1>1. op' = [q \in Procs |-> Idle] /\ persistMu' = Nobody
        /\ UNCHANGED <<now, authFile, stateFile>>
    BY DEF Restart, disk
  <1>2. op' \in [Procs -> Op] /\ \A q \in Procs : op'[q].pc = "idle"
    BY <1>1, BlankType DEF Idle
  <1>3. HolderHasMutex' /\ ImportIsCurrent' /\ WorksOnObject'
    BY <1>2 DEF HolderHasMutex, ImportIsCurrent, WorksOnObject, HolderPCs
  <1>4. /\ heap' \in [Objs -> Account] /\ gen' \in 0 .. MaxGen /\ cur' = gen'
        /\ \A o \in 1 .. gen' : ~heap'[o].deleted <=> o = cur'
    <2>1. CASE authFile = {}
      BY <2>1, BlankHeapType, StoreAssumption DEF Restart
    <2>2. CASE authFile # {}
      <3> DEFINE raw == CHOOSE r \in authFile : TRUE
                 a == NewAccount(raw, 1, SavedGuard(raw))
      <3>1. raw \in Raw
        BY <2>2 DEF StoreInv, TypeOK
      <3>2. SavedGuard(raw) \in Guard
        BY <3>1, SavedGuardType DEF StoreInv
      <3>3. heap' = [BlankHeap EXCEPT ![1] = a] /\ gen' = 1 /\ cur' = 1
        BY <2>2 DEF Restart
      <3>4. a \in Account /\ ~a.deleted
        <4>1. NewAccount(raw, 1, SavedGuard(raw)) \in Account
          BY <3>1, <3>2, NewAccountType
        <4>2. QED
          BY <4>1 DEF NewAccount
      <3> HIDE DEF raw, a
      <3>5. 1 \in Objs
        BY StoreAssumption DEF Objs
      <3>6. QED
        BY <3>3, <3>4, <3>5, BlankHeapType, StoreAssumption
    <2>3. QED
      BY <2>1, <2>2
  <1>5. TypeOK'
    BY <1>1, <1>2, <1>4 DEF StoreInv, TypeOK
  <1>6. QED
    BY <1>3, <1>4, <1>5 DEF StoreInv, OnlyMappedIsLive

LEMMA InitInv == Init => StoreInv
  <1> SUFFICES ASSUME Init PROVE StoreInv
    OBVIOUS
  <1>1. TypeOK
    BY BlankHeapType, BlankType, StoreAssumption DEF Init, TypeOK
  <1>2. \A p \in Procs : op[p].pc = "idle"
    BY DEF Init, Idle
  <1>3. HolderHasMutex /\ ImportIsCurrent /\ WorksOnObject
    BY <1>2 DEF HolderHasMutex, ImportIsCurrent, WorksOnObject, HolderPCs
  <1>4. cur <= gen /\ OnlyMappedIsLive
    BY DEF Init, OnlyMappedIsLive
  <1>5. QED
    BY <1>1, <1>3, <1>4 DEF StoreInv

LEMMA NextInv == StoreInv /\ [Next]_vars => StoreInv'
  <1> SUFFICES ASSUME StoreInv, [Next]_vars PROVE StoreInv'
    OBVIOUS
  <1>1. ASSUME NEW p \in Procs, Begin(p) PROVE StoreInv'
    BY <1>1, ImportBeginStep, UpdateBeginStep, DeleteBeginStep, QuotaBeginStep,
       RefreshBeginStep DEF Begin
  <1>2. ASSUME NEW p \in Procs, Step(p) PROVE StoreInv'
    BY <1>2, ImportWriteStep, ImportCommitStep, UpdateWriteStep, UpdateCommitStep,
       DeleteFileStep, DeleteCommitStep, QuotaReplyStep, QuotaSaveStep,
       QuotaSaveFailedStep, QuotaDoneStep, RefreshReplyStep, PersistWriteStep,
       PersistCommitStep, RefreshDoneStep DEF Step
  <1>3. CASE UNCHANGED vars
    <2>1. UNCHANGED <<now, heap, gen, cur, authFile, stateFile, persistMu, op>>
      BY <1>3 DEF vars
    <2>2. TypeOK'
      BY <2>1 DEF StoreInv, TypeOK
    <2>3. HolderHasMutex' /\ ImportIsCurrent' /\ WorksOnObject' /\ OnlyMappedIsLive'
      BY <2>1 DEF StoreInv, HolderHasMutex, ImportIsCurrent, WorksOnObject,
                  OnlyMappedIsLive
    <2>4. QED
      BY <2>1, <2>2, <2>3 DEF StoreInv
  <1>4. QED
    BY <1>1, <1>2, <1>3, TickStep, RestartStep DEF Next

\* Whatever overlaps, crashes or fails, the store keeps the invariant.
THEOREM Invariance == Spec => []StoreInv
  <1>1. QED
    BY InitInv, NextInv, PTL DEF Spec

\* Every variable of the store keeps to its type, for every set of goroutines,
\* identities, markers and enabled operations.
THEOREM TypeCorrect == Spec => []TypeOK
  <1>1. StoreInv => TypeOK
    BY DEF StoreInv
  <1>2. QED
    BY <1>1, Invariance, PTL

\* At every moment the only usable account object is the one in s.accounts, so a
\* request, a refresh or a quota answer can never act on a replaced account.
THEOREM MapTheorem == Spec => []OnlyMappedIsLive
  <1>1. StoreInv => OnlyMappedIsLive
    BY DEF StoreInv
  <1>2. QED
    BY <1>1, Invariance, PTL

-----------------------------------------------------------------------------
\* Three ways in which a step leaves every retired object alone: it writes no
\* object, it writes a live one, or it moves a flight.
LEMMA FrozenWhenSame ==
    ASSUME heap' = heap
    PROVE  \A o \in Objs : Frozen(o)
  BY DEF Frozen

LEMMA FrozenWhenLive ==
    ASSUME NEW x \in Objs, ~heap[x].deleted,
           \A o \in Objs : o # x => heap'[o] = heap[o]
    PROVE  \A o \in Objs : Frozen(o)
  BY DEF Frozen

LEMMA FrozenWhenFlight ==
    ASSUME StoreInv, NEW x \in Objs,
           \/ heap' = [heap EXCEPT ![x].quotaFlight = FALSE]
           \/ heap' = [heap EXCEPT ![x].refreshFlight = FALSE]
    PROVE  \A o \in Objs : Frozen(o)
  <1> SUFFICES ASSUME NEW f \in {"raw", "ver", "off", "guard", "epoch", "nextQuota"}
               PROVE  heap'[x][f] = heap[x][f] /\ \A o \in Objs : o # x => heap'[o] = heap[o]
    BY DEF Frozen
  <1>1. heap \in [Objs -> Account] /\ heap[x] \in Account
    BY DEF StoreInv, TypeOK
  <1>2. \/ heap'[x] = [heap[x] EXCEPT !.quotaFlight = FALSE]
        \/ heap'[x] = [heap[x] EXCEPT !.refreshFlight = FALSE]
    BY <1>1
  <1>3. heap'[x][f] = heap[x][f]
    BY <1>1, <1>2 DEF Account
  <1>4. QED
    BY <1>1, <1>3

\* A start creates its objects, and none of them is retired.
LEMMA FrozenWhenRestart ==
    ASSUME StoreInv, Restart
    PROVE  \A o \in Objs : Frozen(o)
  <1>1. \A o \in Objs : ~BlankHeap[o].deleted /\ BlankHeap \in [Objs -> Account]
    BY BlankHeapType DEF BlankHeap, NewAccount
  <1>2. CASE authFile = {}
    BY <1>1, <1>2 DEF Restart, Frozen
  <1>3. CASE authFile # {}
    <2> DEFINE a == NewAccount(CHOOSE r \in authFile : TRUE, 1,
                               SavedGuard(CHOOSE r \in authFile : TRUE))
    <2>1. heap' = [BlankHeap EXCEPT ![1] = a]
      BY <1>3 DEF Restart
    <2>2. ~a.deleted
      BY DEF NewAccount
    <2> HIDE DEF a
    <2>3. QED
      BY <1>1, <2>1, <2>2 DEF Frozen
  <1>4. QED
    BY <1>2, <1>3

LEMMA FrozenByStep ==
    ASSUME StoreInv, NEW p \in Procs, Begin(p) \/ Step(p)
    PROVE  \A o \in Objs : Frozen(o)
  <1> USE DEF disk
  <1>1. 1 .. gen \subseteq Objs /\ heap \in [Objs -> Account]
    BY Typing DEF StoreInv, TypeOK
  <1>2. op[p].pc \notin {"idle", "importWrite", "importCommit"} =>
          op[p].obj \in Objs
    BY <1>1 DEF StoreInv, WorksOnObject
  <1>3. CASE ImportBegin(p) \/ ImportWrite(p)
    BY <1>3, FrozenWhenSame DEF ImportBegin, ImportWrite
  <1>4. CASE ImportCommit(p)
    <2>1. CASE UNCHANGED heap
      BY <2>1, FrozenWhenSame
    <2>2. CASE heap' = [o \in Objs |->
                 IF o = gen + 1
                 THEN NewAccount(op[p].raw, op[p].epoch, op[p].guard)
                 ELSE IF o = cur THEN Retire(heap[o]) ELSE heap[o]]
      <3>1. cur # 0 => ~heap[cur].deleted
        BY Typing DEF StoreInv, OnlyMappedIsLive
      <3>2. ~NewAccount(op[p].raw, op[p].epoch, op[p].guard).deleted
        BY DEF NewAccount
      <3>3. cur \in Objs => cur # 0
        BY StoreAssumption DEF Objs
      <3>4. QED
        BY <2>2, <3>1, <3>2, <3>3 DEF Frozen
    <2>3. QED
      BY <1>4, <2>1, <2>2 DEF ImportCommit
  <1>5. CASE UpdateBegin(p) \/ UpdateWrite(p) \/ PersistWrite(p)
    BY <1>5, FrozenWhenSame DEF UpdateBegin, UpdateWrite, PersistWrite, WriteCredential
  <1>6. CASE UpdateCommit(p) \/ PersistCommit(p) \/ QuotaSaveFailed(p)
    <2>1. CASE ~Current(p)
      BY <1>6, <2>1, FrozenWhenSame DEF UpdateCommit, PersistCommit, QuotaSaveFailed
    <2>2. CASE Current(p)
      <3>1. op[p].obj \in Objs
        BY <1>2, <1>6 DEF UpdateCommit, PersistCommit, QuotaSaveFailed
      <3>2. \A o \in Objs : o # op[p].obj => heap'[o] = heap[o]
        BY <1>1, <1>6, <2>2 DEF UpdateCommit, PersistCommit, QuotaSaveFailed
      <3>3. QED
        BY <2>2, <3>1, <3>2, FrozenWhenLive DEF Current
    <2>3. QED
      BY <2>1, <2>2
  <1>7. CASE DeleteBegin(p) \/ DeleteFile(p)
    BY <1>7, FrozenWhenSame DEF DeleteBegin, DeleteFile
  <1>8. CASE DeleteCommit(p)
    <2>1. CASE UNCHANGED heap
      BY <2>1, FrozenWhenSame
    <2>2. CASE Current(p) /\ cur = op[p].obj /\ heap' = [heap EXCEPT ![cur] = Retire(@)]
      <3>1. op[p].obj \in Objs
        BY <1>2, <1>8 DEF DeleteCommit
      <3>2. QED
        BY <1>1, <2>2, <3>1, FrozenWhenLive DEF Current
    <2>3. QED
      BY <1>8, <2>1, <2>2 DEF DeleteCommit
  <1>9. CASE QuotaBegin(p) \/ RefreshBegin(p)
    <2>1. PICK x \in 1 .. gen :
            /\ ~heap[x].deleted
            /\ \/ heap' = [heap EXCEPT ![x].quotaFlight = TRUE]
               \/ heap' = [heap EXCEPT ![x].refreshFlight = TRUE]
      BY <1>9 DEF QuotaBegin, RefreshBegin
    <2>2. QED
      BY <1>1, <2>1, FrozenWhenLive
  <1>10. CASE QuotaReply(p)
    <2>1. CASE UNCHANGED heap
      BY <2>1, FrozenWhenSame
    <2>2. CASE Current(p) /\ \A o \in Objs : o # op[p].obj => heap'[o] = heap[o]
      <3>1. op[p].obj \in Objs
        BY <1>2, <1>10 DEF QuotaReply
      <3>2. QED
        BY <2>2, <3>1, FrozenWhenLive DEF Current
    <2>3. QED
      BY <1>1, <1>10, <2>1, <2>2, QuotaReplyEffect
  <1>11. CASE QuotaSave(p) \/ RefreshReply(p)
    BY <1>11, FrozenWhenSame DEF QuotaSave, RefreshReply
  <1>12. CASE QuotaDone(p) \/ RefreshDone(p)
    <2>1. op[p].obj \in Objs
      BY <1>2, <1>12 DEF QuotaDone, RefreshDone
    <2>2. QED
      BY <1>12, <2>1, FrozenWhenFlight DEF QuotaDone, RefreshDone
  <1>13. QED
    BY <1>3, <1>4, <1>5, <1>6, <1>7, <1>8, <1>9, <1>10, <1>11, <1>12 DEF Begin, Step

\* A quota answer, a refreshed credential or a user's change that comes back after
\* its account was replaced or deleted is never applied to it.
THEOREM RetiredTheorem == Spec => RetiredIsFrozen
  <1>1. StoreInv /\ [Next]_vars => \A o \in Objs : Frozen(o)
    <2> SUFFICES ASSUME StoreInv, [Next]_vars PROVE \A o \in Objs : Frozen(o)
      OBVIOUS
    <2>1. CASE Tick \/ UNCHANGED vars
      BY <2>1, FrozenWhenSame DEF Tick, vars
    <2>2. QED
      BY <2>1, FrozenByStep, FrozenWhenRestart DEF Next
  <1>2. QED
    BY <1>1, Invariance, PTL DEF Spec, RetiredIsFrozen

-----------------------------------------------------------------------------
\* The guards of the objects that exist stay as they are; one object more may
\* come into being.
LEMMA LatchWhenSame ==
    ASSUME StoreInv, now' = now,
           gen' = gen \/ gen' = gen + 1,
           \A o \in 1 .. gen : heap'[o].guard = heap[o].guard,
           NEW o \in Objs
    PROVE  LatchStep(o)
  <1>1. gen \in Nat /\ o \in Nat /\ o > 0
    BY StoreAssumption DEF StoreInv, TypeOK, Objs
  <1>2. CASE o <= gen
    BY <1>1, <1>2 DEF LatchStep, Latch!latch
  <1>3. CASE o = gen + 1 /\ gen' = gen + 1
    BY <1>1, <1>3 DEF LatchStep, Latch!Next, Latch!Create
  <1>4. CASE o > gen /\ ~(o = gen + 1 /\ gen' = gen + 1)
    BY <1>1, <1>4 DEF LatchStep, Latch!latch
  <1>5. QED
    BY <1>1, <1>2, <1>3, <1>4

\* The guard of one object changes, as a latch may.
LEMMA LatchWhenGuard ==
    ASSUME StoreInv, UNCHANGED <<now, gen>>, NEW x \in 1 .. gen,
           \A o \in 1 .. gen : o # x => heap'[o].guard = heap[o].guard,
           NEW h, heap'[x].guard = h, h.blocked \in BOOLEAN,
           ~heap[x].guard.blocked => h.blocked \/ h = heap[x].guard,
           heap[x].guard.blocked =>
             LET g == heap[x].guard IN
             \/ g.resetAt # 0 /\ now >= g.resetAt /\ ~h.blocked
             \/ /\ h.blocked
                /\ \/ h.resetAt = g.resetAt
                   \/ g.resetAt = 0
                   \/ g.resetAt # 0 /\ now >= g.resetAt /\ h.resetAt > g.resetAt,
           NEW o \in Objs
    PROVE  LatchStep(o)
  <1>1. CASE o # x
    BY <1>1, StoreAssumption DEF StoreInv, TypeOK, Objs, LatchStep, Latch!latch
  <1>2. CASE o = x
    <2>1. o <= gen /\ o <= gen'
      BY <1>2, StoreAssumption DEF StoreInv, TypeOK, Objs
    <2>2. heap[x].guard.blocked \in BOOLEAN
      <3>1. x \in Objs
        BY StoreAssumption DEF StoreInv, TypeOK, Objs
      <3>2. QED
        BY <3>1 DEF StoreInv, TypeOK, Account, Guard
    <2>3. CASE ~heap[x].guard.blocked
      BY <1>2, <2>1, <2>2, <2>3 DEF LatchStep, Latch!Next, Latch!Latch, Latch!latch
    <2>4. CASE heap[x].guard.blocked
      BY <1>2, <2>1, <2>2, <2>4 DEF LatchStep, Latch!Next, Latch!Lift, Latch!Postpone,
                                    Latch!Due, Latch!latch
    <2>5. QED
      BY <2>2, <2>3, <2>4
  <1>3. QED
    BY <1>1, <1>2

LEMMA LatchByStep ==
    ASSUME StoreInv, NEW p \in Procs, Begin(p) \/ Step(p), NEW o \in Objs
    PROVE  LatchStep(o)
  <1> USE DEF disk
  <1>1. 1 .. gen \subseteq Objs /\ heap \in [Objs -> Account] /\ gen \in Nat
    BY Typing DEF StoreInv, TypeOK
  <1>2. op[p].pc \notin {"idle", "importWrite", "importCommit"} =>
          op[p].obj \in 1 .. gen
    BY DEF StoreInv, WorksOnObject
  <1>3. CASE \/ ImportBegin(p) \/ ImportWrite(p)
             \/ UpdateBegin(p) \/ UpdateWrite(p) \/ PersistWrite(p)
             \/ DeleteBegin(p) \/ DeleteFile(p) \/ QuotaSave(p) \/ RefreshReply(p)
    BY <1>3, LatchWhenSame DEF ImportBegin, ImportWrite, UpdateBegin, UpdateWrite,
       PersistWrite, WriteCredential, DeleteBegin, DeleteFile, QuotaSave, RefreshReply
  <1>4. CASE ImportCommit(p)
    <2>1. \A x \in 1 .. gen : heap'[x].guard = heap[x].guard
      <3>1. CASE UNCHANGED heap
        BY <3>1
      <3>2. CASE heap' = [x \in Objs |->
                   IF x = gen + 1
                   THEN NewAccount(op[p].raw, op[p].epoch, op[p].guard)
                   ELSE IF x = cur THEN Retire(heap[x]) ELSE heap[x]]
        BY <1>1, <3>2, RetireType
      <3>3. QED
        BY <1>4, <3>1, <3>2 DEF ImportCommit
    <2>2. QED
      BY <1>4, <2>1, LatchWhenSame DEF ImportCommit
  <1>5. CASE UpdateCommit(p) \/ PersistCommit(p)
    <2>1. op[p].obj \in Objs
      BY <1>1, <1>2, <1>5 DEF UpdateCommit, PersistCommit
    <2>2. heap[op[p].obj] \in Account
      BY <1>1, <2>1
    <2>3. \A x \in 1 .. gen : heap'[x].guard = heap[x].guard
      BY <1>1, <1>5, <2>1, <2>2 DEF UpdateCommit, PersistCommit, Account
    <2>4. QED
      BY <1>5, <2>3, LatchWhenSame DEF UpdateCommit, PersistCommit
  <1>6. CASE DeleteCommit(p)
    <2>1. heap' = heap \/ heap' = [heap EXCEPT ![cur] = Retire(heap[cur])]
      BY <1>6 DEF DeleteCommit
    <2>2. \A x \in 1 .. gen : heap'[x].guard = heap[x].guard
      BY <1>1, <2>1, RetireType
    <2>3. QED
      BY <1>6, <2>2, LatchWhenSame DEF DeleteCommit
  <1>7. CASE QuotaBegin(p) \/ RefreshBegin(p) \/ QuotaDone(p) \/ RefreshDone(p)
    <2>1. PICK x \in 1 .. gen, b \in BOOLEAN :
            \/ heap' = [heap EXCEPT ![x].quotaFlight = b]
            \/ heap' = [heap EXCEPT ![x].refreshFlight = b]
      BY <1>2, <1>7 DEF QuotaBegin, RefreshBegin, QuotaDone, RefreshDone
    <2>2. heap[x] \in Account /\ x \in Objs
      BY <1>1
    <2>3. \A y \in 1 .. gen : heap'[y].guard = heap[y].guard
      BY <1>1, <2>1, <2>2 DEF Account
    <2>4. QED
      BY <1>7, <2>3, LatchWhenSame DEF QuotaBegin, RefreshBegin, QuotaDone, RefreshDone
  <1>8. CASE QuotaReply(p)
    <2>1. UNCHANGED <<now, gen>> /\ op[p].obj \in 1 .. gen
      BY <1>2, <1>8 DEF QuotaReply
    <2>2. CASE UNCHANGED heap
      BY <2>1, <2>2, LatchWhenSame
    <2>3. CASE ~UNCHANGED heap
      <3>1. PICK state \in {"fail", "unknown", "allow", "block"}, reset \in Resets :
              LET x == op[p].obj
                  guard == IF state = "fail" THEN heap[x].guard
                           ELSE GuardAfter(heap[x].guard, state, reset, now)
              IN /\ Current(p)
                 /\ heap' = [heap EXCEPT ![x].nextQuota = now + 1, ![x].guard = guard]
                 /\ \/ Land(p, "quotaDone")
                    \/ op' = [op EXCEPT ![p].pc = "quotaSave", ![p].guard = guard,
                                        ![p].raw = heap[x].raw]
        BY <1>8, <2>3, QuotaReplyEffect
      <3> DEFINE g == heap[op[p].obj].guard
                 h == IF state = "fail" THEN g ELSE GuardAfter(g, state, reset, now)
      <3>2. g \in Guard /\ reset \in Nat /\ now \in Nat /\ heap[op[p].obj] \in Account
        BY <2>1, Typing, StoreAssumption
      <3>3. h \in Guard
        BY <3>2, GuardAfterType
      <3>4. ~g.blocked => h.blocked \/ h = g
        BY <3>2 DEF GuardAfter
      <3>5. g.blocked =>
             \/ g.resetAt # 0 /\ now >= g.resetAt /\ ~h.blocked
             \/ /\ h.blocked
                /\ \/ h.resetAt = g.resetAt
                   \/ g.resetAt = 0
                   \/ g.resetAt # 0 /\ now >= g.resetAt /\ h.resetAt > g.resetAt
        BY <3>2, GuardAfterLatches
      <3>6. heap'[op[p].obj].guard = h
        <4> HIDE DEF h
        <4>1. heap' = [heap EXCEPT ![op[p].obj].nextQuota = now + 1,
                                   ![op[p].obj].guard = h]
          BY <3>1 DEF h
        <4>2. QED
          BY <1>1, <2>1, <3>2, <4>1 DEF Account
      <3>7. \A x \in 1 .. gen : x # op[p].obj => heap'[x].guard = heap[x].guard
        BY <1>1, <3>1
      <3>8. h.blocked \in BOOLEAN
        BY <3>3 DEF Guard
      <3> HIDE DEF h
      <3>9. QED
        BY <2>1, <3>4, <3>5, <3>6, <3>7, <3>8, LatchWhenGuard
    <2>4. QED
      BY <2>2, <2>3
  <1>9. CASE QuotaSaveFailed(p)
    <2>1. UNCHANGED <<now, gen>> /\ op[p].obj \in 1 .. gen
      BY <1>2, <1>9 DEF QuotaSaveFailed
    <2>2. CASE ~Current(p)
      BY <1>9, <2>1, <2>2, LatchWhenSame DEF QuotaSaveFailed
    <2>3. CASE Current(p)
      <3> DEFINE g == heap[op[p].obj].guard
                 h == [g EXCEPT !.blocked = TRUE, !.reason = "write"]
      <3>1. heap' = [heap EXCEPT ![op[p].obj].guard = h]
        BY <1>9, <2>3 DEF QuotaSaveFailed
      <3>2. g \in Guard /\ heap[op[p].obj] \in Account
        BY <2>1, Typing
      <3>3. h.blocked = TRUE /\ h.resetAt = g.resetAt
        BY <3>2 DEF Guard
      <3> HIDE DEF h
      <3>4. heap'[op[p].obj].guard = h
            /\ \A x \in 1 .. gen : x # op[p].obj => heap'[x].guard = heap[x].guard
        BY <1>1, <2>1, <3>1, <3>2 DEF Account
      <3>5. QED
        BY <2>1, <3>3, <3>4, LatchWhenGuard
    <2>4. QED
      BY <2>2, <2>3
  <1>10. QED
    BY <1>3, <1>4, <1>5, <1>6, <1>7, <1>8, <1>9 DEF Begin, Step

\* As long as the process runs, the guard of every account object implements
\* BudgetLatch: no failed query or save, larger budget, refresh or change of
\* controls lifts it.
THEOREM LatchTheorem ==
    ASSUME "crash" \notin Ops
    PROVE  Spec => ObjectsLatch
  <1>1. Init => LatchesStart
    BY StoreAssumption DEF LatchesStart, Init, Objs, Latch!Init
  <1>2. StoreInv /\ [Next]_vars => LatchesStep
    <2> SUFFICES ASSUME StoreInv, [Next]_vars, NEW o \in Objs PROVE LatchStep(o)
      BY DEF LatchesStep
    <2>1. CASE Tick
      <3>1. now' > now
        BY <2>1 DEF Tick, StoreInv, TypeOK
      <3>2. QED
        BY <2>1, <3>1 DEF Tick, LatchStep, Latch!Next, Latch!Tick, Latch!latch
    <2>2. CASE UNCHANGED vars
      BY <2>2 DEF vars, LatchStep, Latch!latch
    <2>3. ~Restart
      BY DEF Restart
    <2>4. QED
      BY <2>1, <2>2, <2>3, LatchByStep DEF Next
  <1>3. QED
    BY <1>1, <1>2, Invariance, PTL DEF Spec, ObjectsLatch

-----------------------------------------------------------------------------
(***************************************************************************)
(* The flights of AccountStore: a quota query or a refresh is under way on *)
(* an object exactly while its mark is up, and never twice at once, for    *)
(* any number of goroutines and objects.                                   *)
(***************************************************************************)

\* Goroutine q works on a quota query, or a refresh, of object o.
Queries(q, o) == op[q].pc \in QuotaPCs /\ op[q].obj = o
Refreshing(q, o) == op[q].pc \in RefreshPCs /\ op[q].obj = o

\* FlightHasOwner, one kind of flight at a time.
QueryOwned ==
    \A o \in 1 .. gen :
      /\ heap[o].quotaFlight = (\E p \in Procs : Queries(p, o))
      /\ \A p, q \in Procs : Queries(p, o) /\ Queries(q, o) => p = q

RefreshOwned ==
    \A o \in 1 .. gen :
      /\ heap[o].refreshFlight = (\E p \in Procs : Refreshing(p, o))
      /\ \A p, q \in Procs : Refreshing(p, o) /\ Refreshing(q, o) => p = q

FlightInv == StoreInv /\ QueryOwned /\ RefreshOwned

LEMMA OwnedBoth == QueryOwned /\ RefreshOwned => FlightHasOwner
  <1> SUFFICES ASSUME QueryOwned, RefreshOwned, NEW o \in 1 .. gen
               PROVE  /\ heap[o].quotaFlight =
                           (\E p \in Procs : op[p].pc \in QuotaPCs /\ op[p].obj = o)
                      /\ heap[o].refreshFlight =
                           (\E p \in Procs : op[p].pc \in RefreshPCs /\ op[p].obj = o)
                      /\ \A p, q \in Procs :
                           /\ op[p].obj = o /\ op[q].obj = o
                           /\ \/ op[p].pc \in QuotaPCs /\ op[q].pc \in QuotaPCs
                              \/ op[p].pc \in RefreshPCs /\ op[q].pc \in RefreshPCs
                           => p = q
    BY DEF FlightHasOwner
  <1>1. heap[o].quotaFlight =
          (\E p \in Procs : op[p].pc \in QuotaPCs /\ op[p].obj = o)
    BY DEF QueryOwned, Queries
  <1>2. heap[o].refreshFlight =
          (\E p \in Procs : op[p].pc \in RefreshPCs /\ op[p].obj = o)
    BY DEF RefreshOwned, Refreshing
  <1>3. \A p, q \in Procs :
          /\ op[p].obj = o /\ op[q].obj = o
          /\ \/ op[p].pc \in QuotaPCs /\ op[q].pc \in QuotaPCs
             \/ op[p].pc \in RefreshPCs /\ op[q].pc \in RefreshPCs
          => p = q
    <2>1. \A p, q \in Procs : Queries(p, o) /\ Queries(q, o) => p = q
      BY DEF QueryOwned
    <2>2. \A p, q \in Procs : Refreshing(p, o) /\ Refreshing(q, o) => p = q
      BY DEF RefreshOwned
    <2>3. QED
      BY <2>1, <2>2 DEF Queries, Refreshing
  <1>4. QED
    BY <1>1, <1>2, <1>3

-----------------------------------------------------------------------------
\* A step in which every goroutine keeps the flights it had and no mark moves.
QueriesKept ==
    /\ gen' = gen
    /\ \A o \in 1 .. gen : heap'[o].quotaFlight = heap[o].quotaFlight
    /\ \A q \in Procs, o \in 1 .. gen : Queries(q, o)' <=> Queries(q, o)

RefreshesKept ==
    /\ gen' = gen
    /\ \A o \in 1 .. gen : heap'[o].refreshFlight = heap[o].refreshFlight
    /\ \A q \in Procs, o \in 1 .. gen : Refreshing(q, o)' <=> Refreshing(q, o)

LEMMA QueriesStay ==
    ASSUME QueryOwned, QueriesKept
    PROVE  QueryOwned'
  <1> SUFFICES ASSUME NEW o \in 1 .. gen
               PROVE  /\ heap'[o].quotaFlight = (\E p \in Procs : Queries(p, o)')
                      /\ \A p, q \in Procs : Queries(p, o)' /\ Queries(q, o)' => p = q
    BY DEF QueryOwned, QueriesKept
  <1>1. /\ heap[o].quotaFlight = (\E p \in Procs : Queries(p, o))
        /\ \A p, q \in Procs : Queries(p, o) /\ Queries(q, o) => p = q
    BY DEF QueryOwned
  <1>2. /\ heap'[o].quotaFlight = heap[o].quotaFlight
        /\ \A q \in Procs : Queries(q, o)' <=> Queries(q, o)
    BY DEF QueriesKept
  <1>3. (\E p \in Procs : Queries(p, o)') <=> (\E p \in Procs : Queries(p, o))
    BY <1>2
  <1>4. QED
    BY <1>1, <1>2, <1>3

LEMMA RefreshesStay ==
    ASSUME RefreshOwned, RefreshesKept
    PROVE  RefreshOwned'
  <1> SUFFICES ASSUME NEW o \in 1 .. gen
               PROVE  /\ heap'[o].refreshFlight = (\E p \in Procs : Refreshing(p, o)')
                      /\ \A p, q \in Procs :
                           Refreshing(p, o)' /\ Refreshing(q, o)' => p = q
    BY DEF RefreshOwned, RefreshesKept
  <1>1. /\ heap[o].refreshFlight = (\E p \in Procs : Refreshing(p, o))
        /\ \A p, q \in Procs : Refreshing(p, o) /\ Refreshing(q, o) => p = q
    BY DEF RefreshOwned
  <1>2. /\ heap'[o].refreshFlight = heap[o].refreshFlight
        /\ \A q \in Procs : Refreshing(q, o)' <=> Refreshing(q, o)
    BY DEF RefreshesKept
  <1>3. (\E p \in Procs : Refreshing(p, o)') <=> (\E p \in Procs : Refreshing(p, o))
    BY <1>2
  <1>4. QED
    BY <1>1, <1>2, <1>3

\* p moves from before to pc within the same flight, or outside of flights.
Within(before, pc) == /\ before \in QuotaPCs <=> pc \in QuotaPCs
                      /\ before \in RefreshPCs <=> pc \in RefreshPCs

MarksKept ==
    \A o \in 1 .. gen : /\ heap'[o].quotaFlight = heap[o].quotaFlight
                        /\ heap'[o].refreshFlight = heap[o].refreshFlight

LEMMA OwnFlightStays ==
    ASSUME FlightInv, NEW p \in Procs, NEW r,
           op' = [op EXCEPT ![p] = r],
           Within(op[p].pc, r.pc),
           op[p].pc \in QuotaPCs \cup RefreshPCs => r.obj = op[p].obj,
           gen' = gen, MarksKept
    PROVE  QueryOwned' /\ RefreshOwned'
  <1>1. \A q \in Procs : op'[q] = IF q = p THEN r ELSE op[q]
    BY Typing DEF FlightInv
  <1>2. QueriesKept
    BY <1>1 DEF QueriesKept, MarksKept, Queries, Within
  <1>3. RefreshesKept
    BY <1>1 DEF RefreshesKept, MarksKept, Refreshing, Within
  <1>4. QED
    BY <1>2, <1>3, QueriesStay, RefreshesStay DEF FlightInv

\* Steps outside of flights.
Outside == PCs \ (QuotaPCs \cup RefreshPCs)

LEMMA OutsideStays ==
    ASSUME FlightInv, NEW p \in Procs, NEW r, op' = [op EXCEPT ![p] = r],
           op[p].pc \in Outside, r.pc \in Outside, gen' = gen, MarksKept
    PROVE  QueryOwned' /\ RefreshOwned'
  <1>1. Within(op[p].pc, r.pc) /\ op[p].pc \notin QuotaPCs \cup RefreshPCs
    BY DEF Within, Outside
  <1>2. QED
    BY <1>1, OwnFlightStays

LEMMA SameMarks ==
    ASSUME heap' = heap
    PROVE  MarksKept
  BY DEF MarksKept

\* Writing other fields of one object, or retiring it, leaves the marks alone.
LEMMA WrittenMarks ==
    ASSUME FlightInv, NEW x \in 1 .. gen, NEW b,
           heap' = [heap EXCEPT ![x] = b],
           b.quotaFlight = heap[x].quotaFlight,
           b.refreshFlight = heap[x].refreshFlight
    PROVE  MarksKept
  <1>1. heap \in [Objs -> Account] /\ 1 .. gen \subseteq Objs
    BY StoreAssumption DEF FlightInv, StoreInv, TypeOK, Objs
  <1>2. QED
    BY <1>1 DEF MarksKept

LEMMA IdleFacts == /\ Idle.pc = "idle"
                   /\ "idle" \in Outside
  BY DEF Idle, Outside, PCs, QuotaPCs, RefreshPCs

-----------------------------------------------------------------------------
LEMMA ImportBeginFlights ==
    ASSUME FlightInv, NEW p \in Procs, ImportBegin(p)
    PROVE  QueryOwned' /\ RefreshOwned'
  <1>1. PICK i \in Idents, off \in Controls, mark \in Marks :
          op' = [op EXCEPT ![p] =
                  [Idle EXCEPT !.pc = "importWrite", !.obj = cur,
                     !.raw = [ident |-> i, ver |-> 0, off |-> off, mark |-> mark],
                     !.epoch = IF cur = 0 THEN 1 ELSE heap[cur].epoch + 1,
                     !.guard = InheritedGuard([ident |-> i, ver |-> 0,
                                               off |-> off, mark |-> mark])]]
    BY DEF ImportBegin
  <1> DEFINE r == [Idle EXCEPT !.pc = "importWrite", !.obj = cur,
                     !.raw = [ident |-> i, ver |-> 0, off |-> off, mark |-> mark],
                     !.epoch = IF cur = 0 THEN 1 ELSE heap[cur].epoch + 1,
                     !.guard = InheritedGuard([ident |-> i, ver |-> 0,
                                               off |-> off, mark |-> mark])]
  <1>2. r.pc = "importWrite"
    BY DEF Idle
  <1>3. op[p].pc \in Outside /\ "importWrite" \in Outside
    BY DEF ImportBegin, Outside, PCs, QuotaPCs, RefreshPCs
  <1>4. op' = [op EXCEPT ![p] = r]
    BY <1>1
  <1>5. gen' = gen /\ MarksKept
    BY SameMarks DEF ImportBegin
  <1> HIDE DEF r
  <1>6. QED
    BY <1>2, <1>3, <1>4, <1>5, OutsideStays

LEMMA UpdateBeginFlights ==
    ASSUME FlightInv, NEW p \in Procs, UpdateBegin(p)
    PROVE  QueryOwned' /\ RefreshOwned'
  <1>1. PICK raw, off :
          op' = [op EXCEPT ![p] =
                  [Idle EXCEPT !.pc = "updateWrite", !.obj = cur,
                     !.epoch = heap[cur].epoch, !.raw = raw, !.off = off]]
    BY DEF UpdateBegin
  <1> DEFINE r == [Idle EXCEPT !.pc = "updateWrite", !.obj = cur,
                     !.epoch = heap[cur].epoch, !.raw = raw, !.off = off]
  <1>2. r.pc = "updateWrite"
    BY DEF Idle
  <1>3. op[p].pc \in Outside /\ "updateWrite" \in Outside
    BY DEF UpdateBegin, Outside, PCs, QuotaPCs, RefreshPCs
  <1>4. op' = [op EXCEPT ![p] = r]
    BY <1>1
  <1>5. gen' = gen /\ MarksKept
    BY SameMarks DEF UpdateBegin
  <1> HIDE DEF r
  <1>6. QED
    BY <1>2, <1>3, <1>4, <1>5, OutsideStays

LEMMA DeleteBeginFlights ==
    ASSUME FlightInv, NEW p \in Procs, DeleteBegin(p)
    PROVE  QueryOwned' /\ RefreshOwned'
  <1> DEFINE r == [Idle EXCEPT !.pc = "deleteFile", !.obj = cur]
  <1>1. op' = [op EXCEPT ![p] = r] /\ r.pc = "deleteFile"
    BY DEF DeleteBegin, Idle
  <1>2. op[p].pc \in Outside /\ "deleteFile" \in Outside
    BY DEF DeleteBegin, Outside, PCs, QuotaPCs, RefreshPCs
  <1>3. gen' = gen /\ MarksKept
    BY SameMarks DEF DeleteBegin
  <1> HIDE DEF r
  <1>4. QED
    BY <1>1, <1>2, <1>3, OutsideStays

LEMMA ImportWriteFlights ==
    ASSUME FlightInv, NEW p \in Procs, ImportWrite(p)
    PROVE  QueryOwned' /\ RefreshOwned'
  <1>1. op[p].pc \in Outside /\ "importCommit" \in Outside /\ "importCommit" \in PCs
    BY DEF ImportWrite, Outside, PCs, QuotaPCs, RefreshPCs
  <1>2. gen' = gen /\ MarksKept
    BY SameMarks DEF ImportWrite
  <1>3. CASE Goto(p, "importCommit")
    <2>1. [op[p] EXCEPT !.pc = "importCommit"].pc = "importCommit"
      BY <1>1, LocalTypes DEF FlightInv
    <2>2. QED
      BY <1>1, <1>2, <1>3, <2>1, OutsideStays DEF Goto
  <1>4. CASE Return(p)
    BY <1>1, <1>2, <1>4, IdleFacts, OutsideStays DEF Return
  <1>5. QED
    BY <1>3, <1>4 DEF ImportWrite

\* The credential write of updateAccount and persistAuth.
LEMMA WriteCredentialFlights ==
    ASSUME FlightInv, NEW p \in Procs, NEW from \in PCs, NEW done \in PCs, NEW failed,
           Within(from, done), Within(from, failed.pc),
           from \in QuotaPCs \cup RefreshPCs => failed.obj = op[p].obj,
           WriteCredential(p, from, done, failed)
    PROVE  QueryOwned' /\ RefreshOwned'
  <1>1. op[p].pc = from /\ gen' = gen /\ MarksKept
    BY SameMarks DEF WriteCredential
  <1>2. CASE Goto(p, done)
    <2>1. /\ [op[p] EXCEPT !.pc = done].pc = done
          /\ [op[p] EXCEPT !.pc = done].obj = op[p].obj
      BY LocalTypes DEF FlightInv
    <2>2. QED
      BY <1>1, <1>2, <2>1, OwnFlightStays DEF Goto
  <1>3. CASE op' = [op EXCEPT ![p] = failed]
    BY <1>1, <1>3, OwnFlightStays
  <1>4. QED
    BY <1>2, <1>3 DEF WriteCredential

LEMMA UpdateWriteFlights ==
    ASSUME FlightInv, NEW p \in Procs, UpdateWrite(p)
    PROVE  QueryOwned' /\ RefreshOwned'
  <1>1. /\ "updateWrite" \in PCs /\ "updateCommit" \in PCs
        /\ Within("updateWrite", "updateCommit") /\ Within("updateWrite", Idle.pc)
        /\ "updateWrite" \notin QuotaPCs \cup RefreshPCs
    BY IdleFacts DEF Within, PCs, QuotaPCs, RefreshPCs
  <1>2. QED
    BY <1>1, WriteCredentialFlights DEF UpdateWrite

LEMMA PersistWriteFlights ==
    ASSUME FlightInv, NEW p \in Procs, PersistWrite(p)
    PROVE  QueryOwned' /\ RefreshOwned'
  <1>1. /\ "persistWrite" \in PCs /\ "persistCommit" \in PCs /\ "refreshDone" \in PCs
        /\ Within("persistWrite", "persistCommit")
        /\ Within("persistWrite", "refreshDone")
    BY DEF Within, PCs, QuotaPCs, RefreshPCs
  <1>2. /\ Landing(p, "refreshDone").pc = "refreshDone"
        /\ Landing(p, "refreshDone").obj = op[p].obj
    BY <1>1, LocalTypes DEF FlightInv
  <1>3. QED
    BY <1>1, <1>2, WriteCredentialFlights DEF PersistWrite

LEMMA UpdateCommitFlights ==
    ASSUME FlightInv, NEW p \in Procs, UpdateCommit(p)
    PROVE  QueryOwned' /\ RefreshOwned'
  <1>1. op[p].obj \in 1 .. gen /\ op[p].pc \in Outside /\ gen' = gen
    BY DEF UpdateCommit, FlightInv, StoreInv, WorksOnObject, Outside, PCs, QuotaPCs,
           RefreshPCs
  <1>2. MarksKept
    <2>1. CASE ~Current(p)
      BY <2>1, SameMarks DEF UpdateCommit
    <2>2. CASE Current(p)
      <3> DEFINE b == [heap[op[p].obj] EXCEPT !.off = op[p].off, !.raw = op[p].raw]
      <3>1. heap' = [heap EXCEPT ![op[p].obj] = b]
        BY <2>2 DEF UpdateCommit
      <3>2. heap[op[p].obj] \in Account
        BY <1>1, Typing DEF FlightInv
      <3>3. /\ b.quotaFlight = heap[op[p].obj].quotaFlight
            /\ b.refreshFlight = heap[op[p].obj].refreshFlight
        BY <3>2 DEF Account
      <3> HIDE DEF b
      <3>4. QED
        BY <1>1, <3>1, <3>3, WrittenMarks
    <2>3. QED
      BY <2>1, <2>2
  <1>3. op' = [op EXCEPT ![p] = Idle]
    BY DEF UpdateCommit, Return
  <1>4. QED
    BY <1>1, <1>2, <1>3, IdleFacts, OutsideStays

LEMMA DeleteFileFlights ==
    ASSUME FlightInv, NEW p \in Procs, DeleteFile(p)
    PROVE  QueryOwned' /\ RefreshOwned'
  <1>1. op[p].pc \in Outside /\ "deleteCommit" \in Outside
    BY DEF DeleteFile, Outside, PCs, QuotaPCs, RefreshPCs
  <1>2. gen' = gen /\ MarksKept
    BY SameMarks DEF DeleteFile
  <1>3. CASE op' = [op EXCEPT ![p].pc = "deleteCommit",
                              ![p].epoch = heap[op[p].obj].epoch]
    <2> DEFINE r == [op[p] EXCEPT !.pc = "deleteCommit",
                                  !.epoch = heap[op[p].obj].epoch]
    <2>1. op[p] \in Op
      BY Typing DEF FlightInv
    <2>2. r.pc = "deleteCommit"
      BY <2>1 DEF Op
    <2>3. op' = [op EXCEPT ![p] = r]
      BY <1>3
    <2> HIDE DEF r
    <2>4. QED
      BY <1>1, <1>2, <2>2, <2>3, OutsideStays
  <1>4. CASE Return(p)
    BY <1>1, <1>2, <1>4, IdleFacts, OutsideStays DEF Return
  <1>5. QED
    BY <1>3, <1>4 DEF DeleteFile

LEMMA DeleteCommitFlights ==
    ASSUME FlightInv, NEW p \in Procs, DeleteCommit(p)
    PROVE  QueryOwned' /\ RefreshOwned'
  <1>1. op[p].obj \in 1 .. gen /\ op[p].pc \in Outside /\ gen' = gen
    BY DEF DeleteCommit, FlightInv, StoreInv, WorksOnObject, Outside, PCs, QuotaPCs,
           RefreshPCs
  <1>2. MarksKept
    <2>1. CASE cur # op[p].obj \/ ~Current(p)
      BY <2>1, SameMarks DEF DeleteCommit
    <2>2. CASE ~(cur # op[p].obj \/ ~Current(p))
      <3>1. cur \in 1 .. gen /\ heap' = [heap EXCEPT ![cur] = Retire(heap[cur])]
        BY <1>1, <2>2 DEF DeleteCommit
      <3>2. heap[cur] \in Account
        BY <3>1, Typing DEF FlightInv
      <3>3. /\ Retire(heap[cur]).quotaFlight = heap[cur].quotaFlight
            /\ Retire(heap[cur]).refreshFlight = heap[cur].refreshFlight
        BY <3>2 DEF Retire, Account
      <3>4. QED
        BY <3>1, <3>3, WrittenMarks
    <2>3. QED
      BY <2>1, <2>2
  <1>3. op' = [op EXCEPT ![p] = Idle]
    BY DEF DeleteCommit, Return
  <1>4. QED
    BY <1>1, <1>2, <1>3, IdleFacts, OutsideStays

-----------------------------------------------------------------------------
LEMMA QuotaReplyFlights ==
    ASSUME FlightInv, NEW p \in Procs, QuotaReply(p)
    PROVE  QueryOwned' /\ RefreshOwned'
  <1>1. op[p].obj \in 1 .. gen /\ op[p].pc = "quotaWait" /\ gen' = gen
    BY DEF QuotaReply, FlightInv, StoreInv, WorksOnObject
  <1>2. /\ "quotaDone" \in PCs
        /\ Within("quotaWait", "quotaDone") /\ Within("quotaWait", "quotaSave")
    BY DEF Within, PCs, QuotaPCs, RefreshPCs
  <1>3. /\ Landing(p, "quotaDone").pc = "quotaDone"
        /\ Landing(p, "quotaDone").obj = op[p].obj
    BY <1>2, LocalTypes DEF FlightInv
  <1>4. heap[op[p].obj] \in Account /\ op[p] \in Op
    BY <1>1, Typing DEF FlightInv
  <1>5. ASSUME NEW guard, heap' = [heap EXCEPT ![op[p].obj].nextQuota = now + 1,
                                               ![op[p].obj].guard = guard]
        PROVE  MarksKept
    <2> DEFINE b == [heap[op[p].obj] EXCEPT !.nextQuota = now + 1, !.guard = guard]
    <2>1. heap' = [heap EXCEPT ![op[p].obj] = b]
      BY <1>5
    <2>2. /\ b.quotaFlight = heap[op[p].obj].quotaFlight
          /\ b.refreshFlight = heap[op[p].obj].refreshFlight
      BY <1>4 DEF Account
    <2> HIDE DEF b
    <2>3. QED
      BY <1>1, <2>1, <2>2, WrittenMarks
  <1>6. MarksKept
    <2>1. CASE heap' = heap
      BY <2>1, SameMarks
    <2>2. CASE heap' # heap
      <3>1. PICK state \in {"fail", "unknown", "allow", "block"}, reset \in Resets :
              LET o == op[p].obj
                  guard == IF state = "fail" THEN heap[o].guard
                           ELSE GuardAfter(heap[o].guard, state, reset, now)
              IN /\ Current(p)
                 /\ heap' = [heap EXCEPT ![o].nextQuota = now + 1, ![o].guard = guard]
                 /\ \/ Land(p, "quotaDone")
                    \/ op' = [op EXCEPT ![p].pc = "quotaSave", ![p].guard = guard,
                                        ![p].raw = heap[o].raw]
        BY <2>2, QuotaReplyEffect DEF FlightInv
      <3>2. QED
        BY <1>5, <3>1
    <2>3. QED
      BY <2>1, <2>2
  <1>7. CASE Land(p, "quotaDone")
    BY <1>1, <1>2, <1>3, <1>6, <1>7, OwnFlightStays DEF Land
  <1>8. ASSUME NEW guard,
               op' = [op EXCEPT ![p].pc = "quotaSave", ![p].guard = guard,
                                ![p].raw = heap[op[p].obj].raw]
        PROVE  QueryOwned' /\ RefreshOwned'
    <2> DEFINE r == [op[p] EXCEPT !.pc = "quotaSave", !.guard = guard,
                                  !.raw = heap[op[p].obj].raw]
    <2>1. op' = [op EXCEPT ![p] = r]
      BY <1>8
    <2>2. r.pc = "quotaSave" /\ r.obj = op[p].obj
      BY <1>4 DEF Op
    <2> HIDE DEF r
    <2>3. QED
      BY <1>1, <1>2, <1>6, <2>1, <2>2, OwnFlightStays
  <1>9. CASE ~Land(p, "quotaDone")
    <2>1. PICK state \in {"fail", "unknown", "allow", "block"}, reset \in Resets :
            LET o == op[p].obj
                guard == IF state = "fail" THEN heap[o].guard
                         ELSE GuardAfter(heap[o].guard, state, reset, now)
            IN /\ Current(p)
               /\ heap' = [heap EXCEPT ![o].nextQuota = now + 1, ![o].guard = guard]
               /\ \/ Land(p, "quotaDone")
                  \/ op' = [op EXCEPT ![p].pc = "quotaSave", ![p].guard = guard,
                                      ![p].raw = heap[o].raw]
      BY <1>9, QuotaReplyEffect DEF FlightInv
    <2> DEFINE guard == IF state = "fail" THEN heap[op[p].obj].guard
                        ELSE GuardAfter(heap[op[p].obj].guard, state, reset, now)
    <2>2. op' = [op EXCEPT ![p].pc = "quotaSave", ![p].guard = guard,
                           ![p].raw = heap[op[p].obj].raw]
      BY <1>9, <2>1
    <2> HIDE DEF guard
    <2>3. QED
      BY <1>8, <2>2
  <1>10. QED
    BY <1>7, <1>9

LEMMA QuotaSaveFlights ==
    ASSUME FlightInv, NEW p \in Procs, QuotaSave(p)
    PROVE  QueryOwned' /\ RefreshOwned'
  <1>1. op[p].pc = "quotaSave" /\ gen' = gen /\ MarksKept
    BY SameMarks DEF QuotaSave
  <1>2. /\ "quotaDone" \in PCs /\ "quotaSaveFailed" \in PCs
        /\ Within("quotaSave", "quotaDone") /\ Within("quotaSave", "quotaSaveFailed")
    BY DEF Within, PCs, QuotaPCs, RefreshPCs
  <1>3. CASE Land(p, "quotaDone")
    <2>1. /\ Landing(p, "quotaDone").pc = "quotaDone"
          /\ Landing(p, "quotaDone").obj = op[p].obj
      BY <1>2, LocalTypes DEF FlightInv
    <2>2. QED
      BY <1>1, <1>2, <1>3, <2>1, OwnFlightStays DEF Land
  <1>4. CASE Goto(p, "quotaSaveFailed")
    <2>1. /\ [op[p] EXCEPT !.pc = "quotaSaveFailed"].pc = "quotaSaveFailed"
          /\ [op[p] EXCEPT !.pc = "quotaSaveFailed"].obj = op[p].obj
      BY <1>2, LocalTypes DEF FlightInv
    <2>2. QED
      BY <1>1, <1>2, <1>4, <2>1, OwnFlightStays DEF Goto
  <1>5. QED
    BY <1>3, <1>4 DEF QuotaSave

LEMMA QuotaSaveFailedFlights ==
    ASSUME FlightInv, NEW p \in Procs, QuotaSaveFailed(p)
    PROVE  QueryOwned' /\ RefreshOwned'
  <1>1. /\ op[p].obj \in 1 .. gen /\ op[p].pc = "quotaSaveFailed" /\ gen' = gen
        /\ op' = [op EXCEPT ![p] = Landing(p, "quotaDone")]
    BY DEF QuotaSaveFailed, Land, FlightInv, StoreInv, WorksOnObject
  <1>2. "quotaDone" \in PCs /\ Within("quotaSaveFailed", "quotaDone")
    BY DEF Within, PCs, QuotaPCs, RefreshPCs
  <1>3. /\ Landing(p, "quotaDone").pc = "quotaDone"
        /\ Landing(p, "quotaDone").obj = op[p].obj
    BY <1>2, LocalTypes DEF FlightInv
  <1>4. MarksKept
    <2>1. CASE ~Current(p)
      BY <2>1, SameMarks DEF QuotaSaveFailed
    <2>2. CASE Current(p)
      <3> DEFINE a == heap[op[p].obj]
                 b == [a EXCEPT !.guard = [a.guard EXCEPT !.blocked = TRUE,
                                                          !.reason = "write"]]
      <3>1. heap' = [heap EXCEPT ![op[p].obj] = b]
        BY <2>2 DEF QuotaSaveFailed
      <3>2. a \in Account
        BY <1>1, Typing DEF FlightInv
      <3>3. b.quotaFlight = a.quotaFlight /\ b.refreshFlight = a.refreshFlight
        BY <3>2 DEF Account
      <3> HIDE DEF b
      <3>4. QED
        BY <1>1, <3>1, <3>3, WrittenMarks
    <2>3. QED
      BY <2>1, <2>2
  <1>5. QED
    BY <1>1, <1>2, <1>3, <1>4, OwnFlightStays

LEMMA RefreshReplyFlights ==
    ASSUME FlightInv, NEW p \in Procs, RefreshReply(p)
    PROVE  QueryOwned' /\ RefreshOwned'
  <1>1. op[p].pc = "refreshWait" /\ gen' = gen /\ MarksKept
    BY SameMarks DEF RefreshReply
  <1>2. /\ "refreshDone" \in PCs
        /\ Within("refreshWait", "refreshDone") /\ Within("refreshWait", "persistWrite")
    BY DEF Within, PCs, QuotaPCs, RefreshPCs
  <1>3. CASE Land(p, "refreshDone")
    <2>1. /\ Landing(p, "refreshDone").pc = "refreshDone"
          /\ Landing(p, "refreshDone").obj = op[p].obj
      BY <1>2, LocalTypes DEF FlightInv
    <2>2. QED
      BY <1>1, <1>2, <1>3, <2>1, OwnFlightStays DEF Land
  <1>4. CASE ~Land(p, "refreshDone")
    <2>1. PICK epoch, raw :
            op' = [op EXCEPT ![p].pc = "persistWrite", ![p].epoch = epoch,
                             ![p].raw = raw]
      BY <1>4 DEF RefreshReply
    <2> DEFINE r == [op[p] EXCEPT !.pc = "persistWrite", !.epoch = epoch, !.raw = raw]
    <2>2. op' = [op EXCEPT ![p] = r]
      BY <2>1
    <2>3. op[p] \in Op
      BY Typing DEF FlightInv
    <2>4. r.pc = "persistWrite" /\ r.obj = op[p].obj
      BY <2>3 DEF Op
    <2> HIDE DEF r
    <2>5. QED
      BY <1>1, <1>2, <2>2, <2>4, OwnFlightStays
  <1>5. QED
    BY <1>3, <1>4

LEMMA PersistCommitFlights ==
    ASSUME FlightInv, NEW p \in Procs, PersistCommit(p)
    PROVE  QueryOwned' /\ RefreshOwned'
  <1>1. /\ op[p].obj \in 1 .. gen /\ op[p].pc = "persistCommit" /\ gen' = gen
        /\ op' = [op EXCEPT ![p] = Landing(p, "refreshDone")]
    BY DEF PersistCommit, Land, FlightInv, StoreInv, WorksOnObject
  <1>2. "refreshDone" \in PCs /\ Within("persistCommit", "refreshDone")
    BY DEF Within, PCs, QuotaPCs, RefreshPCs
  <1>3. /\ Landing(p, "refreshDone").pc = "refreshDone"
        /\ Landing(p, "refreshDone").obj = op[p].obj
    BY <1>2, LocalTypes DEF FlightInv
  <1>4. MarksKept
    <2>1. CASE ~Current(p)
      BY <2>1, SameMarks DEF PersistCommit
    <2>2. CASE Current(p)
      <3> DEFINE b == [heap[op[p].obj] EXCEPT !.raw = op[p].raw, !.ver = op[p].raw.ver]
      <3>1. heap' = [heap EXCEPT ![op[p].obj] = b]
        BY <2>2 DEF PersistCommit
      <3>2. heap[op[p].obj] \in Account
        BY <1>1, Typing DEF FlightInv
      <3>3. /\ b.quotaFlight = heap[op[p].obj].quotaFlight
            /\ b.refreshFlight = heap[op[p].obj].refreshFlight
        BY <3>2 DEF Account
      <3> HIDE DEF b
      <3>4. QED
        BY <1>1, <3>1, <3>3, WrittenMarks
    <2>3. QED
      BY <2>1, <2>2
  <1>5. QED
    BY <1>1, <1>2, <1>3, <1>4, OwnFlightStays

-----------------------------------------------------------------------------
\* A flight begins: only where none is under way.
LEMMA QuotaBeginFlights ==
    ASSUME FlightInv, NEW p \in Procs, QuotaBegin(p)
    PROVE  QueryOwned' /\ RefreshOwned'
  <1>1. PICK x \in 1 .. gen :
          /\ ~heap[x].quotaFlight
          /\ heap' = [heap EXCEPT ![x].quotaFlight = TRUE]
          /\ op' = [op EXCEPT ![p] = [Idle EXCEPT !.pc = "quotaWait", !.obj = x,
                                                  !.epoch = heap[x].epoch]]
    BY DEF QuotaBegin
  <1>2. gen' = gen /\ op[p].pc \notin QuotaPCs \cup RefreshPCs
    BY DEF QuotaBegin, QuotaPCs, RefreshPCs
  <1> DEFINE r == [Idle EXCEPT !.pc = "quotaWait", !.obj = x, !.epoch = heap[x].epoch]
  <1>3. r.pc = "quotaWait" /\ r.obj = x /\ op' = [op EXCEPT ![p] = r]
    BY <1>1 DEF Idle
  <1> HIDE DEF r
  <1>4. \A q \in Procs : op'[q] = IF q = p THEN r ELSE op[q]
    BY <1>3, Typing DEF FlightInv
  <1>5. r.pc \in QuotaPCs /\ r.pc \notin RefreshPCs
    BY <1>3 DEF QuotaPCs, RefreshPCs
  <1>6. \A o \in 1 .. gen :
          /\ heap'[o].quotaFlight = IF o = x THEN TRUE ELSE heap[o].quotaFlight
          /\ heap'[o].refreshFlight = heap[o].refreshFlight
    BY <1>1, Typing DEF FlightInv, StoreInv, TypeOK, Account
  <1>7. RefreshesKept
    BY <1>2, <1>4, <1>5, <1>6 DEF RefreshesKept, Refreshing
  <1>8. QueryOwned'
    <2> SUFFICES ASSUME NEW o \in 1 .. gen
                 PROVE  /\ heap'[o].quotaFlight = (\E q \in Procs : Queries(q, o)')
                        /\ \A q, s \in Procs : Queries(q, o)' /\ Queries(s, o)' => q = s
      BY <1>2 DEF QueryOwned
    <2>1. /\ heap[o].quotaFlight = (\E q \in Procs : Queries(q, o))
          /\ \A q, s \in Procs : Queries(q, o) /\ Queries(s, o) => q = s
      BY DEF FlightInv, QueryOwned
    <2>2. CASE o # x
      <3>1. \A q \in Procs : Queries(q, o)' <=> Queries(q, o)
        BY <1>2, <1>3, <1>4, <2>2 DEF Queries
      <3>2. (\E q \in Procs : Queries(q, o)') <=> (\E q \in Procs : Queries(q, o))
        BY <3>1
      <3>3. heap'[o].quotaFlight = heap[o].quotaFlight
        BY <1>6, <2>2
      <3>4. QED
        BY <2>1, <3>1, <3>2, <3>3
    <2>3. CASE o = x
      <3>1. \A q \in Procs : ~Queries(q, o)
        BY <1>1, <2>1, <2>3
      <3>2. \A q \in Procs : Queries(q, o)' <=> q = p
        BY <1>3, <1>4, <1>5, <2>3, <3>1 DEF Queries
      <3>3. heap'[o].quotaFlight = TRUE
        BY <1>6, <2>3
      <3>4. QED
        BY <3>2, <3>3
    <2>4. QED
      BY <2>2, <2>3
  <1>9. QED
    BY <1>7, <1>8, RefreshesStay DEF FlightInv

LEMMA RefreshBeginFlights ==
    ASSUME FlightInv, NEW p \in Procs, RefreshBegin(p)
    PROVE  QueryOwned' /\ RefreshOwned'
  <1>1. PICK x \in 1 .. gen :
          /\ ~heap[x].refreshFlight
          /\ heap' = [heap EXCEPT ![x].refreshFlight = TRUE]
          /\ op' = [op EXCEPT ![p] =
                [Idle EXCEPT !.pc = "refreshWait", !.obj = x, !.epoch = heap[x].epoch,
                             !.raw = [heap[x].raw EXCEPT !.ver = heap[x].ver]]]
    BY DEF RefreshBegin
  <1>2. gen' = gen /\ op[p].pc \notin QuotaPCs \cup RefreshPCs
    BY DEF RefreshBegin, QuotaPCs, RefreshPCs
  <1> DEFINE raw == [heap[x].raw EXCEPT !.ver = heap[x].ver]
             r == [Idle EXCEPT !.pc = "refreshWait", !.obj = x, !.epoch = heap[x].epoch,
                               !.raw = raw]
  <1>3. op' = [op EXCEPT ![p] = r]
    BY <1>1
  <1> HIDE DEF raw
  <1>4. r.pc = "refreshWait" /\ r.obj = x
    BY DEF Idle
  <1> HIDE DEF r
  <1>5. \A q \in Procs : op'[q] = IF q = p THEN r ELSE op[q]
    BY <1>3, Typing DEF FlightInv
  <1>6. r.pc \in RefreshPCs /\ r.pc \notin QuotaPCs
    BY <1>4 DEF QuotaPCs, RefreshPCs
  <1>7. \A o \in 1 .. gen :
          /\ heap'[o].refreshFlight = IF o = x THEN TRUE ELSE heap[o].refreshFlight
          /\ heap'[o].quotaFlight = heap[o].quotaFlight
    BY <1>1, Typing DEF FlightInv, StoreInv, TypeOK, Account
  <1>8. QueriesKept
    BY <1>2, <1>5, <1>6, <1>7 DEF QueriesKept, Queries
  <1>9. RefreshOwned'
    <2> SUFFICES ASSUME NEW o \in 1 .. gen
                 PROVE  /\ heap'[o].refreshFlight = (\E q \in Procs : Refreshing(q, o)')
                        /\ \A q, s \in Procs :
                             Refreshing(q, o)' /\ Refreshing(s, o)' => q = s
      BY <1>2 DEF RefreshOwned
    <2>1. /\ heap[o].refreshFlight = (\E q \in Procs : Refreshing(q, o))
          /\ \A q, s \in Procs : Refreshing(q, o) /\ Refreshing(s, o) => q = s
      BY DEF FlightInv, RefreshOwned
    <2>2. CASE o # x
      <3>1. \A q \in Procs : Refreshing(q, o)' <=> Refreshing(q, o)
        BY <1>2, <1>4, <1>5, <2>2 DEF Refreshing
      <3>2. (\E q \in Procs : Refreshing(q, o)') <=> (\E q \in Procs : Refreshing(q, o))
        BY <3>1
      <3>3. heap'[o].refreshFlight = heap[o].refreshFlight
        BY <1>7, <2>2
      <3>4. QED
        BY <2>1, <3>1, <3>2, <3>3
    <2>3. CASE o = x
      <3>1. \A q \in Procs : ~Refreshing(q, o)
        BY <1>1, <2>1, <2>3
      <3>2. \A q \in Procs : Refreshing(q, o)' <=> q = p
        BY <1>4, <1>5, <1>6, <2>3, <3>1 DEF Refreshing
      <3>3. heap'[o].refreshFlight = TRUE
        BY <1>7, <2>3
      <3>4. QED
        BY <3>2, <3>3
    <2>4. QED
      BY <2>2, <2>3
  <1>10. QED
    BY <1>8, <1>9, QueriesStay DEF FlightInv

\* A flight ends: its mark comes down with the only goroutine at work under it.
LEMMA QuotaDoneFlights ==
    ASSUME FlightInv, NEW p \in Procs, QuotaDone(p)
    PROVE  QueryOwned' /\ RefreshOwned'
  <1>1. PICK x \in 1 .. gen : x = op[p].obj
    BY DEF QuotaDone, FlightInv, StoreInv, WorksOnObject
  <1>2. /\ heap' = [heap EXCEPT ![x].quotaFlight = FALSE]
        /\ op' = [op EXCEPT ![p] = Idle] /\ gen' = gen /\ op[p].pc = "quotaDone"
    BY <1>1 DEF QuotaDone, Return
  <1>3. Queries(p, x) /\ op[p].pc \notin RefreshPCs
    BY <1>1, <1>2 DEF Queries, QuotaPCs, RefreshPCs
  <1>4. \A q \in Procs : op'[q] = IF q = p THEN Idle ELSE op[q]
    BY <1>2, Typing DEF FlightInv
  <1>5. Idle.pc \notin QuotaPCs /\ Idle.pc \notin RefreshPCs
    BY DEF Idle, QuotaPCs, RefreshPCs
  <1>6. \A o \in 1 .. gen :
          /\ heap'[o].quotaFlight = IF o = x THEN FALSE ELSE heap[o].quotaFlight
          /\ heap'[o].refreshFlight = heap[o].refreshFlight
    BY <1>2, Typing DEF FlightInv, StoreInv, TypeOK, Account
  <1>7. RefreshesKept
    BY <1>2, <1>3, <1>4, <1>5, <1>6 DEF RefreshesKept, Refreshing
  <1>8. QueryOwned'
    <2> SUFFICES ASSUME NEW o \in 1 .. gen
                 PROVE  /\ heap'[o].quotaFlight = (\E q \in Procs : Queries(q, o)')
                        /\ \A q, s \in Procs : Queries(q, o)' /\ Queries(s, o)' => q = s
      BY <1>2 DEF QueryOwned
    <2>1. /\ heap[o].quotaFlight = (\E q \in Procs : Queries(q, o))
          /\ \A q, s \in Procs : Queries(q, o) /\ Queries(s, o) => q = s
      BY DEF FlightInv, QueryOwned
    <2>2. CASE o # x
      <3>1. \A q \in Procs : Queries(q, o)' <=> Queries(q, o)
        BY <1>1, <1>4, <1>5, <2>2 DEF Queries
      <3>2. (\E q \in Procs : Queries(q, o)') <=> (\E q \in Procs : Queries(q, o))
        BY <3>1
      <3>3. heap'[o].quotaFlight = heap[o].quotaFlight
        BY <1>6, <2>2
      <3>4. QED
        BY <2>1, <3>1, <3>2, <3>3
    <2>3. CASE o = x
      <3>1. \A q \in Procs : Queries(q, o) => q = p
        BY <1>3, <2>1, <2>3
      <3>2. \A q \in Procs : ~Queries(q, o)'
        BY <1>4, <1>5, <3>1 DEF Queries
      <3>3. heap'[o].quotaFlight = FALSE
        BY <1>6, <2>3
      <3>4. QED
        BY <3>2, <3>3
    <2>4. QED
      BY <2>2, <2>3
  <1>9. QED
    BY <1>7, <1>8, RefreshesStay DEF FlightInv

LEMMA RefreshDoneFlights ==
    ASSUME FlightInv, NEW p \in Procs, RefreshDone(p)
    PROVE  QueryOwned' /\ RefreshOwned'
  <1>1. PICK x \in 1 .. gen : x = op[p].obj
    BY DEF RefreshDone, FlightInv, StoreInv, WorksOnObject
  <1>2. /\ heap' = [heap EXCEPT ![x].refreshFlight = FALSE]
        /\ op' = [op EXCEPT ![p] = Idle] /\ gen' = gen /\ op[p].pc = "refreshDone"
    BY <1>1 DEF RefreshDone, Return
  <1>3. Refreshing(p, x) /\ op[p].pc \notin QuotaPCs
    BY <1>1, <1>2 DEF Refreshing, QuotaPCs, RefreshPCs
  <1>4. \A q \in Procs : op'[q] = IF q = p THEN Idle ELSE op[q]
    BY <1>2, Typing DEF FlightInv
  <1>5. Idle.pc \notin QuotaPCs /\ Idle.pc \notin RefreshPCs
    BY DEF Idle, QuotaPCs, RefreshPCs
  <1>6. \A o \in 1 .. gen :
          /\ heap'[o].refreshFlight = IF o = x THEN FALSE ELSE heap[o].refreshFlight
          /\ heap'[o].quotaFlight = heap[o].quotaFlight
    BY <1>2, Typing DEF FlightInv, StoreInv, TypeOK, Account
  <1>7. QueriesKept
    BY <1>2, <1>3, <1>4, <1>5, <1>6 DEF QueriesKept, Queries
  <1>8. RefreshOwned'
    <2> SUFFICES ASSUME NEW o \in 1 .. gen
                 PROVE  /\ heap'[o].refreshFlight = (\E q \in Procs : Refreshing(q, o)')
                        /\ \A q, s \in Procs :
                             Refreshing(q, o)' /\ Refreshing(s, o)' => q = s
      BY <1>2 DEF RefreshOwned
    <2>1. /\ heap[o].refreshFlight = (\E q \in Procs : Refreshing(q, o))
          /\ \A q, s \in Procs : Refreshing(q, o) /\ Refreshing(s, o) => q = s
      BY DEF FlightInv, RefreshOwned
    <2>2. CASE o # x
      <3>1. \A q \in Procs : Refreshing(q, o)' <=> Refreshing(q, o)
        BY <1>1, <1>4, <1>5, <2>2 DEF Refreshing
      <3>2. (\E q \in Procs : Refreshing(q, o)') <=> (\E q \in Procs : Refreshing(q, o))
        BY <3>1
      <3>3. heap'[o].refreshFlight = heap[o].refreshFlight
        BY <1>6, <2>2
      <3>4. QED
        BY <2>1, <3>1, <3>2, <3>3
    <2>3. CASE o = x
      <3>1. \A q \in Procs : Refreshing(q, o) => q = p
        BY <1>3, <2>1, <2>3
      <3>2. \A q \in Procs : ~Refreshing(q, o)'
        BY <1>4, <1>5, <3>1 DEF Refreshing
      <3>3. heap'[o].refreshFlight = FALSE
        BY <1>6, <2>3
      <3>4. QED
        BY <3>2, <3>3
    <2>4. QED
      BY <2>2, <2>3
  <1>9. QED
    BY <1>7, <1>8, QueriesStay DEF FlightInv

\* A new object has no flights, and nobody can be at work on it yet.
LEMMA ImportCommitFlights ==
    ASSUME FlightInv, NEW p \in Procs, ImportCommit(p)
    PROVE  QueryOwned' /\ RefreshOwned'
  <1>1. cur = op[p].obj /\ gen < MaxGen /\ gen \in Nat
    BY StoreAssumption DEF ImportCommit, FlightInv, StoreInv, TypeOK, ImportIsCurrent
  <1> DEFINE fresh == NewAccount(op[p].raw, op[p].epoch, op[p].guard)
  <1>2. /\ heap' = [o \in Objs |-> IF o = gen + 1 THEN fresh
                                  ELSE IF o = cur THEN Retire(heap[o]) ELSE heap[o]]
        /\ gen' = gen + 1 /\ op' = [op EXCEPT ![p] = Idle]
    BY <1>1 DEF ImportCommit, Return
  <1>3. fresh.quotaFlight = FALSE /\ fresh.refreshFlight = FALSE
    BY DEF NewAccount
  <1> HIDE DEF fresh
  <1>4. \A o \in 1 .. gen + 1 : o \in Objs
    BY <1>1, StoreAssumption DEF Objs
  <1>5. \A o \in 1 .. gen : heap[o] \in Account
    BY Typing DEF FlightInv
  <1>6. \A o \in 1 .. gen : /\ heap'[o].quotaFlight = heap[o].quotaFlight
                          /\ heap'[o].refreshFlight = heap[o].refreshFlight
    <2> SUFFICES ASSUME NEW o \in 1 .. gen
                 PROVE  /\ heap'[o].quotaFlight = heap[o].quotaFlight
                        /\ heap'[o].refreshFlight = heap[o].refreshFlight
      OBVIOUS
    <2>1. heap'[o] = IF o = cur THEN Retire(heap[o]) ELSE heap[o]
      BY <1>1, <1>2, <1>4
    <2>2. /\ Retire(heap[o]).quotaFlight = heap[o].quotaFlight
          /\ Retire(heap[o]).refreshFlight = heap[o].refreshFlight
      BY <1>5 DEF Retire, Account
    <2>3. QED
      BY <2>1, <2>2
  <1>7. heap'[gen + 1] = fresh
    BY <1>1, <1>2, <1>4
  <1>8. \A q \in Procs : op'[q] = IF q = p THEN Idle ELSE op[q]
    BY <1>2, Typing DEF FlightInv
  <1>9. /\ Idle.pc \notin QuotaPCs /\ Idle.pc \notin RefreshPCs
        /\ op[p].pc \notin QuotaPCs /\ op[p].pc \notin RefreshPCs
    BY DEF Idle, ImportCommit, QuotaPCs, RefreshPCs
  <1>10. \A q \in Procs : ~Queries(q, gen + 1) /\ ~Refreshing(q, gen + 1)
    BY <1>1 DEF Queries, Refreshing, QuotaPCs, RefreshPCs, FlightInv, StoreInv,
                WorksOnObject
  <1>11. QueryOwned'
    <2> SUFFICES ASSUME NEW o \in 1 .. gen + 1
                 PROVE  /\ heap'[o].quotaFlight = (\E q \in Procs : Queries(q, o)')
                        /\ \A q, s \in Procs : Queries(q, o)' /\ Queries(s, o)' => q = s
      BY <1>2 DEF QueryOwned
    <2>1. CASE o = gen + 1
      <3>1. \A q \in Procs : ~Queries(q, o)'
        BY <1>8, <1>9, <1>10, <2>1 DEF Queries
      <3>2. heap'[o].quotaFlight = FALSE
        BY <1>3, <1>7, <2>1
      <3>3. QED
        BY <3>1, <3>2
    <2>2. CASE o # gen + 1
      <3>1. o \in 1 .. gen
        BY <1>1, <2>2
      <3>2. /\ heap[o].quotaFlight = (\E q \in Procs : Queries(q, o))
            /\ \A q, s \in Procs : Queries(q, o) /\ Queries(s, o) => q = s
        BY <3>1 DEF FlightInv, QueryOwned
      <3>3. \A q \in Procs : Queries(q, o)' <=> Queries(q, o)
        BY <1>8, <1>9 DEF Queries
      <3>4. (\E q \in Procs : Queries(q, o)') <=> (\E q \in Procs : Queries(q, o))
        BY <3>3
      <3>5. heap'[o].quotaFlight = heap[o].quotaFlight
        BY <1>6, <3>1
      <3>6. QED
        BY <3>2, <3>3, <3>4, <3>5
    <2>3. QED
      BY <2>1, <2>2
  <1>12. RefreshOwned'
    <2> SUFFICES ASSUME NEW o \in 1 .. gen + 1
                 PROVE  /\ heap'[o].refreshFlight = (\E q \in Procs : Refreshing(q, o)')
                        /\ \A q, s \in Procs :
                             Refreshing(q, o)' /\ Refreshing(s, o)' => q = s
      BY <1>2 DEF RefreshOwned
    <2>1. CASE o = gen + 1
      <3>1. \A q \in Procs : ~Refreshing(q, o)'
        BY <1>8, <1>9, <1>10, <2>1 DEF Refreshing
      <3>2. heap'[o].refreshFlight = FALSE
        BY <1>3, <1>7, <2>1
      <3>3. QED
        BY <3>1, <3>2
    <2>2. CASE o # gen + 1
      <3>1. o \in 1 .. gen
        BY <1>1, <2>2
      <3>2. /\ heap[o].refreshFlight = (\E q \in Procs : Refreshing(q, o))
            /\ \A q, s \in Procs : Refreshing(q, o) /\ Refreshing(s, o) => q = s
        BY <3>1 DEF FlightInv, RefreshOwned
      <3>3. \A q \in Procs : Refreshing(q, o)' <=> Refreshing(q, o)
        BY <1>8, <1>9 DEF Refreshing
      <3>4. (\E q \in Procs : Refreshing(q, o)') <=> (\E q \in Procs : Refreshing(q, o))
        BY <3>3
      <3>5. heap'[o].refreshFlight = heap[o].refreshFlight
        BY <1>6, <3>1
      <3>6. QED
        BY <3>2, <3>3, <3>4, <3>5
    <2>3. QED
      BY <2>1, <2>2
  <1>13. QED
    BY <1>11, <1>12

-----------------------------------------------------------------------------
\* When nobody works and no mark is up, marks and work agree.
LEMMA QuietIsOwned ==
    ASSUME \A q \in Procs : op[q] = Idle,
           \A o \in 1 .. gen : /\ heap[o].quotaFlight = FALSE
                               /\ heap[o].refreshFlight = FALSE
    PROVE  QueryOwned /\ RefreshOwned
  <1>1. \A q \in Procs : op[q].pc \notin QuotaPCs /\ op[q].pc \notin RefreshPCs
    BY DEF Idle, QuotaPCs, RefreshPCs
  <1>2. QED
    BY <1>1 DEF QueryOwned, RefreshOwned, Queries, Refreshing

LEMMA RestartFlights ==
    ASSUME FlightInv, Restart
    PROVE  QueryOwned' /\ RefreshOwned'
  <1>1. \A q \in Procs : op'[q] = Idle
    BY DEF Restart
  <1>2. \A o \in 1 .. gen' : /\ heap'[o].quotaFlight = FALSE
                            /\ heap'[o].refreshFlight = FALSE
    <2>1. CASE authFile = {}
      BY <2>1 DEF Restart
    <2>2. CASE authFile # {}
      <3> DEFINE raw == CHOOSE r \in authFile : TRUE
                 a == NewAccount(raw, 1, SavedGuard(raw))
      <3>1. heap' = [BlankHeap EXCEPT ![1] = a] /\ gen' = 1
        BY <2>2 DEF Restart
      <3>2. a.quotaFlight = FALSE /\ a.refreshFlight = FALSE
        BY DEF NewAccount
      <3> HIDE DEF a
      <3>3. 1 \in Objs /\ 1 .. 1 = {1}
        BY StoreAssumption DEF Objs
      <3>4. heap'[1] = a
        BY <3>1, <3>3, BlankHeapType
      <3>5. QED
        BY <3>1, <3>2, <3>3, <3>4
    <2>3. QED
      BY <2>1, <2>2
  <1>3. \A q \in Procs : op'[q].pc \notin QuotaPCs /\ op'[q].pc \notin RefreshPCs
    BY <1>1 DEF Idle, QuotaPCs, RefreshPCs
  <1>4. QED
    BY <1>2, <1>3 DEF QueryOwned, RefreshOwned, Queries, Refreshing

LEMMA StillFlights ==
    ASSUME FlightInv, heap' = heap, gen' = gen, op' = op
    PROVE  QueryOwned' /\ RefreshOwned'
  <1>1. QueriesKept /\ RefreshesKept
    BY DEF QueriesKept, RefreshesKept, Queries, Refreshing
  <1>2. QED
    BY <1>1, QueriesStay, RefreshesStay DEF FlightInv

LEMMA FlightNext ==
    ASSUME FlightInv, [Next]_vars
    PROVE  FlightInv'
  <1> SUFFICES QueryOwned' /\ RefreshOwned'
    BY NextInv DEF FlightInv
  <1>1. ASSUME NEW p \in Procs, Begin(p) PROVE QueryOwned' /\ RefreshOwned'
    BY <1>1, ImportBeginFlights, UpdateBeginFlights, DeleteBeginFlights,
       QuotaBeginFlights, RefreshBeginFlights DEF Begin
  <1>2. ASSUME NEW p \in Procs, Step(p) PROVE QueryOwned' /\ RefreshOwned'
    BY <1>2, ImportWriteFlights, ImportCommitFlights, UpdateWriteFlights,
       UpdateCommitFlights, DeleteFileFlights, DeleteCommitFlights, QuotaReplyFlights,
       QuotaSaveFlights, QuotaSaveFailedFlights, QuotaDoneFlights, RefreshReplyFlights,
       PersistWriteFlights, PersistCommitFlights, RefreshDoneFlights DEF Step
  <1>3. CASE Tick
    <2>1. UNCHANGED heap /\ UNCHANGED gen /\ UNCHANGED op
      BY <1>3 DEF Tick
    <2>2. QED
      BY <2>1, StillFlights
  <1>4. CASE UNCHANGED vars
    <2>1. UNCHANGED heap /\ UNCHANGED gen /\ UNCHANGED op
      BY <1>4 DEF vars
    <2>2. QED
      BY <2>1, StillFlights
  <1>5. CASE Restart
    BY <1>5, RestartFlights
  <1>6. QED
    BY <1>1, <1>2, <1>3, <1>4, <1>5 DEF Next

LEMMA FlightInit == Init => FlightInv
  <1> SUFFICES ASSUME Init PROVE FlightInv
    OBVIOUS
  <1>1. QueryOwned /\ RefreshOwned
    <2>1. (\A q \in Procs : op[q] = Idle) /\ gen = 0
      BY DEF Init
    <2>2. QED
      BY <2>1, QuietIsOwned
  <1>2. QED
    BY <1>1, InitInv DEF FlightInv

\* For any number of goroutines and objects, whatever overlaps, fails or crashes: a
\* quota query or a refresh never runs twice on an account at once, and an account
\* whose mark is up, for which others wait, has somebody at work who will take it down.
THEOREM FlightTheorem == Spec => []FlightHasOwner
  <1>1. FlightInv /\ [Next]_vars => FlightInv'
    BY FlightNext
  <1>2. FlightInv => FlightHasOwner
    BY OwnedBoth DEF FlightInv
  <1>3. QED
    BY <1>1, <1>2, FlightInit, PTL DEF Spec

-----------------------------------------------------------------------------
(***************************************************************************)
(* What a restart finds.  Two goroutines that write the same               *)
(* credential can leave an older document behind (the run stale_write), so *)
(* these theorems say when that cannot happen: operations one at a time,   *)
(* or any number at once as long as none of them is an update or a refresh,*)
(* the only ones that write a document they composed before taking the     *)
(* mutex.                                                                  *)
(***************************************************************************)
Alone == \A p, q \in Procs : p = q
Exclusive == Alone \/ Ops \cap {"update", "refresh"} = {}

\* Between the write of the credential file and the change in memory.
CommitPCs == {"importCommit", "updateCommit", "persistCommit", "deleteCommit"}
UpdatePCs == {"updateWrite", "updateCommit"}
PersistPCs == {"persistWrite", "persistCommit"}
LatePCs == UpdatePCs \cup PersistPCs \cup {"refreshWait"}
ImportPCs == {"importWrite", "importCommit"}
SavePCs == {"quotaSave", "quotaSaveFailed"}

\* The file is about the account in memory, and says the same of its controls.
Describes(r) == cur # 0 /\ r.ident = heap[cur].raw.ident /\ r.off = heap[cur].off

OneDocument == \A r, s \in authFile : r = s

FileIsAccount ==
    (\A p \in Procs : op[p].pc \notin CommitPCs) => \A r \in authFile : Describes(r)

FileIsWritten ==
    \A p \in Procs : op[p].pc \in CommitPCs =>
      \A r \in authFile : op[p].pc # "deleteCommit" /\ r = op[p].raw

LateIsCurrent ==
    \A p \in Procs : op[p].pc \in LatePCs =>
      /\ Ops \cap {"update", "refresh"} # {}
      /\ op[p].obj = cur /\ op[p].epoch = heap[cur].epoch
      /\ op[p].raw.ident = heap[cur].raw.ident
      /\ op[p].pc \in UpdatePCs => op[p].raw.off = op[p].off
      /\ op[p].pc \in PersistPCs => op[p].raw.off = heap[cur].off

OneControl == cur # 0 => heap[cur].raw.off = heap[cur].off

DurableInv == /\ OneDocument
              /\ FileIsAccount
              /\ FileIsWritten
              /\ LateIsCurrent
              /\ OneControl

\* What the state file says of a credential.
SavedBlock(i) == \E s \in stateFile : s.ident = i /\ s.guard.blocked

Blocking(g) == g.reason = "budget" => g.blocked

BudgetBlocks ==
    /\ cur # 0 => Blocking(heap[cur].guard)
    /\ \A p \in Procs : op[p].pc \in ImportPCs => Blocking(op[p].guard)
    /\ \A s \in stateFile : Blocking(s.guard)

OneState == \A r, s \in stateFile : r = s

SaveIsCurrent ==
    \A p \in Procs : op[p].pc \in SavePCs =>
      /\ op[p].obj = cur /\ op[p].epoch = heap[cur].epoch
      /\ op[p].raw.ident = heap[cur].raw.ident
      /\ op[p].guard = heap[cur].guard

BlockIsSaved ==
    /\ cur # 0 /\ heap[cur].guard.reason = "budget"
    /\ \A p \in Procs : op[p].pc \notin SavePCs
    => SavedBlock(heap[cur].raw.ident)

ImportBlockIsSaved ==
    \A p \in Procs : op[p].pc \in ImportPCs /\ op[p].guard.reason = "budget" =>
                       SavedBlock(op[p].raw.ident)

ImportInherits ==
    \A p \in Procs : /\ op[p].pc \in ImportPCs /\ cur # 0
                     /\ op[p].raw.ident = heap[cur].raw.ident
                     => op[p].guard = heap[cur].guard

BlockInv == /\ BudgetBlocks
            /\ OneState
            /\ SaveIsCurrent
            /\ BlockIsSaved
            /\ ImportBlockIsSaved

-----------------------------------------------------------------------------
\* The locals of a goroutine that only moves on, or has left its operation.
LEMMA MovedFields ==
    ASSUME StoreInv, NEW p \in Procs, NEW pc \in PCs
    PROVE  LET r == [op[p] EXCEPT !.pc = pc] IN
           /\ r.pc = pc /\ r.obj = op[p].obj /\ r.raw = op[p].raw
           /\ r.epoch = op[p].epoch /\ r.off = op[p].off /\ r.guard = op[p].guard
  BY Typing DEF Op

LEMMA LandedFields ==
    ASSUME NEW p \in Procs, NEW pc
    PROVE  Landing(p, pc).pc = pc /\ Idle.pc = "idle"
  BY DEF Landing, Idle

LEMMA OthersStay ==
    ASSUME StoreInv, NEW p \in Procs, NEW r, op' = [op EXCEPT ![p] = r]
    PROVE  \A q \in Procs : op'[q] = IF q = p THEN r ELSE op[q]
  BY Typing

LEMMA PCSets ==
    /\ CommitPCs \subseteq HolderPCs
    /\ ImportPCs = {"importWrite", "importCommit"}
    /\ {"idle", "importWrite", "deleteFile", "quotaWait", "quotaSave", "quotaSaveFailed",
        "quotaDone", "refreshDone"} \cap (CommitPCs \cup LatePCs) = {}
    /\ {"updateWrite", "refreshWait", "persistWrite"} \cap CommitPCs = {}
    /\ {"importCommit", "deleteCommit"} \cap LatePCs = {}
  BY DEF CommitPCs, HolderPCs, ImportPCs, LatePCs, UpdatePCs, PersistPCs

\* A goroutine that has just found the mutex free, or holds it, is the only one
\* between a write and its commit.
LEMMA NoOtherCommits ==
    ASSUME StoreInv, NEW p \in Procs, persistMu \in {p, Nobody}
    PROVE  \A q \in Procs \ {p} : op[q].pc \notin CommitPCs
  BY PCSets, StoreAssumption DEF StoreInv, HolderHasMutex

\* A goroutine that is composing a document is alone.
LEMMA LateIsAlone ==
    ASSUME Exclusive, DurableInv, NEW p \in Procs, op[p].pc \in LatePCs
    PROVE  Alone
  BY DEF Exclusive, DurableInv, LateIsCurrent

\* Steps that leave the files alone and neither enter nor leave a commit.
LEMMA QuietStep ==
    ASSUME StoreInv, DurableInv, NEW p \in Procs, NEW r,
           op' = [op EXCEPT ![p] = r],
           op[p].pc \notin CommitPCs, r.pc \notin CommitPCs,
           authFile' = authFile, cur' = cur,
           cur # 0 => /\ heap'[cur].raw = heap[cur].raw
                      /\ heap'[cur].off = heap[cur].off
                      /\ heap'[cur].epoch = heap[cur].epoch,
           r.pc \in LatePCs =>
             /\ Ops \cap {"update", "refresh"} # {}
             /\ cur # 0 /\ r.obj = cur /\ r.epoch = heap[cur].epoch
             /\ r.raw.ident = heap[cur].raw.ident
             /\ r.pc \in UpdatePCs => r.raw.off = r.off
             /\ r.pc \in PersistPCs => r.raw.off = heap[cur].off
    PROVE  DurableInv'
  <1>1. \A q \in Procs : op'[q] = IF q = p THEN r ELSE op[q]
    BY OthersStay
  <1>2. OneDocument' /\ OneControl'
    BY DEF DurableInv, OneDocument, OneControl
  <1>3. FileIsAccount'
    <2>1. \A x : Describes(x) => Describes(x)'
      BY DEF Describes
    <2>2. (\A q \in Procs : op'[q].pc \notin CommitPCs) =>
            \A q \in Procs : op[q].pc \notin CommitPCs
      BY <1>1
    <2>3. QED
      BY <2>1, <2>2 DEF DurableInv, FileIsAccount
  <1>4. FileIsWritten'
    BY <1>1 DEF DurableInv, FileIsWritten
  <1>5. LateIsCurrent'
    <2> SUFFICES ASSUME NEW q \in Procs, op'[q].pc \in LatePCs
                 PROVE  /\ Ops \cap {"update", "refresh"} # {}
                        /\ op'[q].obj = cur /\ op'[q].epoch = heap'[cur].epoch
                        /\ op'[q].raw.ident = heap'[cur].raw.ident
                        /\ op'[q].pc \in UpdatePCs => op'[q].raw.off = op'[q].off
                        /\ op'[q].pc \in PersistPCs => op'[q].raw.off = heap'[cur].off
      BY DEF LateIsCurrent
    <2>1. CASE q = p
      BY <1>1, <2>1
    <2>2. CASE q # p
      <3>1. op'[q] = op[q] /\ op[q].pc \in LatePCs
        BY <1>1, <2>2
      <3>2. op[q].obj \in 1 .. gen
        BY <3>1 DEF StoreInv, WorksOnObject, LatePCs, UpdatePCs, PersistPCs
      <3>3. op[q].obj = cur
        BY <3>1 DEF DurableInv, LateIsCurrent
      <3>4. cur # 0
        BY <3>2, <3>3 DEF StoreInv, TypeOK
      <3>5. QED
        BY <3>1, <3>4 DEF DurableInv, LateIsCurrent
    <2>3. QED
      BY <2>1, <2>2
  <1>6. QED
    BY <1>2, <1>3, <1>4, <1>5 DEF DurableInv

\* Steps that write or remove the credential file, under the mutex.
LEMMA WritingStep ==
    ASSUME StoreInv, DurableInv, NEW p \in Procs, NEW r,
           op' = [op EXCEPT ![p] = r],
           persistMu \in {p, Nobody},
           UNCHANGED <<heap, gen, cur>>,
           \/ r.pc = "deleteCommit" /\ authFile' = {}
           \/ r.pc \in CommitPCs \ {"deleteCommit"} /\ authFile' = {r.raw},
           r.pc \in LatePCs => op[p].pc \in LatePCs /\ r.raw = op[p].raw
             /\ r.obj = op[p].obj /\ r.epoch = op[p].epoch /\ r.off = op[p].off
             /\ (r.pc \in UpdatePCs <=> op[p].pc \in UpdatePCs)
             /\ (r.pc \in PersistPCs <=> op[p].pc \in PersistPCs)
    PROVE  DurableInv'
  <1>1. \A q \in Procs : op'[q] = IF q = p THEN r ELSE op[q]
    BY Typing
  <1>2. r.pc \in CommitPCs
    BY DEF CommitPCs
  <1>3. OneDocument' /\ OneControl'
    BY DEF DurableInv, OneDocument, OneControl
  <1>4. FileIsAccount'
    BY <1>1, <1>2 DEF FileIsAccount
  <1>5. FileIsWritten'
    BY <1>1, NoOtherCommits DEF FileIsWritten
  <1>6. LateIsCurrent'
    BY <1>1 DEF DurableInv, LateIsCurrent
  <1>7. QED
    BY <1>3, <1>4, <1>5, <1>6 DEF DurableInv

\* Steps that bring the account in memory into line with the file.
LEMMA CommitStep ==
    ASSUME StoreInv, DurableInv, NEW p \in Procs, NEW r,
           op' = [op EXCEPT ![p] = r],
           r.pc \notin CommitPCs \cup LatePCs,
           \A q \in Procs \ {p} : op[q].pc \notin LatePCs,
           authFile' = authFile,
           \A x \in authFile : Describes(x)',
           OneControl'
    PROVE  DurableInv'
  <1>1. \A q \in Procs : op'[q] = IF q = p THEN r ELSE op[q]
    BY OthersStay
  <1>2. OneDocument'
    BY DEF DurableInv, OneDocument
  <1>3. FileIsAccount'
    BY DEF FileIsAccount
  <1>4. FileIsWritten'
    BY <1>1 DEF DurableInv, FileIsWritten
  <1>5. LateIsCurrent'
    BY <1>1 DEF LateIsCurrent
  <1>6. QED
    BY <1>2, <1>3, <1>4, <1>5 DEF DurableInv

-----------------------------------------------------------------------------
\* The locals of a goroutine that has just started an operation.
LEMMA StartedFields ==
    ASSUME NEW pc, NEW obj, NEW epoch, NEW raw, NEW off, NEW guard
    PROVE  /\ LET r == [Idle EXCEPT !.pc = pc, !.obj = obj, !.raw = raw,
                                    !.epoch = epoch, !.guard = guard]
              IN r.pc = pc /\ r.raw = raw /\ r.guard = guard
           /\ LET r == [Idle EXCEPT !.pc = pc, !.obj = obj, !.epoch = epoch,
                                    !.raw = raw, !.off = off]
              IN /\ r.pc = pc /\ r.obj = obj /\ r.epoch = epoch /\ r.raw = raw
                 /\ r.off = off
           /\ LET r == [Idle EXCEPT !.pc = pc, !.obj = obj, !.epoch = epoch,
                                    !.raw = raw]
              IN r.pc = pc /\ r.obj = obj /\ r.epoch = epoch /\ r.raw = raw
           /\ LET r == [Idle EXCEPT !.pc = pc, !.obj = obj, !.epoch = epoch]
              IN r.pc = pc /\ r.obj = obj
           /\ LET r == [Idle EXCEPT !.pc = pc, !.obj = obj]
              IN r.pc = pc /\ r.obj = obj
  BY DEF Idle

LEMMA ImportBeginDurable ==
    ASSUME StoreInv, DurableInv, NEW p \in Procs, ImportBegin(p)
    PROVE  DurableInv'
  <1>1. PICK i \in Idents, off \in Controls, mark \in Marks :
          op' = [op EXCEPT ![p] =
                  [Idle EXCEPT !.pc = "importWrite", !.obj = cur,
                     !.raw = [ident |-> i, ver |-> 0, off |-> off, mark |-> mark],
                     !.epoch = IF cur = 0 THEN 1 ELSE heap[cur].epoch + 1,
                     !.guard = InheritedGuard([ident |-> i, ver |-> 0,
                                               off |-> off, mark |-> mark])]]
    BY DEF ImportBegin
  <1> DEFINE raw == [ident |-> i, ver |-> 0, off |-> off, mark |-> mark]
             epoch == IF cur = 0 THEN 1 ELSE heap[cur].epoch + 1
             guard == InheritedGuard(raw)
             r == [Idle EXCEPT !.pc = "importWrite", !.obj = cur, !.raw = raw,
                               !.epoch = epoch, !.guard = guard]
  <1>2. op' = [op EXCEPT ![p] = r]
    BY <1>1
  <1> HIDE DEF raw, epoch, guard
  <1>3. r.pc = "importWrite"
    BY StartedFields
  <1> HIDE DEF r
  <1>4. authFile' = authFile /\ cur' = cur /\ heap' = heap /\ op[p].pc = "idle"
    BY DEF ImportBegin, disk
  <1>5. QED
    BY <1>2, <1>3, <1>4, PCSets, QuietStep

LEMMA ImportWriteDurable ==
    ASSUME StoreInv, DurableInv, NEW p \in Procs, ImportWrite(p)
    PROVE  DurableInv'
  <1>1. persistMu = p /\ op[p].pc = "importWrite" /\ UNCHANGED <<heap, gen, cur>>
    BY DEF ImportWrite, StoreInv, HolderHasMutex, HolderPCs
  <1>2. CASE authFile' = {op[p].raw} /\ Goto(p, "importCommit")
    <2> DEFINE r == [op[p] EXCEPT !.pc = "importCommit"]
    <2>1. r.pc = "importCommit" /\ r.raw = op[p].raw
      <3>1. "importCommit" \in PCs
        BY DEF PCs
      <3>2. QED
        BY <3>1, MovedFields
    <2>2. op' = [op EXCEPT ![p] = r]
      BY <1>2 DEF Goto
    <2> HIDE DEF r
    <2>3. r.pc \in CommitPCs \ {"deleteCommit"} /\ r.pc \notin LatePCs
      BY <2>1, PCSets DEF CommitPCs
    <2>4. QED
      BY <1>1, <1>2, <2>1, <2>2, <2>3, WritingStep
  <1>3. CASE Return(p) /\ UNCHANGED authFile
    BY <1>1, <1>3, PCSets, LandedFields, QuietStep DEF Return
  <1>4. QED
    BY <1>2, <1>3 DEF ImportWrite

\* A goroutine that leaves the mutex after a commit was alone, or nobody is
\* composing a document.
LEMMA NobodyElseIsLate ==
    ASSUME Exclusive, DurableInv, NEW p \in Procs, NEW q \in Procs \ {p}
    PROVE  op[q].pc \notin LatePCs
  BY LateIsAlone DEF Alone

LEMMA ImportCommitDurable ==
    ASSUME Exclusive, StoreInv, DurableInv, NEW p \in Procs, ImportCommit(p)
    PROVE  DurableInv'
  <1>1. op[p].pc = "importCommit" /\ op[p].obj = cur /\ gen < MaxGen
    BY DEF ImportCommit, StoreInv, ImportIsCurrent
  <1> DEFINE fresh == NewAccount(op[p].raw, op[p].epoch, op[p].guard)
  <1>2. /\ heap' = [o \in Objs |-> IF o = gen + 1 THEN fresh
                                  ELSE IF o = cur THEN Retire(heap[o]) ELSE heap[o]]
        /\ cur' = gen + 1 /\ authFile' = authFile
        /\ op' = [op EXCEPT ![p] = Idle]
    BY <1>1 DEF ImportCommit, Return, disk
  <1>3. gen + 1 \in Objs /\ gen + 1 # 0
    BY <1>1, StoreAssumption DEF StoreInv, TypeOK, Objs
  <1>4. fresh.raw = op[p].raw /\ fresh.off = op[p].raw.off
    BY DEF NewAccount
  <1> HIDE DEF fresh
  <1>5. heap'[cur'] = fresh
    BY <1>2, <1>3
  <1>6. \A x \in authFile : x = op[p].raw
    BY <1>1 DEF DurableInv, FileIsWritten, CommitPCs
  <1>7. \A x \in authFile : Describes(x)'
    BY <1>2, <1>3, <1>4, <1>5, <1>6 DEF Describes
  <1>8. OneControl'
    BY <1>4, <1>5 DEF OneControl
  <1>9. Idle.pc \notin CommitPCs \cup LatePCs
    BY PCSets, LandedFields
  <1>10. \A q \in Procs \ {p} : op[q].pc \notin LatePCs
    BY NobodyElseIsLate
  <1>11. QED
    BY <1>2, <1>7, <1>8, <1>9, <1>10, CommitStep

LEMMA UpdateBeginDurable ==
    ASSUME StoreInv, DurableInv, NEW p \in Procs, UpdateBegin(p)
    PROVE  DurableInv'
  <1>1. PICK given \in BOOLEAN, value \in Controls :
          op' = [op EXCEPT ![p] =
                  [Idle EXCEPT !.pc = "updateWrite", !.obj = cur,
                     !.epoch = heap[cur].epoch,
                     !.raw = [heap[cur].raw EXCEPT !.off = IF given THEN value ELSE @],
                     !.off = IF given THEN value ELSE heap[cur].off]]
    BY DEF UpdateBegin
  <1> DEFINE raw == [heap[cur].raw EXCEPT !.off = IF given THEN value ELSE @]
             off == IF given THEN value ELSE heap[cur].off
             epoch == heap[cur].epoch
             r == [Idle EXCEPT !.pc = "updateWrite", !.obj = cur, !.epoch = epoch,
                               !.raw = raw, !.off = off]
  <1>2. op' = [op EXCEPT ![p] = r]
    BY <1>1
  <1>3. /\ cur \in 1 .. gen /\ cur # 0 /\ "update" \in Ops /\ op[p].pc = "idle"
        /\ authFile' = authFile /\ cur' = cur /\ heap' = heap
    BY Typing DEF UpdateBegin, disk
  <1>4. raw.ident = heap[cur].raw.ident /\ raw.off = off
    <2>1. heap[cur].raw \in Raw /\ heap[cur].raw.off = heap[cur].off
      BY <1>3, Typing DEF DurableInv, OneControl
    <2>2. QED
      BY <2>1 DEF Raw
  <1> HIDE DEF raw, off
  <1>5. r.pc = "updateWrite" /\ r.obj = cur /\ r.epoch = epoch /\ r.raw = raw
        /\ r.off = off
    BY StartedFields
  <1> HIDE DEF r
  <1>6. r.pc \notin PersistPCs /\ r.pc \notin CommitPCs
    BY <1>5, PCSets DEF PersistPCs
  <1>7. QED
    BY <1>2, <1>3, <1>4, <1>5, <1>6, PCSets, QuietStep

LEMMA WriteCredentialDurable ==
    ASSUME StoreInv, DurableInv, NEW p \in Procs,
           NEW from, NEW done, NEW failed,
           \/ from = "updateWrite" /\ done = "updateCommit"
           \/ from = "persistWrite" /\ done = "persistCommit",
           failed.pc \in {"idle", "refreshDone"},
           WriteCredential(p, from, done, failed)
    PROVE  DurableInv'
  <1>1. /\ op[p].pc = from /\ persistMu = Nobody
        /\ UNCHANGED <<heap, gen, cur>>
    BY DEF WriteCredential
  <1>2. CASE authFile' = {op[p].raw} /\ Goto(p, done)
    <2> DEFINE r == [op[p] EXCEPT !.pc = done]
    <2>1. done \in PCs
      BY DEF PCs
    <2>2. /\ r.pc = done /\ r.raw = op[p].raw /\ r.obj = op[p].obj
          /\ r.epoch = op[p].epoch /\ r.off = op[p].off
      BY <2>1, MovedFields
    <2>3. op' = [op EXCEPT ![p] = r]
      BY <1>2 DEF Goto
    <2> HIDE DEF r
    <2>4. /\ r.pc \in CommitPCs \ {"deleteCommit"}
          /\ op[p].pc \in LatePCs
          /\ r.pc \in UpdatePCs <=> op[p].pc \in UpdatePCs
          /\ r.pc \in PersistPCs <=> op[p].pc \in PersistPCs
      BY <1>1, <2>2 DEF CommitPCs, LatePCs, UpdatePCs, PersistPCs
    <2>5. QED
      BY <1>1, <1>2, <2>2, <2>3, <2>4, WritingStep
  <1>3. CASE op' = [op EXCEPT ![p] = failed] /\ UNCHANGED authFile
    <2>1. op[p].pc \notin CommitPCs /\ failed.pc \notin CommitPCs
          /\ failed.pc \notin LatePCs
      BY <1>1, PCSets
    <2>2. QED
      BY <1>1, <1>3, <2>1, QuietStep
  <1>4. QED
    BY <1>2, <1>3 DEF WriteCredential

LEMMA UpdateWriteDurable ==
    ASSUME StoreInv, DurableInv, NEW p \in Procs, UpdateWrite(p)
    PROVE  DurableInv'
  BY LandedFields, WriteCredentialDurable DEF UpdateWrite

LEMMA PersistWriteDurable ==
    ASSUME StoreInv, DurableInv, NEW p \in Procs, PersistWrite(p)
    PROVE  DurableInv'
  BY LandedFields, WriteCredentialDurable DEF PersistWrite

\* What is being written or saved for an object is still wanted: the object is
\* the one in the map and has not been replaced.
LEMMA CurrentWhenMapped ==
    ASSUME StoreInv, NEW p \in Procs, op[p].obj = cur, op[p].epoch = heap[cur].epoch,
           op[p].obj \in 1 .. gen
    PROVE  cur \in Objs /\ cur # 0 /\ Current(p)
  BY Typing DEF StoreInv, OnlyMappedIsLive, Current

LEMMA CommittedDocument ==
    ASSUME StoreInv, DurableInv, NEW p \in Procs,
           op[p].pc \in {"updateCommit", "persistCommit"}
    PROVE  /\ op[p].obj = cur /\ cur \in Objs /\ cur # 0 /\ Current(p)
           /\ op[p].raw.ident = heap[cur].raw.ident
           /\ op[p].pc = "updateCommit" => op[p].raw.off = op[p].off
           /\ op[p].pc = "persistCommit" => op[p].raw.off = heap[cur].off
           /\ \A x \in authFile : x = op[p].raw
  <1>1. op[p].pc \in LatePCs /\ op[p].pc \in CommitPCs /\ op[p].obj \in 1 .. gen
        /\ (op[p].pc = "updateCommit" => op[p].pc \in UpdatePCs)
        /\ (op[p].pc = "persistCommit" => op[p].pc \in PersistPCs)
    BY DEF LatePCs, CommitPCs, UpdatePCs, PersistPCs, StoreInv, WorksOnObject
  <1>2. /\ op[p].obj = cur /\ op[p].epoch = heap[cur].epoch
        /\ op[p].raw.ident = heap[cur].raw.ident
        /\ op[p].pc \in UpdatePCs => op[p].raw.off = op[p].off
        /\ op[p].pc \in PersistPCs => op[p].raw.off = heap[cur].off
    BY <1>1 DEF DurableInv, LateIsCurrent
  <1>3. cur \in Objs /\ cur # 0 /\ Current(p)
    BY <1>1, <1>2, CurrentWhenMapped
  <1>4. \A x \in authFile : x = op[p].raw
    BY <1>1 DEF DurableInv, FileIsWritten
  <1>5. QED
    BY <1>1, <1>2, <1>3, <1>4

LEMMA UpdateCommitDurable ==
    ASSUME Exclusive, StoreInv, DurableInv, NEW p \in Procs, UpdateCommit(p)
    PROVE  DurableInv'
  <1>1. op[p].pc = "updateCommit"
    BY DEF UpdateCommit
  <1>2. /\ op[p].obj = cur /\ cur \in Objs /\ cur # 0 /\ Current(p)
        /\ op[p].raw.off = op[p].off
        /\ \A x \in authFile : x = op[p].raw
    BY <1>1, CommittedDocument
  <1> DEFINE b == [heap[cur] EXCEPT !.off = op[p].off, !.raw = op[p].raw]
  <1>3. /\ heap' = [heap EXCEPT ![cur] = b] /\ cur' = cur /\ authFile' = authFile
        /\ op' = [op EXCEPT ![p] = Idle]
    BY <1>2 DEF UpdateCommit, Return, disk
  <1>4. b.off = op[p].off /\ b.raw = op[p].raw
    BY <1>2 DEF StoreInv, TypeOK, Account
  <1> HIDE DEF b
  <1>5. heap'[cur'] = b
    BY <1>2, <1>3 DEF StoreInv, TypeOK
  <1>6. (\A x \in authFile : Describes(x)') /\ OneControl'
    BY <1>2, <1>3, <1>4, <1>5 DEF Describes, OneControl
  <1>7. Idle.pc \notin CommitPCs \cup LatePCs
    BY PCSets, LandedFields
  <1>8. \A q \in Procs \ {p} : op[q].pc \notin LatePCs
    BY NobodyElseIsLate
  <1>9. QED
    BY <1>3, <1>6, <1>7, <1>8, CommitStep

LEMMA PersistCommitDurable ==
    ASSUME Exclusive, StoreInv, DurableInv, NEW p \in Procs, PersistCommit(p)
    PROVE  DurableInv'
  <1>1. op[p].pc = "persistCommit"
    BY DEF PersistCommit
  <1>2. /\ op[p].obj = cur /\ cur \in Objs /\ cur # 0 /\ Current(p)
        /\ op[p].raw.off = heap[cur].off
        /\ \A x \in authFile : x = op[p].raw
    BY <1>1, CommittedDocument
  <1> DEFINE b == [heap[cur] EXCEPT !.raw = op[p].raw, !.ver = op[p].raw.ver]
             r == Landing(p, "refreshDone")
  <1>3. /\ heap' = [heap EXCEPT ![cur] = b] /\ cur' = cur /\ authFile' = authFile
        /\ op' = [op EXCEPT ![p] = r]
    BY <1>2 DEF PersistCommit, Land, disk
  <1>4. b.off = heap[cur].off /\ b.raw = op[p].raw
    BY <1>2 DEF StoreInv, TypeOK, Account
  <1> HIDE DEF b
  <1>5. heap'[cur'] = b
    BY <1>2, <1>3 DEF StoreInv, TypeOK
  <1>6. (\A x \in authFile : Describes(x)') /\ OneControl'
    BY <1>2, <1>3, <1>4, <1>5 DEF Describes, OneControl
  <1>7. r.pc \notin CommitPCs \cup LatePCs
    BY PCSets, LandedFields
  <1> HIDE DEF r
  <1>8. \A q \in Procs \ {p} : op[q].pc \notin LatePCs
    BY NobodyElseIsLate
  <1>9. QED
    BY <1>3, <1>6, <1>7, <1>8, CommitStep

LEMMA DeleteBeginDurable ==
    ASSUME StoreInv, DurableInv, NEW p \in Procs, DeleteBegin(p)
    PROVE  DurableInv'
  <1> DEFINE r == [Idle EXCEPT !.pc = "deleteFile", !.obj = cur]
  <1>1. op' = [op EXCEPT ![p] = r] /\ op[p].pc = "idle"
        /\ UNCHANGED <<heap, cur, authFile>>
    BY DEF DeleteBegin, disk
  <1>2. r.pc = "deleteFile"
    BY StartedFields
  <1> HIDE DEF r
  <1>3. QED
    BY <1>1, <1>2, PCSets, QuietStep

LEMMA DeleteFileDurable ==
    ASSUME StoreInv, DurableInv, NEW p \in Procs, DeleteFile(p)
    PROVE  DurableInv'
  <1>1. op[p].pc = "deleteFile" /\ persistMu = Nobody /\ UNCHANGED <<heap, gen, cur>>
    BY DEF DeleteFile
  <1>2. CASE /\ authFile' = {}
             /\ op' = [op EXCEPT ![p].pc = "deleteCommit",
                                 ![p].epoch = heap[op[p].obj].epoch]
    <2> DEFINE r == [op[p] EXCEPT !.pc = "deleteCommit",
                                  !.epoch = heap[op[p].obj].epoch]
    <2>1. op' = [op EXCEPT ![p] = r]
      BY <1>2
    <2>2. r.pc = "deleteCommit"
      BY Typing DEF Op
    <2> HIDE DEF r
    <2>3. r.pc \notin LatePCs
      BY <2>2, PCSets
    <2>4. QED
      BY <1>1, <1>2, <2>1, <2>2, <2>3, WritingStep
  <1>3. CASE Return(p) /\ UNCHANGED authFile
    BY <1>1, <1>3, PCSets, LandedFields, QuietStep DEF Return
  <1>4. QED
    BY <1>2, <1>3 DEF DeleteFile

LEMMA DeleteCommitDurable ==
    ASSUME Exclusive, StoreInv, DurableInv, NEW p \in Procs, DeleteCommit(p)
    PROVE  DurableInv'
  <1>1. op[p].pc = "deleteCommit" /\ op' = [op EXCEPT ![p] = Idle]
        /\ authFile' = authFile
    BY DEF DeleteCommit, Return
  <1>2. authFile = {}
    BY <1>1 DEF DurableInv, FileIsWritten, CommitPCs
  <1>3. OneControl'
    BY DEF DeleteCommit, DurableInv, OneControl
  <1>4. Idle.pc \notin CommitPCs \cup LatePCs
    BY PCSets, LandedFields
  <1>5. \A q \in Procs \ {p} : op[q].pc \notin LatePCs
    BY NobodyElseIsLate
  <1>6. QED
    BY <1>1, <1>2, <1>3, <1>4, <1>5, CommitStep

\* Two objects that a restart would not tell apart.
SameDocument(a, b) == b.raw = a.raw /\ b.off = a.off /\ b.epoch = a.epoch

\* A quota query or a refresh starts or ends: only a flight mark moves.
LEMMA FlightEffect ==
    ASSUME StoreInv, NEW x, NEW flag,
           \/ heap' = [heap EXCEPT ![x].quotaFlight = flag]
           \/ heap' = [heap EXCEPT ![x].refreshFlight = flag]
    PROVE  \A o \in Objs : /\ SameDocument(heap[o], heap'[o])
                           /\ heap'[o].guard = heap[o].guard
  <1> SUFFICES ASSUME NEW o \in Objs
               PROVE  SameDocument(heap[o], heap'[o]) /\ heap'[o].guard = heap[o].guard
    OBVIOUS
  <1>1. heap \in [Objs -> Account] /\ heap[o] \in Account
    BY DEF StoreInv, TypeOK
  <1>2. \/ heap'[o] = heap[o]
        \/ heap'[o] = [heap[o] EXCEPT !.quotaFlight = flag]
        \/ heap'[o] = [heap[o] EXCEPT !.refreshFlight = flag]
    BY <1>1
  <1>3. QED
    BY <1>1, <1>2 DEF SameDocument, Account

\* A quota answer, or the failure to save it, moves only the guard.
LEMMA GuardEffect ==
    ASSUME StoreInv, NEW x, NEW guard, NEW due,
           \/ heap' = [heap EXCEPT ![x].guard = guard]
           \/ heap' = [heap EXCEPT ![x].nextQuota = due, ![x].guard = guard]
    PROVE  \A o \in Objs : /\ SameDocument(heap[o], heap'[o])
                           /\ heap'[o].guard = IF o = x THEN guard ELSE heap[o].guard
  <1> SUFFICES ASSUME NEW o \in Objs
               PROVE  /\ SameDocument(heap[o], heap'[o])
                      /\ heap'[o].guard = IF o = x THEN guard ELSE heap[o].guard
    OBVIOUS
  <1>1. heap \in [Objs -> Account] /\ heap[o] \in Account
    BY DEF StoreInv, TypeOK
  <1>2. CASE o # x
    <2>1. heap'[o] = heap[o]
      BY <1>1, <1>2
    <2>2. QED
      BY <1>2, <2>1 DEF SameDocument
  <1>3. CASE o = x
    <2>1. \/ heap'[o] = [heap[o] EXCEPT !.guard = guard]
          \/ heap'[o] = [heap[o] EXCEPT !.nextQuota = due, !.guard = guard]
      BY <1>1, <1>3
    <2>2. QED
      BY <1>1, <1>3, <2>1 DEF SameDocument, Account
  <1>4. QED
    BY <1>2, <1>3

LEMMA QuotaBeginDurable ==
    ASSUME StoreInv, DurableInv, NEW p \in Procs, QuotaBegin(p)
    PROVE  DurableInv'
  <1>1. PICK o \in 1 .. gen :
          /\ heap' = [heap EXCEPT ![o].quotaFlight = TRUE]
          /\ op' = [op EXCEPT ![p] = [Idle EXCEPT !.pc = "quotaWait", !.obj = o,
                                                  !.epoch = heap[o].epoch]]
    BY DEF QuotaBegin
  <1> DEFINE epoch == heap[o].epoch
             r == [Idle EXCEPT !.pc = "quotaWait", !.obj = o, !.epoch = epoch]
  <1>2. op' = [op EXCEPT ![p] = r]
    BY <1>1
  <1> HIDE DEF epoch
  <1>3. r.pc = "quotaWait"
    BY StartedFields
  <1> HIDE DEF r
  <1>4. authFile' = authFile /\ cur' = cur /\ op[p].pc = "idle"
    BY DEF QuotaBegin, disk
  <1>5. cur # 0 => SameDocument(heap[cur], heap'[cur])
    BY <1>1, FlightEffect, Typing
  <1>6. QED
    BY <1>2, <1>3, <1>4, <1>5, PCSets, QuietStep DEF SameDocument

\* The answer is taken: r are the locals the goroutine goes on with, and guard is
\* what the object is left with.
Answered(p, r, guard) ==
    \E state \in {"fail", "unknown", "allow", "block"}, reset \in Resets :
      /\ Current(p)
      /\ guard = IF state = "fail" THEN heap[op[p].obj].guard
                 ELSE GuardAfter(heap[op[p].obj].guard, state, reset, now)
      /\ heap' = [heap EXCEPT ![op[p].obj].nextQuota = now + 1,
                              ![op[p].obj].guard = guard]
      /\ \/ r.pc = "quotaDone" /\ state = "fail"
         \/ /\ r.pc = "quotaSave" /\ r.obj = op[p].obj
            /\ r.epoch = op[p].epoch /\ r.guard = guard
            /\ r.raw = heap[op[p].obj].raw

\* A quota answer either changes nothing, or sets the guard of an object that is
\* still current and, unless it failed, goes on to save it.
LEMMA QuotaReplyShape ==
    ASSUME StoreInv, NEW p \in Procs, QuotaReply(p)
    PROVE  \E r, guard :
             /\ op' = [op EXCEPT ![p] = r]
             /\ (heap' = heap /\ r.pc = "quotaDone") \/ Answered(p, r, guard)
  <1>1. PICK state \in {"fail", "unknown", "allow", "block"}, reset \in Resets :
          LET o == op[p].obj
              guard == IF state = "fail" THEN heap[o].guard
                       ELSE GuardAfter(heap[o].guard, state, reset, now)
          IN IF Current(p)
             THEN /\ heap' = [heap EXCEPT ![o].nextQuota = now + 1, ![o].guard = guard]
                  /\ IF state = "fail" THEN Land(p, "quotaDone")
                     ELSE op' = [op EXCEPT ![p].pc = "quotaSave", ![p].guard = guard,
                                           ![p].raw = heap[o].raw]
             ELSE Land(p, "quotaDone") /\ UNCHANGED heap
    BY DEF QuotaReply
  <1> DEFINE landed == Landing(p, "quotaDone")
             guard == IF state = "fail" THEN heap[op[p].obj].guard
                      ELSE GuardAfter(heap[op[p].obj].guard, state, reset, now)
             raw == heap[op[p].obj].raw
             saving == [op[p] EXCEPT !.pc = "quotaSave", !.guard = guard, !.raw = raw]
  <1>2. landed.pc = "quotaDone"
    BY LandedFields
  <1>3. CASE ~Current(p)
    <2>1. op' = [op EXCEPT ![p] = landed] /\ heap' = heap
      BY <1>1, <1>3 DEF Land
    <2> HIDE DEF landed
    <2>2. QED
      BY <1>2, <2>1
  <1>4. CASE Current(p)
    <2>1. heap' = [heap EXCEPT ![op[p].obj].nextQuota = now + 1,
                               ![op[p].obj].guard = guard]
      BY <1>1, <1>4
    <2>2. CASE state = "fail"
      <3>1. op' = [op EXCEPT ![p] = landed]
        BY <1>1, <1>4, <2>2 DEF Land
      <3> HIDE DEF landed
      <3>2. QED
        BY <1>2, <1>4, <2>1, <2>2, <3>1 DEF Answered
    <2>3. CASE state # "fail"
      <3>1. op' = [op EXCEPT ![p] = saving]
        BY <1>1, <1>4, <2>3
      <3>2. raw = heap[op[p].obj].raw
            /\ guard = IF state = "fail" THEN heap[op[p].obj].guard
                       ELSE GuardAfter(heap[op[p].obj].guard, state, reset, now)
        OBVIOUS
      <3> HIDE DEF guard, raw
      <3>3. /\ saving.pc = "quotaSave" /\ saving.obj = op[p].obj
            /\ saving.epoch = op[p].epoch /\ saving.guard = guard /\ saving.raw = raw
        BY Typing DEF Op
      <3> HIDE DEF saving
      <3>4. QED
        BY <1>4, <2>1, <3>1, <3>2, <3>3 DEF Answered
    <2>4. QED
      BY <2>2, <2>3
  <1>5. QED
    BY <1>3, <1>4

LEMMA QuotaReplyDurable ==
    ASSUME StoreInv, DurableInv, NEW p \in Procs, QuotaReply(p)
    PROVE  DurableInv'
  <1>1. op[p].pc = "quotaWait" /\ authFile' = authFile /\ cur' = cur
    BY DEF QuotaReply, disk
  <1>2. PICK r : /\ op' = [op EXCEPT ![p] = r] /\ r.pc \in {"quotaDone", "quotaSave"}
                 /\ \/ heap' = heap
                    \/ \E guard : heap' = [heap EXCEPT ![op[p].obj].nextQuota = now + 1,
                                                       ![op[p].obj].guard = guard]
    BY QuotaReplyShape DEF Answered
  <1>3. cur # 0 => SameDocument(heap[cur], heap'[cur])
    <2>1. CASE heap' = heap
      BY <2>1 DEF SameDocument
    <2>2. CASE heap' # heap
      <3>1. PICK guard : heap' = [heap EXCEPT ![op[p].obj].nextQuota = now + 1,
                                              ![op[p].obj].guard = guard]
        BY <1>2, <2>2
      <3>2. \A o \in Objs : SameDocument(heap[o], heap'[o])
        BY <3>1, GuardEffect
      <3>3. QED
        BY <3>2, Typing
    <2>3. QED
      BY <2>1, <2>2
  <1>4. QED
    BY <1>1, <1>2, <1>3, PCSets, QuietStep DEF SameDocument

LEMMA QuotaSaveDurable ==
    ASSUME StoreInv, DurableInv, NEW p \in Procs, QuotaSave(p)
    PROVE  DurableInv'
  <1>1. op[p].pc = "quotaSave" /\ UNCHANGED <<heap, cur, authFile>>
    BY DEF QuotaSave
  <1> DEFINE landed == Landing(p, "quotaDone")
             failed == [op[p] EXCEPT !.pc = "quotaSaveFailed"]
  <1>2. landed.pc = "quotaDone"
    BY LandedFields
  <1>3. failed.pc = "quotaSaveFailed"
    <2>1. "quotaSaveFailed" \in PCs
      BY DEF PCs
    <2>2. QED
      BY <2>1, MovedFields
  <1>4. op' = [op EXCEPT ![p] = landed] \/ op' = [op EXCEPT ![p] = failed]
    BY DEF QuotaSave, Land, Goto
  <1> HIDE DEF landed, failed
  <1>5. QED
    BY <1>1, <1>2, <1>3, <1>4, PCSets, QuietStep

LEMMA QuotaSaveFailedDurable ==
    ASSUME StoreInv, DurableInv, NEW p \in Procs, QuotaSaveFailed(p)
    PROVE  DurableInv'
  <1>1. op[p].pc = "quotaSaveFailed" /\ authFile' = authFile /\ cur' = cur
        /\ op' = [op EXCEPT ![p] = Landing(p, "quotaDone")]
    BY DEF QuotaSaveFailed, Land, disk
  <1>2. cur # 0 => SameDocument(heap[cur], heap'[cur])
    <2>1. CASE heap' = heap
      BY <2>1 DEF SameDocument
    <2>2. CASE heap' # heap
      <3>1. PICK guard : heap' = [heap EXCEPT ![op[p].obj].guard = guard]
        BY <2>2 DEF QuotaSaveFailed
      <3>2. \A o \in Objs : SameDocument(heap[o], heap'[o])
        BY <3>1, GuardEffect
      <3>3. QED
        BY <3>2, Typing
    <2>3. QED
      BY <2>1, <2>2
  <1> DEFINE landed == Landing(p, "quotaDone")
  <1>3. landed.pc = "quotaDone" /\ op' = [op EXCEPT ![p] = landed]
    BY <1>1, LandedFields
  <1> HIDE DEF landed
  <1>4. QED
    BY <1>1, <1>2, <1>3, PCSets, QuietStep DEF SameDocument

LEMMA FlightDoneDurable ==
    ASSUME StoreInv, DurableInv, NEW p \in Procs, QuotaDone(p) \/ RefreshDone(p)
    PROVE  DurableInv'
  <1>1. op[p].pc \in {"quotaDone", "refreshDone"} /\ authFile' = authFile /\ cur' = cur
        /\ op' = [op EXCEPT ![p] = Idle]
    BY DEF QuotaDone, RefreshDone, Return, disk
  <1>2. cur # 0 => SameDocument(heap[cur], heap'[cur])
    BY FlightEffect, Typing DEF QuotaDone, RefreshDone
  <1>3. QED
    BY <1>1, <1>2, LandedFields, PCSets, QuietStep DEF SameDocument

LEMMA RefreshBeginDurable ==
    ASSUME StoreInv, DurableInv, NEW p \in Procs, RefreshBegin(p)
    PROVE  DurableInv'
  <1>1. PICK o \in 1 .. gen :
          /\ ~heap[o].deleted
          /\ heap' = [heap EXCEPT ![o].refreshFlight = TRUE]
          /\ op' = [op EXCEPT ![p] =
                [Idle EXCEPT !.pc = "refreshWait", !.obj = o, !.epoch = heap[o].epoch,
                             !.raw = [heap[o].raw EXCEPT !.ver = heap[o].ver]]]
    BY DEF RefreshBegin
  <1> DEFINE raw == [heap[o].raw EXCEPT !.ver = heap[o].ver]
             epoch == heap[o].epoch
             r == [Idle EXCEPT !.pc = "refreshWait", !.obj = o, !.epoch = epoch,
                               !.raw = raw]
  <1>2. op' = [op EXCEPT ![p] = r]
    BY <1>1
  <1>3. o = cur /\ cur # 0
    BY <1>1 DEF StoreInv, OnlyMappedIsLive
  <1>4. raw.ident = heap[cur].raw.ident
    BY <1>3, Typing DEF Raw
  <1>5. epoch = heap[cur].epoch
    BY <1>3
  <1> HIDE DEF epoch, raw
  <1>6. r.pc = "refreshWait" /\ r.obj = o /\ r.epoch = epoch /\ r.raw = raw
    BY StartedFields
  <1> HIDE DEF r
  <1>7. authFile' = authFile /\ cur' = cur /\ op[p].pc = "idle" /\ "refresh" \in Ops
    BY DEF RefreshBegin, disk
  <1>8. cur # 0 => SameDocument(heap[cur], heap'[cur])
    BY <1>1, FlightEffect, Typing
  <1>9. r.pc \notin UpdatePCs /\ r.pc \notin PersistPCs
    BY <1>6 DEF UpdatePCs, PersistPCs
  <1>10. QED
    BY <1>2, <1>3, <1>4, <1>5, <1>6, <1>7, <1>8, <1>9, PCSets, QuietStep
    DEF SameDocument

LEMMA RefreshReplyDurable ==
    ASSUME StoreInv, DurableInv, NEW p \in Procs, RefreshReply(p)
    PROVE  DurableInv'
  <1>1. op[p].pc = "refreshWait" /\ UNCHANGED <<heap, cur, authFile>>
    BY DEF RefreshReply, disk
  <1>2. CASE op' = [op EXCEPT ![p] = Landing(p, "refreshDone")]
    <2> DEFINE landed == Landing(p, "refreshDone")
    <2>1. landed.pc = "refreshDone" /\ op' = [op EXCEPT ![p] = landed]
      BY <1>2, LandedFields
    <2> HIDE DEF landed
    <2>2. QED
      BY <1>1, <2>1, PCSets, QuietStep
  <1>3. CASE op' = [op EXCEPT ![p].pc = "persistWrite",
                              ![p].epoch = heap[op[p].obj].epoch,
                              ![p].raw = [heap[op[p].obj].raw EXCEPT
                                            !.ver = op[p].raw.ver + 1]]
    <2>1. op[p].pc \in LatePCs /\ op[p].obj \in 1 .. gen
      BY <1>1 DEF LatePCs, StoreInv, WorksOnObject
    <2>2. op[p].obj = cur /\ Ops \cap {"update", "refresh"} # {} /\ cur \in 1 .. gen
      BY <2>1 DEF DurableInv, LateIsCurrent
    <2>3. cur # 0 /\ heap[cur].raw \in Raw /\ heap[cur].raw.off = heap[cur].off
      BY <2>2, Typing DEF DurableInv, OneControl
    <2> DEFINE raw == [heap[cur].raw EXCEPT !.ver = op[p].raw.ver + 1]
               epoch == heap[cur].epoch
               r == [op[p] EXCEPT !.pc = "persistWrite", !.epoch = epoch, !.raw = raw]
    <2>4. op' = [op EXCEPT ![p] = r]
      BY <1>3, <2>2
    <2>5. raw.ident = heap[cur].raw.ident /\ raw.off = heap[cur].off
      BY <2>3 DEF Raw
    <2>6. epoch = heap[cur].epoch
      OBVIOUS
    <2> HIDE DEF raw, epoch
    <2>7. r.pc = "persistWrite" /\ r.obj = op[p].obj /\ r.epoch = epoch /\ r.raw = raw
      BY Typing DEF Op
    <2> HIDE DEF r
    <2>8. r.pc \notin UpdatePCs /\ r.pc \notin CommitPCs
      BY <2>7, PCSets DEF UpdatePCs
    <2>9. QED
      BY <1>1, <2>2, <2>3, <2>4, <2>5, <2>6, <2>7, <2>8, PCSets, QuietStep
  <1>4. QED
    BY <1>2, <1>3 DEF RefreshReply, Land

\* A restart loads the one document there is.
LEMMA RestartEffect ==
    ASSUME StoreInv, Restart
    PROVE  /\ authFile' = authFile /\ stateFile' = stateFile
           /\ \A q \in Procs : op'[q].pc = "idle"
           /\ \/ authFile = {} /\ cur' = 0
              \/ \E r \in authFile :
                   /\ cur' = 1 /\ heap'[1].raw = r /\ heap'[1].off = r.off
                   /\ heap'[1].guard = SavedGuard(r)
  <1>1. authFile' = authFile /\ stateFile' = stateFile
        /\ \A q \in Procs : op'[q].pc = "idle"
    BY DEF Restart, disk, Idle
  <1>2. CASE authFile = {}
    BY <1>1, <1>2 DEF Restart
  <1>3. CASE authFile # {}
    <2> DEFINE raw == CHOOSE r \in authFile : TRUE
               a == NewAccount(raw, 1, SavedGuard(raw))
    <2>1. raw \in authFile
      BY <1>3
    <2>2. heap' = [BlankHeap EXCEPT ![1] = a] /\ cur' = 1
      BY <1>3 DEF Restart
    <2>3. a.raw = raw /\ a.off = raw.off /\ a.guard = SavedGuard(raw)
      BY DEF NewAccount
    <2> HIDE DEF raw, a
    <2>4. heap'[1] = a
      BY <2>2, BlankHeapType, StoreAssumption DEF Objs
    <2>5. QED
      BY <1>1, <2>1, <2>2, <2>3, <2>4
  <1>4. QED
    BY <1>2, <1>3

LEMMA RestartDurable ==
    ASSUME StoreInv, DurableInv, Restart
    PROVE  DurableInv'
  <1>1. /\ authFile' = authFile
        /\ \A q \in Procs : op'[q].pc = "idle"
        /\ \/ authFile = {} /\ cur' = 0
           \/ \E r \in authFile :
                cur' = 1 /\ heap'[1].raw = r /\ heap'[1].off = r.off
    BY RestartEffect
  <1>2. OneDocument'
    BY <1>1 DEF DurableInv, OneDocument
  <1>3. FileIsAccount' /\ OneControl'
    BY <1>1 DEF DurableInv, OneDocument, FileIsAccount, Describes, OneControl
  <1>4. FileIsWritten' /\ LateIsCurrent'
    BY <1>1, PCSets DEF FileIsWritten, LateIsCurrent
  <1>5. QED
    BY <1>2, <1>3, <1>4 DEF DurableInv

LEMMA IdleDurable ==
    ASSUME DurableInv, UNCHANGED <<heap, cur, authFile, op>>
    PROVE  DurableInv'
  BY DEF DurableInv, OneDocument, FileIsAccount, FileIsWritten, LateIsCurrent,
         OneControl, Describes

LEMMA InitDurable == Init => DurableInv
  <1> SUFFICES ASSUME Init PROVE DurableInv
    OBVIOUS
  <1>1. \A p \in Procs : op[p].pc = "idle"
    BY DEF Init, Idle
  <1>2. QED
    BY <1>1, PCSets DEF Init, DurableInv, OneDocument, FileIsAccount, FileIsWritten,
                        LateIsCurrent, OneControl

LEMMA NextDurable ==
    Exclusive /\ StoreInv /\ DurableInv /\ [Next]_vars => DurableInv'
  <1> SUFFICES ASSUME Exclusive, StoreInv, DurableInv, [Next]_vars PROVE DurableInv'
    OBVIOUS
  <1>1. ASSUME NEW p \in Procs, Begin(p) PROVE DurableInv'
    BY <1>1, ImportBeginDurable, UpdateBeginDurable, DeleteBeginDurable,
       QuotaBeginDurable, RefreshBeginDurable DEF Begin
  <1>2. ASSUME NEW p \in Procs, Step(p) PROVE DurableInv'
    BY <1>2, ImportWriteDurable, ImportCommitDurable, UpdateWriteDurable,
       UpdateCommitDurable, DeleteFileDurable, DeleteCommitDurable,
       QuotaReplyDurable, QuotaSaveDurable, QuotaSaveFailedDurable,
       FlightDoneDurable, RefreshReplyDurable, PersistWriteDurable,
       PersistCommitDurable DEF Step
  <1>3. CASE UNCHANGED vars \/ Tick
    BY <1>3, IdleDurable DEF vars, Tick, disk
  <1>4. QED
    BY <1>1, <1>2, <1>3, RestartDurable DEF Next

\* Whatever fails or crashes, the credential file keeps describing the account in
\* memory, or the document about to be committed.
THEOREM DurableInvariance ==
    ASSUME Exclusive
    PROVE  Spec => []DurableInv
  <1>1. StoreInv /\ DurableInv /\ [Next]_vars => DurableInv'
    BY NextDurable
  <1>2. QED
    BY <1>1, InitDurable, Invariance, PTL DEF Spec

\* Between operations a restart loads the account in memory: no crash, failed
\* write or order of imports, deletions and changes brings back an account that
\* was removed or replaced, unless updates or refreshes overlap them.
THEOREM DiskTheorem ==
    ASSUME Exclusive
    PROVE  Spec => []DiskIsCurrent
  <1>1. DurableInv => DiskIsCurrent
    BY DEF DurableInv, FileIsAccount, Describes, DiskIsCurrent, Settled, CommitPCs,
           HolderPCs
  <1>2. QED
    BY <1>1, DurableInvariance, PTL

\* Under the same condition the disabled control a user set is the one a restart
\* loads.
THEOREM ControlTheorem ==
    ASSUME Exclusive
    PROVE  Spec => []ControlsAreDurable
  <1>1. DurableInv => ControlsAreDurable
    BY DEF DurableInv, FileIsAccount, Describes, ControlsAreDurable, Settled,
           CommitPCs, HolderPCs
  <1>2. QED
    BY <1>1, DurableInvariance, PTL

-----------------------------------------------------------------------------
\* With one operation at a time, most steps concern neither the guard of the
\* account nor the state file.
QuietEffect(p) ==
    /\ cur' = cur /\ stateFile' = stateFile
    /\ op[p].pc \notin SavePCs
    /\ cur # 0 => /\ heap'[cur].guard = heap[cur].guard
                  /\ heap'[cur].raw.ident = heap[cur].raw.ident
    /\ \E r : /\ op' = [op EXCEPT ![p] = r]
              /\ r.pc \notin SavePCs
              /\ r.pc \in ImportPCs => /\ op[p].pc \in ImportPCs
                                       /\ r.raw = op[p].raw /\ r.guard = op[p].guard

LEMMA AloneStep ==
    ASSUME Alone, StoreInv, NEW p \in Procs, NEW r, op' = [op EXCEPT ![p] = r]
    PROVE  \A q \in Procs : q = p /\ op'[q] = r
  BY Typing DEF Alone

LEMMA QuietKeepsBlock ==
    ASSUME Alone, StoreInv, BlockInv, NEW p \in Procs, QuietEffect(p)
    PROVE  BlockInv'
  <1>1. PICK r : /\ op' = [op EXCEPT ![p] = r]
                 /\ r.pc \notin SavePCs
                 /\ r.pc \in ImportPCs => /\ op[p].pc \in ImportPCs
                                          /\ r.raw = op[p].raw /\ r.guard = op[p].guard
    BY DEF QuietEffect
  <1>2. \A q \in Procs : q = p /\ op'[q] = r
    BY <1>1, AloneStep
  <1>3. BudgetBlocks' /\ OneState' /\ SaveIsCurrent'
    BY <1>1, <1>2 DEF QuietEffect, BlockInv, BudgetBlocks, OneState, SaveIsCurrent
  <1>4. BlockIsSaved'
    <2> SUFFICES ASSUME cur # 0, heap'[cur].guard.reason = "budget"
                 PROVE  SavedBlock(heap[cur].raw.ident)'
      BY DEF BlockIsSaved, QuietEffect
    <2>1. heap[cur].guard.reason = "budget" /\ \A q \in Procs : op[q].pc \notin SavePCs
      BY <1>2 DEF QuietEffect
    <2>2. SavedBlock(heap[cur].raw.ident)
      BY <2>1 DEF BlockInv, BlockIsSaved
    <2>3. QED
      BY <2>2 DEF SavedBlock, QuietEffect
  <1>5. ImportBlockIsSaved'
    BY <1>1, <1>2 DEF QuietEffect, BlockInv, ImportBlockIsSaved, SavedBlock
  <1>6. QED
    BY <1>3, <1>4, <1>5 DEF BlockInv

LEMMA QuietKeepsInherits ==
    ASSUME Alone, StoreInv, ImportInherits, NEW p \in Procs, QuietEffect(p)
    PROVE  ImportInherits'
  <1>1. PICK r : /\ op' = [op EXCEPT ![p] = r]
                 /\ r.pc \in ImportPCs => /\ op[p].pc \in ImportPCs
                                          /\ r.raw = op[p].raw /\ r.guard = op[p].guard
    BY DEF QuietEffect
  <1>2. \A q \in Procs : q = p /\ op'[q] = r
    BY <1>1, AloneStep
  <1>3. QED
    BY <1>1, <1>2 DEF QuietEffect, ImportInherits

LEMMA SaveSets ==
    /\ {"idle", "importWrite", "importCommit", "updateWrite", "updateCommit",
        "deleteFile", "deleteCommit", "quotaWait", "quotaDone", "refreshWait",
        "persistWrite", "persistCommit", "refreshDone"} \cap SavePCs = {}
    /\ {"idle", "updateWrite", "updateCommit", "deleteFile", "deleteCommit",
        "quotaWait", "quotaSave", "quotaSaveFailed", "quotaDone", "refreshWait",
        "persistWrite", "persistCommit", "refreshDone"} \cap ImportPCs = {}
  BY DEF SavePCs, ImportPCs

LEMMA ImportWriteIsQuiet ==
    ASSUME StoreInv, NEW p \in Procs, ImportWrite(p)
    PROVE  QuietEffect(p)
  <1> DEFINE moved == [op[p] EXCEPT !.pc = "importCommit"]
  <1>1. "importCommit" \in PCs
    BY DEF PCs
  <1>2. moved.pc = "importCommit" /\ moved.raw = op[p].raw /\ moved.guard = op[p].guard
    BY <1>1, MovedFields
  <1>3. op' = [op EXCEPT ![p] = moved] \/ op' = [op EXCEPT ![p] = Idle]
    BY DEF ImportWrite, Goto, Return
  <1> HIDE DEF moved
  <1>4. op[p].pc = "importWrite" /\ UNCHANGED <<heap, cur, stateFile>>
    BY DEF ImportWrite
  <1>5. QED
    BY <1>2, <1>3, <1>4, LandedFields, SaveSets, PCSets DEF QuietEffect

LEMMA UpdateBeginIsQuiet ==
    ASSUME StoreInv, NEW p \in Procs, UpdateBegin(p)
    PROVE  QuietEffect(p)
  <1>1. PICK given \in BOOLEAN, value \in Controls :
          op' = [op EXCEPT ![p] =
                  [Idle EXCEPT !.pc = "updateWrite", !.obj = cur,
                     !.epoch = heap[cur].epoch,
                     !.raw = [heap[cur].raw EXCEPT !.off = IF given THEN value ELSE @],
                     !.off = IF given THEN value ELSE heap[cur].off]]
    BY DEF UpdateBegin
  <1> DEFINE raw == [heap[cur].raw EXCEPT !.off = IF given THEN value ELSE @]
             off == IF given THEN value ELSE heap[cur].off
             epoch == heap[cur].epoch
             r == [Idle EXCEPT !.pc = "updateWrite", !.obj = cur, !.epoch = epoch,
                               !.raw = raw, !.off = off]
  <1>2. op' = [op EXCEPT ![p] = r]
    BY <1>1
  <1> HIDE DEF raw, off, epoch
  <1>3. r.pc = "updateWrite"
    BY StartedFields
  <1> HIDE DEF r
  <1>4. op[p].pc = "idle" /\ UNCHANGED <<heap, cur, stateFile>>
    BY DEF UpdateBegin, disk
  <1>5. QED
    BY <1>2, <1>3, <1>4, SaveSets DEF QuietEffect

LEMMA WriteCredentialIsQuiet ==
    ASSUME StoreInv, NEW p \in Procs, UpdateWrite(p) \/ PersistWrite(p)
    PROVE  QuietEffect(p)
  <1>1. ASSUME NEW from \in {"updateWrite", "persistWrite"},
               NEW done \in {"updateCommit", "persistCommit"}, NEW failed,
               failed.pc \in {"idle", "refreshDone"},
               WriteCredential(p, from, done, failed)
        PROVE  QuietEffect(p)
    <2> DEFINE moved == [op[p] EXCEPT !.pc = done]
    <2>1. done \in PCs
      BY DEF PCs
    <2>2. moved.pc = done
      BY <2>1, MovedFields
    <2>3. op' = [op EXCEPT ![p] = moved] \/ op' = [op EXCEPT ![p] = failed]
      BY <1>1 DEF WriteCredential, Goto
    <2> HIDE DEF moved
    <2>4. op[p].pc = from /\ UNCHANGED <<heap, cur, stateFile>>
      BY <1>1 DEF WriteCredential
    <2>5. QED
      BY <1>1, <2>2, <2>3, <2>4, SaveSets DEF QuietEffect
  <1> DEFINE landed == Landing(p, "refreshDone")
  <1>2. landed.pc = "refreshDone" /\ Idle.pc = "idle"
    BY LandedFields
  <1>3. \/ WriteCredential(p, "updateWrite", "updateCommit", Idle)
        \/ WriteCredential(p, "persistWrite", "persistCommit", landed)
    BY DEF UpdateWrite, PersistWrite
  <1> HIDE DEF landed
  <1>4. QED
    BY <1>1, <1>2, <1>3

LEMMA CommitIsQuiet ==
    ASSUME StoreInv, DurableInv, NEW p \in Procs, UpdateCommit(p) \/ PersistCommit(p)
    PROVE  QuietEffect(p)
  <1>1. /\ op[p].pc \in {"updateCommit", "persistCommit"}
        /\ cur' = cur /\ stateFile' = stateFile
    BY DEF UpdateCommit, PersistCommit, disk
  <1>2. /\ op[p].obj = cur /\ cur \in Objs /\ cur # 0 /\ Current(p)
        /\ op[p].raw.ident = heap[cur].raw.ident
    BY <1>1, CommittedDocument
  <1> DEFINE b == [heap[cur] EXCEPT !.off = op[p].off, !.raw = op[p].raw]
             c == [heap[cur] EXCEPT !.raw = op[p].raw, !.ver = op[p].raw.ver]
             landed == Landing(p, "refreshDone")
  <1>3. heap' = [heap EXCEPT ![cur] = b] \/ heap' = [heap EXCEPT ![cur] = c]
    BY <1>2 DEF UpdateCommit, PersistCommit
  <1>4. /\ b.guard = heap[cur].guard /\ b.raw = op[p].raw
        /\ c.guard = heap[cur].guard /\ c.raw = op[p].raw
    BY <1>2 DEF StoreInv, TypeOK, Account
  <1>5. landed.pc = "refreshDone" /\ Idle.pc = "idle"
    BY LandedFields
  <1>6. op' = [op EXCEPT ![p] = Idle] \/ op' = [op EXCEPT ![p] = landed]
    BY DEF UpdateCommit, PersistCommit, Return, Land
  <1> HIDE DEF b, c, landed
  <1>7. heap'[cur].guard = heap[cur].guard /\ heap'[cur].raw.ident = heap[cur].raw.ident
    BY <1>2, <1>3, <1>4 DEF StoreInv, TypeOK
  <1>8. QED
    BY <1>1, <1>5, <1>6, <1>7, SaveSets DEF QuietEffect

LEMMA DeleteBeginIsQuiet ==
    ASSUME StoreInv, NEW p \in Procs, DeleteBegin(p)
    PROVE  QuietEffect(p)
  <1> DEFINE r == [Idle EXCEPT !.pc = "deleteFile", !.obj = cur]
  <1>1. op' = [op EXCEPT ![p] = r] /\ op[p].pc = "idle"
        /\ UNCHANGED <<heap, cur, stateFile>>
    BY DEF DeleteBegin, disk
  <1>2. r.pc = "deleteFile"
    BY StartedFields
  <1> HIDE DEF r
  <1>3. QED
    BY <1>1, <1>2, SaveSets DEF QuietEffect

LEMMA DeleteFileIsQuiet ==
    ASSUME StoreInv, NEW p \in Procs, DeleteFile(p)
    PROVE  QuietEffect(p)
  <1> DEFINE epoch == heap[op[p].obj].epoch
             r == [op[p] EXCEPT !.pc = "deleteCommit", !.epoch = epoch]
  <1>1. op' = [op EXCEPT ![p] = r] \/ op' = [op EXCEPT ![p] = Idle]
    BY DEF DeleteFile, Return
  <1> HIDE DEF epoch
  <1>2. r.pc = "deleteCommit" /\ Idle.pc = "idle"
    BY Typing, LandedFields DEF Op
  <1> HIDE DEF r
  <1>3. op[p].pc = "deleteFile" /\ UNCHANGED <<heap, cur, stateFile>>
    BY DEF DeleteFile
  <1>4. QED
    BY <1>1, <1>2, <1>3, SaveSets DEF QuietEffect

LEMMA QuotaBeginIsQuiet ==
    ASSUME StoreInv, NEW p \in Procs, QuotaBegin(p)
    PROVE  QuietEffect(p)
  <1>1. PICK o \in 1 .. gen :
          /\ heap' = [heap EXCEPT ![o].quotaFlight = TRUE]
          /\ op' = [op EXCEPT ![p] = [Idle EXCEPT !.pc = "quotaWait", !.obj = o,
                                                  !.epoch = heap[o].epoch]]
    BY DEF QuotaBegin
  <1> DEFINE epoch == heap[o].epoch
             r == [Idle EXCEPT !.pc = "quotaWait", !.obj = o, !.epoch = epoch]
  <1>2. op' = [op EXCEPT ![p] = r]
    BY <1>1
  <1> HIDE DEF epoch
  <1>3. r.pc = "quotaWait"
    BY StartedFields
  <1> HIDE DEF r
  <1>4. stateFile' = stateFile /\ cur' = cur /\ op[p].pc = "idle"
    BY DEF QuotaBegin, disk
  <1>5. \A x \in Objs : SameDocument(heap[x], heap'[x]) /\ heap'[x].guard = heap[x].guard
    BY <1>1, FlightEffect
  <1>6. cur # 0 => cur \in Objs
    BY Typing
  <1>7. QED
    BY <1>2, <1>3, <1>4, <1>5, <1>6, SaveSets DEF QuietEffect, SameDocument

LEMMA RefreshBeginIsQuiet ==
    ASSUME StoreInv, NEW p \in Procs, RefreshBegin(p)
    PROVE  QuietEffect(p)
  <1>1. PICK o \in 1 .. gen :
          /\ heap' = [heap EXCEPT ![o].refreshFlight = TRUE]
          /\ op' = [op EXCEPT ![p] =
                [Idle EXCEPT !.pc = "refreshWait", !.obj = o, !.epoch = heap[o].epoch,
                             !.raw = [heap[o].raw EXCEPT !.ver = heap[o].ver]]]
    BY DEF RefreshBegin
  <1> DEFINE raw == [heap[o].raw EXCEPT !.ver = heap[o].ver]
             epoch == heap[o].epoch
             r == [Idle EXCEPT !.pc = "refreshWait", !.obj = o, !.epoch = epoch,
                               !.raw = raw]
  <1>2. op' = [op EXCEPT ![p] = r]
    BY <1>1
  <1> HIDE DEF epoch, raw
  <1>3. r.pc = "refreshWait"
    BY StartedFields
  <1> HIDE DEF r
  <1>4. stateFile' = stateFile /\ cur' = cur /\ op[p].pc = "idle"
    BY DEF RefreshBegin, disk
  <1>5. \A x \in Objs : SameDocument(heap[x], heap'[x]) /\ heap'[x].guard = heap[x].guard
    BY <1>1, FlightEffect
  <1>6. cur # 0 => cur \in Objs
    BY Typing
  <1>7. QED
    BY <1>2, <1>3, <1>4, <1>5, <1>6, SaveSets DEF QuietEffect, SameDocument

LEMMA FlightDoneIsQuiet ==
    ASSUME StoreInv, NEW p \in Procs, QuotaDone(p) \/ RefreshDone(p)
    PROVE  QuietEffect(p)
  <1>1. op[p].pc \in {"quotaDone", "refreshDone"} /\ stateFile' = stateFile
        /\ cur' = cur /\ op' = [op EXCEPT ![p] = Idle]
    BY DEF QuotaDone, RefreshDone, Return, disk
  <1>2. \A x \in Objs : SameDocument(heap[x], heap'[x]) /\ heap'[x].guard = heap[x].guard
    BY FlightEffect DEF QuotaDone, RefreshDone
  <1>3. cur # 0 => cur \in Objs
    BY Typing
  <1>4. QED
    BY <1>1, <1>2, <1>3, LandedFields, SaveSets DEF QuietEffect, SameDocument

LEMMA RefreshReplyIsQuiet ==
    ASSUME StoreInv, NEW p \in Procs, RefreshReply(p)
    PROVE  QuietEffect(p)
  <1> DEFINE raw == [heap[op[p].obj].raw EXCEPT !.ver = op[p].raw.ver + 1]
             epoch == heap[op[p].obj].epoch
             r == [op[p] EXCEPT !.pc = "persistWrite", !.epoch = epoch, !.raw = raw]
             landed == Landing(p, "refreshDone")
  <1>1. op' = [op EXCEPT ![p] = landed] \/ op' = [op EXCEPT ![p] = r]
    BY DEF RefreshReply, Land
  <1> HIDE DEF raw, epoch
  <1>2. r.pc = "persistWrite" /\ landed.pc = "refreshDone"
    BY Typing, LandedFields DEF Op
  <1> HIDE DEF r, landed
  <1>3. op[p].pc = "refreshWait" /\ UNCHANGED <<heap, cur, stateFile>>
    BY DEF RefreshReply, disk
  <1>4. QED
    BY <1>1, <1>2, <1>3, SaveSets DEF QuietEffect

LEMMA QuietSteps ==
    ASSUME StoreInv, DurableInv, NEW p \in Procs,
           \/ ImportWrite(p) \/ UpdateBegin(p) \/ UpdateWrite(p) \/ UpdateCommit(p)
           \/ DeleteBegin(p) \/ DeleteFile(p) \/ QuotaBegin(p) \/ QuotaDone(p)
           \/ RefreshBegin(p) \/ RefreshReply(p) \/ PersistWrite(p)
           \/ PersistCommit(p) \/ RefreshDone(p)
    PROVE  QuietEffect(p)
  BY ImportWriteIsQuiet, UpdateBeginIsQuiet, WriteCredentialIsQuiet, CommitIsQuiet,
     DeleteBeginIsQuiet, DeleteFileIsQuiet, QuotaBeginIsQuiet, RefreshBeginIsQuiet,
     FlightDoneIsQuiet, RefreshReplyIsQuiet

-----------------------------------------------------------------------------
\* The steps that do concern them.
LEMMA ImportBeginEffect ==
    ASSUME NEW p \in Procs, ImportBegin(p)
    PROVE  /\ op[p].pc = "idle" /\ UNCHANGED <<heap, cur, stateFile>>
           /\ \E r : /\ op' = [op EXCEPT ![p] = r]
                     /\ r.pc = "importWrite" /\ r.raw \in Raw
                     /\ r.guard = InheritedGuard(r.raw)
  <1>1. PICK i \in Idents, off \in Controls, mark \in Marks :
          op' = [op EXCEPT ![p] =
                  [Idle EXCEPT !.pc = "importWrite", !.obj = cur,
                     !.raw = [ident |-> i, ver |-> 0, off |-> off, mark |-> mark],
                     !.epoch = IF cur = 0 THEN 1 ELSE heap[cur].epoch + 1,
                     !.guard = InheritedGuard([ident |-> i, ver |-> 0,
                                               off |-> off, mark |-> mark])]]
    BY DEF ImportBegin
  <1> DEFINE raw == [ident |-> i, ver |-> 0, off |-> off, mark |-> mark]
             epoch == IF cur = 0 THEN 1 ELSE heap[cur].epoch + 1
             guard == InheritedGuard(raw)
             r == [Idle EXCEPT !.pc = "importWrite", !.obj = cur, !.raw = raw,
                               !.epoch = epoch, !.guard = guard]
  <1>2. op' = [op EXCEPT ![p] = r]
    BY <1>1
  <1>3. raw \in Raw
    BY StoreAssumption DEF Raw
  <1>4. guard = InheritedGuard(raw)
    OBVIOUS
  <1> HIDE DEF raw, epoch, guard
  <1>5. r.pc = "importWrite" /\ r.raw = raw /\ r.guard = guard
    BY StartedFields
  <1> HIDE DEF r
  <1>6. QED
    BY <1>2, <1>3, <1>4, <1>5 DEF ImportBegin, disk

\* No migrated document carries a lock of its own.
Unlocked == \A m \in Marks : ~m.blocked

LEMMA NoGuardFree == ~NoGuard.blocked /\ NoGuard.reason # "budget"
  BY DEF NoGuard

LEMMA UnlockedMark ==
    ASSUME Unlocked, NEW raw \in Raw
    PROVE  ~raw.mark.blocked
  <1>1. raw.mark \in Marks \cup {NoGuard}
    BY DEF Raw
  <1>2. QED
    BY <1>1, NoGuardFree DEF Unlocked

\* A guard that comes from the state file blocks as long as it is there.
LEMMA SavedGuardBlocks ==
    ASSUME Unlocked, OneState, \A s \in stateFile : Blocking(s.guard), NEW raw \in Raw
    PROVE  /\ Blocking(SavedGuard(raw))
           /\ SavedGuard(raw).reason = "budget" => SavedBlock(raw.ident)
  <1>1. CASE \E s \in stateFile : s.ident = raw.ident
    <2>1. PICK s \in stateFile : s.ident = raw.ident
      BY <1>1
    <2>2. (CHOOSE x \in stateFile : TRUE) = s
      BY <2>1 DEF OneState
    <2>3. SavedGuard(raw) = s.guard
      BY <1>1, <2>2 DEF SavedGuard
    <2>4. QED
      BY <2>1, <2>3 DEF Blocking, SavedBlock
  <1>2. CASE ~\E s \in stateFile : s.ident = raw.ident
    <2>1. ~raw.mark.blocked
      BY UnlockedMark
    <2>2. SavedGuard(raw) = NoGuard
      BY <1>2, <2>1 DEF SavedGuard
    <2>3. QED
      BY <2>2, NoGuardFree DEF Blocking
  <1>3. QED
    BY <1>1, <1>2

LEMMA ImportBeginBlock ==
    ASSUME Alone, Unlocked, StoreInv, BlockInv, NEW p \in Procs, ImportBegin(p)
    PROVE  BlockInv'
  <1>1. op[p].pc = "idle" /\ UNCHANGED <<heap, cur, stateFile>>
    BY ImportBeginEffect
  <1>2. PICK r : /\ op' = [op EXCEPT ![p] = r]
                 /\ r.pc = "importWrite" /\ r.raw \in Raw
                 /\ r.guard = InheritedGuard(r.raw)
    BY ImportBeginEffect
  <1>3. \A q \in Procs : q = p /\ op'[q] = r
    BY <1>2, AloneStep
  <1>4. Blocking(r.guard) /\ (r.guard.reason = "budget" => SavedBlock(r.raw.ident))
    <2>1. CASE cur = 0
      BY <1>2, <2>1, SavedGuardBlocks DEF InheritedGuard, BlockInv, BudgetBlocks
    <2>2. CASE cur # 0 /\ heap[cur].raw.ident = r.raw.ident
      <3>1. r.guard = heap[cur].guard
        BY <1>2, <2>2 DEF InheritedGuard
      <3>2. \A q \in Procs : op[q].pc \notin SavePCs
        BY <1>1, <1>3, SaveSets
      <3>3. QED
        BY <2>2, <3>1, <3>2 DEF BlockInv, BudgetBlocks, BlockIsSaved
    <2>3. CASE cur # 0 /\ heap[cur].raw.ident # r.raw.ident
      <3>1. ~r.raw.mark.blocked
        BY <1>2, UnlockedMark
      <3>2. r.guard = NoGuard
        BY <1>2, <2>3, <3>1 DEF InheritedGuard
      <3>3. QED
        BY <3>2, NoGuardFree DEF Blocking
    <2>4. QED
      BY <2>1, <2>2, <2>3
  <1>5. r.pc \notin SavePCs
    BY <1>2, SaveSets
  <1>6. op[p].pc \notin SavePCs
    BY <1>1, SaveSets
  <1>7. BudgetBlocks' /\ OneState' /\ SaveIsCurrent'
    BY <1>1, <1>3, <1>4, <1>5 DEF BlockInv, BudgetBlocks, OneState, SaveIsCurrent
  <1>8. BlockIsSaved' /\ ImportBlockIsSaved'
    BY <1>1, <1>2, <1>3, <1>4, <1>6
    DEF BlockInv, BlockIsSaved, ImportBlockIsSaved, SavedBlock
  <1>9. QED
    BY <1>7, <1>8 DEF BlockInv

\* The object an import installs, and the guard it brings.
LEMMA ImportCommitEffect ==
    ASSUME StoreInv, NEW p \in Procs, ImportCommit(p)
    PROVE  /\ op[p].pc = "importCommit" /\ op[p].obj = cur
           /\ cur' # 0 /\ stateFile' = stateFile /\ op' = [op EXCEPT ![p] = Idle]
           /\ heap'[cur'].raw = op[p].raw /\ heap'[cur'].guard = op[p].guard
  <1>1. op[p].pc = "importCommit" /\ op[p].obj = cur /\ gen < MaxGen
    BY DEF ImportCommit, StoreInv, ImportIsCurrent
  <1> DEFINE fresh == NewAccount(op[p].raw, op[p].epoch, op[p].guard)
  <1>2. /\ heap' = [o \in Objs |-> IF o = gen + 1 THEN fresh
                                  ELSE IF o = cur THEN Retire(heap[o]) ELSE heap[o]]
        /\ cur' = gen + 1 /\ stateFile' = stateFile
        /\ op' = [op EXCEPT ![p] = Idle]
    BY <1>1 DEF ImportCommit, Return, disk
  <1>3. fresh.raw = op[p].raw /\ fresh.guard = op[p].guard
    BY DEF NewAccount
  <1> HIDE DEF fresh
  <1>4. gen + 1 \in Objs /\ gen + 1 # 0
    BY <1>1, StoreAssumption DEF StoreInv, TypeOK, Objs
  <1>5. QED
    BY <1>1, <1>2, <1>3, <1>4

LEMMA ImportCommitBlock ==
    ASSUME Alone, StoreInv, BlockInv, NEW p \in Procs, ImportCommit(p)
    PROVE  BlockInv'
  <1>1. /\ op[p].pc = "importCommit" /\ stateFile' = stateFile
        /\ op' = [op EXCEPT ![p] = Idle]
        /\ heap'[cur'].raw = op[p].raw /\ heap'[cur'].guard = op[p].guard
    BY ImportCommitEffect
  <1>2. \A q \in Procs : q = p /\ op'[q] = Idle
    BY <1>1, AloneStep
  <1>3. Idle.pc \notin SavePCs \cup ImportPCs /\ op[p].pc \in ImportPCs
    BY <1>1, LandedFields, SaveSets, PCSets
  <1>4. BudgetBlocks' /\ OneState' /\ SaveIsCurrent'
    BY <1>1, <1>2, <1>3 DEF BlockInv, BudgetBlocks, OneState, SaveIsCurrent
  <1>5. BlockIsSaved' /\ ImportBlockIsSaved'
    BY <1>1, <1>2, <1>3 DEF BlockInv, BlockIsSaved, ImportBlockIsSaved, SavedBlock
  <1>6. QED
    BY <1>4, <1>5 DEF BlockInv

LEMMA DeleteCommitBlock ==
    ASSUME Alone, StoreInv, BlockInv, NEW p \in Procs, DeleteCommit(p)
    PROVE  BlockInv'
  <1>1. op[p].pc = "deleteCommit" /\ op' = [op EXCEPT ![p] = Idle]
    BY DEF DeleteCommit, Return
  <1>2. \A q \in Procs : q = p /\ op'[q] = Idle
    BY <1>1, AloneStep
  <1>3. /\ Idle.pc \notin SavePCs \cup ImportPCs /\ Idle.pc = "idle"
        /\ op[p].pc \notin SavePCs
    BY <1>1, LandedFields, SaveSets
  <1>4. CASE UNCHANGED <<heap, cur, stateFile>>
    <2>1. QuietEffect(p)
      BY <1>1, <1>3, <1>4 DEF QuietEffect
    <2>2. QED
      BY <2>1, QuietKeepsBlock
  <1>5. CASE cur' = 0 /\ stateFile' \subseteq stateFile
    BY <1>2, <1>3, <1>5 DEF BlockInv, BudgetBlocks, OneState, SaveIsCurrent,
                            BlockIsSaved, ImportBlockIsSaved
  <1>6. QED
    BY <1>4, <1>5 DEF DeleteCommit

LEMMA GuardAfterBlocks ==
    ASSUME NEW g \in Guard, Blocking(g), NEW state, NEW reset \in Nat, NEW t \in Nat
    PROVE  Blocking(GuardAfter(g, state, reset, t))
  BY DEF GuardAfter, Guard, NoGuard, Blocking

\* A valid answer for the current object: its new guard, still to be saved.
LEMMA QuotaReplyBlock ==
    ASSUME Alone, StoreInv, BlockInv, NEW p \in Procs, QuotaReply(p)
    PROVE  BlockInv'
  <1>1. /\ op[p].pc = "quotaWait" /\ op[p].obj \in 1 .. gen
        /\ cur' = cur /\ stateFile' = stateFile
    BY DEF QuotaReply, StoreInv, WorksOnObject, disk
  <1>2. op[p].pc \notin SavePCs
    BY <1>1, SaveSets
  <1>3. PICK r, guard :
          /\ op' = [op EXCEPT ![p] = r]
          /\ (heap' = heap /\ r.pc = "quotaDone") \/ Answered(p, r, guard)
    BY QuotaReplyShape
  <1>4. CASE heap' = heap /\ r.pc = "quotaDone"
    <2>1. QuietEffect(p)
      BY <1>1, <1>2, <1>3, <1>4, SaveSets DEF QuietEffect
    <2>2. QED
      BY <2>1, QuietKeepsBlock
  <1>5. CASE Answered(p, r, guard)
    <2>1. PICK state \in {"fail", "unknown", "allow", "block"}, reset \in Resets :
            /\ Current(p)
            /\ guard = IF state = "fail" THEN heap[op[p].obj].guard
                       ELSE GuardAfter(heap[op[p].obj].guard, state, reset, now)
            /\ heap' = [heap EXCEPT ![op[p].obj].nextQuota = now + 1,
                                    ![op[p].obj].guard = guard]
            /\ \/ r.pc = "quotaDone" /\ state = "fail"
               \/ /\ r.pc = "quotaSave" /\ r.obj = op[p].obj
                  /\ r.epoch = op[p].epoch /\ r.guard = guard
                  /\ r.raw = heap[op[p].obj].raw
      BY <1>5 DEF Answered
    <2>2. op[p].obj = cur /\ cur # 0 /\ cur \in Objs /\ op[p].epoch = heap[cur].epoch
      BY <1>1, <2>1, Typing DEF Current, StoreInv, OnlyMappedIsLive
    <2>3. SameDocument(heap[cur], heap'[cur]) /\ heap'[cur].guard = guard
      <3>1. heap' = [heap EXCEPT ![cur].nextQuota = now + 1, ![cur].guard = guard]
        BY <2>1, <2>2
      <3>2. \A o \in Objs : /\ SameDocument(heap[o], heap'[o])
                            /\ heap'[o].guard = IF o = cur THEN guard
                                                ELSE heap[o].guard
        BY <3>1, GuardEffect
      <3>3. QED
        BY <2>2, <3>2
    <2>4. CASE r.pc = "quotaDone" /\ state = "fail"
      <3>1. QuietEffect(p)
        BY <1>1, <1>2, <1>3, <2>1, <2>2, <2>3, <2>4, SaveSets
        DEF QuietEffect, SameDocument
      <3>2. QED
        BY <3>1, QuietKeepsBlock
    <2>5. CASE /\ r.pc = "quotaSave" /\ r.obj = op[p].obj
               /\ r.epoch = op[p].epoch /\ r.guard = guard
               /\ r.raw = heap[op[p].obj].raw
      <3>1. \A q \in Procs : q = p /\ op'[q] = r
        BY <1>3, AloneStep
      <3>2. r.pc \in SavePCs /\ r.pc \notin ImportPCs
        BY <2>5, SaveSets DEF SavePCs
      <3>3. Blocking(guard)
        <4>1. heap[cur].guard \in Guard /\ Blocking(heap[cur].guard) /\ reset \in Nat
              /\ now \in Nat
          BY <1>1, <2>2, Typing, StoreAssumption DEF BlockInv, BudgetBlocks
        <4>2. QED
          BY <2>1, <2>2, <4>1, GuardAfterBlocks
      <3>4. BudgetBlocks' /\ OneState'
        BY <1>1, <2>3, <3>1, <3>2, <3>3 DEF BlockInv, BudgetBlocks, OneState
      <3>5. SaveIsCurrent'
        BY <1>1, <2>2, <2>3, <2>5, <3>1 DEF SaveIsCurrent, SameDocument
      <3>6. BlockIsSaved' /\ ImportBlockIsSaved'
        BY <3>1, <3>2 DEF BlockIsSaved, ImportBlockIsSaved
      <3>7. QED
        BY <3>4, <3>5, <3>6 DEF BlockInv
    <2>6. QED
      BY <2>1, <2>4, <2>5
  <1>6. QED
    BY <1>3, <1>4, <1>5

LEMMA QuotaSaveBlock ==
    ASSUME Alone, StoreInv, BlockInv, NEW p \in Procs, QuotaSave(p)
    PROVE  BlockInv'
  <1>1. /\ op[p].pc = "quotaSave" /\ op[p].pc \in SavePCs
        /\ UNCHANGED <<heap, cur>>
    BY DEF QuotaSave, SavePCs
  <1>2. /\ op[p].obj = cur /\ op[p].epoch = heap[cur].epoch
        /\ op[p].raw.ident = heap[cur].raw.ident
        /\ op[p].guard = heap[cur].guard
    BY <1>1 DEF BlockInv, SaveIsCurrent
  <1>3. cur # 0
    BY <1>1, <1>2, Typing DEF StoreInv, WorksOnObject, SavePCs
  <1>4. CASE stateFile' = {[ident |-> op[p].raw.ident, guard |-> op[p].guard]}
             /\ Land(p, "quotaDone")
    <2> DEFINE landed == Landing(p, "quotaDone")
               saved == [ident |-> op[p].raw.ident, guard |-> op[p].guard]
    <2>1. op' = [op EXCEPT ![p] = landed] /\ landed.pc = "quotaDone"
          /\ stateFile' = {saved}
      BY <1>4, LandedFields DEF Land
    <2>2. saved.ident = heap[cur].raw.ident /\ saved.guard = heap[cur].guard
      BY <1>2
    <2> HIDE DEF landed, saved
    <2>3. \A q \in Procs : q = p /\ op'[q] = landed
      BY <2>1, AloneStep
    <2>4. landed.pc \notin SavePCs \cup ImportPCs
      BY <2>1, SaveSets
    <2>5. Blocking(heap[cur].guard)
      BY <1>3 DEF BlockInv, BudgetBlocks
    <2>6. BudgetBlocks' /\ OneState' /\ SaveIsCurrent'
      BY <1>1, <2>1, <2>2, <2>3, <2>4, <2>5
      DEF BlockInv, BudgetBlocks, OneState, SaveIsCurrent
    <2>7. BlockIsSaved'
      BY <1>1, <2>1, <2>2, <2>5 DEF BlockIsSaved, SavedBlock, Blocking
    <2>8. ImportBlockIsSaved'
      BY <2>3, <2>4 DEF ImportBlockIsSaved
    <2>9. QED
      BY <2>6, <2>7, <2>8 DEF BlockInv
  <1>5. CASE Goto(p, "quotaSaveFailed") /\ UNCHANGED stateFile
    <2> DEFINE moved == [op[p] EXCEPT !.pc = "quotaSaveFailed"]
    <2>1. op' = [op EXCEPT ![p] = moved]
      BY <1>5 DEF Goto
    <2>2. /\ moved.pc = "quotaSaveFailed" /\ moved.obj = op[p].obj
          /\ moved.raw = op[p].raw /\ moved.epoch = op[p].epoch
          /\ moved.guard = op[p].guard
      <3>1. "quotaSaveFailed" \in PCs
        BY DEF PCs
      <3>2. QED
        BY <3>1, MovedFields
    <2> HIDE DEF moved
    <2>3. \A q \in Procs : q = p /\ op'[q] = moved
      BY <2>1, AloneStep
    <2>4. moved.pc \in SavePCs /\ moved.pc \notin ImportPCs
      BY <2>2, SaveSets DEF SavePCs
    <2>5. BudgetBlocks' /\ OneState' /\ SaveIsCurrent'
      BY <1>1, <1>2, <1>5, <2>2, <2>3, <2>4
      DEF BlockInv, BudgetBlocks, OneState, SaveIsCurrent
    <2>6. BlockIsSaved' /\ ImportBlockIsSaved'
      BY <2>3, <2>4 DEF BlockIsSaved, ImportBlockIsSaved
    <2>7. QED
      BY <2>5, <2>6 DEF BlockInv
  <1>6. QED
    BY <1>4, <1>5 DEF QuotaSave

\* An account whose block could not be saved is suspended for another reason.
LEMMA QuotaSaveFailedEffect ==
    ASSUME StoreInv, BlockInv, NEW p \in Procs, QuotaSaveFailed(p)
    PROVE  /\ cur # 0 /\ cur' = cur /\ stateFile' = stateFile
           /\ op' = [op EXCEPT ![p] = Landing(p, "quotaDone")]
           /\ heap'[cur].guard.blocked /\ heap'[cur].guard.reason = "write"
  <1>1. /\ op[p].pc \in SavePCs /\ op[p].obj \in 1 .. gen
        /\ cur' = cur /\ stateFile' = stateFile
        /\ op' = [op EXCEPT ![p] = Landing(p, "quotaDone")]
    BY DEF QuotaSaveFailed, SavePCs, StoreInv, WorksOnObject, Land, disk
  <1>2. op[p].obj = cur /\ op[p].epoch = heap[cur].epoch
    BY <1>1 DEF BlockInv, SaveIsCurrent
  <1>3. cur \in Objs /\ cur # 0 /\ Current(p) /\ heap[cur].guard \in Guard
    BY <1>1, <1>2, CurrentWhenMapped, Typing
  <1> DEFINE g == [heap[cur].guard EXCEPT !.blocked = TRUE, !.reason = "write"]
  <1>4. heap' = [heap EXCEPT ![cur].guard = g]
    BY <1>2, <1>3 DEF QuotaSaveFailed
  <1>5. g.blocked /\ g.reason = "write"
    BY <1>3 DEF Guard
  <1> HIDE DEF g
  <1>6. heap'[cur].guard = g
    <2>1. heap[cur] \in Account /\ heap \in [Objs -> Account]
      BY <1>3 DEF StoreInv, TypeOK
    <2>2. heap'[cur] = [heap[cur] EXCEPT !.guard = g]
      BY <1>3, <1>4, <2>1
    <2>3. QED
      BY <2>1, <2>2 DEF Account
  <1>7. QED
    BY <1>1, <1>3, <1>5, <1>6

LEMMA QuotaSaveFailedBlock ==
    ASSUME Alone, StoreInv, BlockInv, NEW p \in Procs, QuotaSaveFailed(p)
    PROVE  BlockInv'
  <1> DEFINE landed == Landing(p, "quotaDone")
  <1>1. /\ cur' = cur /\ stateFile' = stateFile
        /\ op' = [op EXCEPT ![p] = landed] /\ landed.pc = "quotaDone"
        /\ heap'[cur].guard.blocked /\ heap'[cur].guard.reason = "write"
    BY QuotaSaveFailedEffect, LandedFields
  <1> HIDE DEF landed
  <1>2. \A q \in Procs : q = p /\ op'[q] = landed
    BY <1>1, AloneStep
  <1>3. landed.pc \notin SavePCs \cup ImportPCs
    BY <1>1, SaveSets
  <1>4. BudgetBlocks' /\ OneState' /\ SaveIsCurrent'
    BY <1>1, <1>2, <1>3
    DEF BlockInv, BudgetBlocks, OneState, SaveIsCurrent, Blocking
  <1>5. BlockIsSaved' /\ ImportBlockIsSaved'
    BY <1>1, <1>2, <1>3 DEF BlockIsSaved, ImportBlockIsSaved
  <1>6. QED
    BY <1>4, <1>5 DEF BlockInv

LEMMA RestartBlock ==
    ASSUME Unlocked, StoreInv, BlockInv, Restart
    PROVE  BlockInv'
  <1>1. /\ stateFile' = stateFile
        /\ \A q \in Procs : op'[q].pc = "idle"
        /\ \/ cur' = 0
           \/ \E r \in authFile : /\ cur' = 1 /\ heap'[1].raw = r
                                  /\ heap'[1].guard = SavedGuard(r)
    BY RestartEffect
  <1>2. \A r \in authFile : /\ Blocking(SavedGuard(r))
                            /\ SavedGuard(r).reason = "budget" => SavedBlock(r.ident)
    BY SavedGuardBlocks DEF BlockInv, BudgetBlocks, StoreInv, TypeOK
  <1>3. BudgetBlocks' /\ OneState' /\ SaveIsCurrent'
    BY <1>1, <1>2, SaveSets DEF BlockInv, BudgetBlocks, OneState, SaveIsCurrent
  <1>4. BlockIsSaved' /\ ImportBlockIsSaved'
    BY <1>1, <1>2, SaveSets DEF BlockIsSaved, ImportBlockIsSaved, SavedBlock
  <1>5. QED
    BY <1>3, <1>4 DEF BlockInv

LEMMA IdleBlock ==
    ASSUME BlockInv, UNCHANGED <<heap, cur, stateFile, op>>
    PROVE  BlockInv'
  BY DEF BlockInv, BudgetBlocks, OneState, SaveIsCurrent, BlockIsSaved,
         ImportBlockIsSaved, SavedBlock

LEMMA InitBlock == Init => BlockInv
  <1> SUFFICES ASSUME Init PROVE BlockInv
    OBVIOUS
  <1>1. \A p \in Procs : op[p].pc = "idle"
    BY DEF Init, Idle
  <1>2. QED
    BY <1>1, SaveSets DEF Init, BlockInv, BudgetBlocks, OneState, SaveIsCurrent,
                          BlockIsSaved, ImportBlockIsSaved

LEMMA NextBlock ==
    /\ Alone /\ Unlocked /\ StoreInv /\ DurableInv /\ BlockInv
    /\ [Next]_vars
    => BlockInv'
  <1> SUFFICES ASSUME Alone, Unlocked, StoreInv, DurableInv, BlockInv, [Next]_vars
               PROVE  BlockInv'
    OBVIOUS
  <1>1. ASSUME NEW p \in Procs, Begin(p) \/ Step(p) PROVE BlockInv'
    <2>1. CASE QuietEffect(p)
      BY <2>1, QuietKeepsBlock
    <2>2. CASE ~QuietEffect(p)
      BY <1>1, <2>2, QuietSteps, ImportBeginBlock, ImportCommitBlock,
         DeleteCommitBlock, QuotaReplyBlock, QuotaSaveBlock, QuotaSaveFailedBlock
      DEF Begin, Step
    <2>3. QED
      BY <2>1, <2>2
  <1>2. CASE UNCHANGED vars \/ Tick
    BY <1>2, IdleBlock DEF vars, Tick, disk
  <1>3. QED
    BY <1>1, <1>2, RestartBlock DEF Next

\* With one operation at a time and no lock carried over by migration, a budget
\* block is in the state file as soon as its save has ended: no replacement of the
\* account, refresh, change or failed write loses it, and a restart finds it.
THEOREM BlockTheorem ==
    ASSUME Alone, Unlocked
    PROVE  Spec => []BlockIsDurable
  <1>1. Exclusive
    BY DEF Exclusive
  <1>2. Spec => []DurableInv
    BY <1>1, DurableInvariance
  <1>3. StoreInv /\ DurableInv /\ BlockInv /\ [Next]_vars => BlockInv'
    BY NextBlock
  <1>4. DurableInv /\ BlockInv => BlockIsDurable
    <2> SUFFICES ASSUME DurableInv, BlockInv, Settled, cur # 0,
                        heap[cur].guard.reason = "budget", NEW r \in authFile
                 PROVE  SavedGuard(r).blocked
      BY DEF BlockIsDurable
    <2>1. r.ident = heap[cur].raw.ident
      BY DEF DurableInv, FileIsAccount, Describes, Settled, CommitPCs, HolderPCs
    <2>2. SavedBlock(r.ident)
      BY <2>1 DEF BlockInv, BlockIsSaved, Settled, SavePCs
    <2>3. PICK s \in stateFile : s.ident = r.ident /\ s.guard.blocked
      BY <2>2 DEF SavedBlock
    <2>4. (CHOOSE x \in stateFile : TRUE) = s
      BY <2>3 DEF BlockInv, OneState
    <2>5. QED
      BY <2>3, <2>4 DEF SavedGuard
  <1>5. QED
    BY <1>2, <1>3, <1>4, InitBlock, Invariance, PTL DEF Spec

-----------------------------------------------------------------------------
LEMMA InheritsWhenNoImport ==
    ASSUME Alone, StoreInv, NEW p \in Procs, NEW r, op' = [op EXCEPT ![p] = r],
           r.pc \notin ImportPCs
    PROVE  ImportInherits'
  BY AloneStep DEF ImportInherits

LEMMA NoisyInherits ==
    ASSUME Alone, StoreInv, NEW p \in Procs,
           \/ ImportBegin(p) \/ ImportCommit(p) \/ DeleteCommit(p)
           \/ QuotaReply(p) \/ QuotaSave(p) \/ QuotaSaveFailed(p)
    PROVE  ImportInherits'
  <1>1. CASE ImportBegin(p)
    <2>1. UNCHANGED <<heap, cur>>
      BY <1>1, ImportBeginEffect
    <2>2. PICK r : /\ op' = [op EXCEPT ![p] = r]
                   /\ r.guard = InheritedGuard(r.raw)
      BY <1>1, ImportBeginEffect
    <2>3. \A q \in Procs : op'[q] = r
      BY <2>2, AloneStep
    <2>4. QED
      BY <2>1, <2>2, <2>3 DEF ImportInherits, InheritedGuard
  <1>2. CASE ImportCommit(p) \/ DeleteCommit(p)
    <2>1. op' = [op EXCEPT ![p] = Idle] /\ Idle.pc \notin ImportPCs
      BY <1>2, LandedFields, SaveSets DEF ImportCommit, DeleteCommit, Return
    <2>2. QED
      BY <2>1, InheritsWhenNoImport
  <1>3. CASE QuotaReply(p)
    <2>1. PICK r : op' = [op EXCEPT ![p] = r] /\ r.pc \in {"quotaDone", "quotaSave"}
      BY <1>3, QuotaReplyShape DEF Answered
    <2>2. QED
      BY <2>1, SaveSets, InheritsWhenNoImport
  <1>4. CASE QuotaSave(p) \/ QuotaSaveFailed(p)
    <2> DEFINE landed == Landing(p, "quotaDone")
               moved == [op[p] EXCEPT !.pc = "quotaSaveFailed"]
    <2>1. op' = [op EXCEPT ![p] = landed] \/ op' = [op EXCEPT ![p] = moved]
      BY <1>4 DEF QuotaSave, QuotaSaveFailed, Land, Goto
    <2>2. "quotaSaveFailed" \in PCs
      BY DEF PCs
    <2>3. landed.pc = "quotaDone" /\ moved.pc = "quotaSaveFailed"
      BY <2>2, LandedFields, MovedFields
    <2> HIDE DEF landed, moved
    <2>4. QED
      BY <2>1, <2>3, SaveSets, InheritsWhenNoImport
  <1>5. QED
    BY <1>1, <1>2, <1>3, <1>4

LEMMA NextInherits ==
    Alone /\ StoreInv /\ DurableInv /\ ImportInherits /\ [Next]_vars => ImportInherits'
  <1> SUFFICES ASSUME Alone, StoreInv, DurableInv, ImportInherits, [Next]_vars
               PROVE  ImportInherits'
    OBVIOUS
  <1>1. ASSUME NEW p \in Procs, Begin(p) \/ Step(p) PROVE ImportInherits'
    BY <1>1, QuietSteps, QuietKeepsInherits, NoisyInherits DEF Begin, Step
  <1>2. CASE UNCHANGED vars \/ Tick
    BY <1>2 DEF vars, Tick, disk, ImportInherits
  <1>3. CASE Restart
    BY <1>3, RestartEffect, SaveSets DEF ImportInherits
  <1>4. QED
    BY <1>1, <1>2, <1>3 DEF Next

LEMMA AnsweredGuard ==
    ASSUME StoreInv, NEW p \in Procs, NEW r, NEW guard, QuotaReply(p), Answered(p, r, guard)
    PROVE  \/ heap'[cur].guard = heap[cur].guard
           \/ \E reset \in Nat, state \in {"fail", "unknown", "allow", "block"} :
                heap'[cur].guard = GuardAfter(heap[cur].guard, state, reset, now)
  <1>1. PICK state \in {"fail", "unknown", "allow", "block"}, reset \in Resets :
          /\ Current(p)
          /\ guard = IF state = "fail" THEN heap[op[p].obj].guard
                     ELSE GuardAfter(heap[op[p].obj].guard, state, reset, now)
          /\ heap' = [heap EXCEPT ![op[p].obj].nextQuota = now + 1,
                                  ![op[p].obj].guard = guard]
          /\ \/ r.pc = "quotaDone" /\ state = "fail"
             \/ /\ r.pc = "quotaSave" /\ r.obj = op[p].obj
                /\ r.epoch = op[p].epoch /\ r.guard = guard
                /\ r.raw = heap[op[p].obj].raw
    BY DEF Answered
  <1>2. op[p].obj = cur
    BY <1>1 DEF Current, QuotaReply, StoreInv, WorksOnObject, OnlyMappedIsLive
  <1>3. heap' = [heap EXCEPT ![cur].nextQuota = now + 1, ![cur].guard = guard]
    BY <1>1, <1>2
  <1>4. \A o \in Objs : /\ SameDocument(heap[o], heap'[o])
                        /\ heap'[o].guard = IF o = cur THEN guard ELSE heap[o].guard
    BY <1>3, GuardEffect
  <1>5. heap'[cur].guard = guard
    BY <1>2, <1>4, Typing DEF QuotaReply, StoreInv, WorksOnObject
  <1>6. reset \in Nat
    BY StoreAssumption
  <1>7. CASE state = "fail"
    BY <1>1, <1>2, <1>5, <1>7
  <1>8. CASE state # "fail"
    BY <1>1, <1>2, <1>5, <1>6, <1>8
  <1>9. QED
    BY <1>7, <1>8

\* One step cannot lift the block of a credential early.
LEMMA CredentialStep ==
    ASSUME StoreInv, DurableInv, ImportInherits, NEW p \in Procs, Begin(p) \/ Step(p),
           cur # 0, cur' # 0, heap[cur].raw.ident = heap'[cur'].raw.ident,
           heap[cur].guard.blocked, ~heap'[cur'].guard.blocked
    PROVE  heap[cur].guard.resetAt # 0 /\ now >= heap[cur].guard.resetAt
  <1>1. cur \in Objs /\ cur \in 1 .. gen /\ heap[cur].guard \in Guard
    BY Typing
  <1>2. CASE QuietEffect(p)
    BY <1>2 DEF QuietEffect
  <1>3. CASE ImportBegin(p) \/ QuotaSave(p) \/ (DeleteCommit(p) /\ UNCHANGED heap)
    BY <1>3 DEF ImportBegin, QuotaSave, DeleteCommit
  <1>4. CASE ImportCommit(p)
    <2>1. op[p].pc \in ImportPCs /\ heap'[cur'].raw = op[p].raw
          /\ heap'[cur'].guard = op[p].guard
      BY <1>4, ImportCommitEffect, PCSets
    <2>2. QED
      BY <2>1 DEF ImportInherits
  <1>5. CASE QuotaSaveFailed(p)
    <2> DEFINE g == [heap[op[p].obj].guard EXCEPT !.blocked = TRUE, !.reason = "write"]
    <2>1. cur' = cur /\ (heap' = heap \/ heap' = [heap EXCEPT ![op[p].obj].guard = g])
      BY <1>5 DEF QuotaSaveFailed
    <2>2. op[p].obj \in 1 .. gen
      BY <1>5 DEF QuotaSaveFailed, StoreInv, WorksOnObject
    <2>3. g.blocked
      BY <2>2, Typing DEF Guard
    <2> HIDE DEF g
    <2>4. heap[cur] \in Account /\ heap \in [Objs -> Account]
      BY <1>1 DEF StoreInv, TypeOK
    <2>5. heap'[cur] = heap[cur] \/ heap'[cur] = [heap[cur] EXCEPT !.guard = g]
      BY <1>1, <2>1, <2>4
    <2>6. QED
      BY <2>1, <2>3, <2>4, <2>5 DEF Account
  <1>6. CASE QuotaReply(p)
    <2>1. cur' = cur
      BY <1>6 DEF QuotaReply
    <2>10. PICK r, guard : heap' = heap \/ Answered(p, r, guard)
      BY <1>6, QuotaReplyShape
    <2>11. Answered(p, r, guard)
      BY <2>1, <2>10
    <2>2. CASE heap'[cur].guard = heap[cur].guard
      BY <2>1, <2>2
    <2>3. CASE heap'[cur].guard # heap[cur].guard
      <3>1. PICK reset \in Nat, state \in {"fail", "unknown", "allow", "block"} :
              heap'[cur].guard = GuardAfter(heap[cur].guard, state, reset, now)
        BY <1>6, <2>3, <2>11, AnsweredGuard
      <3>2. now \in Nat
        BY Typing
      <3>3. QED
        BY <1>1, <2>1, <3>1, <3>2, GuardAfterLatches
    <2>4. QED
      BY <2>2, <2>3
  <1>7. CASE DeleteCommit(p) /\ ~UNCHANGED heap
    BY <1>7 DEF DeleteCommit
  <1>8. QED
    BY <1>2, <1>3, <1>4, <1>5, <1>6, <1>7, QuietSteps DEF Begin, Step

\* With one operation at a time no replacement of the account, whatever controls
\* or lock the new document carries, frees a blocked credential before its reset
\* time.
THEOREM CredentialTheorem ==
    ASSUME Alone
    PROVE  Spec => CredentialLatch
  <1>1. Exclusive
    BY DEF Exclusive
  <1>2. Spec => []DurableInv
    BY <1>1, DurableInvariance
  <1>3. StoreInv /\ DurableInv /\ ImportInherits /\ [Next]_vars => ImportInherits'
    BY NextInherits
  <1>4. Init => ImportInherits
    BY DEF Init, ImportInherits
  <1>5. StoreInv /\ DurableInv /\ ImportInherits /\ [Next]_vars =>
          [/\ ~Restart /\ cur # 0 /\ cur' # 0
           /\ heap[cur].raw.ident = heap'[cur'].raw.ident
           /\ heap[cur].guard.blocked /\ ~heap'[cur'].guard.blocked
           => heap[cur].guard.resetAt # 0 /\ now >= heap[cur].guard.resetAt]_vars
    <2> SUFFICES ASSUME StoreInv, DurableInv, ImportInherits, Next, ~Restart,
                        cur # 0, cur' # 0,
                        heap[cur].raw.ident = heap'[cur'].raw.ident,
                        heap[cur].guard.blocked, ~heap'[cur'].guard.blocked
                 PROVE  heap[cur].guard.resetAt # 0 /\ now >= heap[cur].guard.resetAt
      OBVIOUS
    <2>1. CASE Tick
      BY <2>1 DEF Tick
    <2>2. QED
      BY <2>1, CredentialStep DEF Next
  <1>6. QED
    BY <1>2, <1>3, <1>4, <1>5, Invariance, PTL DEF Spec, CredentialLatch
=============================================================================
