---------------------------- MODULE AccountStore ----------------------------
(***************************************************************************)
(* One credential name of the account store (internal/app/accounts.go):    *)
(* the in-memory account objects that have carried the name since the      *)
(* process started, the credential file under auths/, the budget state     *)
(* file under state/, and the operations that race on them.  Different     *)
(* names share nothing but the mutexes, so one name is the whole story.    *)
(*                                                                         *)
(* An operation is cut exactly where it drops a lock.  s.mu and a.mu       *)
(* protect single steps; persistMu is held across steps and is a variable. *)
(* Values read before an unlock live in op[p] until they are used.         *)
(***************************************************************************)
EXTENDS Naturals, FiniteSets

CONSTANTS
    Procs,      \* goroutines: HTTP handlers and monitor workers
    Idents,     \* identity(raw): hash of host and GitHub token
    Controls,   \* values users give the disabled control
    Marks,      \* budget_guard_migration markers an imported file may carry
    Resets,     \* quota reset times the provider may report; 0 is Go's zero time
    Ops,        \* the operations the environment may start
    IOFaults,   \* whether a file operation may fail
    MaxGen,     \* bound: account objects created per process lifetime
    MaxVer,     \* bound: credential refreshes
    MaxTime,    \* bound: clock
    Nobody      \* owner of a free mutex

AllOps == {"import", "update", "delete", "quota", "refresh", "crash"}

ASSUME StoreAssumption ==
    /\ MaxGen \in Nat \ {0} /\ MaxVer \in Nat /\ MaxTime \in Nat \ {0}
    /\ Idents # {} /\ Resets \subseteq Nat /\ Controls \subseteq BOOLEAN
    /\ Ops \subseteq AllOps
    /\ IOFaults \in BOOLEAN
    /\ Nobody \notin Procs

VARIABLES
    now,        \* coarse clock; every interval of the code is one tick
    heap,       \* account objects, by order of creation
    gen,        \* how many objects have been created since the last start
    cur,        \* s.accounts[name]: an object, or 0
    authFile,   \* at most one credential document
    stateFile,  \* at most one accountState document
    persistMu,  \* holder of s.persistMu
    op          \* what each goroutine is doing, with its local variables

disk == <<authFile, stateFile>>
vars == <<now, heap, gen, cur, authFile, stateFile, persistMu, op>>

Objs == 1 .. MaxGen

Guard == [blocked : BOOLEAN, reason : {"", "budget", "write"}, resetAt : Nat]
NoGuard == [blocked |-> FALSE, reason |-> "", resetAt |-> 0]

ASSUME MarksAssumption == Marks \subseteq Guard

\* A credential document: identity, provider-owned part (session token and
\* model catalog, as a version), user-owned controls, migration marker.
Raw == [ident : Idents, ver : Nat, off : BOOLEAN, mark : Marks \cup {NoGuard}]

State == [ident : Idents, guard : Guard]

Account ==
    [raw : Raw, ver : Nat, epoch : Nat, deleted : BOOLEAN, off : BOOLEAN,
     guard : Guard, nextQuota : Nat, quotaFlight : BOOLEAN,
     refreshFlight : BOOLEAN]

PCs == {"idle", "importWrite", "importCommit", "updateWrite", "updateCommit",
        "deleteFile", "deleteCommit", "quotaWait", "quotaSave",
        "quotaSaveFailed", "quotaDone", "refreshWait", "persistWrite",
        "persistCommit", "refreshDone"}

QuotaPCs == {"quotaWait", "quotaSave", "quotaSaveFailed", "quotaDone"}
RefreshPCs == {"refreshWait", "persistWrite", "persistCommit", "refreshDone"}
\* These hold persistMu between two of their steps.
HolderPCs == {"importWrite", "importCommit", "updateCommit", "deleteCommit",
              "persistCommit"}

\* Locals: the object worked on (import: the previous one), the epoch read
\* with it, the document to write, the guard to install or save, and the value
\* for a.disabled.
Op == [pc : PCs, obj : 0 .. MaxGen, epoch : Nat, raw : Raw,
       guard : Guard, off : BOOLEAN]

BlankRaw == [ident |-> CHOOSE i \in Idents : TRUE, ver |-> 0, off |-> FALSE,
             mark |-> NoGuard]

Idle == [pc |-> "idle", obj |-> 0, epoch |-> 0, raw |-> BlankRaw,
         guard |-> NoGuard, off |-> FALSE]

-----------------------------------------------------------------------------
\* importAccount installs this object; its quota is due at once.
NewAccount(raw, epoch, guard) ==
    [raw |-> raw, ver |-> raw.ver, epoch |-> epoch, deleted |-> FALSE,
     off |-> raw.off, guard |-> guard, nextQuota |-> 0,
     quotaFlight |-> FALSE, refreshFlight |-> FALSE]

\* Mutant: the state file is ignored.
SavedGuardIgnored(raw) == IF raw.mark.blocked THEN raw.mark ELSE NoGuard

\* The guard an account with no live predecessor starts from: the state file
\* when it is about the same identity, else a blocked migration marker.
SavedGuard(raw) ==
    IF \E s \in stateFile : s.ident = raw.ident
    THEN (CHOOSE s \in stateFile : TRUE).guard
    ELSE IF raw.mark.blocked THEN raw.mark ELSE NoGuard

\* Mutant: a replacing import starts afresh.
InheritedGuardFresh(raw) == IF cur = 0 THEN SavedGuard(raw) ELSE NoGuard

\* The guard a replacing import starts from.
InheritedGuard(raw) ==
    IF cur = 0 THEN SavedGuard(raw)
    ELSE IF heap[cur].raw.ident = raw.ident THEN heap[cur].guard
    ELSE IF raw.mark.blocked THEN raw.mark ELSE NoGuard

Goto(p, pc) == op' = [op EXCEPT ![p].pc = pc]
Return(p) == op' = [op EXCEPT ![p] = Idle]

\* All that is left to do is to release a flight; the other locals are dead.
Landing(p, pc) == [Idle EXCEPT !.pc = pc, !.obj = op[p].obj]
Land(p, pc) == op' = [op EXCEPT ![p] = Landing(p, pc)]

\* Mutant: results are applied to whatever the object has become.
CurrentUnchecked(p) == op[p].pc # "idle"

\* A result computed before an unlock may still be applied to the object.
Current(p) == /\ ~heap[op[p].obj].deleted
              /\ heap[op[p].obj].epoch = op[p].epoch

\* Mutant: a replaced object stays usable.
RetireEpochOnly(a) == [a EXCEPT !.epoch = @ + 1]

Retire(a) == [a EXCEPT !.deleted = TRUE, !.epoch = @ + 1]

\* Slots of objects that do not exist yet.
BlankHeap == [o \in Objs |-> NewAccount(BlankRaw, 0, NoGuard)]

-----------------------------------------------------------------------------
Init ==
    /\ now = 1
    /\ heap = BlankHeap
    /\ gen = 0
    /\ cur = 0
    /\ authFile = {}
    /\ stateFile = {}
    /\ persistMu = Nobody
    /\ op = [p \in Procs |-> Idle]

-----------------------------------------------------------------------------
\* importAccount, up to the credential write.  Under persistMu it reads the
\* current object (or the state file) and settles epoch and guard.
ImportBegin(p) ==
    /\ "import" \in Ops /\ op[p].pc = "idle" /\ persistMu = Nobody
    /\ gen < MaxGen
    /\ \E i \in Idents, off \in Controls, mark \in Marks :
         LET raw == [ident |-> i, ver |-> 0, off |-> off, mark |-> mark] IN
         op' = [op EXCEPT ![p] =
                 [Idle EXCEPT !.pc = "importWrite", !.obj = cur, !.raw = raw,
                              !.epoch = IF cur = 0 THEN 1
                                        ELSE heap[cur].epoch + 1,
                              !.guard = InheritedGuard(raw)]]
    /\ persistMu' = p
    /\ UNCHANGED <<now, heap, gen, cur, disk>>

\* Mutant: the error of the credential write is dropped.
ImportWriteUnchecked(p) ==
    /\ op[p].pc = "importWrite"
    /\ authFile' \in {{op[p].raw}} \cup (IF IOFaults THEN {authFile} ELSE {})
    /\ Goto(p, "importCommit")
    /\ UNCHANGED <<now, heap, gen, cur, stateFile, persistMu>>

\* Mutant: persistMu is kept when the write fails.
ImportWriteKeepsLock(p) ==
    /\ op[p].pc = "importWrite"
    /\ \/ authFile' = {op[p].raw} /\ Goto(p, "importCommit")
       \/ IOFaults /\ Return(p) /\ UNCHANGED authFile
    /\ UNCHANGED <<now, heap, gen, cur, stateFile, persistMu>>

ImportWrite(p) ==
    /\ op[p].pc = "importWrite"
    /\ \/ /\ authFile' = {op[p].raw}
          /\ Goto(p, "importCommit")
          /\ UNCHANGED persistMu
       \/ /\ IOFaults
          /\ Return(p) /\ persistMu' = Nobody
          /\ UNCHANGED authFile
    /\ UNCHANGED <<now, heap, gen, cur, stateFile>>

\* The install under s.mu: the predecessor is retired, the new object published.
ImportCommit(p) ==
    /\ op[p].pc = "importCommit"
    /\ IF cur # op[p].obj
       THEN UNCHANGED <<heap, gen, cur>>
       ELSE /\ heap' = [o \in Objs |->
                 IF o = gen + 1
                 THEN NewAccount(op[p].raw, op[p].epoch, op[p].guard)
                 ELSE IF o = cur THEN Retire(heap[o]) ELSE heap[o]]
            /\ gen' = gen + 1
            /\ cur' = gen + 1
    /\ Return(p) /\ persistMu' = Nobody
    /\ UNCHANGED <<now, disk>>

-----------------------------------------------------------------------------
\* updateAccount: snapshot under a.mu.  The disabled argument is optional; a
\* priority change is an update that leaves it out.
UpdateBegin(p) ==
    /\ "update" \in Ops /\ op[p].pc = "idle"
    /\ cur # 0 /\ ~heap[cur].deleted
    /\ \E given \in BOOLEAN, value \in Controls :
         LET Asked(old) == IF given THEN value ELSE old IN
         op' = [op EXCEPT ![p] =
                 [Idle EXCEPT !.pc = "updateWrite", !.obj = cur,
                              !.epoch = heap[cur].epoch,
                              !.raw = [heap[cur].raw EXCEPT !.off = Asked(@)],
                              !.off = Asked(heap[cur].off)]]
    /\ UNCHANGED <<now, heap, gen, cur, disk, persistMu>>

\* atomicWrite of the credential file: temporary file, fsync, rename.  Shared by
\* updateAccount and persistAuth, which take persistMu only here.
WriteCredential(p, from, done, failed) ==
    /\ op[p].pc = from /\ persistMu = Nobody
    /\ \/ /\ authFile' = {op[p].raw}
          /\ persistMu' = p
          /\ Goto(p, done)
       \/ /\ IOFaults
          /\ op' = [op EXCEPT ![p] = failed]
          /\ UNCHANGED <<authFile, persistMu>>
    /\ UNCHANGED <<now, heap, gen, cur, stateFile>>

UpdateWrite(p) == WriteCredential(p, "updateWrite", "updateCommit", Idle)

\* Mutant: the cached document is not replaced.
UpdateCommitKeepsRaw(p) ==
    /\ op[p].pc = "updateCommit"
    /\ heap' = IF Current(p) THEN [heap EXCEPT ![op[p].obj].off = op[p].off]
               ELSE heap
    /\ Return(p) /\ persistMu' = Nobody
    /\ UNCHANGED <<now, gen, cur, disk>>

\* Only now are deletion and replacement noticed; the file is already written.
UpdateCommit(p) ==
    /\ op[p].pc = "updateCommit"
    /\ heap' = IF Current(p)
               THEN [heap EXCEPT ![op[p].obj].off = op[p].off,
                                 ![op[p].obj].raw = op[p].raw]
               ELSE heap
    /\ Return(p) /\ persistMu' = Nobody
    /\ UNCHANGED <<now, gen, cur, disk>>

-----------------------------------------------------------------------------
\* deleteAccount: the lookup under s.mu precedes persistMu.
DeleteBegin(p) ==
    /\ "delete" \in Ops /\ op[p].pc = "idle" /\ cur # 0
    /\ op' = [op EXCEPT ![p] = [Idle EXCEPT !.pc = "deleteFile", !.obj = cur]]
    /\ UNCHANGED <<now, heap, gen, cur, disk, persistMu>>

\* Removing a missing file is an error and leaves the account in place.
DeleteFile(p) ==
    /\ op[p].pc = "deleteFile" /\ persistMu = Nobody
    /\ \/ /\ ~heap[op[p].obj].deleted /\ authFile # {}
          /\ authFile' = {}
          /\ op' = [op EXCEPT ![p].pc = "deleteCommit",
                              ![p].epoch = heap[op[p].obj].epoch]
          /\ persistMu' = p
       \/ /\ heap[op[p].obj].deleted \/ authFile = {} \/ IOFaults
          /\ Return(p)
          /\ UNCHANGED <<authFile, persistMu>>
    /\ UNCHANGED <<now, heap, gen, cur, stateFile>>

\* The error of removing the state file is ignored.
DeleteCommit(p) ==
    /\ op[p].pc = "deleteCommit"
    /\ IF cur # op[p].obj \/ ~Current(p)
       THEN UNCHANGED <<heap, cur, stateFile>>
       ELSE /\ heap' = [heap EXCEPT ![cur] = Retire(@)]
            /\ cur' = 0
            /\ stateFile' \in {{}} \cup (IF IOFaults THEN {stateFile} ELSE {})
    /\ Return(p) /\ persistMu' = Nobody
    /\ UNCHANGED <<now, gen, authFile>>

-----------------------------------------------------------------------------
\* Mutant: any allow with a later reset lifts.
GuardAfterEager(g, state, reset, t) ==
    CASE state = "block" ->
           [blocked |-> TRUE, reason |-> "budget", resetAt |-> reset]
      [] state = "allow" /\ reset > t -> NoGuard
      [] OTHER -> g

\* What a quota answer makes of the guard.  A block latches, and keeps its reset
\* time until that time has passed and a later one is reported.  An allow lifts
\* the latch only in a new cycle; with no reset time known it only adopts one.
GuardAfter(g, state, reset, t) ==
    CASE state = "block" ->
           [blocked |-> TRUE, reason |-> "budget",
            resetAt |-> IF \/ ~g.blocked \/ g.resetAt = 0
                           \/ t >= g.resetAt /\ reset > g.resetAt
                        THEN reset ELSE g.resetAt]
      [] state = "allow" /\ g.blocked /\ g.resetAt # 0 /\ t >= g.resetAt
             /\ reset > g.resetAt /\ reset > t -> NoGuard
      [] state = "allow" /\ g.blocked /\ g.resetAt = 0 ->
           [g EXCEPT !.resetAt = reset]
      [] OTHER -> g

\* checkQuota: one query per object; others wait for it or find it not due.
QuotaBegin(p) ==
    /\ "quota" \in Ops /\ op[p].pc = "idle"
    /\ \E o \in 1 .. gen :
         /\ ~heap[o].deleted /\ ~heap[o].quotaFlight
         /\ now >= heap[o].nextQuota
         /\ heap' = [heap EXCEPT ![o].quotaFlight = TRUE]
         /\ op' = [op EXCEPT ![p] = [Idle EXCEPT !.pc = "quotaWait", !.obj = o,
                                                 !.epoch = heap[o].epoch]]
    /\ UNCHANGED <<now, gen, cur, disk, persistMu>>

\* The provider answers (or the 15s timeout does); a valid answer moves the guard
\* and is to be saved.  A failed or stale one changes no guard.
QuotaReply(p) ==
    /\ op[p].pc = "quotaWait"
    /\ \E state \in {"fail", "unknown", "allow", "block"}, reset \in Resets :
         LET o == op[p].obj
             guard == IF state = "fail" THEN heap[o].guard
                      ELSE GuardAfter(heap[o].guard, state, reset, now)
         IN IF Current(p)
            THEN /\ heap' = [heap EXCEPT ![o].nextQuota = now + 1,
                                         ![o].guard = guard]
                 /\ IF state = "fail" THEN Land(p, "quotaDone")
                    ELSE op' = [op EXCEPT ![p].pc = "quotaSave",
                                          ![p].guard = guard,
                                          ![p].raw = heap[o].raw]
            ELSE Land(p, "quotaDone") /\ UNCHANGED heap
    /\ UNCHANGED <<now, gen, cur, disk, persistMu>>

\* saveStateSnapshot: takes persistMu for the write alone, checks nothing.
QuotaSave(p) ==
    /\ op[p].pc = "quotaSave" /\ persistMu = Nobody
    /\ \/ /\ stateFile' = {[ident |-> op[p].raw.ident, guard |-> op[p].guard]}
          /\ Land(p, "quotaDone")
       \/ /\ IOFaults
          /\ Goto(p, "quotaSaveFailed")
          /\ UNCHANGED stateFile
    /\ UNCHANGED <<now, heap, gen, cur, authFile, persistMu>>

\* An account whose state cannot be saved is suspended.
QuotaSaveFailed(p) ==
    /\ op[p].pc = "quotaSaveFailed"
    /\ heap' = IF Current(p)
               THEN [heap EXCEPT ![op[p].obj].guard =
                       [@ EXCEPT !.blocked = TRUE, !.reason = "write"]]
               ELSE heap
    /\ Land(p, "quotaDone")
    /\ UNCHANGED <<now, gen, cur, disk, persistMu>>

\* Mutant: the mark of an object that was replaced meanwhile is left up.
QuotaDoneIfLive(p) ==
    /\ op[p].pc = "quotaDone"
    /\ heap' = IF heap[op[p].obj].deleted THEN heap
               ELSE [heap EXCEPT ![op[p].obj].quotaFlight = FALSE]
    /\ Return(p)
    /\ UNCHANGED <<now, gen, cur, disk, persistMu>>

QuotaDone(p) ==
    /\ op[p].pc = "quotaDone"
    /\ heap' = [heap EXCEPT ![op[p].obj].quotaFlight = FALSE]
    /\ Return(p)
    /\ UNCHANGED <<now, gen, cur, disk, persistMu>>

-----------------------------------------------------------------------------
\* refresh and catalog share one flight per object.  Management may force either
\* at any time, so the timers the monitor and inference obey restrict nothing.
RefreshBegin(p) ==
    /\ "refresh" \in Ops /\ op[p].pc = "idle"
    /\ \E o \in 1 .. gen :
         /\ ~heap[o].deleted /\ ~heap[o].refreshFlight
         /\ heap' = [heap EXCEPT ![o].refreshFlight = TRUE]
         /\ op' = [op EXCEPT ![p] =
                     [Idle EXCEPT !.pc = "refreshWait", !.obj = o,
                                  !.epoch = heap[o].epoch,
                                  !.raw = [heap[o].raw EXCEPT !.ver = heap[o].ver]]]
    /\ UNCHANGED <<now, gen, cur, disk, persistMu>>

\* The provider answers, and persistAuth snapshots the user-owned controls under
\* a.mu.  A failed answer, or a catalog with nothing to persist, skips it.
RefreshReply(p) ==
    /\ op[p].pc = "refreshWait"
    /\ LET a == heap[op[p].obj] IN
       \/ Land(p, "refreshDone")
       \/ /\ ~a.deleted /\ op[p].raw.ver < MaxVer
          /\ op' = [op EXCEPT ![p].pc = "persistWrite",
                              ![p].epoch = a.epoch,
                              ![p].raw = [a.raw EXCEPT
                                            !.ver = op[p].raw.ver + 1]]
    /\ UNCHANGED <<now, heap, gen, cur, disk, persistMu>>

PersistWrite(p) ==
    WriteCredential(p, "persistWrite", "persistCommit",
                    Landing(p, "refreshDone"))

PersistCommit(p) ==
    /\ op[p].pc = "persistCommit"
    /\ heap' = IF Current(p)
               THEN [heap EXCEPT ![op[p].obj].raw = op[p].raw,
                                 ![op[p].obj].ver = op[p].raw.ver]
               ELSE heap
    /\ Land(p, "refreshDone")
    /\ persistMu' = Nobody
    /\ UNCHANGED <<now, gen, cur, disk>>

\* The end of refresh or catalog: the flight is released whatever happened.
RefreshDone(p) ==
    /\ op[p].pc = "refreshDone"
    /\ heap' = [heap EXCEPT ![op[p].obj].refreshFlight = FALSE]
    /\ Return(p)
    /\ UNCHANGED <<now, gen, cur, disk, persistMu>>

Tick == /\ now < MaxTime
        /\ now' = now + 1
        /\ UNCHANGED <<heap, gen, cur, disk, persistMu, op>>

\* The process dies at any point and starts again: loadAccounts imports the
\* credential file, and only the files carry anything over.
Restart ==
    /\ "crash" \in Ops
    /\ IF authFile = {}
       THEN gen' = 0 /\ cur' = 0 /\ heap' = BlankHeap
       ELSE LET raw == CHOOSE r \in authFile : TRUE IN
            /\ gen' = 1 /\ cur' = 1
            /\ heap' = [BlankHeap EXCEPT ![1] =
                           NewAccount(raw, 1, SavedGuard(raw))]
    /\ persistMu' = Nobody
    /\ op' = [p \in Procs |-> Idle]
    /\ UNCHANGED <<now, disk>>

-----------------------------------------------------------------------------
\* Starting an operation is up to the environment.
Begin(p) == \/ ImportBegin(p) \/ UpdateBegin(p) \/ DeleteBegin(p)
            \/ QuotaBegin(p) \/ RefreshBegin(p)

\* Once started, an operation is carried on by its goroutine.
Step(p) == \/ ImportWrite(p) \/ ImportCommit(p)
           \/ UpdateWrite(p) \/ UpdateCommit(p)
           \/ DeleteFile(p) \/ DeleteCommit(p)
           \/ QuotaReply(p) \/ QuotaSave(p) \/ QuotaSaveFailed(p) \/ QuotaDone(p)
           \/ RefreshReply(p) \/ PersistWrite(p) \/ PersistCommit(p)
           \/ RefreshDone(p)

Next == \/ \E p \in Procs : Begin(p) \/ Step(p)
        \/ Tick
        \/ Restart

Spec == Init /\ [][Next]_vars

\* A goroutine is never stuck: provider calls time out, and a Go mutex hands
\* itself to a waiter that has waited too long, so no one waits forever for
\* persistMu, though others may take it in between (hence strong fairness).
FairSpec == Spec /\ \A p \in Procs : SF_vars(Step(p))

-----------------------------------------------------------------------------
\* Every variable holds what the code's types allow.
TypeOK ==
    /\ now \in Nat
    /\ heap \in [Objs -> Account]
    /\ gen \in 0 .. MaxGen
    /\ cur \in 0 .. MaxGen
    /\ authFile \in SUBSET Raw
    /\ stateFile \in SUBSET State
    /\ persistMu \in Procs \cup {Nobody}
    /\ op \in [Procs -> Op]

\* The map is the only way to a usable object: a live object is the one in
\* s.accounts, and what s.accounts holds is live.
OnlyMappedIsLive == \A o \in 1 .. gen : ~heap[o].deleted <=> o = cur

\* A flight mark is up exactly while one goroutine works under it, so no query
\* or refresh ever runs twice on an object and no waiter waits for nobody.
FlightHasOwner ==
    \A o \in 1 .. gen :
      /\ heap[o].quotaFlight =
           (\E p \in Procs : op[p].pc \in QuotaPCs /\ op[p].obj = o)
      /\ heap[o].refreshFlight =
           (\E p \in Procs : op[p].pc \in RefreshPCs /\ op[p].obj = o)
      /\ \A p, q \in Procs :
           /\ op[p].obj = o /\ op[q].obj = o
           /\ \/ op[p].pc \in QuotaPCs /\ op[q].pc \in QuotaPCs
              \/ op[p].pc \in RefreshPCs /\ op[q].pc \in RefreshPCs
           => p = q

\* An object that was retired before this step is as it was, but for its flights.
Frozen(o) == heap[o].deleted /\ heap'[o].deleted =>
               \A f \in {"raw", "ver", "off", "guard", "epoch", "nextQuota"} :
                 heap'[o][f] = heap[o][f]

\* Nobody writes to a retired object: results that come back for it (a quota
\* answer, a refreshed credential, a user's change) are dropped.  Only its
\* flight marks, which no one reads any more, may move.
RetiredIsFrozen == [][\A o \in Objs : Frozen(o)]_vars

\* Within one process, no failed query, failed save, larger budget, credential
\* refresh or change of controls lifts the guard of an account object: each
\* object implements BudgetLatch (the README's promise on budget protection).
Latch(o) == INSTANCE BudgetLatch WITH
              exists <- o <= gen,
              blocked <- o <= gen /\ heap[o].guard.blocked,
              resetAt <- IF o <= gen THEN heap[o].guard.resetAt ELSE 0

LatchesStart == \A o \in Objs : Latch(o)!Init
LatchStep(o) == Latch(o)!Next \/ UNCHANGED <<now, Latch(o)!latch>>
LatchesStep == \A o \in Objs : LatchStep(o)

ObjectsLatch == LatchesStart /\ [][LatchesStep]_vars

\* The same for the credential rather than the object (README: only the reset
\* time and a valid quota of the new cycle restore the account), whichever
\* object carries it.
CredentialLatch ==
    [][/\ ~Restart /\ cur # 0 /\ cur' # 0
       /\ heap[cur].raw.ident = heap'[cur'].raw.ident
       /\ heap[cur].guard.blocked /\ ~heap'[cur'].guard.blocked
       => heap[cur].guard.resetAt # 0 /\ now >= heap[cur].guard.resetAt]_vars

\* No operation is between two of its steps on the files.
Settled ==
    \A p \in Procs :
      op[p].pc \notin HolderPCs \cup {"quotaSave", "quotaSaveFailed"}

\* What a restart would load is the account in memory: one that was removed stays
\* removed, and one that was replaced does not come back.
DiskIsCurrent ==
    Settled => \A r \in authFile : cur # 0 /\ r.ident = heap[cur].raw.ident

\* A user's disable survives a restart.
ControlsAreDurable ==
    Settled /\ cur # 0 => \A r \in authFile : r.off = heap[cur].off

\* A budget block in force is what a restart would load.
BlockIsDurable ==
    Settled /\ cur # 0 /\ heap[cur].guard.reason = "budget" =>
      \A r \in authFile : SavedGuard(r).blocked

\* Every quota query and every refresh ends and lets its waiters go.
FlightsLand ==
    \A o \in Objs : /\ heap[o].quotaFlight ~> ~heap[o].quotaFlight
                    /\ heap[o].refreshFlight ~> ~heap[o].refreshFlight
=============================================================================
