-------------------------- MODULE MemoryGateProofs --------------------------
(***************************************************************************)
(* Proofs about MemoryGate, for any number of goroutines and any budget.   *)
(***************************************************************************)
EXTENDS MemoryGate, FiniteSetTheorems, WellFoundedInduction, TLAPS

\* Enough of the types.  That the count is the sum of the leases, hence never
\* negative, is proved below and not needed here.
GateTypes == /\ used \in Int
             /\ weight \in [Procs -> Nat]
             /\ pc \in [Procs -> PCs]
             /\ \A p \in Procs : pc[p] \in {"acquire", "wait"} =>
                                   weight[p] \in Declared

\* The inductive invariant.
GateInv == GateTypes /\ WithinBudget /\ NoLostWakeup

LEMMA GateInit == Init => GateInv
  BY GateAssumption DEF Init, GateInv, GateTypes, WithinBudget, NoLostWakeup, PCs

\* When every reservation fits into the empty gate, an idle gate is not special.
LEMMA FitsIsRoom ==
    ASSUME NEW w \in Declared, used \in Int
    PROVE  Fits(w) <=> used + w <= Capacity
  BY GateAssumption DEF Fits

\* Steps that neither lower the count nor take anybody's channel keep everyone's
\* sleep sound.
LEMMA ArriveStep ==
    ASSUME GateInv, NEW p \in Procs, Arrive(p)
    PROVE  GateInv'
  <1>1. PICK w \in Declared : weight' = [weight EXCEPT ![p] = w]
    BY DEF Arrive
  <1>2. GateTypes'
    BY <1>1, GateAssumption DEF Arrive, GateInv, GateTypes, PCs
  <1>3. NoLostWakeup'
    BY <1>1 DEF Arrive, GateInv, GateTypes, NoLostWakeup, Fits
  <1>4. QED
    BY <1>2, <1>3 DEF Arrive, GateInv, WithinBudget

LEMMA AcquireStep ==
    ASSUME GateInv, NEW p \in Procs, Acquire(p)
    PROVE  GateInv'
  <1>1. weight[p] \in Declared /\ weight[p] \in Nat /\ used \in Int
    BY DEF Acquire, GateInv, GateTypes
  <1>2. CASE Fits(weight[p])
    <2>1. used' = used + weight[p] /\ pc' = [pc EXCEPT ![p] = "read"]
          /\ UNCHANGED <<weight, closed>>
      BY <1>2 DEF Acquire
    <2>2. WithinBudget'
      BY <1>1, <1>2, <2>1, FitsIsRoom, GateAssumption DEF WithinBudget
    <2>3. GateTypes'
      BY <1>1, <2>1 DEF GateInv, GateTypes, PCs
    <2>4. NoLostWakeup'
      <3> SUFFICES ASSUME NEW q \in Procs, pc'[q] = "wait", q \notin closed'
                   PROVE  ~Fits(weight[q])'
        BY DEF NoLostWakeup
      <3>1. pc[q] = "wait" /\ q \notin closed /\ weight[q] \in Declared
            /\ weight[q] \in Nat
        BY <2>1 DEF GateInv, GateTypes
      <3>2. ~(used + weight[q] <= Capacity)
        BY <1>1, <3>1, FitsIsRoom DEF GateInv, NoLostWakeup
      <3>3. ~(used' + weight[q] <= Capacity) /\ used' # 0
        BY <1>1, <2>1, <3>1, <3>2, GateAssumption
      <3>4. QED
        BY <2>1, <3>3 DEF Fits
    <2>5. QED
      BY <2>2, <2>3, <2>4 DEF GateInv
  <1>3. CASE ~Fits(weight[p])
    <2>1. UNCHANGED <<used, weight, closed>> /\ pc' = [pc EXCEPT ![p] = "wait"]
      BY <1>3 DEF Acquire
    <2>2. GateTypes' /\ WithinBudget'
      BY <1>1, <2>1 DEF GateInv, GateTypes, WithinBudget, PCs
    <2>3. NoLostWakeup'
      BY <1>3, <2>1 DEF GateInv, GateTypes, NoLostWakeup, Fits
    <2>4. QED
      BY <2>2, <2>3 DEF GateInv
  <1>4. QED
    BY <1>2, <1>3

LEMMA WakeStep ==
    ASSUME GateInv, NEW p \in Procs, Wake(p) \/ GiveUp(p)
    PROVE  GateInv'
  <1>1. GateTypes' /\ WithinBudget'
    BY DEF Wake, GiveUp, GateInv, GateTypes, WithinBudget, PCs
  <1>2. NoLostWakeup'
    BY DEF Wake, GiveUp, GateInv, GateTypes, NoLostWakeup, Fits
  <1>3. QED
    BY <1>1, <1>2 DEF GateInv

\* A step that lowers the count wakes all who sleep.
LEMMA ResizeStep ==
    ASSUME GateInv, NEW p \in Procs, NEW w \in Nat, ResizeTo(p, w),
           pc[p] \in {"read", "run"}, NEW next \in {"run", "idle"},
           pc' = [pc EXCEPT ![p] = next]
    PROVE  GateInv'
  <1>1. weight[p] \in Nat /\ used \in Int /\ next \in PCs
    BY DEF GateInv, GateTypes, PCs
  <1>2. CASE w >= weight[p]
    <2>1. UNCHANGED <<used, weight, closed>>
      BY <1>2 DEF ResizeTo
    <2>2. QED
      BY <1>1, <2>1 DEF GateInv, GateTypes, WithinBudget, NoLostWakeup, Fits
  <1>3. CASE ~(w >= weight[p])
    <2>1. /\ used' = used - (weight[p] - w)
          /\ weight' = [weight EXCEPT ![p] = w]
          /\ closed' = {q \in Procs : pc[q] = "wait"}
      BY <1>3 DEF ResizeTo
    <2>2. GateTypes'
      BY <1>1, <2>1 DEF GateInv, GateTypes
    <2>3. WithinBudget'
      BY <1>1, <1>3, <2>1, GateAssumption DEF GateInv, WithinBudget
    <2>4. NoLostWakeup'
      BY <2>1 DEF GateInv, GateTypes, NoLostWakeup
    <2>5. QED
      BY <2>2, <2>3, <2>4 DEF GateInv
  <1>4. QED
    BY <1>2, <1>3

LEMMA GateNext == GateInv /\ [Next]_vars => GateInv'
  <1> SUFFICES ASSUME GateInv, [Next]_vars PROVE GateInv'
    OBVIOUS
  <1>1. ASSUME NEW p \in Procs, Resize(p) PROVE GateInv'
    <2>1. PICK w \in MinWeight .. weight[p] : ResizeTo(p, w)
      BY <1>1 DEF Resize
    <2>2. w \in Nat
      BY GateAssumption DEF GateInv, GateTypes
    <2>3. QED
      BY <1>1, <2>1, <2>2, ResizeStep DEF Resize
  <1>2. ASSUME NEW p \in Procs, Release(p) PROVE GateInv'
    BY <1>2, ResizeStep DEF Release
  <1>3. CASE Quiet \/ UNCHANGED vars
    BY <1>3 DEF Quiet, vars, GateInv, GateTypes, WithinBudget, NoLostWakeup, Fits
  <1>4. QED
    BY <1>1, <1>2, <1>3, ArriveStep, AcquireStep, WakeStep DEF Next, Step

\* The bodies in progress never exceed the memory budget, for any budget and any
\* number of requests.
THEOREM BudgetTheorem == Spec => []WithinBudget
  <1>1. GateInv => WithinBudget
    BY DEF GateInv
  <1>2. QED
    BY <1>1, GateInit, GateNext, PTL DEF Spec

\* No request ever sleeps in acquire while there is room for it, unless its
\* channel has been closed and it is about to look again.
THEOREM WakeupTheorem == Spec => []NoLostWakeup
  <1>1. GateInv => NoLostWakeup
    BY DEF GateInv
  <1>2. QED
    BY <1>1, GateInit, GateNext, PTL DEF Spec

\* Every variable of the gate keeps to its type, whatever the weights are.
THEOREM GateTypeCorrect == Spec => []TypeOK
  <1>1. Init => TypeOK
    BY GateAssumption DEF Init, TypeOK, PCs
  <1>2. ASSUME TypeOK, [Next]_vars
        PROVE  TypeOK'
    <2> USE GateAssumption DEF TypeOK, PCs
    <2>1. ASSUME NEW p \in Procs, NEW w \in Nat, ResizeTo(p, w)
          PROVE  /\ used' \in Int /\ weight' \in [Procs -> Nat]
                 /\ closed' \in SUBSET Procs
      BY <1>2, <2>1 DEF ResizeTo
    <2>2. ASSUME NEW p \in Procs, Arrive(p)
          PROVE  TypeOK'
      BY <1>2, <2>2 DEF Arrive
    <2>3. ASSUME NEW p \in Procs, Acquire(p)
          PROVE  TypeOK'
      BY <1>2, <2>3 DEF Acquire
    <2>4. ASSUME NEW p \in Procs, Wake(p)
          PROVE  TypeOK'
      BY <1>2, <2>4 DEF Wake
    <2>5. ASSUME NEW p \in Procs, GiveUp(p)
          PROVE  TypeOK'
      BY <1>2, <2>5 DEF GiveUp
    <2>6. ASSUME NEW p \in Procs, Resize(p)
          PROVE  TypeOK'
      <3>1. PICK w \in MinWeight .. weight[p] : ResizeTo(p, w)
        BY <2>6 DEF Resize
      <3>2. w \in Nat
        BY <1>2
      <3>3. QED
        BY <1>2, <2>1, <2>6, <3>1, <3>2 DEF Resize
    <2>7. ASSUME NEW p \in Procs, Release(p)
          PROVE  TypeOK'
      BY <1>2, <2>1, <2>7 DEF Release
    <2>8. CASE UNCHANGED vars
      BY <1>2, <2>8 DEF vars
    <2>9. QED
      BY <1>2, <2>2, <2>3, <2>4, <2>5, <2>6, <2>7, <2>8 DEF Next, Step, Quiet
  <1>3. QED
    BY <1>1, <1>2, PTL DEF Spec

-----------------------------------------------------------------------------
\* The fold that adds up what is held, opened: the element it takes first, the
\* table of the sums of all subsets, and the sum of one of them.
Pick(s) == CHOOSE x \in s : TRUE
Table(w, S, g) ==
    g = [s \in SUBSET S |->
            IF s = {} THEN 0 ELSE w[Pick(s)] + g[s \ {Pick(s)}]]
Sum(w, S) == (CHOOSE g : Table(w, S, g))[S]

\* What the gate's invariant adds up is this sum.
LEMMA SumOfHolders == MapThenSumSet(LAMBDA p : weight[p], Holders) = Sum(weight, Holders)
  BY DEF MapThenSumSet, MapThenFoldSet, Table, Sum, Pick

\* Induction over the subsets of a finite set: a smallest one outside G has all its
\* strict subsets in G.
LEMMA SubsetInduction ==
    ASSUME NEW S, IsFiniteSet(S), NEW G,
           \A s \in SUBSET S : (\A t \in SUBSET s : t # s => t \in G) => s \in G
    PROVE  \A s \in SUBSET S : s \in G
  <1> SUFFICES ASSUME NEW r \in SUBSET S, r \notin G PROVE FALSE
    OBVIOUS
  <1> DEFINE R == StrictSubsetOrdering(S)
  <1>1. IsWellFoundedOn(R, SUBSET S)
    <2>1. IsWellFoundedOn(R, FiniteSubsetsOf(S))
      BY FS_StrictSubsetOrderingWellFounded
    <2>2. FiniteSubsetsOf(S) = SUBSET S
      BY FS_FiniteSubsetsOfFinite
    <2>3. QED
      BY <2>1, <2>2
  <1>2. \A s, t \in SUBSET S : t \subseteq s /\ t # s => <<t, s>> \in R
    BY DEF StrictSubsetOrdering
  <1> HIDE DEF R
  <1> DEFINE B == {s \in SUBSET S : s \notin G}
  <1>3. B \subseteq SUBSET S /\ B # {}
    OBVIOUS
  <1> HIDE DEF B
  <1>4. PICK s \in B : \A t \in B : ~(<<t, s>> \in R)
    BY <1>1, <1>3, WFMin
  <1>5. s \in SUBSET S /\ s \notin G
    BY <1>4 DEF B
  <1>6. ASSUME NEW t \in SUBSET s, t # s PROVE t \in G
    <2>1. t \in SUBSET S /\ <<t, s>> \in R
      BY <1>2, <1>5, <1>6
    <2>2. QED
      BY <1>4, <2>1 DEF B
  <1>7. QED
    BY <1>5, <1>6

\* The element taken is one of the set.
LEMMA PickIn == ASSUME NEW s, s # {} PROVE Pick(s) \in s
  BY DEF Pick

\* There is one table at most ...
LEMMA TablesAgree ==
    ASSUME NEW w, NEW S, IsFiniteSet(S), NEW g, NEW h,
           Table(w, S, g), Table(w, S, h)
    PROVE  g = h
  <1> DEFINE G == {s \in SUBSET S : g[s] = h[s]}
  <1>1. ASSUME NEW s \in SUBSET S, \A t \in SUBSET s : t # s => t \in G
        PROVE  s \in G
    <2>1. CASE s = {}
      BY <2>1 DEF Table
    <2>2. CASE s # {}
      <3>1. s \ {Pick(s)} \in SUBSET s /\ s \ {Pick(s)} # s
        BY <2>2, PickIn
      <3>2. g[s \ {Pick(s)}] = h[s \ {Pick(s)}]
        BY <1>1, <3>1
      <3>3. QED
        BY <2>2, <3>2 DEF Table
    <2>3. QED
      BY <2>1, <2>2
  <1> HIDE DEF G
  <1>2. \A s \in SUBSET S : s \in G
    BY <1>1, SubsetInduction
  <1>3. QED
    BY <1>2 DEF G, Table

\* ... and there is one, so the sum obeys the recursion it is defined by.
LEMMA SumEntries ==
    ASSUME NEW w, NEW S, IsFiniteSet(S), NEW s \in SUBSET S
    PROVE  Sum(w, s) = IF s = {} THEN 0 ELSE w[Pick(s)] + Sum(w, s \ {Pick(s)})
  <1> DEFINE E(t) == IF t = {} THEN 0 ELSE w[Pick(t)] + Sum(w, t \ {Pick(t)})
             G == {t \in SUBSET S : Sum(w, t) = E(t)}
  <1>1. ASSUME NEW t \in SUBSET S, \A u \in SUBSET t : u # t => u \in G
        PROVE  t \in G
    <2> DEFINE h == [u \in SUBSET t |-> IF u = t THEN E(t) ELSE Sum(w, u)]
               H == [u \in SUBSET t |-> IF u = {} THEN 0 ELSE w[Pick(u)] + h[u \ {Pick(u)}]]
    <2>1. ASSUME NEW u \in SUBSET t PROVE h[u] = H[u]
      <3>1. CASE u = {}
        <4>1. E(u) = 0 /\ H[u] = 0
          BY <3>1
        <4>2. u # t => Sum(w, u) = E(u)
          BY <1>1
        <4>3. h[u] = E(u)
          BY <4>2
        <4>4. QED
          BY <4>1, <4>3
      <3>2. CASE u # {}
        <4>1. u \ {Pick(u)} \in SUBSET t /\ u \ {Pick(u)} # t
          BY <3>2, PickIn
        <4>2. h[u \ {Pick(u)}] = Sum(w, u \ {Pick(u)})
          BY <4>1
        <4>3. H[u] = E(u)
          BY <3>2, <4>2
        <4>4. u # t => Sum(w, u) = E(u)
          BY <1>1
        <4>5. h[u] = E(u)
          BY <4>4
        <4>6. QED
          BY <4>3, <4>5
      <3>3. QED
        BY <3>1, <3>2
    <2>2. h = H
      BY <2>1
    <2>3. h[t] = E(t)
      OBVIOUS
    <2>4. Table(w, t, h)
      BY <2>2 DEF Table
    <2>5. IsFiniteSet(t)
      BY FS_Subset
    <2> HIDE DEF h, H
    <2>6. Table(w, t, CHOOSE g : Table(w, t, g))
      BY <2>4
    <2>7. (CHOOSE g : Table(w, t, g)) = h
      BY <2>4, <2>5, <2>6, TablesAgree
    <2>8. Sum(w, t) = h[t]
      BY <2>7 DEF Sum
    <2>9. QED
      BY <2>3, <2>8
  <1> HIDE DEF G
  <1>2. \A t \in SUBSET S : t \in G
    BY <1>1, SubsetInduction
  <1>3. QED
    BY <1>2 DEF G

\* A sum of weights is a natural number.
LEMMA SumIsNat ==
    ASSUME NEW S, IsFiniteSet(S), NEW w \in [S -> Nat], NEW s \in SUBSET S
    PROVE  Sum(w, s) \in Nat
  <1> DEFINE G == {t \in SUBSET S : Sum(w, t) \in Nat}
  <1>1. ASSUME NEW t \in SUBSET S, \A u \in SUBSET t : u # t => u \in G
        PROVE  t \in G
    <2>1. CASE t = {}
      BY <2>1, SumEntries
    <2>2. CASE t # {}
      <3>1. Pick(t) \in t /\ t \ {Pick(t)} # t
        BY <2>2, PickIn
      <3>2. Sum(w, t \ {Pick(t)}) \in Nat /\ w[Pick(t)] \in Nat
        BY <1>1, <3>1
      <3>3. Sum(w, t) = w[Pick(t)] + Sum(w, t \ {Pick(t)})
        BY <2>2, SumEntries
      <3>4. QED
        BY <3>2, <3>3
    <2>3. QED
      BY <2>1, <2>2
  <1> HIDE DEF G
  <1>2. \A t \in SUBSET S : t \in G
    BY <1>1, SubsetInduction
  <1>3. QED
    BY <1>2 DEF G

\* Any element can be taken first: the choice of the fold does not matter.
LEMMA SumRemove ==
    ASSUME NEW S, IsFiniteSet(S), NEW w \in [S -> Nat], NEW s \in SUBSET S,
           NEW p \in s
    PROVE  Sum(w, s) = w[p] + Sum(w, s \ {p})
  <1> DEFINE G == {t \in SUBSET S : \A q \in t : Sum(w, t) = w[q] + Sum(w, t \ {q})}
  <1>1. ASSUME NEW t \in SUBSET S, \A u \in SUBSET t : u # t => u \in G
        PROVE  t \in G
    <2> SUFFICES ASSUME NEW q \in t PROVE Sum(w, t) = w[q] + Sum(w, t \ {q})
      OBVIOUS
    <2> DEFINE x == Pick(t)
    <2>1. x \in t
      BY PickIn
    <2>2. Sum(w, t) = w[x] + Sum(w, t \ {x})
      BY SumEntries
    <2> HIDE DEF x
    <2>3. CASE q = x
      BY <2>2, <2>3
    <2>4. CASE q # x
      <3>1. /\ t \ {x} \in SUBSET t /\ t \ {x} # t /\ q \in t \ {x}
            /\ t \ {q} \in SUBSET t /\ t \ {q} # t /\ x \in t \ {q}
        BY <2>1, <2>4
      <3>2. Sum(w, t \ {x}) = w[q] + Sum(w, (t \ {x}) \ {q})
        BY <1>1, <3>1
      <3>3. Sum(w, t \ {q}) = w[x] + Sum(w, (t \ {q}) \ {x})
        BY <1>1, <3>1
      <3>4. (t \ {x}) \ {q} = (t \ {q}) \ {x}
        OBVIOUS
      <3>5. Sum(w, (t \ {q}) \ {x}) \in Nat /\ w[x] \in Nat /\ w[q] \in Nat
        BY <2>1, SumIsNat
      <3>6. Sum(w, t) = w[x] + (w[q] + Sum(w, (t \ {q}) \ {x}))
        BY <2>2, <3>2, <3>4
      <3>7. QED
        BY <3>3, <3>5, <3>6
    <2>5. QED
      BY <2>3, <2>4
  <1> HIDE DEF G
  <1>2. \A t \in SUBSET S : t \in G
    BY <1>1, SubsetInduction
  <1>3. QED
    BY <1>2 DEF G

\* Only the weights of the set's elements count.
LEMMA SumSame ==
    ASSUME NEW S, IsFiniteSet(S), NEW w, NEW v, NEW s \in SUBSET S,
           \A p \in s : w[p] = v[p]
    PROVE  Sum(w, s) = Sum(v, s)
  <1> DEFINE G == {t \in SUBSET s : Sum(w, t) = Sum(v, t)}
  <1>0. IsFiniteSet(s)
    BY FS_Subset
  <1>1. ASSUME NEW t \in SUBSET s, \A u \in SUBSET t : u # t => u \in G
        PROVE  t \in G
    <2>1. CASE t = {}
      <3>1. Sum(w, t) = 0 /\ Sum(v, t) = 0
        BY <1>0, <2>1, SumEntries
      <3>2. QED
        BY <3>1
    <2>2. CASE t # {}
      <3>1. Pick(t) \in t /\ t \ {Pick(t)} # t
        BY <2>2, PickIn
      <3>2. Sum(w, t \ {Pick(t)}) = Sum(v, t \ {Pick(t)}) /\ w[Pick(t)] = v[Pick(t)]
        BY <1>1, <3>1
      <3>3. Sum(w, t) = w[Pick(t)] + Sum(w, t \ {Pick(t)})
        BY <1>0, <2>2, SumEntries
      <3>4. Sum(v, t) = v[Pick(t)] + Sum(v, t \ {Pick(t)})
        BY <1>0, <2>2, SumEntries
      <3>5. QED
        BY <3>2, <3>3, <3>4
    <2>3. QED
      BY <2>1, <2>2
  <1> HIDE DEF G
  <1>2. \A t \in SUBSET s : t \in G
    BY <1>0, <1>1, SubsetInduction
  <1>3. QED
    BY <1>2 DEF G

-----------------------------------------------------------------------------
\* The count is the sum of the leases.
HeldInv == TypeOK /\ used = Sum(weight, Holders)

\* Steps of requests that hold nothing.
LEMMA HoldersKept ==
    ASSUME HeldInv, weight' \in [Procs -> Nat],
           Holders' = Holders, \A p \in Holders : weight'[p] = weight[p], used' = used
    PROVE  used' = Sum(weight', Holders')
  <1>1. IsFiniteSet(Procs) /\ Holders \in SUBSET Procs
    BY GateAssumption DEF Holders
  <1>2. Sum(weight', Holders) = Sum(weight, Holders)
    BY <1>1, SumSame
  <1>3. QED
    BY <1>2 DEF HeldInv

\* What the count is made of, seen from one holder that changes its lease.
LEMMA HolderLeaves ==
    ASSUME HeldInv, weight' \in [Procs -> Nat], NEW p \in Holders,
           \A q \in Holders : q # p => weight'[q] = weight[q]
    PROVE  /\ used = weight[p] + Sum(weight', Holders \ {p})
           /\ Sum(weight', Holders \ {p}) \in Nat
           /\ Sum(weight', Holders) = weight'[p] + Sum(weight', Holders \ {p})
           /\ weight[p] \in Nat /\ weight'[p] \in Nat
  <1>1. IsFiniteSet(Procs) /\ Holders \in SUBSET Procs /\ Holders \ {p} \in SUBSET Procs
        /\ weight \in [Procs -> Nat]
    BY GateAssumption DEF Holders, HeldInv, TypeOK
  <1>2. Sum(weight, Holders) = weight[p] + Sum(weight, Holders \ {p})
    BY <1>1, SumRemove
  <1>3. Sum(weight', Holders) = weight'[p] + Sum(weight', Holders \ {p})
    BY <1>1, SumRemove
  <1>4. Sum(weight', Holders \ {p}) = Sum(weight, Holders \ {p})
    BY <1>1, SumSame
  <1>5. Sum(weight', Holders \ {p}) \in Nat
    BY <1>1, SumIsNat
  <1>6. QED
    BY <1>1, <1>2, <1>3, <1>4, <1>5 DEF HeldInv

\* Who enters is counted with what it asked for.
LEMMA AcquireHeld ==
    ASSUME HeldInv, NEW p \in Procs, Acquire(p), TypeOK'
    PROVE  used' = Sum(weight', Holders')
  <1>1. CASE Fits(weight[p])
    <2>1. weight' = weight /\ used' = used + weight[p] /\ pc' = [pc EXCEPT ![p] = "read"]
          /\ pc[p] = "acquire"
      BY <1>1 DEF Acquire
    <2>2. p \notin Holders /\ Holders' = Holders \cup {p}
      BY <2>1 DEF Holders, HeldInv, TypeOK
    <2>3. Holders' \in SUBSET Procs /\ p \in Holders' /\ Holders' \ {p} = Holders
          /\ Holders \in SUBSET Procs
      BY <2>2 DEF Holders
    <2>4. Sum(weight, Holders') = weight[p] + Sum(weight, Holders)
      <3>1. IsFiniteSet(Procs) /\ weight \in [Procs -> Nat]
        BY GateAssumption DEF HeldInv, TypeOK
      <3>2. Sum(weight, Holders') = weight[p] + Sum(weight, Holders' \ {p})
        BY <2>3, <3>1, SumRemove
      <3>3. QED
        BY <2>3, <3>2
    <2>5. weight[p] \in Nat /\ used \in Int
      BY DEF HeldInv, TypeOK
    <2>6. used' = weight[p] + used
      BY <2>1, <2>5
    <2>7. QED
      BY <2>1, <2>4, <2>6 DEF HeldInv
  <1>2. CASE ~Fits(weight[p])
    <2>1. UNCHANGED <<used, weight>> /\ pc' = [pc EXCEPT ![p] = "wait"]
          /\ pc[p] = "acquire"
      BY <1>2 DEF Acquire
    <2>2. Holders' = Holders
      BY <2>1 DEF Holders, HeldInv, TypeOK
    <2>3. QED
      BY <2>1, <2>2, HoldersKept DEF TypeOK
  <1>3. QED
    BY <1>1, <1>2

\* A lease that shrinks, or ends at zero, gives back exactly the difference.
LEMMA ResizeHeld ==
    ASSUME HeldInv, NEW p \in Holders, NEW w \in Nat, ResizeTo(p, w), TypeOK',
           \/ pc' = [pc EXCEPT ![p] = "run"]
           \/ w = 0 /\ pc' = [pc EXCEPT ![p] = "idle"]
    PROVE  used' = Sum(weight', Holders')
  <1>1. p \in Procs /\ weight \in [Procs -> Nat] /\ weight' \in [Procs -> Nat] /\ used \in Int
    BY DEF HeldInv, TypeOK, Holders
  <1>2. /\ \A q \in Holders : q # p => weight'[q] = weight[q]
        /\ used' = used - (weight[p] - weight'[p])
        /\ w = 0 => weight'[p] = 0
    <2>1. CASE w >= weight[p]
      BY <1>1, <2>1 DEF ResizeTo
    <2>2. CASE ~(w >= weight[p])
      BY <1>1, <2>2 DEF ResizeTo, Holders
    <2>3. QED
      BY <2>1, <2>2
  <1>3. /\ used = weight[p] + Sum(weight', Holders \ {p})
        /\ Sum(weight', Holders \ {p}) \in Nat
        /\ Sum(weight', Holders) = weight'[p] + Sum(weight', Holders \ {p})
        /\ weight[p] \in Nat /\ weight'[p] \in Nat
    BY <1>1, <1>2, HolderLeaves
  <1>4. used' = weight'[p] + Sum(weight', Holders \ {p})
    BY <1>1, <1>2, <1>3
  <1>5. CASE pc' = [pc EXCEPT ![p] = "run"]
    <2>1. Holders' = Holders
      BY <1>1, <1>5 DEF Holders, HeldInv, TypeOK
    <2>2. QED
      BY <1>3, <1>4, <2>1
  <1>6. CASE w = 0 /\ pc' = [pc EXCEPT ![p] = "idle"]
    <2>1. Holders' = Holders \ {p}
      BY <1>1, <1>6 DEF Holders, HeldInv, TypeOK
    <2>2. used' = Sum(weight', Holders \ {p})
      BY <1>2, <1>3, <1>4, <1>6
    <2>3. QED
      BY <2>1, <2>2
  <1>7. QED
    BY <1>5, <1>6

\* Every step keeps the count equal to the sum.
LEMMA HeldNext == HeldInv /\ [Next]_vars /\ TypeOK' => HeldInv'
  <1> SUFFICES ASSUME HeldInv, [Next]_vars, TypeOK'
               PROVE  used' = Sum(weight', Holders')
    BY DEF HeldInv
  <1>1. ASSUME NEW p \in Procs, Arrive(p) \/ Wake(p) \/ GiveUp(p)
        PROVE  used' = Sum(weight', Holders')
    <2>1. /\ used' = used /\ p \notin Holders
          /\ pc' = [pc EXCEPT ![p] = pc'[p]] /\ pc'[p] \in {"idle", "acquire"}
          /\ \A q \in Procs : q # p => weight'[q] = weight[q]
      BY <1>1 DEF Arrive, Wake, GiveUp, HeldInv, TypeOK, Holders
    <2>2. Holders' = Holders
      BY <2>1 DEF Holders, HeldInv, TypeOK
    <2>3. \A q \in Holders : weight'[q] = weight[q]
      BY <2>1 DEF Holders
    <2>4. QED
      BY <2>1, <2>2, <2>3, HoldersKept DEF TypeOK
  <1>2. ASSUME NEW p \in Procs, Resize(p)
        PROVE  used' = Sum(weight', Holders')
    <2>1. PICK w \in MinWeight .. weight[p] : ResizeTo(p, w)
      BY <1>2 DEF Resize
    <2>2. w \in Nat
      BY GateAssumption DEF HeldInv, TypeOK
    <2>3. p \in Holders /\ pc' = [pc EXCEPT ![p] = "run"]
      BY <1>2 DEF Resize, Holders
    <2>4. QED
      BY <2>1, <2>2, <2>3, ResizeHeld
  <1>3. ASSUME NEW p \in Procs, Release(p)
        PROVE  used' = Sum(weight', Holders')
    <2>1. p \in Holders /\ pc' = [pc EXCEPT ![p] = "idle"] /\ ResizeTo(p, 0)
      BY <1>3 DEF Release, Holders
    <2>2. QED
      BY <2>1, ResizeHeld
  <1>4. CASE UNCHANGED vars
    BY <1>4 DEF vars, HeldInv, Holders
  <1>5. QED
    BY <1>1, <1>2, <1>3, <1>4, AcquireHeld DEF Next, Step, Quiet

\* Nothing leaks and nothing is given back twice: the count is at all times the sum
\* of the leases held, for any number of requests, whether they shrink, end early or
\* give up.
THEOREM HeldTheorem == Spec => []UsedIsHeld
  <1>1. Init => HeldInv
    <2> SUFFICES ASSUME Init PROVE HeldInv
      OBVIOUS
    <2>1. TypeOK
      BY GateAssumption DEF Init, TypeOK, PCs
    <2>2. Holders = {} /\ used = 0
      BY DEF Init, Holders
    <2>3. Sum(weight, {}) = 0
      BY GateAssumption, SumEntries
    <2>4. QED
      BY <2>1, <2>2, <2>3 DEF HeldInv
  <1>2. HeldInv => UsedIsHeld
    BY SumOfHolders DEF HeldInv, UsedIsHeld
  <1>3. QED
    BY <1>1, <1>2, HeldNext, GateTypeCorrect, PTL DEF Spec
=============================================================================
