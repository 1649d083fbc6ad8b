----------------------------- MODULE FoldFacts -----------------------------
(***************************************************************************)
(* What a fold from the left keeps.  The theorems of the library about     *)
(* folds take operators as parameters; here the operator and what it keeps *)
(* are constants of a module, and a module that needs them for an operator *)
(* of its own instantiates this one.  The operator and the property have   *)
(* one more argument, that the fold does not change.  The induction is a   *)
(* hypothesis, so that an instance carries no library with it: module      *)
(* TranslatorProofs proves it (IndexInduction).                            *)
(***************************************************************************)
EXTENDS Integers, Sequences

CONSTANTS Op(_, _, _), Good(_, _)

Top(s) == CHOOSE i \in s : \A j \in s : i >= j

\* The table of the folds over all parts of a sequence, as the community modules
\* write it, and the fold.
Table(with, base, seq, S, g) ==
    g = [s \in SUBSET S |->
           IF s = {} THEN base ELSE Op(g[s \ {Top(s)}], seq[Top(s)], with)]
Part(with, base, seq, S) == (CHOOSE g : Table(with, base, seq, S, g))[S]
Folded(with, base, seq) == Part(with, base, seq, DOMAIN seq)

\* The indices of a sequence.
Line(D) == \E n \in Nat : D = 1 .. n

\* Induction over the sets of indices: one belongs to G when all its strict subsets do.
Induction ==
    \A n \in Nat : \A G :
      (\A s \in SUBSET (1 .. n) : (\A t \in SUBSET s : t # s => t \in G) => s \in G)
        => \A s \in SUBSET (1 .. n) : s \in G

\* The same over the subsets of a set of indices.
LEMMA SubsetInduction ==
    ASSUME Induction, NEW D, Line(D), NEW S \in SUBSET D, NEW G,
           \A s \in SUBSET S : (\A t \in SUBSET s : t # s => t \in G) => s \in G
    PROVE  \A s \in SUBSET S : s \in G
  <1>1. PICK n \in Nat : D = 1 .. n
    BY DEF Line
  <1> DEFINE H == {s \in SUBSET (1 .. n) : s \subseteq S => s \in G}
  <1>2. ASSUME NEW s \in SUBSET (1 .. n), \A t \in SUBSET s : t # s => t \in H
        PROVE  s \in H
    <2>1. s \subseteq S => \A t \in SUBSET s : t # s => t \in G
      BY <1>2
    <2>2. QED
      BY <2>1
  <1>3. \A s \in SUBSET (1 .. n) : s \in H
    <2> HIDE DEF H
    <2>1. QED
      BY <1>2 DEF Induction
  <1>4. QED
    BY <1>1, <1>3

\* ... and over those of all indices.
LEMMA LineInduction ==
    ASSUME Induction, NEW D, Line(D), NEW G,
           \A s \in SUBSET D : (\A t \in SUBSET s : t # s => t \in G) => s \in G
    PROVE  \A s \in SUBSET D : s \in G
  <1>1. PICK n \in Nat : D = 1 .. n
    BY DEF Line
  <1>2. QED
    BY <1>1 DEF Induction

\* A set of indices that is not empty has a last one.
LEMMA TopIn ==
    ASSUME Induction, NEW n \in Nat, NEW s \in SUBSET (1 .. n), s # {}
    PROVE  Top(s) \in s /\ \A j \in s : j <= Top(s)
  <1> DEFINE HasTop(t) == \E i \in t : \A j \in t : i >= j
             G == {t \in SUBSET (1 .. n) : t # {} => HasTop(t)}
  <1>1. ASSUME NEW t \in SUBSET (1 .. n), \A u \in SUBSET t : u # t => u \in G
        PROVE  t \in G
    <2> SUFFICES ASSUME t # {} PROVE HasTop(t)
      OBVIOUS
    <2>1. PICK i \in t : TRUE
      OBVIOUS
    <2>2. t \ {i} \in SUBSET t /\ t \ {i} # t
      BY <2>1
    <2>3. CASE t \ {i} = {}
      BY <2>1, <2>3
    <2>4. CASE t \ {i} # {}
      <3>1. PICK k \in t \ {i} : \A j \in t \ {i} : k >= j
        BY <1>1, <2>2, <2>4
      <3>2. QED
        BY <2>1, <3>1
    <2>5. QED
      BY <2>3, <2>4
  <1>2. s \in G
    <2> HIDE DEF G
    <2>1. QED
      BY <1>1 DEF Induction
  <1>3. PICK i \in s : \A j \in s : i >= j
    BY <1>2
  <1>4. QED
    BY <1>3 DEF Top

\* The facts about lines that the folds need.
LEMMA LineFacts ==
    ASSUME Induction, NEW D, Line(D)
    PROVE  \A s \in SUBSET D : s # {} => Top(s) \in s
  <1>1. PICK n \in Nat : D = 1 .. n
    BY DEF Line
  <1>2. \A s \in SUBSET (1 .. n) : s # {} => Top(s) \in s
    BY TopIn
  <1>3. QED
    BY <1>1, <1>2

\* There is one table at most ...
LEMMA TablesAgree ==
    ASSUME Induction, NEW with, NEW base, NEW seq, NEW D, Line(D), NEW S \in SUBSET D,
           NEW g, NEW h, Table(with, base, seq, S, g), Table(with, base, seq, S, h)
    PROVE  g = h
  <1> DEFINE G == {s \in SUBSET S : g[s] = h[s]}
  <1>1. ASSUME NEW s \in SUBSET S, \A t \in SUBSET s : t # s => t \in G
        PROVE  s \in G
    <2>1. CASE s = {}
      BY <2>1 DEF Table
    <2>2. CASE s # {}
      <3>1. Top(s) \in s
        BY <2>2, LineFacts
      <3>2. s \ {Top(s)} \in SUBSET s /\ s \ {Top(s)} # s
        BY <3>1
      <3>3. g[s \ {Top(s)}] = h[s \ {Top(s)}]
        BY <1>1, <3>2
      <3>4. QED
        BY <2>2, <3>3 DEF Table
    <2>3. QED
      BY <2>1, <2>2
  <1> HIDE DEF G
  <1>3. \A s \in SUBSET S : s \in G
    BY <1>1, SubsetInduction
  <1>4. QED
    BY <1>3 DEF G, Table

\* ... and there is one, so the fold obeys the recursion it is defined by.
LEMMA PartEntries ==
    ASSUME Induction, NEW with, NEW base, NEW seq, NEW D, Line(D), NEW s \in SUBSET D
    PROVE  /\ s = {} => Part(with, base, seq, s) = base
           /\ s # {} => Part(with, base, seq, s) =
                          Op(Part(with, base, seq, s \ {Top(s)}), seq[Top(s)], with)
  <1> DEFINE V(t) == Part(with, base, seq, t)
             E(t) == IF t = {} THEN base ELSE Op(V(t \ {Top(t)}), seq[Top(t)], with)
             G == {t \in SUBSET D : V(t) = E(t)}
  <1>1. ASSUME NEW t \in SUBSET D, \A u \in SUBSET t : u # t => u \in G
        PROVE  t \in G
    <2> DEFINE h == [u \in SUBSET t |-> IF u = t THEN E(t) ELSE V(u)]
               H == [u \in SUBSET t |->
                      IF u = {} THEN base ELSE Op(h[u \ {Top(u)}], seq[Top(u)], with)]
    <2>1. ASSUME NEW u \in SUBSET t PROVE h[u] = H[u]
      <3>0. u # t => V(u) = E(u)
        BY <1>1
      <3>1. h[u] = E(u)
        BY <3>0
      <3>2. CASE u = {}
        BY <3>1, <3>2
      <3>3. CASE u # {}
        <4>1. Top(u) \in u
          BY <3>3, LineFacts
        <4>2. u \ {Top(u)} \in SUBSET t /\ u \ {Top(u)} # t
          BY <4>1
        <4>3. h[u \ {Top(u)}] = V(u \ {Top(u)})
          BY <4>2
        <4>4. H[u] = E(u)
          BY <3>3, <4>3
        <4>5. QED
          BY <3>1, <4>4
      <3>4. QED
        BY <3>2, <3>3
    <2>2. h = H
      BY <2>1
    <2>3. h[t] = E(t)
      OBVIOUS
    <2>4. Table(with, base, seq, t, h)
      BY <2>2 DEF Table
    <2> HIDE DEF h, H
    <2>5. Table(with, base, seq, t, CHOOSE g : Table(with, base, seq, t, g))
      BY <2>4
    <2>6. (CHOOSE g : Table(with, base, seq, t, g)) = h
      BY <2>4, <2>5, TablesAgree
    <2>7. V(t) = h[t]
      BY <2>6 DEF Part
    <2>8. QED
      BY <2>3, <2>7
  <1> HIDE DEF G
  <1>3. \A t \in SUBSET D : t \in G
    BY <1>1, SubsetInduction
  <1>4. QED
    BY <1>3 DEF G

\* What the operator keeps at every element of a sequence, the fold keeps.
LEMMA FoldKeeps ==
    ASSUME Induction, NEW with, NEW aim, NEW base, NEW seq, Line(DOMAIN seq),
           Good(base, aim),
           \A x : \A i \in DOMAIN seq : Good(x, aim) => Good(Op(x, seq[i], with), aim)
    PROVE  Good(Folded(with, base, seq), aim)
  <1>0. ASSUME NEW t \in SUBSET DOMAIN seq
        PROVE  /\ t = {} => Part(with, base, seq, t) = base
               /\ t # {} => Part(with, base, seq, t) =
                              Op(Part(with, base, seq, t \ {Top(t)}), seq[Top(t)], with)
    BY PartEntries
  <1> DEFINE V(t) == Part(with, base, seq, t)
             G == {t \in SUBSET DOMAIN seq : Good(V(t), aim)}
  <1>1. ASSUME NEW t \in SUBSET DOMAIN seq, \A u \in SUBSET t : u # t => u \in G
        PROVE  t \in G
    <2>1. CASE t = {}
      <3>1. V(t) = base
        BY <1>0, <2>1
      <3>2. QED
        BY <3>1
    <2>2. CASE t # {}
      <3>1. Top(t) \in t
        BY <2>2, LineFacts
      <3>2. t \ {Top(t)} \in SUBSET t /\ t \ {Top(t)} # t
        BY <3>1
      <3>3. Good(V(t \ {Top(t)}), aim)
        BY <1>1, <3>2
      <3>4. V(t) = Op(V(t \ {Top(t)}), seq[Top(t)], with)
        BY <1>0, <2>2
      <3>5. Top(t) \in DOMAIN seq
        BY <3>1
      <3> HIDE DEF V
      <3>6. Good(V(t), aim)
        BY <3>3, <3>4, <3>5
      <3>7. QED
        BY <3>6
    <2>3. QED
      BY <2>1, <2>2
  <1> HIDE DEF G
  <1>3. \A t \in SUBSET DOMAIN seq : t \in G
    BY <1>1, LineInduction
  <1>4. QED
    BY <1>3 DEF G, Folded

\* The same in one word.
Obeys(with, base, seq, D) ==
    \A s \in SUBSET D :
      /\ s = {} => Part(with, base, seq, s) = base
      /\ s # {} => Part(with, base, seq, s) =
                     Op(Part(with, base, seq, s \ {Top(s)}), seq[Top(s)], with)

LEMMA PartSteps ==
    ASSUME Induction, NEW with, NEW base, NEW seq, NEW D, Line(D)
    PROVE  Obeys(with, base, seq, D)
  BY PartEntries DEF Obeys

\* The last of the first k indices is k.
LEMMA TopOfLine ==
    Induction => \A k \in Nat : k # 0 => Top(1 .. k) = k /\ (1 .. k) \ {Top(1 .. k)} = 1 .. (k - 1)
  <1> SUFFICES ASSUME Induction, NEW k \in Nat, k # 0
               PROVE  Top(1 .. k) = k /\ (1 .. k) \ {Top(1 .. k)} = 1 .. (k - 1)
    OBVIOUS
  <1>1. Top(1 .. k) \in 1 .. k /\ \A j \in 1 .. k : j <= Top(1 .. k)
    <2>1. 1 .. k \in SUBSET (1 .. k) /\ 1 .. k # {}
      BY 1 \in 1 .. k
    <2>2. QED
      BY <2>1, TopIn
  <1>2. k \in 1 .. k
    OBVIOUS
  <1>3. Top(1 .. k) = k
    BY <1>1, <1>2
  <1>4. QED
    BY <1>3

\* A fold that has a property of its own after each element: aims has one for each
\* number of elements.
LEMMA FoldReaches ==
    ASSUME Induction, NEW with, NEW base, NEW seq, NEW n \in Nat, DOMAIN seq = 1 .. n, NEW aims,
           Good(base, aims[0]),
           \A x : \A k \in 1 .. n :
             Good(x, aims[k - 1]) => Good(Op(x, seq[k], with), aims[k])
    PROVE  Good(Folded(with, base, seq), aims[n])
  <1>a. Line(1 .. n)
    BY DEF Line
  <1>0. Obeys(with, base, seq, 1 .. n)
    BY <1>a, PartSteps
  <1> DEFINE V(t) == Part(with, base, seq, t)
             G == {t \in SUBSET (1 .. n) : \A k \in 0 .. n : t = 1 .. k => Good(V(t), aims[k])}
  <1>1. ASSUME NEW t \in SUBSET (1 .. n), \A u \in SUBSET t : u # t => u \in G
        PROVE  t \in G
    <2> SUFFICES ASSUME NEW k \in 0 .. n, t = 1 .. k PROVE Good(V(t), aims[k])
      OBVIOUS
    <2>1. CASE k = 0
      <3>1. t = {}
        BY <2>1
      <3>2. V(t) = base
        BY <1>0, <3>1 DEF Obeys
      <3> HIDE DEF V
      <3>3. QED
        BY <2>1, <3>2
    <2>2. CASE k # 0
      <3>0. k \in Nat
        OBVIOUS
      <3>1. Top(1 .. k) = k /\ (1 .. k) \ {Top(1 .. k)} = 1 .. (k - 1)
        BY <2>2, <3>0, TopOfLine
      <3>2. t # {} /\ 1 .. (k - 1) \in SUBSET t /\ 1 .. (k - 1) # t
        <4>1. k \in 1 .. k /\ k \notin 1 .. (k - 1)
          BY <2>2
        <4>2. 1 .. (k - 1) \subseteq 1 .. k
          OBVIOUS
        <4>3. QED
          BY <4>1, <4>2
      <3>3. V(t) = Op(V(1 .. (k - 1)), seq[k], with)
        <4>1. V(t) = Op(V(t \ {Top(t)}), seq[Top(t)], with)
          BY <1>0, <3>2 DEF Obeys
        <4> HIDE DEF V
        <4>2. QED
          BY <3>1, <4>1
      <3>4. 1 .. (k - 1) \in G
        BY <1>1, <3>2
      <3>5. k - 1 \in 0 .. n /\ k \in 1 .. n
        BY <2>2
      <3>6. Good(V(1 .. (k - 1)), aims[k - 1])
        BY <3>4, <3>5
      <3> HIDE DEF V
      <3>7. QED
        BY <3>3, <3>5, <3>6
    <2>3. QED
      BY <2>1, <2>2
  <1> HIDE DEF G
  <1>3. \A t \in SUBSET (1 .. n) : t \in G
    BY <1>a, <1>1, LineInduction
  <1>4. 1 .. n \in G
    BY <1>3
  <1>5. QED
    BY <1>4 DEF G, Folded

\* A fold over one element more is one step more.
LEMMA FoldAppend ==
    ASSUME Induction, NEW with, NEW base, NEW R, NEW seq \in Seq(R), NEW e \in R
    PROVE  Folded(with, base, Append(seq, e)) = Op(Folded(with, base, seq), e, with)
  <1> DEFINE n == Len(seq)
             longer == Append(seq, e)
  <1>1. /\ n \in Nat /\ DOMAIN seq = 1 .. n /\ DOMAIN longer = 1 .. (n + 1)
        /\ \A i \in 1 .. n : longer[i] = seq[i]
        /\ longer[n + 1] = e
    OBVIOUS
  <1> HIDE DEF n, longer
  <1>2. Line(1 .. n) /\ Line(1 .. (n + 1)) /\ 1 .. n \subseteq 1 .. (n + 1)
    BY <1>1 DEF Line
  <1>3. Obeys(with, base, seq, 1 .. n)
    BY <1>2, PartSteps
  <1>4. Obeys(with, base, longer, 1 .. (n + 1))
    BY <1>2, PartSteps
  <1> DEFINE V(t) == Part(with, base, seq, t)
             W(t) == Part(with, base, longer, t)
             G == {t \in SUBSET (1 .. n) : V(t) = W(t)}
  <1> HIDE DEF V, W, Obeys
  <1>5. ASSUME NEW t \in SUBSET (1 .. n), \A u \in SUBSET t : u # t => u \in G
        PROVE  t \in G
    <2>1. CASE t = {}
      BY <1>2, <1>3, <1>4, <2>1 DEF V, W, Obeys
    <2>2. CASE t # {}
      <3>1. Top(t) \in t
        BY <1>1, <2>2, TopIn
      <3>2. t \ {Top(t)} \in SUBSET t /\ t \ {Top(t)} # t
        BY <3>1
      <3>3. V(t \ {Top(t)}) = W(t \ {Top(t)})
        BY <1>5, <3>2
      <3>4. t \in SUBSET (1 .. (n + 1))
        BY <1>2
      <3>5. longer[Top(t)] = seq[Top(t)]
        BY <1>1, <3>1
      <3>6. QED
        BY <1>3, <1>4, <2>2, <3>3, <3>4, <3>5 DEF V, W, Obeys
    <2>3. QED
      BY <2>1, <2>2
  <1> HIDE DEF G
  <1>7. \A t \in SUBSET (1 .. n) : t \in G
    BY <1>2, <1>5, LineInduction
  <1>8. V(1 .. n) = W(1 .. n)
    BY <1>7 DEF G
  <1>9. Top(1 .. (n + 1)) = n + 1 /\ (1 .. (n + 1)) \ {Top(1 .. (n + 1))} = 1 .. n
    BY <1>1, TopOfLine
  <1>10. 1 .. (n + 1) # {}
    BY <1>1, 1 \in 1 .. (n + 1)
  <1>11. W(1 .. (n + 1)) = Op(V(1 .. n), e, with)
    BY <1>1, <1>4, <1>8, <1>9, <1>10 DEF V, W, Obeys
  <1>12. QED
    BY <1>1, <1>11 DEF Folded, V, W, longer

\* A fold over nothing, and one over one element.
LEMMA FoldShort ==
    ASSUME Induction, NEW with, NEW base, NEW e
    PROVE  /\ Folded(with, base, <<>>) = base
           /\ Folded(with, base, <<e>>) = Op(base, e, with)
  <1>1. DOMAIN <<>> = {} /\ <<>> \in Seq({e}) /\ e \in {e} /\ Append(<<>>, e) = <<e>>
    OBVIOUS
  <1>2. Line({})
    <2>1. {} = 1 .. 0
      OBVIOUS
    <2>2. QED
      BY <2>1 DEF Line
  <1>3. Folded(with, base, <<>>) = base
    BY <1>1, <1>2, PartEntries DEF Folded
  <1>4. Folded(with, base, Append(<<>>, e)) = Op(Folded(with, base, <<>>), e, with)
    <2> HIDE <1>3
    <2>1. QED
      BY <1>1, FoldAppend
  <1>5. QED
    BY <1>1, <1>3, <1>4
=============================================================================
