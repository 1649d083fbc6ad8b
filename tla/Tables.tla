------------------------------- MODULE Tables -------------------------------
(***************************************************************************)
(* Go's maps, as the translators use them, and a set in the order in which *)
(* sort.Slice puts it.                                                     *)
(***************************************************************************)
EXTENDS Integers, FiniteSets

\* f with v at x.
Put(f, x, v) == [y \in DOMAIN f \union {x} |-> IF y = x THEN v ELSE f[y]]

\* The members of S in an order.
Ordered(S, Before(_, _)) ==
    [i \in 1 .. Cardinality(S) |->
       CHOOSE x \in S : Cardinality({y \in S : Before(y, x)}) = i - 1]
=============================================================================
