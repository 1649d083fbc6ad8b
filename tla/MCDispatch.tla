----------------------------- MODULE MCDispatch -----------------------------
(***************************************************************************)
(* Small instances of Dispatch.                                            *)
(***************************************************************************)
EXTENDS Dispatch, TLC

Equal == [a \in Accounts |-> 1]
\* The middle account has a lower priority than the others.
Mixed == [a \in Accounts |-> IF a = 2 THEN 1 ELSE 2]

Symmetry == Permutations(Reqs)
=============================================================================
