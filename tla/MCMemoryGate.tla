---------------------------- MODULE MCMemoryGate ----------------------------
(***************************************************************************)
(* Small instances of MemoryGate: capacity 5, reservations from the        *)
(* smallest to one that takes the whole budget.                            *)
(***************************************************************************)
EXTENDS MemoryGate, TLC

Symmetry == Permutations(Procs)
=============================================================================
