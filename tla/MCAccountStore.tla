--------------------------- MODULE MCAccountStore ---------------------------
(***************************************************************************)
(* Small instances of AccountStore.                                        *)
(***************************************************************************)
EXTENDS AccountStore, TLC

\* A credential file migrated from CPA either carries no budget lock or one
\* that is blocked until its reset time.
NoMarks == {NoGuard}
MigratedMarks == {NoGuard, [blocked |-> TRUE, reason |-> "budget", resetAt |-> 2]}

Symmetry == Permutations(Procs)
=============================================================================
