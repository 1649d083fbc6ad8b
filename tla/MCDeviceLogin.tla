--------------------------- MODULE MCDeviceLogin ---------------------------
(***************************************************************************)
(* Small instances of DeviceLogin.                                         *)
(***************************************************************************)
EXTENDS DeviceLogin, TLC

Symmetry == Permutations(Procs)
=============================================================================
