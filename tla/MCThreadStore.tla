--------------------------- MODULE MCThreadStore ---------------------------
(***************************************************************************)
(* Small instances of ThreadStore for TLC.  Users and thread identifiers   *)
(* are only compared for equality, so permuting them is sound for safety.  *)
(***************************************************************************)
EXTENDS ThreadStore, TLC

Symmetry == Permutations(Users) \cup Permutations(ThreadIds)
=============================================================================
