-------------------------- MODULE MCLoginHandshake --------------------------
(***************************************************************************)
(* Small instances of LoginHandshake for TLC.  Sessions and users are only *)
(* compared for equality, so permuting them is sound for safety.           *)
(***************************************************************************)
EXTENDS LoginHandshake, TLC

Symmetry == Permutations(Sessions) \cup Permutations(Users)
=============================================================================
