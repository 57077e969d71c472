--------------------------- MODULE MCAuthService ---------------------------
(***************************************************************************)
(* Small instances of AuthService for TLC.  A quoted login is one with a   *)
(* quote in it, which makes the text of its lookup no statement; the       *)
(* lookup of any other login asks for that login.  Identifiers, tokens and *)
(* the logins of either kind are only compared for equality, so permuting  *)
(* them is sound for safety.                                               *)
(***************************************************************************)
EXTENDS AuthService, TLC

CONSTANT Quoted

MCSelects == [l \in Logins |-> IF l \in Quoted THEN {} ELSE {l}]

Symmetry ==
  Permutations(UserIds) \cup Permutations(Tokens) \cup Permutations(Logins \ Quoted)
=============================================================================
