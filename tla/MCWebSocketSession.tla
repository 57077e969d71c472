------------------------ MODULE MCWebSocketSession ------------------------
(***************************************************************************)
(* Small instances of WebSocketSession for TLC.  Sessions and users are    *)
(* only compared for equality, so permuting them is sound for safety.      *)
(***************************************************************************)
EXTENDS WebSocketDelivery, TLC

Symmetry == Permutations(Sessions) \cup Permutations(Users)
=============================================================================
