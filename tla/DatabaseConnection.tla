------------------------ MODULE DatabaseConnection ------------------------
(***************************************************************************)
(* The one PostgreSQL connection all repositories share: opened at         *)
(* start-up, the result ignored, and never opened again once it is lost.   *)
(***************************************************************************)
VARIABLE connected   \* Connections::isConnected()

(***************************************************************************)
(* One transaction on the connection.  "inDoubt" is a commit that reached  *)
(* the database while its acknowledgement was lost with the connection:    *)
(* the repository catches the exception and reports a failure.             *)
(***************************************************************************)
Transaction(o) ==
  \/ o = "ok" /\ connected /\ UNCHANGED connected
  \/ o = "failed" /\ connected' \in {connected, FALSE}
  \/ o = "inDoubt" /\ connected /\ connected' = FALSE

Reads == {"ok", "failed"}
Writes == {"ok", "failed", "inDoubt"}

\* connectDataBase succeeds or not when the process starts.
Connect == connected' \in BOOLEAN
=============================================================================
