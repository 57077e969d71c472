--------------------------- MODULE RefreshChain ---------------------------
(***************************************************************************)
(* What the refresh tokens of the service promise, whatever database       *)
(* transactions carry it out: a token is opened for one user, it can be    *)
(* exchanged once, atomically, for a token nobody has seen, and a token    *)
(* that was exchanged or killed never comes back.                          *)
(***************************************************************************)

CONSTANTS UserIds, \* user identifiers
          Tokens   \* refresh tokens

VARIABLES live,    \* the pairs of a user and a token that can be exchanged
          spent    \* the tokens that were exchanged or killed

vars == <<live, spent>>

Pair == [user : UserIds, token : Tokens]

Used == {p.token : p \in live} \cup spent

Init == live = {} /\ spent = {}

\* A login opens a chain with a fresh token.
Open(u, n) ==
  /\ n \notin Used
  /\ live' = live \cup {[user |-> u, token |-> n]}
  /\ UNCHANGED spent

\* A token gives way to a fresh one of the same user.
Exchange(p, n) ==
  /\ n \notin Used
  /\ live' = (live \ {p}) \cup {[user |-> p.user, token |-> n]}
  /\ spent' = spent \cup {p.token}

\* A token is lost: its exchange was begun and never finished.
Kill(p) ==
  /\ live' = live \ {p}
  /\ spent' = spent \cup {p.token}

Next ==
  \/ \E u \in UserIds, n \in Tokens : Open(u, n)
  \/ \E p \in live :
       \/ \E n \in Tokens : Exchange(p, n)
       \/ Kill(p)

Spec == Init /\ [][Next]_vars
=============================================================================
