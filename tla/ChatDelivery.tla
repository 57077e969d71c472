---------------------------- MODULE ChatDelivery ----------------------------
(***************************************************************************)
(* What the WebSocket server promises its peers, with no handshake, hub,   *)
(* queue or write in sight: a chat of members, each with an inbox.         *)
(*                                                                         *)
(* Frames are numbered as they are served.  A broadcast goes to all        *)
(* members, and possibly to sessions that no longer are members; a private *)
(* message goes to the session that claimed its addressee last, if that is *)
(* a member, and otherwise to one session that is none, or to nobody.      *)
(* Inboxes are delivered in order; a crash loses what is not delivered.    *)
(***************************************************************************)
EXTENDS Naturals, Sequences

CONSTANTS Sessions, Users, Absent, MaxFrames

VARIABLES
  members,    \* the sessions that are promised messages
  owner,      \* the session that claimed each user last
  inbox,      \* the messages for each session, in order
  delivered,  \* how many of them the peer has
  number,     \* the number of the last frame
  audience    \* history: the sessions each frame's message was promised to

vars == <<members, owner, inbox, delivered, number, audience>>

Msg(n, k) == <<[frame |-> n, kind |-> k]>>

Init ==
  /\ members = {}
  /\ owner = [u \in Users |-> Absent]
  /\ inbox = [s \in Sessions |-> <<>>]
  /\ delivered = [s \in Sessions |-> 0]
  /\ number = 0
  /\ audience = [n \in 1..MaxFrames |-> {}]

\* A session claims its user; it is a member unless its peer is gone already.
Enter(s, u) ==
  /\ s \notin members
  /\ owner' = [owner EXCEPT ![u] = s]
  /\ members' \in {members, members \cup {s}}
  /\ UNCHANGED <<inbox, delivered, number, audience>>

Exit(s) ==
  /\ members' = members \ {s}
  /\ UNCHANGED <<owner, inbox, delivered, number, audience>>

\* The next frame puts out[s] in the inbox of s, for the members in "promised".
Publish(out, promised) ==
  /\ number < MaxFrames
  /\ number' = number + 1
  /\ inbox' = [s \in Sessions |-> inbox[s] \o out[s]]
  /\ audience' = [audience EXCEPT ![number'] = promised]
  /\ UNCHANGED <<members, owner, delivered>>

Broadcast ==
  \E R \in SUBSET Sessions :
    /\ members \subseteq R
    /\ Publish([s \in Sessions |-> IF s \in R THEN Msg(number + 1, "chat") ELSE <<>>],
               members)

\* A private message to the sessions in T, at most one, and a reply to s.
Parcels(s, T) ==
  [r \in Sessions |-> (IF r \in T THEN Msg(number + 1, "private") ELSE <<>>)
                      \o (IF r = s THEN Msg(number + 1, "reply") ELSE <<>>)]

Private(s, u) ==
  IF owner[u] \in members
  THEN Publish(Parcels(s, {owner[u]}), {owner[u]})
  ELSE \E T \in {{}} \cup {{t} : t \in Sessions \ members} : Publish(Parcels(s, T), {})

Reply(s) == Publish(Parcels(s, {}), {})

Deliver(s) ==
  /\ delivered[s] < Len(inbox[s])
  /\ delivered' = [delivered EXCEPT ![s] = @ + 1]
  /\ UNCHANGED <<members, owner, inbox, number, audience>>

Crash ==
  /\ members' = {}
  /\ owner' = [u \in Users |-> Absent]
  /\ inbox' = [s \in Sessions |-> SubSeq(inbox[s], 1, delivered[s])]
  /\ audience' = [n \in 1..MaxFrames |-> {}]
  /\ UNCHANGED <<delivered, number>>

Next ==
  \/ \E s \in Sessions :
       \/ \E u \in Users : Enter(s, u) \/ Private(s, u)
       \/ Exit(s) \/ Reply(s) \/ Deliver(s)
  \/ Broadcast
  \/ Crash

Spec == Init /\ [][Next]_vars
-----------------------------------------------------------------------------
(***************************************************************************)
(* What makes the specification worth implementing, and their invariant.   *)
(***************************************************************************)
\* Inboxes are in the order of the frames; a private message comes before the
\* reply to the same frame, and nothing comes twice.
Ordered ==
  \A s \in Sessions : \A i, j \in 1..Len(inbox[s]) : i < j =>
    \/ inbox[s][i].frame < inbox[s][j].frame
    \/ /\ inbox[s][i].frame = inbox[s][j].frame
       /\ inbox[s][i].kind = "private" /\ inbox[s][j].kind = "reply"

\* Who was promised a frame's message has it in the inbox.
Reached ==
  \A n \in 1..MaxFrames : \A s \in audience[n] :
    \E i \in 1..Len(inbox[s]) : inbox[s][i].frame = n /\ inbox[s][i].kind # "reply"

\* Inboxes hold messages of frames that were, and only those are promised.
Numbered ==
  /\ \A s \in Sessions : \A i \in 1..Len(inbox[s]) : inbox[s][i].frame \in 1..number
  /\ \A n \in 1..MaxFrames : n > number => audience[n] = {}
=============================================================================
