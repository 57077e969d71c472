-------------------------- MODULE WebSocketSession --------------------------
(***************************************************************************)
(* The sessions of the WebSocket server and the hub they share: handshake, *)
(* authentication, incoming frames, the write queue of each session, and   *)
(* the ways a session ends.                                                *)
(*                                                                         *)
(* One thread runs the io_context, so a completion handler is one atomic   *)
(* step.  A session object lives as long as an outstanding operation holds *)
(* its shared_ptr; the hub has a weak_ptr and learns late of its death.    *)
(***************************************************************************)
EXTENDS SharedState, Naturals, Sequences

CONSTANTS
  MaxFrames,   \* bound on the frames all clients send
  Attentive    \* the sessions whose peer reads what is written; only fairness
               \* asks for them

ASSUME MaxFramesAssumption == MaxFrames \in Nat
ASSUME AttentiveAssumption == Attentive \subseteq Sessions

VARIABLES
  phase,     \* "none", "http" (reading the request), "accepting", "open", "gone"
  link,      \* is the peer there and keeping to the protocol?
  userId,    \* userId_
  reading,   \* is an async_read of a frame outstanding?
  writing,   \* the number of async_write operations outstanding
  inProgress,\* writeInProgress_
  queue,     \* writeQueue_
  hub,       \* the tables of SharedState
  written,   \* history: the messages written to the peer, in order
  frames,    \* history: the number of frames read so far
  latest,    \* history: the session each user bound last
  audience   \* history: the sessions the message of each frame is for

ends == <<link, userId, latest>>
flow == <<writing, inProgress, queue, written>>
vars == <<phase, link, userId, reading, writing, inProgress, queue, hub,
          written, frames, latest, audience>>

\* A message is known by the frame that caused it.
Message == [frame : 1..MaxFrames, kind : {"chat", "private", "reply"}]
Msg(n, k) == <<[frame |-> n, kind |-> k]>>

Alive == {s \in Sessions : \/ phase[s] \in {"http", "accepting"}
                           \/ phase[s] = "open" /\ (reading[s] \/ writing[s] > 0)}

\* Sessions in service: handshake done, link up.
Served == {s \in Sessions : phase[s] = "open" /\ link[s]}

Init ==
  /\ phase = [s \in Sessions |-> "none"]
  /\ link = [s \in Sessions |-> FALSE]
  /\ userId = [s \in Sessions |-> NoUser]
  /\ reading = [s \in Sessions |-> FALSE]
  /\ writing = [s \in Sessions |-> 0]
  /\ inProgress = [s \in Sessions |-> FALSE]
  /\ queue = [s \in Sessions |-> <<>>]
  /\ hub = EmptyHub
  /\ written = [s \in Sessions |-> <<>>]
  /\ frames = 0
  /\ latest = [u \in Users |-> Absent]
  /\ audience = [n \in 1..MaxFrames |-> {}]

(***************************************************************************)
(* The handshake.                                                          *)
(***************************************************************************)
\* Listener::onAccept and run().
Run(s) ==
  /\ phase[s] = "none"
  /\ phase' = [phase EXCEPT ![s] = "http"]
  /\ link' = [link EXCEPT ![s] = TRUE]
  /\ UNCHANGED <<userId, latest, reading, flow, hub, frames, audience>>

\* onReadHttp fails: a bad request or a lost link closes the stream and leaves
\* the hub; other errors, a request that is no upgrade and a request whose
\* token authenticate() refuses only end the session.
ReadHttpFails(s) ==
  /\ phase[s] = "http"
  /\ phase' = [phase EXCEPT ![s] = "gone"]
  /\ hub' \in {hub, Leave(hub, s)}
  /\ UNCHANGED <<ends, reading, flow, frames, audience>>

\* onReadHttp accepts the token of u.
ReadHttp(s, u) ==
  /\ phase[s] = "http"
  /\ phase' = [phase EXCEPT ![s] = "accepting"]
  /\ userId' = [userId EXCEPT ![s] = u]
  /\ UNCHANGED <<link, latest, reading, flow, hub, frames, audience>>

AcceptFails(s) ==
  /\ phase[s] = "accepting" /\ ~link[s]
  /\ phase' = [phase EXCEPT ![s] = "gone"]
  /\ UNCHANGED <<ends, reading, flow, hub, frames, audience>>

\* onAccept: join, bindUser, doRead.
OnAccept(s) ==
  /\ phase[s] = "accepting"
  /\ phase' = [phase EXCEPT ![s] = "open"]
  /\ hub' = IF userId[s] = NoUser THEN Join(hub, s, Alive)
            ELSE BindUser(Join(hub, s, Alive), s, userId[s])
  /\ latest' = IF userId[s] = NoUser THEN latest ELSE [latest EXCEPT ![userId[s]] = s]
  /\ reading' = [reading EXCEPT ![s] = TRUE]
  /\ UNCHANGED <<link, userId, flow, frames, audience>>

(***************************************************************************)
(* Sending.  out[s] are the messages a handler sends to s, in order:       *)
(* sendMessage queues each, and starts a write if none is in progress.     *)
(***************************************************************************)
\* Mutated form: every message starts a write.
PostWriting(out) ==
  /\ queue' = [s \in Sessions |-> queue[s] \o out[s]]
  /\ inProgress' = [s \in Sessions |-> inProgress[s] \/ out[s] # <<>>]
  /\ writing' = [s \in Sessions |-> writing[s] + Len(out[s])]
  /\ UNCHANGED written

Post(out) ==
  /\ queue' = [s \in Sessions |-> queue[s] \o out[s]]
  /\ inProgress' = [s \in Sessions |-> inProgress[s] \/ out[s] # <<>>]
  /\ writing' = [s \in Sessions |->
       IF ~inProgress[s] /\ out[s] # <<>> THEN writing[s] + 1 ELSE writing[s]]
  /\ UNCHANGED written

To(S, m) == [s \in Sessions |-> IF s \in S THEN m ELSE <<>>]

\* A private message of frame n to t, and the answer to the sender s.
PrivateAndReply(s, t, n) ==
  [r \in Sessions |-> (IF r = t THEN Msg(n, "private") ELSE <<>>)
                      \o (IF r = s THEN Msg(n, "reply") ELSE <<>>)]

(***************************************************************************)
(* onRead with a frame.  doRead follows at once, so reading stays TRUE.    *)
(* What a peer sent before its link broke may still be read.               *)
(***************************************************************************)
Frame(s) ==
  /\ reading[s]
  /\ frames < MaxFrames
  /\ frames' = frames + 1
  /\ UNCHANGED <<phase, ends, reading>>

\* handleChatMessage and handleTypingNotification: broadcast to every live
\* session of the hub.
Chat(s) ==
  /\ Frame(s) /\ userId[s] # NoUser
  /\ hub' = Cleanup(hub, Alive)
  /\ Post(To(Recipients(hub, Alive), Msg(frames', "chat")))
  /\ audience' = [audience EXCEPT ![frames'] = Served]

\* handlePrivateMessage: the message to the session of u, then the answer to
\* the sender, "delivered" or "offline".
Private(s, u) ==
  /\ Frame(s) /\ userId[s] # NoUser
  /\ Post(PrivateAndReply(s, Target(hub, u, Alive), frames'))
  /\ hub' = AfterLookup(hub, u, Alive)
  /\ audience' = [audience EXCEPT ![frames'] = Served \cap {latest[u]}]

\* Not JSON, no type, an unknown type, a field missing, no user: an error.
Refuse(s) ==
  /\ Frame(s)
  /\ Post(To({s}, Msg(frames', "reply")))
  /\ UNCHANGED <<hub, audience>>

\* Mutated form: an error is followed by doRead.
ReadFailsRetrying(s) ==
  /\ reading[s] /\ ~link[s]
  /\ UNCHANGED <<reading, phase, ends, flow, hub, frames, audience>>

\* onRead with an error: the session neither reads again nor leaves the hub.
ReadFails(s) ==
  /\ reading[s] /\ ~link[s]
  /\ reading' = [reading EXCEPT ![s] = FALSE]
  /\ UNCHANGED <<phase, ends, flow, hub, frames, audience>>

\* Mutated form: the next message is not started.
OnWriteOnce(s) ==
  /\ writing[s] > 0
  /\ written' = [written EXCEPT ![s] = Append(@, Head(queue[s]))]
  /\ queue' = [queue EXCEPT ![s] = Tail(@)]
  /\ writing' = [writing EXCEPT ![s] = @ - 1]
  /\ inProgress' = [inProgress EXCEPT ![s] = FALSE]
  /\ UNCHANGED <<phase, ends, reading, hub, frames, audience>>

\* Mutated form: the front is not popped.
OnWriteKeeping(s) ==
  /\ writing[s] > 0
  /\ written' = [written EXCEPT ![s] = Append(@, Head(queue[s]))]
  /\ UNCHANGED <<phase, ends, reading, writing, inProgress, queue, hub, frames, audience>>

\* Mutated form: writeInProgress_ is not reset.
OnWriteHolding(s) ==
  /\ writing[s] > 0
  /\ written' = [written EXCEPT ![s] = Append(@, Head(queue[s]))]
  /\ queue' = [queue EXCEPT ![s] = Tail(@)]
  /\ IF Tail(queue[s]) = <<>> THEN writing' = [writing EXCEPT ![s] = @ - 1]
     ELSE UNCHANGED writing
  /\ UNCHANGED <<phase, ends, reading, inProgress, hub, frames, audience>>

\* onWrite: the front was written; the next message, if any, follows.
OnWrite(s) ==
  /\ writing[s] > 0
  /\ written' = [written EXCEPT ![s] = Append(@, Head(queue[s]))]
  /\ queue' = [queue EXCEPT ![s] = Tail(@)]
  /\ IF Tail(queue[s]) = <<>>
     THEN /\ writing' = [writing EXCEPT ![s] = @ - 1]
          /\ inProgress' = [inProgress EXCEPT ![s] = FALSE]
     ELSE UNCHANGED <<writing, inProgress>>
  /\ UNCHANGED <<phase, ends, reading, hub, frames, audience>>

\* onWrite with an error: the session leaves the hub and never writes again.
WriteFails(s) ==
  /\ writing[s] > 0 /\ ~link[s]
  /\ writing' = [writing EXCEPT ![s] = @ - 1]
  /\ hub' = Leave(hub, s)
  /\ UNCHANGED <<phase, ends, reading, inProgress, queue, written, frames, audience>>

(***************************************************************************)
(* The environment: a peer goes away or breaks the protocol; the process   *)
(* dies (a kill, or an exception that leaves io_context::run(): a field of *)
(* another JSON type, a refusal written to a closed peer) and restarts.    *)
(***************************************************************************)
Drop(s) ==
  /\ link[s]
  /\ link' = [link EXCEPT ![s] = FALSE]
  /\ UNCHANGED <<phase, userId, latest, reading, flow, hub, frames, audience>>

Crash ==
  /\ phase' = [s \in Sessions |-> IF phase[s] = "none" THEN "none" ELSE "gone"]
  /\ link' = [s \in Sessions |-> FALSE]
  /\ reading' = [s \in Sessions |-> FALSE]
  /\ writing' = [s \in Sessions |-> 0]
  /\ inProgress' = [s \in Sessions |-> FALSE]
  /\ queue' = [s \in Sessions |-> <<>>]
  /\ hub' = EmptyHub
  /\ latest' = [u \in Users |-> Absent]
  /\ audience' = [n \in 1..MaxFrames |-> {}]
  /\ UNCHANGED <<userId, written, frames>>

Next ==
  \/ \E s \in Sessions :
       \/ Run(s) \/ ReadHttpFails(s) \/ AcceptFails(s) \/ OnAccept(s)
       \/ \E u \in Users : ReadHttp(s, u) \/ Private(s, u)
       \/ Chat(s) \/ Refuse(s) \/ ReadFails(s)
       \/ OnWrite(s) \/ WriteFails(s)
       \/ Drop(s)
  \/ Crash

Spec == Init /\ [][Next]_vars

\* io_context::run() delivers completions: failures of a broken link, and writes
\* that a peer takes.  A write to a peer that does not read need never complete: it
\* has no timeout of its own, and what that peer sends resets the idle timeout.
FairSpec ==
  /\ Spec
  /\ \A s \in Sessions : WF_vars(ReadFails(s)) /\ WF_vars(WriteFails(s))
  /\ \A s \in Attentive : WF_vars(OnWrite(s))
-----------------------------------------------------------------------------
TypeOK ==
  /\ phase \in [Sessions -> {"none", "http", "accepting", "open", "gone"}]
  /\ link \in [Sessions -> BOOLEAN]
  /\ userId \in [Sessions -> Users \cup {NoUser}]
  /\ reading \in [Sessions -> BOOLEAN]
  /\ writing \in [Sessions -> Nat]
  /\ inProgress \in [Sessions -> BOOLEAN]
  /\ queue \in [Sessions -> Seq(Message)]
  /\ hub \in Hub
  /\ written \in [Sessions -> Seq(Message)]
  /\ frames \in 0..MaxFrames
  /\ latest \in [Users -> Sessions \cup {Absent}]
  /\ audience \in [1..MaxFrames -> SUBSET Sessions]

\* sessions_ and userToSessions_ agree: the session an entry binds to a user is
\* the one the index has for that user, so no user has two bound sessions.
BoundMatchesIndex == Agree(hub)

\* The index dangles, or points to an entry bound to nobody, only for a session
\* whose link broke: leave() keeps the index entry of a bound session.
IndexDanglesOnlyIfBroken ==
  \A s \in Sessions, u \in Users :
    hub.userToSessions[u] = s /\ hub.sessions[s] # u => ~link[s]

\* At most one async_write is outstanding per session, as Beast's streams
\* demand, although every session's handlers send to every other session.
OneWriteAtATime ==
  \A s \in Sessions : /\ writing[s] <= 1
                      /\ writing[s] = 1 => inProgress[s] /\ queue[s] # <<>>

\* No message waits in the queue of a session in service with no write under
\* way to take it out.
NothingStranded ==
  \A s \in Served : queue[s] # <<>> => writing[s] = 1

\* A session in service is found in the hub by its identifier, and the one that
\* bound its user last is where private messages go: late news of other sessions'
\* deaths, clean-ups, take-overs and failed writes never unhook it.
ServedAreReachable ==
  /\ \A s \in Served : SessionTarget(hub, s, Alive) = s
  /\ \A u \in Users : latest[u] \in Served => Target(hub, u, Alive) = latest[u]

\* The index never points back to a session a user was taken over from: a
\* private message reaches the last session of its user, or none, even when that
\* one is dead and the former still reads.
OnlyLatestHasUser ==
  \A u \in Users : hub.userToSessions[u] \in {Absent, latest[u]}

\* getOnlineUsers() lists every user whose last session is in service, and nobody
\* else once the dead sessions are cleaned up.  isOnline() may also name a user the
\* list omits, but only one whose last session's link broke: an index entry that
\* dangles never makes a user who is in service look away, nor one look online who
\* never bound a session since the start.
PresenceIsTrue ==
  \A u \in Users :
    /\ latest[u] \in Served => u \in OnlineUsers(hub)
    /\ u \in OnlineUsers(Cleanup(hub, Alive)) => latest[u] \in Alive
    /\ IsOnline(hub, u) /\ u \notin OnlineUsers(hub) =>
         latest[u] \in Sessions /\ ~link[latest[u]]

(***************************************************************************)
(* The inductive invariant behind the properties above.                    *)
(***************************************************************************)
LifeInv ==
  \A s \in Sessions :
    /\ phase[s] = "open" /\ link[s] => reading[s]
    /\ reading[s] \/ inProgress[s] => phase[s] = "open"
    /\ phase[s] = "accepting" => userId[s] # NoUser

WriteInv ==
  \A s \in Sessions :
    /\ writing[s] \in {0, 1}
    /\ writing[s] = 1 => inProgress[s]
    /\ inProgress[s] <=> queue[s] # <<>>
    /\ inProgress[s] /\ link[s] => writing[s] = 1

Open == {s \in Sessions : phase[s] = "open"}
Up == {s \in Sessions : link[s]}

HubInv ==
  /\ Hooked(hub, Open, Up, latest)
  /\ \A s \in Sessions, u \in Users : latest[u] = s => phase[s] \in {"open", "gone"}

IInv == TypeOK /\ LifeInv /\ WriteInv /\ HubInv

\* A broadcast reaches every session in service when it was sent, and a private
\* message the last session its recipient bound: written or still queued.
AudienceReached ==
  \A n \in 1..MaxFrames : \A s \in audience[n] :
    \E i \in 1..Len(written[s] \o queue[s]) :
      /\ (written[s] \o queue[s])[i].frame = n
      /\ (written[s] \o queue[s])[i].kind # "reply"

\* Each session gets its messages in the order of the frames that caused them,
\* so no two sessions see two broadcasts in different orders, and none twice.
InOrder ==
  \A s \in Sessions :
    LET all == written[s] \o queue[s]
    IN \A i, j \in 1..Len(all) : i < j =>
         \/ all[i].frame < all[j].frame
         \/ all[i].frame = all[j].frame /\ all[i].kind = "private" /\ all[j].kind = "reply"

\* A message queued for a session in service whose peer reads is written, as long
\* as the link is up, whatever is queued behind it meanwhile: neither the traffic of
\* the others nor a peer that does not read its own holds it up.  It is the n-th
\* message of the session; a frame brings a session two at most.
QueuedAreWritten ==
  \A s \in Attentive : \A n \in 1 .. 2 * MaxFrames :
    (s \in Served /\ Len(written[s]) + Len(queue[s]) >= n)
    ~> (Len(written[s]) >= n \/ ~link[s])

\* A session whose link broke is eventually released, with its write queue.
BrokenAreReleased ==
  \A s \in Sessions : phase[s] = "open" /\ ~link[s] ~> s \notin Alive
=============================================================================
