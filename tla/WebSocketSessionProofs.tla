----------------------- MODULE WebSocketSessionProofs -----------------------
(***************************************************************************)
(* WebSocketSession for every number of sessions, users and frames: first  *)
(* what SharedState's methods do to the tables of the hub, each of them    *)
(* keeping their type and their agreement, then the sessions over them.    *)
(***************************************************************************)
EXTENDS WebSocketSession, TLAPS, SequenceTheorems

LEMMA EmptyHubOK == EmptyHub \in Hub /\ Agree(EmptyHub)
  BY SentinelAssumption DEF EmptyHub, Hub, Agree

LEMMA CleanupType ==
  ASSUME NEW h \in Hub, NEW alive
  PROVE  Cleanup(h, alive) \in Hub
  BY DEF Cleanup, Hub

LEMMA CleanupAgrees ==
  ASSUME NEW h \in Hub, NEW alive, Agree(h)
  PROVE  Agree(Cleanup(h, alive))
  BY SentinelAssumption DEF Cleanup, Hub, Agree

LEMMA JoinType ==
  ASSUME NEW h \in Hub, NEW s \in Sessions, NEW alive
  PROVE  Join(h, s, alive) \in Hub
<1> DEFINE c == Cleanup(h, alive)
<1>1. c \in Hub
  BY CleanupType
<1> HIDE DEF c
<1>2. [c EXCEPT !.sessions[s] = NoUser] \in Hub
  BY <1>1 DEF Hub
<1> QED
  BY <1>2 DEF Join, c

LEMMA JoinFields ==
  ASSUME NEW h \in Hub, NEW s \in Sessions, NEW alive
  PROVE  /\ Join(h, s, alive).userToSessions = Cleanup(h, alive).userToSessions
         /\ Join(h, s, alive).sessions[s] = NoUser
         /\ \A t \in Sessions : t # s =>
              Join(h, s, alive).sessions[t] = Cleanup(h, alive).sessions[t]
<1> DEFINE c == Cleanup(h, alive)
<1>1. c \in Hub
  BY CleanupType
<1> HIDE DEF c
<1>2. LET j == [c EXCEPT !.sessions[s] = NoUser]
      IN /\ j.userToSessions = c.userToSessions
         /\ j.sessions[s] = NoUser
         /\ \A t \in Sessions : t # s => j.sessions[t] = c.sessions[t]
  BY <1>1 DEF Hub
<1> QED
  BY <1>2 DEF Join, c

LEMMA JoinAgrees ==
  ASSUME NEW h \in Hub, NEW s \in Sessions, NEW alive, Agree(h)
  PROVE  Agree(Join(h, s, alive))
  BY JoinFields, CleanupAgrees, SentinelAssumption DEF Agree

LEMMA LeaveType ==
  ASSUME NEW h \in Hub, NEW s \in Sessions
  PROVE  Leave(h, s) \in Hub
  BY DEF Leave, Hub

LEMMA LeaveAgrees ==
  ASSUME NEW h \in Hub, NEW s \in Sessions, Agree(h)
  PROVE  Agree(Leave(h, s))
  BY SentinelAssumption DEF Leave, Hub, Agree

LEMMA BindUserType ==
  ASSUME NEW h \in Hub, NEW s \in Sessions, NEW u \in Users
  PROVE  BindUser(h, s, u) \in Hub
  BY DEF BindUser, Hub

LEMMA BindUserAgrees ==
  ASSUME NEW h \in Hub, NEW s \in Sessions, NEW u \in Users, Agree(h)
  PROVE  Agree(BindUser(h, s, u))
  BY SentinelAssumption DEF BindUser, Hub, Agree

LEMMA AfterLookupType ==
  ASSUME NEW h \in Hub, NEW u \in Users, NEW alive
  PROVE  AfterLookup(h, u, alive) \in Hub
  BY DEF AfterLookup, Hub

LEMMA AfterLookupAgrees ==
  ASSUME NEW h \in Hub, NEW u \in Users, NEW alive, Agree(h)
  PROVE  Agree(AfterLookup(h, u, alive))
  BY SentinelAssumption DEF AfterLookup, Target, Hub, Agree

(***************************************************************************)
(* The methods keep the sessions in service hooked up.                     *)
(***************************************************************************)
LEMMA EmptyHubHooked ==
  ASSUME NEW open, NEW up, NEW last, \A s \in Sessions : s \notin open
  PROVE  Hooked(EmptyHub, open, up, last)
  BY EmptyHubOK, SentinelAssumption DEF Hooked, EmptyHub

\* Cleaning up spares the sessions in service: they are alive.
LEMMA CleanupHooked ==
  ASSUME NEW h \in Hub, NEW alive, NEW open, NEW up, NEW last,
         Hooked(h, open, up, last),
         \A s \in Sessions : s \in open /\ s \in up => s \in alive
  PROVE  Hooked(Cleanup(h, alive), open, up, last)
<1> DEFINE c == Cleanup(h, alive)
<1>1. /\ \A s \in Sessions : c.sessions[s] = IF s \in alive THEN h.sessions[s] ELSE Absent
      /\ \A u \in Users : c.userToSessions[u] =
           IF \E s \in Sessions \ alive : h.sessions[s] = u
           THEN Absent ELSE h.userToSessions[u]
  BY SentinelAssumption DEF Cleanup
<1>2. Agree(c)
  BY CleanupAgrees DEF Hooked
<1> HIDE DEF c
<1>3. ASSUME NEW s \in Sessions, NEW u \in Users, c.userToSessions[u] = s
      PROVE  h.userToSessions[u] = s /\ (c.sessions[s] # u => h.sessions[s] # u)
  BY <1>1, <1>3, SentinelAssumption DEF Hooked, Agree
<1>4. \A s \in Sessions : c.sessions[s] # Absent => s \in open
  BY <1>1 DEF Hooked
<1>5. \A s \in Sessions : s \in open /\ s \in up => c.sessions[s] = h.sessions[s]
  BY <1>1
<1>6. ASSUME NEW s \in Sessions, NEW u \in Users, last[u] = s, s \in open, s \in up
      PROVE  c.userToSessions[u] = s
  <2>1. h.userToSessions[u] = s
    BY <1>6 DEF Hooked
  <2>2. \A t \in Sessions : h.sessions[t] = u => t = s
    BY <2>1 DEF Hooked, Agree
  <2> QED
    BY <1>1, <1>6, <2>1, <2>2
<1>7. Hooked(c, open, up, last)
  BY <1>2, <1>3, <1>4, <1>5, <1>6 DEF Hooked
<1> QED
  BY <1>7 DEF c

\* Leaving unhooks only the session whose write failed.
LEMMA LeaveHooked ==
  ASSUME NEW h \in Hub, NEW s \in Sessions, NEW open, NEW up, NEW last,
         Hooked(h, open, up, last), s \notin open \/ s \notin up
  PROVE  Hooked(Leave(h, s), open, up, last)
<1>1. Agree(Leave(h, s))
  BY LeaveAgrees DEF Hooked
<1> QED
  BY <1>1, SentinelAssumption DEF Hooked, Leave, Hub

\* A lookup drops only entries of dead sessions.
LEMMA AfterLookupHooked ==
  ASSUME NEW h \in Hub, NEW u \in Users, NEW alive, NEW open, NEW up, NEW last,
         Hooked(h, open, up, last),
         \A s \in Sessions : s \in open /\ s \in up => s \in alive
  PROVE  Hooked(AfterLookup(h, u, alive), open, up, last)
<1>1. Agree(AfterLookup(h, u, alive))
  BY AfterLookupAgrees DEF Hooked
<1> QED
  BY <1>1, SentinelAssumption DEF Hooked, AfterLookup, Target, Hub

\* So does a lookup by session identifier, which no handler makes yet: a handler
\* that made one would keep the sessions in service hooked up.
LEMMA AfterSessionLookupHooked ==
  ASSUME NEW h \in Hub, NEW s \in Sessions, NEW alive, NEW open, NEW up, NEW last,
         Hooked(h, open, up, last),
         \A t \in Sessions : t \in open /\ t \in up => t \in alive
  PROVE  /\ AfterSessionLookup(h, s, alive) \in Hub
         /\ Hooked(AfterSessionLookup(h, s, alive), open, up, last)
  BY LeaveType, LeaveHooked DEF AfterSessionLookup

\* No method but bindUser puts a session in the index.
LEMMA CleanupOnlyLoses ==
  ASSUME NEW h \in Hub, NEW alive, NEW u \in Users
  PROVE  Cleanup(h, alive).userToSessions[u] \in {Absent, h.userToSessions[u]}
  BY SentinelAssumption DEF Cleanup

LEMMA LeaveKeepsIndex ==
  ASSUME NEW h \in Hub, NEW s \in Sessions, NEW u \in Users
  PROVE  Leave(h, s).userToSessions[u] = h.userToSessions[u]
  BY SentinelAssumption DEF Leave, Hub

LEMMA AfterLookupOnlyLoses ==
  ASSUME NEW h \in Hub, NEW v \in Users, NEW alive, NEW u \in Users
  PROVE  AfterLookup(h, v, alive).userToSessions[u] \in {Absent, h.userToSessions[u]}
  BY DEF AfterLookup, Hub

\* Binding a user moves it to the new session and unhooks no other user's.
LEMMA JoinAndBindHooked ==
  ASSUME NEW h \in Hub, NEW s \in Sessions, NEW u \in Users, NEW alive, NEW open, NEW up,
         NEW last \in [Users -> Sessions \cup {Absent}],
         Hooked(h, open, up, last), s \notin open,
         \A v \in Users : last[v] # s,
         \A t \in Sessions : t \in open /\ t \in up => t \in alive
  PROVE  Hooked(BindUser(Join(h, s, alive), s, u), open \cup {s}, up,
                [last EXCEPT ![u] = s])
<1> DEFINE c == Cleanup(h, alive)
           j == Join(h, s, alive)
           b == BindUser(j, s, u)
<1>1. c \in Hub /\ j \in Hub /\ b \in Hub
  BY CleanupType, JoinType, BindUserType
<1>2. Hooked(c, open, up, last)
  BY CleanupHooked
<1>3. Agree(b)
  BY <1>1, BindUserAgrees, JoinAgrees DEF Hooked
<1>4. /\ j.userToSessions = c.userToSessions
      /\ j.sessions[s] = NoUser
      /\ \A t \in Sessions : t # s => j.sessions[t] = c.sessions[t]
  BY JoinFields
<1> HIDE DEF c, j
<1>5. /\ b.userToSessions[u] = s
      /\ \A v \in Users : v # u => b.userToSessions[v] = c.userToSessions[v]
      /\ b.sessions[s] = u
      /\ \A t \in Sessions : t # s =>
           b.sessions[t] = IF t = c.userToSessions[u] /\ c.sessions[t] # Absent
                           THEN NoUser ELSE c.sessions[t]
  BY <1>1, <1>4, SentinelAssumption DEF BindUser, Hub
<1> HIDE DEF b
<1> DEFINE now == [last EXCEPT ![u] = s]
<1>6. now[u] = s /\ \A v \in Users : v # u => now[v] = last[v]
  OBVIOUS
<1> HIDE DEF now
<1>7. \A t \in Sessions : b.sessions[t] # Absent => t \in open \cup {s}
  BY <1>2, <1>5 DEF Hooked
<1>8. \A t \in Sessions, v \in Users : b.userToSessions[v] = t => t \in open \cup {s}
  BY <1>2, <1>5 DEF Hooked
<1>9. ASSUME NEW t \in Sessions, NEW v \in Users,
             b.userToSessions[v] = t, b.sessions[t] # v
      PROVE  t \notin up
  <2>1. v # u
    BY <1>5, <1>9
  <2>2. c.userToSessions[v] = t /\ t # s
    BY <1>2, <1>5, <1>9, <2>1 DEF Hooked
  <2>3. CASE c.sessions[t] # v
    BY <1>2, <2>2, <2>3 DEF Hooked
  <2>4. CASE c.sessions[t] = v
    <3>1. t = c.userToSessions[u]
      BY <1>5, <1>9, <2>2, <2>4
    <3> QED
      BY <1>2, <2>1, <2>4, <3>1 DEF Hooked
  <2> QED
    BY <2>3, <2>4
<1>10. \A t \in Sessions : t \in open \cup {s} /\ t \in up => b.sessions[t] # Absent
  BY <1>2, <1>5, SentinelAssumption DEF Hooked
<1>11. \A t \in Sessions, v \in Users :
         now[v] = t /\ t \in open \cup {s} /\ t \in up => b.userToSessions[v] = t
  BY <1>2, <1>5, <1>6 DEF Hooked
<1> QED
  BY <1>3, <1>7, <1>8, <1>9, <1>10, <1>11 DEF Hooked, j, b, now
-----------------------------------------------------------------------------
LEMMA MsgType ==
  ASSUME NEW n \in 1..MaxFrames, NEW k \in {"chat", "private", "reply"}
  PROVE  Msg(n, k) \in Seq(Message) /\ Msg(n, k) # <<>>
  BY DEF Msg, Message

LEMMA ToType ==
  ASSUME NEW S, NEW m \in Seq(Message)
  PROVE  /\ To(S, m) \in [Sessions -> Seq(Message)]
         /\ \A s \in Sessions : To(S, m)[s] # <<>> => s \in S
  BY DEF To

LEMMA PrivateAndReplyType ==
  ASSUME NEW s \in Sessions, NEW t, NEW n \in 1..MaxFrames
  PROVE  /\ PrivateAndReply(s, t, n) \in [Sessions -> Seq(Message)]
         /\ \A r \in Sessions : PrivateAndReply(s, t, n)[r] # <<>> => r = s \/ r = t
<1>1. /\ Msg(n, "private") \in Seq(Message) /\ Msg(n, "reply") \in Seq(Message)
  BY MsgType
<1>2. <<>> \in Seq(Message) /\ <<>> \o <<>> = <<>>
  OBVIOUS
<1>3. \A a, b \in Seq(Message) : a \o b \in Seq(Message)
  BY ConcatProperties
<1> QED
  BY <1>1, <1>2, <1>3 DEF PrivateAndReply

\* Queueing and starting a write keeps the types and the write discipline.
LEMMA PostKeepsTypes ==
  ASSUME TypeOK, NEW out \in [Sessions -> Seq(Message)], Post(out)
  PROVE  /\ queue' \in [Sessions -> Seq(Message)]
         /\ inProgress' \in [Sessions -> BOOLEAN]
         /\ writing' \in [Sessions -> Nat]
         /\ written' \in [Sessions -> Seq(Message)]
<1>1. \A s \in Sessions : queue[s] \o out[s] \in Seq(Message)
  BY ConcatProperties DEF TypeOK
<1> QED
  BY <1>1 DEF Post, TypeOK

LEMMA PostKeepsWriteInv ==
  ASSUME TypeOK, WriteInv, NEW out \in [Sessions -> Seq(Message)], Post(out),
         link' = link
  PROVE  WriteInv'
<1> SUFFICES ASSUME NEW s \in Sessions
             PROVE  /\ writing'[s] \in {0, 1}
                    /\ writing'[s] = 1 => inProgress'[s]
                    /\ inProgress'[s] <=> queue'[s] # <<>>
                    /\ inProgress'[s] /\ link[s] => writing'[s] = 1
  BY DEF WriteInv
<1>1. queue'[s] = queue[s] \o out[s]
  BY DEF Post
<1>2. inProgress'[s] <=> inProgress[s] \/ out[s] # <<>>
  BY DEF Post
<1>3. writing'[s] = IF ~inProgress[s] /\ out[s] # <<>> THEN writing[s] + 1
                    ELSE writing[s]
  BY DEF Post
<1>4. queue[s] \o out[s] = <<>> <=> queue[s] = <<>> /\ out[s] = <<>>
  BY ConcatEqualIffEmpty DEF TypeOK
<1>5. /\ writing[s] \in {0, 1}
      /\ writing[s] = 1 => inProgress[s]
      /\ inProgress[s] <=> queue[s] # <<>>
      /\ inProgress[s] /\ link[s] => writing[s] = 1
  BY DEF WriteInv
<1>6. CASE inProgress[s]
  <2>1. writing'[s] = writing[s] /\ inProgress'[s] /\ queue'[s] # <<>>
    BY <1>1, <1>2, <1>3, <1>4, <1>5, <1>6
  <2> QED
    BY <1>5, <1>6, <2>1
<1>7. CASE ~inProgress[s] /\ out[s] # <<>>
  <2>1. writing'[s] = 1 /\ inProgress'[s] /\ queue'[s] # <<>>
    BY <1>1, <1>2, <1>3, <1>4, <1>5, <1>7
  <2> QED
    BY <2>1
<1>8. CASE ~inProgress[s] /\ out[s] = <<>>
  <2>1. writing'[s] = 0 /\ ~inProgress'[s] /\ queue'[s] = <<>>
    BY <1>1, <1>2, <1>3, <1>4, <1>5, <1>8
  <2> QED
    BY <2>1
<1> QED
  BY <1>6, <1>7, <1>8

(***************************************************************************)
(* What a frame causes: messages queued for open sessions.                 *)
(***************************************************************************)
Posts == \E out \in [Sessions -> Seq(Message)] :
           /\ Post(out)
           /\ \A r \in Sessions : out[r] # <<>> => phase[r] = "open"

Frames(s) == Chat(s) \/ Refuse(s) \/ \E u \in Users : Private(s, u)

LEMMA FrameNumber ==
  ASSUME TypeOK, NEW s \in Sessions, Frame(s)
  PROVE  frames' \in 1..MaxFrames
  BY MaxFramesAssumption DEF TypeOK, Frame

LEMMA FramesPost ==
  ASSUME IInv, NEW s \in Sessions, Frames(s)
  PROVE  Posts
<1> USE DEF IInv
<1>1. Frame(s)
  BY DEF Frames, Chat, Refuse, Private
<1>2. frames' \in 1..MaxFrames
  BY <1>1, FrameNumber
<1>3. phase[s] = "open"
  BY <1>1 DEF Frame, LifeInv
<1>4. CASE Chat(s)
  <2>1. Post(To(Recipients(hub, Alive), Msg(frames', "chat")))
    BY <1>4 DEF Chat
  <2>2. Msg(frames', "chat") \in Seq(Message)
    BY <1>2, MsgType
  <2>3. \A r \in Recipients(hub, Alive) : phase[r] = "open"
    BY DEF Recipients, HubInv, Hooked, Open, Alive
  <2> QED
    BY <2>1, <2>2, <2>3, ToType DEF Posts
<1>5. CASE Refuse(s)
  <2>1. Post(To({s}, Msg(frames', "reply")))
    BY <1>5 DEF Refuse
  <2>2. Msg(frames', "reply") \in Seq(Message)
    BY <1>2, MsgType
  <2>3. \A r \in Sessions : To({s}, Msg(frames', "reply"))[r] # <<>> => r = s
    BY <2>2, ToType
  <2> QED
    BY <1>3, <2>1, <2>2, <2>3, ToType DEF Posts
<1>6. ASSUME NEW u \in Users, Private(s, u)
      PROVE  Posts
  <2> DEFINE t == Target(hub, u, Alive)
  <2>1. Post(PrivateAndReply(s, t, frames'))
    BY <1>6 DEF Private
  <2>2. \A r \in Sessions : r = t => phase[r] = "open"
    BY SentinelAssumption DEF Target, HubInv, Hooked, Open
  <2> HIDE DEF t
  <2> QED
    BY <1>2, <1>3, <2>1, <2>2, PrivateAndReplyType DEF Posts
<1> QED
  BY <1>4, <1>5, <1>6 DEF Frames

(***************************************************************************)
(* Types.                                                                  *)
(***************************************************************************)
LEMMA FramesKeepType ==
  ASSUME IInv, NEW s \in Sessions, Frames(s)
  PROVE  TypeOK'
<1> USE DEF IInv
<1>1. Frame(s)
  BY DEF Frames, Chat, Refuse, Private
<1>2. /\ queue' \in [Sessions -> Seq(Message)]
      /\ inProgress' \in [Sessions -> BOOLEAN]
      /\ writing' \in [Sessions -> Nat]
      /\ written' \in [Sessions -> Seq(Message)]
  BY FramesPost, PostKeepsTypes DEF Posts
<1>3. frames' \in 1..MaxFrames
  BY <1>1, FrameNumber
<1>4. hub' \in Hub
  BY CleanupType, AfterLookupType DEF TypeOK, Frames, Chat, Refuse, Private
<1>5. audience' \in [1..MaxFrames -> SUBSET Sessions]
  BY <1>3 DEF TypeOK, Frames, Chat, Refuse, Private, Served
<1> QED
  BY <1>1, <1>2, <1>3, <1>4, <1>5 DEF TypeOK, Frame, ends

LEMMA OnAcceptHub ==
  ASSUME TypeOK, NEW s \in Sessions, OnAccept(s)
  PROVE  hub' \in Hub
<1>1. Join(hub, s, Alive) \in Hub
  BY JoinType DEF TypeOK
<1>2. userId[s] \in Users \cup {NoUser}
  BY DEF TypeOK
<1> QED
  BY <1>1, <1>2, BindUserType DEF OnAccept

LEMMA StepKeepsType ==
  ASSUME IInv, [Next]_vars
  PROVE  TypeOK'
<1> USE DEF IInv, ends, flow
<1>1. ASSUME NEW s \in Sessions, Run(s)
      PROVE  TypeOK'
  BY <1>1 DEF Run, TypeOK
<1>2. ASSUME NEW s \in Sessions, ReadHttpFails(s)
      PROVE  TypeOK'
  <2>1. hub' \in Hub
    BY <1>2, LeaveType DEF ReadHttpFails, TypeOK
  <2> QED
    BY <1>2, <2>1 DEF ReadHttpFails, TypeOK
<1>3. ASSUME NEW s \in Sessions, NEW u \in Users, ReadHttp(s, u)
      PROVE  TypeOK'
  BY <1>3 DEF ReadHttp, TypeOK
<1>4. ASSUME NEW s \in Sessions, AcceptFails(s)
      PROVE  TypeOK'
  BY <1>4 DEF AcceptFails, TypeOK
<1>5. ASSUME NEW s \in Sessions, OnAccept(s)
      PROVE  TypeOK'
  <2>1. hub' \in Hub
    BY <1>5, OnAcceptHub
  <2> QED
    BY <1>5, <2>1 DEF OnAccept, TypeOK
<1>6. ASSUME NEW s \in Sessions, Frames(s)
      PROVE  TypeOK'
  BY <1>6, FramesKeepType
<1>7. ASSUME NEW s \in Sessions, ReadFails(s)
      PROVE  TypeOK'
  BY <1>7 DEF ReadFails, TypeOK
<1>8. ASSUME NEW s \in Sessions, OnWrite(s)
      PROVE  TypeOK'
  <2>1. queue[s] \in Seq(Message) /\ queue[s] # <<>>
    BY <1>8 DEF OnWrite, TypeOK, WriteInv
  <2>2. Head(queue[s]) \in Message /\ Tail(queue[s]) \in Seq(Message)
    BY <2>1, HeadTailProperties
  <2>3. Append(written[s], Head(queue[s])) \in Seq(Message)
    BY <2>2, AppendProperties DEF TypeOK
  <2>4. written' \in [Sessions -> Seq(Message)] /\ queue' \in [Sessions -> Seq(Message)]
    BY <1>8, <2>2, <2>3 DEF OnWrite, TypeOK
  <2>5. writing' \in [Sessions -> Nat] /\ inProgress' \in [Sessions -> BOOLEAN]
    <3>1. CASE Tail(queue[s]) = <<>>
      <4>1. writing[s] - 1 \in Nat
        BY <1>8 DEF OnWrite, TypeOK
      <4> QED
        BY <1>8, <3>1, <4>1 DEF OnWrite, TypeOK
    <3>2. CASE Tail(queue[s]) # <<>>
      BY <1>8, <3>2 DEF OnWrite, TypeOK
    <3> QED
      BY <3>1, <3>2
  <2> QED
    BY <1>8, <2>4, <2>5 DEF OnWrite, TypeOK
<1>9. ASSUME NEW s \in Sessions, WriteFails(s)
      PROVE  TypeOK'
  <2>1. hub' \in Hub
    BY <1>9, LeaveType DEF WriteFails, TypeOK
  <2>2. writing' \in [Sessions -> Nat]
    BY <1>9 DEF WriteFails, TypeOK
  <2> QED
    BY <1>9, <2>1, <2>2 DEF WriteFails, TypeOK
<1>10. ASSUME NEW s \in Sessions, Drop(s)
       PROVE  TypeOK'
  BY <1>10 DEF Drop, TypeOK
<1>11. CASE Crash
  BY <1>11, EmptyHubOK DEF Crash, TypeOK
<1>12. CASE UNCHANGED vars
  BY <1>12 DEF vars, TypeOK
<1> QED
  BY <1>1, <1>2, <1>3, <1>4, <1>5, <1>6, <1>7, <1>8, <1>9, <1>10, <1>11, <1>12
     DEF Next, Frames

(***************************************************************************)
(* The life of a session and its write queue.                              *)
(***************************************************************************)
LEMMA FramesKeepLifeAndWrite ==
  ASSUME IInv, NEW s \in Sessions, Frames(s)
  PROVE  LifeInv' /\ WriteInv'
<1> USE DEF IInv
<1>1. UNCHANGED <<phase, link, userId, reading>>
  BY DEF Frames, Chat, Refuse, Private, Frame, ends
<1>2. PICK out \in [Sessions -> Seq(Message)] :
        /\ Post(out)
        /\ \A r \in Sessions : out[r] # <<>> => phase[r] = "open"
  BY FramesPost DEF Posts
<1>3. WriteInv'
  BY <1>1, <1>2, PostKeepsWriteInv
<1>4. LifeInv'
  BY <1>1, <1>2 DEF LifeInv, Post
<1> QED
  BY <1>3, <1>4

LEMMA StepKeepsLifeAndWrite ==
  ASSUME IInv, [Next]_vars
  PROVE  LifeInv' /\ WriteInv'
<1> USE DEF IInv, ends, flow
<1>1. ASSUME NEW s \in Sessions, Run(s)
      PROVE  LifeInv' /\ WriteInv'
  BY <1>1 DEF Run, TypeOK, LifeInv, WriteInv
<1>2. ASSUME NEW s \in Sessions, ReadHttpFails(s)
      PROVE  LifeInv' /\ WriteInv'
  BY <1>2 DEF ReadHttpFails, TypeOK, LifeInv, WriteInv
<1>3. ASSUME NEW s \in Sessions, NEW u \in Users, ReadHttp(s, u)
      PROVE  LifeInv' /\ WriteInv'
  <2>1. WriteInv'
    BY <1>3 DEF ReadHttp, WriteInv
  <2>2. LifeInv'
    BY <1>3, SentinelAssumption DEF ReadHttp, TypeOK, LifeInv
  <2> QED
    BY <2>1, <2>2
<1>4. ASSUME NEW s \in Sessions, AcceptFails(s)
      PROVE  LifeInv' /\ WriteInv'
  BY <1>4 DEF AcceptFails, TypeOK, LifeInv, WriteInv
<1>5. ASSUME NEW s \in Sessions, OnAccept(s)
      PROVE  LifeInv' /\ WriteInv'
  BY <1>5 DEF OnAccept, TypeOK, LifeInv, WriteInv
<1>6. ASSUME NEW s \in Sessions, Frames(s)
      PROVE  LifeInv' /\ WriteInv'
  BY <1>6, FramesKeepLifeAndWrite
<1>7. ASSUME NEW s \in Sessions, ReadFails(s)
      PROVE  LifeInv' /\ WriteInv'
  BY <1>7 DEF ReadFails, TypeOK, LifeInv, WriteInv
<1>8. ASSUME NEW s \in Sessions, OnWrite(s)
      PROVE  LifeInv' /\ WriteInv'
  <2>1. queue'[s] = Tail(queue[s]) /\ \A r \in Sessions \ {s} : queue'[r] = queue[r]
    BY <1>8 DEF OnWrite, TypeOK
  <2>2. writing[s] = 1 /\ inProgress[s]
    BY <1>8 DEF OnWrite, WriteInv
  <2>3. CASE Tail(queue[s]) = <<>>
    <3>1. writing'[s] = 0 /\ \A r \in Sessions \ {s} : writing'[r] = writing[r]
      BY <1>8, <2>2, <2>3 DEF OnWrite, TypeOK
    <3>2. inProgress' = [inProgress EXCEPT ![s] = FALSE]
      BY <1>8, <2>3 DEF OnWrite
    <3>3. ~inProgress'[s] /\ \A r \in Sessions \ {s} : inProgress'[r] <=> inProgress[r]
      BY <3>2 DEF TypeOK
    <3>4. WriteInv'
      <4>1. link' = link
        BY <1>8 DEF OnWrite
      <4>2. ASSUME NEW r \in Sessions \ {s}
            PROVE  /\ writing'[r] = writing[r] /\ queue'[r] = queue[r]
                   /\ inProgress'[r] <=> inProgress[r]
        BY <2>1, <3>1, <3>3
      <4>3. /\ writing'[s] \in {0, 1} /\ writing'[s] # 1
            /\ ~inProgress'[s] /\ queue'[s] = <<>>
        BY <2>1, <2>3, <3>1, <3>3
      <4>4. ASSUME NEW r \in Sessions
            PROVE  /\ writing'[r] \in {0, 1}
                   /\ writing'[r] = 1 => inProgress'[r]
                   /\ inProgress'[r] <=> queue'[r] # <<>>
                   /\ inProgress'[r] /\ link'[r] => writing'[r] = 1
        <5>1. CASE r = s
          BY <4>3, <5>1
        <5>2. CASE r # s
          BY <4>1, <4>2, <5>2 DEF WriteInv
        <5> QED
          BY <5>1, <5>2
      <4> QED
        BY <4>4 DEF WriteInv
    <3>5. LifeInv'
      BY <1>8, <3>3 DEF OnWrite, LifeInv
    <3> QED
      BY <3>4, <3>5
  <2>4. CASE Tail(queue[s]) # <<>>
    BY <1>8, <2>1, <2>2, <2>4 DEF OnWrite, LifeInv, WriteInv
  <2> QED
    BY <2>3, <2>4
<1>9. ASSUME NEW s \in Sessions, WriteFails(s)
      PROVE  LifeInv' /\ WriteInv'
  <2>1. writing'[s] = 0 /\ \A r \in Sessions \ {s} : writing'[r] = writing[r]
    BY <1>9 DEF WriteFails, TypeOK, WriteInv
  <2> QED
    BY <1>9, <2>1 DEF WriteFails, TypeOK, LifeInv, WriteInv
<1>10. ASSUME NEW s \in Sessions, Drop(s)
       PROVE  LifeInv' /\ WriteInv'
  BY <1>10 DEF Drop, TypeOK, LifeInv, WriteInv
<1>11. CASE Crash
  BY <1>11 DEF Crash, TypeOK, LifeInv, WriteInv
<1>12. CASE UNCHANGED vars
  BY <1>12 DEF vars, LifeInv, WriteInv
<1> QED
  BY <1>1, <1>2, <1>3, <1>4, <1>5, <1>6, <1>7, <1>8, <1>9, <1>10, <1>11, <1>12
     DEF Next, Frames

(***************************************************************************)
(* The hub.                                                                *)
(***************************************************************************)
\* A session in service is alive: it reads.
LEMMA ServedIsAlive ==
  ASSUME IInv
  PROVE  Served \subseteq Alive
  BY DEF IInv, LifeInv, Served, Alive

\* The hub's invariant survives when no entry changes, some links break and
\* sessions that are not open end or begin.
LEMMA SameHub ==
  ASSUME IInv, UNCHANGED <<hub, latest>>, Open' = Open, Up' \cap Open \subseteq Up,
         \A s \in Sessions : phase[s] \in {"open", "gone"} => phase'[s] = phase[s]
  PROVE  HubInv'
<1>1. Hooked(hub, Open, Up, latest)
  BY DEF IInv, HubInv
<1>2. Hooked(hub', Open', Up', latest')
  BY <1>1 DEF Hooked
<1>3. \A s \in Sessions, u \in Users : latest[u] = s => phase'[s] \in {"open", "gone"}
  BY DEF IInv, HubInv
<1> QED
  BY <1>2, <1>3 DEF HubInv

\* A handler that leaves phases, links and latest alone may clean the hub up.
LEMMA FramesKeepHub ==
  ASSUME IInv, NEW s \in Sessions, Frames(s)
  PROVE  HubInv'
<1> USE DEF IInv
<1>1. UNCHANGED <<phase, link, latest>>
  BY DEF Frames, Chat, Refuse, Private, Frame, ends
<1>2. hub \in Hub /\ Hooked(hub, Open, Up, latest)
  BY DEF TypeOK, HubInv
<1>3. \A t \in Sessions : t \in Open /\ t \in Up => t \in Alive
  BY ServedIsAlive DEF Served, Open, Up
<1>4. Hooked(hub', Open, Up, latest)
  <2>1. CASE Chat(s)
    BY <1>2, <1>3, <2>1, CleanupHooked DEF Chat
  <2>2. CASE Refuse(s)
    BY <1>2, <2>2 DEF Refuse
  <2>3. ASSUME NEW u \in Users, Private(s, u)
        PROVE  Hooked(hub', Open, Up, latest)
    BY <1>2, <1>3, <2>3, AfterLookupHooked DEF Private
  <2> QED
    BY <2>1, <2>2, <2>3 DEF Frames
<1>5. Open' = Open /\ Up' = Up
  BY <1>1 DEF Open, Up
<1> QED
  BY <1>1, <1>4, <1>5 DEF HubInv

LEMMA OnAcceptKeepsHub ==
  ASSUME IInv, NEW s \in Sessions, OnAccept(s)
  PROVE  HubInv'
<1> USE DEF IInv
<1>1. /\ hub \in Hub /\ Hooked(hub, Open, Up, latest)
      /\ latest \in [Users -> Sessions \cup {Absent}]
  BY DEF TypeOK, HubInv
<1>2. phase[s] = "accepting" /\ s \notin Open
  BY DEF OnAccept, Open
<1>3. \A u \in Users : latest[u] # s
  BY <1>2 DEF HubInv
<1>4. \A t \in Sessions : t \in Open /\ t \in Up => t \in Alive
  BY ServedIsAlive DEF Served, Open, Up
<1>5. Open' = Open \cup {s} /\ Up' = Up
  BY DEF OnAccept, Open, Up, TypeOK
<1>6. userId[s] \in Users
  BY <1>2 DEF LifeInv, TypeOK
<1>7. /\ hub' = BindUser(Join(hub, s, Alive), s, userId[s])
      /\ latest' = [latest EXCEPT ![userId[s]] = s]
  BY <1>6, SentinelAssumption DEF OnAccept
<1>8. Hooked(hub', Open', Up', latest')
  BY <1>1, <1>2, <1>3, <1>4, <1>5, <1>6, <1>7, JoinAndBindHooked
<1>9. \A t \in Sessions, u \in Users : latest'[u] = t => phase'[t] \in {"open", "gone"}
  BY <1>1, <1>7 DEF HubInv, OnAccept, TypeOK
<1> QED
  BY <1>8, <1>9 DEF HubInv

LEMMA StepKeepsHub ==
  ASSUME IInv, [Next]_vars
  PROVE  HubInv'
<1> USE DEF IInv, ends, flow
<1>1. ASSUME NEW s \in Sessions, Run(s)
      PROVE  HubInv'
  BY <1>1, SameHub DEF Run, TypeOK, Open, Up
<1>2. ASSUME NEW s \in Sessions, ReadHttpFails(s)
      PROVE  HubInv'
  <2>1. /\ UNCHANGED latest /\ Open' = Open /\ Up' = Up /\ s \notin Open
        /\ \A t \in Sessions : phase[t] \in {"open", "gone"} => phase'[t] = phase[t]
    BY <1>2 DEF ReadHttpFails, TypeOK, Open, Up
  <2>2. Hooked(hub', Open, Up, latest)
    BY <1>2, <2>1, LeaveHooked DEF ReadHttpFails, TypeOK, HubInv
  <2> QED
    BY <2>1, <2>2 DEF HubInv
<1>3. ASSUME NEW s \in Sessions, NEW u \in Users, ReadHttp(s, u)
      PROVE  HubInv'
  BY <1>3, SameHub DEF ReadHttp, TypeOK, Open, Up
<1>4. ASSUME NEW s \in Sessions, AcceptFails(s)
      PROVE  HubInv'
  BY <1>4, SameHub DEF AcceptFails, TypeOK, Open, Up
<1>5. ASSUME NEW s \in Sessions, OnAccept(s)
      PROVE  HubInv'
  BY <1>5, OnAcceptKeepsHub
<1>6. ASSUME NEW s \in Sessions, Frames(s)
      PROVE  HubInv'
  BY <1>6, FramesKeepHub
<1>7. ASSUME NEW s \in Sessions, ReadFails(s) \/ OnWrite(s)
      PROVE  HubInv'
  BY <1>7, SameHub DEF ReadFails, OnWrite, Open, Up
<1>8. ASSUME NEW s \in Sessions, WriteFails(s)
      PROVE  HubInv'
  <2>1. UNCHANGED <<phase, latest>> /\ Open' = Open /\ Up' = Up /\ s \notin Up
    BY <1>8 DEF WriteFails, Open, Up
  <2>2. Hooked(hub', Open, Up, latest)
    BY <1>8, <2>1, LeaveHooked DEF WriteFails, TypeOK, HubInv
  <2> QED
    BY <2>1, <2>2 DEF HubInv
<1>9. ASSUME NEW s \in Sessions, Drop(s)
      PROVE  HubInv'
  BY <1>9, SameHub DEF Drop, TypeOK, Open, Up
<1>10. CASE Crash
  <2>1. Hooked(hub', Open', Up', latest')
    BY <1>10, EmptyHubHooked DEF Crash, Open
  <2> QED
    BY <1>10, <2>1, SentinelAssumption DEF Crash, HubInv
<1>11. CASE UNCHANGED vars
  BY <1>11, SameHub DEF vars, Open, Up
<1> QED
  BY <1>1, <1>2, <1>3, <1>4, <1>5, <1>6, <1>7, <1>8, <1>9, <1>10, <1>11 DEF Next, Frames

(***************************************************************************)
(* The theorems.                                                           *)
(***************************************************************************)
LEMMA IInvInit == Init => IInv
<1> SUFFICES ASSUME Init
             PROVE  IInv
  OBVIOUS
<1>1. TypeOK
  BY EmptyHubOK, MaxFramesAssumption DEF Init, TypeOK
<1>2. LifeInv /\ WriteInv
  BY DEF Init, LifeInv, WriteInv
<1>3. HubInv
  <2>1. Hooked(hub, Open, Up, latest)
    BY EmptyHubHooked DEF Init, Open
  <2> QED
    BY <2>1, SentinelAssumption DEF Init, HubInv
<1> QED
  BY <1>1, <1>2, <1>3 DEF IInv

\* The sessions, their queues and the hub agree after any sequence of
\* handshakes, frames, broken links, failed writes and crashes.
THEOREM Consistent == Spec => []IInv
<1>1. IInv /\ [Next]_vars => IInv'
  BY StepKeepsType, StepKeepsLifeAndWrite, StepKeepsHub DEF IInv
<1> QED
  BY IInvInit, <1>1, PTL DEF Spec

\* Every variable keeps its type.
THEOREM TypeCorrect == Spec => []TypeOK
<1>1. IInv => TypeOK
  BY DEF IInv
<1> QED
  BY Consistent, <1>1, PTL

\* sessions_ and userToSessions_ agree.
THEOREM BoundMatchesIndexCorrect == Spec => []BoundMatchesIndex
<1>1. IInv => BoundMatchesIndex
  BY DEF IInv, HubInv, Hooked, BoundMatchesIndex
<1> QED
  BY Consistent, <1>1, PTL

\* The index dangles only for sessions whose link broke.
THEOREM IndexDanglesOnlyIfBrokenCorrect == Spec => []IndexDanglesOnlyIfBroken
<1>1. IInv => IndexDanglesOnlyIfBroken
  BY DEF IInv, HubInv, Hooked, Up, IndexDanglesOnlyIfBroken
<1> QED
  BY Consistent, <1>1, PTL

\* At most one async_write is outstanding per session.
THEOREM OneWriteAtATimeCorrect == Spec => []OneWriteAtATime
<1>1. ASSUME IInv, NEW s \in Sessions
      PROVE  writing[s] <= 1 /\ (writing[s] = 1 => inProgress[s] /\ queue[s] # <<>>)
  <2>1. /\ writing[s] \in {0, 1}
        /\ writing[s] = 1 => inProgress[s]
        /\ inProgress[s] <=> queue[s] # <<>>
    BY <1>1 DEF IInv, WriteInv
  <2>2. writing[s] <= 1
    BY <2>1
  <2> QED
    BY <2>1, <2>2
<1>2. IInv => OneWriteAtATime
  BY <1>1 DEF OneWriteAtATime
<1> QED
  BY Consistent, <1>2, PTL

\* No message waits without a write while the link is up.
THEOREM NothingStrandedCorrect == Spec => []NothingStranded
<1>1. IInv => NothingStranded
  BY DEF IInv, WriteInv, Served, NothingStranded
<1> QED
  BY Consistent, <1>1, PTL

\* Sessions in service are in the hub and private messages find them.
THEOREM ServedAreReachableCorrect == Spec => []ServedAreReachable
<1>1. ASSUME IInv
      PROVE  ServedAreReachable
  <2>1. Hooked(hub, Open, Up, latest)
    BY <1>1 DEF IInv, HubInv
  <2>2. Served \subseteq Open /\ Served \subseteq Up /\ Served \subseteq Alive
    BY <1>1, ServedIsAlive DEF Served, Open, Up
  <2>3. \A s \in Served : hub.sessions[s] # Absent
    BY <2>1, <2>2 DEF Hooked, Served
  <2>4. ASSUME NEW u \in Users, latest[u] \in Served
        PROVE  Target(hub, u, Alive) = latest[u]
    <3>1. hub.userToSessions[u] = latest[u] /\ latest[u] \in Sessions
      BY <2>1, <2>2, <2>4 DEF Hooked, Served
    <3> QED
      BY <2>2, <2>3, <2>4, <3>1, SentinelAssumption DEF Target
  <2> QED
    BY <2>2, <2>3, <2>4 DEF ServedAreReachable, SessionTarget
<1> QED
  BY Consistent, <1>1, PTL

(***************************************************************************)
(* Presence.                                                               *)
(***************************************************************************)
LEMMA StepKeepsIndex ==
  ASSUME IInv, OnlyLatestHasUser, [Next]_vars
  PROVE  OnlyLatestHasUser'
<1> USE DEF IInv, OnlyLatestHasUser
<1>1. hub \in Hub
  BY DEF TypeOK
<1>2. CASE UNCHANGED <<hub, latest>>
  BY <1>2
<1>3. ASSUME NEW s \in Sessions, ReadHttpFails(s) \/ WriteFails(s)
      PROVE  OnlyLatestHasUser'
  BY <1>1, <1>3, LeaveKeepsIndex DEF ReadHttpFails, WriteFails, ends
<1>4. ASSUME NEW s \in Sessions, Frames(s)
      PROVE  OnlyLatestHasUser'
  <2>1. latest' = latest
    BY <1>4 DEF Frames, Chat, Refuse, Private, Frame, ends
  <2>2. \/ hub' = hub \/ hub' = Cleanup(hub, Alive)
        \/ \E v \in Users : hub' = AfterLookup(hub, v, Alive)
    BY <1>4 DEF Frames, Chat, Refuse, Private
  <2> QED
    BY <1>1, <2>1, <2>2, CleanupOnlyLoses, AfterLookupOnlyLoses
<1>5. ASSUME NEW s \in Sessions, OnAccept(s)
      PROVE  OnlyLatestHasUser'
  <2> DEFINE j == Join(hub, s, Alive)
             v == userId[s]
  <2>1. v \in Users
    BY <1>5 DEF OnAccept, LifeInv, TypeOK
  <2>2. hub' = BindUser(j, s, v) /\ latest' = [latest EXCEPT ![v] = s]
    BY <1>5, <2>1, SentinelAssumption DEF OnAccept
  <2>3. j \in Hub /\ j.sessions[s] = NoUser
    BY <1>1, JoinType, JoinFields
  <2>4. \A u \in Users : j.userToSessions[u] \in {Absent, hub.userToSessions[u]}
    BY <1>1, JoinFields, CleanupOnlyLoses
  <2> HIDE DEF j, v
  <2>5. \A u \in Users : hub'.userToSessions[u] = IF u = v THEN s ELSE j.userToSessions[u]
    BY <2>1, <2>2, <2>3, SentinelAssumption DEF BindUser, Hub
  <2>6. \A u \in Users : latest'[u] = IF u = v THEN s ELSE latest[u]
    BY <2>1, <2>2 DEF TypeOK
  <2> QED
    BY <2>4, <2>5, <2>6
<1>6. CASE Crash
  BY <1>6 DEF Crash, EmptyHub
<1> QED
  BY <1>2, <1>3, <1>4, <1>5, <1>6
     DEF Next, Frames, Run, ReadHttp, AcceptFails, ReadFails, OnWrite, Drop, vars, ends

\* userToSessions_ never points back to a session a user was taken over from.
THEOREM OnlyLatestHasUserCorrect == Spec => []OnlyLatestHasUser
<1>1. Init => OnlyLatestHasUser
  BY DEF Init, EmptyHub, OnlyLatestHasUser
<1>2. IInv /\ OnlyLatestHasUser /\ [Next]_vars => OnlyLatestHasUser'
  BY StepKeepsIndex
<1> QED
  BY <1>1, <1>2, Consistent, PTL DEF Spec

\* getOnlineUsers lists whom it should, late only for dead sessions, and isOnline
\* says more than it only of broken ones.
THEOREM PresenceIsTrueCorrect == Spec => []PresenceIsTrue
<1>1. ASSUME IInv, OnlyLatestHasUser, IndexDanglesOnlyIfBroken
      PROVE  PresenceIsTrue
  <2> DEFINE c == Cleanup(hub, Alive)
  <2>1. hub \in Hub /\ Hooked(hub, Open, Up, latest)
    BY <1>1 DEF IInv, TypeOK, HubInv
  <2>2. \A t \in Sessions : t \in Open /\ t \in Up => t \in Alive
    BY <1>1, ServedIsAlive DEF Served, Open, Up
  <2>3. c \in Hub /\ Hooked(c, Open, Up, latest)
    BY <2>1, <2>2, CleanupType, CleanupHooked
  <2>4. \A s \in Sessions : c.sessions[s] # Absent => s \in Alive
    BY DEF Cleanup
  <2>5. \A u \in Users : c.userToSessions[u] \in {Absent, hub.userToSessions[u]}
    BY <2>1, CleanupOnlyLoses
  <2> HIDE DEF c
  <2>6. ASSUME NEW u \in Users, latest[u] \in Served
        PROVE  u \in OnlineUsers(hub)
    <3>1. latest[u] \in Open /\ latest[u] \in Up /\ latest[u] \in Sessions
      BY <2>6 DEF Served, Open, Up
    <3>2. hub.userToSessions[u] = latest[u]
      BY <2>1, <3>1 DEF Hooked
    <3>3. hub.sessions[latest[u]] = u
      BY <2>1, <3>1, <3>2 DEF Hooked
    <3> QED
      BY <3>1, <3>2, <3>3, SentinelAssumption DEF OnlineUsers
  <2>7. ASSUME NEW u \in Users, u \in OnlineUsers(c)
        PROVE  latest[u] \in Alive
    <3>1. PICK s \in Sessions : c.userToSessions[u] = s /\ c.sessions[s] # Absent
      BY <2>7 DEF OnlineUsers
    <3>2. s # Absent
      BY SentinelAssumption
    <3>3. hub.userToSessions[u] = s /\ latest[u] = s
      BY <1>1, <2>5, <3>1, <3>2 DEF OnlyLatestHasUser
    <3> QED
      BY <2>4, <3>1, <3>3
  <2>8. ASSUME NEW u \in Users, IsOnline(hub, u), u \notin OnlineUsers(hub)
        PROVE  latest[u] \in Sessions /\ ~link[latest[u]]
    <3>1. /\ hub.userToSessions[u] # Absent
          /\ hub.userToSessions[u] \in Sessions
      BY <2>1, <2>8 DEF IsOnline, Hub
    <3>2. latest[u] = hub.userToSessions[u]
      BY <1>1, <3>1 DEF OnlyLatestHasUser
    <3>3. hub.sessions[latest[u]] # u
      BY <2>8, <3>1, <3>2, SentinelAssumption DEF OnlineUsers
    <3> QED
      BY <1>1, <3>1, <3>2, <3>3 DEF IndexDanglesOnlyIfBroken
  <2> QED
    BY <2>6, <2>7, <2>8 DEF PresenceIsTrue, c
<1> QED
  BY <1>1, Consistent, OnlyLatestHasUserCorrect, IndexDanglesOnlyIfBrokenCorrect, PTL
-----------------------------------------------------------------------------
(***************************************************************************)
(* Privacy: a private message changes no queue but its sender's, with the  *)
(* answer, and that of the recipient's session.                            *)
(***************************************************************************)
\* The session a user bound last authenticated as that user.
LatestIsUser == \A s \in Sessions, u \in Users : latest[u] = s => userId[s] = u

\* handlePrivateMessage hands the message to nobody but the session the recipient
\* bound last, which came in with a token of the recipient: take-overs, dead entries
\* still in the tables and clean-ups on the way never lead it to anybody else's
\* session, nor back to one its user was taken over from.
PrivateStaysPrivate ==
  [][\A s \in Sessions, u \in Users : Private(s, u) =>
       \A r \in Sessions \ {s} : queue'[r] # queue[r] => latest[u] = r /\ userId[r] = u]_vars

LEMMA LatestStep ==
  ASSUME IInv, LatestIsUser, [Next]_vars
  PROVE  LatestIsUser'
<1> USE DEF IInv, LatestIsUser
<1>1. CASE UNCHANGED <<userId, latest>>
  BY <1>1
<1>2. ASSUME NEW s \in Sessions, NEW u \in Users, ReadHttp(s, u)
      PROVE  LatestIsUser'
  <2>1. \A v \in Users : latest[v] # s
    BY <1>2 DEF ReadHttp, HubInv
  <2> QED
    BY <1>2, <2>1 DEF ReadHttp, TypeOK
<1>3. ASSUME NEW s \in Sessions, OnAccept(s)
      PROVE  LatestIsUser'
  BY <1>3 DEF OnAccept, TypeOK
<1>4. CASE Crash
  BY <1>4, SentinelAssumption DEF Crash
<1> QED
  BY <1>1, <1>2, <1>3, <1>4
     DEF Next, Run, ReadHttpFails, AcceptFails, Chat, Private, Refuse, Frame, ReadFails,
         OnWrite, WriteFails, Drop, vars, ends

LEMMA PrivateStep ==
  ASSUME IInv, LatestIsUser, OnlyLatestHasUser,
         NEW s \in Sessions, NEW u \in Users, Private(s, u),
         NEW r \in Sessions \ {s}, queue'[r] # queue[r]
  PROVE  latest[u] = r /\ userId[r] = u
<1> DEFINE t == Target(hub, u, Alive)
           out == PrivateAndReply(s, t, frames')
<1>1. queue'[r] = queue[r] \o out[r]
  BY DEF Private, Post
<1>2. CASE r # t
  <2>1. out[r] = <<>>
    <3>1. out[r] = <<>> \o <<>>
      BY <1>2 DEF PrivateAndReply
    <3> QED
      BY <3>1, EmptySeq, ConcatEmptySeq
  <2>2. queue'[r] = queue[r]
    BY <1>1, <2>1, ConcatEmptySeq DEF IInv, TypeOK
  <2> QED
    BY <2>2
<1>3. CASE r = t
  <2>1. hub.userToSessions[u] = r
    BY <1>3, SentinelAssumption DEF Target
  <2>2. latest[u] = r
    BY <2>1, SentinelAssumption DEF OnlyLatestHasUser
  <2> QED
    BY <2>2 DEF LatestIsUser
<1> QED
  BY <1>2, <1>3

\* Private messages reach their recipient only (WebSocketSession::handlePrivateMessage,
\* SharedState::sendMessageToUser).
THEOREM PrivateStaysPrivateHolds == Spec => PrivateStaysPrivate
<1>1. Init => LatestIsUser
  BY SentinelAssumption DEF Init, LatestIsUser
<1>2. Spec => []LatestIsUser
  BY <1>1, LatestStep, Consistent, PTL DEF Spec
<1>3. IInv /\ LatestIsUser /\ OnlyLatestHasUser /\ [Next]_vars
      => [\A s \in Sessions, u \in Users : Private(s, u) =>
            \A r \in Sessions \ {s} : queue'[r] # queue[r] => latest[u] = r /\ userId[r] = u]_vars
  BY PrivateStep
<1> QED
  BY <1>2, <1>3, Consistent, OnlyLatestHasUserCorrect, PTL DEF Spec, PrivateStaysPrivate
-----------------------------------------------------------------------------
(***************************************************************************)
(* No busy loop: what is outstanding of a session.                         *)
(***************************************************************************)
\* What the completions of a session's operations still have to do.
WorkLeft(s) == Len(queue[s]) + writing[s] + (IF reading[s] THEN 1 ELSE 0)

\* Each completion of a write, and each failure, leaves its session less to do, and
\* only a frame of some client or the session's own acceptance gives it more: the
\* handlers of a session that wake each other up (onWrite, doWrite) do not go on for
\* ever, and errors are not retried.
CompletionsEnd ==
  [][\A s \in Sessions :
       /\ OnWrite(s) \/ WriteFails(s) \/ ReadFails(s) => WorkLeft(s)' < WorkLeft(s)
       /\ WorkLeft(s)' > WorkLeft(s) => frames' > frames \/ phase[s] = "accepting"]_vars

LEMMA CompletionsLowerWork ==
  ASSUME IInv, NEW s \in Sessions, OnWrite(s) \/ WriteFails(s) \/ ReadFails(s)
  PROVE  WorkLeft(s)' < WorkLeft(s)
<1>1. queue[s] \in Seq(Message) /\ Len(queue[s]) \in Nat /\ writing[s] \in Nat
  BY DEF IInv, TypeOK
<1>2. CASE OnWrite(s)
  <2>1. queue[s] # <<>>
    BY <1>2 DEF IInv, WriteInv, OnWrite
  <2>2. queue'[s] = Tail(queue[s]) /\ reading' = reading
    BY <1>2 DEF IInv, TypeOK, OnWrite
  <2>3. Len(queue'[s]) = Len(queue[s]) - 1
    BY <1>1, <2>1, <2>2, HeadTailProperties
  <2>4. writing'[s] \in {writing[s], writing[s] - 1}
    BY <1>2 DEF IInv, TypeOK, OnWrite
  <2> DEFINE r == IF reading[s] THEN 1 ELSE 0
  <2>5. /\ r \in Nat
        /\ WorkLeft(s) = Len(queue[s]) + writing[s] + r
        /\ WorkLeft(s)' = Len(queue'[s]) + writing'[s] + r
    BY <2>2 DEF WorkLeft
  <2> HIDE DEF r
  <2>6. ASSUME NEW a \in Nat, NEW b \in Nat, NEW a1, NEW b1, a1 = a - 1, b1 \in {b, b - 1}
        PROVE  a1 + b1 + r < a + b + r
    BY <2>5, <2>6
  <2>7. Len(queue'[s]) + writing'[s] + r < Len(queue[s]) + writing[s] + r
    BY <1>1, <2>3, <2>4, <2>6
  <2> QED
    BY <2>5, <2>7
<1>3. CASE WriteFails(s)
  <2>1. writing'[s] = writing[s] - 1 /\ UNCHANGED <<queue, reading>>
    BY <1>3 DEF IInv, TypeOK, WriteFails
  <2> QED
    BY <1>1, <2>1 DEF WorkLeft
<1>4. CASE ReadFails(s)
  <2>1. reading[s] /\ ~reading'[s] /\ UNCHANGED <<queue, writing>>
    BY <1>4 DEF IInv, TypeOK, ReadFails, flow
  <2> QED
    BY <1>1, <2>1 DEF WorkLeft
<1> QED
  BY <1>2, <1>3, <1>4

LEMMA WorkOfOthersRises ==
  ASSUME IInv, IInv', [Next]_vars, NEW s \in Sessions, WorkLeft(s)' > WorkLeft(s)
  PROVE  frames' > frames \/ phase[s] = "accepting"
<1>1. /\ WorkLeft(s) \in Nat
      /\ WorkLeft(s)' \in Nat
  BY DEF IInv, TypeOK, WorkLeft
<1>2. ASSUME NEW r \in Sessions, OnWrite(r) \/ WriteFails(r) \/ ReadFails(r)
      PROVE  WorkLeft(s)' <= WorkLeft(s)
  <2>1. CASE r = s
    BY <1>1, <1>2, <2>1, CompletionsLowerWork
  <2>2. CASE r # s
    <3>1. queue'[s] = queue[s] /\ writing'[s] = writing[s] /\ (reading'[s] <=> reading[s])
      BY <1>2, <2>2 DEF IInv, TypeOK, OnWrite, WriteFails, ReadFails, flow
    <3>2. WorkLeft(s)' = WorkLeft(s)
      BY <3>1 DEF WorkLeft
    <3> QED
      BY <1>1, <3>2
  <2> QED
    BY <2>1, <2>2
<1>3. ASSUME NEW r \in Sessions, Frames(r)
      PROVE  frames' > frames
  BY <1>3 DEF Frames, Chat, Refuse, Private, Frame, IInv, TypeOK
<1>4. ASSUME NEW r \in Sessions, OnAccept(r)
      PROVE  phase[s] = "accepting" \/ WorkLeft(s)' = WorkLeft(s)
  <2>1. CASE r = s
    BY <1>4, <2>1 DEF OnAccept
  <2>2. CASE r # s
    <3>1. queue' = queue /\ writing' = writing /\ (reading'[s] <=> reading[s])
      BY <1>4, <2>2 DEF IInv, TypeOK, OnAccept, flow
    <3> QED
      BY <3>1 DEF WorkLeft
  <2> QED
    BY <2>1, <2>2
<1>5. CASE Crash
  <2>1. queue'[s] = <<>> /\ writing'[s] = 0 /\ ~reading'[s]
    BY <1>5 DEF Crash
  <2>2. WorkLeft(s)' = 0
    BY <2>1, EmptySeq DEF WorkLeft
  <2> QED
    BY <1>1, <2>2
<1>6. ASSUME UNCHANGED <<queue, writing, reading>>
      PROVE  WorkLeft(s)' = WorkLeft(s)
  BY <1>6 DEF WorkLeft
<1>7. CASE \E r \in Sessions : \/ Run(r) \/ ReadHttpFails(r) \/ AcceptFails(r) \/ Drop(r)
                               \/ \E u \in Users : ReadHttp(r, u)
  BY <1>1, <1>6, <1>7 DEF Run, ReadHttpFails, AcceptFails, Drop, ReadHttp, flow
<1>8. CASE UNCHANGED vars
  BY <1>1, <1>6, <1>8 DEF vars
<1> QED
  BY <1>1, <1>2, <1>3, <1>4, <1>5, <1>7, <1>8 DEF Next, Frames

\* The completion handlers of a session come to an end (onWrite, doWrite, onRead).
THEOREM CompletionsEndHolds == Spec => CompletionsEnd
<1>1. IInv /\ IInv' /\ [Next]_vars
      => [\A s \in Sessions :
            /\ OnWrite(s) \/ WriteFails(s) \/ ReadFails(s) => WorkLeft(s)' < WorkLeft(s)
            /\ WorkLeft(s)' > WorkLeft(s) => frames' > frames \/ phase[s] = "accepting"]_vars
  BY CompletionsLowerWork, WorkOfOthersRises
<1> QED
  BY <1>1, Consistent, PTL DEF Spec, CompletionsEnd
=============================================================================
