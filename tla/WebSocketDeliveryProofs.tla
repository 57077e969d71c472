---------------------- MODULE WebSocketDeliveryProofs ----------------------
(***************************************************************************)
(* WebSocketSession implements ChatDelivery for every value of the         *)
(* constants, and keeps what ChatDelivery promises.                        *)
(***************************************************************************)
EXTENDS WebSocketDelivery, WebSocketSessionProofs

Delivered == [s \in Sessions |-> Len(written[s])]

LEMMA InboxType ==
  ASSUME TypeOK
  PROVE  Inbox \in [Sessions -> Seq(Message)]
  BY ConcatProperties DEF TypeOK, Inbox

LEMMA SameInbox ==
  ASSUME UNCHANGED <<written, queue>>
  PROVE  Inbox' = Inbox /\ Delivered' = Delivered
  BY DEF Inbox, Delivered

\* Posting appends to inboxes.
LEMMA PostExtendsInbox ==
  ASSUME TypeOK, NEW out \in [Sessions -> Seq(Message)], Post(out)
  PROVE  Inbox' = [s \in Sessions |-> Inbox[s] \o out[s]] /\ Delivered' = Delivered
<1>1. ASSUME NEW s \in Sessions
      PROVE  written'[s] \o queue'[s] = Inbox[s] \o out[s]
  <2>1. queue'[s] = queue[s] \o out[s] /\ written' = written
    BY DEF Post
  <2>2. (written[s] \o queue[s]) \o out[s] = written[s] \o (queue[s] \o out[s])
    BY ConcatAssociative DEF TypeOK
  <2> QED
    BY <2>1, <2>2 DEF Inbox
<1>2. Delivered' = Delivered
  BY DEF Post, Delivered
<1> QED
  BY <1>1, <1>2 DEF Inbox

\* A written message moves from the queue to what was written.
LEMMA WriteKeepsInbox ==
  ASSUME NEW w \in Seq(Message), NEW q \in Seq(Message), q # <<>>
  PROVE  /\ Append(w, Head(q)) \o Tail(q) = w \o q
         /\ Len(Append(w, Head(q))) = Len(w) + 1
         /\ Len(w) < Len(w \o q)
<1> DEFINE v == Append(w, Head(q))
<1>1. /\ Head(q) \in Message /\ Tail(q) \in Seq(Message) /\ Len(q) \in Nat \ {0}
      /\ Len(Tail(q)) = Len(q) - 1 /\ Head(q) = q[1]
      /\ \A i \in 1..Len(Tail(q)) : Tail(q)[i] = q[i + 1]
  BY HeadTailProperties, EmptySeq
<1>2. /\ v \in Seq(Message) /\ Len(v) = Len(w) + 1 /\ Len(w) \in Nat
      /\ \A i \in 1..Len(w) : v[i] = w[i]
      /\ v[Len(w) + 1] = q[1]
  BY <1>1, AppendProperties, LenProperties
<1> HIDE DEF v
<1>3. /\ v \o Tail(q) \in Seq(Message)
      /\ Len(v \o Tail(q)) = Len(v) + Len(Tail(q))
      /\ \A i \in 1 .. Len(v) + Len(Tail(q)) :
           (v \o Tail(q))[i] = IF i <= Len(v) THEN v[i] ELSE Tail(q)[i - Len(v)]
  BY <1>1, <1>2, ConcatProperties
<1>4. /\ w \o q \in Seq(Message)
      /\ Len(w \o q) = Len(w) + Len(q)
      /\ \A i \in 1 .. Len(w) + Len(q) :
           (w \o q)[i] = IF i <= Len(w) THEN w[i] ELSE q[i - Len(w)]
  BY ConcatProperties
<1>5. Len(v \o Tail(q)) = Len(w \o q)
  BY <1>1, <1>2, <1>3, <1>4
<1>6. ASSUME NEW i \in 1..Len(v \o Tail(q))
      PROVE  (v \o Tail(q))[i] = (w \o q)[i]
  <2>1. CASE i <= Len(w)
    BY <1>1, <1>2, <1>3, <1>4, <1>5, <2>1
  <2>2. CASE i = Len(w) + 1
    BY <1>1, <1>2, <1>3, <1>4, <1>5, <2>2
  <2>3. CASE i > Len(w) + 1
    <3>1. i - Len(v) \in 1..Len(Tail(q)) /\ (i - Len(v)) + 1 = i - Len(w)
      BY <1>1, <1>2, <1>3, <2>3
    <3>2. Tail(q)[i - Len(v)] = q[i - Len(w)]
      BY <1>1, <3>1
    <3> QED
      BY <1>1, <1>2, <1>3, <1>4, <1>5, <2>3, <3>2
  <2> QED
    BY <1>2, <2>1, <2>2, <2>3
<1>7. v \o Tail(q) = w \o q
  BY <1>3, <1>4, <1>5, <1>6, SeqEqual
<1> QED
  BY <1>1, <1>2, <1>4, <1>7 DEF v

LEMMA CrashKeepsDelivered ==
  ASSUME NEW w \in Seq(Message), NEW q \in Seq(Message)
  PROVE  w \o <<>> = SubSeq(w \o q, 1, Len(w))
<1>1. w \o <<>> = w /\ Len(w) \in Nat
  BY ConcatEmptySeq, LenProperties
<1>2. CASE Len(w) = 0
  <2>1. w = <<>>
    BY <1>2, EmptySeq
  <2> QED
    BY <1>1, <1>2, <2>1, SubSeqEmpty
<1>3. CASE Len(w) # 0
  <2>1. SubSeq(w \o q, 1, Len(w)) = SubSeq(w, 1, Len(w))
    BY <1>1, <1>3, SubSeqOfConcat1
  <2> QED
    BY <1>1, <2>1, SubSeqFull
<1> QED
  BY <1>2, <1>3

(***************************************************************************)
(* Frames are broadcasts, private messages and replies of the chat.        *)
(***************************************************************************)
LEMMA SameMsg == \A n, k : Msg(n, k) = Delivery!Msg(n, k)
  BY DEF Msg, Delivery!Msg

\* A served frame publishes what it posts.
LEMMA FramePublishes ==
  ASSUME IInv, NEW s \in Sessions, Frame(s), NEW out \in [Sessions -> Seq(Message)], Post(out),
         NEW promised, audience' = [audience EXCEPT ![frames'] = promised]
  PROVE  Delivery!Publish(out, promised)
<1>1. Inbox' = [r \in Sessions |-> Inbox[r] \o out[r]] /\ Delivered' = Delivered
  BY PostExtendsInbox DEF IInv
<1>2. Served' = Served /\ latest' = latest
  BY DEF Frame, ends, Served
<1>3. frames < MaxFrames /\ frames' = frames + 1
  BY DEF Frame
<1> QED
  BY <1>1, <1>2, <1>3 DEF Delivery!Publish, Delivered

LEMMA ChatBroadcasts ==
  ASSUME IInv, NEW s \in Sessions, Chat(s)
  PROVE  Delivery!Broadcast
<1> DEFINE R == Recipients(hub, Alive)
           out == To(R, Msg(frames + 1, "chat"))
<1>1. Frame(s) /\ frames' = frames + 1
  BY DEF Chat, Frame
<1>2. Msg(frames + 1, "chat") \in Seq(Message)
  BY <1>1, FrameNumber, MsgType DEF IInv, Frames
<1>3. out \in [Sessions -> Seq(Message)]
  BY <1>2, ToType
<1>4. R \in SUBSET Sessions
  BY DEF Recipients, Alive
<1>5. Served \subseteq R
  BY ServedIsAlive DEF IInv, HubInv, Hooked, Open, Up, Served, Recipients
<1>6. out = [r \in Sessions |-> IF r \in R THEN Delivery!Msg(frames + 1, "chat") ELSE <<>>]
  BY SameMsg DEF To
<1>7. Post(out) /\ audience' = [audience EXCEPT ![frames'] = Served]
  BY <1>1 DEF Chat
<1> HIDE DEF R, out
<1>8. Delivery!Publish(out, Served)
  BY <1>1, <1>3, <1>7, FramePublishes
<1> QED
  BY <1>4, <1>5, <1>6, <1>8 DEF Delivery!Broadcast

LEMMA ParcelsAgree ==
  ASSUME NEW s \in Sessions, NEW t, NEW T, \A r \in Sessions : r \in T <=> r = t
  PROVE  PrivateAndReply(s, t, frames + 1) = Delivery!Parcels(s, T)
  BY SameMsg DEF PrivateAndReply, Delivery!Parcels

LEMMA PrivateIsPrivate ==
  ASSUME IInv, OnlyLatestHasUser, NEW s \in Sessions, NEW u \in Users, Private(s, u)
  PROVE  Delivery!Private(s, u)
<1> DEFINE t == Target(hub, u, Alive)
           out == PrivateAndReply(s, t, frames + 1)
<1>1. Frame(s) /\ frames' = frames + 1
  BY DEF Private, Frame
<1>2. frames + 1 \in 1..MaxFrames
  BY <1>1, FrameNumber DEF IInv, Frames
<1>3. Post(out) /\ audience' = [audience EXCEPT ![frames'] = Served \cap {latest[u]}]
  BY <1>1 DEF Private
<1>4. t \in Sessions \cup {Absent}
  BY DEF Target, IInv, TypeOK, Hub
<1>5. Hooked(hub, Open, Up, latest)
  BY DEF IInv, HubInv
<1>6. latest[u] \in Served => t = latest[u]
  <2>1. latest[u] \in Served => hub.userToSessions[u] = latest[u] /\ hub.sessions[latest[u]] # Absent
    BY <1>5 DEF Hooked, Open, Up, Served
  <2> QED
    BY <2>1, ServedIsAlive, SentinelAssumption DEF Target, Served
<1> HIDE DEF t
<1>7. out \in [Sessions -> Seq(Message)]
  BY <1>2, PrivateAndReplyType
<1> HIDE DEF out
<1>8. CASE latest[u] \in Served
  <2>1. out = Delivery!Parcels(s, {latest[u]})
    BY <1>6, <1>8, ParcelsAgree DEF out
  <2>2. Served \cap {latest[u]} = {latest[u]}
    BY <1>8
  <2>3. Delivery!Publish(out, {latest[u]})
    BY <1>1, <1>3, <1>7, <2>2, FramePublishes
  <2> QED
    BY <1>8, <2>1, <2>3 DEF Delivery!Private
<1>9. CASE latest[u] \notin Served
  <2>1. Served \cap {latest[u]} = {}
    BY <1>9
  <2>2. Delivery!Publish(out, {})
    BY <1>1, <1>3, <1>7, <2>1, FramePublishes
  <2>3. CASE t = Absent
    <3>1. out = Delivery!Parcels(s, {})
      BY <2>3, ParcelsAgree, SentinelAssumption DEF out
    <3> QED
      BY <1>9, <2>2, <3>1 DEF Delivery!Private
  <2>4. CASE t # Absent /\ t \notin Served
    <3>1. out = Delivery!Parcels(s, {t})
      BY ParcelsAgree DEF out
    <3>2. {t} \in {{r} : r \in Sessions \ Served}
      BY <1>4, <2>4
    <3> QED
      BY <1>9, <2>2, <3>1, <3>2 DEF Delivery!Private
  <2>5. ASSUME t \in Served
        PROVE  FALSE
    <3>1. hub.userToSessions[u] = t /\ t \in Sessions
      BY <2>5, SentinelAssumption DEF t, Target, Served
    <3>2. latest[u] = t
      BY <3>1, SentinelAssumption DEF OnlyLatestHasUser
    <3> QED
      BY <1>9, <2>5, <3>2
  <2> QED
    BY <2>3, <2>4, <2>5
<1> QED
  BY <1>8, <1>9

\* Nothing is promised of frames to come.
NothingPromised == \A n \in 1..MaxFrames : n > frames => audience[n] = {}

LEMMA NothingPromisedYet ==
  ASSUME NothingPromised, TypeOK, frames + 1 \in 1..MaxFrames
  PROVE  audience = [audience EXCEPT ![frames + 1] = {}]
<1>1. frames \in Nat
  BY DEF TypeOK
<1>2. audience[frames + 1] = {}
  BY <1>1 DEF NothingPromised
<1> QED
  BY <1>2 DEF TypeOK

LEMMA RefuseReplies ==
  ASSUME IInv, NothingPromised, NEW s \in Sessions, Refuse(s)
  PROVE  Delivery!Reply(s)
<1> DEFINE out == To({s}, Msg(frames + 1, "reply"))
<1>1. Frame(s) /\ frames' = frames + 1
  BY DEF Refuse, Frame
<1>2. Msg(frames + 1, "reply") \in Seq(Message)
  BY <1>1, FrameNumber, MsgType DEF IInv, Frames
<1>3. out \in [Sessions -> Seq(Message)]
  BY <1>2, ToType
<1>4. out = Delivery!Parcels(s, {})
  <2>1. \A r \in Sessions : out[r] = Delivery!Parcels(s, {})[r]
    <3>1. <<>> \o Msg(frames + 1, "reply") = Msg(frames + 1, "reply") /\ <<>> \o <<>> = <<>>
      BY <1>2, ConcatEmptySeq, EmptySeq
    <3> QED
      BY <3>1, SameMsg DEF To, Delivery!Parcels
  <2> QED
    BY <2>1 DEF To, Delivery!Parcels
<1>5. Post(out) /\ frames' \in 1..MaxFrames
  BY <1>1, FrameNumber DEF Refuse, IInv, Frames
<1>6. audience' = [audience EXCEPT ![frames'] = {}]
  BY <1>1, <1>5, NothingPromisedYet DEF Refuse, IInv, TypeOK
<1> HIDE DEF out
<1> QED
  BY <1>1, <1>3, <1>4, <1>5, <1>6, FramePublishes DEF Delivery!Reply

(***************************************************************************)
(* The other steps.                                                        *)
(***************************************************************************)
LEMMA StepRefines ==
  ASSUME IInv, OnlyLatestHasUser, NothingPromised, [Next]_vars
  PROVE  [Delivery!Next]_Delivery!vars
<1> USE DEF Delivery!vars, ends, flow, Delivered
<1>1. ASSUME NEW s \in Sessions, Run(s) \/ ReadHttpFails(s) \/ AcceptFails(s) \/ ReadFails(s)
                                \/ WriteFails(s) \/ \E u \in Users : ReadHttp(s, u)
      PROVE  UNCHANGED Delivery!vars
  <2>1. Served' = Served
    BY <1>1 DEF IInv, TypeOK, Run, ReadHttpFails, AcceptFails, ReadFails, WriteFails,
            ReadHttp, Served
  <2>2. UNCHANGED <<written, queue, latest, frames, audience>>
    BY <1>1 DEF Run, ReadHttpFails, AcceptFails, ReadFails, WriteFails, ReadHttp
  <2> QED
    BY <2>1, <2>2, SameInbox
<1>2. ASSUME NEW s \in Sessions, OnAccept(s)
      PROVE  Delivery!Next
  <2>1. /\ phase[s] = "accepting" /\ phase' = [phase EXCEPT ![s] = "open"]
        /\ userId[s] \in Users /\ s \notin Served
    BY <1>2 DEF OnAccept, IInv, LifeInv, TypeOK, Served
  <2>2. latest' = [latest EXCEPT ![userId[s]] = s]
    BY <1>2, <2>1, SentinelAssumption DEF OnAccept
  <2>3. Served' \in {Served, Served \cup {s}}
    BY <1>2, <2>1 DEF OnAccept, Served, IInv, TypeOK
  <2>4. Inbox' = Inbox /\ Delivered' = Delivered /\ UNCHANGED <<frames, audience>>
    BY <1>2, SameInbox DEF OnAccept
  <2> QED
    BY <2>1, <2>2, <2>3, <2>4 DEF Delivery!Next, Delivery!Enter
<1>3. ASSUME NEW s \in Sessions, Frames(s)
      PROVE  Delivery!Next
  BY <1>3, ChatBroadcasts, PrivateIsPrivate, RefuseReplies DEF Frames, Delivery!Next
<1>4. ASSUME NEW s \in Sessions, OnWrite(s)
      PROVE  Delivery!Next
  <2>1. /\ written[s] \in Seq(Message) /\ queue[s] \in Seq(Message) /\ queue[s] # <<>>
        /\ written' = [written EXCEPT ![s] = Append(written[s], Head(queue[s]))]
        /\ queue' = [queue EXCEPT ![s] = Tail(queue[s])]
    BY <1>4 DEF OnWrite, IInv, TypeOK, WriteInv
  <2>2. /\ Append(written[s], Head(queue[s])) \o Tail(queue[s]) = written[s] \o queue[s]
        /\ Len(Append(written[s], Head(queue[s]))) = Len(written[s]) + 1
        /\ Len(written[s]) < Len(Inbox[s])
    BY <2>1, WriteKeepsInbox DEF Inbox
  <2>3. Inbox' = Inbox
    <3>1. ASSUME NEW r \in Sessions
          PROVE  written'[r] \o queue'[r] = written[r] \o queue[r]
      BY <2>1, <2>2 DEF IInv, TypeOK
    <3> QED
      BY <3>1 DEF Inbox
  <2>4. Delivered' = [Delivered EXCEPT ![s] = Delivered[s] + 1]
    BY <2>1, <2>2 DEF IInv, TypeOK
  <2>5. UNCHANGED <<Served, latest, frames, audience>>
    BY <1>4 DEF OnWrite, Served
  <2> QED
    BY <2>2, <2>3, <2>4, <2>5 DEF Delivery!Next, Delivery!Deliver
<1>5. ASSUME NEW s \in Sessions, Drop(s)
      PROVE  Delivery!Next
  <2>1. Served' = Served \ {s}
    BY <1>5 DEF Drop, IInv, TypeOK, Served
  <2> QED
    BY <1>5, <2>1, SameInbox DEF Drop, Delivery!Next, Delivery!Exit
<1>6. CASE Crash
  <2>1. Served' = {}
    BY <1>6 DEF Crash, Served
  <2>2. ASSUME NEW s \in Sessions
        PROVE  written'[s] \o queue'[s] = SubSeq(Inbox[s], 1, Len(written[s]))
    BY <1>6, CrashKeepsDelivered DEF Crash, IInv, TypeOK, Inbox
  <2>3. Inbox' = [s \in Sessions |-> SubSeq(Inbox[s], 1, Delivered[s])]
    BY <2>2 DEF Inbox
  <2> QED
    BY <1>6, <2>1, <2>3 DEF Crash, Delivery!Next, Delivery!Crash
<1>7. CASE UNCHANGED vars
  BY <1>7, SameInbox DEF vars, Served
<1> QED
  BY <1>1, <1>2, <1>3, <1>4, <1>5, <1>6, <1>7 DEF Next, Frames

(***************************************************************************)
(* What the chat promises, one inbox at a time.                            *)
(***************************************************************************)
InSequence(q) ==
  \A i, j \in 1..Len(q) : i < j =>
    \/ q[i].frame < q[j].frame
    \/ q[i].frame = q[j].frame /\ q[i].kind = "private" /\ q[j].kind = "reply"

UpTo(q, n) == \A i \in 1..Len(q) : q[i].frame \in 1..n

Holds(q, n) == \E i \in 1..Len(q) : q[i].frame = n /\ q[i].kind # "reply"

\* The messages of frame n: nothing, one message, or a private one and a reply.
OfFrame(o, n) ==
  /\ \A i \in 1..Len(o) : o[i].frame = n
  /\ \A i, j \in 1..Len(o) : i < j => o[i].kind = "private" /\ o[j].kind = "reply"

DInv == Delivery!Ordered /\ Delivery!Reached /\ Delivery!Numbered

LEMMA DInvByInbox ==
  DInv <=> /\ \A s \in Sessions : InSequence(Inbox[s]) /\ UpTo(Inbox[s], frames)
           /\ \A n \in 1..MaxFrames : \A s \in audience[n] : Holds(Inbox[s], n)
           /\ NothingPromised
  BY DEF DInv, Delivery!Ordered, Delivery!Reached, Delivery!Numbered, InSequence, UpTo,
         Holds, NothingPromised

LEMMA AppendFrame ==
  ASSUME NEW q \in Seq(Message), NEW o \in Seq(Message), NEW n \in Nat,
         InSequence(q), UpTo(q, n), OfFrame(o, n + 1)
  PROVE  InSequence(q \o o) /\ UpTo(q \o o, n + 1)
<1> DEFINE c == q \o o
<1>1. /\ Len(q) \in Nat /\ Len(o) \in Nat /\ Len(c) = Len(q) + Len(o)
      /\ \A i \in 1 .. Len(q) + Len(o) :
           c[i] = IF i <= Len(q) THEN q[i] ELSE o[i - Len(q)]
  BY ConcatProperties, LenProperties
<1> HIDE DEF c
<1>2. ASSUME NEW i \in 1..Len(c)
      PROVE  \/ i \in 1..Len(q) /\ c[i] = q[i] /\ c[i].frame \in 1..n
             \/ /\ i > Len(q) /\ i - Len(q) \in 1..Len(o) /\ c[i] = o[i - Len(q)]
                /\ c[i].frame = n + 1
  <2>1. CASE i <= Len(q)
    <3>1. i \in 1..Len(q) /\ c[i] = q[i]
      BY <1>1, <2>1
    <3> QED
      BY <3>1 DEF UpTo
  <2>2. CASE i > Len(q)
    <3>1. i - Len(q) \in 1..Len(o) /\ c[i] = o[i - Len(q)]
      BY <1>1, <2>2
    <3> QED
      BY <2>2, <3>1 DEF OfFrame
  <2> QED
    BY <1>1, <2>1, <2>2
<1>3. UpTo(c, n + 1)
  BY <1>2 DEF UpTo
<1>4. ASSUME NEW i \in 1..Len(c), NEW j \in 1..Len(c), i < j
      PROVE  \/ c[i].frame < c[j].frame
             \/ c[i].frame = c[j].frame /\ c[i].kind = "private" /\ c[j].kind = "reply"
  <2>1. CASE j \in 1..Len(q) /\ c[j] = q[j]
    <3>1. i \in 1..Len(q) /\ c[i] = q[i]
      BY <1>1, <1>2, <1>4, <2>1
    <3> QED
      BY <1>4, <2>1, <3>1 DEF InSequence
  <2>2. CASE j - Len(q) \in 1..Len(o) /\ c[j] = o[j - Len(q)] /\ c[j].frame = n + 1
    <3>1. CASE c[i].frame \in 1..n
      BY <2>2, <3>1
    <3>2. CASE i - Len(q) \in 1..Len(o) /\ c[i] = o[i - Len(q)] /\ c[i].frame = n + 1
      <4>1. i - Len(q) < j - Len(q)
        BY <1>1, <1>4
      <4>2. o[i - Len(q)].kind = "private" /\ o[j - Len(q)].kind = "reply"
        BY <2>2, <3>2, <4>1 DEF OfFrame
      <4> QED
        BY <2>2, <3>2, <4>2
    <3> QED
      BY <1>2, <3>1, <3>2
  <2> QED
    BY <1>2, <2>1, <2>2
<1>5. InSequence(c)
  BY <1>4 DEF InSequence
<1> QED
  BY <1>3, <1>5 DEF c

\* What an inbox holds, it holds when more is appended; so does what is appended.
LEMMA AppendHolds ==
  ASSUME NEW q \in Seq(Message), NEW o \in Seq(Message), NEW n,
         Holds(q, n) \/ Holds(o, n)
  PROVE  Holds(q \o o, n)
<1> DEFINE c == q \o o
<1>1. /\ Len(q) \in Nat /\ Len(o) \in Nat /\ Len(c) = Len(q) + Len(o)
      /\ \A i \in 1 .. Len(q) + Len(o) :
           c[i] = IF i <= Len(q) THEN q[i] ELSE o[i - Len(q)]
  BY ConcatProperties, LenProperties
<1> HIDE DEF c
<1>2. CASE Holds(q, n)
  <2>1. PICK i \in 1..Len(q) : q[i].frame = n /\ q[i].kind # "reply"
    BY <1>2 DEF Holds
  <2>2. i \in 1..Len(c) /\ c[i] = q[i]
    BY <1>1
  <2>3. Holds(c, n)
    BY <2>1, <2>2 DEF Holds
  <2> QED
    BY <2>3 DEF c
<1>3. CASE Holds(o, n)
  <2>1. PICK i \in 1..Len(o) : o[i].frame = n /\ o[i].kind # "reply"
    BY <1>3 DEF Holds
  <2>2. i + Len(q) \in 1..Len(c) /\ c[i + Len(q)] = o[i]
    BY <1>1
  <2>3. Holds(c, n)
    BY <2>1, <2>2 DEF Holds
  <2> QED
    BY <2>3 DEF c
<1> QED
  BY <1>2, <1>3

LEMMA PrefixKeeps ==
  ASSUME NEW q \in Seq(Message), NEW n \in Nat, NEW d \in 0..Len(q), InSequence(q), UpTo(q, n)
  PROVE  InSequence(SubSeq(q, 1, d)) /\ UpTo(SubSeq(q, 1, d), n)
<1>1. Len(q) \in Nat
  BY LenProperties
<1>2. /\ Len(SubSeq(q, 1, d)) = d
      /\ \A i \in 1..d : SubSeq(q, 1, d)[i] = q[i]
  <2>1. /\ SubSeq(q, 1, d) \in Seq(Message)
        /\ Len(SubSeq(q, 1, d)) = IF 1 <= d THEN d - 1 + 1 ELSE 0
        /\ \A i \in 1 .. d - 1 + 1 : SubSeq(q, 1, d)[i] = q[1 + i - 1]
    BY <1>1, SubSeqProperties
  <2> QED
    BY <1>1, <2>1
<1> QED
  BY <1>1, <1>2 DEF InSequence, UpTo

(***************************************************************************)
(* Every step of the chat keeps what it promises.                          *)
(***************************************************************************)
LEMMA PublishKeeps ==
  ASSUME TypeOK, DInv, NEW out \in [Sessions -> Seq(Message)], NEW promised \in SUBSET Sessions,
         Delivery!Publish(out, promised),
         \A s \in Sessions : OfFrame(out[s], frames + 1),
         \A s \in promised : Holds(out[s], frames + 1)
  PROVE  DInv'
<1>1. /\ frames \in Nat /\ frames + 1 \in 1..MaxFrames /\ frames' = frames + 1
      /\ Inbox' = [s \in Sessions |-> Inbox[s] \o out[s]]
      /\ audience' = [audience EXCEPT ![frames + 1] = promised]
      /\ audience \in [1..MaxFrames -> SUBSET Sessions]
  BY MaxFramesAssumption DEF TypeOK, Delivery!Publish
<1>2. Inbox \in [Sessions -> Seq(Message)]
  BY InboxType
<1>3. ASSUME NEW s \in Sessions
      PROVE  InSequence(Inbox'[s]) /\ UpTo(Inbox'[s], frames')
  BY <1>1, <1>2, <1>3, DInvByInbox, AppendFrame
<1>4. ASSUME NEW n \in 1..MaxFrames, NEW s \in audience'[n]
      PROVE  Holds(Inbox'[s], n)
  <2>1. s \in Sessions
    BY <1>1, <1>4
  <2>2. CASE n = frames + 1
    BY <1>1, <1>2, <2>1, <2>2, <1>4, AppendHolds
  <2>3. CASE n # frames + 1
    <3>1. s \in audience[n] /\ Holds(Inbox[s], n)
      BY <1>1, <1>4, <2>3, DInvByInbox
    <3> QED
      BY <1>1, <1>2, <2>1, <3>1, AppendHolds
  <2> QED
    BY <2>2, <2>3
<1>5. NothingPromised'
  BY <1>1, DInvByInbox DEF NothingPromised
<1>6. /\ \A s \in Sessions : (InSequence(Inbox[s]) /\ UpTo(Inbox[s], frames))'
      /\ \A n \in 1..MaxFrames : \A s \in audience'[n] : Holds(Inbox[s], n)'
  BY <1>3, <1>4 DEF InSequence, UpTo, Holds
<1> QED
  BY <1>5, <1>6 DEF DInv, Delivery!Ordered, Delivery!Reached, Delivery!Numbered, InSequence,
         UpTo, Holds, NothingPromised

LEMMA OneMessage ==
  ASSUME NEW n \in 1..MaxFrames, NEW k \in {"chat", "private", "reply"}
  PROVE  /\ Delivery!Msg(n, k) \in Seq(Message) /\ OfFrame(Delivery!Msg(n, k), n)
         /\ Len(Delivery!Msg(n, k)) = 1 /\ Delivery!Msg(n, k)[1] = [frame |-> n, kind |-> k]
         /\ k # "reply" => Holds(Delivery!Msg(n, k), n)
<1> DEFINE m == [frame |-> n, kind |-> k]
<1>1. m \in Message /\ m.frame = n /\ m.kind = k
  BY DEF Message
<1> HIDE DEF m
<1>2. <<m>> \in Seq(Message) /\ Len(<<m>>) = 1 /\ <<m>>[1] = m
  BY <1>1
<1>3. OfFrame(<<m>>, n) /\ (k # "reply" => Holds(<<m>>, n))
  BY <1>1, <1>2 DEF OfFrame, Holds
<1> QED
  BY <1>2, <1>3 DEF m, Delivery!Msg

LEMMA NoMessage ==
  ASSUME NEW n
  PROVE  <<>> \in Seq(Message) /\ OfFrame(<<>>, n)
  BY DEF OfFrame

LEMMA ParcelsOfFrame ==
  ASSUME NEW s \in Sessions, NEW T, NEW r \in Sessions, frames + 1 \in 1..MaxFrames
  PROVE  /\ Delivery!Parcels(s, T)[r] \in Seq(Message)
         /\ OfFrame(Delivery!Parcels(s, T)[r], frames + 1)
         /\ r \in T => Holds(Delivery!Parcels(s, T)[r], frames + 1)
<1> DEFINE n == frames + 1
           a == IF r \in T THEN Delivery!Msg(n, "private") ELSE <<>>
           b == IF r = s THEN Delivery!Msg(n, "reply") ELSE <<>>
<1>1. Delivery!Parcels(s, T)[r] = a \o b
  BY DEF Delivery!Parcels
<1>2. /\ a \in Seq(Message) /\ OfFrame(a, n) /\ (r \in T => Holds(a, n)) /\ Len(a) \in {0, 1}
      /\ \A i \in 1..Len(a) : a[i].kind = "private"
  <2>1. CASE r \in T
    <3>1. /\ a = Delivery!Msg(n, "private") /\ a \in Seq(Message) /\ OfFrame(a, n) /\ Holds(a, n)
          /\ Len(a) = 1 /\ a[1] = [frame |-> n, kind |-> "private"]
      BY <2>1, OneMessage
    <3> QED
      BY <3>1
  <2>2. CASE r \notin T
    BY <2>2, NoMessage
  <2> QED
    BY <2>1, <2>2
<1>3. /\ b \in Seq(Message) /\ OfFrame(b, n) /\ Len(b) \in {0, 1}
      /\ \A i \in 1..Len(b) : b[i].kind = "reply"
  <2>1. CASE r = s
    <3>1. /\ b = Delivery!Msg(n, "reply") /\ b \in Seq(Message) /\ OfFrame(b, n)
          /\ Len(b) = 1 /\ b[1] = [frame |-> n, kind |-> "reply"]
      BY <2>1, OneMessage
    <3> QED
      BY <3>1
  <2>2. CASE r # s
    BY <2>2, NoMessage
  <2> QED
    BY <2>1, <2>2
<1> HIDE DEF a, b, n
<1>4. /\ a \o b \in Seq(Message) /\ Len(a \o b) = Len(a) + Len(b)
      /\ \A i \in 1 .. Len(a) + Len(b) :
           (a \o b)[i] = IF i <= Len(a) THEN a[i] ELSE b[i - Len(a)]
  BY <1>2, <1>3, ConcatProperties
<1>5. OfFrame(a \o b, n)
  <2>1. \A i \in 1..Len(a \o b) : (a \o b)[i].frame = n
    BY <1>2, <1>3, <1>4 DEF OfFrame
  <2>2. ASSUME NEW i \in 1..Len(a \o b), NEW j \in 1..Len(a \o b), i < j
        PROVE  (a \o b)[i].kind = "private" /\ (a \o b)[j].kind = "reply"
    <3>1. Len(a) = 1 /\ Len(b) = 1 /\ i = 1 /\ j = 2
      BY <1>2, <1>3, <1>4, <2>2
    <3>2. (a \o b)[1] = a[1] /\ (a \o b)[2] = b[1]
      BY <1>4, <3>1
    <3> QED
      BY <1>2, <1>3, <3>1, <3>2
  <2> QED
    BY <2>1, <2>2 DEF OfFrame
<1>6. r \in T => Holds(a \o b, n)
  BY <1>2, <1>3, AppendHolds
<1> QED
  BY <1>1, <1>4, <1>5, <1>6 DEF n

LEMMA ParcelsKeep ==
  ASSUME TypeOK, DInv, NEW s \in Sessions, NEW T \in SUBSET Sessions, NEW P \in SUBSET T,
         Delivery!Publish(Delivery!Parcels(s, T), P)
  PROVE  DInv'
<1> DEFINE out == Delivery!Parcels(s, T)
<1>1. frames + 1 \in 1..MaxFrames
  BY MaxFramesAssumption DEF TypeOK, Delivery!Publish
<1>2. out \in [Sessions -> Seq(Message)]
  <2>1. out = [r \in Sessions |-> out[r]]
    BY DEF Delivery!Parcels
  <2> QED
    BY <1>1, <2>1, ParcelsOfFrame
<1>3. /\ \A r \in Sessions : OfFrame(out[r], frames + 1)
      /\ \A r \in P : Holds(out[r], frames + 1)
  BY <1>1, ParcelsOfFrame
<1> HIDE DEF out
<1>4. Delivery!Publish(out, P)
  BY DEF out
<1> QED
  BY <1>2, <1>3, <1>4, PublishKeeps

LEMMA BroadcastKeeps ==
  ASSUME TypeOK, DInv, Delivery!Broadcast
  PROVE  DInv'
<1>1. PICK R \in SUBSET Sessions :
        /\ Served \subseteq R
        /\ Delivery!Publish([s \in Sessions |-> IF s \in R THEN Delivery!Msg(frames + 1, "chat")
                                                ELSE <<>>], Served)
  BY DEF Delivery!Broadcast
<1> DEFINE out == [s \in Sessions |-> IF s \in R THEN Delivery!Msg(frames + 1, "chat") ELSE <<>>]
<1>2. frames + 1 \in 1..MaxFrames
  BY <1>1, MaxFramesAssumption DEF TypeOK, Delivery!Publish
<1>3. /\ out \in [Sessions -> Seq(Message)]
      /\ \A s \in Sessions : OfFrame(out[s], frames + 1)
      /\ \A s \in Served : Holds(out[s], frames + 1)
  BY <1>1, <1>2, OneMessage, NoMessage DEF Served
<1>4. Served \in SUBSET Sessions
  BY DEF Served
<1> HIDE DEF out
<1>5. Delivery!Publish(out, Served)
  BY <1>1 DEF out
<1> QED
  BY <1>3, <1>4, <1>5, PublishKeeps

LEMMA ChatKeeps ==
  ASSUME TypeOK, DInv, [Delivery!Next]_Delivery!vars
  PROVE  DInv'
<1>1. CASE UNCHANGED <<Inbox, frames, audience>>
  BY <1>1 DEF DInv, Delivery!Ordered, Delivery!Reached, Delivery!Numbered
<1>2. CASE Delivery!Broadcast
  BY <1>2, BroadcastKeeps
<1>3. ASSUME NEW s \in Sessions, NEW u \in Users, Delivery!Private(s, u)
      PROVE  DInv'
  <2>1. CASE latest[u] \in Served
    <3>1. {latest[u]} \in SUBSET Sessions
      BY <2>1 DEF Served
    <3>2. Delivery!Publish(Delivery!Parcels(s, {latest[u]}), {latest[u]})
      BY <1>3, <2>1 DEF Delivery!Private
    <3> QED
      BY <3>1, <3>2, ParcelsKeep
  <2>2. CASE latest[u] \notin Served
    <3>1. PICK T \in {{}} \cup {{t} : t \in Sessions \ Served} :
            Delivery!Publish(Delivery!Parcels(s, T), {})
      BY <1>3, <2>2 DEF Delivery!Private
    <3> QED
      BY <3>1, ParcelsKeep
  <2> QED
    BY <2>1, <2>2
<1>4. ASSUME NEW s \in Sessions, Delivery!Reply(s)
      PROVE  DInv'
  BY <1>4, ParcelsKeep DEF Delivery!Reply
<1>5. CASE Delivery!Crash
  <2>1. /\ Inbox' = [s \in Sessions |-> SubSeq(Inbox[s], 1, Len(written[s]))]
        /\ audience' = [n \in 1..MaxFrames |-> {}] /\ frames' = frames
    BY <1>5 DEF Delivery!Crash
  <2>2. ASSUME NEW s \in Sessions
        PROVE  InSequence(Inbox'[s]) /\ UpTo(Inbox'[s], frames')
    <3>1. Inbox[s] \in Seq(Message) /\ Len(written[s]) \in 0..Len(Inbox[s])
      BY ConcatProperties, LenProperties DEF Inbox, TypeOK
    <3>2. Inbox'[s] = SubSeq(Inbox[s], 1, Len(written[s])) /\ frames \in Nat
      BY <2>1 DEF TypeOK
    <3>3. InSequence(Inbox[s]) /\ UpTo(Inbox[s], frames)
      BY DInvByInbox
    <3> QED
      BY <2>1, <3>1, <3>2, <3>3, PrefixKeeps
  <2>3. \A s \in Sessions : (InSequence(Inbox[s]) /\ UpTo(Inbox[s], frames))'
    BY <2>2 DEF InSequence, UpTo
  <2>4. NothingPromised' /\ \A n \in 1..MaxFrames : audience'[n] = {}
    BY <2>1 DEF NothingPromised
  <2> QED
    BY <2>3, <2>4 DEF DInv, Delivery!Ordered, Delivery!Reached, Delivery!Numbered, InSequence,
       UpTo, NothingPromised
<1>6. ASSUME \/ \E s \in Sessions : (\E u \in Users : Delivery!Enter(s, u)) \/ Delivery!Exit(s)
                                    \/ Delivery!Deliver(s)
      PROVE  DInv'
  BY <1>1, <1>6 DEF Delivery!Enter, Delivery!Exit, Delivery!Deliver
<1> QED
  BY <1>1, <1>2, <1>3, <1>4, <1>5, <1>6 DEF Delivery!Next, Delivery!vars

LEMMA StartsEmpty ==
  ASSUME Init
  PROVE  Delivery!Init /\ DInv
<1>1. Inbox = [s \in Sessions |-> <<>>]
  <2>1. <<>> \o <<>> = <<>>
    BY ConcatEmptySeq, EmptySeq
  <2> QED
    BY <2>1 DEF Init, Inbox
<1>2. Delivery!Init
  BY <1>1 DEF Init, Delivery!Init, Served
<1>3. DInv
  BY <1>1 DEF DInv, Delivery!Ordered, Delivery!Reached, Delivery!Numbered, Init
<1> QED
  BY <1>2, <1>3

LEMMA DInvInductive == Spec => []DInv
<1>1. Init => DInv
  BY StartsEmpty
<1>2. IInv /\ OnlyLatestHasUser /\ DInv /\ [Next]_vars => DInv'
  <2> SUFFICES ASSUME IInv, OnlyLatestHasUser, DInv, [Next]_vars
               PROVE  DInv'
    OBVIOUS
  <2>1. TypeOK
    BY DEF IInv
  <2>2. NothingPromised
    BY DInvByInbox
  <2>3. [Delivery!Next]_Delivery!vars
    BY <2>2, StepRefines
  <2> QED
    BY <2>1, <2>3, ChatKeeps
<1> QED
  BY <1>1, <1>2, Consistent, OnlyLatestHasUserCorrect, PTL DEF Spec

\* The server implements the chat: every handshake, frame, completed or failed
\* write, lost link and crash is one of the chat's steps or changes nothing in it.
THEOREM Refinement == Spec => ImplementsDelivery
<1>1. Init => Delivery!Init
  BY StartsEmpty
<1>2. IInv /\ OnlyLatestHasUser /\ DInv /\ [Next]_vars => [Delivery!Next]_Delivery!vars
  BY StepRefines, DInvByInbox
<1> QED
  BY <1>1, <1>2, Consistent, OnlyLatestHasUserCorrect, DInvInductive, PTL
     DEF Spec, ImplementsDelivery, Delivery!Spec

\* Each session gets its messages in the order of the frames, none twice.
THEOREM InOrderCorrect == Spec => []InOrder
<1>1. DInv => InOrder
  <2>1. \A s \in Sessions : Inbox[s] = written[s] \o queue[s]
    BY DEF Inbox
  <2>2. InOrder <=> \A s \in Sessions : InSequence(written[s] \o queue[s])
    BY DEF InOrder, InSequence
  <2> QED
    BY <2>1, <2>2, DInvByInbox
<1> QED
  BY <1>1, DInvInductive, PTL

\* Every session a message was for has it, written or queued.
THEOREM AudienceReachedCorrect == Spec => []AudienceReached
<1>1. DInv /\ IInv => AudienceReached
  BY DEF DInv, Delivery!Reached, AudienceReached, Inbox, IInv, TypeOK
<1> QED
  BY <1>1, DInvInductive, Consistent, PTL
=============================================================================
