------------------------- MODULE ThreadStoreProofs -------------------------
(***************************************************************************)
(* Proofs about ThreadStore, for every value of its constants: any number  *)
(* of users, threads and messages, and either schema.                      *)
(***************************************************************************)
EXTENDS ThreadStore, TLAPS

USE DEF Reads, Writes

\* The database numbers messages upwards.
Numbered == \A m \in messages : m.id <= serial

\* The thread between its two transactions belongs to an account.
OwnerSought == request # Idle => request.owner \in accounts

IInv == TypeOK /\ OwnersExist /\ OwnerSought /\ Numbered
-----------------------------------------------------------------------------
\* The arguments of the requests have the types of those fields.
LEMMA Arguments ==
  /\ \A r \in ToCreate : /\ r.title \in Titles \cup {Empty}
                         /\ r.uuid \in ThreadIds \cup {Empty}
                         /\ r.createdId \in Users \cup {NoUser}
  /\ \A r \in ToDelete : r.threadId \in ThreadIds \cup {Empty}
  /\ \A r \in ToRename : /\ r.threadId \in ThreadIds \cup {Empty}
                         /\ r.newTitle \in Titles \cup {Empty}
  /\ \A r \in ToCreateMessage : /\ r.threadId \in ThreadIds \cup {Empty}
                                /\ r.content \in Contents \cup {Empty}
  /\ \A r \in ToDeleteMessage : /\ r.threadId \in ThreadIds \cup {Empty}
                                /\ r.messageId \in 0..MaxMessages
  /\ \A r \in ToUpdateMessage : /\ r.threadId \in ThreadIds \cup {Empty}
                                /\ r.messageId \in 0..MaxMessages
                                /\ r.newContent \in Contents \cup {Empty}
BY DEF Parsed, Fields, Taken, ToCreate, ToDelete, ToRename, ToCreateMessage, ToDeleteMessage, ToUpdateMessage
-----------------------------------------------------------------------------
LEMMA InitInv == Init => IInv
<1>1. 0 \in 0..MaxMessages
  BY MaxMessagesAssumption
<1>2. NoAnswer \in Answer
  BY <1>1 DEF NoAnswer, Answer, Kinds, Results
<1>3. QED
  BY <1>1, <1>2 DEF Init, IInv, TypeOK, OwnersExist, OwnerSought, Numbered

LEMMA SearchUserInv ==
  ASSUME IInv, NEW r \in ToCreate, NEW o \in Reads, SearchUser(r, o)
  PROVE  IInv'
<1>1. /\ r.title \in Titles \cup {Empty}
      /\ r.uuid \in ThreadIds \cup {Empty}
  BY Arguments
<1>2. connected' \in BOOLEAN
  BY DEF SearchUser, Transaction, IInv, TypeOK
<1>3. answer' \in Answer
  BY <1>1, MaxMessagesAssumption DEF SearchUser, Reply, Answer, NoAnswer, Kinds, Results
<1>4. request' \in Thread \cup {Idle} /\ (request' # Idle => request'.owner \in accounts)
  BY <1>1 DEF SearchUser, Thread, IInv, TypeOK, OwnerSought, Ready
<1>5. QED
  BY <1>2, <1>3, <1>4 DEF SearchUser, IInv, TypeOK, OwnersExist, OwnerSought, Numbered

LEMMA CreateThreadInv ==
  ASSUME IInv, NEW o \in Writes, CreateThread(o)
  PROVE  IInv'
<1>1. request \in Thread /\ request.owner \in accounts
  BY DEF CreateThread, IInv, TypeOK, OwnerSought
<1>2. connected' \in BOOLEAN
  BY DEF CreateThread, Transaction, IInv, TypeOK
<1>3. answer' \in Answer
  BY <1>1, MaxMessagesAssumption
     DEF CreateThread, Reply, Verdict, Answer, Kinds, Results, Thread
<1>4. threads' \subseteq threads \cup {request} /\ request' = Idle /\ changed' \in BOOLEAN
  BY DEF CreateThread, Touched
<1>5. QED
  BY <1>1, <1>2, <1>3, <1>4
     DEF CreateThread, IInv, TypeOK, OwnersExist, OwnerSought, Numbered

LEMMA DeleteThreadInv ==
  ASSUME IInv, NEW r \in ToDelete, NEW o \in Writes, DeleteThread(r, o)
  PROVE  IInv'
<1>1. r.threadId \in ThreadIds \cup {Empty}
  BY Arguments
<1>2. connected' \in BOOLEAN
  BY DEF DeleteThread, Transaction, IInv, TypeOK
<1>3. answer' \in Answer
  BY <1>1, MaxMessagesAssumption
     DEF DeleteThread, Reply, Verdict, Answer, Kinds, Results
<1>4. /\ threads' \subseteq threads
      /\ messages' \subseteq messages
      /\ changed' \in BOOLEAN
  BY DEF DeleteThread, Touched
<1>5. QED
  BY <1>2, <1>3, <1>4
     DEF DeleteThread, IInv, TypeOK, OwnersExist, OwnerSought, Numbered

LEMMA RenameThreadInv ==
  ASSUME IInv, NEW r \in ToRename, NEW o \in Writes, RenameThread(r, o)
  PROVE  IInv'
<1>1. /\ r.threadId \in ThreadIds \cup {Empty}
      /\ r.newTitle \in Titles \cup {Empty}
  BY Arguments
<1>2. connected' \in BOOLEAN
  BY DEF RenameThread, Transaction, IInv, TypeOK
<1>3. answer' \in Answer
  BY <1>1, MaxMessagesAssumption
     DEF RenameThread, Reply, Verdict, Answer, Kinds, Results
<1>4. \A q \in threads' : q \in Thread /\ q.owner \in accounts
  BY <1>1 DEF RenameThread, IInv, TypeOK, OwnersExist, Thread
<1>5. QED
  BY <1>2, <1>3, <1>4
     DEF RenameThread, Touched, IInv, TypeOK, OwnersExist, OwnerSought, Numbered

LEMMA CreateMessageInv ==
  ASSUME IInv, NEW r \in ToCreateMessage, NEW o \in Writes, CreateMessage(r, o)
  PROVE  IInv'
<1>1. /\ r.threadId \in ThreadIds \cup {Empty}
      /\ r.content \in Contents \cup {Empty}
  BY Arguments
<1>2. connected' \in BOOLEAN
  BY DEF CreateMessage, Transaction, IInv, TypeOK
<1>3. serial' \in 0..MaxMessages /\ serial <= serial'
  BY MaxMessagesAssumption DEF CreateMessage, IInv, TypeOK
<1>4. answer' \in Answer
  BY <1>1, <1>3, MaxMessagesAssumption
     DEF CreateMessage, Reply, Verdict, Answer, Kinds, Results
<1>5. messages' \subseteq Message /\ Numbered'
  <2>1. CASE UNCHANGED messages
    BY <1>3, <2>1, MaxMessagesAssumption DEF IInv, TypeOK, Numbered, Message
  <2>2. CASE /\ serial' = serial + 1
             /\ messages' = messages \cup
                  {[id |-> serial', thread |-> r.threadId, content |-> r.content]}
    <3>1. serial' \in 1..MaxMessages
      BY <1>3, <2>2, MaxMessagesAssumption DEF IInv, TypeOK
    <3>2. \A m \in messages : m \in Message /\ m.id <= serial
      BY DEF IInv, TypeOK, Numbered
    <3>3. [id |-> serial', thread |-> r.threadId, content |-> r.content] \in Message
      BY <1>1, <3>1 DEF Message
    <3>4. \A m \in messages' : m \in Message /\ m.id <= serial'
      BY <1>3, <2>2, <3>1, <3>2, <3>3, MaxMessagesAssumption DEF Message, IInv, TypeOK
    <3>5. QED BY <3>4 DEF Numbered
  <2>3. QED BY <2>1, <2>2 DEF CreateMessage
<1>6. QED
  BY <1>2, <1>3, <1>4, <1>5
     DEF CreateMessage, Touched, IInv, TypeOK, OwnersExist, OwnerSought

LEMMA DeleteMessageInv ==
  ASSUME IInv, NEW r \in ToDeleteMessage, NEW o \in Writes, DeleteMessage(r, o)
  PROVE  IInv'
<1>1. /\ r.threadId \in ThreadIds \cup {Empty}
      /\ r.messageId \in 0..MaxMessages
  BY Arguments
<1>2. connected' \in BOOLEAN
  BY DEF DeleteMessage, Transaction, IInv, TypeOK
<1>3. PICK res \in {"ok", "failed", "died"} :
        Reply("deleteMessage", res, r.threadId, r.messageId, Empty, o)
  BY DEF DeleteMessage
<1>4. answer' \in Answer
  BY <1>1, <1>3 DEF Reply, Answer, Kinds, Results
<1>5. messages' \subseteq messages
  BY DEF DeleteMessage
<1>6. QED
  BY <1>2, <1>4, <1>5
     DEF DeleteMessage, Touched, IInv, TypeOK, OwnersExist, OwnerSought, Numbered

LEMMA UpdateMessageInv ==
  ASSUME IInv, NEW r \in ToUpdateMessage, NEW o \in Writes, UpdateMessage(r, o)
  PROVE  IInv'
<1>1. /\ r.threadId \in ThreadIds \cup {Empty}
      /\ r.messageId \in 0..MaxMessages
      /\ r.newContent \in Contents \cup {Empty}
  BY Arguments
<1>2. connected' \in BOOLEAN
  BY DEF UpdateMessage, Transaction, IInv, TypeOK
<1>3. answer' \in Answer
  BY <1>1 DEF UpdateMessage, Reply, Verdict, Answer, Kinds, Results
<1>4. \A q \in messages' : q \in Message /\ q.id <= serial
  BY <1>1 DEF UpdateMessage, IInv, TypeOK, Numbered, Message
<1>5. QED
  BY <1>2, <1>3, <1>4
     DEF UpdateMessage, Touched, IInv, TypeOK, OwnersExist, OwnerSought, Numbered

LEMMA OthersInv ==
  ASSUME IInv, \/ \E o \in Reads : List(o)
               \/ CreateUuid
               \/ \E u \in Users : Register(u)
               \/ Crash
               \/ UNCHANGED vars
  PROVE  IInv'
<1>1. CASE \E o \in Reads : List(o)
  <2>1. answer' \in Answer
    BY <1>1, MaxMessagesAssumption DEF List, Reply, Answer, Kinds, Results
  <2>2. connected' \in BOOLEAN
    BY <1>1 DEF List, Transaction, IInv, TypeOK
  <2>3. QED
    BY <1>1, <2>1, <2>2 DEF List, IInv, TypeOK, OwnersExist, OwnerSought, Numbered
<1>2. CASE CreateUuid
  <2>1. answer' \in Answer
    BY <1>2, MaxMessagesAssumption DEF CreateUuid, Reply, Answer, Kinds, Results
  <2>2. QED
    BY <1>2, <2>1 DEF CreateUuid, IInv, TypeOK, OwnersExist, OwnerSought, Numbered
<1>3. CASE \E u \in Users : Register(u)
  BY <1>3 DEF Register, IInv, TypeOK, OwnersExist, OwnerSought, Numbered
<1>4. CASE Crash
  <2>1. answer' \in Answer
    BY <1>4, MaxMessagesAssumption DEF Crash, NoAnswer, Answer, Kinds, Results
  <2>2. QED
    BY <1>4, <2>1 DEF Crash, Connect, IInv, TypeOK, OwnersExist, OwnerSought, Numbered
<1>5. CASE UNCHANGED vars
  BY <1>5 DEF vars, IInv, TypeOK, OwnersExist, OwnerSought, Numbered
<1>6. QED BY <1>1, <1>2, <1>3, <1>4, <1>5

\* The inductive invariant holds in every state: it adds to the type that the
\* creation under way has an account, and that messages are numbered upwards.
THEOREM Sound == Spec => []IInv
<1>1. IInv /\ [Next]_vars => IInv'
  BY SearchUserInv, CreateThreadInv, DeleteThreadInv, RenameThreadInv,
     CreateMessageInv, DeleteMessageInv, UpdateMessageInv, OthersInv
     DEF Next
<1>2. QED BY InitInv, <1>1, PTL DEF Spec

\* Every variable keeps its type, whatever reaches a route uninitialized.
THEOREM TypeCorrect == Spec => []TypeOK
<1>1. IInv => TypeOK
  BY DEF IInv
<1>2. QED BY Sound, <1>1, PTL

\* A thread's owner has an account (ThreadController::createThread).
THEOREM OwnersExistCorrect == Spec => []OwnersExist
<1>1. IInv => OwnersExist
  BY DEF IInv
<1>2. QED BY Sound, <1>1, PTL
-----------------------------------------------------------------------------
(***************************************************************************)
(* Answers and tables.  The steps that leave answer alone leave the tables *)
(* alone, too: what an answer says stays true until the next one.          *)
(***************************************************************************)
LEMMA Quiet ==
  ASSUME \/ UNCHANGED <<answer, threads, messages, changed>>
         \/ answer' = NoAnswer
  PROVE  (SuccessIsTrue => SuccessIsTrue') /\ (FailedChangedNothing => FailedChangedNothing')
BY DEF SuccessIsTrue, FailedChangedNothing, ThreadsOf, MessagesOf, NoAnswer

\* An answer is one request's, about the tables as the request leaves them.
LEMMA SuccessStep == IInv /\ SuccessIsTrue /\ [Next]_vars => SuccessIsTrue'
<1> SUFFICES ASSUME IInv, SuccessIsTrue, [Next]_vars
             PROVE  SuccessIsTrue'
  OBVIOUS
<1>1. CASE UNCHANGED vars
  BY <1>1, Quiet DEF vars
<1>2. ASSUME NEW r \in ToCreate, NEW o \in Reads, SearchUser(r, o)
      PROVE  SuccessIsTrue'
  BY <1>2 DEF SearchUser, Reply, NoAnswer, SuccessIsTrue
<1>3. ASSUME NEW o \in Reads, List(o)
      PROVE  SuccessIsTrue'
  BY <1>3 DEF List, Reply, SuccessIsTrue
<1>4. ASSUME NEW o \in Writes, CreateThread(o)
      PROVE  SuccessIsTrue'
  <2>1. answer'.result = "ok" => request \in threads'
    BY <1>4 DEF CreateThread, Reply, Verdict
  <2>2. /\ answer'.kind = "create"
        /\ answer'.thread = request.id
        /\ answer'.text = request.title
    BY <1>4 DEF CreateThread, Reply
  <2>3. QED BY <2>1, <2>2 DEF SuccessIsTrue, ThreadsOf
<1>5. ASSUME NEW r \in ToDelete, NEW o \in Writes, DeleteThread(r, o)
      PROVE  SuccessIsTrue'
  <2>1. answer'.result = "ok" => threads' = threads \ ThreadsOf(r.threadId)
    BY <1>5 DEF DeleteThread, Reply, Verdict
  <2>2. answer'.kind = "delete" /\ answer'.thread = r.threadId
    BY <1>5 DEF DeleteThread, Reply
  <2>3. QED BY <2>1, <2>2 DEF SuccessIsTrue, ThreadsOf
<1>6. ASSUME NEW r \in ToRename, NEW o \in Writes, RenameThread(r, o)
      PROVE  SuccessIsTrue'
  <2> DEFINE Renamed(t) == [t EXCEPT !.title = IF t.id = r.threadId THEN r.newTitle ELSE @]
  <2>1. /\ answer'.kind = "rename"
        /\ answer'.thread = r.threadId
        /\ answer'.text = r.newTitle
    BY <1>6 DEF RenameThread, Reply
  <2>2. answer'.result = "ok" =>
          /\ \A q \in threads' : \E t \in threads : q = Renamed(t)
          /\ \A t \in threads : Renamed(t) \in threads'
          /\ \E t \in threads : t.id = r.threadId
    BY <1>6 DEF RenameThread, Reply, Verdict, ThreadsOf
  <2>3. \A t \in threads : /\ Renamed(t).id = t.id
                           /\ t.id = r.threadId => Renamed(t).title = r.newTitle
    BY DEF IInv, TypeOK, Thread
  <2> HIDE DEF Renamed
  <2>4. answer'.result = "ok" => \E q \in threads' : q.id = r.threadId
    BY <2>2, <2>3
  <2>5. answer'.result = "ok" =>
          \A q \in threads' : q.id = r.threadId => q.title = r.newTitle
    BY <2>2, <2>3
  <2> DEFINE rows == {q \in threads' : q.id = r.threadId}
  <2>6. answer'.result = "ok" => {q.title : q \in rows} = {r.newTitle}
    BY <2>4, <2>5
  <2>7. QED BY <2>1, <2>6 DEF SuccessIsTrue, ThreadsOf, rows
<1>7. ASSUME NEW r \in ToCreateMessage, NEW o \in Writes, CreateMessage(r, o)
      PROVE  SuccessIsTrue'
  <2> DEFINE row == [id |-> serial', thread |-> r.threadId, content |-> r.content]
  <2>1. /\ answer'.kind = "createMessage"
        /\ answer'.thread = r.threadId
        /\ answer'.message = serial'
        /\ answer'.text = r.content
    BY <1>7 DEF CreateMessage, Reply
  <2>2. answer'.result = "ok" => serial' = serial + 1 /\ messages' = messages \cup {row}
    BY <1>7 DEF CreateMessage, Reply, Verdict
  <2>3. \A m \in messages : m.id # serial + 1
    BY MaxMessagesAssumption DEF IInv, TypeOK, Numbered, Message
  <2> DEFINE rows == {m \in messages' : m.thread = r.threadId /\ m.id = serial'}
  <2>4. answer'.result = "ok" => rows = {row}
    BY <2>2, <2>3
  <2>5. {m.content : m \in {row}} = {r.content}
    OBVIOUS
  <2> HIDE DEF rows, row
  <2>6. answer'.result = "ok" => {m.content : m \in rows} = {r.content}
    BY <2>4, <2>5
  <2>7. QED BY <2>1, <2>6 DEF SuccessIsTrue, MessagesOf, rows
<1>8. ASSUME NEW r \in ToDeleteMessage, NEW o \in Writes, DeleteMessage(r, o)
      PROVE  SuccessIsTrue'
  <2>1. PICK res \in {"ok", "failed", "died"} :
          /\ Reply("deleteMessage", res, r.threadId, r.messageId, Empty, o)
          /\ res = "ok" => o = "ok"
    BY <1>8 DEF DeleteMessage
  <2>2. o = "ok" => messages' = messages \ MessagesOf(r.threadId, r.messageId)
    BY <1>8 DEF DeleteMessage
  <2>3. QED BY <2>1, <2>2 DEF Reply, SuccessIsTrue, MessagesOf
<1>9. ASSUME NEW r \in ToUpdateMessage, NEW o \in Writes, UpdateMessage(r, o)
      PROVE  SuccessIsTrue'
  <2> DEFINE Updated(m) == [m EXCEPT !.content = IF m \in MessagesOf(r.threadId, r.messageId)
                                                 THEN r.newContent ELSE @]
  <2>1. /\ answer'.kind = "updateMessage"
        /\ answer'.thread = r.threadId
        /\ answer'.message = r.messageId
        /\ answer'.text = r.newContent
    BY <1>9 DEF UpdateMessage, Reply
  <2>2. answer'.result = "ok" => messages' = {Updated(m) : m \in messages}
    BY <1>9 DEF UpdateMessage, Reply, Verdict
  <2>3. \A m \in messages :
          /\ Updated(m).id = m.id /\ Updated(m).thread = m.thread
          /\ m.id = r.messageId /\ m.thread = r.threadId => Updated(m).content = r.newContent
    BY DEF IInv, TypeOK, Message, MessagesOf
  <2> HIDE DEF Updated
  <2>4. answer'.result = "ok" =>
          \A m \in messages' : m.id = r.messageId /\ m.thread = r.threadId
                                 => m.content = r.newContent
    BY <2>2, <2>3
  <2>5. QED BY <2>1, <2>4 DEF SuccessIsTrue, MessagesOf
<1>10. CASE CreateUuid
  BY <1>10 DEF CreateUuid, Reply, SuccessIsTrue
<1>11. ASSUME NEW u \in Users, Register(u)
       PROVE  SuccessIsTrue'
  BY <1>11, Quiet DEF Register
<1>12. CASE Crash
  BY <1>12, Quiet DEF Crash
<1>13. QED
  BY <1>1, <1>2, <1>3, <1>4, <1>5, <1>6, <1>7, <1>8, <1>9, <1>10, <1>11, <1>12 DEF Next

\* A success is true of the tables: what was created is there, what was deleted
\* is gone, and a new message is the only one with its number.
THEOREM SuccessIsTrueCorrect == Spec => []SuccessIsTrue
<1>1. Init => SuccessIsTrue
  BY DEF Init, NoAnswer, SuccessIsTrue
<1>2. QED BY <1>1, Sound, SuccessStep, PTL DEF Spec

LEMMA FailedStep == TypeOK /\ FailedChangedNothing /\ [Next]_vars => FailedChangedNothing'
<1> SUFFICES ASSUME TypeOK, FailedChangedNothing, [Next]_vars
             PROVE  FailedChangedNothing'
  OBVIOUS
<1>1. CASE UNCHANGED vars
  BY <1>1, Quiet DEF vars
<1>2. CASE \/ \E r \in ToCreate, o \in Reads : SearchUser(r, o)
           \/ \E o \in Reads : List(o)
           \/ CreateUuid
           \/ Crash
  BY <1>2 DEF SearchUser, List, CreateUuid, Crash, FailedChangedNothing
<1>3. ASSUME NEW o \in Writes, CreateThread(o)
      PROVE  FailedChangedNothing'
  BY <1>3 DEF CreateThread, Reply, Verdict, Touched, FailedChangedNothing
<1>4. ASSUME NEW r \in ToDelete, NEW o \in Writes, DeleteThread(r, o)
      PROVE  FailedChangedNothing'
  BY <1>4 DEF DeleteThread, Reply, Verdict, Touched, FailedChangedNothing
<1>5. ASSUME NEW r \in ToRename, NEW o \in Writes, RenameThread(r, o)
      PROVE  FailedChangedNothing'
  <2>1. CASE answer'.result = "failed" /\ answer'.outcome = "ok"
    <3>1. ThreadsOf(r.threadId) = {}
      BY <1>5, <2>1 DEF RenameThread, Reply, Verdict
    <3>2. \A t \in threads : t.id # r.threadId
      BY <3>1 DEF ThreadsOf
    <3> DEFINE Renamed(t) == [t EXCEPT !.title = IF t.id = r.threadId THEN r.newTitle ELSE @]
    <3>3. threads' = threads
      <4>1. threads' = threads \/ threads' = {Renamed(t) : t \in threads}
        BY <1>5 DEF RenameThread
      <4>2. \A t \in threads : Renamed(t) = t
        BY <3>2 DEF TypeOK, Thread
      <4> HIDE DEF Renamed
      <4>3. QED BY <4>1, <4>2
    <3>4. QED BY <1>5, <3>3 DEF RenameThread, Touched, FailedChangedNothing
  <2>2. CASE ~(answer'.result = "failed" /\ answer'.outcome = "ok")
    BY <1>5, <2>2 DEF RenameThread, Reply, Verdict, Touched, FailedChangedNothing
  <2>3. QED BY <2>1, <2>2
<1>6. ASSUME NEW r \in ToCreateMessage, NEW o \in Writes, CreateMessage(r, o)
      PROVE  FailedChangedNothing'
  BY <1>6 DEF CreateMessage, Reply, Verdict, Touched, FailedChangedNothing
<1>7. ASSUME NEW r \in ToDeleteMessage, NEW o \in Writes, DeleteMessage(r, o)
      PROVE  FailedChangedNothing'
  BY <1>7 DEF DeleteMessage, Reply, FailedChangedNothing
<1>8. ASSUME NEW r \in ToUpdateMessage, NEW o \in Writes, UpdateMessage(r, o)
      PROVE  FailedChangedNothing'
  BY <1>8 DEF UpdateMessage, Reply, Verdict, Touched, FailedChangedNothing
<1>9. ASSUME NEW u \in Users, Register(u)
      PROVE  FailedChangedNothing'
  BY <1>9, Quiet DEF Register
<1>10. QED
  BY <1>1, <1>2, <1>3, <1>4, <1>5, <1>6, <1>7, <1>8, <1>9 DEF Next

\* A request answered with a failure may be sent again: it changed nothing,
\* unless its commit was in doubt or deleteMessage lost its return value.
THEOREM FailedChangedNothingCorrect == Spec => []FailedChangedNothing
<1>1. Init => FailedChangedNothing
  BY DEF Init, FailedChangedNothing
<1>2. QED BY <1>1, TypeCorrect, FailedStep, PTL DEF Spec
-----------------------------------------------------------------------------
\* Only a rename and a deletion take rows from threads.
LEMMA ThreadsKept ==
  ASSUME IInv, [Next]_vars,
         ~ \E r \in ToDelete, o \in Writes : DeleteThread(r, o),
         ~ \E r \in ToRename, o \in Writes : RenameThread(r, o)
  PROVE  threads \subseteq threads'
BY DEF Next, vars, SearchUser, List, CreateThread, CreateMessage, DeleteMessage,
       UpdateMessage, CreateUuid, Register, Crash

LEMMA UntouchedStep ==
  ASSUME IInv, [Next]_vars, NEW t \in threads, \E q \in threads' : q.id = t.id
  PROVE  \E q \in threads' : /\ q.id = t.id
                             /\ q.owner = t.owner
                             /\ q.title = t.title \/ answer'.kind = "rename"
<1>1. ASSUME NEW r \in ToDelete, NEW o \in Writes, DeleteThread(r, o)
      PROVE  t \in threads'
  <2>1. threads' = threads \/ threads' = threads \ ThreadsOf(r.threadId)
    BY <1>1 DEF DeleteThread
  <2>2. CASE threads' = threads \ ThreadsOf(r.threadId)
    <3>1. t.id # r.threadId
      BY <2>2 DEF ThreadsOf
    <3>2. QED BY <2>2, <3>1 DEF ThreadsOf
  <2>3. QED BY <2>1, <2>2
<1>2. ASSUME NEW r \in ToRename, NEW o \in Writes, RenameThread(r, o)
      PROVE  \E q \in threads' : /\ q.id = t.id
                                 /\ q.owner = t.owner
                                 /\ answer'.kind = "rename"
  <2> DEFINE Renamed == [t EXCEPT !.title = IF t.id = r.threadId THEN r.newTitle ELSE @]
  <2>1. t \in threads' \/ Renamed \in threads'
    BY <1>2 DEF RenameThread
  <2>2. Renamed.id = t.id /\ Renamed.owner = t.owner
    BY DEF IInv, TypeOK, Thread
  <2>3. answer'.kind = "rename"
    BY <1>2 DEF RenameThread, Reply
  <2> HIDE DEF Renamed
  <2>4. QED BY <2>1, <2>2, <2>3
<1>3. QED BY <1>1, <1>2, ThreadsKept

\* A creation leaves the thread that already has its identifier alone
\* (ThreadRepository::createThread), with either schema.
THEOREM ExistingUntouchedCorrect == Spec => ExistingUntouched
<1>1. IInv /\ [Next]_vars =>
        [\A t \in threads : (\E q \in threads' : q.id = t.id) =>
           \E q \in threads' : /\ q.id = t.id
                               /\ q.owner = t.owner
                               /\ q.title = t.title \/ answer'.kind = "rename"]_vars
  BY UntouchedStep
<1>2. QED BY <1>1, Sound, PTL DEF Spec, ExistingUntouched

LEMMA MessagesStep ==
  ASSUME IInv, [Next]_vars, NEW m \in messages \ messages'
  PROVE  answer'.thread = m.thread
<1>1. CASE \/ UNCHANGED vars
           \/ \E r \in ToCreate, o \in Reads : SearchUser(r, o)
           \/ \E o \in Reads : List(o)
           \/ \E o \in Writes : CreateThread(o)
           \/ \E r \in ToRename, o \in Writes : RenameThread(r, o)
           \/ \E r \in ToCreateMessage, o \in Writes : CreateMessage(r, o)
           \/ CreateUuid
           \/ \E u \in Users : Register(u)
           \/ Crash
  BY <1>1 DEF vars, SearchUser, List, CreateThread, RenameThread, CreateMessage,
              CreateUuid, Register, Crash
<1>2. ASSUME NEW r \in ToDelete, NEW o \in Writes, DeleteThread(r, o)
      PROVE  answer'.thread = m.thread
  BY <1>2 DEF DeleteThread, Reply
<1>3. ASSUME NEW r \in ToDeleteMessage, NEW o \in Writes, DeleteMessage(r, o)
      PROVE  answer'.thread = m.thread
  BY <1>3 DEF DeleteMessage, Reply, MessagesOf
<1>4. ASSUME NEW r \in ToUpdateMessage, NEW o \in Writes, UpdateMessage(r, o)
      PROVE  answer'.thread = m.thread
  <2> DEFINE Updated == [m EXCEPT !.content = IF m \in MessagesOf(r.threadId, r.messageId)
                                              THEN r.newContent ELSE @]
  <2>1. Updated \in messages'
    BY <1>4 DEF UpdateMessage
  <2>2. m \notin MessagesOf(r.threadId, r.messageId) => Updated = m
    BY DEF IInv, TypeOK, Message
  <2>3. m \in MessagesOf(r.threadId, r.messageId)
    <3> HIDE DEF Updated
    <3>1. QED BY <2>1, <2>2
  <2>4. QED BY <1>4, <2>3 DEF UpdateMessage, Reply, MessagesOf
<1>5. QED BY <1>1, <1>2, <1>3, <1>4 DEF Next

\* A message changes or goes only by a request that names its thread
\* (updateMessage, deleteMessage, the cascade of deleteThread).
THEOREM MessagesByOwnThreadCorrect == Spec => MessagesByOwnThread
<1>1. IInv /\ [Next]_vars => [\A m \in messages \ messages' : answer'.thread = m.thread]_vars
  BY MessagesStep
<1>2. QED BY <1>1, Sound, PTL DEF Spec, MessagesByOwnThread
-----------------------------------------------------------------------------
(***************************************************************************)
(* The identity of threads and messages.                                   *)
(***************************************************************************)
\* A number names one message, also after numbers lost with their transaction.
NumbersUnique == \A m, n \in messages : m.id = n.id => m = n

\* A message in the table whose number was given before was there before, in the same
\* thread: a message that was deleted never comes back, none moves to another thread,
\* and a text changes only by an update that names the message and its thread
\* (createMessage, deleteMessage, updateMessage, with ids never initialized).
MessagesStayThemselves ==
  [][\A n \in messages' : n.id <= serial =>
       \E m \in messages :
         /\ m.id = n.id /\ m.thread = n.thread
         /\ \/ m.content = n.content
            \/ /\ answer'.kind = "updateMessage"
               /\ answer'.message = n.id /\ answer'.thread = n.thread]_vars

\* The steps that change neither table.
QuietStep ==
  \/ UNCHANGED vars
  \/ \E r \in ToCreate, o \in Reads : SearchUser(r, o)
  \/ \E o \in Reads : List(o)
  \/ CreateUuid
  \/ \E u \in Users : Register(u)
  \/ Crash

LEMMA QuietTables ==
  ASSUME QuietStep
  PROVE  UNCHANGED <<threads, messages, serial>>
BY DEF QuietStep, vars, SearchUser, List, CreateUuid, Register, Crash

\* What an update makes of a message.
LEMMA UpdatedMessages ==
  ASSUME IInv, NEW r \in ToUpdateMessage, NEW o \in Writes, UpdateMessage(r, o)
  PROVE  /\ serial' = serial
         /\ \A n \in messages' : \E m \in messages :
              /\ n.id = m.id /\ n.thread = m.thread
              /\ \/ n = m
                 \/ /\ m \in MessagesOf(r.threadId, r.messageId)
                    /\ n = [m EXCEPT !.content = r.newContent]
<1>1. messages \subseteq Message /\ serial' = serial
  BY DEF IInv, TypeOK, UpdateMessage
<1>2. CASE messages' = messages
  BY <1>1, <1>2
<1>3. CASE messages' = {[m EXCEPT !.content = IF m \in MessagesOf(r.threadId, r.messageId)
                                             THEN r.newContent ELSE @] : m \in messages}
  <2> SUFFICES ASSUME NEW m \in messages
               PROVE  LET n == [m EXCEPT !.content = IF m \in MessagesOf(r.threadId, r.messageId)
                                                    THEN r.newContent ELSE @]
                      IN /\ n.id = m.id /\ n.thread = m.thread
                         /\ \/ n = m
                            \/ /\ m \in MessagesOf(r.threadId, r.messageId)
                               /\ n = [m EXCEPT !.content = r.newContent]
    BY <1>1, <1>3
  <2>1. m = [id |-> m.id, thread |-> m.thread, content |-> m.content]
    BY <1>1 DEF Message
  <2>2. CASE m \in MessagesOf(r.threadId, r.messageId)
    BY <2>1, <2>2
  <2>3. CASE m \notin MessagesOf(r.threadId, r.messageId)
    BY <2>1, <2>3
  <2>4. QED BY <2>2, <2>3
<1>4. QED BY <1>2, <1>3 DEF UpdateMessage

LEMMA NumbersStep ==
  ASSUME IInv, NumbersUnique, [Next]_vars
  PROVE  NumbersUnique'
<1>1. ASSUME messages' \subseteq messages
      PROVE  NumbersUnique'
  BY <1>1 DEF NumbersUnique
<1>2. ASSUME NEW r \in ToCreateMessage, NEW o \in Writes, CreateMessage(r, o)
      PROVE  NumbersUnique'
  <2>1. CASE UNCHANGED messages
    BY <2>1, <1>1
  <2>2. CASE /\ serial' = serial + 1
             /\ messages' = messages \cup
                  {[id |-> serial', thread |-> r.threadId, content |-> r.content]}
    <3>1. \A m \in messages : m.id # serial'
      BY <2>2, MaxMessagesAssumption DEF IInv, TypeOK, Numbered, Message
    <3>2. QED BY <2>2, <3>1 DEF NumbersUnique
  <2>3. QED BY <1>2, <2>1, <2>2 DEF CreateMessage
<1>3. ASSUME NEW r \in ToUpdateMessage, NEW o \in Writes, UpdateMessage(r, o)
      PROVE  NumbersUnique'
  <2> SUFFICES ASSUME NEW n \in messages', NEW k \in messages', n.id = k.id
               PROVE  n = k
    BY DEF NumbersUnique
  <2>1. CASE messages' = messages
    BY <2>1 DEF NumbersUnique
  <2>2. CASE messages' = {[m EXCEPT !.content = IF m \in MessagesOf(r.threadId, r.messageId)
                                               THEN r.newContent ELSE @] : m \in messages}
    <3> DEFINE upd(m) == [m EXCEPT !.content = IF m \in MessagesOf(r.threadId, r.messageId)
                                              THEN r.newContent ELSE @]
    <3>1. PICK m \in messages : n = upd(m)
      BY <2>2
    <3>2. PICK q \in messages : k = upd(q)
      BY <2>2
    <3>3. upd(m).id = m.id /\ upd(q).id = q.id
      BY DEF IInv, TypeOK, Message
    <3> HIDE DEF upd
    <3>4. m = q
      BY <3>1, <3>2, <3>3 DEF NumbersUnique
    <3>5. QED BY <3>1, <3>2, <3>4
  <2>3. QED BY <1>3, <2>1, <2>2 DEF UpdateMessage
<1>4. CASE QuietStep \/ \E o \in Writes : \/ CreateThread(o)
                                          \/ \E r \in ToDelete : DeleteThread(r, o)
                                          \/ \E r \in ToRename : RenameThread(r, o)
                                          \/ \E r \in ToDeleteMessage : DeleteMessage(r, o)
  <2>1. messages' \subseteq messages
    BY <1>4, QuietTables DEF CreateThread, DeleteThread, RenameThread, DeleteMessage
  <2>2. QED BY <1>1, <2>1
<1>5. QED BY <1>2, <1>3, <1>4 DEF Next, QuietStep

\* No two messages share a number (messages_thread.id, MessagesRepository).
THEOREM NumbersUniqueCorrect == Spec => []NumbersUnique
<1>1. Init => NumbersUnique
  BY DEF Init, NumbersUnique
<1>2. QED BY <1>1, NumbersStep, Sound, PTL DEF Spec

LEMMA MessagesStayStep ==
  ASSUME IInv, [Next]_vars, NEW n \in messages', n.id <= serial
  PROVE  \E m \in messages :
           /\ m.id = n.id /\ m.thread = n.thread
           /\ \/ m.content = n.content
              \/ /\ answer'.kind = "updateMessage"
                 /\ answer'.message = n.id /\ answer'.thread = n.thread
<1>1. CASE n \in messages
  BY <1>1
<1>2. ASSUME NEW r \in ToUpdateMessage, NEW o \in Writes, UpdateMessage(r, o)
      PROVE  \E m \in messages :
               /\ m.id = n.id /\ m.thread = n.thread
               /\ \/ m.content = n.content
                  \/ /\ answer'.kind = "updateMessage"
                     /\ answer'.message = n.id /\ answer'.thread = n.thread
  <2>1. PICK m \in messages : /\ n.id = m.id /\ n.thread = m.thread
                              /\ n = m \/ m \in MessagesOf(r.threadId, r.messageId)
    BY <1>2, UpdatedMessages
  <2>2. /\ answer'.kind = "updateMessage" /\ answer'.message = r.messageId
        /\ answer'.thread = r.threadId
    BY <1>2 DEF UpdateMessage, Reply
  <2>3. QED BY <2>1, <2>2 DEF MessagesOf
<1>3. ASSUME NEW r \in ToCreateMessage, NEW o \in Writes, CreateMessage(r, o)
      PROVE  n \in messages
  <2>1. n \in messages \/ (n.id = serial + 1)
    BY <1>3 DEF CreateMessage
  <2>2. serial \in Nat
    BY MaxMessagesAssumption DEF IInv, TypeOK
  <2>3. QED BY <2>1, <2>2
<1>4. CASE QuietStep \/ \E o \in Writes : \/ CreateThread(o)
                                          \/ \E r \in ToDelete : DeleteThread(r, o)
                                          \/ \E r \in ToRename : RenameThread(r, o)
                                          \/ \E r \in ToDeleteMessage : DeleteMessage(r, o)
  <2>1. n \in messages
    BY <1>4, QuietTables DEF CreateThread, DeleteThread, RenameThread, DeleteMessage
  <2>2. QED BY <1>1, <2>1
<1>5. QED BY <1>1, <1>2, <1>3, <1>4 DEF Next, QuietStep

\* A message keeps its thread, its text except for updates of it, and once deleted
\* stays deleted (MessagesRepository).
THEOREM MessagesStayThemselvesHolds == Spec => MessagesStayThemselves
<1>1. IInv /\ [Next]_vars
      => [\A n \in messages' : n.id <= serial =>
            \E m \in messages :
              /\ m.id = n.id /\ m.thread = n.thread
              /\ \/ m.content = n.content
                 \/ /\ answer'.kind = "updateMessage"
                    /\ answer'.message = n.id /\ answer'.thread = n.thread]_vars
  BY MessagesStayStep
<1>2. QED BY <1>1, Sound, PTL DEF Spec, MessagesStayThemselves
=============================================================================
