---------------------------- MODULE ThreadStore ----------------------------
(***************************************************************************)
(* Threads and their messages: what RequestParser makes of a body, what    *)
(* Router does with it, and the transactions of ThreadRepository and       *)
(* MessagesRepository.                                                     *)
(*                                                                         *)
(* The parser goes by the "type" of the body and validates what that type  *)
(* needs; the router ignores its verdict and goes by the path.  Any parsed *)
(* request can therefore reach any route, with fields left empty or never  *)
(* initialized.                                                            *)
(***************************************************************************)
EXTENDS DatabaseConnection, Naturals

CONSTANTS
  Users,        \* positive user identifiers, registered or not
  NoUser,       \* an identifier that is not positive
  ThreadIds, Titles, Contents,
  Empty,        \* the empty string
  Idle,         \* stands for no creation under way
  MaxMessages,  \* bound on the messages ever inserted
  UniqueThread, \* does the schema, kept outside the repository, declare
                \* threads.id unique?
  Cascade       \* does deleting a thread delete its messages?

ASSUME EmptyAssumption == Empty \notin ThreadIds \cup Titles \cup Contents
ASSUME NoUserAssumption == NoUser \notin Users
ASSUME MaxMessagesAssumption == MaxMessages \in Nat
ASSUME SchemaAssumption == UniqueThread \in BOOLEAN /\ Cascade \in BOOLEAN

VARIABLES
  accounts,   \* the identifiers in table users
  threads,    \* table threads
  messages,   \* table messages_thread
  serial,     \* the last messages_thread.id given
  request,    \* the thread creation under way, between its transactions
  answer,     \* the last answer: what was asked and how it ended
  changed     \* history: did the request of the answer change a table?

vars == <<connected, accounts, threads, messages, serial, request, answer, changed>>

Thread == [id : ThreadIds \cup {Empty}, title : Titles \cup {Empty}, owner : Users]
Message == [id : 1..MaxMessages, thread : ThreadIds \cup {Empty}, content : Contents \cup {Empty}]

ASSUME IdleAssumption == Idle \notin Thread

Kinds == {"none", "create", "delete", "rename", "list", "uuid",
          "createMessage", "deleteMessage", "updateMessage"}
Results == {"none", "ok", "failed", "died"}
Answer == [kind : Kinds, result : Results, thread : ThreadIds \cup {Empty},
           message : 0..MaxMessages, text : Titles \cup Contents \cup {Empty},
           outcome : Writes]
NoAnswer == [kind |-> "none", result |-> "none", thread |-> Empty, message |-> 0,
             text |-> Empty, outcome |-> "ok"]

(***************************************************************************)
(* RequestParser::parseRequest: the Request objects it can return.  Only   *)
(* the strings of a type its validator lets through are set; the others    *)
(* are empty, and all are when the body is refused, of an unknown type, or *)
(* no JSON.  createdId_ and messageId_ are never initialized: where they   *)
(* are not read from the body they hold anything.                          *)
(***************************************************************************)
Fields ==
  [title : Titles \cup {Empty}, uuid : ThreadIds \cup {Empty},
   createdId : Users \cup {NoUser}, threadId : ThreadIds \cup {Empty},
   newTitle : Titles \cup {Empty}, messageId : 0..MaxMessages,
   content : Contents \cup {Empty}, newContent : Contents \cup {Empty}]

Strings == {"title", "uuid", "threadId", "newTitle", "content", "newContent"}

\* Exactly the strings in names are set.
Sets(r, names) == \A f \in Strings : r[f] # Empty <=> f \in names

\* validateCreate also wants a creator.
ParsedCreate(r) == Sets(r, {"title", "uuid"}) /\ r.createdId \in Users
ParsedThread(r) == Sets(r, {"threadId"}) \* deleteThreads, getMessages
ParsedRename(r) == Sets(r, {"threadId", "newTitle"})
ParsedCreateMessage(r) == Sets(r, {"threadId", "content"}) \* any messageId
ParsedDeleteMessage(r) == Sets(r, {"threadId"}) /\ r.messageId > 0
ParsedUpdateMessage(r) == Sets(r, {"threadId", "newContent"}) /\ r.messageId > 0
ParsedNothing(r) == Sets(r, {}) \* getThreads and the requests of accounts, too

Parsed ==
  {r \in Fields : \/ ParsedCreate(r) \/ ParsedThread(r) \/ ParsedRename(r)
                  \/ ParsedCreateMessage(r) \/ ParsedDeleteMessage(r)
                  \/ ParsedUpdateMessage(r) \/ ParsedNothing(r)}

\* What the router takes from a parsed request on each of its paths.
Taken(fields) == {[f \in fields |-> r[f]] : r \in Parsed}
ToCreate == Taken({"title", "createdId", "uuid"})
ToDelete == Taken({"threadId"})
ToRename == Taken({"threadId", "newTitle"})
ToCreateMessage == Taken({"threadId", "content"})
ToDeleteMessage == Taken({"threadId", "messageId"})
ToUpdateMessage == Taken({"threadId", "messageId", "newContent"})

(***************************************************************************)
(* Answers.                                                                *)
(***************************************************************************)
Reply(k, res, t, i, x, o) ==
  answer' = [kind |-> k, result |-> res, thread |-> t, message |-> i,
             text |-> x, outcome |-> o]

Verdict(done) == IF done THEN "ok" ELSE "failed"

Touched == threads' # threads \/ messages' # messages

Init ==
  /\ connected \in BOOLEAN
  /\ accounts = {} /\ threads = {} /\ messages = {} /\ serial = 0
  /\ request = Idle /\ answer = NoAnswer /\ changed = FALSE

\* The thread takes a request: none is under way, and the process is up.
Ready == request = Idle /\ answer.result # "died"

ThreadsOf(t) == {r \in threads : r.id = t}
MessagesOf(t, i) == {m \in messages : m.thread = t /\ m.id = i}

(***************************************************************************)
(* /thread/create: userSearch and createThread, a transaction each.        *)
(***************************************************************************)
\* Mutated form: the insert comes first.
SearchUserLate(r, o) ==
  /\ Ready
  /\ Transaction(o)
  /\ threads' = IF o = "ok" /\ r.createdId \in Users
                THEN threads \cup {[id |-> r.uuid, title |-> r.title, owner |-> r.createdId]}
                ELSE threads
  /\ Reply("create", Verdict(o = "ok" /\ r.createdId \in accounts), r.uuid, 0, r.title, o)
  /\ UNCHANGED <<accounts, messages, serial, request>>
  /\ changed' = Touched

\* Mutated form: a search that finds nothing is a success.
SearchUserUnchecked(r, o) ==
  /\ Ready
  /\ Transaction(o)
  /\ \/ /\ o = "ok"
        /\ request' = [id |-> r.uuid, title |-> r.title, owner |-> r.createdId]
        /\ answer' = NoAnswer
     \/ /\ o # "ok"
        /\ Reply("create", "failed", r.uuid, 0, r.title, o)
        /\ UNCHANGED request
  /\ changed' = FALSE
  /\ UNCHANGED <<accounts, threads, messages, serial>>

SearchUser(r, o) ==
  /\ Ready
  /\ Transaction(o)
  /\ \/ /\ o = "ok" /\ r.createdId \in accounts
        /\ request' = [id |-> r.uuid, title |-> r.title, owner |-> r.createdId]
        /\ answer' = NoAnswer
     \/ /\ ~(o = "ok" /\ r.createdId \in accounts)
        /\ Reply("create", "failed", r.uuid, 0, r.title, o)
        /\ UNCHANGED request
  /\ changed' = FALSE
  /\ UNCHANGED <<accounts, threads, messages, serial>>

\* Mutated form: the commit is missing.
CreateThreadUncommitted(o) ==
  /\ request # Idle
  /\ Transaction(o)
  /\ Reply("create", Verdict(o = "ok"), request.id, 0, request.title, o)
  /\ request' = Idle
  /\ changed' = FALSE
  /\ UNCHANGED <<accounts, threads, messages, serial>>

\* Mutated form: an insert that replaces the row of the identifier.
CreateThreadReplacing(o) ==
  /\ request # Idle
  /\ Transaction(o)
  /\ threads' = IF o = "failed" THEN threads
                ELSE (threads \ ThreadsOf(request.id)) \cup {request}
  /\ Reply("create", Verdict(o = "ok"), request.id, 0, request.title, o)
  /\ request' = Idle
  /\ UNCHANGED <<accounts, messages, serial>>
  /\ changed' = Touched

CreateThread(o) ==
  /\ request # Idle
  /\ Transaction(o)
  /\ \/ o = "failed" /\ UNCHANGED threads
     \/ /\ o # "failed"
        /\ UniqueThread => ThreadsOf(request.id) = {}
        /\ threads' = threads \cup {request}
  /\ Reply("create", Verdict(o = "ok"), request.id, 0, request.title, o)
  /\ request' = Idle
  /\ UNCHANGED <<accounts, messages, serial>>
  /\ changed' = Touched

(***************************************************************************)
(* The requests of one transaction.  The two that look first answer        *)
(* "failed" when there is no such row.                                     *)
(***************************************************************************)
\* /thread/delete
DeleteThread(r, o) ==
  /\ Ready
  /\ Transaction(o)
  /\ LET found == ThreadsOf(r.threadId) # {}
         gone == o # "failed" /\ found
     IN /\ o = "inDoubt" => found
        /\ threads' = IF gone THEN threads \ ThreadsOf(r.threadId) ELSE threads
        /\ messages' = IF gone /\ Cascade
                       THEN {m \in messages : m.thread # r.threadId} ELSE messages
        /\ Reply("delete", Verdict(o = "ok" /\ found), r.threadId, 0, Empty, o)
  /\ UNCHANGED <<accounts, serial, request>>
  /\ changed' = Touched

\* /thread/rename
RenameThread(r, o) ==
  /\ Ready
  /\ Transaction(o)
  /\ LET found == ThreadsOf(r.threadId) # {}
     IN /\ o = "inDoubt" => found
        /\ threads' = IF o = "failed" THEN threads
                      ELSE {[t EXCEPT !.title = IF t.id = r.threadId THEN r.newTitle ELSE @] :
                              t \in threads}
        /\ Reply("rename", Verdict(o = "ok" /\ found), r.threadId, 0, r.newTitle, o)
  /\ UNCHANGED <<accounts, messages, serial, request>>
  /\ changed' = Touched

\* /thread/message/create: neither the thread nor the user is looked up
\* (the user, whom no request reads again, is left out).
CreateMessage(r, o) ==
  /\ Ready
  /\ serial < MaxMessages
  /\ Transaction(o)
  /\ \/ /\ o = "failed"
        /\ serial' \in {serial, serial + 1} \* a number may be lost
        /\ UNCHANGED messages
     \/ /\ o # "failed"
        /\ serial' = serial + 1
        /\ messages' = messages \cup
             {[id |-> serial', thread |-> r.threadId, content |-> r.content]}
  /\ Reply("createMessage", Verdict(o = "ok"), r.threadId, serial', r.content, o)
  /\ UNCHANGED <<accounts, threads, request>>
  /\ changed' = Touched

\* /thread/message/delete.  After the commit deleteMessage runs off its end
\* without a return: any result, or the end of the process.
DeleteMessage(r, o) ==
  /\ Ready
  /\ Transaction(o)
  /\ LET doomed == MessagesOf(r.threadId, r.messageId)
     IN /\ o = "inDoubt" => doomed # {}
        /\ messages' = IF o = "failed" THEN messages ELSE messages \ doomed
        /\ \E res \in IF o = "ok" /\ doomed # {} THEN {"ok", "failed", "died"} ELSE {"failed"} :
             Reply("deleteMessage", res, r.threadId, r.messageId, Empty, o)
  /\ UNCHANGED <<accounts, threads, serial, request>>
  /\ changed' = Touched

\* Mutated form: the update without its condition on the thread.
UpdateMessageAnywhere(r, o) ==
  /\ Ready
  /\ Transaction(o)
  /\ messages' = IF o = "failed" THEN messages
                 ELSE {[m EXCEPT !.content = IF m.id = r.messageId THEN r.newContent ELSE @] :
                         m \in messages}
  /\ Reply("updateMessage", Verdict(o = "ok"), r.threadId, r.messageId, r.newContent, o)
  /\ UNCHANGED <<accounts, threads, serial, request>>
  /\ changed' = Touched

\* /thread/message/update: a success also when there is no such message.
UpdateMessage(r, o) ==
  /\ Ready
  /\ Transaction(o)
  /\ messages' = IF o = "failed" THEN messages
                 ELSE {[m EXCEPT !.content = IF m \in MessagesOf(r.threadId, r.messageId)
                                             THEN r.newContent ELSE @] : m \in messages}
  /\ Reply("updateMessage", Verdict(o = "ok"), r.threadId, r.messageId, r.newContent, o)
  /\ UNCHANGED <<accounts, threads, serial, request>>
  /\ changed' = Touched

\* /thread/getThreads and /thread/getMessages: a failure is an empty list.
List(o) ==
  /\ Ready
  /\ Transaction(o)
  /\ Reply("list", "ok", Empty, 0, Empty, o)
  /\ changed' = FALSE
  /\ UNCHANGED <<accounts, threads, messages, serial, request>>

\* /thread/createUuid calls through uuidControler_, which nobody ever set: the
\* process ends, or the optimizer left nothing of the null pointer to read.
CreateUuid ==
  /\ Ready
  /\ \E res \in {"ok", "died"} : Reply("uuid", res, Empty, 0, Empty, "ok")
  /\ changed' = FALSE
  /\ UNCHANGED <<connected, accounts, threads, messages, serial, request>>

(***************************************************************************)
(* The environment.                                                        *)
(***************************************************************************)
\* AuthService's SaveUser, between two requests of this module.
Register(u) ==
  /\ Ready
  /\ accounts' = accounts \cup {u}
  /\ UNCHANGED <<connected, threads, messages, serial, request, answer, changed>>

Crash ==
  /\ Connect
  /\ request' = Idle /\ answer' = NoAnswer /\ changed' = FALSE
  /\ UNCHANGED <<accounts, threads, messages, serial>>

Next ==
  \/ \E r \in ToCreate, o \in Reads : SearchUser(r, o)
  \/ \E o \in Reads : List(o)
  \/ \E o \in Writes :
       \/ CreateThread(o)
       \/ \E r \in ToDelete : DeleteThread(r, o)
       \/ \E r \in ToRename : RenameThread(r, o)
       \/ \E r \in ToCreateMessage : CreateMessage(r, o)
       \/ \E r \in ToDeleteMessage : DeleteMessage(r, o)
       \/ \E r \in ToUpdateMessage : UpdateMessage(r, o)
  \/ CreateUuid
  \/ \E u \in Users : Register(u)
  \/ Crash

Spec == Init /\ [][Next]_vars
-----------------------------------------------------------------------------
TypeOK ==
  /\ connected \in BOOLEAN
  /\ accounts \subseteq Users
  /\ threads \subseteq Thread
  /\ messages \subseteq Message
  /\ serial \in 0..MaxMessages
  /\ request \in Thread \cup {Idle}
  /\ answer \in Answer
  /\ changed \in BOOLEAN

\* A thread's owner is an account, although the owner is looked up in one
\* transaction and used in the next, and its identifier may never have been
\* initialized (ThreadController::createThread).
OwnersExist == \A t \in threads : t.owner \in accounts

\* An answer of success is true of the tables when it is given: of the thread
\* created, deleted or renamed, of the message created or deleted, and of every
\* message an update names.
SuccessIsTrue ==
  answer.result = "ok" =>
    LET rows == ThreadsOf(answer.thread)
        texts == {m.content : m \in MessagesOf(answer.thread, answer.message)}
    IN /\ answer.kind = "create" => \E t \in rows : t.title = answer.text
       /\ answer.kind = "delete" => rows = {}
       /\ answer.kind = "rename" => {t.title : t \in rows} = {answer.text}
       /\ answer.kind = "createMessage" => texts = {answer.text}
       /\ answer.kind = "deleteMessage" => texts = {}
       /\ answer.kind = "updateMessage" => texts \subseteq {answer.text}

\* An answer of failure changed nothing, so it is safe to try again, unless a
\* commit was in doubt or deleteMessage ran off its end.
FailedChangedNothing ==
  /\ answer.result = "failed"
  /\ answer.outcome # "inDoubt"
  /\ answer.kind # "deleteMessage"
  => ~changed

\* A creation tried again, or tried with an identifier in use, leaves the thread
\* that has it alone: while a thread stays, its owner stays, and its title
\* changes only by a rename.
ExistingUntouched ==
  [][\A t \in threads : (\E q \in threads' : q.id = t.id) =>
       \E q \in threads' : /\ q.id = t.id
                           /\ q.owner = t.owner
                           /\ q.title = t.title \/ answer'.kind = "rename"]_vars

\* A message changes or goes only by a request that names its thread, also when
\* its number comes from a field that was never initialized.
MessagesByOwnThread ==
  [][\A m \in messages \ messages' : answer'.thread = m.thread]_vars

\* "Thread ID and new title must not be empty" (validateUpdateRename): no rename
\* to the empty title succeeds.
RenamedNotEmpty ==
  answer.kind = "rename" /\ answer.result = "ok" => answer.text # Empty

\* deleteMessage looks whether the message exists and returns false if it does
\* not: a message that was deleted is not answered as a failure.
DeletedIsAnswered ==
  ~(answer.kind = "deleteMessage" /\ answer.outcome = "ok" /\ changed
    /\ answer.result # "ok")

\* The requests of struct.txt are requests the server answers.
UuidAnswered == answer.kind = "uuid" => answer.result = "ok"
=============================================================================
