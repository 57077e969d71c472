# Verification of the chat server

TLA+ models of the server in `src/`, checked with TLC on small instances and,
where it matters most, proved with TLAPS for every value of the constants.

## 1. The system

A C++ server for a desktop messenger: accounts, threads (tabs) and their
messages over HTTP and PostgreSQL, and live chat over WebSocket.

| Part | State | Operations | Talks to |
|---|---|---|---|
| HTTP server (`HttpServer.cpp`, `Session.cpp`) | one `Session` per connection: request, response, buffer | accept, read, handle, write, read again | `Router` (synchronous call) |
| Router and parser (`Router.cpp`, `RequestParser.cpp`, `Request.h`) | one `Request` object per request | dispatch on the path, parse on the `type` field, validate | controllers, `AuthService` |
| Authentication (`AuthService.cpp`, the handlers, `UserRepository.cpp`) | tables `users`, `sessions1` | register, login, refresh (rotate) | the database, in one or more transactions per request |
| Threads and messages (`ThreadController.cpp`, `threadsRepository.cpp`, `MessageThreadController.cpp`, `messagesRepository.cpp`, the validators) | tables `threads`, `messages_thread` | create, rename, delete, list; create, update, delete, list | the database |
| Database connection (`Connection.cpp`) | one `pqxx::connection` | connect once, use | PostgreSQL |
| WebSocket hub (`SharedState.cpp`) | `sessions_`, `userToSessions_` | join, leave, bindUser, broadcast, sendMessageToUser, cleanupDeadSession, presence | weak pointers to the sessions |
| WebSocket sessions (`WebSocketSession.cpp`, `Listener.cpp`) | user, write queue, `writeInProgress_` | handshake, authenticate, read a frame, write, fail | the hub and, through it, each other |
| Token hashing (`Hash.cpp`, `sha256.c`) | the buffer of a hash under way | update, finalize, init | `AuthService` |
| Start and stop (`main.cpp`, `docker-compose.yml`) | none | connect, run, die, be restarted | all |

One thread runs one `io_context`.  A completion handler therefore runs without
interleaving, and HTTP requests are handled strictly one after the other; but a
request is several database transactions, between which the process can die, a
transaction can fail, or its commit can be in doubt.  On the WebSocket side
every frame, write completion, error and handshake is a handler of its own, and
handlers of all sessions interleave freely over the hub and the queues.

### What is hard

* *Several transactions per request.*  Rotation revokes the old token in one
  transaction and stores the new one in a second; registration looks a login up
  in one and inserts it in another.  Failures, doubt and crashes fall between.
* *Answers and commits.*  A response can be lost, a client retries with what it
  holds, and what a client holds must be backed by a committed row.
* *One connection for good.*  It is opened at start-up, the result is ignored,
  and it is never reopened.
* *Late news of a death.*  A session ends when its last handler does; the hub,
  which holds weak pointers, learns of it at some later join, broadcast or
  lookup, when the user may be back under another session.  `leave` tests the
  user identifier the wrong way round and leaves the index entry behind.
* *One write at a time.*  Every session's handlers push to every other
  session's queue; at most one `async_write` may be outstanding, and the queue
  must never stop while the link is up.  A write has no timeout, and a peer that
  sends without reading holds its own for ever.
* *A login in the text of a statement.*  `findUserByField` (`UserRepository.cpp:19`)
  concatenates the login unescaped, so its SQL is open to what a client types;
  `saveUser` binds it.  A login with a quote is stored as it is and looked up as
  something else.
* *Parsing and dispatch disagree.*  The router ignores the parser's verdict, and
  dispatches on the path what was parsed by type.

* *A buffer emptied after each response.*  Whatever was read beyond the request
  goes with it, and the next request of a client may arrive before the completion
  handler runs.  Whether a connection is kept depends on the version alone.
* *Two servers, two keys, one token.*  The access token of a login is checked
  once, in the handshake, against a key of the hub's own, and lives two minutes
  where the answer and a comment say fifteen.
* *A buffer finalized in place.*  The last chunk keeps old bytes, and the length
  does or does not fit behind the mark.

### What makes each part correct

* Authentication: a refresh token is exchanged at most once, for a token of the
  same account; an exchanged token is revoked; no answer without its commit; a
  token is lost only by an exchange that was cut short; a login whose lookup asks
  for it and succeeds gets one account; every request ends after at most two
  transactions more than its lookup.
* Hub and sessions: the two tables agree; the last session a user bound is the
  one private messages reach; one write at a time; nothing stranded; everybody
  in service at a broadcast gets it, all in the same order; what is queued for a
  peer that reads is written, and broken sessions are released.
* Threads and messages: what a success answer says is so in the tables, a failure
  changed nothing; threads belong to accounts and keep their owner; no request
  reaches the messages of a thread it does not name.
* HTTP connections: each request handled at most once, one answer per request and
  in order, and no part of a request but from a client that sent ahead; a client that waits for its responses loses nothing,
  whatever arrives when; every session ends that should, and no other.
* Login and handshake: who is listed under a user, and who sends or gets a private
  message, came with a live token of that user's own login.
* Hashing: a digest depends on the message, not on its pieces or on what the
  buffer held before.

## 2. Modules

| Module | What it is |
|---|---|
| `DatabaseConnection` | the connection all repositories share, and the outcomes of a transaction |
| `RefreshChain` | abstract specification: live and spent refresh tokens, an exchange is one atomic step |
| `AuthService` | the three authentication requests, transaction by transaction |
| `MCAuthService` | TLC instance (which logins hold a quote, symmetry) |
| `AuthServiceProofs` | inductive invariant, safety and action properties, progress measure |
| `AuthServiceRefinement` | `Spec => ImplementsChain`: `AuthService` implements `RefreshChain` |
| `SharedState` | the hub's methods as operators on its tables |
| `WebSocketSession` | the sessions over the hub, handler by handler |
| `MCWebSocketSession` | TLC instance (symmetry) |
| `WebSocketSessionProofs` | what the hub's methods preserve, inductive invariant, safety and action properties, progress measure |
| `ChatDelivery` | abstract specification: a chat of members and inboxes |
| `WebSocketDelivery` | the refinement mapping from `WebSocketSession` |
| `WebSocketDeliveryProofs` | `Spec => ImplementsDelivery`, order and audience of messages |
| `LoginHandshake` | logins, refreshes and the clock composed with `WebSocketSession` |
| `MCLoginHandshake` | TLC instance (symmetry) |
| `LoginHandshakeProofs` | it implements `WebSocketSession`; inductive invariant on tokens, safety and action properties |
| `HttpSession` | acceptor, HTTP sessions and their clients |
| `HttpSessionProofs` | inductive invariant, safety theorems, progress measure |
| `Sha256Buffer` | buffering and padding of the hash |
| `Sha256BufferProofs` | both properties, for any size of chunks, length field and message |
| `ThreadStore` | parser, routes and transactions of threads and messages |
| `MCThreadStore` | TLC instance (symmetry) |
| `ThreadStoreProofs` | inductive invariant, safety and action properties |

`AuthService` and `ThreadStore` extend `DatabaseConnection`; `WebSocketSession`
extends `SharedState`, `LoginHandshake` extends `WebSocketSession`;
`AuthServiceRefinement` instantiates `RefreshChain`, `WebSocketDelivery`
instantiates `ChatDelivery`.

### AuthService

`users`, `sessions` and `revoked` are the tables; `expired` holds the tokens whose
`expires_at` has passed; `connected` is `Connections::isConnected()`; `request`
is the request the thread works on and the next transaction it will run;
`inFlight` and `held` are the answers under way and received.  A password hash
is kept as the password it verifies, a token column as a tagged token, so that
the hash of a token and its raw text differ.  An access token stands for its
subject, the only thing a refresh reads from it (its signature and lifetime are
not looked at by `extractUserIdFromToken`).  `blind` and `severed` are history:
which logins were registered without being seen, which tokens lost their
exchange half way.

A lookup selects by the text of a statement the login is pasted into
(`UserRepository.cpp:19`), while the insert binds the login (lines 70-73).  `Selects`
says which logins the lookup of each asks for: itself, unless a quote makes it
another, none (also when the text is no statement any more), or several.  The
proofs take any `Selects`.  Only which rows a lookup selects is modelled: a text that
makes the statement do more than select is not, and neither is what a client can
reach that way.  `Fresh` takes a token no row holds.  That is an idealisation:
`generate()` seeds its generator with 32 bits (`CreateSessionHandler.cpp:58`), so
there are at most 2^32 tokens and an earlier one can come again.

| Action | Code |
|---|---|
| `Register`, `SaveUser` | `registerUser`: lookup, then `createUser`/`saveUser` |
| `Login`, `SaveSession` | `login`: lookup and password, then `CreateSessionHandler`/`saveSession` |
| `Refresh`, `Revoke`, `InsertChild` | `validateToken`: lookup and comparison, then the two transactions of `rotateRefreshToken` |
| `Deliver`, `Lose` | the completion of `Session::doWrite` |
| `Expire` | time passing `expires_at` |
| `Crash` | an exception out of `io_context::run()`, a kill; `docker-compose` restarts |

`Transaction(o)` is the outcome of a transaction: `ok`; `failed` (also when
there is no connection); `inDoubt`, where the commit took effect and the
acknowledgement was lost with the connection, which the repository reports as a
failure.  The schema is not in the repository: whether `users.login` is unique
is the constant `UniqueLogin`.

### SharedState and WebSocketSession

`hub` is the pair of tables; `Alive` are the sessions a pending operation keeps
alive, the others are what `weak_ptr::expired` reports.  `phase` follows the
handshake; `reading`, `writing` count outstanding operations; `inProgress` and
`queue` are the session's fields.  `written`, `frames`, `latest` and `audience`
are history: what the peer was sent, which session each user bound last, and for
whom each frame's message was when it was sent.  Broadcasts of chat and typing
are one action (`Chat`), errors of all kinds one (`Refuse`).  `link` is the
peer: once it breaks, reads and writes can fail, and frames already received can
still be read.  `Crash` ends every session and clears the hub.

`main.cpp` has the listener commented out; the model is of the code as it would
run with those lines.  `doClose` and `onClose` have no caller and are left out, so
`closeSent_` is never set.  `sendMessageToSession`, `isOnline` and
`getOnlineUsers` have none either; they are operators on the tables
(`SessionTarget`, `AfterSessionLookup`, `IsOnline`, `OnlineUsers`) that
`ServedAreReachable` and `PresenceIsTrue` ask in every state.  The last says when
`isOnline` and the list of users online disagree: only about a user whose last
session broke (`leave` keeps its index entry).  `Attentive` are the sessions whose
peer reads what it is sent; the others may leave a write outstanding for ever.

`ChatDelivery` knows neither handshakes nor hub nor queues.  Under the mapping of
`WebSocketDelivery` a session in service is a member, `latest` is who claimed a
user, an inbox is what was written followed by what is queued, and every handler
is one step of the chat or none.

### LoginHandshake

The WebSocket server as it is, with three things beside it: the tokens that were
answered (`issued`), the clock, and the key the hub verifies with.  `Login` and
`Refresh` are the answers of `AuthService` that carry an access token, a refresh
also for one that expired, as `extractUserIdFromToken` only decodes.  `Admit` is
`authenticate()` and the acceptance it leads to; everything else is a step of
`WebSocketSession` (`Elsewhere`).  `hubKey` is chosen at the start from `HubKeys`:
the code's, which is not the issuer's, or the issuer's, as it would have to be for
the two servers to work together (`SharedState.h:48` calls it temporary).  `via`,
`at` and `loggedIn` are history.

### HttpSession

A connection is a stream of requests, each in two halves because TCP may deliver
part of one; `read` and `start` are positions in it, so that `buffer_` is what
lies between them and emptying it is `start' = read`.  `version` is what a request
says of itself, or that it is malformed.  Emptying the buffer may leave the second
half of a request to be read: what a client wrote there may be refused, parse as a
request (Beast accepts unknown methods and the router looks at none), or be the
beginning of one; `Misread` has these, and gives the router `Part`.  `handled` and `early` (has the client
sent ahead of a response?) are history; `received` is what the client has, which
may be ahead of the completion handler.

| Action | Code |
|---|---|
| `Construct`, `RunServer` | `HttpServer`'s constructor, `run` |
| `Accept`, `AcceptFails` | `doAccept`, with a connection and with an error, of a client that left or of the system (no descriptor) |
| `Fill`, `OnRead`, `ReadFails` | `doRead`: bytes arriving, the two branches of its handler; `OnRead` includes `handleRequest` |
| `Misread` | the same handler, on a buffer that begins inside a request |
| `Transmit`, `OnWrite`, `WriteFails` | `doWrite`: the response on the wire, and the branches of its handler |
| `Connect`, `SendFirst`, `SendSecond`, `Receive`, `Leave` | the clients |
| `Crash` | the end and restart of the process |

What the router does with a request is `AuthService`'s and `ThreadStore`'s.

### Sha256Buffer

A byte of a message is its position, `h` is the list of chunks given to the
compression function, of which the digest is a function, and `Garbage` is what
`sha256_init` leaves uninitialized.  `Update` and `Finish` are `sha256_update` and
`SHA256::hash`; `FinalChunks` is what `sha256_finalize` compresses.  `NothingLost`
says chunk by chunk and byte by byte where the message is; `Padded` is FIPS 180-4's
padding given by positions alone, without a buffer or a case for the extra chunk,
and `PaddedAsStandard` compares the code with it in every state.

### ThreadStore

`threads` and `messages` are the tables, `accounts` the identifiers in `users`,
`serial` the number the database gave the last message.  `request` is a thread
creation between its two transactions; every other request is one.  `answer` is
what the last request asked and how it ended, `changed` whether it changed a
table.  `Parsed` is the set of `Request` objects the parser can return: a
string is set only where its type reads it and its validator agrees, an
integer that is not read is anything.  Each route takes the fields it reads
(`ToCreate`, `ToRename`, ...) from any of them, because the router goes by the
path and only logs the parser's verdict.

| Action | Code |
|---|---|
| `SearchUser`, `CreateThread` | `ThreadController::createThread`: `userSearch`, then the insert |
| `DeleteThread`, `RenameThread` | `ThreadRepository::deleteThread`, `updateThread` |
| `CreateMessage`, `UpdateMessage`, `DeleteMessage` | the methods of `MessagesRepository` |
| `List` | `getTabByUserID`, `getbMessageByThreadId`: a failure is an empty list |
| `CreateUuid` | the route that calls through a null pointer |
| `Register`, `Crash` | `AuthService`'s insert; the end and restart of the process |

Undefined behaviour is a choice: `DeleteMessage` answers anything or ends the
process, `CreateUuid` answers or ends it.  The schema is not in the repository:
`UniqueThread` says whether `threads.id` is unique, `Cascade` whether a thread's
messages go with it; a foreign key is covered by a transaction that fails.

The mutated forms in the modules of the code are definitions with one slip each (a dropped check, a missing reset); every
property is shown to fail under one of them, so none holds by accident.

## 3. Runs

| Run | Instance | Shows |
|---|---|---|
| `AuthTokens` | 3 logins, one with a quote, 2 accounts, 3 tokens, no unique index | token chains are sound (`ExchangedOnce`, `ParentRevoked`, `RevokedIsExchanged`), answers are backed (`AnsweredIsStored`), every token goes back to a login of its user (`ChainsStartAtLogins`), a second account needs a lookup that failed or asked for something else (`DuplicateOnlyIfUnseen`), no request retries (`RequestsEnd`), and the transactions implement `RefreshChain` |
| `AuthParentHash` | 1 account, 2 tokens | *violated*: the parent column gets a raw token |
| `HubSafety` | 3 sessions, 2 users, 2 frames | the safety properties of hub, presence and queues |
| `HubLiveness` | 2 sessions, 2 users, 2 frames, fair completions, one peer that need not read | `QueuedAreWritten`, `BrokenAreReleased`; the sessions implement `ChatDelivery` |
| `ThreadStore` | 2 users, 2 threads, 1 title, 2 messages, unique `threads.id`, cascade | answers agree with the tables (`SuccessIsTrue`, `FailedChangedNothing`), threads have owners (`OwnersExist`) and keep them (`ExistingUntouched`), no request reaches another thread's messages (`MessagesByOwnThread`) |
| `ThreadTitles` | 1 user, 1 thread, 1 message | *violated*: a rename to the empty title succeeds |
| `MessageDeleteAnswer` | the same | *violated*: a deleted message is answered as a failure |
| `UuidAnswered` | the same | *violated*: the documented request ends the process |
| `HttpSession` | 2 connections, one with 3 requests, fair completions | matching (`AnswersMatch`), parts of requests only from clients that sent ahead (`HandledAreWhole`), the emptied buffer (`NothingDropped`), hanging up (`HangsUpForAReason`); requests are answered, sessions end, connections are accepted |
| `Handshake` | 2 sessions, 2 users, 2 tokens of 2 minutes, 4 minutes, either key | `ListedIsVouched`, `PrivateOfTheLoggedIn` |
| `TokenLifetime` | 1 login | *violated*: the token is dead after 3 minutes, not 15 |
| `Sha256Buffer` | chunks of 8, a length of 2, messages up to 33 | `NothingLost`, `PaddedAsStandard` |

*Bounds.*  Three tokens allow a chain of three, or of two beside another; a chain
that goes wrong (a retry, a mixed grant, a second use) needs three.  Without the
unique index the behaviours are those with it and more.  The third login holds a
quote (`Quoted`), and its lookup selects nothing; the others are looked up as
themselves, so that both users can hold tokens and mix them.
When all tokens are
used no request that needs one begins (`HasFresh`).  Three sessions of two users
cover a take-over with a bystander and a second user; two frames give two
messages in one queue and broadcasts in two orders (`MaxFrames` bounds the
frames of all clients).  Session identifiers are not reused, as UUIDs are not.
Two users, two threads and the empty identifier let a second creation of an
identifier come from another user, and a request name another thread than a
message's; one title differs from the empty one; two messages are an existing
one and a new one (`MaxMessages` bounds the messages ever numbered).
Three requests (`MaxRequests`) let one be dropped behind a first and before a
last; connections share only the acceptor, so the second (`Silent`) sends
nothing and comes and goes.  Two tokens (`MaxTokens`) of two minutes in four
(`MaxTime`) are a live one beside an expired one, of one user or of two.  Four
chunks of eight (`Block`, `Field`, `MaxSize`) are a chunk from the buffer, one from
the data, and padding of one or two, and a length in bits that takes both bytes.
Symmetry is used in runs for safety only.

*Fairness.*  `AuthService` assumes none.  `RequestsEnd` says that no outcome makes a
request retry; that it then ends takes a call of libpq that returns, and nothing in
the code bounds one that waits for a silent database.  `WebSocketSession`
assumes that a read or a write on a broken link fails: `io_context::run()` delivers
that, and Beast's suggested timeouts end operations on a peer that fell silent.
A write completes only for a peer that reads (`Attentive`): the code sets no timeout
on a write, and the idle timeout starts again with whatever the peer sends.
`QueuedAreWritten` speaks of one message and not of an empty queue, so that it does
not rest on `MaxFrames` ending the traffic.  `HttpSession` assumes that `main` runs
the server it constructed, that completions of accepts, reads and writes are
delivered, that the kernel takes what is written, and that an error of the system
that makes accepts fail passes: an accept that fails while its client waits is
followed by the next and leaves the state as it was, and `WF` of `Accept` or
`AcceptFails` says that it is not the only thing to happen for ever.  It assumes
nothing of `Misread`: a parser that began inside a request may wait for ever.  No
client is assumed to do anything.

*Deadlock* is checked in every run: `Crash` (`Finish` in `Sha256Buffer`) keeps all models going, so it shows
nothing, and the liveness properties are stated instead.

## 4. Proofs

Assumptions: `Null` and the sentinels differ from the values they stand beside
(`NullAssumption`, `SentinelAssumption`), `UniqueLogin` is Boolean, `MaxFrames`
and `MaxMessages` are natural numbers, `Empty`, `NoUser`, `NoToken` and `Idle` are no
values of the sets they stand beside, `Lifetime` and `MaxRequests` are natural
numbers, `Selects` maps logins to sets of logins (`SelectsAssumption`), `Attentive`
are sessions (`AttentiveAssumption`), and a length field is smaller than a chunk (`SizesAssumption`).  The sets may
be infinite.

* `AuthServiceProofs`.  `ExchangedOnce` is not inductive: that `InsertChild` makes
  the only child of its parent rests on what the request established two steps
  before.  `IInv` adds `TokensUnique`, `SessionsHaveUsers` and `RequestInv`: a request
  about to revoke has a live row of its user; one about to insert has a revoked row
  without a child.  From `Spec => []IInv` follow `ExchangedOnce`, `ParentRevoked` and
  `AnsweredIsStored`; `RevokedIsExchanged` and `DuplicateOnlyIfUnseen` have invariants
  of their own on top of it, the latter for any `Selects`.  `ChainsStartAtLogins` says without recursion that every
  row descends from a login of its user (a set with the logins' rows, closed under
  exchanges, is the table), so that it also excludes circles; a new row is a login's
  or the child of a row `RequestInv` speaks of (`ChainsInsert`).  `NoReplay`: a spent
  token stays spent and its successors never change, in any step.
* `AuthServiceRefinement`.  Under the map `live` (rows not revoked, or revoked by
  the exchange under way) and `spent`, `SaveSession` is `Open`, `InsertChild` is
  `Exchange`, a cut-short exchange is `Kill`, and everything else stutters.
* `WebSocketSessionProofs`.  `IInv` is `TypeOK`, `LifeInv` (an open session with
  its link up reads; only open sessions queue), `WriteInv` (a queue is nonempty
  exactly when `writeInProgress_` is set, and then a write is outstanding unless
  the link broke) and `HubInv` (`Hooked`: how the tables relate to the sessions that
  are open, those whose link is up and the last session of each user).  The lemmas
  it starts with say what each hub method preserves of `Agree` and `Hooked`.  It gives
  `BoundMatchesIndex`, `IndexDanglesOnlyIfBroken`, `OneWriteAtATime`,
  `NothingStranded`, `ServedAreReachable`, `OnlyLatestHasUser` and `PresenceIsTrue`,
  and, with `LatestIsUser` (who bound a user last authenticated as that user), the
  action property `PrivateStaysPrivate`: `handlePrivateMessage` reaches nobody but the
  last session of the recipient.
* `WebSocketDeliveryProofs`.  `StepRefines`: under `IInv` every handler is a step of
  the chat.  `DInv` says of the inboxes what `ChatDelivery` promises (`Ordered`,
  `Reached`, and `Numbered`: no message is of a frame to come, without which the
  next one could not be appended in order); every step of the chat keeps it.
  From both follow `ImplementsDelivery`, `InOrder` and `AudienceReached`.
* `LoginHandshakeProofs`.  `DayServes`: the composition does nothing to the WebSocket
  server that `Spec` does not, so `IInv` holds.  On top of it `TokensInv` says that
  a session past the handshake has the user of a token that vouches for it, and
  that who bound a user last is of that user; with `OnlyLatestHasUser` it gives
  `ListedIsVouched`, for any keys and lifetime.  As
  `DaySpec => Spec` (`DayImplementsServer`), what is proved of the WebSocket server
  holds of the two together; `PrivateStaysPrivate` becomes `PrivateOfTheLoggedIn`:
  both ends of a private message came with a token of their own login.
* `HttpSessionProofs`.  `IInv` has four parts per connection: where the session
  stands (`LifeInv`), that what was handled has left the buffer and was answered
  in turn (`HandledInv`), that a client that waits is at most one request ahead,
  so that the buffer is empty behind the one handled (`WaitingInv`, without which
  `NothingDropped` is not inductive), and why a session ended (`EndInv`).  That a
  part of a request is handled only for a client that sent ahead is not in the
  guard of `Misread`: it follows from `WaitingInv` (`CutIsEarly`), by which the
  buffer of a client that waits always begins at a request.
* `ThreadStoreProofs`.  `IInv` is `TypeOK`, `OwnersExist`, `OwnerSought` (the
  creation under way has an account, without which the insert would not keep
  `OwnersExist`) and `Numbered` (no message is ahead of `serial`, without which
  the text answered for a new message would not be the only one of its number).
  It gives `OwnersExist` and, step by step, `SuccessIsTrue`,
  `FailedChangedNothing`, `ExistingUntouched` and `MessagesByOwnThread`, for
  either schema.  `NumbersUnique` (a number names one message) gives
  `MessagesStayThemselves`: a deleted message never comes back, none changes its
  thread, and a text changes only by an update that names both.
* `Sha256BufferProofs`.  For any `Block`, `Field < Block` and `MaxSize`.  `TypeOK` and
  `NothingLost` are inductive together; that `Update` keeps them is that consecutive
  pieces of a message join to a piece and what is cut out of one is one
  (`PiecesJoin`, `PieceOfPiece`).  `FewestChunks` shows that `Chunks(n)` is the least
  number of chunks that hold message, mark and length; whether `sha256_finalize`
  takes one chunk or two then follows (`ChunksOfBuffer`), and with it
  `PaddedAsStandard`.

*Progress measures.*  `RequestsEnd` (`AuthService`), `CompletionsEnd`
(`WebSocketSessionProofs`) and `ServingEnds` (`HttpSessionProofs`) are the safety
half of liveness: every transaction of a request, every completion of a WebSocket
write and failure, and every handler of an HTTP session, misread requests included,
lowers a natural number, and only a client, or the idle thread's next request,
raises it.  No request or session loops, retries or keeps itself busy, for any
number of them (the acceptor does: it repeats an accept that fails,
`HttpServer.cpp:67`); that the steps are then taken is the fairness of section 3.
`CompletionsEnd`, `ServingEnds` and the other properties of this section that no run
names (`NoReplay`, `PrivateStaysPrivate`, `NumbersUnique`, `MessagesStayThemselves`)
also hold of the instances of section 3.

Model-checked only: the liveness properties `QueuedAreWritten`, `BrokenAreReleased`,
`RequestsAreAnswered`, `SessionsEnd` and `ConnectionsAreAccepted`, which are out of
the prover's reach.  Every other property of a passing run is a theorem.  The
properties of the violated runs are false.

## 5. Findings

* `AuthParentHash`: `rotateRefreshToken` (`UserRepository.cpp:155`) stores the raw
  old token in `parent_token_hash`.
* `MessageDeleteAnswer`: `deleteMessage` (`messagesRepository.cpp:73`) has no return
  after its commit, where its comments say only an absent message is `false`.
* `ThreadTitles`: the router (`Router.cpp:26`, `183`) uses what the parser refused;
  `validateUpdateRename` says the new title must not be empty.
* `UuidAnswered`: `Router.cpp:295` calls through `uuidControler_`, which the
  constructor never sets, for a request `struct.txt:190` documents.
* `TokenLifetime`: `generateJwtToken` (`CreateSessionHandler.cpp:68`) lets a token live
  two minutes; the comment beside it says fifteen, and so does `expires_in` of the
  login answer (`Router.cpp:49`).

With the two keys of the code no login opens a WebSocket session: `verify()` refuses
every token that is issued.  That is plain from the code and no property restates
it; nor is it a finding, as the key is marked as temporary (`SharedState.h:48`).

## 6. Not modelled

* The compression function of SHA-256, argon2, base64 and the encoding of tokens:
  third-party algorithms, opaque here.
* Timeouts of a silent HTTP client and of an acceptor that could not be opened:
  the code has none, so there is nothing to model beyond the states themselves.
* The rows a list returns, the author of a message, the wording of responses,
  logging: nothing depends on them.
* Start-up of the `Listener`, and an orderly stop: the listener is commented out in
  `main.cpp`, and the code has no stop.
* `User`, `Threads` and `messages` (data classes), `DataBaseUsers`,
  `ResponseBuilder`, `GenerateUuid`, `JwtValidator`, `doClose`, `onClose` (no caller).
* What a login can make of the text of its lookup (`UserRepository.cpp:19`) beyond the
  rows it selects.
* What no text of the repository promises either way: whether a message's thread
  must exist (`messagesRepository.cpp:15`), and that a list that could not be read
  is answered as an empty one (`threadsRepository.cpp:141`).
