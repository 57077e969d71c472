---------------------------- MODULE AuthService ----------------------------
(***************************************************************************)
(* Registration, login and refresh-token rotation: AuthService and the     *)
(* handler chains it runs, over UserRepository and one PostgreSQL          *)
(* connection.                                                             *)
(*                                                                         *)
(* The server has one thread, so it works on one request at a time, but a  *)
(* request is a sequence of database transactions: the process may die     *)
(* between two of them, a transaction may fail or its commit may be in     *)
(* doubt, and the connection, once lost, stays lost until a restart.       *)
(***************************************************************************)
EXTENDS DatabaseConnection, Naturals

CONSTANTS
  Logins, Passwords,  \* what clients type
  UserIds,            \* users.id values, and the subjects of access tokens
  Tokens,             \* refresh tokens: the UUIDs of generate()
  UniqueLogin,        \* does the schema, kept outside the repository,
                      \* declare users.login unique?
  Selects,            \* the logins whose rows the text of a lookup selects
  Null                \* the empty string, the null pointer and SQL's NULL

ASSUME NullAssumption == Null \notin Logins \cup Passwords \cup UserIds \cup Tokens
ASSUME UniqueLoginAssumption == UniqueLogin \in BOOLEAN
ASSUME SelectsAssumption == Selects \in [Logins -> SUBSET Logins]

VARIABLES
  users,      \* table users: id, login, password_hash
  sessions,   \* table sessions1: token_hash, user_id, parent_token_hash
  revoked,    \* column sessions1.revoked: the tokens whose row has it set
  expired,    \* the tokens whose expires_at has passed
  request,    \* the request the thread is working on, and how far it is
  inFlight,   \* successful responses written and not yet received
  held,       \* what the clients have received
  blind,      \* history: logins whose registration could not look them up
  severed     \* history: tokens revoked for an exchange that was cut short

tables == <<users, sessions, revoked>>
client == <<expired, inFlight, held>>
vars == <<users, sessions, revoked, expired, connected, request, inFlight,
          held, blind, severed>>

(***************************************************************************)
(* Stored values.  A password hash is kept as the password it verifies.    *)
(* The token columns hold either the SHA-256 of a token or its raw text.   *)
(***************************************************************************)
UserRow == [id : UserIds, login : Logins, password : Passwords]

Hash(t) == [form |-> "hash", of |-> t]
Raw(t) == [form |-> "raw", of |-> t]
NoParent == [form |-> "null", of |-> Null]
Stored == [form : {"hash", "raw", "null"}, of : Tokens \cup {Null}]

SessionRow == [token : Tokens, user : UserIds, parent : Stored]

\* An access token stands for its subject: refreshing reads nothing else.
Grant == [sub : UserIds, token : Tokens]

Steps == {"idle", "saveUser", "saveSession", "revoke", "insert"}
Request ==
  {r \in [step : Steps, login : Logins \cup {Null}, password : Passwords \cup {Null},
          user : UserIds \cup {Null}, token : Tokens \cup {Null}] :
     /\ r.step = "saveUser" => r.login # Null /\ r.password # Null
     /\ r.step \in {"saveSession", "revoke", "insert"} => r.user # Null
     /\ r.step \in {"revoke", "insert"} => r.token # Null}
Idle == [step |-> "idle", login |-> Null, password |-> Null,
         user |-> Null, token |-> Null]

\* What saveUser stored under a login: it binds the login as a parameter.
Rows(l) == {r \in users : r.login = l}
Ids == {r.id : r \in users}

(***************************************************************************)
(* findUserByField concatenates the login into the statement, so what is   *)
(* looked up is what the text says: the login itself, unless a quote in it *)
(* makes that another login, or no statement at all (nothing is selected,  *)
(* and the exception has the same result as an empty one).                 *)
(***************************************************************************)
Selected(l) == {r \in users : r.login \in Selects[l]}

Found(l, u) == Selected(l) = {u}   \* findUserByField wants exactly one row

\* UserFetchHandler: the user the lookup of the login finds, if it finds one.
Fetched(l) == {u \in users : Found(l, u)}

\* PasswordCheckHandler.
PasswordMatches(u, p) == u.password = p

Issued == {r.token : r \in sessions}

\* A token of generate() that no row holds.  An idealisation: the generator is
\* seeded with 32 bits, so the code could draw an earlier token again.
Fresh(t) == t \notin Issued

Init ==
  /\ users = {} /\ sessions = {} /\ revoked = {} /\ expired = {}
  /\ connected \in BOOLEAN
  /\ request = Idle
  /\ inFlight = {} /\ held = {}
  /\ blind = {} /\ severed = {}

(***************************************************************************)
(* Each mutated form below is the definition after it with one plausible   *)
(* slip of the code.  No specification uses them: a property of this       *)
(* module is shown to notice each.                                         *)
(***************************************************************************)

(***************************************************************************)
(* POST /register: ValidationHandler, UserFetchHandler and                 *)
(* UserNotExistsHandler, up to the insert.  A failed lookup looks like an  *)
(* absent user, and so does a login that several rows share.               *)
(***************************************************************************)
\* Mutated form: the chain without UserNotExistsHandler.
RegisterUnchecked(l, p, o) ==
  /\ request = Idle
  /\ Transaction(o)
  /\ request' = [Idle EXCEPT !.step = "saveUser", !.login = l, !.password = p]
  /\ blind' = IF o = "failed" THEN blind \cup {l} ELSE blind
  /\ UNCHANGED <<tables, client, severed>>

Register(l, p, o) ==
  /\ request = Idle
  /\ Transaction(o)
  /\ request' = IF o = "ok" /\ Fetched(l) # {}
                THEN Idle
                ELSE [Idle EXCEPT !.step = "saveUser", !.login = l, !.password = p]
  /\ blind' = IF o = "failed" THEN blind \cup {l} ELSE blind
  /\ UNCHANGED <<tables, client, severed>>

\* CreateUserHandler::createUser and UserRepository::saveUser.
SaveUser(o) ==
  /\ request.step = "saveUser"
  /\ Transaction(o)
  /\ request' = Idle
  /\ \/ o = "failed" /\ UNCHANGED users
     \/ /\ o # "failed"
        /\ UniqueLogin => Rows(request.login) = {}
        /\ \E i \in UserIds \ Ids :
             users' = users \cup {[id |-> i, login |-> request.login,
                                   password |-> request.password]}
  /\ UNCHANGED <<sessions, revoked, client, blind, severed>>

(***************************************************************************)
(* POST /login up to CreateSessionHandler: the one row of the login, its   *)
(* password checked.                                                       *)
(***************************************************************************)
\* Mutated form: the chain without UserExistsHandler.
LoginUnchecked(l, p, o) ==
  /\ request = Idle
  /\ Transaction(o)
  /\ request' = [Idle EXCEPT !.step = "saveSession",
                 !.user = IF Fetched(l) = {} THEN Null
                          ELSE (CHOOSE u \in Fetched(l) : TRUE).id]
  /\ UNCHANGED <<tables, client, blind, severed>>

Login(l, p, o) ==
  /\ request = Idle
  /\ Transaction(o)
  /\ \/ /\ o = "ok"
        /\ \E u \in Fetched(l) :
             /\ PasswordMatches(u, p)
             /\ request' = [Idle EXCEPT !.step = "saveSession", !.user = u.id]
     \/ /\ o = "failed" \/ ~ \E u \in Fetched(l) : PasswordMatches(u, p)
        /\ UNCHANGED request
  /\ UNCHANGED <<tables, client, blind, severed>>

\* Mutated form: the result of saveSession is ignored.
InsertUnchecked(t, u, parent, o) ==
  /\ sessions' = IF o = "failed" THEN sessions
                 ELSE sessions \cup {[token |-> t, user |-> u, parent |-> parent]}
  /\ inFlight' = inFlight \cup {[sub |-> u, token |-> t]}

\* UserRepository::saveSession: the insert, and the answer if it succeeded.
Insert(t, u, parent, o) ==
  /\ sessions' = IF o = "failed" THEN sessions
                 ELSE sessions \cup {[token |-> t, user |-> u, parent |-> parent]}
  /\ inFlight' = IF o = "ok" THEN inFlight \cup {[sub |-> u, token |-> t]}
                 ELSE inFlight

\* CreateSessionHandler::handle: a new token, stored by its hash, no parent.
SaveSession(t, o) ==
  /\ request.step = "saveSession"
  /\ Fresh(t)
  /\ Transaction(o)
  /\ Insert(t, request.user, NoParent, o)
  /\ request' = Idle
  /\ UNCHANGED <<users, revoked, expired, held, blind, severed>>

(***************************************************************************)
(* POST /refreshToken.  AuthService::validateToken finds the row of the    *)
(* refresh token, reads the subject of the access token (Null when it has  *)
(* none) and compares it with the owner.                                   *)
(***************************************************************************)
\* Mutated form: the query without "revoked = false".
FindSessionRevokedToo(t) == {r \in sessions : r.token = t /\ t \notin expired}

FindSession(t) ==
  {r \in sessions : r.token = t /\ t \notin revoked /\ t \notin expired}

\* Mutated form: the subject is not compared with the owner.
RefreshAnyOwner(sub, t, o) ==
  /\ request = Idle
  /\ Transaction(o)
  /\ request' = IF o = "ok" /\ sub # Null /\ FindSession(t) # {}
                THEN [Idle EXCEPT !.step = "revoke", !.user = sub, !.token = t]
                ELSE Idle
  /\ UNCHANGED <<tables, client, blind, severed>>

Refresh(sub, t, o) ==
  /\ request = Idle
  /\ Transaction(o)
  /\ request' = IF o = "ok" /\ sub # Null /\ (\E r \in FindSession(t) : r.user = sub)
                THEN [Idle EXCEPT !.step = "revoke", !.user = sub, !.token = t]
                ELSE Idle
  /\ UNCHANGED <<tables, client, blind, severed>>

\* Mutated form: the failure of the update is swallowed before the insert.
RevokeFailsOpen(o) ==
  /\ request.step = "revoke"
  /\ Transaction(o)
  /\ revoked' = IF o = "failed" THEN revoked ELSE revoked \cup {request.token}
  /\ request' = [request EXCEPT !.step = "insert"]
  /\ UNCHANGED <<users, sessions, client, blind, severed>>

\* Mutated form: the update without its condition on the token.
RevokeAllOfUser(o) ==
  /\ request.step = "revoke"
  /\ Transaction(o)
  /\ revoked' = IF o = "failed" THEN revoked
                ELSE revoked \cup {r.token : r \in {q \in sessions : q.user = request.user}}
  /\ request' = IF o = "ok" THEN [request EXCEPT !.step = "insert"] ELSE Idle
  /\ severed' = IF o = "inDoubt" THEN severed \cup {request.token} ELSE severed
  /\ UNCHANGED <<users, sessions, client, blind>>

\* Mutated form: a failed update is tried again.
RevokeRetrying(o) ==
  /\ request.step = "revoke"
  /\ Transaction(o)
  /\ revoked' = IF o = "failed" THEN revoked ELSE revoked \cup {request.token}
  /\ request' = IF o = "ok" THEN [request EXCEPT !.step = "insert"] ELSE request
  /\ UNCHANGED <<users, sessions, client, blind, severed>>

\* The first transaction of UserRepository::rotateRefreshToken.
Revoke(o) ==
  /\ request.step = "revoke"
  /\ Transaction(o)
  /\ revoked' = IF o = "failed" THEN revoked
                ELSE revoked \cup {r.token : r \in {q \in sessions :
                       q.token = request.token /\ q.user = request.user}}
  /\ request' = IF o = "ok" THEN [request EXCEPT !.step = "insert"] ELSE Idle
  /\ severed' = IF o = "inDoubt" THEN severed \cup {request.token} ELSE severed
  /\ UNCHANGED <<users, sessions, client, blind>>

\* The second: the new row, whose parent column gets the raw old token.
InsertChild(t, o) ==
  /\ request.step = "insert"
  /\ Fresh(t)
  /\ Transaction(o)
  /\ Insert(t, request.user, Raw(request.token), o)
  /\ request' = Idle
  /\ severed' = IF o = "failed" THEN severed \cup {request.token} ELSE severed
  /\ UNCHANGED <<users, revoked, expired, held, blind>>

(***************************************************************************)
(* The environment: responses arrive or are lost with their connection,    *)
(* sessions expire, the process dies (an escaped exception or a kill) and  *)
(* starts again, connected or not.                                         *)
(***************************************************************************)
Deliver(g) ==
  /\ g \in inFlight
  /\ inFlight' = inFlight \ {g}
  /\ held' = held \cup {g}
  /\ UNCHANGED <<tables, expired, connected, request, blind, severed>>

Lose(g) ==
  /\ g \in inFlight
  /\ inFlight' = inFlight \ {g}
  /\ UNCHANGED <<tables, expired, connected, request, held, blind, severed>>

Expire(t) ==
  /\ t \in Issued \ expired
  /\ expired' = expired \cup {t}
  /\ UNCHANGED <<tables, connected, request, inFlight, held, blind, severed>>

Crash ==
  /\ request' = Idle
  /\ inFlight' = {}
  /\ Connect
  /\ severed' = IF request.step = "insert" THEN severed \cup {request.token}
                ELSE severed
  /\ UNCHANGED <<tables, expired, held, blind>>

(***************************************************************************)
(* The specification.                                                      *)
(***************************************************************************)
\* Bound: Tokens is finite, so no request that needs a token begins without one.
HasFresh == Issued # Tokens

Accept ==
  \/ \E l \in Logins, p \in Passwords, o \in Reads : Register(l, p, o)
  \/ HasFresh /\ \E l \in Logins, p \in Passwords, o \in Reads : Login(l, p, o)
  \/ HasFresh /\ \E g, h \in held, o \in Reads :
       Refresh(g.sub, h.token, o) \/ Refresh(Null, h.token, o)

Work ==
  \E o \in Writes :
     \/ SaveUser(o)
     \/ Revoke(o)
     \/ \E t \in Tokens : SaveSession(t, o) \/ InsertChild(t, o)

Environment ==
  \/ \E g \in inFlight : Deliver(g) \/ Lose(g)
  \/ \E t \in Tokens : Expire(t)
  \/ Crash

Next == Accept \/ Work \/ Environment

Spec == Init /\ [][Next]_vars
-----------------------------------------------------------------------------
(***************************************************************************)
(* Properties.                                                             *)
(***************************************************************************)
TypeOK ==
  /\ users \subseteq UserRow
  /\ sessions \subseteq SessionRow
  /\ revoked \subseteq Tokens
  /\ expired \subseteq Tokens
  /\ connected \in BOOLEAN
  /\ request \in Request
  /\ inFlight \subseteq Grant
  /\ held \subseteq Grant
  /\ blind \subseteq Logins
  /\ severed \subseteq Tokens

\* A refresh token is exchanged at most once, whatever retries, lost answers
\* and crashes fall between its lookup, its revocation and the new row
\* (validateToken and rotateRefreshToken).
ExchangedOnce ==
  \A r, q \in sessions :
    r.parent # NoParent /\ r.parent = q.parent => r.token = q.token

\* A token that was exchanged is revoked and belonged to the same user as its
\* successor: rotation never leaves two live tokens in a chain and never moves
\* a chain to another account.
ParentRevoked ==
  \A r \in sessions : r.parent # NoParent =>
    \E q \in sessions : /\ q.token = r.parent.of
                        /\ q.user = r.user
                        /\ q.token \in revoked

\* No answer outruns its commit: a token in a response, or held by a client,
\* is the token of a committed row of that user, also after a crash.
AnsweredIsStored ==
  \A g \in inFlight \cup held :
    \E r \in sessions : r.token = g.token /\ r.user = g.sub

\* A token is revoked without a successor only while its exchange is under way
\* or after one that was cut short between the two transactions of
\* rotateRefreshToken (a failed insert, a commit in doubt, a crash).
RevokedIsExchanged ==
  \A t \in revoked \ severed :
    \/ request.step = "insert" /\ request.token = t
    \/ \E r \in sessions : r.parent.of = t

\* Sessions belong to registered users, whatever was rotated or retried.
SessionsHaveUsers == \A r \in sessions : r.user \in Ids

\* A set of sessions that has every row of a login and, with a row, its successors
\* of the same user.
Closed(S) ==
  /\ \A r \in sessions : r.parent = NoParent => r \in S
  /\ \A q \in S, r \in sessions : r.parent = Raw(q.token) /\ r.user = q.user => r \in S

\* Every refresh token goes back, by exchanges of that user's tokens alone, to a
\* login: the table holds no orphan and no circle, although the parent column has
\* no foreign key and the rows of a chain come from different requests, with
\* failures and crashes between (CreateSessionHandler::handle, rotateRefreshToken).
ChainsStartAtLogins == \A S \in SUBSET sessions : Closed(S) => S = sessions

(***************************************************************************)
(* The inductive invariant behind the properties above: what the tables    *)
(* hold, and what the request under way has already established.           *)
(***************************************************************************)
TokensUnique == \A r, q \in sessions : r.token = q.token => r = q

TableInv ==
  /\ TokensUnique
  /\ revoked \subseteq Issued
  /\ ExchangedOnce
  /\ ParentRevoked
  /\ AnsweredIsStored
  /\ SessionsHaveUsers

Owner == \E r \in sessions : r.token = request.token /\ r.user = request.user

RequestInv ==
  /\ request.step = "saveSession" => request.user \in Ids
  /\ request.step = "revoke" => Owner /\ request.token \notin revoked
  /\ request.step = "insert" =>
       /\ Owner
       /\ request.token \in revoked
       /\ \A r \in sessions : r.parent # Raw(request.token)

IInv == TypeOK /\ TableInv /\ RequestInv

\* Does the lookup of a login ask for that login and no other?
LooksItselfUp(l) == Selects[l] = {l}

\* For the table users: identifiers are unique, and a registration about to
\* insert a login saw it absent or could not see it.
UsersInv ==
  /\ \A r, q \in users : r.id = q.id => r = q
  /\ request.step = "saveUser" /\ request.login \notin blind /\ LooksItselfUp(request.login)
       => Rows(request.login) = {}

\* With no unique index, a login gets a second row only if a registration could
\* not see the first: because its lookup failed and was taken for "no such user"
\* (findUserByField returns nullptr from its catch block), or because the text of
\* the lookup does not ask for what saveUser stores.
DuplicateOnlyIfUnseen ==
  \A r, q \in users : r.login = q.login /\ r.id # q.id =>
    r.login \in blind \/ ~LooksItselfUp(r.login)

\* What saveSession's callers say of its token arguments: CreateSessionHandler
\* passes "the hash, not rawToken", and the parameter and the column of the
\* parent are named parentTokenHash and parent_token_hash.
TokensStoredAsHashes ==
  \A r \in sessions : r.parent # NoParent => \E q \in sessions : r.parent = Hash(q.token)

\* The number of transactions a request may still run.
StepsLeft ==
  IF request.step = "revoke" THEN 2
  ELSE IF request.step = "idle" THEN 0
  ELSE 1

\* Each transaction of a request leaves fewer to run, whatever its outcome, and only
\* a request the idle thread takes on brings new ones: no failure, not even the
\* connection lost for good, has the thread retry or interrupt a request, and after
\* its lookup each runs two transactions at most.
RequestsEnd ==
  [][/\ Work => StepsLeft' < StepsLeft
     /\ StepsLeft' > StepsLeft => request.step = "idle"]_vars

\* The abstract view: a token stays exchangeable until the new row is stored
\* or the exchange is cut short.
InExchange(t) == request.step = "insert" /\ request.token = t
LivePairs == {[user |-> r.user, token |-> r.token] :
                r \in {q \in sessions : q.token \notin revoked \/ InExchange(q.token)}}
SpentTokens == {t \in revoked : ~InExchange(t)}

Chain == INSTANCE RefreshChain WITH live <- LivePairs, spent <- SpentTokens

\* The two transactions, their failures and the crashes implement an atomic
\* exchange of one token for a fresh one of the same user.
ImplementsChain == Chain!Spec
=============================================================================
