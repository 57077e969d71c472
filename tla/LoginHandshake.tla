--------------------------- MODULE LoginHandshake ---------------------------
(***************************************************************************)
(* The two servers together: the access tokens that logins and refreshes   *)
(* answer over HTTP open the WebSocket sessions.  The servers share no     *)
(* memory of tokens: a signature, an issuer and a lifetime are all the     *)
(* WebSocket side goes by, once, in the handshake.                         *)
(*                                                                         *)
(* WebSocketSession lets a handshake accept any user; here it is the       *)
(* subject of a token.  AuthService says when a login or a refresh         *)
(* succeeds; here one that did has answered its token.                     *)
(***************************************************************************)
EXTENDS WebSocketSession, FiniteSets

CONSTANTS
  IssuerKey,  \* jwtSecret_ of CreateSessionHandler
  HubKeys,    \* what jwtKey_ of SharedState may be: a field of its own, which in
              \* the code differs from jwtSecret_
  Lifetime,   \* how long generateJwtToken lets a token live
  NoToken,    \* the session was not opened with a token
  MaxTokens,  \* bound on the tokens answered
  MaxTime     \* bound on the clock

ASSUME LifetimeAssumption == Lifetime \in Nat
ASSUME NoTokenAssumption == NoToken \notin [sub : Users, key : {IssuerKey}, iat : Nat, exp : Nat]

VARIABLES
  hubKey,    \* jwtKey_
  clock,     \* system_clock, in minutes
  issued,    \* the tokens that were answered
  loggedIn,  \* history: the users who logged in with their password
  via,       \* history: the token each session was opened with
  at         \* history: when its handshake was accepted

tokens == <<hubKey, clock, issued, loggedIn, via, at>>
allVars == <<vars, tokens>>

Token == [sub : Users, key : {IssuerKey}, iat : Nat, exp : Nat]

StartOfDay ==
  /\ Init
  /\ hubKey \in HubKeys
  /\ clock = 0
  /\ issued = {}
  /\ loggedIn = {}
  /\ via = [s \in Sessions |-> NoToken]
  /\ at = [s \in Sessions |-> 0]

(***************************************************************************)
(* The HTTP side.                                                          *)
(***************************************************************************)
\* CreateSessionHandler::generateJwtToken.
NewToken(u) == [sub |-> u, key |-> IssuerKey, iat |-> clock, exp |-> clock + Lifetime]

Answer(u) ==
  /\ Cardinality(issued) < MaxTokens
  /\ issued' = issued \cup {NewToken(u)}
  /\ UNCHANGED <<vars, hubKey, clock, via, at>>

\* POST /login, of a user whose password was right.
Login(u) ==
  /\ Answer(u)
  /\ loggedIn' = loggedIn \cup {u}

\* POST /refreshToken, with a refresh token of the same user: validateToken only
\* decodes the access token, so an expired one is as good as another.
Refresh(t) ==
  /\ t \in issued
  /\ Answer(t.sub)
  /\ UNCHANGED loggedIn

(***************************************************************************)
(* The WebSocket side.  Mutated forms precede the definition they change.  *)
(***************************************************************************)
\* Mutated form: the token is decoded and not verified, as a refresh does.
DecodesOnly(t) == t \in issued

\* jwt::verify() in authenticate(): HS256 under the key of the hub, and the
\* lifetime the token states.
Verifies(t) == t.key = hubKey /\ t.iat <= clock /\ clock <= t.exp

\* authenticate() takes the user from the token; every refusal is one of the
\* failures of ReadHttpFails.
Admit(s, t) ==
  /\ Verifies(t)
  /\ ReadHttp(s, t.sub)
  /\ via' = [via EXCEPT ![s] = t]
  /\ at' = [at EXCEPT ![s] = clock]
  /\ UNCHANGED <<hubKey, clock, issued, loggedIn>>

\* Everything else the WebSocket server does, its crashes included, leaves
\* userId_ and the tokens as they are: a token outlives the process.
Elsewhere == Next /\ userId' = userId /\ UNCHANGED tokens

Tick ==
  /\ clock < MaxTime
  /\ clock' = clock + 1
  /\ UNCHANGED <<vars, hubKey, issued, loggedIn, via, at>>

Day ==
  \/ \E u \in Users : Login(u)
  \/ \E t \in issued : Refresh(t) \/ \E s \in Sessions : Admit(s, t)
  \/ Elsewhere
  \/ Tick

DaySpec == StartOfDay /\ [][Day]_allVars
-----------------------------------------------------------------------------
TokensTypeOK ==
  /\ clock \in Nat
  /\ issued \subseteq Token
  /\ loggedIn \subseteq Users
  /\ via \in [Sessions -> Token \cup {NoToken}]
  /\ at \in [Sessions -> Nat]

\* The handshake of s was accepted on a token that was answered to u, who had
\* logged in, signed with the key of the hub, and alive at that time.
Vouched(s, u) ==
  /\ u \in loggedIn
  /\ via[s] \in issued
  /\ via[s].sub = u
  /\ via[s].key = hubKey
  /\ at[s] \in via[s].iat..(via[s].iat + Lifetime)

\* Who is listed under a user in the hub, and gets the user's private messages,
\* came with a token of that user's own login, at most Lifetime old at the time:
\* take-overs, failures, expiries, refreshes with expired tokens and restarts
\* never put a session under another user.
ListedIsVouched ==
  \A s \in Sessions, u \in Users : hub.userToSessions[u] = s => Vouched(s, u)

\* Both ends of a private message logged in: its sender's session came with a token of
\* the sender, and a session that gets it with one of the recipient, each signed with
\* the key of the hub and alive at its handshake, however long ago that was and
\* whatever expired, was refreshed, taken over or restarted since (authenticate,
\* handlePrivateMessage).
PrivateOfTheLoggedIn ==
  [][\A s \in Sessions, u \in Users : Private(s, u) =>
       /\ Vouched(s, userId[s])
       /\ \A r \in Sessions \ {s} : queue'[r] # queue[r] => Vouched(r, u)]_allVars

\* The inductive invariant behind them, on top of that of WebSocketSession.
TokensInv ==
  /\ TokensTypeOK
  /\ \A t \in issued : t.exp = t.iat + Lifetime /\ t.sub \in loggedIn
  /\ \A s \in Sessions : userId[s] # NoUser => Vouched(s, userId[s])
  /\ \A s \in Sessions : phase[s] \in {"accepting", "open"} => userId[s] # NoUser
  /\ \A s \in Sessions, u \in Users : latest[u] = s => userId[s] = u

\* What a comment says of generateJwtToken: "Token valid for 15 minutes".
ValidAsCommented ==
  \A t \in issued : clock \in t.iat..(t.iat + 15) => clock <= t.exp
=============================================================================
