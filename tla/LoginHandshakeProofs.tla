------------------------ MODULE LoginHandshakeProofs ------------------------
(***************************************************************************)
(* Only sessions vouched for by a token of their user are listed, for any  *)
(* keys, lifetimes and bounds.  The composition does nothing to the        *)
(* WebSocket server that WebSocketSession does not, so the theorems about  *)
(* that server hold of it too.                                             *)
(***************************************************************************)
EXTENDS LoginHandshake, WebSocketSessionProofs

LEMMA DayIsNext ==
  ASSUME TokensTypeOK, [Day]_allVars
  PROVE  [Next]_vars
<1>1. ASSUME NEW t \in issued, NEW s \in Sessions, Admit(s, t)
      PROVE  Next
  BY <1>1 DEF Admit, Next, TokensTypeOK, Token
<1> QED
  BY <1>1 DEF Day, Login, Refresh, Answer, Elsewhere, Tick, allVars

LEMMA DayServes == DaySpec => Spec /\ []TokensTypeOK
<1>1. StartOfDay => Init /\ TokensTypeOK
  BY DEF StartOfDay, TokensTypeOK
<1>2. TokensTypeOK /\ [Day]_allVars => TokensTypeOK'
  <2> SUFFICES ASSUME TokensTypeOK, [Day]_allVars
               PROVE  TokensTypeOK'
    OBVIOUS
  <2> USE DEF TokensTypeOK
  <2>1. ASSUME NEW u \in Users, Answer(u), loggedIn' \subseteq Users
        PROVE  TokensTypeOK'
    <3>1. NewToken(u) \in Token
      BY LifetimeAssumption DEF NewToken, Token
    <3> QED
      BY <2>1, <3>1 DEF Answer
  <2>2. ASSUME NEW u \in Users, Login(u)
        PROVE  TokensTypeOK'
    BY <2>1, <2>2 DEF Login
  <2>3. ASSUME NEW t \in issued, Refresh(t)
        PROVE  TokensTypeOK'
    <3>1. t.sub \in Users
      BY DEF Token
    <3> QED
      BY <2>1, <2>3, <3>1 DEF Refresh
  <2>4. ASSUME NEW t \in issued, NEW s \in Sessions, Admit(s, t)
        PROVE  TokensTypeOK'
    BY <2>4 DEF Admit
  <2>5. CASE Elsewhere \/ UNCHANGED allVars
    BY <2>5 DEF Elsewhere, tokens, allVars
  <2>6. CASE Tick
    BY <2>6 DEF Tick
  <2> QED
    BY <2>2, <2>3, <2>4, <2>5, <2>6 DEF Day
<1> QED
  BY <1>1, <1>2, DayIsNext, PTL DEF DaySpec, Spec

\* A session that keeps its token and user stays vouched for.
LEMMA VouchedStays ==
  ASSUME NEW s \in Sessions, NEW u, Vouched(s, u),
         issued \subseteq issued', loggedIn \subseteq loggedIn',
         via'[s] = via[s], at'[s] = at[s], hubKey' = hubKey
  PROVE  Vouched(s, u)'
  BY DEF Vouched

\* What the steps of the WebSocket server that leave userId_ alone do to the
\* session a user bound last, and to the phases.
LEMMA ElsewhereKeepsUsers ==
  ASSUME IInv, TokensInv, Next, userId' = userId
  PROVE  /\ \A s \in Sessions, u \in Users : latest'[u] = s => userId[s] = u
         /\ \A s \in Sessions : phase'[s] \in {"accepting", "open"} => userId[s] # NoUser
<1> DEFINE Kept ==
      /\ \A s \in Sessions, u \in Users : latest'[u] = s => userId[s] = u
      /\ \A s \in Sessions : phase'[s] \in {"accepting", "open"} => userId[s] # NoUser
<1>1. ASSUME NEW r \in Sessions, OnAccept(r)
      PROVE  Kept
  BY <1>1 DEF OnAccept, TokensInv, IInv, TypeOK
<1>2. ASSUME Crash
      PROVE  Kept
  BY <1>2, SentinelAssumption DEF Crash, TokensInv
<1>3. ASSUME latest' = latest, \A s \in Sessions : phase'[s] \in {phase[s], "http", "gone"}
      PROVE  Kept
  BY <1>3 DEF TokensInv
<1>4. ASSUME NEW r \in Sessions, Run(r) \/ ReadHttpFails(r) \/ AcceptFails(r)
      PROVE  Kept
  BY <1>3, <1>4 DEF Run, ReadHttpFails, AcceptFails, ends, IInv, TypeOK
<1>5. ASSUME NEW r \in Sessions, \/ Frame(r) \/ ReadFails(r) \/ OnWrite(r)
                                 \/ WriteFails(r) \/ Drop(r)
      PROVE  Kept
  BY <1>3, <1>5 DEF Frame, ReadFails, OnWrite, WriteFails, Drop, ends
<1>6. ASSUME NEW r \in Sessions, NEW u \in Users, ReadHttp(r, u)
      PROVE  Kept
  BY <1>6, SentinelAssumption DEF ReadHttp, TokensInv, IInv, TypeOK
<1>7. \A r \in Sessions : Chat(r) \/ Refuse(r) \/ (\E u \in Users : Private(r, u)) => Frame(r)
  BY DEF Chat, Private, Refuse
<1> HIDE DEF Kept
<1>8. Kept
  BY <1>1, <1>2, <1>4, <1>5, <1>6, <1>7 DEF Next
<1> QED
  BY <1>8 DEF Kept

LEMMA TokensInductive ==
  ASSUME IInv, TokensInv, TokensTypeOK', [Day]_allVars
  PROVE  TokensInv'
<1> USE DEF TokensInv
<1>1. ASSUME NEW u \in Users, Answer(u), u \in loggedIn', loggedIn \subseteq loggedIn'
      PROVE  TokensInv'
  <2>1. /\ issued' = issued \cup {NewToken(u)}
        /\ UNCHANGED <<phase, userId, latest, hubKey, clock, via, at>>
    BY <1>1 DEF Answer, vars
  <2>2. \A t \in issued' : t.exp = t.iat + Lifetime /\ t.sub \in loggedIn'
    BY <1>1, <2>1 DEF NewToken
  <2>3. \A s \in Sessions : userId'[s] # NoUser => Vouched(s, userId[s])'
    BY <1>1, <2>1, VouchedStays
  <2> QED
    BY <2>1, <2>2, <2>3
<1>2. ASSUME NEW u \in Users, Login(u)
      PROVE  TokensInv'
  BY <1>1, <1>2 DEF Login
<1>3. ASSUME NEW t \in issued, Refresh(t)
      PROVE  TokensInv'
  BY <1>1, <1>3 DEF Refresh, TokensTypeOK, Token
<1>4. ASSUME NEW t \in issued, NEW r \in Sessions, Admit(r, t)
      PROVE  TokensInv'
  <2>1. /\ phase' = [phase EXCEPT ![r] = "accepting"] /\ userId' = [userId EXCEPT ![r] = t.sub]
        /\ via' = [via EXCEPT ![r] = t] /\ at' = [at EXCEPT ![r] = clock]
        /\ UNCHANGED <<latest, hubKey, clock, issued, loggedIn>>
        /\ phase[r] = "http"
    BY <1>4 DEF Admit, ReadHttp
  <2>2. /\ t \in Token /\ t.sub \in Users \cap loggedIn /\ t.sub # NoUser
        /\ t.key = hubKey /\ t.exp = t.iat + Lifetime /\ t.iat \in Nat
        /\ clock \in Nat /\ t.iat <= clock /\ clock <= t.exp
    BY <1>4, SentinelAssumption DEF Admit, Verifies, TokensTypeOK, Token
  <2>3. Vouched(r, t.sub)'
    BY <2>1, <2>2, LifetimeAssumption DEF Vouched, TokensTypeOK
  <2>4. ASSUME NEW s \in Sessions, userId'[s] # NoUser
        PROVE  Vouched(s, userId[s])'
    <3>1. CASE s = r
      <4>1. userId'[s] = t.sub
        BY <2>1, <3>1 DEF IInv, TypeOK
      <4> QED
        BY <2>3, <3>1, <4>1 DEF Vouched
    <3>2. CASE s # r
      <4>1. userId'[s] = userId[s] /\ via'[s] = via[s] /\ at'[s] = at[s]
        BY <2>1, <3>2 DEF IInv, TypeOK, TokensTypeOK
      <4>2. Vouched(s, userId[s])
        BY <2>4, <4>1
      <4> QED
        BY <2>1, <4>1, <4>2 DEF Vouched
    <3> QED
      BY <3>1, <3>2
  <2>5. \A s \in Sessions : phase'[s] \in {"accepting", "open"} => userId'[s] # NoUser
    BY <2>1, <2>2 DEF IInv, TypeOK
  <2>6. \A s \in Sessions, u \in Users : latest'[u] = s => userId'[s] = u
    <3>1. \A u \in Users : latest[u] # r
      BY <2>1 DEF IInv, HubInv
    <3> QED
      BY <2>1, <3>1 DEF IInv, TypeOK
  <2> QED
    BY <2>1, <2>4, <2>5, <2>6
<1>5. CASE Elsewhere
  <2>1. /\ UNCHANGED <<userId, hubKey, clock, issued, loggedIn, via, at>> /\ Next
    BY <1>5 DEF Elsewhere, tokens
  <2>2. \A s \in Sessions : userId'[s] # NoUser => Vouched(s, userId[s])'
    BY <2>1 DEF Vouched
  <2> QED
    BY <2>1, <2>2, ElsewhereKeepsUsers
<1>6. CASE Tick \/ UNCHANGED allVars
  <2>1. UNCHANGED <<phase, userId, latest, hubKey, issued, loggedIn, via, at>>
    BY <1>6 DEF Tick, allVars, vars, tokens
  <2>2. \A s \in Sessions : userId'[s] # NoUser => Vouched(s, userId[s])'
    BY <2>1 DEF Vouched
  <2> QED
    BY <2>1, <2>2
<1> QED
  BY <1>2, <1>3, <1>4, <1>5, <1>6 DEF Day

LEMMA TokensConsistent == DaySpec => []TokensInv
<1>1. StartOfDay => TokensInv
  BY SentinelAssumption DEF StartOfDay, Init, TokensInv, TokensTypeOK
<1>2. IInv /\ TokensInv /\ TokensTypeOK' /\ [Day]_allVars => TokensInv'
  BY TokensInductive
<1> QED
  BY <1>1, <1>2, DayServes, Consistent, PTL DEF DaySpec

\* Tokens, their history and the clock keep their types.
THEOREM TokensTypeCorrect == DaySpec => []TokensTypeOK
  BY DayServes, PTL

\* A session the hub lists under a user was opened with a token of that user,
\* signed with the hub's key and alive when the handshake was accepted.
THEOREM ListedIsVouchedCorrect == DaySpec => []ListedIsVouched
<1>1. IInv /\ OnlyLatestHasUser /\ TokensInv => ListedIsVouched
  <2> SUFFICES ASSUME IInv, OnlyLatestHasUser, TokensInv, NEW s \in Sessions, NEW u \in Users,
                      hub.userToSessions[u] = s
               PROVE  Vouched(s, u)
    BY DEF ListedIsVouched
  <2>1. latest[u] = s
    BY SentinelAssumption DEF OnlyLatestHasUser
  <2>2. userId[s] = u /\ u # NoUser
    BY <2>1, SentinelAssumption DEF TokensInv
  <2> QED
    BY <2>2 DEF TokensInv
<1> QED
  BY <1>1, TokensConsistent, DayServes, Consistent, OnlyLatestHasUserCorrect, PTL

\* With tokens and a clock the WebSocket server does nothing that WebSocketSession does
\* not let it do: what is proved of that module holds of the two servers together.
THEOREM DayImplementsServer == DaySpec => Spec
  BY DayServes, PTL
-----------------------------------------------------------------------------
\* Private messages go from a session that logged in to one of the recipient that did
\* (WebSocketSession::handlePrivateMessage).
THEOREM PrivateOfTheLoggedInHolds == DaySpec => PrivateOfTheLoggedIn
<1> DEFINE A == \A s \in Sessions, u \in Users : Private(s, u) =>
                  \A r \in Sessions \ {s} : queue'[r] # queue[r] => latest[u] = r /\ userId[r] = u
           B == \A s \in Sessions, u \in Users : Private(s, u) =>
                  /\ Vouched(s, userId[s])
                  /\ \A r \in Sessions \ {s} : queue'[r] # queue[r] => Vouched(r, u)
<1>1. TokensInv /\ [A]_vars => [B]_allVars
  <2> SUFFICES ASSUME TokensInv, A \/ UNCHANGED vars,
                      NEW s \in Sessions, NEW u \in Users, Private(s, u)
               PROVE  /\ Vouched(s, userId[s])
                      /\ \A r \in Sessions \ {s} : queue'[r] # queue[r] => Vouched(r, u)
    OBVIOUS
  <2>1. Vouched(s, userId[s])
    BY DEF Private, TokensInv
  <2>2. ASSUME NEW r \in Sessions \ {s}, queue'[r] # queue[r]
        PROVE  Vouched(r, u)
    <3>1. A
      BY <2>2 DEF vars
    <3>2. userId[r] = u /\ u # NoUser
      BY <2>2, <3>1, SentinelAssumption
    <3> QED
      BY <3>2 DEF TokensInv
  <2> QED
    BY <2>1, <2>2
<1>2. DaySpec => [][A]_vars
  BY DayServes, PrivateStaysPrivateHolds, PTL DEF PrivateStaysPrivate
<1> QED
  BY <1>1, <1>2, TokensConsistent, PTL DEF PrivateOfTheLoggedIn
=============================================================================
