------------------------- MODULE AuthServiceProofs -------------------------
(***************************************************************************)
(* AuthService for every set of logins, users and tokens.                  *)
(***************************************************************************)
EXTENDS AuthService, Naturals, TLAPS

(***************************************************************************)
(* Every variable keeps its type.                                          *)
(***************************************************************************)
LEMMA TransactionType ==
  ASSUME connected \in BOOLEAN, NEW o, Transaction(o)
  PROVE  connected' \in BOOLEAN
  BY DEF Transaction

LEMMA IdleType == Idle \in Request
  BY DEF Idle, Request, Steps

LEMMA InsertType ==
  ASSUME TypeOK, NEW t \in Tokens, NEW u \in UserIds, NEW parent \in Stored,
         NEW o, Insert(t, u, parent, o)
  PROVE  sessions' \subseteq SessionRow /\ inFlight' \subseteq Grant
  BY DEF TypeOK, Insert, SessionRow, Grant

\* Every variable keeps its type, in every step of every handler.
THEOREM TypeCorrect == Spec => []TypeOK
<1>1. Init => TypeOK
  BY IdleType DEF Init, TypeOK
<1>2. TypeOK /\ [Next]_vars => TypeOK'
  <2> SUFFICES ASSUME TypeOK, [Next]_vars
               PROVE  TypeOK'
    OBVIOUS
  <2> USE DEF tables, client
  <2>1. ASSUME NEW l \in Logins, NEW p \in Passwords, NEW o \in Reads, Register(l, p, o)
        PROVE  TypeOK'
    <3>1. connected' \in BOOLEAN
      BY <2>1, TransactionType DEF TypeOK, Register
    <3>2. request' \in Request
      BY <2>1, IdleType, NullAssumption DEF Register, Request, Steps, Idle
    <3> QED
      BY <2>1, <3>1, <3>2 DEF TypeOK, Register
  <2>2. ASSUME NEW l \in Logins, NEW p \in Passwords, NEW o \in Reads, Login(l, p, o)
        PROVE  TypeOK'
    <3>1. connected' \in BOOLEAN
      BY <2>2, TransactionType DEF TypeOK, Login
    <3>2. request' \in Request
      <4>1. CASE UNCHANGED request
        BY <4>1 DEF TypeOK
      <4>2. ASSUME NEW u \in users,
                   request' = [Idle EXCEPT !.step = "saveSession", !.user = u.id]
            PROVE  request' \in Request
        <5>1. u.id \in UserIds
          BY DEF TypeOK, UserRow
        <5> QED
          BY <4>2, <5>1, NullAssumption DEF Request, Steps, Idle
      <4> QED
        BY <2>2, <4>1, <4>2 DEF Login, Fetched
    <3> QED
      BY <2>2, <3>1, <3>2 DEF TypeOK, Login
  <2>3. ASSUME NEW sub \in UserIds \cup {Null}, NEW t \in Tokens, NEW o \in Reads,
               Refresh(sub, t, o)
        PROVE  TypeOK'
    <3>1. connected' \in BOOLEAN
      BY <2>3, TransactionType DEF TypeOK, Refresh
    <3>2. request' \in Request
      BY <2>3, NullAssumption DEF TypeOK, Refresh, Request, Steps, Idle
    <3> QED
      BY <2>3, <3>1, <3>2 DEF TypeOK, Refresh
  <2>4. ASSUME NEW o \in Writes, SaveUser(o)
        PROVE  TypeOK'
    <3>1. connected' \in BOOLEAN
      BY <2>4, TransactionType DEF TypeOK, SaveUser
    <3>2. request.login \in Logins /\ request.password \in Passwords
      BY <2>4 DEF TypeOK, SaveUser, Request
    <3>3. users' \subseteq UserRow
      BY <2>4, <3>2 DEF TypeOK, SaveUser, UserRow
    <3> QED
      BY <2>4, <3>1, <3>3, IdleType DEF TypeOK, SaveUser
  <2>5. ASSUME NEW o \in Writes, Revoke(o)
        PROVE  TypeOK'
    <3>1. connected' \in BOOLEAN
      BY <2>5, TransactionType DEF TypeOK, Revoke
    <3>2. request.token \in Tokens
      BY <2>5 DEF TypeOK, Revoke, Request
    <3>3. revoked' \subseteq Tokens
      BY <2>5, <3>2 DEF TypeOK, Revoke
    <3>4. severed' \subseteq Tokens
      BY <2>5, <3>2 DEF TypeOK, Revoke
    <3>5. request' \in Request
      BY <2>5, IdleType DEF TypeOK, Revoke, Request, Steps
    <3> QED
      BY <2>5, <3>1, <3>3, <3>4, <3>5 DEF TypeOK, Revoke
  <2>6. ASSUME NEW o \in Writes, NEW t \in Tokens, SaveSession(t, o)
        PROVE  TypeOK'
    <3>1. connected' \in BOOLEAN
      BY <2>6, TransactionType DEF TypeOK, SaveSession
    <3>2. request.user \in UserIds
      BY <2>6 DEF TypeOK, SaveSession, Request
    <3>3. NoParent \in Stored
      BY DEF NoParent, Stored
    <3>4. sessions' \subseteq SessionRow /\ inFlight' \subseteq Grant
      BY <2>6, <3>2, <3>3, InsertType DEF SaveSession
    <3> QED
      BY <2>6, <3>1, <3>4, IdleType DEF TypeOK, SaveSession
  <2>7. ASSUME NEW o \in Writes, NEW t \in Tokens, InsertChild(t, o)
        PROVE  TypeOK'
    <3>1. connected' \in BOOLEAN
      BY <2>7, TransactionType DEF TypeOK, InsertChild
    <3>2. request.user \in UserIds /\ request.token \in Tokens
      BY <2>7 DEF TypeOK, InsertChild, Request
    <3>3. Raw(request.token) \in Stored
      BY <3>2 DEF Raw, Stored
    <3>4. sessions' \subseteq SessionRow /\ inFlight' \subseteq Grant
      BY <2>7, <3>2, <3>3, InsertType DEF InsertChild
    <3>5. severed' \subseteq Tokens
      BY <2>7, <3>2 DEF TypeOK, InsertChild
    <3> QED
      BY <2>7, <3>1, <3>4, <3>5, IdleType DEF TypeOK, InsertChild
  <2>8. CASE Environment
    <3>1. ASSUME NEW g \in inFlight, Deliver(g) \/ Lose(g)
          PROVE  TypeOK'
      BY <3>1 DEF TypeOK, Deliver, Lose
    <3>2. ASSUME NEW t \in Tokens, Expire(t)
          PROVE  TypeOK'
      BY <3>2 DEF TypeOK, Expire
    <3>3. CASE Crash
      <4>1. severed' \subseteq Tokens
        BY <3>3 DEF TypeOK, Crash, Request
      <4> QED
        BY <3>3, <4>1, IdleType DEF TypeOK, Crash, Connect
    <3> QED
      BY <2>8, <3>1, <3>2, <3>3 DEF Environment
  <2>9. CASE UNCHANGED vars
    BY <2>9 DEF TypeOK, vars
  <2>10. ASSUME Accept
         PROVE  TypeOK'
    <3>1. CASE \E l \in Logins, p \in Passwords, o \in Reads :
                 Register(l, p, o) \/ Login(l, p, o)
      BY <3>1, <2>1, <2>2
    <3>2. CASE \E g, h \in held, o \in Reads :
                 Refresh(g.sub, h.token, o) \/ Refresh(Null, h.token, o)
      <4>1. PICK g \in held, h \in held, o \in Reads :
                 Refresh(g.sub, h.token, o) \/ Refresh(Null, h.token, o)
        BY <3>2
      <4>2. g.sub \in UserIds /\ h.token \in Tokens
        BY DEF TypeOK, Grant
      <4> QED
        BY <4>1, <4>2, <2>3
    <3> QED
      BY <2>10, <3>1, <3>2 DEF Accept
  <2>11. CASE Work
    BY <2>11, <2>4, <2>5, <2>6, <2>7 DEF Work
  <2> QED
    BY <2>8, <2>9, <2>10, <2>11 DEF Next
<1> QED
  BY <1>1, <1>2, PTL DEF Spec

(***************************************************************************)
(* The inductive invariant.  Insert is the only change of sessions, Revoke *)
(* the only change of revoked; every other step leaves the tables alone or *)
(* adds a user.                                                            *)
(***************************************************************************)
LEMMA NoParentIsNotRaw == \A t : Raw(t) # NoParent
  BY DEF Raw, NoParent

\* A fresh row keeps the tables in order when its parent, if it has one, is a
\* revoked token of the same user that has no other successor.
LEMMA InsertKeepsTables ==
  ASSUME TypeOK, TableInv,
         NEW t \in Tokens, Fresh(t), NEW u \in Ids, NEW parent \in Stored, NEW o,
         parent # NoParent =>
           /\ \E q \in sessions : q.token = parent.of /\ q.user = u /\ q.token \in revoked
           /\ \A r \in sessions : r.parent # parent,
         Insert(t, u, parent, o), UNCHANGED <<users, revoked, held>>
  PROVE  TableInv'
<1> DEFINE new == [token |-> t, user |-> u, parent |-> parent]
<1>1. sessions \subseteq sessions' /\ sessions' \subseteq sessions \cup {new}
  BY DEF Insert
<1>2. \A r \in sessions : r.token # t
  BY DEF Fresh, Issued
<1>3. TokensUnique'
  BY <1>1, <1>2 DEF TableInv, TokensUnique
<1>4. (revoked \subseteq Issued)'
  BY <1>1 DEF TableInv, Issued
<1>5. ExchangedOnce'
  BY <1>1 DEF TableInv, ExchangedOnce
<1>6. ParentRevoked'
  <2> SUFFICES ASSUME NEW r \in sessions', r.parent # NoParent
               PROVE  \E q \in sessions : /\ q.token = r.parent.of
                                          /\ q.user = r.user
                                          /\ q.token \in revoked
    BY <1>1 DEF ParentRevoked
  <2> QED
    BY <1>1 DEF TableInv, ParentRevoked
<1>7. AnsweredIsStored'
  <2> SUFFICES ASSUME NEW g \in inFlight' \cup held
               PROVE  \E r \in sessions' : r.token = g.token /\ r.user = g.sub
    BY DEF AnsweredIsStored
  <2>1. CASE g \in inFlight \cup held
    BY <2>1, <1>1 DEF TableInv, AnsweredIsStored
  <2>2. CASE g \notin inFlight \cup held
    <3>1. o = "ok" /\ g = [sub |-> u, token |-> t]
      BY <2>2 DEF Insert
    <3>2. new \in sessions'
      BY <3>1 DEF Insert
    <3> QED
      BY <3>1, <3>2
  <2> QED
    BY <2>1, <2>2
<1>8. SessionsHaveUsers'
  BY <1>1 DEF TableInv, SessionsHaveUsers, Ids
<1> QED
  BY <1>3, <1>4, <1>5, <1>6, <1>7, <1>8 DEF TableInv

\* The tables stay in order when no session changes, no user disappears and
\* no answer is added.
LEMMA QuietKeepsTables ==
  ASSUME TableInv, users \subseteq users', UNCHANGED <<sessions, revoked>>,
         inFlight' \cup held' \subseteq inFlight \cup held
  PROVE  TableInv'
  BY DEF TableInv, TokensUnique, Issued, ExchangedOnce, ParentRevoked,
         AnsweredIsStored, SessionsHaveUsers, Ids

LEMMA IdleRequest ==
  ASSUME request' = Idle
  PROVE  RequestInv'
  BY DEF RequestInv, Idle

LEMMA IInvInit == Init => IInv
  BY IdleType DEF Init, IInv, TypeOK, TableInv, RequestInv, TokensUnique, Issued,
                  ExchangedOnce, ParentRevoked, AnsweredIsStored, SessionsHaveUsers, Idle

\* Every step that is not stuttering, from a state where the invariant holds.
LEMMA StepKeepsTablesAndRequest ==
  ASSUME IInv, [Next]_vars
  PROVE  TableInv' /\ RequestInv'
<1> USE DEF tables, client
<1>0. TypeOK /\ TableInv /\ RequestInv
  BY DEF IInv
<1>1. ASSUME NEW l \in Logins, NEW p \in Passwords, NEW o \in Reads, Register(l, p, o)
      PROVE  TableInv' /\ RequestInv'
  <2>1. TableInv'
    BY <1>0, <1>1, QuietKeepsTables DEF Register
  <2>2. RequestInv'
    BY <1>1 DEF Register, RequestInv, Idle
  <2> QED
    BY <2>1, <2>2
<1>2. ASSUME NEW l \in Logins, NEW p \in Passwords, NEW o \in Reads, Login(l, p, o)
      PROVE  TableInv' /\ RequestInv'
  <2>1. TableInv'
    BY <1>0, <1>2, QuietKeepsTables DEF Login
  <2>2. CASE UNCHANGED request
    <3>1. request' = Idle
      BY <1>2, <2>2 DEF Login
    <3> QED
      BY <2>1, <3>1, IdleRequest
  <2>3. ASSUME NEW u \in users,
               request' = [Idle EXCEPT !.step = "saveSession", !.user = u.id]
        PROVE  RequestInv'
    <3>1. u.id \in Ids'
      BY <1>2 DEF Ids, Login
    <3> QED
      BY <2>3, <3>1 DEF RequestInv, Idle
  <2> QED
    BY <1>2, <2>1, <2>2, <2>3 DEF Login, Fetched
<1>3. ASSUME NEW sub, NEW t, NEW o \in Reads, Refresh(sub, t, o)
      PROVE  TableInv' /\ RequestInv'
  <2>1. TableInv'
    BY <1>0, <1>3, QuietKeepsTables DEF Refresh
  <2>2. CASE request' = Idle
    BY <2>1, <2>2, IdleRequest
  <2>3. CASE request' # Idle
    <3>1. /\ request' = [Idle EXCEPT !.step = "revoke", !.user = sub, !.token = t]
          /\ \E r \in FindSession(t) : r.user = sub
      BY <1>3, <2>3 DEF Refresh
    <3>2. /\ request'.step = "revoke"
          /\ request'.user = sub
          /\ request'.token = t
      BY <3>1 DEF Idle
    <3>3. UNCHANGED <<sessions, revoked>>
      BY <1>3 DEF Refresh
    <3>4. Owner' /\ t \notin revoked'
      BY <3>1, <3>2, <3>3 DEF FindSession, Owner
    <3> QED
      BY <2>1, <3>2, <3>4 DEF RequestInv
  <2> QED
    BY <2>1, <2>2, <2>3
<1>4. ASSUME NEW o \in Writes, SaveUser(o)
      PROVE  TableInv' /\ RequestInv'
  <2>1. users \subseteq users'
    BY <1>4 DEF SaveUser
  <2> QED
    BY <1>0, <1>4, <2>1, QuietKeepsTables, IdleRequest DEF SaveUser
<1>5. ASSUME NEW o \in Writes, Revoke(o)
      PROVE  TableInv' /\ RequestInv'
  <2>1. /\ Owner /\ request.token \notin revoked
        /\ request.token \in Issued
    BY <1>0, <1>5 DEF Revoke, RequestInv, Owner, Issued
  <2>2. revoked' = revoked \/ revoked' = revoked \cup {request.token}
    BY <1>5, <2>1 DEF Revoke, Owner
  <2>3. TableInv'
    BY <1>0, <1>5, <2>1, <2>2
       DEF Revoke, TableInv, TokensUnique, Issued, ExchangedOnce, ParentRevoked,
           AnsweredIsStored, SessionsHaveUsers, Ids
  <2>4. CASE o = "ok"
    <3>1. /\ request'.step = "insert"
          /\ request'.token = request.token
          /\ request'.user = request.user
      BY <1>0, <1>5, <2>4 DEF Revoke, TypeOK, Request
    <3>2. request.token \in revoked'
      BY <1>5, <2>1, <2>4 DEF Revoke, Owner
    <3>3. \A r \in sessions : r.parent # Raw(request.token)
      BY <1>0, <2>1, NoParentIsNotRaw DEF TableInv, ParentRevoked, Raw
    <3> QED
      BY <1>5, <2>1, <2>3, <3>1, <3>2, <3>3 DEF RequestInv, Owner, Revoke
  <2>5. CASE o # "ok"
    BY <1>5, <2>3, <2>5, IdleRequest DEF Revoke
  <2> QED
    BY <2>4, <2>5
<1>6. ASSUME NEW o \in Writes, NEW t \in Tokens, SaveSession(t, o)
      PROVE  TableInv' /\ RequestInv'
  <2>1. request.user \in Ids
    BY <1>0, <1>6 DEF SaveSession, RequestInv
  <2>2. NoParent \in Stored
    BY DEF NoParent, Stored
  <2> QED
    BY <1>0, <1>6, <2>1, <2>2, InsertKeepsTables, IdleRequest DEF SaveSession
<1>7. ASSUME NEW o \in Writes, NEW t \in Tokens, InsertChild(t, o)
      PROVE  TableInv' /\ RequestInv'
  <2>1. /\ Owner /\ request.token \in revoked
        /\ \A r \in sessions : r.parent # Raw(request.token)
    BY <1>0, <1>7 DEF InsertChild, RequestInv
  <2>2. request.user \in Ids /\ request.token \in Tokens
    BY <1>0, <2>1 DEF TableInv, SessionsHaveUsers, Owner, TypeOK
  <2>3. Raw(request.token) \in Stored /\ Raw(request.token).of = request.token
    BY <2>2 DEF Raw, Stored
  <2>4. \E q \in sessions : /\ q.token = Raw(request.token).of
                            /\ q.user = request.user
                            /\ q.token \in revoked
    BY <2>1, <2>3 DEF Owner
  <2>5. TableInv'
    BY <1>0, <1>7, <2>1, <2>2, <2>3, <2>4, InsertKeepsTables DEF InsertChild
  <2> QED
    BY <1>7, <2>5, IdleRequest DEF InsertChild
<1>8. CASE Environment
  <2>1. ASSUME NEW g \in inFlight, Deliver(g) \/ Lose(g)
        PROVE  TableInv' /\ RequestInv'
    BY <1>0, <2>1, QuietKeepsTables DEF Deliver, Lose, RequestInv, Owner, Ids
  <2>2. ASSUME NEW t \in Tokens, Expire(t)
        PROVE  TableInv' /\ RequestInv'
    BY <1>0, <2>2, QuietKeepsTables DEF Expire, RequestInv, Owner, Ids
  <2>3. CASE Crash
    BY <1>0, <2>3, QuietKeepsTables, IdleRequest DEF Crash
  <2> QED
    BY <1>8, <2>1, <2>2, <2>3 DEF Environment
<1>9. CASE UNCHANGED vars
  BY <1>0, <1>9, QuietKeepsTables DEF vars, RequestInv, Owner, Ids
<1>10. CASE Accept
  BY <1>10, <1>1, <1>2, <1>3 DEF Accept
<1>11. CASE Work
  BY <1>11, <1>4, <1>5, <1>6, <1>7 DEF Work
<1> QED
  BY <1>8, <1>9, <1>10, <1>11 DEF Next

\* The tables and the request under way agree at all times, for every number
\* of logins, users, tokens, failures and crashes.
THEOREM Consistent == Spec => []IInv
<1>1. IInv /\ TypeOK' /\ [Next]_vars => IInv'
  BY StepKeepsTablesAndRequest DEF IInv
<1> QED
  BY IInvInit, <1>1, TypeCorrect, PTL DEF Spec

\* A refresh token is exchanged at most once.
THEOREM ExchangedOnceCorrect == Spec => []ExchangedOnce
<1>1. IInv => ExchangedOnce
  BY DEF IInv, TableInv
<1> QED
  BY Consistent, <1>1, PTL

\* An exchanged token is revoked and stays with its user.
THEOREM ParentRevokedCorrect == Spec => []ParentRevoked
<1>1. IInv => ParentRevoked
  BY DEF IInv, TableInv
<1> QED
  BY Consistent, <1>1, PTL

\* No answer outruns the commit of the row it carries.
THEOREM AnsweredIsStoredCorrect == Spec => []AnsweredIsStored
<1>1. IInv => AnsweredIsStored
  BY DEF IInv, TableInv
<1> QED
  BY Consistent, <1>1, PTL

\* Every session belongs to a registered user.
THEOREM SessionsHaveUsersCorrect == Spec => []SessionsHaveUsers
<1>1. IInv => SessionsHaveUsers
  BY DEF IInv, TableInv
<1> QED
  BY Consistent, <1>1, PTL

(***************************************************************************)
(* Revoked tokens without a successor, and duplicate logins.               *)
(***************************************************************************)
LEMMA RevokedStep ==
  ASSUME IInv, RevokedIsExchanged, [Next]_vars
  PROVE  RevokedIsExchanged'
<1> USE DEF tables, client
<1>0. TypeOK /\ RequestInv
  BY DEF IInv
<1>1. ASSUME UNCHANGED <<sessions, revoked>>, severed \subseteq severed',
             request.step = "insert" => UNCHANGED request \/ request.token \in severed'
      PROVE  RevokedIsExchanged'
  BY <1>1 DEF RevokedIsExchanged
<1>2. CASE Accept
  <2>1. request = Idle /\ UNCHANGED <<sessions, revoked, severed>>
    BY <1>2 DEF Accept, Register, Login, Refresh
  <2>2. request.step # "insert"
    BY <2>1 DEF Idle
  <2> QED
    BY <1>1, <2>1, <2>2
<1>3. ASSUME NEW o \in Writes, SaveUser(o)
      PROVE  RevokedIsExchanged'
  BY <1>1, <1>3 DEF SaveUser
<1>4. ASSUME NEW o \in Writes, Revoke(o)
      PROVE  RevokedIsExchanged'
  <2>1. revoked' \subseteq revoked \cup {request.token}
    BY <1>4 DEF Revoke
  <2>2. CASE o = "ok"
    <3>1. request'.step = "insert" /\ request'.token = request.token
      BY <1>0, <1>4, <2>2 DEF Revoke, TypeOK, Request
    <3> QED
      BY <1>4, <2>1, <2>2, <3>1 DEF Revoke, RevokedIsExchanged
  <2>3. CASE o # "ok"
    <3>1. CASE o = "failed"
      BY <1>4, <3>1 DEF Revoke, RevokedIsExchanged
    <3>2. CASE o = "inDoubt"
      BY <1>4, <2>1, <3>2 DEF Revoke, RevokedIsExchanged
    <3> QED
      BY <2>3, <3>1, <3>2 DEF Writes
  <2> QED
    BY <2>2, <2>3
<1>5. ASSUME NEW o \in Writes, NEW t \in Tokens, SaveSession(t, o)
      PROVE  RevokedIsExchanged'
  BY <1>5 DEF SaveSession, Insert, RevokedIsExchanged
<1>6. ASSUME NEW o \in Writes, NEW t \in Tokens, InsertChild(t, o)
      PROVE  RevokedIsExchanged'
  <2>1. CASE o = "failed"
    BY <1>6, <2>1 DEF InsertChild, Insert, RevokedIsExchanged
  <2>2. CASE o # "failed"
    <3> DEFINE new == [token |-> t, user |-> request.user, parent |-> Raw(request.token)]
    <3>1. sessions' = sessions \cup {new}
      BY <1>6, <2>2 DEF InsertChild, Insert
    <3>2. new \in sessions' /\ new.parent.of = request.token
      BY <3>1 DEF Raw
    <3> HIDE DEF new
    <3> QED
      BY <1>6, <2>2, <3>1, <3>2 DEF InsertChild, RevokedIsExchanged
  <2> QED
    BY <2>1, <2>2
<1>7. CASE Environment
  BY <1>1, <1>7 DEF Environment, Deliver, Lose, Expire, Crash
<1>8. CASE UNCHANGED vars
  BY <1>1, <1>8 DEF vars
<1> QED
  BY <1>2, <1>3, <1>4, <1>5, <1>6, <1>7, <1>8 DEF Next, Work

\* Only an exchange cut short leaves a revoked token without a successor.
THEOREM RevokedIsExchangedCorrect == Spec => []RevokedIsExchanged
<1>1. Init => RevokedIsExchanged
  BY DEF Init, RevokedIsExchanged
<1> QED
  BY <1>1, RevokedStep, Consistent, PTL DEF Spec

LEMMA UsersStep ==
  ASSUME TypeOK, UsersInv, DuplicateOnlyIfUnseen, [Next]_vars
  PROVE  UsersInv' /\ DuplicateOnlyIfUnseen'
<1> USE DEF tables, client
<1>1. ASSUME UNCHANGED users, blind \subseteq blind', UNCHANGED request \/ request'.step # "saveUser"
      PROVE  UsersInv' /\ DuplicateOnlyIfUnseen'
  BY <1>1 DEF UsersInv, DuplicateOnlyIfUnseen, LooksItselfUp, Rows
<1>2. ASSUME NEW l \in Logins, NEW p \in Passwords, NEW o \in Reads, Register(l, p, o)
      PROVE  UsersInv' /\ DuplicateOnlyIfUnseen'
  <2>1. UNCHANGED users /\ blind \subseteq blind'
    BY <1>2 DEF Register
  <2>2. CASE request' = Idle
    BY <1>1, <2>1, <2>2 DEF Idle
  <2>3. CASE request' # Idle
    <3>1. request'.step = "saveUser" /\ request'.login = l
      BY <1>2, <2>3 DEF Register, Idle
    <3>2. l \notin blind' => /\ l \notin blind
                            /\ Fetched(l) = {}
      BY <1>2, <2>3 DEF Register, Reads
    <3>3. l \notin blind' /\ LooksItselfUp(l) => Rows(l) = {}
      <4>1. LooksItselfUp(l) => Selected(l) = Rows(l)
        BY DEF LooksItselfUp, Selected, Rows
      <4>2. l \notin blind /\ LooksItselfUp(l) => \A r, q \in Rows(l) : r = q
        BY DEF UsersInv, DuplicateOnlyIfUnseen, Rows
      <4>3. ASSUME l \notin blind, LooksItselfUp(l), NEW r \in Rows(l)
            PROVE  r \in Fetched(l)
        BY <4>1, <4>2, <4>3 DEF Fetched, Found, Rows
      <4> QED
        BY <3>2, <4>3
    <3> QED
      BY <2>1, <3>1, <3>3 DEF UsersInv, DuplicateOnlyIfUnseen, LooksItselfUp, Rows
  <2> QED
    BY <2>2, <2>3
<1>3. ASSUME NEW l \in Logins, NEW p \in Passwords, NEW o \in Reads, Login(l, p, o)
      PROVE  UsersInv' /\ DuplicateOnlyIfUnseen'
  <2>1. request'.step # "saveUser"
    <3>1. CASE UNCHANGED request
      BY <1>3, <3>1 DEF Login, Idle
    <3>2. ASSUME NEW u \in users,
                 request' = [Idle EXCEPT !.step = "saveSession", !.user = u.id]
          PROVE  request'.step # "saveUser"
      BY <3>2 DEF Idle
    <3> QED
      BY <1>3, <3>1, <3>2 DEF Login, Fetched
  <2> QED
    BY <1>1, <1>3, <2>1 DEF Login
<1>4. ASSUME NEW sub, NEW t, NEW o \in Reads, Refresh(sub, t, o)
      PROVE  UsersInv' /\ DuplicateOnlyIfUnseen'
  <2>1. request'.step # "saveUser"
    BY <1>4 DEF Refresh, Idle
  <2> QED
    BY <1>1, <1>4, <2>1 DEF Refresh
<1>5. ASSUME NEW o \in Writes, SaveUser(o)
      PROVE  UsersInv' /\ DuplicateOnlyIfUnseen'
  <2>1. request'.step # "saveUser"
    BY <1>5 DEF SaveUser, Idle
  <2>2. CASE UNCHANGED users
    BY <1>1, <1>5, <2>1, <2>2 DEF SaveUser
  <2>3. ASSUME NEW i \in UserIds \ Ids,
               users' = users \cup {[id |-> i, login |-> request.login,
                                     password |-> request.password]}
        PROVE  UsersInv' /\ DuplicateOnlyIfUnseen'
    <3>1. \A r \in users : r.id # i
      BY DEF Ids
    <3>2. request.login \notin blind /\ LooksItselfUp(request.login)
            => \A r \in users : r.login # request.login
      BY <1>5 DEF UsersInv, SaveUser, Rows
    <3>3. UsersInv'
      BY <2>1, <2>3, <3>1 DEF UsersInv
    <3>4. DuplicateOnlyIfUnseen'
      BY <1>5, <2>3, <3>2 DEF DuplicateOnlyIfUnseen, LooksItselfUp, SaveUser
    <3> QED
      BY <3>3, <3>4
  <2> QED
    BY <1>5, <2>2, <2>3 DEF SaveUser
<1>6. ASSUME NEW o \in Writes,
             Revoke(o) \/ \E t \in Tokens : SaveSession(t, o) \/ InsertChild(t, o)
      PROVE  UsersInv' /\ DuplicateOnlyIfUnseen'
  <2>1. UNCHANGED <<users, blind>>
    BY <1>6 DEF Revoke, SaveSession, InsertChild
  <2>2. request'.step # "saveUser"
    BY <1>6 DEF Revoke, SaveSession, InsertChild, Idle, TypeOK, Request
  <2> QED
    BY <1>1, <2>1, <2>2
<1>7. CASE Environment
  <2>1. UNCHANGED <<users, blind>>
    BY <1>7 DEF Environment, Deliver, Lose, Expire, Crash
  <2>2. UNCHANGED request \/ request'.step # "saveUser"
    BY <1>7 DEF Environment, Deliver, Lose, Expire, Crash, Idle
  <2> QED
    BY <1>1, <2>1, <2>2
<1>8. CASE UNCHANGED vars
  BY <1>1, <1>8 DEF vars
<1>9. CASE Accept
  BY <1>9, <1>2, <1>3, <1>4 DEF Accept
<1> QED
  BY <1>5, <1>6, <1>7, <1>8, <1>9 DEF Next, Work

\* Only a registration that could not see its login makes a duplicate: the lookup
\* failed, or asked for something else than what saveUser stores.
THEOREM DuplicateOnlyIfUnseenCorrect == Spec => []DuplicateOnlyIfUnseen
<1>1. Init => UsersInv /\ DuplicateOnlyIfUnseen
  BY DEF Init, UsersInv, DuplicateOnlyIfUnseen, Idle
<1> QED
  BY <1>1, UsersStep, TypeCorrect, PTL DEF Spec
-----------------------------------------------------------------------------
(***************************************************************************)
(* No replay: what the two transactions of an exchange leave behind.       *)
(***************************************************************************)
Successors(t) == {r.token : r \in {q \in sessions : q.parent = Raw(t)}}

\* A refresh token that was used up, in an exchange that ended well or in one that
\* was cut short, is used up for good: no retry, lost answer, failed transaction or
\* crash starts another exchange of it or gives it a successor later on
\* (validateToken and rotateRefreshToken).
NoReplay ==
  [][\A t \in SpentTokens : t \in SpentTokens' /\ Successors(t)' = Successors(t)]_vars

LEMMA SpentStep ==
  ASSUME IInv, [Next]_vars, NEW t \in SpentTokens
  PROVE  t \in SpentTokens' /\ Successors(t)' = Successors(t)
<1> USE DEF tables, client
<1>0. t \in revoked /\ ~InExchange(t) /\ TypeOK /\ RequestInv
  BY DEF SpentTokens, IInv
<1>1. ASSUME UNCHANGED sessions, revoked \subseteq revoked', ~InExchange(t)'
      PROVE  t \in SpentTokens' /\ Successors(t)' = Successors(t)
  BY <1>0, <1>1 DEF SpentTokens, Successors
<1>2. CASE Accept
  <2>1. UNCHANGED <<sessions, revoked>>
    BY <1>2 DEF Accept, Register, Login, Refresh
  <2>2. request'.step # "insert"
    <3>1. CASE \E l \in Logins, p \in Passwords, o \in Reads : Register(l, p, o)
      BY <3>1 DEF Register, Idle
    <3>2. CASE \E l \in Logins, p \in Passwords, o \in Reads : Login(l, p, o)
      <4>1. CASE UNCHANGED request
        <5>1. request = Idle
          BY <3>2 DEF Login
        <5> QED
          BY <4>1, <5>1 DEF Idle
      <4>2. ASSUME NEW u, request' = [Idle EXCEPT !.step = "saveSession", !.user = u.id]
            PROVE  request'.step # "insert"
        BY <4>2 DEF Idle
      <4> QED
        BY <3>2, <4>1, <4>2 DEF Login
    <3>3. CASE \E sub, q, o : Refresh(sub, q, o)
      BY <3>3 DEF Refresh, Idle
    <3> QED
      BY <1>2, <3>1, <3>2, <3>3 DEF Accept
  <2> QED
    BY <1>1, <2>1, <2>2 DEF InExchange
<1>3. ASSUME NEW o \in Writes, SaveUser(o)
      PROVE  t \in SpentTokens' /\ Successors(t)' = Successors(t)
  BY <1>1, <1>3 DEF SaveUser, InExchange, Idle
<1>4. ASSUME NEW o \in Writes, Revoke(o)
      PROVE  t \in SpentTokens' /\ Successors(t)' = Successors(t)
  <2>1. request.token \notin revoked
    BY <1>0, <1>4 DEF RequestInv, Revoke
  <2>2. request'.token = request.token \/ request' = Idle
    BY <1>0, <1>4 DEF Revoke, TypeOK, Request
  <2>3. ~InExchange(t)'
    BY <1>0, <2>1, <2>2 DEF InExchange, Idle
  <2> QED
    BY <1>1, <1>4, <2>3 DEF Revoke
<1>5. ASSUME NEW o \in Writes, NEW n \in Tokens, SaveSession(n, o) \/ InsertChild(n, o)
      PROVE  t \in SpentTokens' /\ Successors(t)' = Successors(t)
  <2>1. revoked' = revoked /\ request' = Idle
    BY <1>5 DEF SaveSession, InsertChild
  <2>2. ASSUME NEW q \in sessions' \ sessions
        PROVE  q.parent # Raw(t)
    <3>1. CASE SaveSession(n, o)
      BY <3>1, <2>2, NoParentIsNotRaw DEF SaveSession, Insert
    <3>2. CASE InsertChild(n, o)
      <4>1. request.token # t
        BY <1>0, <3>2 DEF InsertChild, InExchange
      <4> QED
        BY <2>2, <3>2, <4>1 DEF InsertChild, Insert, Raw
    <3> QED
      BY <1>5, <3>1, <3>2
  <2>3. sessions \subseteq sessions'
    BY <1>5 DEF SaveSession, InsertChild, Insert
  <2> QED
    BY <1>0, <2>1, <2>2, <2>3 DEF SpentTokens, Successors, InExchange, Idle
<1>6. CASE Environment \/ UNCHANGED vars
  BY <1>0, <1>1, <1>6 DEF Environment, Deliver, Lose, Expire, Crash, InExchange, Idle, vars
<1> QED
  BY <1>2, <1>3, <1>4, <1>5, <1>6 DEF Next, Work

\* A refresh token that was used up stays used up (rotateRefreshToken).
THEOREM NoReplayHolds == Spec => NoReplay
<1>1. IInv /\ [Next]_vars
      => [\A t \in SpentTokens : t \in SpentTokens' /\ Successors(t)' = Successors(t)]_vars
  BY SpentStep
<1> QED
  BY <1>1, Consistent, PTL DEF Spec, NoReplay
-----------------------------------------------------------------------------
(***************************************************************************)
(* Chains: a row that continues a chain of its user is in every set of     *)
(* sessions that has the logins' rows and is closed under exchanges.       *)
(***************************************************************************)
LEMMA ChainsInsert ==
  ASSUME ChainsStartAtLogins, NEW new, sessions' = sessions \cup {new},
         \/ new.parent = NoParent
         \/ \E q \in sessions : new.parent = Raw(q.token) /\ new.user = q.user
  PROVE  ChainsStartAtLogins'
<1> SUFFICES ASSUME NEW S \in SUBSET sessions', Closed(S)'
             PROVE  S = sessions'
  BY DEF ChainsStartAtLogins
<1> DEFINE Old == S \cap sessions
<1>1. Closed(Old)
  BY DEF Closed
<1>2. Old = sessions
  BY <1>1 DEF ChainsStartAtLogins
<1>3. new \in S
  BY <1>2 DEF Closed
<1> QED
  BY <1>2, <1>3

LEMMA ChainsStep ==
  ASSUME IInv, ChainsStartAtLogins, [Next]_vars
  PROVE  ChainsStartAtLogins'
<1> USE DEF tables, client
<1>1. ASSUME UNCHANGED sessions
      PROVE  ChainsStartAtLogins'
  BY <1>1 DEF ChainsStartAtLogins, Closed
<1>2. ASSUME NEW o \in Writes, NEW t \in Tokens, SaveSession(t, o)
      PROVE  ChainsStartAtLogins'
  <2> DEFINE new == [token |-> t, user |-> request.user, parent |-> NoParent]
  <2>1. sessions' = sessions \/ sessions' = sessions \cup {new}
    BY <1>2 DEF SaveSession, Insert
  <2>2. new.parent = NoParent
    OBVIOUS
  <2> HIDE DEF new
  <2> QED
    BY <1>1, <2>1, <2>2, ChainsInsert
<1>3. ASSUME NEW o \in Writes, NEW t \in Tokens, InsertChild(t, o)
      PROVE  ChainsStartAtLogins'
  <2> DEFINE new == [token |-> t, user |-> request.user, parent |-> Raw(request.token)]
  <2>1. sessions' = sessions \/ sessions' = sessions \cup {new}
    BY <1>3 DEF InsertChild, Insert
  <2>2. \E q \in sessions : new.parent = Raw(q.token) /\ new.user = q.user
    BY <1>3 DEF IInv, RequestInv, Owner, InsertChild
  <2> HIDE DEF new
  <2> QED
    BY <1>1, <2>1, <2>2, ChainsInsert
<1>4. CASE Accept \/ Environment \/ UNCHANGED vars \/ (\E o \in Writes : SaveUser(o) \/ Revoke(o))
  BY <1>1, <1>4 DEF Accept, Register, Login, Refresh, Environment, Deliver, Lose, Expire,
     Crash, SaveUser, Revoke, vars
<1> QED
  BY <1>2, <1>3, <1>4 DEF Next, Work

\* Every refresh token descends from a login of its user (sessions1.parent_token_hash).
THEOREM ChainsStartAtLoginsCorrect == Spec => []ChainsStartAtLogins
<1>1. Init => ChainsStartAtLogins
  BY DEF Init, ChainsStartAtLogins
<1> QED
  BY <1>1, ChainsStep, Consistent, PTL DEF Spec
-----------------------------------------------------------------------------
\* What the proof of RequestsEnd needs of a step, whatever the outcome.
LEMMA StepsLeftStep ==
  ASSUME TypeOK, [Next]_vars
  PROVE  /\ Work => StepsLeft' < StepsLeft
         /\ StepsLeft' > StepsLeft => request.step = "idle"
<1> USE DEF tables, client
<1>1. request.step \in Steps /\ StepsLeft \in {0, 1, 2}
  BY DEF TypeOK, Request, StepsLeft
<1>2. ASSUME Work
      PROVE  StepsLeft' < StepsLeft
  <2>1. CASE \E o \in Writes : Revoke(o)
    <3>1. request.step = "revoke" /\ request'.step \in {"insert", "idle"}
      BY <2>1 DEF Revoke, Idle, TypeOK, Request
    <3> QED
      BY <3>1 DEF StepsLeft
  <2>2. CASE \E o \in Writes : SaveUser(o) \/ \E t \in Tokens : SaveSession(t, o) \/ InsertChild(t, o)
    <3>1. request.step \in {"saveUser", "saveSession", "insert"} /\ request'.step = "idle"
      BY <2>2 DEF SaveUser, SaveSession, InsertChild, Idle
    <3> QED
      BY <3>1 DEF StepsLeft
  <2> QED
    BY <1>2, <2>1, <2>2 DEF Work
<1>3. ASSUME ~Work, request.step # "idle"
      PROVE  ~(StepsLeft' > StepsLeft)
  <2>1. ~Accept
    <3>1. Accept => request = Idle
      BY DEF Accept, Register, Login, Refresh
    <3> QED
      BY <1>3, <3>1 DEF Idle
  <2>2. request' = request \/ request' = Idle
    BY <1>3, <2>1 DEF Next, Environment, Deliver, Lose, Expire, Crash, vars
  <2>3. StepsLeft' = StepsLeft \/ StepsLeft' = 0
    BY <2>2 DEF StepsLeft, Idle
  <2> QED
    BY <1>1, <2>3
<1>4. ASSUME Work
      PROVE  ~(StepsLeft' > StepsLeft)
  <2>1. StepsLeft' \in {0, 1, 2}
    BY DEF StepsLeft
  <2> QED
    BY <1>1, <1>2, <1>4, <2>1
<1> QED
  BY <1>2, <1>3, <1>4

\* A request comes to an end within three transactions (the chains of AuthService).
\* No request retries or interrupts: each of its transactions leaves fewer to run.
THEOREM RequestsEndHolds == Spec => RequestsEnd
<1>1. TypeOK /\ [Next]_vars
      => [/\ Work => StepsLeft' < StepsLeft
          /\ StepsLeft' > StepsLeft => request.step = "idle"]_vars
  BY StepsLeftStep
<1> QED
  BY <1>1, TypeCorrect, PTL DEF Spec, RequestsEnd
=============================================================================
