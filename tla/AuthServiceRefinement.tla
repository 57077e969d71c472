----------------------- MODULE AuthServiceRefinement -----------------------
(***************************************************************************)
(* AuthService implements RefreshChain for every value of the constants:   *)
(* the revocation, the new row, their failures and the crashes between     *)
(* them amount to an atomic exchange or to the loss of the token.          *)
(***************************************************************************)
EXTENDS AuthServiceProofs

\* A step that changes neither the rows nor the exchange under way is a stutter.
LEMMA SameTables ==
  ASSUME UNCHANGED <<sessions, revoked>>,
         request' = request \/ (request.step # "insert" /\ request'.step # "insert")
  PROVE  UNCHANGED Chain!vars
<1>1. \A t : InExchange(t)' <=> InExchange(t)
  BY DEF InExchange
<1>2. LivePairs' = LivePairs
  BY <1>1 DEF LivePairs
<1>3. SpentTokens' = SpentTokens
  BY <1>1 DEF SpentTokens
<1> QED
  BY <1>2, <1>3 DEF Chain!vars

LEMMA SameState ==
  ASSUME UNCHANGED <<sessions, revoked, request>>
  PROVE  UNCHANGED Chain!vars
  BY DEF LivePairs, SpentTokens, InExchange, Chain!vars

\* While a token is in exchange its owner's pair is live, and no other is.
LEMMA InExchangeIsLive ==
  ASSUME IInv, request.step = "insert"
  PROVE  /\ [user |-> request.user, token |-> request.token] \in LivePairs
         /\ \A p \in LivePairs : p.token = request.token =>
              p = [user |-> request.user, token |-> request.token]
<1>1. PICK r \in sessions : r.token = request.token /\ r.user = request.user
  BY DEF IInv, RequestInv, Owner
<1>2. InExchange(r.token)
  BY <1>1 DEF InExchange
<1>3. \A q \in sessions : q.token = r.token => q = r
  BY DEF IInv, TableInv, TokensUnique
<1> QED
  BY <1>1, <1>2, <1>3 DEF LivePairs

\* A fresh token is unused in the abstract state.
LEMMA FreshIsUnused ==
  ASSUME IInv, NEW t, Fresh(t)
  PROVE  t \notin Chain!Used
<1>1. \A p \in LivePairs : p.token \in Issued
  BY DEF LivePairs, Issued
<1>2. SpentTokens \subseteq Issued
  BY DEF SpentTokens, IInv, TableInv
<1> QED
  BY <1>1, <1>2 DEF Chain!Used, Fresh

\* The end of an exchange without a new row kills the token.
LEMMA EndIsKill ==
  ASSUME IInv, request.step = "insert", request'.step # "insert",
         UNCHANGED <<sessions, revoked>>
  PROVE  Chain!Next
<1> DEFINE p == [user |-> request.user, token |-> request.token]
<1>1. p \in LivePairs
  BY InExchangeIsLive
<1>2. request.token \in revoked
  BY DEF IInv, RequestInv
<1>3. \A t : InExchange(t) <=> t = request.token
  BY DEF InExchange
<1>4. \A t : ~InExchange(t)'
  BY DEF InExchange
<1>5. SpentTokens' = SpentTokens \cup {request.token}
  BY <1>2, <1>3, <1>4 DEF SpentTokens
<1>6. LivePairs' = LivePairs \ {p}
  <2>1. ASSUME NEW x \in LivePairs', x \notin LivePairs \ {p}
        PROVE  FALSE
    BY <1>2, <1>3, <1>4, <2>1 DEF LivePairs
  <2>2. ASSUME NEW x \in LivePairs \ {p}
        PROVE  x \in LivePairs'
    <3>1. x.token # request.token
      BY <2>2, InExchangeIsLive
    <3>2. PICK r \in sessions : /\ x = [user |-> r.user, token |-> r.token]
                                /\ r.token \notin revoked \/ InExchange(r.token)
      BY <2>2 DEF LivePairs
    <3>3. r.token \notin revoked
      BY <1>3, <3>1, <3>2
    <3> QED
      BY <3>2, <3>3 DEF LivePairs
  <2> QED
    BY <2>1, <2>2
<1>7. Chain!Kill(p)
  BY <1>5, <1>6 DEF Chain!Kill
<1> QED
  BY <1>1, <1>7 DEF Chain!Next

\* Revoking is a stutter when the exchange goes on, and a kill when the commit
\* is in doubt.
LEMMA RevokeImplements ==
  ASSUME IInv, NEW o \in Writes, Revoke(o)
  PROVE  Chain!Next \/ UNCHANGED Chain!vars
<1> DEFINE p == [user |-> request.user, token |-> request.token]
<1>1. PICK r \in sessions : r.token = request.token /\ r.user = request.user
  BY DEF IInv, RequestInv, Owner, Revoke
<1>2. request.token \notin revoked
  BY DEF IInv, RequestInv, Revoke
<1>3. \A t : ~InExchange(t)
  BY DEF InExchange, Revoke
<1>4. UNCHANGED sessions
  BY DEF Revoke
<1>5. CASE o = "failed"
  <2>1. request'.step # "insert" /\ UNCHANGED revoked
    BY <1>5 DEF Revoke, Idle
  <2> QED
    BY <1>4, <2>1, SameTables DEF Revoke
<1>6. CASE o = "ok"
  <2>1. revoked' = revoked \cup {request.token}
    BY <1>1, <1>6 DEF Revoke
  <2>2. request'.step = "insert" /\ request'.token = request.token
    BY <1>6 DEF Revoke, IInv, TypeOK, Request
  <2>3. \A t : InExchange(t)' <=> t = request.token
    BY <2>2 DEF InExchange
  <2>4. SpentTokens' = SpentTokens
    BY <1>2, <1>3, <2>1, <2>3 DEF SpentTokens
  <2>5. \A q \in sessions :
          (q.token \notin revoked' \/ InExchange(q.token)')
            <=> (q.token \notin revoked \/ InExchange(q.token))
    BY <1>2, <1>3, <2>1, <2>3
  <2>6. LivePairs' = LivePairs
    BY <1>4, <2>5 DEF LivePairs
  <2> QED
    BY <2>4, <2>6 DEF Chain!vars
<1>7. CASE o = "inDoubt"
  <2>1. revoked' = revoked \cup {request.token}
    BY <1>1, <1>7 DEF Revoke
  <2>2. \A t : ~InExchange(t)'
    BY <1>7 DEF InExchange, Revoke, Idle
  <2>3. p \in LivePairs
    BY <1>1, <1>2 DEF LivePairs
  <2>4. SpentTokens' = SpentTokens \cup {request.token}
    BY <1>3, <2>1, <2>2 DEF SpentTokens
  <2>5. \A q \in sessions : q.token = request.token => q.user = request.user
    BY <1>1 DEF IInv, TableInv, TokensUnique
  <2>6. LivePairs' = LivePairs \ {p}
    <3>1. \A x : x \in LivePairs' <=>
            \E q \in sessions : /\ x = [user |-> q.user, token |-> q.token]
                               /\ q.token \notin revoked /\ q.token # request.token
      BY <1>4, <2>1, <2>2 DEF LivePairs
    <3>2. \A x : x \in LivePairs <=>
            \E q \in sessions : /\ x = [user |-> q.user, token |-> q.token]
                               /\ q.token \notin revoked
      BY <1>3 DEF LivePairs
    <3>3. ASSUME NEW x
          PROVE  x \in LivePairs' <=> x \in LivePairs \ {p}
      BY <2>5, <3>1, <3>2
    <3> QED
      BY <3>3
  <2>7. Chain!Kill(p)
    BY <2>4, <2>6 DEF Chain!Kill
  <2> QED
    BY <2>3, <2>7 DEF Chain!Next
<1> QED
  BY <1>5, <1>6, <1>7 DEF Writes

\* The row of a login opens a chain.
LEMMA SaveSessionImplements ==
  ASSUME IInv, NEW o \in Writes, NEW t \in Tokens, SaveSession(t, o)
  PROVE  Chain!Next \/ UNCHANGED Chain!vars
<1> DEFINE p == [user |-> request.user, token |-> t]
           new == [token |-> t, user |-> request.user, parent |-> NoParent]
<1>1. /\ request.step # "insert" /\ request'.step # "insert"
      /\ UNCHANGED revoked
  BY DEF SaveSession, Idle
<1>2. CASE o = "failed"
  <2>1. UNCHANGED sessions
    BY <1>2 DEF SaveSession, Insert
  <2> QED
    BY <1>1, <2>1, SameTables
<1>3. CASE o # "failed"
  <2>1. sessions' = sessions \cup {new}
    BY <1>3 DEF SaveSession, Insert
  <2>2. \A x : ~InExchange(x) /\ ~InExchange(x)'
    BY <1>1 DEF InExchange
  <2>3. SpentTokens' = SpentTokens
    BY <1>1, <2>2 DEF SpentTokens
  <2>4. t \notin revoked
    BY DEF IInv, TableInv, SaveSession, Fresh
  <2>5. LivePairs' = LivePairs \cup {p}
    <3>1. LivePairs' = {[user |-> r.user, token |-> r.token] :
                          r \in {q \in sessions \cup {new} : q.token \notin revoked}}
      BY <1>1, <2>1, <2>2 DEF LivePairs
    <3>2. LivePairs = {[user |-> r.user, token |-> r.token] :
                         r \in {q \in sessions : q.token \notin revoked}}
      BY <2>2 DEF LivePairs
    <3>3. /\ new.token = t /\ new.user = request.user
          /\ {q \in sessions \cup {new} : q.token \notin revoked}
               = {q \in sessions : q.token \notin revoked} \cup {new}
      BY <2>4
    <3> HIDE DEF new
    <3> QED
      BY <3>1, <3>2, <3>3
  <2>6. request.user \in UserIds
    BY DEF IInv, TypeOK, Request, SaveSession
  <2>7. Chain!Open(request.user, t)
    BY <2>3, <2>5, FreshIsUnused DEF Chain!Open, SaveSession
  <2> QED
    BY <2>6, <2>7 DEF Chain!Next
<1> QED
  BY <1>2, <1>3

\* The row of a rotation completes the exchange; its failure kills the token.
LEMMA InsertChildImplements ==
  ASSUME IInv, NEW o \in Writes, NEW t \in Tokens, InsertChild(t, o)
  PROVE  Chain!Next
<1> DEFINE p == [user |-> request.user, token |-> request.token]
           n == [user |-> request.user, token |-> t]
           new == [token |-> t, user |-> request.user, parent |-> Raw(request.token)]
<1>1. /\ request.step = "insert" /\ request'.step # "insert"
      /\ UNCHANGED revoked
  BY DEF InsertChild, Idle
<1>2. CASE o = "failed"
  <2>1. UNCHANGED sessions
    BY <1>2 DEF InsertChild, Insert
  <2> QED
    BY <1>1, <2>1, EndIsKill
<1>3. CASE o # "failed"
  <2>1. sessions' = sessions \cup {new}
    BY <1>3 DEF InsertChild, Insert
  <2>2. p \in LivePairs
    BY <1>1, InExchangeIsLive
  <2>3. request.token \in revoked
    BY <1>1 DEF IInv, RequestInv
  <2>4. /\ \A x : InExchange(x) <=> x = request.token
        /\ \A x : ~InExchange(x)'
    BY <1>1 DEF InExchange
  <2>5. SpentTokens' = SpentTokens \cup {request.token}
    BY <1>1, <2>3, <2>4 DEF SpentTokens
  <2>6. \A q \in sessions : q.token = request.token => q.user = request.user
    BY <1>1 DEF IInv, TableInv, RequestInv, Owner, TokensUnique
  <2>7. t \notin revoked
    BY DEF IInv, TableInv, InsertChild, Fresh
  <2>8. LivePairs' = (LivePairs \ {p}) \cup {n}
    <3>1. LivePairs' = {[user |-> r.user, token |-> r.token] :
                          r \in {q \in sessions \cup {new} : q.token \notin revoked}}
      BY <1>1, <2>1, <2>4 DEF LivePairs
    <3>2. {q \in sessions : q.token \notin revoked \/ InExchange(q.token)} =
            {q \in sessions : q.token \notin revoked \/ q.token = request.token}
      BY <2>4
    <3>3. LivePairs = {[user |-> r.user, token |-> r.token] :
            r \in {q \in sessions : q.token \notin revoked \/ q.token = request.token}}
      BY <3>2 DEF LivePairs
    <3>4. /\ new.token = t /\ new.user = request.user
          /\ {q \in sessions \cup {new} : q.token \notin revoked}
               = {q \in sessions : q.token \notin revoked} \cup {new}
      BY <2>7
    <3> HIDE DEF new
    <3>5. \A q \in sessions : q.token \notin revoked => q.token # request.token
      BY <2>3
    <3> QED
      BY <2>6, <3>1, <3>3, <3>4, <3>5
  <2>9. Chain!Exchange(p, t)
    BY <2>5, <2>8, FreshIsUnused DEF Chain!Exchange, InsertChild
  <2> QED
    BY <2>2, <2>9 DEF Chain!Next
<1> QED
  BY <1>2, <1>3

LEMMA StepImplements ==
  ASSUME IInv, [Next]_vars
  PROVE  [Chain!Next]_Chain!vars
<1> USE DEF tables, client
<1>1. CASE Accept
  <2>1. request = Idle /\ UNCHANGED <<sessions, revoked>>
    BY <1>1 DEF Accept, Register, Login, Refresh
  <2>2. request'.step # "insert"
    <3>1. ASSUME NEW l \in Logins, NEW p \in Passwords, NEW o \in Reads, Register(l, p, o)
          PROVE  request'.step # "insert"
      BY <3>1 DEF Register, Idle
    <3>2. ASSUME NEW l \in Logins, NEW p \in Passwords, NEW o \in Reads, Login(l, p, o)
          PROVE  request'.step # "insert"
      <4>1. UNCHANGED request \/ \E u \in users :
              request' = [Idle EXCEPT !.step = "saveSession", !.user = u.id]
        BY <3>2 DEF Login, Fetched
      <4>2. CASE UNCHANGED request
        BY <2>1, <4>2 DEF Idle
      <4>3. ASSUME NEW u \in users,
                   request' = [Idle EXCEPT !.step = "saveSession", !.user = u.id]
            PROVE  request'.step # "insert"
        BY <4>3 DEF Idle
      <4> QED
        BY <4>1, <4>2, <4>3
    <3>3. ASSUME NEW sub, NEW t, NEW o \in Reads, Refresh(sub, t, o)
          PROVE  request'.step # "insert"
      BY <3>3 DEF Refresh, Idle
    <3> QED
      BY <1>1, <3>1, <3>2, <3>3 DEF Accept
  <2> QED
    BY <2>1, <2>2, SameTables DEF Idle
<1>2. ASSUME NEW o \in Writes, SaveUser(o)
      PROVE  UNCHANGED Chain!vars
  BY <1>2, SameTables DEF SaveUser, Idle
<1>3. CASE Work
  BY <1>2, <1>3, RevokeImplements, SaveSessionImplements, InsertChildImplements DEF Work
<1>4. CASE Crash
  <2>1. request'.step # "insert" /\ UNCHANGED <<sessions, revoked>>
    BY <1>4 DEF Crash, Idle
  <2>2. CASE request.step = "insert"
    BY <2>1, <2>2, EndIsKill
  <2>3. CASE request.step # "insert"
    BY <2>1, <2>3, SameTables
  <2> QED
    BY <2>2, <2>3
<1>5. CASE Environment /\ ~Crash
  <2>1. UNCHANGED <<sessions, revoked, request>>
    BY <1>5 DEF Environment, Deliver, Lose, Expire
  <2>2. UNCHANGED Chain!vars
    BY <2>1, SameState
  <2> QED
    BY <2>2
<1>6. CASE UNCHANGED vars
  <2>1. UNCHANGED <<sessions, revoked, request>>
    BY <1>6 DEF vars
  <2>2. UNCHANGED Chain!vars
    BY <2>1, SameState
  <2> QED
    BY <2>2
<1> QED
  BY <1>1, <1>3, <1>4, <1>5, <1>6 DEF Next

\* Rotation in two transactions implements the atomic, one-time exchange.
THEOREM RotationImplementsExchange == Spec => ImplementsChain
<1>1. Init => Chain!Init
  BY DEF Init, Chain!Init, LivePairs, SpentTokens
<1> QED
  BY <1>1, StepImplements, Consistent, PTL DEF Spec, ImplementsChain, Chain!Spec
=============================================================================
