---------------------------- MODULE SharedState ----------------------------
(***************************************************************************)
(* The two tables of the WebSocket hub and what SharedState's methods do   *)
(* to them.  Every method runs under mutex_, so each is an operator from   *)
(* the tables before to the tables after; WebSocketSession composes them   *)
(* into the handlers that call them.                                       *)
(***************************************************************************)

CONSTANTS
  Sessions,  \* session identifiers, the UUIDs of generateSessionId()
  Users,     \* user identifiers, the subjects of access tokens
  NoUser,    \* the empty user identifier
  Absent     \* no entry in a map

ASSUME SentinelAssumption ==
  /\ NoUser \notin Users \cup {Absent}
  /\ Absent \notin Users \cup Sessions

(***************************************************************************)
(* h.sessions is sessions_, of which it keeps the userId of each entry;    *)
(* the weak pointer of an entry is expired when the session is not in the  *)
(* set "alive".  h.userToSessions is userToSessions_.                      *)
(***************************************************************************)
Hub == [sessions : [Sessions -> Users \cup {NoUser, Absent}],
        userToSessions : [Users \cup {NoUser} -> Sessions \cup {Absent}]]

EmptyHub == [sessions |-> [s \in Sessions |-> Absent],
             userToSessions |-> [u \in Users \cup {NoUser} |-> Absent]]

(***************************************************************************)
(* Each mutated form below is the definition after it with one plausible   *)
(* slip of the code.  No specification uses them: a property of            *)
(* WebSocketSession is shown to notice each.                               *)
(***************************************************************************)

\* Mutated form: the index entry is cleared, not erased.
CleanupClearing(h, alive) ==
  [sessions |-> [s \in Sessions |-> IF s \in alive THEN h.sessions[s] ELSE Absent],
   userToSessions |-> [u \in Users \cup {NoUser} |->
     IF u # NoUser /\ (\E s \in Sessions \ alive : h.sessions[s] = u)
     THEN NoUser ELSE h.userToSessions[u]]]

\* cleanupDeadSession drops the expired entries and the users bound to them.
Cleanup(h, alive) ==
  [sessions |-> [s \in Sessions |-> IF s \in alive THEN h.sessions[s] ELSE Absent],
   userToSessions |-> [u \in Users \cup {NoUser} |->
     IF u # NoUser /\ (\E s \in Sessions \ alive : h.sessions[s] = u)
     THEN Absent ELSE h.userToSessions[u]]]

Join(h, s, alive) == [Cleanup(h, alive) EXCEPT !.sessions[s] = NoUser]

\* leave erases from userToSessions_ only when the entry has no user.
Leave(h, s) ==
  [sessions |-> [h.sessions EXCEPT ![s] = Absent],
   userToSessions |-> IF h.sessions[s] = NoUser
                      THEN [h.userToSessions EXCEPT ![NoUser] = Absent]
                      ELSE h.userToSessions]

\* Mutated form: the session that had the user keeps it.
BindUserKeepingOld(h, s, u) ==
  IF h.sessions[s] = Absent THEN h
  ELSE [sessions |-> [h.sessions EXCEPT ![s] = u],
        userToSessions |-> [h.userToSessions EXCEPT ![u] = s]]

\* Mutated form: emplace(), which leaves an index entry of the user alone.
BindUserEmplacing(h, s, u) ==
  LET old == h.userToSessions[u]
      entries == [t \in Sessions |->
                    IF t = old /\ h.sessions[t] # Absent THEN NoUser ELSE h.sessions[t]]
  IN IF h.sessions[s] = Absent THEN h
     ELSE [sessions |-> [entries EXCEPT ![s] = u],
           userToSessions |-> IF old # Absent THEN h.userToSessions
                              ELSE [h.userToSessions EXCEPT ![u] = s]]

\* Mutated form: the session that had the user is erased.
BindUserEvicting(h, s, u) ==
  LET entries == [t \in Sessions |->
                    IF t = h.userToSessions[u] THEN Absent ELSE h.sessions[t]]
  IN IF h.sessions[s] = Absent THEN h
     ELSE [sessions |-> [entries EXCEPT ![s] = u],
           userToSessions |-> [h.userToSessions EXCEPT ![u] = s]]

\* bindUser takes the user over from the session that had it.
BindUser(h, s, u) ==
  LET own == h.sessions[s]
      index == IF own = NoUser THEN h.userToSessions
               ELSE [h.userToSessions EXCEPT ![own] = Absent]
      entries == [t \in Sessions |->
                    IF t = index[u] /\ h.sessions[t] # Absent THEN NoUser
                    ELSE h.sessions[t]]
  IN IF own = Absent THEN h
     ELSE [sessions |-> [entries EXCEPT ![s] = u],
           userToSessions |-> [index EXCEPT ![u] = s]]

\* Mutated form: only the sessions bound to a user.
RecipientsBound(h, alive) == {s \in alive : h.sessions[s] \notin {NoUser, Absent}}

\* The sessions broadcast sends to, once Cleanup has run.
Recipients(h, alive) == {s \in alive : h.sessions[s] # Absent}

\* The session sendMessageToUser sends to, Absent when it returns false.
Target(h, u, alive) ==
  LET s == h.userToSessions[u]
  IN IF s # Absent /\ s \in alive /\ h.sessions[s] # Absent THEN s ELSE Absent

\* sendMessageToUser drops what it finds dangling or expired.
AfterLookup(h, u, alive) ==
  IF Target(h, u, alive) # Absent THEN h
  ELSE [sessions |-> [s \in Sessions |->
                        IF s = h.userToSessions[u] THEN Absent ELSE h.sessions[s]],
        userToSessions |-> [h.userToSessions EXCEPT ![u] = Absent]]

\* sendMessageToSession sends to a session by its identifier ...
SessionTarget(h, s, alive) ==
  IF h.sessions[s] # Absent /\ s \in alive THEN s ELSE Absent

\* ... and drops an expired entry as leave does.
AfterSessionLookup(h, s, alive) ==
  IF h.sessions[s] # Absent /\ s \notin alive THEN Leave(h, s) ELSE h

\* isOnline looks only at the index.
IsOnline(h, u) == h.userToSessions[u] # Absent

\* Mutated form: the entry is not looked up.
OnlineUsersByIndex(h) == {u \in Users : IsOnline(h, u)}

\* getOnlineUsers lists the users in the index whose session has an entry
\* bound to a user.
OnlineUsers(h) ==
  {u \in Users : \E s \in Sessions :
     h.userToSessions[u] = s /\ h.sessions[s] \notin {NoUser, Absent}}

\* The two tables agree: the session an entry binds to a user is the one the
\* index has for that user.
Agree(h) ==
  \A s \in Sessions, u \in Users : h.sessions[s] = u => h.userToSessions[u] = s

\* The tables relative to the sessions that are open, those whose link is up,
\* and the session each user bound last: entries are of open sessions, every
\* open session with its link up has one, the index names the last session of
\* each user, and it dangles only for broken links.
Hooked(h, open, up, last) ==
  /\ Agree(h)
  /\ \A s \in Sessions : h.sessions[s] # Absent => s \in open
  /\ \A s \in Sessions, u \in Users : h.userToSessions[u] = s => s \in open
  /\ \A s \in Sessions, u \in Users :
       h.userToSessions[u] = s /\ h.sessions[s] # u => s \notin up
  /\ \A s \in Sessions : s \in open /\ s \in up => h.sessions[s] # Absent
  /\ \A s \in Sessions, u \in Users :
       last[u] = s /\ s \in open /\ s \in up => h.userToSessions[u] = s
=============================================================================
