\* Two connections, one with up to three requests and one whose client only
\* comes and goes.  Liveness, so no symmetry.
CONSTANTS
  Conns = {c1, c2}
  Silent = {c2}
  MaxRequests = 3
SPECIFICATION FairSpec
INVARIANTS
  TypeOK
  AnswersMatch
  HandledAreWhole
  NothingDropped
  HangsUpForAReason
PROPERTIES
  RequestsAreAnswered
  SessionsEnd
  ConnectionsAreAccepted
