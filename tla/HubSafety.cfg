\* Three sessions of two users, two frames.
CONSTANTS
  Sessions = {s1, s2, s3}
  Users = {u1, u2}
  NoUser = NoUser
  Absent = Absent
  MaxFrames = 2
  Attentive = {s1, s2, s3}
SPECIFICATION Spec
SYMMETRY Symmetry
INVARIANTS
  TypeOK
  BoundMatchesIndex
  IndexDanglesOnlyIfBroken
  OneWriteAtATime
  NothingStranded
  ServedAreReachable
  AudienceReached
  InOrder
  OnlyLatestHasUser
  PresenceIsTrue
