\* Liveness, so no symmetry: two sessions of one user or of two, the peer of the
\* second of which need not read.
CONSTANTS
  Sessions = {s1, s2}
  Users = {u1, u2}
  NoUser = NoUser
  Absent = Absent
  MaxFrames = 2
  Attentive = {s1}
SPECIFICATION FairSpec
PROPERTIES
  QueuedAreWritten
  BrokenAreReleased
  ImplementsDelivery
