\* Two users, two threads, one title, two messages; threads.id is a primary key.
CONSTANTS
  Users = {u1, u2}
  NoUser = NoUser
  ThreadIds = {t1, t2}
  Titles = {x1}
  Contents = {c1}
  Empty = Empty
  Idle = Idle
  MaxMessages = 2
  UniqueThread = TRUE
  Cascade = TRUE
SPECIFICATION Spec
SYMMETRY Symmetry
INVARIANTS
  TypeOK
  OwnersExist
  SuccessIsTrue
  FailedChangedNothing
PROPERTIES
  ExistingUntouched
  MessagesByOwnThread
