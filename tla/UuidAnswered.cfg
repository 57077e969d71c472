\* One user, one thread, one message.
CONSTANTS
  Users = {u1}
  NoUser = NoUser
  ThreadIds = {t1}
  Titles = {x1}
  Contents = {c1}
  Empty = Empty
  Idle = Idle
  MaxMessages = 1
  UniqueThread = TRUE
  Cascade = TRUE
SPECIFICATION Spec
INVARIANT UuidAnswered
