\* One login and the clock show how long a token lives.
CONSTANTS
  Sessions = {s1}
  Users = {u1}
  NoUser = NoUser
  Absent = Absent
  NoToken = NoToken
  MaxFrames = 0
  Attentive = {s1}
  IssuerKey = "JWT_SECRET_KEY"
  HubKeys = {"jwtSecret_"}
  Lifetime = 2
  MaxTokens = 1
  MaxTime = 4
SPECIFICATION DaySpec
INVARIANT
  ValidAsCommented
