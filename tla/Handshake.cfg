\* Two sessions, two users, tokens of two minutes; the hub has the key of the
\* code, or that of the issuer.
CONSTANTS
  Sessions = {s1, s2}
  Users = {u1, u2}
  NoUser = NoUser
  Absent = Absent
  NoToken = NoToken
  MaxFrames = 1
  Attentive = {s1, s2}
  IssuerKey = "JWT_SECRET_KEY"
  HubKeys = {"jwtSecret_", "JWT_SECRET_KEY"}
  Lifetime = 2
  MaxTokens = 2
  MaxTime = 4
SPECIFICATION DaySpec
SYMMETRY Symmetry
INVARIANTS
  ListedIsVouched
PROPERTY
  PrivateOfTheLoggedIn
