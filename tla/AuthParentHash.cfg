\* One account and two tokens show what the parent column receives.
CONSTANTS
  Logins = {l1}
  Passwords = {p1}
  UserIds = {i1}
  Tokens = {t1, t2}
  UniqueLogin = TRUE
  Null = Null
  Selects <- MCSelects
  Quoted = {}
SPECIFICATION Spec
INVARIANT
  TokensStoredAsHashes
