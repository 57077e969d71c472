\* Two accounts, which may share a login, and three refresh tokens; two ordinary
\* logins and one with a quote.
CONSTANTS
  Logins = {l1, l2, l3}
  Passwords = {p1}
  UserIds = {i1, i2}
  Tokens = {t1, t2, t3}
  UniqueLogin = FALSE
  Null = Null
  Selects <- MCSelects
  Quoted = {l3}
SPECIFICATION Spec
SYMMETRY Symmetry
INVARIANTS
  TypeOK
  ExchangedOnce
  ParentRevoked
  AnsweredIsStored
  RevokedIsExchanged
  ChainsStartAtLogins
  DuplicateOnlyIfUnseen
PROPERTIES
  RequestsEnd
  ImplementsChain
