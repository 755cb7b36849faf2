SPECIFICATION Spec
CONSTANTS
  Email = {e1, e2}
  Token = {t1}
  Identity = {g1}
  Attempt = {a1, a2}
  Handler = {h1, h2, h3}
  None = None
  MaxEra = 1
INVARIANTS
  AttemptUsedOnce
  IdentityOpensOneAccount
  AccountsCanBeOpened
  OldSessionsAreBeingRevoked
SYMMETRY Symmetry
CHECK_DEADLOCK FALSE
