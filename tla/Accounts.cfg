SPECIFICATION Spec
CONSTANTS
  Ids = {i1, i2}
  Logins = {l1, l2}
  Emails = {e1, e2}
  Passwords = {p1, p2}
  Tokens = {t1, t2}
  Handlers = {h1, h2}
  None = None
  Envs <- Environments
SYMMETRY Symmetric
INVARIANTS TypeOK LoginProven VerifiedByMail LogoutRevokes LinkSpent RegisteredHasProfile
