SPECIFICATION FairSpec
CONSTANTS
  Ids = {i1, i2}
  Logins = {l1}
  Emails = {e1}
  Passwords = {p1}
  Tokens = {t1, t2}
  Handlers = {h1}
  None = None
  Envs <- Failures
PROPERTY RetrySeedsProfile
