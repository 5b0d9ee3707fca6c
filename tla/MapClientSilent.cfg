SPECIFICATION FairSpec
CONSTANTS
  o1 = o1
  o2 = o2
  Objects = {o1, o2}
  None = None
  Windows <- Places
  Clicks = {k1}
  Mounts = {m1}
  Envs <- Calm
PROPERTY FallsSilent
