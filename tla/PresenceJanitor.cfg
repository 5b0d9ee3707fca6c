SPECIFICATION FairSpec
CONSTANTS
  Users = {u1, u2}
  Objects = {o1, o2}
  Handlers = {h1}
  None = None
  Envs <- SweepWorks
PROPERTY AwayLeavesCounts
