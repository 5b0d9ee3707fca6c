SPECIFICATION ViewSpec
CONSTANTS
  Users = {me, f1, f2}
  Objects = {o1, o2}
  Handlers = {h1}
  None = None
  Caller = me
  Unknown = Unknown
  Changes = 4
  Envs <- Environments
SYMMETRY Symmetric
INVARIANTS
  ViewTypeOK
  ShownIsTrue
  SteadyIsShown
  ShownOnce
