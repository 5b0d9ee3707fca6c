SPECIFICATION Spec
CONSTANTS
  Users = {u1, u2}
  Objects = {o1, o2}
  Handlers = {h1, h2}
  None = None
  Envs <- Environments
SYMMETRY Symmetric
INVARIANTS TypeOK VisitedMeansCounted LeftMeansGone PresentIsCounted CountedOnce
