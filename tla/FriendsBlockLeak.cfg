SPECIFICATION Spec
CONSTANTS
  Users = {u1, u2}
  Rids = {r1, r2}
  Handlers = {h1, h2}
  None = None
  StoresMayFail = FALSE
SYMMETRY Symmetric
INVARIANT BlockHides
