SPECIFICATION Spec
CONSTANTS
  Users = {u1, u2, u3}
  Rids = {r1, r2}
  Handlers = {h1}
  None = None
  StoresMayFail = TRUE
VIEW WithoutHistory
SYMMETRY Symmetric
INVARIANTS BlockedApart AskedOnce OkMeansFresh
PROPERTY RulesKept
