SPECIFICATION Spec
CONSTANTS
  Users = {u1, u2}
  Editors = {e1, e2}
  Readers = {r1}
  None = None
  Seed = Seed
  Envs <- Environments
SYMMETRY Symmetric
INVARIANTS
  TypeOK
  OneEditStored
  OneEditShown
  ContactsForFriends
  
  RowsReleased
CHECK_DEADLOCK FALSE
