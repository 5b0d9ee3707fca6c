SPECIFICATION FairSpec
CONSTANTS
  Services <- Every
  Calls = {c1, c2}
  None = None
  Envs <- Environments
INVARIANTS
  TypeOK
  StoresOutlastTheirUsers
  HandlersFinish
  
 
CHECK_DEADLOCK FALSE
