SPECIFICATION FairSpec
CONSTANTS
  user = user
  admin = admin
  Nobody = Nobody
  Archives = {v1}
  Archivers = {a1}
  Threads = {user, admin}
  Attached <- ToAll
  OpsOf <- TwoAdmins
  LoneSort = TRUE
  BufSize = 2
  MaxVals = 3
  MaxFails = 1
  MaxOps = 5
INVARIANTS
  TypeOK
  ListsMirror
  PassOverAttached
  StoppedIsDetached
  LastGetIsStored
  FlushedAtStop
PROPERTIES
  OperationsEnd
CHECK_DEADLOCK FALSE
