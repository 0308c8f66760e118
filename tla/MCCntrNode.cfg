SPECIFICATION FairSpec
CONSTANTS
  admin = admin
  admin2 = admin2
  user = user
  user2 = user2
  Threads = {admin, user, user2}
  Names = {n1, n2}
  Objs = {o1, o2}
  NoObj = NoObj
  NoThread = NoThread
  NoName = NoName
  Ops <- SoleAdminOps
  MaxOps = 3
INVARIANTS
  TypeOK
  NoDangling
  HandlesCounted
  RestIsEnabled
  ChangesTracked
  RemovedFromStorage
PROPERTIES
  DeletionEnds
