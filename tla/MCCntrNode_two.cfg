SPECIFICATION Spec
CONSTANTS
  admin = admin
  admin2 = admin2
  user = user
  user2 = user2
  Threads = {admin, admin2}
  Names = {n1}
  Objs = {o1, o2}
  NoObj = NoObj
  NoThread = NoThread
  NoName = NoName
  Ops <- TwoAdminsOps
  MaxOps = 2
INVARIANTS
  AutoHDHolds
