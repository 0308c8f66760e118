SPECIFICATION FairSpec
CONSTANTS
  Threads = {t1, t2, t3}
  NoThread = NoThread
  MaxDepth = 2
  MaxReq = 4
INVARIANTS
  TypeOK
  LockAccounting
  BorrowedIsCovered
  Exclusion
PROPERTIES
  ImplementsRegion
  OnlyUpgradesBlock
\* A nested upgrade really stops its thread.
CHECK_DEADLOCK FALSE
