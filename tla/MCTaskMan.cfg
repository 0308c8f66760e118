SPECIFICATION FairSpec
CONSTANTS
  owner = owner
  other = other
  Callers = {owner, other}
  Paths = {pt, pd}
  DetachedPaths = {pd}
  Tasks = {k1, k2, k3}
  NoTask = NoTask
  NoPath = NoPath
  Ops <- TwoCallersOps
  StartSt = {FALSE, TRUE}
  TimeOuts = {"present", "start", "stop"}
  MaxCalls = 3
INVARIANTS
  TypeOK
  TasksListed
  CreatedHasThread
PROPERTIES
  EndRequestHeard
