SPECIFICATION FairSpec
CONSTANTS
  owner = owner
  other = other
  Callers = {owner}
  Paths = {pt}
  DetachedPaths = {}
  Tasks = {k1, k2}
  NoTask = NoTask
  NoPath = NoPath
  Ops <- OwnerOps
  StartSt = {FALSE}
  TimeOuts = {}
  MaxCalls = 2
PROPERTIES
  DestroyReturns
