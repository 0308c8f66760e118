SPECIFICATION FairSpec
CONSTANTS
  Archivers = {a1}
  DefMessBufSize = 2
  MaxMessBufSize = 2
  Lens <- NoLens
  Targets <- BufferAndAll
  MaxMess = 3
  MaxBurst = 1
  MaxFails = 1
  MaxStops = 0
  MaxUpdates = 1
PROPERTIES
  ArchivedAtLast
  DestroyEnds
