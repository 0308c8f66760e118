SPECIFICATION Spec
CONSTANTS
  Archivers = {a1, a2}
  DefMessBufSize = 3
  MaxMessBufSize = 3
  Lens <- NoLens
  Targets <- BufferOnly
  MaxMess = 5
  MaxBurst = 2
  MaxFails = 1
  MaxStops = 1
  MaxUpdates = 0
INVARIANTS
  TypeOK
  NothingSkipped
  ArchivedInOrder
  ArchivedOnce
  FlushedAtEnd
