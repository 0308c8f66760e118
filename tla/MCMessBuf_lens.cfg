SPECIFICATION Spec
CONSTANTS
  Archivers = {a1}
  DefMessBufSize = 3
  MaxMessBufSize = 5
  Lens <- SomeLens
  Targets <- BufferOnly
  MaxMess = 7
  MaxBurst = 2
  MaxFails = 0
  MaxStops = 0
  MaxUpdates = 0
INVARIANTS
  BufferKeepsNewest
