SPECIFICATION FairSpec
CONSTANTS
  N = 2
  Controllers = {c1}
  Level <- Rising
  Modes <- AllModes
  RestTm = 1
  MaxFaults = 3
INVARIANTS
  TypeOK
  NeverUnserved
PROPERTIES
  SettlesAtBest
