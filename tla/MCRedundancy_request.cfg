SPECIFICATION Spec
CONSTANTS
  N = 3
  Controllers = {c1}
  Level <- Rising
  Modes <- HighOnly
  RestTm = 1
  MaxFaults = 0
INVARIANTS
  RequestToRunner
