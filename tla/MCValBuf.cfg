SPECIFICATION Spec
CONSTANTS
  Eval = Eval
  Vals = {Eval, one}
  Per = 2
  Sec = 2
  HalfDivMinWin = 0
  EvalMod = 16
  Grids <- AllGrids
  Sizes = {3, 4}
  Times <- SomeTimes
  MaxSets = 4
INVARIANTS
  TypeOK
  GetRight
  CopyRight
  NewestKept
  EvalCounted
