CONSTANTS
  StreamIds = {1, 2, 3}
  MaxWeight = 2
  MaxFrame = 1
  CycleMod = 16
  Weights = {1, 2}
  WriteLens = {0,1}
  Moves = "all"
SPECIFICATION Spec
INVARIANT CyclesAreComparable
