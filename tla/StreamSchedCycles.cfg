CONSTANTS
  StreamIds = {s1, s2}
  s1 = s1
  s2 = s2
  MaxWeight = 3
  MaxFrame = 1
  CycleMod = 11
  Weights = {2, 3}
  WriteLens = {0,1}
  Moves = "weights"
SPECIFICATION Spec
INVARIANTS EarliestFirst TurnsAreBounded ReweightIsExact
SYMMETRY Symmetry
