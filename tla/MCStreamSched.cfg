CONSTANTS
  StreamIds = {s1, s2, s3, s4}
  s1 = s1
  s2 = s2
  s3 = s3
  s4 = s4
  MaxWeight = 2
  MaxFrame = 1
  CycleMod = 16
  Weights = {1, 2}
  WriteLens = {0}
  Moves = "all"
SPECIFICATION Spec
INVARIANTS TreeIsSound QueuedIffActive EarliestFirst
SYMMETRY Symmetry
