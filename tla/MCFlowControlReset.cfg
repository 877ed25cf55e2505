SPECIFICATION Spec
CONSTANTS
  Streams = {1}
  Total <- Long
  MaxFrameSize = 2
  MaxWindow = 9
  Initial = 4
  SettingsValues = {1}
  Sizes = {}
  Increments = {}
  Tuned = {}
  MayReset = {}
  MaxCalls = 1
INVARIANT NoSpuriousReset
CHECK_DEADLOCK FALSE
