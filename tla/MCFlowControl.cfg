SPECIFICATION Spec
CONSTANTS
  Streams = {1, 2}
  Total <- Short
  MaxFrameSize = 2
  MaxWindow = 9
  Initial = 2
  SettingsValues = {1, 3}
  Sizes = {3}
  Increments <- Steps
  Tuned = {0, 1}
  MayReset = {2}
  MaxCalls = 2
INVARIANTS TypeOK PeerHonoursWindows CreditIsConserved
PROPERTY DataIsDelivered
CHECK_DEADLOCK FALSE
