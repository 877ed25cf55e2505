CONSTANTS
  Fields <- MCFields
  Static <- MCStatic
  Room <- MCRoom
  Hash <- MCHash
  NeverIndexed <- MCNever
  Unindexed <- MCUnindexed
  Overhead = 1
  DefaultMax = 2
  DeflateMaxes = {1, 4}
  SeqRange = 5
  SettingsFrames <- MCSettings
  Blocks <- MCBlocks
  MaxSettings = 2
  MaxBlocks = 3
SPECIFICATION Spec
INVARIANTS TablesAreSound DecodedAsEncoded TablesAgree
CHECK_DEADLOCK FALSE
