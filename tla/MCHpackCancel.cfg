CONSTANTS
  Fields <- MCFields
  Static <- MCStatic
  Room <- MCRoom
  Hash <- MCHash
  NeverIndexed <- MCNever
  Unindexed <- MCUnindexed
  Overhead = 1
  DefaultMax = 2
  DeflateMaxes = {1, 4}
  SeqRange = 5
  SettingsFrames <- MCSettings
  Blocks <- MCBlocks
  MaxSettings = 2
  MaxBlocks = 3
SPECIFICATION SpecCancel
INVARIANTS CancelIsSafe
CHECK_DEADLOCK FALSE
