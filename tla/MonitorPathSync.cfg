SPECIFICATION SyncSpec
CONSTANTS
  BufferLen = 2
  DmaBufLen = 4
  RingBufferSize = 3
  MaxFrames = 36
  MaxLate = 2
PROPERTIES NoUnderrun NoOverrun
CHECK_DEADLOCK FALSE
