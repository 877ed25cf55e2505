SPECIFICATION FairSpec
CONSTANTS
  BufferLen = 2
  DmaBufLen = 4
  RingBufferSize = 3
  MaxFrames = 20
INVARIANTS TypeOK FramesInOrder NoStall
PROPERTIES LossOnlyByOverrun LineSpec TakenIsHeard
