SPECIFICATION MCSpec
CONSTANTS
  ReqLen = 3
  BufSize = 12
  Extended = 3
  MinPacket = 6
  FrameKinds <- MCFrameKinds
  MaxFrames = 3
  Stale = Stale
  Blocks = 2
  BufCap = 5
  ZipCap = 4
  Fields <- MCFields
  MaxMessages = 3
  NULL = NULL
  ByteMax = 3
  Sp = 2
  Window = 4
  MaxRun = 6
  Base = 4
  SendCap = 9
  Absent = Absent
  NumericMax = 9
  BlockBytes = 8
  LengthBytes = 2
INVARIANTS
  StreamKept
  
  
  
  
CHECK_DEADLOCK FALSE
