SPECIFICATION Spec
CONSTANTS
  Tick = 2
  DeltaTa = 5
  DeltaTv = 3
  LateShift = 1
  Audio = TRUE
  NumBuffers = 2
  FrameSizes = {1, 2}
  AudioSizes = {}
  Overhead = 1
  FileLimit = 5
  FreeSpace = 3
  QMax = 4
  Calls = {"START", "PAUSE", "RESUME", "STOP"}
  CntMod = 3
  MaxTv = 4
  MaxChunks = 2
  MaxCalls = 4
INVARIANTS
  FrameWhole
CHECK_DEADLOCK FALSE
