SPECIFICATION FairSpec
CONSTANTS
  Tick = 2
  DeltaTa = 5
  DeltaTv = 3
  LateShift = 1
  Audio = TRUE
  NumBuffers = 2
  FrameSizes = {}
  AudioSizes = {1}
  Overhead = 0
  FileLimit = 5
  FreeSpace = 3
  QMax = 4
  Calls = {"START", "STOP"}
  CntMod = 3
  MaxTv = 10
  MaxChunks = 4
  MaxCalls = 6
INVARIANTS OneFrameInFlight VideoNotAhead
PROPERTIES FrameAnswered StopTakesEffect
CHECK_DEADLOCK FALSE
