SPECIFICATION Spec
CONSTANTS
  Cluster = 4
  RingClusters = 3
  IdxBlock = 8
  EntryWords = 4
  HdrWords = 2
  InfoWords = 1
  VideoSizes = {0, 8}
  AudioSizes = {4}
  AudExist = TRUE
  ErrAction = 1
  StopFirst = FALSE
  MsgqSize = 16
  ShortMod = 4
  MaxPuts = 5
INVARIANTS StreamIsRight IndexIsRight StreamComplete HeaderMatchesFile NoLostWakeup QueueNeverFull
CHECK_DEADLOCK FALSE
