SPECIFICATION Spec
CONSTANTS
  Cluster = 4
  RingClusters = 3
  IdxBlock = 8
  EntryWords = 4
  HdrWords = 2
  InfoWords = 1
  VideoSizes = {6}
  AudioSizes = {4}
  AudExist = TRUE
  ErrAction = 1
  StopFirst = FALSE
  MsgqSize = 16
  ShortMod = 4
  MaxPuts = 4
CHECK_DEADLOCK FALSE
INVARIANTS StreamIsRight
