\* An image of two blocks; every date of 2016 to March 2027 with a midnight ahead.
SPECIFICATION Spec
CONSTANTS
  Pages = 3
  BlockPages = 2
  Retries = 2
  Secs = 2
  Mins = 2
  Hours = 2
  FileTimes <- MCFileTimes
  RunningDates <- MCRunningDates
  RestartDates <- MCRestartDates
  MaxTicks = 3
  MaxStarts = 3
INVARIANTS FlashIsTrue ImageSurvives TimeIsRight
PROPERTIES ReadIsHonest TimeFileKept
CHECK_DEADLOCK FALSE
