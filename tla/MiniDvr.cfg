SPECIFICATION FairSpec
CONSTANTS
  LongPress = 1
  Period = 2
  SavePeriods = 2
  IdleSleep = 4
  FileNumbers = 2
  MaxClock = 4
INVARIANTS SavedInTime OneActionPerPress OffIsClean
PROPERTIES FinishedStays LowBatteryEnds
CHECK_DEADLOCK FALSE
