SPECIFICATION DiskSpec
CONSTANTS
  Blocks = 3
  MaxLen = 3
  May = {"later read"}
INVARIANT GoodReadIsRight
CHECK_DEADLOCK FALSE
