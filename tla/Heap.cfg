SPECIFICATION Spec
CONSTANTS
  SdramStart = 5
  SdramEnd = 71
  IramStart = 128
  IramEnd = 152
  Links = 4
  Sizes = {0, 3, 8}
  Aligns = {4, 16}
INVARIANTS NoRoomMissed
PROPERTIES ImplementsAllocator
CHECK_DEADLOCK FALSE
