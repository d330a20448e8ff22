SPECIFICATION FairSpec
CONSTANTS
  Blocks = 3
  MaxLen = 4
  May = {"command", "start", "first read", "write", "link", "stop"}
  NBuf = 2
  EncQ = 1
  AudQ = 4
  UsbAudQ = 1
INVARIANTS
  FrameHasOneOwner
PROPERTIES
  ImplementsBlockDevice
  CommandEnds
  PostsReachTasks
  CameraStops
CHECK_DEADLOCK FALSE
