SPECIFICATION FairSpec
CONSTANTS
    AudQ = 5
    EncQ = 4
    Ends = 2
    May = {"full", "error", "late", "audio", "open"}
INVARIANTS
    AckIsMine
    RecordingIsReal
    NothingLeft
    ClosedOnce
    DmaInMemory

    
CHECK_DEADLOCK FALSE
