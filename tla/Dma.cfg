SPECIFICATION FairSpec
CONSTANTS
    card = card
    copy = copy
    audio = audio
    None = None
    Tasks <- MCTasks
    Does <- MCDoes
    NCh = 4
    NQ = 1
    Others <- MCOthers
    May = {"stall"}
INVARIANTS
    ChannelMine
    CompletionIsMine
    NothingKept
PROPERTIES
    CallsReturn
