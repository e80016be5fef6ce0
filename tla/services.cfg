SPECIFICATION ServicesSpec

CONSTANTS
    Trees <- MCTrees
    Plans <- MCPlans
    FileName = {"f"}
    Size = 1
    MaxCopies = 2
    MaxEntries = 3
    MaxCall = 3
    MaxForeign = 1
    MaxNode = 4
    Keys = {"state"}
    QueueMessages = 2
    QueueBytes = 2
    LowBytes = 0
    HighBytes = 2
    ChunkCounts = {1, 2}
    MaxSends = 4
    MaxShapes = 2
    MaxBreaks = 1
    Folders = {"f"}
    Retained = 1
    MaxPages = 3
    MaxPagesRead = 2
    MaxRequests = 3
    PathModes = {"auto", "gpu", "cpu"}
    PoolSize = 1
    MaxPictures = 2
    MaxSessions = 2
    MaxStarts = 2
    MaxFrames = 2
    MaxRepeats = 1
    MaxInits = 1
    MaxEncodes = 4
    MaxOpens = 2
    MaxDelay = 2
    MaxDecoded = 4
    MaxEpochs = 3
    MaxClears = 1

INVARIANTS
    FilesAreSound
    PeersUnderstand
    ChannelDelivers
    PanesAreTrue
    VideoIsSent
    VideoIsShown

PROPERTIES
    OthersSurvive

CHECK_DEADLOCK FALSE
