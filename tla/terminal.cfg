SPECIFICATION FairSpec

CONSTANTS
    MaxSessions = 2
    MaxRequests = 2
    MaxKeys = 3
    MaxOutput = 3
    MaxResizes = 2
    MaxInputs = 3
    MaxQueue = 2
    MaxTroubles = 1

INVARIANTS
    ShellIsOwned
    CommandsSettle

PROPERTIES
    FramesInOrder
    HostFollowsWindow

\* A closed terminal is an end: the users need not open another.
CHECK_DEADLOCK FALSE
