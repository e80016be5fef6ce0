SPECIFICATION Spec

CONSTANTS
    MaxSessions = 1
    MaxRequests = 1
    MaxKeys = 0
    MaxOutput = 0
    MaxResizes = 3
    MaxInputs = 3
    MaxQueue = 1
    MaxTroubles = 0

INVARIANTS
    LatestSizeWins

CHECK_DEADLOCK FALSE
