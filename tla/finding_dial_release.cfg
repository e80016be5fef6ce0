CONSTANTS
    MaxGeneration = 2
    MaxPeerGeneration = 3
    IdentityMayFail = TRUE
    ListenMayFail = TRUE
    SecurityMayRefuse = TRUE
SPECIFICATION Spec
PROPERTY StopEndsReleased
