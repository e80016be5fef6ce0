CONSTANTS
    MaxGeneration = 4
    MaxPeerGeneration = 5
    IdentityMayFail = TRUE
    ListenMayFail = TRUE
    SecurityMayRefuse = TRUE
SPECIFICATION ScheduledSpec
INVARIANTS
    TypeOK
    PeerMatchesState
    CompletionIsComing
    AnswerIsComing
    PendingIsServed
    RollbackIsExclusive
    ResourcesFollowSession
    SetupHasApproval
PROPERTIES
    EndsReleased
    ImplementsLifecycle
    StoppingEnds
    WaitingEnds
    LatePeerReleases
