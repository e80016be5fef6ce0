SPECIFICATION Spec
INVARIANTS
    CopiesAreFaithful
    HandlesAreOwned
PROPERTIES
    CancelledStaysUnpublished
    CopySettles
CONSTANTS
    Scenario <- MCScenario
    Window = 2
    AckInterval = 1
    Batch = 1
    ControlLimit = 1
    Disturbance = {"reopen", "early", "pause", "cancel", "retry", "clear", "stop", "shutdown", "timeout", "channel", "reconnect", "end", "change", "expire", "congest", "disk"}
    MaxDisturbance = 1
    MaxSession = 2
CHECK_DEADLOCK FALSE
