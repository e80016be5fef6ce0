SPECIFICATION Spec
INVARIANT InterruptionFailsNothing
CONSTANTS
    Scenario <- MCScenario
    Window = 2
    AckInterval = 1
    Batch = 1
    ControlLimit = 4
    Disturbance = {"reconnect"}
    MaxDisturbance = 1
    MaxSession = 1
CHECK_DEADLOCK FALSE
