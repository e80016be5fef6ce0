CONSTANTS
    controller = controller
    controlled = controlled
    view = view
    input = input
    file = file
    Device = {controller, controlled}
    Scope <- MCScope
    Grant <- AllOrNothing
    ViewScreen = view
    FileTransfer = file
    MaxAttempt = 2
    MaxFault = 0
    MaxCrash = 0
    MaxEdit = 1
SPECIFICATION Spec
CHECK_DEADLOCK FALSE
INVARIANTS
    TrustNeedsBothUsers
PROPERTIES
    HalfAuthenticationEnds
