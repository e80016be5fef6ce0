CONSTANTS
    controller = controller
    controlled = controlled
    view = view
    input = input
    file = file
    Device = {controller, controlled}
    Scope <- MCScope
    Grant <- WatchGrant
    ViewScreen = view
    FileTransfer = file
    MaxAttempt = 3
    MaxFault = 0
    MaxCrash = 0
    MaxEdit = 1
SPECIFICATION Spec
CHECK_DEADLOCK FALSE
INVARIANT AutomaticAccessNeedsTrust
