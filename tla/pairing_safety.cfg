CONSTANTS
    controller = controller
    controlled = controlled
    view = view
    input = input
    file = file
    Device = {controller, controlled}
    Scope <- MCScope
    Grant <- WatchGrant
    ViewScreen = view
    FileTransfer = file
    MaxAttempt = 3
    MaxFault = 1
    MaxCrash = 1
    MaxEdit = 0
SPECIFICATION Spec
CHECK_DEADLOCK FALSE
SYMMETRY DeviceSymmetry
INVARIANTS
    AttemptsAgree
    AuthenticationIsAgreed
    StoreIsSound
