SPECIFICATION MCSpec

CONSTANTS
    Buttons = {left}
    OrderedDrag = TRUE
    Margins = TRUE
    QueueLimit = 1
    High = 1
    Low = 0
    MaxMoves = 2
    MaxClicks = 3
    MaxLater = 1
    MaxSessions = 2
    MaxTroubles = 1
    Modifiers = {"ctrl"}
    Mains = {"r", "f", "esc"}
    Escape = "esc"
    Release <- MCRelease
    Fullscreen <- MCFullscreen
    MaxLocals = 1
    Repeats = TRUE
    MaxPosted = 1
    MaxEdits = 1
    MaxAttempts = 2
    MaxReads = 1
    MaxCopies = 2
    MaxToggles = 1
    MaxBreaks = 1
    MaxBusy = 2

INVARIANTS
    MouseSafety
    KeyboardSafety
    ClipboardSafety

PROPERTIES
    MovesInOrder

CHECK_DEADLOCK FALSE
