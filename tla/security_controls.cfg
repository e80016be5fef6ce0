SPECIFICATION Spec

CONSTANTS
    MaxSessions = 2
    MaxCommands = 3
    CacheLimit = 3
    WireLimit = 4
    MaxTroubles = 1
    AdvertiseDisplayOff = FALSE

INVARIANTS
    CommandsAreExact
    PrivacyIsShown
    WishesAreKept

\* The users need not start another session.
CHECK_DEADLOCK FALSE
