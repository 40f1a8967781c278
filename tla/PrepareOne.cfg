\* Two platforms, one call at a time, in any order.
CONSTANTS
    android = android
    ios = ios
    None = None
    Platforms = {android, ios}
    Stoppable = {android}
    Fragile = {android}
    MaxHandlers = 2
    MaxToggles = 2
    Overlap = FALSE
SPECIFICATION FairSpec
INVARIANTS TypeOK HeardOnce RunningIsKnown
PROPERTIES NativeIsTold EveryCallReturns
CHECK_DEADLOCK FALSE
