\* Two platforms, overlapping calls of prepare() and toggleFileWatcher(),
\* processes started while old ones close.
CONSTANTS
    android = android
    ios = ios
    None = None
    Platforms = {android, ios}
    Stoppable = {}
    Fragile = {android}
    MaxHandlers = 2
    MaxToggles = 2
    Overlap = TRUE
SPECIFICATION FairSpec
PROPERTIES NativeIsTold EveryCallReturns
CHECK_DEADLOCK FALSE
