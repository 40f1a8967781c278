\* One run() on devices of two platforms; whatever can fail fails, one device is
\* lost, and the client stops devices at any time, also while run() is under way.
CONSTANTS
    d1 = d1
    d2 = d2
    android = android
    ios = ios
    Devices = {d1, d2}
    Platforms = {android, ios}
    PlatformOf <- TwoPlatforms
    Runs = {r1}
    UserStops = {s1}
    InAction = InAction
    NoDevice = NoDevice
    NoPlatform = NoPlatform
    MaxChanges = 1
    FaultyInstall = {d1, d2}
    FaultySync = {d1, d2}
    Losable = {d2}
    Fragile = {android}
SPECIFICATION Spec
INVARIANTS TypeOK PreparedBeforeSync NoWatcherLeft
CHECK_DEADLOCK FALSE
