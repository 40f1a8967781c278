\* Two calls of run() and a stop() that may all overlap; the transfers of one
\* device may fail.
CONSTANTS
    d1 = d1
    d2 = d2
    android = android
    ios = ios
    Devices = {d1, d2}
    Platforms = {android, ios}
    PlatformOf <- TwoPlatforms
    Runs = {r1, r2}
    UserStops = {s1}
    InAction = InAction
    NoDevice = NoDevice
    NoPlatform = NoPlatform
    MaxChanges = 1
    FaultyInstall = {}
    FaultySync = {d1}
    Losable = {}
    Fragile = {}
SPECIFICATION Spec
SYMMETRY RunsAreAlike
INVARIANTS NoSyncAfterStopped ActiveIsHandled NoDeviceIsDeployedTwice PlatformsCovered InitialSyncComesFirst
CHECK_DEADLOCK FALSE
