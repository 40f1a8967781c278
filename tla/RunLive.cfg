\* Devices fail, are lost and are stopped at any time, also during run().
CONSTANTS
    d1 = d1
    d2 = d2
    android = android
    ios = ios
    Devices = {d1, d2}
    Platforms = {android, ios}
    PlatformOf <- TwoPlatforms
    Runs = {r1}
    UserStops = {s1}
    InAction = InAction
    NoDevice = NoDevice
    NoPlatform = NoPlatform
    MaxChanges = 1
    FaultyInstall = {}
    FaultySync = {d1, d2}
    Losable = {d2}
    Fragile = {}
SPECIFICATION FairSpec
PROPERTIES EveryCallReturns ChangesArrive
CHECK_DEADLOCK FALSE
