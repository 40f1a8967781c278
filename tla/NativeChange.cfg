CONSTANTS
    Platforms = {"android", "ios"}
    Targets = {"android", "ios"}
    a = a
    b = b
    i = i
    Devices = {a, b, i}
    platformOf <- TwoPlatforms
    targetOf <- ThreeDevices
    Edits = {{"resources"}, {"dependencies"}, {"plugins", "dependencies"}}
    MaxChanges = 1
    MaxVisits = 3
    MaxFailures = 1

    Plugins = {"p"}
    MaxVersion = 2
    MaxPluginEdits = 3
    MaxPrepares = 4

    Present = {"lib", "hooks", "webpack.config.js", "package.json",
               "package-lock.json", "tsconfig.tns.json", "karma.conf.js",
               "nsconfig.json", "app/package.json", "app/main.js"}
    Folders = {"lib", "hooks"}
    MaxAttempts = 3

    Phones = {"p", "q"}
    MaxPlugs = 2
    MaxChecks = 3

    Webpacks = {"v", "w"}
    Temps = {"t"}
    MaxCleanupFaults = 2

SPECIFICATION ServicesSpec
INVARIANTS ChangesAreRebuilt
SYMMETRY AndroidDevices
CHECK_DEADLOCK FALSE
