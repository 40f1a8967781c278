----------------------------- MODULE ProjectBuild -----------------------------
(***************************************************************************)
(* From a change of the native sources to the application installed on a   *)
(* device: what is prepared, built and installed again, and what is left   *)
(* alone because time stamps and hashes say so.                            *)
(*   lib/services/project-changes-service.ts: checkForChanges() and the    *)
(*     prepare info, in memory and on disk;                                *)
(*   lib/controllers/prepare-controller.ts, platform-controller.ts,        *)
(*     services/platform/add-platform-service.ts,                          *)
(*     prepare-native-platform-service.ts: one prepare();                  *)
(*   lib/controllers/build-controller.ts, build-info-file-service.ts;      *)
(*   lib/services/device/device-install-app-service.ts;                    *)
(*   the initial sync of run-controller.ts and deploy-controller.ts, which *)
(*     call them for one device after the other.                           *)
(*                                                                         *)
(* The CLI may be killed at any step and started again; files change at    *)
(* any time.  Contents are the times of the changes they hold.             *)
(***************************************************************************)
EXTENDS Naturals, FiniteSets

CONSTANTS
    Platforms,
    Targets,        \* what a package is for: Android, iOS device, simulator
    Devices,
    platformOf,     \* of each target
    targetOf,       \* of each device
    Edits,          \* bound: what may change at once
    MaxChanges,     \* bound: changes of files
    MaxVisits,      \* bound: devices visited, over all commands
    MaxFailures     \* bound: kills, failures and builds declined

ASSUME BuildAssumption ==
    /\ Platforms # {} /\ Devices # {}
    /\ platformOf \in [Targets -> Platforms]
    /\ targetOf \in [Devices -> Targets]
    /\ Edits \subseteq SUBSET {"resources", "plugins", "dependencies"}
    /\ MaxChanges \in Nat /\ MaxVisits \in Nat /\ MaxFailures \in Nat

VARIABLES
    now,            \* the clock
    sources,        \* when each kind of source of a platform last changed
    native,         \* what each native project was prepared from
    info,           \* .nsprepareinfo of each platform, with its mtime
    package,        \* what the package of each target was built from
    buildInfo,      \* .nsbuildinfo of each target
    installed,      \* what the application on each device was built from
    deviceInfo,     \* .nsbuildinfo on each device
    command,        \* "run" or "deploy"
    prepareInfo,    \* _prepareInfo, one for all platforms
    changesInfo,    \* currentChanges, one for all platforms
    watchers,       \* platforms whose native files are watched
    initialInfo,    \* initialDeviceBuildInfo
    prep,           \* the prepare() under way or the last one
    visit,          \* the action on a device
    visited,        \* devices visited by this call
    rebuilt,        \* rebuiltInformation: targets it has built
    excused,        \* platforms with a change the code is known to miss
    changes, visits, failures

onDisk == <<native, info, package, buildInfo>>
onDevices == <<installed, deviceInfo>>
memory == <<command, prepareInfo, changesInfo, watchers, initialInfo>>
counters == <<changes, visits, failures>>
call == <<visited, rebuilt>>
buildVars == <<now, sources, onDisk, onDevices, memory, prep, visit, call, excused,
               counters>>

None == [kind |-> "none"]
Kinds == {"resources", "plugins", "dependencies"}
Template == [k \in Kinds |-> 0]

NoPrepare == [at |-> "none", platform |-> CHOOSE p \in Platforms : TRUE,
              checks |-> FALSE, nativeChanged |-> FALSE, hasChanges |-> FALSE]
NoVisit == [at |-> "none", device |-> CHOOSE d \in Devices : TRUE,
            shouldBuild |-> FALSE, waived |-> FALSE, changed |-> FALSE,
            required |-> Template]

target == targetOf[visit.device]
platform == platformOf[target]

BuildInit ==
    /\ now = 1
    /\ sources = [p \in Platforms |-> [k \in Kinds |-> 1]]
    /\ native = [p \in Platforms |-> None]
    /\ info = [p \in Platforms |-> None]
    /\ package = [t \in Targets |-> None]
    /\ buildInfo = [t \in Targets |-> None]
    /\ installed = [d \in Devices |-> None]
    /\ deviceInfo = [d \in Devices |-> None]
    /\ command \in {"run", "deploy"}
    /\ prepareInfo = None
    /\ changesInfo = None
    /\ watchers = {}
    /\ initialInfo = None
    /\ prep = NoPrepare
    /\ visit = NoVisit
    /\ visited = {} /\ rebuilt = {}
    /\ excused = {}
    /\ changes = 0 /\ visits = 0 /\ failures = 0

fails == failures < MaxFailures /\ failures' = failures + 1

(***************************************************************************)
(* Files change, the CLI ends and begins                                   *)
(***************************************************************************)
\* A change of the sources, of one file or of many, perhaps within the tick of
\* the last event.  One between the check of a prepare and its save is not seen
\* by the next check: the known window of checkForChanges().
FileChanges(p, kinds) ==
    /\ changes < MaxChanges
    /\ \E t \in {now, now + 1} :
          /\ \A k \in kinds : t > sources[p][k]
          /\ now' = t
          \* package.json is that of all platforms
          /\ sources' = [q \in Platforms |-> [k \in Kinds |->
                 IF k \in kinds /\ (q = p \/ k = "dependencies") THEN t
                 ELSE sources[q][k]]]
    /\ changes' = changes + 1
    /\ excused' = IF /\ kinds # {"dependencies"}
                     /\ prep.platform = p
                     /\ prep.at \in {"checked", "native", "saving"}
                  THEN excused \union {p} ELSE excused
    /\ UNCHANGED <<onDisk, onDevices, memory, prep, visit, call, visits, failures>>

\* A command ends, or is killed on the way, and another begins.
StartCommand ==
    /\ IF visit.at \in {"none", "done"} /\ prep.at \in {"none", "done"}
       THEN UNCHANGED failures
       ELSE fails
    /\ command' \in {"run", "deploy"}
    /\ prepareInfo' = None
    /\ changesInfo' = None
    /\ watchers' = {}
    /\ initialInfo' = None
    /\ prep' = NoPrepare
    /\ visit' = NoVisit
    /\ visited' = {} /\ rebuilt' = {}
    /\ UNCHANGED <<now, sources, onDisk, onDevices, excused, changes, visits>>

(***************************************************************************)
(* checkForChanges()                                                       *)
(***************************************************************************)
\* What differs since the prepare info of p was written; all of it when there
\* is none.
resourcesChanged(p) == info[p] = None \/ sources[p].resources >= info[p].mtime
pluginsChanged(p) == info[p] = None \/ sources[p].plugins >= info[p].mtime
nativeChanged(p) == pluginsChanged(p) \/ info[p].hash # sources[p].dependencies
hasChanges(p) == resourcesChanged(p) \/ nativeChanged(p)

\* _prepareInfo and _changesInfo after the check.  The hash is that of the
\* moment, unless plugins changed.
CheckForChanges(p) ==
    LET hash == IF info[p] # None /\ pluginsChanged(p) THEN info[p].hash
                ELSE sources[p].dependencies
    IN  /\ changesInfo' = [kind |-> "changes", requireBuild |-> hasChanges(p)]
        /\ prepareInfo' =
               IF hasChanges(p)
               THEN [kind |-> "info", about |-> p, hash |-> hash,
                     time |-> now + 1, requireBuildTime |-> now + 1]
               ELSE [kind |-> "info", about |-> p, hash |-> hash,
                     time |-> info[p].time,
                     requireBuildTime |-> info[p].requireBuildTime]
        /\ now' = IF hasChanges(p) THEN now + 1 ELSE now

(***************************************************************************)
(* prepare()                                                               *)
(***************************************************************************)
prepared(place) == prep' = [prep EXCEPT !.at = place]

\* addPlatform() deletes what there is of the platform and creates it anew;
\* then webpack compiles.
AddPlatformAndCompile ==
    LET p == prep.platform
        without(of) == [t \in Targets |-> IF platformOf[t] = p THEN None ELSE of[t]]
    IN
    /\ prep.at = "starting"
    /\ \/ /\ native[p] = None
          /\ native' = [native EXCEPT ![p] = Template]
          /\ info' = [info EXCEPT ![p] = None]
          /\ package' = without(package)
          /\ buildInfo' = without(buildInfo)
       \/ /\ native[p] # None
          /\ UNCHANGED onDisk
    /\ prepared("compiled")
    /\ UNCHANGED <<now, sources, onDevices, memory, visit, call, excused, counters>>

\* startNativeWatcher(): there is one, and so prepareNativePlatform() is not
\* called.
FindsWatcher ==
    /\ prep.at = "compiled"
    /\ command = "run" /\ prep.platform \in watchers
    /\ prepared("saving")
    /\ UNCHANGED <<now, sources, onDisk, onDevices, memory, visit, call, excused,
                   counters>>

\* prepareNativePlatform(): the check, once the watcher has been started.
check ==
    /\ prep.at = "compiled"
    /\ command = "deploy" \/ prep.platform \notin watchers
    /\ watchers' = IF command = "run" THEN watchers \union {prep.platform} ELSE watchers
    /\ CheckForChanges(prep.platform)
    /\ prep' = [prep EXCEPT !.at = "checked", !.checks = TRUE,
                            !.nativeChanged = nativeChanged(prep.platform),
                            !.hasChanges = hasChanges(prep.platform)]
    /\ UNCHANGED <<sources, native, package, buildInfo, onDevices, command, initialInfo,
                   visit, call, excused, counters>>

(* Mutant: the prepare info is written as soon as the changes are known.   *)
PrepareChecksAndSaves ==
    /\ check
    /\ info' = [info EXCEPT ![prep.platform] =
                   [kind |-> "info", mtime |-> now', hash |-> prepareInfo'.hash,
                    time |-> prepareInfo'.time,
                    requireBuildTime |-> prepareInfo'.requireBuildTime]]

PrepareChecks == check /\ UNCHANGED info

\* prepareAppResources() always, prepareNodeModules() after a native change.
PrepareNative ==
    LET p == prep.platform IN
    /\ prep.at = "checked"
    /\ native' = [native EXCEPT ![p] =
           [k \in Kinds |-> IF k = "resources" \/ prep.nativeChanged
                            THEN sources[p][k] ELSE native[p][k]]]
    /\ prepared("native")
    /\ UNCHANGED <<now, sources, info, package, buildInfo, onDevices, memory, visit,
                   call, excused, counters>>

\* savePrepareInfo(): the file becomes _prepareInfo.
saved(p) ==
    /\ now' = now + 1
    /\ info' = [info EXCEPT ![p] =
           [kind |-> "info", mtime |-> now + 1, hash |-> prepareInfo.hash,
            time |-> prepareInfo.time,
            requireBuildTime |-> prepareInfo.requireBuildTime]]

\* The rest of prepareNativePlatform(): setNativePlatformStatus().
SetNativePlatformStatus ==
    /\ prep.at = "native"
    /\ saved(prep.platform)
    /\ prepared("saving")
    /\ UNCHANGED <<sources, native, package, buildInfo, onDevices, memory, visit, call,
                   excused, counters>>

\* The end of prepareCore().  Without a check it vouches for changes nobody
\* prepared, or writes what is about another platform.
SavePrepareInfo ==
    LET p == prep.platform IN
    /\ prep.at = "saving"
    /\ saved(p)
    /\ excused' = IF \/ prepareInfo.about # p
                     \/ ~prep.checks /\ hasChanges(p)
                  THEN excused \union {p} ELSE excused
    /\ prep' = [NoPrepare EXCEPT !.at = "done", !.hasChanges = prep.hasChanges]
    /\ UNCHANGED <<sources, native, package, buildInfo, onDevices, memory, visit, call,
                   counters>>

\* stop() of a device that failed.  The watchers of its platform are closed when
\* it was the last one of that, and all of them when it was the last one of the
\* run: then this call has no other of those platforms to visit.
deviceStops(p) ==
    \E closed \in {{}, {p}, Platforms} :
        /\ visit' = NoVisit
        /\ watchers' = watchers \ closed
        /\ visited' = visited \union {d \in Devices : platformOf[targetOf[d]] \in closed}

\* Any of it fails, and the device with it.
PrepareFails ==
    /\ prep.at \in {"starting", "compiled", "checked", "native"}
    /\ fails
    /\ prep' = NoPrepare
    /\ deviceStops(prep.platform)
    /\ UNCHANGED <<now, sources, onDisk, onDevices, command, prepareInfo, changesInfo,
                   initialInfo, rebuilt, excused, changes, visits>>

(***************************************************************************)
(* The action on a device                                                  *)
(***************************************************************************)
goOn(place) == visit' = [visit EXCEPT !.at = place]

\* The next device of the call, or the first one of another.
VisitDevice(d) ==
    /\ visit.at \in {"none", "done"} /\ prep.at \in {"none", "done"}
    /\ visits < MaxVisits
    /\ visits' = visits + 1
    /\ prep' = [NoPrepare EXCEPT !.at = "starting", !.platform = platformOf[targetOf[d]]]
    /\ visit' = [NoVisit EXCEPT !.at = IF command = "deploy" THEN "build" ELSE "look",
                                !.device = d,
                                !.required = sources[platformOf[targetOf[d]]]]
    /\ \/ d \notin visited /\ visited' = visited \union {d} /\ UNCHANGED rebuilt
       \/ visited' = {d} /\ rebuilt' = {}
    /\ UNCHANGED <<now, sources, onDisk, onDevices, memory, excused, changes, failures>>

(* Mutant: whether the last build has seen the changes is not asked.       *)
requiresBuildChanged(p, t, known) ==
    known.requireBuild \/ info[p] = None \/ buildInfo[t] = None

\* shouldBuild(), with the changes known so far, of whichever platform.
requiresBuild(p, t, known) ==
    \/ known.requireBuild
    \/ info[p] = None \/ buildInfo[t] = None
    \/ /\ info[p].time # buildInfo[t].prepareTime
       /\ info[p].requireBuildTime # buildInfo[t].prepareTime

\* The package of an earlier build; or none; or shouldBuild(), while the
\* prepare goes on.
LooksForPackage ==
    /\ visit.at = "look"
    /\ \/ /\ target \in rebuilt
          /\ goOn("install")
          /\ UNCHANGED <<now, prepareInfo, changesInfo>>
       \/ /\ target \notin rebuilt
          /\ package[target] = None
          /\ goOn("build")
          /\ UNCHANGED <<now, prepareInfo, changesInfo>>
       \/ /\ target \notin rebuilt
          /\ package[target] # None
          /\ IF changesInfo = None THEN CheckForChanges(platform)
             ELSE UNCHANGED <<now, prepareInfo, changesInfo>>
          /\ visit' = [visit EXCEPT !.at = "ask",
                          !.shouldBuild = requiresBuild(platform, target, changesInfo')]
    /\ UNCHANGED <<sources, onDisk, onDevices, command, watchers, initialInfo, prep,
                   call, excused, counters>>

\* The reasons for a build, hasNativeChanges of the prepare among them; the
\* developer may decline.
AskDeveloper ==
    /\ visit.at = "ask"
    /\ prep.at = "done"
    /\ \/ /\ visit.shouldBuild \/ prep.hasChanges
          /\ goOn("build")
          /\ UNCHANGED failures
       \/ /\ visit.shouldBuild \/ prep.hasChanges
          /\ fails
          /\ visit' = [visit EXCEPT !.at = "installIfNeeded", !.waived = TRUE]
       \/ /\ ~(visit.shouldBuild \/ prep.hasChanges)
          /\ goOn("installIfNeeded")
          /\ UNCHANGED failures
    /\ UNCHANGED <<now, sources, onDisk, onDevices, memory, prep, call, excused, changes,
                   visits>>

\* build(): gradle or xcodebuild, then the build info.
BuildProject ==
    /\ visit.at = "build"
    /\ prep.at = "done"
    /\ package' = [package EXCEPT ![target] = native[platform]]
    /\ goOn("built")
    /\ UNCHANGED <<now, sources, native, info, buildInfo, onDevices, memory, prep, call,
                   excused, counters>>

SaveLocalBuildInfo ==
    /\ visit.at = "built"
    /\ now' = now + 1
    /\ buildInfo' = [buildInfo EXCEPT ![target] =
           [kind |-> "build", prepareTime |-> info[platform].requireBuildTime,
            buildTime |-> now + 1]]
    /\ rebuilt' = rebuilt \union {target} /\ UNCHANGED visited
    /\ goOn(IF command = "deploy" THEN "install" ELSE "installIfNeeded")
    /\ UNCHANGED <<sources, native, info, package, onDevices, memory, prep, excused,
                   counters>>

\* shouldInstall(): initialDeviceBuildInfo is read once, and kept for every
\* device until a package differs from it.
InstallIfNeeded ==
    LET own == deviceInfo[visit.device]
        known == IF initialInfo # None THEN initialInfo ELSE own
        local == buildInfo[target]
    IN
    /\ visit.at = "installIfNeeded"
    /\ \/ /\ installed[visit.device] = None
          /\ goOn("install")
          /\ UNCHANGED initialInfo
       \/ /\ installed[visit.device] # None
          /\ known = None \/ local = None
          \* without a local build info it reads the time of nothing
          /\ IF known = None THEN goOn("install") ELSE goOn("throws")
          /\ initialInfo' = known
       \/ /\ installed[visit.device] # None /\ known # None /\ local # None
          /\ IF known.buildTime # local.buildTime
             THEN goOn("install") /\ initialInfo' = None
             ELSE /\ visit' = [visit EXCEPT !.at = "sync",
                                            !.waived = @ \/ known # own]
                  /\ initialInfo' = known
    /\ UNCHANGED <<now, sources, onDisk, onDevices, command, prepareInfo, changesInfo,
                   watchers, prep, call, excused, counters>>

\* installOnDevice(): the package, then the build info.  What is kept beside
\* the application goes with the old one (cleanDeviceTempFolder).
InstallOnDevice ==
    /\ visit.at = "install"
    /\ installed' = [installed EXCEPT ![visit.device] = package[target]]
    /\ goOn("installed")
    /\ deviceInfo' = [deviceInfo EXCEPT ![visit.device] = None]
    /\ UNCHANGED <<now, sources, onDisk, memory, prep, call, excused, counters>>

SaveDeviceBuildInfo ==
    /\ visit.at = "installed"
    /\ deviceInfo' = [deviceInfo EXCEPT ![visit.device] = buildInfo[target]]
    /\ goOn("sync")
    /\ UNCHANGED <<now, sources, onDisk, installed, memory, prep, call, excused,
                   counters>>

\* fullSync() and the rest; it waits for the prepare.
Synced ==
    /\ visit.at = "sync"
    /\ prep.at = "done"
    /\ goOn("done")
    /\ UNCHANGED <<now, sources, onDisk, onDevices, memory, prep, call, excused,
                   counters>>

\* The watcher has reported a native change: the handler of prepareReady
\* checks, and the files are synced; without HMR the package is installed if
\* it is another one.
SyncChangedData ==
    /\ visit.at = "done" /\ ~visit.changed     \* bound: once for a visit
    /\ command = "run" /\ platform \in watchers
    /\ hasChanges(platform)
    /\ CheckForChanges(platform)
    /\ \E place \in {"installIfNeeded", "sync"} :
          visit' = [visit EXCEPT !.at = place, !.changed = TRUE,
                                 !.required = sources[platform]]
    /\ UNCHANGED <<sources, onDisk, onDevices, command, watchers, initialInfo, prep,
                   call, excused, counters>>

\* The build or the installation fails; so does the visit.
VisitFails ==
    /\ visit.at \in {"build", "install", "throws"}
    /\ prep.at = "done"
    /\ IF visit.at = "throws" THEN UNCHANGED failures ELSE fails
    /\ deviceStops(platform)
    /\ UNCHANGED <<now, sources, onDisk, onDevices, command, prepareInfo, changesInfo,
                   initialInfo, prep, rebuilt, excused, changes, visits>>

BuildNext ==
    \/ \E p \in Platforms, kinds \in Edits : FileChanges(p, kinds)
    \/ StartCommand
    \/ AddPlatformAndCompile \/ FindsWatcher \/ PrepareChecks \/ PrepareNative
    \/ SetNativePlatformStatus \/ SavePrepareInfo \/ PrepareFails
    \/ \E d \in Devices : VisitDevice(d)
    \/ LooksForPackage \/ AskDeveloper \/ BuildProject \/ SaveLocalBuildInfo
    \/ InstallIfNeeded \/ InstallOnDevice \/ SaveDeviceBuildInfo \/ Synced
    \/ SyncChangedData \/ VisitFails

BuildSpec == BuildInit /\ [][BuildNext]_buildVars

(***************************************************************************)
(* Properties                                                              *)
(***************************************************************************)
\* The application on a device that was synced has every change made before
\* the sync began, through failures, kills and commands that began anew;
\* unless the developer declined the build, the build info of another device
\* was taken for its own, or the change fell where the prepare info is known
\* to hide it.
InstalledIsCurrent ==
    visit.at = "done" /\ ~visit.waived /\ ~visit.changed /\ platform \notin excused
        => \A k \in Kinds : installed[visit.device][k] >= visit.required[k]

\* A change of the native sources while they are watched causes a rebuild: once
\* it was synced, the application on the device has it.
ChangesAreRebuilt ==
    visit.at = "done" /\ visit.changed /\ platform \notin excused
        => \A k \in Kinds : installed[visit.device][k] >= visit.required[k]

\* The prepare info never vouches for a change the native project lacks: the
\* next prepare does what a failed or killed one has left undone.
InfoIsHonest ==
    \A p \in Platforms \ excused : info[p] # None =>
        \A k \in Kinds :
            native[p][k] = sources[p][k]
            \/ IF k = "dependencies" THEN info[p].hash # sources[p][k]
                                     ELSE sources[p][k] >= info[p].mtime

=============================================================================
