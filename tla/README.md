# Verification of the NativeScript CLI

This directory holds TLA+ models of the NativeScript CLI (`src/` is the
repository), the TLC configurations that check them on small instances, and
proofs that TLAPS checks for every value of the constants. The subject is what
is hard to test in this program: it is one event loop per process, full of
promises that are cached, chained and abandoned, with child processes, devices
and other CLI processes acting on their own.

Contents: [the system](#1-the-system), [how the models correspond to the
code](#2-modules-and-code), [the runs](#3-runs), [the
proofs](#4-proofs), [what the models show besides](#5-what-the-models-show-besides),
[the plan](#6-plan), [what is not modelled](#7-what-is-not-modelled).

To check everything by hand: `tlc -config X.cfg M` for each row of section 3
and `tlapm M.tla` for each module of section 4.

## 1. The system

The CLI creates, builds and runs mobile applications. The part with most state
and concurrency is *LiveSync*: `ns run` keeps an application on several devices
up to date with the sources. Around it are services that several CLI processes
share through files, and commands that may be killed between two steps and are
expected to go on from what is on the disk.

```
 client (command, key command, other program through the public API)
   | run(), stop()                    ^ runOnDevice... events
   v                                  |
 RunController ---- execute(action) ---> DevicesService ---> devices
   |   ^  process data, chain                 | deviceLost
   |   +--------------------------------------+
   |   ^ prepareReady event
   v   |
 PrepareController --- chokidar watcher of native files
   |   ^ compilation complete
   v   |
 WebpackCompilerService ---> webpack processes --registers pid--> CleanupService
                                                                     |
 JsonFileSettingsService ---> LockService --registers paths----------+
                                  |                                  v
                              <path>.lock                  detached cleanup process

 a link of the chain, for one device
   |
   +-> PrepareController -> ProjectChangesService, plugins -> native project
   +-> BuildController -> DeviceInstallAppService          -> package, application
   +-> AndroidLiveSyncService -> AndroidLivesyncTool       -> files, hot updates
                                      | socket
                                 application on the device
```

### Components, their state and what makes them correct

**Run controller** (`lib/controllers/run-controller.ts`,
`lib/services/livesync-process-data-service.ts`).
*State*: per project, the LiveSync process data (`isStopped`,
`deviceDescriptors`, `platforms`, `actionsChain`, `currentSyncAction`), the
field `prepareReadyEventHandler`, the deviceLost handler.
*Operations*: `run`, `stop`, the handler of `prepareReady`, the deviceLost
handler, the initial sync and the sync of changes (two links of a promise
chain).
*Hard*: `run` and `stop` interleave at every await; `stop` is also called from
inside the chain that `stop` awaits; a link holds the descriptors it was
created with; a link that throws rejects every later one.
*Correct when*: stopped devices are left alone, added devices stay, every
device is deployed once and before any change, a sync uses the prepare of its
own platform, watchers are closed in the end, every change arrives, every call
returns.

**Prepare controller and webpack compiler**
(`lib/controllers/prepare-controller.ts`,
`lib/services/webpack/webpack-compiler-service.ts`).
*State*: `watchersData` per platform, `isInitialPrepareReady`,
`persistedData`, `pausedFileWatch`, one `webpackCompilerHandler`, the global
promise `global.prepare`; `webpackProcesses` per platform.
*Operations*: `prepare`, `stopWatchers`, `toggleFileWatcher`,
`compileWithWatch`, `stopWebpackCompiler`; events of chokidar and of child
processes.
*Hard*: fields that are shared by all platforms, flags set before the await
they describe, processes that exit long after they were killed and whose
"close" handler then touches the state of their successor.
*Correct when*: each running webpack is heard exactly once and can be stopped,
no native change is lost between prepares, every call returns.

**File lock** (`lib/common/services/lock-service.ts`, the npm package
`proper-lockfile`, and `lib/detached-processes/cleanup-process.ts`).
*State*: the directory `<path>.lock`, the file `<path>`, the registrations at
each process's cleanup process.
*Operations*: `executeActionWithLock`, `lock`, the release function, the clean
up after a process.
*Hard*: processes killed at any point, waiters that give up, a release that is
not awaited.
*Correct when*: actions exclude each other, a killed holder does not block the
others, every patient waiter is served.

**Settings files** (`lib/common/services/json-file-settings-service.ts`).
*State*: the JSON file, `jsonSettingsData` of each instance.
*Operations*: `getSettingValue`, `saveSetting(s)`, `removeSetting`, each under
the file lock.
*Hard*: every call reads and writes the whole file; instances keep what they
read; a kill in the middle of the write; a call that takes its own lock again.
*Correct when*: concurrent calls of several processes behave as calls of one
store.

**Android LiveSync** (`lib/services/livesync/android-livesync-tool.ts`, the
Android and platform LiveSync services, the device's file of hashes, and
`lib/services/hmr-status-service.ts`).
*State*: the connection, the field `pendingConnectionData`, the operation under
way; the hashes of the files the device is thought to have; the
livesync-in-progress file; the status of a hot update.
*Operations*: `connect`, `sendFile`, `sendDoSyncOperation`, `end`; data, close
and error events; `fullSync`, `liveSyncWatchAction`, `finalizeSync`,
`restartApplication`; the retry and the fall-back of the run controller.
*Hard*: time-outs that race answers, one field for attempts that overlap,
sockets that are lost while they are written to, an application that dies,
keeps silent or refuses a hot update.
*Correct when*: the application that runs after the last change has it, an
attempt that failed leaves no connection, every sync ends.

**Cleanup service and process** (`lib/services/cleanup-service.ts`,
`lib/detached-processes/cleanup-process.ts`). *State*: the child process
promise (cached), the lists of commands, requests, scripts and files.
*Operations*: add and remove of each, the clean up on disconnect. *Hard*: the
start time-out, a CLI that ends while its clients are between two steps.
*Correct when*: nothing that was made is left behind.

**Devices service and discoveries** (`lib/common/mobile/mobile-core`).
*State*: `_devices`, `_availableEmulators`, the detection intervals.
*Operations*: found, updated and lost events, `execute`, start and stop of the
detection. *Hard*: actions on a snapshot of devices that come and go, intervals
that overlap their own detection. *Correct when*: at most one detection runs
and a stopped one can be started again.

**Project changes, builds and installation**
(`lib/services/project-changes-service.ts`, `lib/controllers/build-controller.ts`,
`lib/services/build-info-file-service.ts`,
`lib/services/device/device-install-app-service.ts`).
*State*: the prepare info in memory and on disk, the build infos of the packages
and of the devices, `initialDeviceBuildInfo`.
*Operations*: `checkForChanges`, `savePrepareInfo`, `shouldBuild`, `build`,
`installOnDeviceIfNeeded`, over one device after the other.
*Hard*: time stamps and hashes stand for contents, one field for all platforms
or devices, kills between doing and remembering.
*Correct when*: what a device runs has every native change made before.

**Plugins** (`lib/services/plugins-service.ts`, the project services,
`lib/services/android-plugin-build-service.ts`). *State*: the native code of each
plugin in the native projects, the `.aar` files, two files of hashes.
*Operations*: prepare of each plugin, install, remove. *Hard*: a plugin that
changes or a kill while it is being built. *Correct when*: what was prepared is
what is installed.

**Migration and backup** (`lib/controllers/migrate-controller.ts`,
`update-controller.ts`, `lib/services/project-backup-service.ts`,
`project-cleanup-service.ts`, `project-config-service.ts`). *State*: the files of
the project, `.migration_backup`. *Operations*: `migrate`, `update`. *Hard*: a
command that is killed half way and started again. *Correct when*: no file and
no setting of the project is lost.

**LiveSync command helper and key commands**
(`lib/helpers/livesync-command-helper.ts`): the clients of `run` and `stop`,
restart included.

The other components keep no state that outlives a call, or only read and write
project files: debug controller and device sockets, device logs, emulators,
project data, hooks, injector, analytics, extensibility, commands and options,
doctor, Apple portal, assets, application tests, wrappers of node.
`PROJECT.json` lists each with its sources and the reason it has no module.

### Interactions

- *Calls*: client → run controller → prepare controller → webpack compiler;
  everything → cleanup service, settings → lock.
- *Events*: webpack's messages and exit, chokidar's events, deviceLost; they
  run between any two awaits.
- *Shared state*: `global.prepare` (written by `prepare`, awaited by every
  device action), the process data (run, stop, the links), the settings file
  and the lock directory (several processes), `_prepareInfo` and
  `initialDeviceBuildInfo` (every device of a session), the files a killed command
  leaves to the next one.
- *Promises as queues*: `actionsChain` is the only queue of the run controller;
  `currentSyncAction` is what a partial `stop` awaits.

The hazards these interactions bring are listed in `PROJECT.json`, each at its
line, with the properties that would notice it going wrong.

## 2. Modules and code

| module | what it is |
| --- | --- |
| `RunController` | LiveSync of one project, with the watchers and `prepare()` reduced to one state per platform |
| `PrepareController` | `prepare()`, `stopWatchers()`, `toggleFileWatcher()` and the webpack processes |
| `LockService` | the lock directory, several CLI processes and their cleanup processes |
| `Mutex` | abstract: what a lock promises to users that may die |
| `JsonFileSettings` | the settings file, its instances and processes, and what it depends on of the lock |
| `SettingsStore` | abstract: what the settings promise |
| `AndroidLivesyncTool` | the sockets between the CLI and an application on an Android device |
| `AndroidDeviceLiveSync` | LiveSync of one application on one Android device, composed with `AndroidLivesyncTool` |
| `ProjectBuild` | prepare, build and installation of native changes over several devices and commands |
| `PluginNativeCode` | the native code of plugins on its way into the native projects |
| `Migration` | `ns migrate` and `ns update` over the files of a project |
| `DeviceDetection` | the checks that find, lose and update Android devices |
| `CleanupService` | the cleanup process, its clients and the end of the CLI |
| `MC...` | instances for TLC; `MCServices` holds the last five |
| `...Proofs` | theorems |

`LockService` implements `Mutex` (checked and proved): a lock is taken when it is
free or its holder is dead, and given back by its holder or for a dead one. No
step of `Mutex` is the removal of the directory of a running call by somebody else
(`robbed`), which the code does allow; the refinement names that step, section 5 how
it comes about.

`JsonFileSettings` does not rest on that promise, since the lock does not always
keep it. It has the part of `LockService` the file depends on: the directory is
taken when it is free or its creator is dead, and each call that waits, even in
vain, has listed it with the cleanup process of its CLI process, which
deletes it, whoever holds it by then. It implements `SettingsStore` as long as no
lock was deleted under a running call (`intruded`).

`RunController` and `AndroidDeviceLiveSync` meet at a link of the chain: to the
first, the transfer to a device is one step that ends well or fails; the second
is what happens in it, for one device, with the run controller's retry. In the
same way `prepare()` is one state in `RunController`, a protocol of watchers
and processes in `PrepareController`, and a decision about what is up to date
in `ProjectBuild`.

An action is the code between two awaits, because that is what runs without
interruption on node's event loop. A call of an asynchronous function is a
record (or a program counter) that says at which await it is.

### RunController

| variable | in the code |
| --- | --- |
| `session` | `isStopped`, `deviceDescriptors`, `platforms` of the process data |
| `chain` | `actionsChain` as a sequence of links, how many have settled, whether one runs, whether one has thrown, and `currentSyncAction` |
| `act` | the running link's place in `$devicesService.execute`: devices still to visit, the current one, its stage, whether one failed |
| `prep` | `global.prepare` |
| `watch` | the webpack process of each platform |
| `run`, `stop` | the calls; a `stop()` made for a lost device bears its name, the one a failing sync makes is `InAction` |
| `handlers` | `prepareReadyEventHandler` and the deviceLost handler |
| `connected` | what the devices service knows |
| `changes` | changes reported, and native ones that await `$projectChangesService` |
| `told`, `gone` | history: the devices announced as stopped, and those each `stop()` took out, until they join again |
| `stale`, `overtaken` | history: the devices of a link that a `stop()` took out before the link was over, or had begun |
| `deployed`, `skipped`, `missing` | history: devices that got their initial sync, whose initial sync came to nothing in a stopped LiveSync, that lack a change |
| `escaped`, `orphaned` | history: webpack started behind a `stop()`, a `prepare()` whose device failed |

`stop()` is `BeginStop` (up to the first await), `StopLonely` (the platforms
without devices), `StopClosing` and `StopChain` (the whole LiveSync is
stopped) or the "action" stage (a partial stop), and `StopReturns`. `run()` is
`RunCall`, `RunFails`, `RunStart`, `RunReturns`. A link is `StartLink`,
`VisitDevice`, `StartTransfer`, then `DeviceSynced` or `DeviceFails` and
`DeviceStopped`, and `EndLink`; `SkipLink` is a link that finds the LiveSync
stopped. A
device action is reduced to the points where it awaits something another actor
can disturb: the prepare, the transfer, and the `stop()` of a failure. `prepare()`
is `StartWatcher`, `SpawnWebpack`, `FirstCompilation`, `PrepareEnds`; it fails in
`PrepareFails` (dependencies, platform, native project) or with webpack. All calls
may overlap.

### PrepareController

| variable | in the code |
| --- | --- |
| `watcher` | `watchersData[projectDir][platform]` |
| `listeners` | the handlers made so far: the platform of each and whether it is attached; the last one made is `webpackCompilerHandler` |
| `ready`, `persisted`, `paused` | `isInitialPrepareReady`, `persistedData`, `pausedFileWatch` |
| `prep` | the `prepare()` under way or the last one |
| `closing`, `toggle` | the `stopWatchers()` and `toggleFileWatcher()` under way |
| `compile` | the `compileWithWatch()` call of each caller |
| `process` | `webpackProcesses` |
| `child` | the operating system's processes: compiling, on, killed, exited, gone |
| `owed` | history: native changes no `prepare()` has reported |
| `suspended` | history: platforms that were paused and not started since |
| `misheard` | history: platforms that were given or left a listener out of turn |
| `forgotten` | history: processes that lost their entry in `webpackProcesses`, or were spawned behind a stop |

`compileWithWatch` is `KillRunning`, `MaySpawn`, `SetupFails`, `Spawn`,
`FirstMessage`; a child leaves by `Exit` (it dies, or was killed) and later
`Close` (the handler of the "close" event runs). `PrepareFails` is a `prepare()`
that fails without webpack: in the dependencies or the platform before it, or in
the native project after it.

### LockService, JsonFileSettings

`LockService`: a task is one call of `executeActionWithLock`; one action per
await of `lock()` and of the release function. `<path>.lock` is the variable
`lockDir` (who made the directory), `<path>` is `lockFile`. A directory is
stale once the process that made it no longer runs. `ProcessEnds` is a normal
end or a kill, `ExecuteCleanup` the cleanup process. `robbed` and `exposed` are
history: calls whose directory somebody else removed while they ran, and calls
whose registration another call of their process withdrew.

`JsonFileSettings`: the file is a function from keys to values, absent, or
broken (it does not parse); `Write` goes to the middle of `writeJson`, where the
old contents are gone, and `Written` is its end. `Load` and `DeleteBroken` are
`loadUserSettingsFile` with its deletion of a file that does not parse. `listed`
is the set of processes whose cleanup process (`Sweep`) will delete the lock
directory; `Timeout` leaves a process in it, `CleanLock` takes it out. When a lock
is deleted under a running call, the model goes on with what the code then does:
two calls write at a time, and the nested call of `removeSetting` gets the lock.

### AndroidLivesyncTool, AndroidDeviceLiveSync

| variable | in the code |
| --- | --- |
| `socketConnection` | `this.socketConnection` |
| `sock` | of each socket, whether it is open or lost and whose listeners it has: of the attempt under way, of one that is over, or those of `handleConnection()` |
| `connect`, `retryTimers`, `pending`, `lookups` | the attempt of `connect()`: its place and `isConnected`, the timers of `tryConnect`, whether `pendingConnectionData` is set, the time-outs that await a process id |
| `operation` | `pendingOperations`, of which a sync has one |
| `stream`, `report` | what is on the socket in each direction |
| `local`, `device`, `app` | the versions on the computer, on the device and in the running application |
| `hashes` | the file of hashes on the device |
| `marker` | the livesync-in-progress file |
| `sync` | the place of the sync, its stage (first, after a failed refresh, after a failed hot update), what is to be sent |
| `queue`, `live` | changes the run controller has not synced, whether the device is in LiveSync |
| `hmrStatus` | the status `$hmrStatusService` has found |
| `late` | history: something of an attempt that is over has come |

The module of the tool has actions for timers and events; `connect()`, writes
and the end of the connection are operators that the actions of the device
conjoin with steps of their own (`BeforeLiveSyncAction`, `SendFile`, `DoSync`,
`DoSyncEnds`, `StartApplication`). A change is synced by `SyncChangedData`,
`BeforeLiveSyncAction`, `Connected`, `GenerateHashes`, `SendFile` and
`SendUpdate`, `UpdateHashesOnDevice`, `DoSync`, `DoSyncEnds`,
`RefreshApplication`, `StopApplication`, `StartApplication`, `HmrStatusKnown`;
any of them may lead to `SyncFails`. An update that failed is tried again with all
files, after the package was installed if it has to be (`installOnDevice`).
`AppTakesFile`, `AppSyncs` and `AppDies` are the application, which is not in the
repository.

### ProjectBuild

| variable | in the code |
| --- | --- |
| `sources`, `native`, `package`, `installed` | contents, as the times of the changes they hold, of the sources, the native project, the package and the application on each device |
| `info`, `buildInfo`, `deviceInfo` | `.nsprepareinfo` and `.nsbuildinfo`, on the computer and on the device |
| `prepareInfo`, `changesInfo`, `initialInfo` | `_prepareInfo`, `currentChanges`, `initialDeviceBuildInfo` |
| `prep`, `visit` | where `prepare()` and the action on a device are |
| `visited`, `rebuilt` | the devices of this call, `rebuiltInformation` |
| `excused` | history: platforms with a change in a window that section 5 names |

### PluginNativeCode, Migration, DeviceDetection, CleanupService

`PluginNativeCode`: `code` is what is in `node_modules`, `aar` what was built of it,
`inXcode` the versions of which the Xcode project has all files,
`tempPlugin` and `nativeHashes` what is remembered; `node` is the place of
`prepareNodeModules()`. The Xcode project is only ever added to, the sources in one
save (`AddNativeSourceCode`), resources, frameworks and libraries in others
(`AddResourcesAndLibraries`), so it may have files of several versions. `unseen`,
`withdrawn` and `touched` are history.

`Migration`: `project` and `backup` say of each file whether it is there and
whether it is the one the developer had; `listed` is `_backup.json`; `config`
is how far `nativescript.config.ts` is; `step` and `todo` are the command.
`Ends` is a kill or an error at any step. The files are those the code lists, `lib`
and `tsconfig.tns.json` included; a project shared with a web one keeps the
latter (`Cleaned`), another loses it (`Unshared`).

`DeviceDetection`: `attached` is the truth, `tracked` what the discovery has seen,
`known` what the CLI sees; `checker` and `listing` are the checks under way.

`CleanupService`: `cleanupProcess` is the cached promise, `detached` the process,
`messages` the channel between them; `client` says of each webpack process and
temporary file where the code that makes it is. `Exit` runs between two events,
`IsKilled` at any step.

## 3. Runs

| run | module, configuration | properties | outcome |
| --- | --- | --- | --- |
| LockKilled | MCLockService, LockKilled.cfg | MutualExclusion, HolderIsCovered, IsMutex, LockIsRecovered, EveryWaiterIsServed | hold |
| LockImpatient | MCLockService, LockImpatient.cfg | WaitsForUnlock | violated |
| PrepareOne | MCPrepareController, PrepareOne.cfg | TypeOK, HeardOnce, RunningIsKnown, NativeIsTold, EveryCallReturns | hold |
| PrepareTwo | MCPrepareController, PrepareTwo.cfg | NativeIsTold, EveryCallReturns | hold |
| RunOnce | MCRunController, RunOnce.cfg | TypeOK, PreparedBeforeSync, NoWatcherLeft | hold |
| RunTwice | MCRunController, RunTwice.cfg | NoSyncAfterStopped, ActiveIsHandled, NoDeviceIsDeployedTwice, PlatformsCovered, InitialSyncComesFirst | hold |
| RunLive | MCRunController, RunLive.cfg | EveryCallReturns, ChangesArrive | hold |
| Settings | MCJsonFileSettings, Settings.cfg | TypeOK, IsStore, EveryCallReturns | hold |
| AndroidSync | MCAndroidDeviceLiveSync, AndroidSync.cfg | TypeOK, SyncDelivers, RejectedMeansNoConnection, OnlyLateEventsThrow, MarkerIsCleared | hold |
| AndroidSyncLive | MCAndroidDeviceLiveSync, AndroidSyncLive.cfg | EverySyncReturns, ChangesAreSynced | hold |
| Services | MCServices, Services.cfg | InstalledIsCurrent, InfoIsHonest, PreparedPluginsAreCurrent, OriginalsAreKept, SettingsSurvive, DetectionSettles, NothingIsLeftBehind | hold |
| NativeChange | MCServices, NativeChange.cfg | ChangesAreRebuilt | violated |

### What they show, and why their bounds are enough

**LockKilled.** Two processes that may be killed at any step; the first makes two
calls, which may overlap, and the call of the second may run out of retries. Two
of them are inside together only when somebody removed the directory of one that runs;
every other step of the lock is one of `Mutex`. A holder is known to its cleanup
process unless the other call of its process withdrew the directory, the lock of a
dead process does not outlive its cleanup process, and every patient waiter gets
the lock. Two calls in one process are what `exposed` needs, a kill, a process that
gave up and a third call what `robbed` needs; the proofs lift the bound.

**LockImpatient.** Three processes, one call each, nobody killed.
`lib/definitions/lock-service.d.ts:30` says that `lock()` "Waits until the `unlock`
method is called for the specified file". One call gives up waiting, its process
ends in the ordinary way and the cleanup process deletes the directory under the
holder: the third call enters. It takes a holder, a waiter that gives up and
one that profits.

**PrepareOne.** Two platforms, one call at a time in any order (`Overlap = FALSE`):
one platform is stopped while the other is watched, both are paused and
resumed around the stop, a process is started before its predecessor has closed,
preparation and compilation of android fail and its webpack dies. Two handlers
and two toggles are one prepare of each platform, or two of one, with one pause and
one resumption in between. A running webpack has exactly one listener of its platform,
unless its platform was given or left one out of turn, and is the one
`stopWatchers()` would reach, unless it lost its entry to another; no native
change is forgotten and every call returns.

**PrepareTwo.** The same two platforms with calls that overlap (`Overlap = TRUE`):
`prepare()` and the resumption start webpack for one platform at the same time,
each kills the process the other waits for, and a late "close" clears the entry of
a successor. No call hangs, and no native change is forgotten although the
persisted events and `isInitialPrepareReady` are shared by all platforms.
`stopWatchers()` is left to PrepareOne (`Stoppable = {}`): it kills webpack the way
pausing does, and with it the instance is too large for the liveness check.
HeardOnce and RunningIsKnown are proved for overlapping calls as well.

**RunOnce.** One `run()` for an android and an iOS device, one `stop()` by the client
at any time, also while `run()` is under way, a change. Whatever can fail fails:
the prepare and the transfer of each device, webpack for android, the
connection of the iOS device. No initial sync uses the prepare of the other platform,
unless the one under way was left behind by a device that failed, and a stopped
LiveSync leaves no webpack but what a `prepare()` starts behind the `stop()`. Two
platforms are what the shared `global.prepare` needs.

**RunTwice.** Two calls of `run()`, a `stop()` by the client and a change, all of which
may overlap; transfers to one device fail. Devices that were announced as stopped
get no more files but those of an initial sync that was in the queue, the LiveSync
hears its watchers as long as it has devices, no device is due for two initial
syncs, the watchers `stop()` will close include those of every device, and no
change overtakes the initial sync of a device, unless that is queued behind it or
came to nothing. A second `run()` is what puts a device into the LiveSync while
a change waits. The two calls are interchangeable (`RunsAreAlike`).

**RunLive.** Failing transfers to both devices, a lost device and a `stop()` at any time,
also during `run()`. Every call returns (in particular the `stop()` a failing sync
makes from inside the chain) and every change reaches the deployed devices that stay.

**Settings.** Two processes, four calls on two keys: one process saves the first key
and reads the second, the other saves the second and removes it. The second
process may be killed, and a call of each may run out of retries. Each call
resolves an instance of its own, as the user settings do. The file is a store in
which each call happens at one moment, `removeSetting` included (it fails); a kill
during the write may lose all settings, which the store allows (`Ends`). The
promise ends when the cleanup process of a call that gave up, or was killed,
deletes the lock of a running one (`intruded`): two keys saved by two processes are
what it takes to lose one then, and a read by one of them what it takes to notice.

**AndroidSync.** One device, two files, two changes of either kind (hot updates
or files, of the older and of the newer webpack), both protocols of the runtime,
two sockets and one fault: a late answer, an error of adb or of the application,
its death, or a new beginning after a failure. Two files tell a file that was
sent from one that was skipped for its hash; two changes put one behind another
that failed, whose hot update the second builds upon; two sockets are the
connection and one that is abandoned. After the last change the application runs
the newest files, unless the code knows or must know better (`excused`).

**AndroidSyncLive.** The same with one change. Every sync ends, although nothing
is asked of the application or of the sockets, and every change is synced or
takes the device out of LiveSync.

**Services.** Five components that share no state, in one run because the
question is the same of each: does what was remembered, on disk or in a field,
still say the truth after failures and kills? `part` picks the one that moves;
the others stand still, so the states add up and do not multiply.

- *build*: two Android devices and one iOS device, a change of resources, of
  dependencies or of plugins, three visits over several commands, one failure,
  kill or declined build. Two devices of one platform are what the shared
  `initialDeviceBuildInfo` and the watcher of the first visit need, the third
  what the shared `_prepareInfo` needs; three visits allow a second command. A device
  that was visited has every change made before, and `.nsprepareinfo` never
  vouches for a change the native project lacks.
- *plugins*: one plugin (plugins are independent but for `node`; the proof lifts
  the bound), two versions, three edits and four prepares: enough for an edit
  while it is being built, a revert after a kill, and a removal between. A prepare
  that ends leaves the code that is installed, in the Xcode project perhaps
  beside that of other versions.
- *migration*: the files of a project with `lib`, hooks and all legacy files, three
  attempts, killed or failed anywhere: a first that ends early, a second that ends
  with what the first left, and one that succeeds. No original is lost in
  the first attempt, and the settings are always somewhere.
- *detection*: two devices, two changes, three checks that may overlap. In the end
  the CLI knows what is attached.
- *cleanup*: two webpack processes and a temporary folder, two faults among kills,
  a cleanup process that does not start or starts late, and commands that fail.
  Whatever way the CLI ends, webpack does not outlive it.

**NativeChange.** `docs/man_pages/project/testing/run.md:18` says "Changes in
`App_Resources` will cause a rebuild of the application."; the code that would do
it is switched off (`if (/* data.hasNativeChanges */ false)`,
`run-controller.ts:821`). The change is prepared, the application on the device
remains the one built before.

### Bounds and switches

`MaxChanges`, `MaxHandlers`, `MaxToggles` and the sets of calls bound counters
that the code does not bound; they appear in guards of the environment only, so
nothing the system itself would do is cut off. Symmetry is used for the two
Android devices of `MCServices` and the two calls of `run()` in RunTwice, which
nothing tells apart; elsewhere devices, calls and processes differ in platform and
in what may happen to them. Every
configuration says `CHECK_DEADLOCK FALSE` because every environment here may stop
for good; that no call hangs is what the liveness properties say.

### Fairness

- The event loop runs what is due and every tool that was started ends, with or
  without an error (installs, transfers, compilations have their own time-outs
  or are processes that exit): weak fairness of the steps of the system
  (`System` of `RunController`, the steps named in `FairSpec` of
  `PrepareController`, `Step` of `JsonFileSettings`, `TaskStep` of
  `LockService`).
- `AndroidSyncLive`: the steps of the sync (`SyncStep`) and the timers of the tool
  (`Timers`): `connect()` and the do-sync operation have time-outs of their own.
  Files and answers of the application, and the events of sockets, may never come.
- The cleanup process of a dead process runs: the operating system keeps a
  detached child alive.
- Nothing is assumed of clients, devices, files, kills and deaths of webpack.
- A waiter for the lock needs no strong fairness because each call takes the lock
  once: the others run out of calls.

## 4. Proofs

| theorem | says |
| --- | --- |
| `LockServiceProofs!TypeCorrect` | TypeOK |
| `LockServiceProofs!LockIsMutual` | MutualExclusion |
| `LockServiceProofs!LockIsMutex` | IsMutex: the lock implements `Mutex` |
| `LockServiceProofs!HolderStaysCovered` | HolderIsCovered |
| `RunControllerProofs!TypeCorrect` | TypeOK |
| `RunControllerProofs!PlatformsAreCovered` | PlatformsCovered |
| `RunControllerProofs!ActiveHearsChanges` | ActiveIsHandled |
| `RunControllerProofs!SyncIsPrepared` | PreparedBeforeSync |
| `RunControllerProofs!ChangesWaitForInitialSync` | InitialSyncComesFirst |
| `RunControllerProofs!StoppedLeavesNoWatcher` | NoWatcherLeft |
| `RunControllerProofs!DeployedOnce` | NoDeviceIsDeployedTwice |
| `RunControllerProofs!StoppedIsFinal` | NoSyncAfterStopped |
| `PrepareControllerProofs!TypeCorrect` | TypeOK |
| `PrepareControllerProofs!NativeChangeIsTold` | NativeIsTold |
| `PrepareControllerProofs!RunningWebpackIsKnown` | RunningIsKnown |
| `PrepareControllerProofs!ChangesAreHeardOnce` | HeardOnce |
| `JsonFileSettingsProofs!TypeCorrect` | TypeOK |
| `JsonFileSettingsProofs!SettingsAreStore` | IsStore: the settings implement `SettingsStore`, if each call has an instance of its own (`Fresh`) |
| `AndroidDeviceLiveSyncProofs!RejectedIsFinal` | RejectedMeansNoConnection |
| `AndroidDeviceLiveSyncProofs!InTimeNothingThrows` | OnlyLateEventsThrow |
| `AndroidDeviceLiveSyncProofs!MarkerGoesAway` | MarkerIsCleared |
| `AndroidDeviceLiveSyncProofs!TypeCorrect` | TypeOK |
| `AndroidDeviceLiveSyncProofs!ApplicationIsCurrent` | SyncDelivers |
| `ProjectBuildProofs!InfoStaysHonest` | InfoIsHonest |
| `ProjectBuildProofs!ApplicationsAreCurrent` | InstalledIsCurrent |
| `ServicesProofs!PreparesAreCurrent` | PreparedPluginsAreCurrent |
| `ServicesProofs!DetectionIsSound` | DetectionSettles |
| `ServicesProofs!CleanupIsComplete` | NothingIsLeftBehind |
| `MigrationProofs!SettingsAreKept` | SettingsSurvive |
| `MigrationProofs!OriginalsAreSafe` | OriginalsAreKept |

Each holds for any number of processes, devices, sockets, platforms, plugins,
calls, changes, faults and kills, however calls overlap, under the assumption each
module states of the types of its constants. The one further assumption is `Fresh`,
without which the settings are no store (section 5). What a property
excepts it excepts in the theorem as well: a history variable names the cases
(`robbed`, `exposed`, `intruded`, `overtaken`, `skipped`, `escaped`, `orphaned`,
`misheard`, `forgotten`, `late`, `excused`, `unseen`, `withdrawn`, `hasty`,
`unusable`, `interrupted`, `backupLost`), no guard reads it, and section 5 says what
the code does then.

*The lock.* Nothing is assumed of kills, of waiters that give up and of the number of
calls in a process. Mutual exclusion is not inductive: `IInv` adds that the
directory belongs to a call that is inside and not robbed (`DirIsHeld`), that a
running call inside has its directory unless it was robbed (`HolderHasDir`), and
that only calls that held it are (`RobbedHeld`). From `IInv` every step of the lock is
one of `Mutex`, a stutter, the removal of the directory of a running call by
somebody else, or the leave of a call robbed so (`Robbery`). `HolderStaysCovered`
says why the lock comes back after a kill: from its registration to its release the
directory is listed with the cleanup process, unless another call of the process
withdrew it (`CoveredInv`).

*The run controller.* The type invariant includes `ChainInRange`: the running link
exists and a device action belongs to a link. `PlatformsCovered` rests on one
fact about every step (`OnlyRunAdds`): only `run()` adds devices or changes the
platforms, and it adds both together. `PreparedBeforeSync` needs more, because
the device's action reads `global.prepare` at its start and again after awaits:
`PrepareInv` says that the prepare a device action waits for is that of its own
platform, and that none outlives the action that asked for it, unless its device
failed under it (`orphaned`). Most steps do not concern the running action; the
lemmas `...IsAside` and `...Does` say so once for each group. `ActiveIsHandled`
follows from who removes the handler: only a `stop()` that has emptied the LiveSync.

`InitialSyncComesFirst` is a statement about the chain. `FirstInv` says that a device
which is in the LiveSync and has not got its initial sync is in a link that is
queued, is being synced from scratch or will be by the link that runs, was
disconnected before its turn, or the chain is broken (`Awaited`); then a link with a
change cannot visit it unless its own is queued behind. `ShapeInv` keeps the links
with devices apart from those with changes.

`NoWatcherLeft` needs two facts: what runs, is being prepared or will be prepared by
a link is of a platform that `stop()` closes (`KnownInv`), and what a `stop()` has
closed stays closed until it is over, or was started behind it (`ClosedStay`,
`Quiet`).

`NoDeviceIsDeployedTwice` rests on `DueInv`: a device that is due in a pending link is
in the LiveSync, so `run()` leaves it out. What is due only becomes less (`Less`),
except for the devices a `run()` brings. `NoSyncAfterStopped` rests on `StopInv`: a
device a `stop()` took out is out until it joins again (`GoneIsOut`), the call a
failing device makes is about the device of the running action
(`FailingIsStopped`), a `stop()` awaits the link that was running when it took its
devices out (`LinkIsAwaited`), and once it has announced them no link is open for
them (`ToldIsClosed`), but links that had not begun then (`overtaken`).

*The prepare controller.* Calls may overlap in any way. `NativeIsTold` rests on
`OwedIsPersisted`: a native change that nobody was told of is among the persisted
events until a `prepare()` takes them. `RunningIsKnown` is inductive with the types
and `Born` (a process that runs is of a platform), once it is known which steps leave
the entries alone (`Quiet`): every other step either starts a process that has the
entry and the flag, or takes the entry from one that was killed, or has it
recorded. `HeardInv` says of each platform not misheard: if it is followed (webpack
is started, or paused), one listener is attached, the last that was made for it
(`OneListens`); otherwise none is, and no webpack of it runs or is on its way
(`Starting`). That it is the last made is what makes `removeListener` take the
right one.

*The settings.* `TypeCorrect` holds with kills, robberies and shared instances. It is not
inductive: what is written must be data that was loaded (`WriterHasData`). The
refinement holds as long as no lock was deleted under a running call; kills and
calls that give up are included. `Undisturbed` says what is true until then: a running call
inside holds the lock (`LiveIsHolder`), whoever holds it is inside
(`HolderIsInside`), `removeSetting` never gets it twice (`NobodyRewrites`), no
instance has data before it is inside (`UnloadedBefore`), nothing is answered
before it is done (`Unanswered`), and the file is as the holder left it
(`FileIsHolders`). It maps the store to the file, except inside `writeJson`, where it
is what is being written (`Content`): a save takes effect when its write begins,
which is sound because nobody else can look, and is undone by a kill in the middle.
`StoreStep` takes each action to its step of the store.

*The sockets.* `ConnectInv` says that attempts do not overlap: one is under way
exactly while a sync awaits it, it has at most one socket or timer, which are
gone before it is over, and its time-out decides nothing once it has connected.
`RejectedMeansNoConnection` is part of it; that `connect()` sets `isConnected`
when the time is up is what makes it inductive. `LateInv` says what is true while
nothing of an earlier attempt has been handled since the last one began (`late`),
whatever else goes wrong: an attempt that waits has its
`pendingConnectionData`, so no handler of it throws.
`MarkerInv` extends `MarkerIsCleared` to the places a sync goes through once its
files were transferred. The steps of the tool are proved one by one; those of the
sync go through four lemmas, one for each thing a step may do to the sockets
(`AttemptsAside`, `ConnectBegins`, `Closing`, `CuttingOff`).

`TypeOK` includes whose listeners a socket has; `EarsInv` makes that inductive: a
free socket has none, an attempt takes a free socket, and the connection is
removed with its listeners.

*What the application gets.* `SyncDelivers` speaks of the end of all syncs only;
`DeliverInv` says where the newest version of a file is at every step before.
A version is `Sound` when it is the newest or when a change of its file waits in the
queue, whose last change of a file is always its newest one (`QueueInv`); a
change of the developer makes nothing unsound (`ChangeIsSound`). During a
transfer each file that is given is still to send, on its way, on the device, or
the connection is broken and the sync will fail (`SendInv`); what is on its
way is of this sync, and the do-sync operation is the last of it (`StreamInv`), so its
report says that all has been taken. `HashInv` is why the first sync may leave files
out: no hash promises more than the device has. `HasInv` says of the application
that only the file of the change under way may be old, or any file while the
first sync is on (`Behind`); a restart happens only when all files on the device are
sound (`StopInv`, `DevInv`), and a hot update that was reported as applied is, or the
status is "error" and all chunks follow. `UpdateInv` excludes that an old hot
update is applied late: the one on the device is that of this sync, or none, when the
report comes. The steps of the connection need four cases (`LinkAside`, `LinkEnds`,
`LinkReports`, `LinkBegins`); every other step has a lemma of its own.

*The prepare info.* `InfoIsHonest` is not inductive because the info is written
some steps after the check it rests on. `PreparedInv` says why it may be written:
what the prepare does not renew was up to date at the check, or changed in the
window that `excused` records. `TimesInv` orders the times of files, hashes and
changes, and `PrepareInv` says which fields are set at which step.

*The installed application.* `CodeInv` follows a change from the sources to
the device. `BuiltInv` is its centre: when the build info of a package carries the
time of the prepare info (`Matches`) the package has all the changes but those the
next check will see, and so has each application whose build info is the
package's. `StampsInv` says that no stamp is ahead of the clock, so that a new one
is new; `RememberedInv` that a prepare without changes keeps the time builds are
compared with and one with changes gives a time no build has; `RebuiltInv` why a
call may use a package it has built for another device, which is that the
platform stays watched, so that no prepare checks it again before the call has
visited the last of its devices; `NativeInv` and `VisitInv` what the native project and
the package hold at each place of a visit. The proof found two things the model
had wrong: `stop()` of a device that failed closes the watchers of a platform
only when no device of it is left (without that, `RebuiltInv` is false), and
`shouldInstall()` throws when there is no local build info to read.

*The plugins.* `MemoryInv` says of each plugin that what is remembered is true: the
folder of the last build, and the hashes of both platforms, those of Android
being hashes of sources *and* `.aar`. `PluginInv` follows the plugin at hand from
its first hash to the second, and `DoneInv` collects those that are done.

*The migration.* `SettingsInv` and `OriginalsInv` tie the place of the command to
what it has done so far: which files of the list are still to be copied, that
nothing is removed before all are copied, and that the legacy files go last. The
lists are sequences; `ToSetOfRest` says how the set of their files shrinks.

*The detection.* `DetectionSettles` says nothing while an `init()` is under way.
`Followed` does: an `init()` under way is about the status its device is tracked
with, and without one the device is known with that status.

*The cleanup.* `Accounted` says whose each existing thing is (a client that will still
register it, the cleanup process, or nobody, when it was forsaken), `Announced` that
what is on is registered or about to be: messages are read in order, and nothing but
"add" was sent for it. `StartInv` ties the messages to the life of the process.

*Only model-checked*: liveness (`EveryCallReturns`, `ChangesArrive`,
`EveryWaiterIsServed`, `LockIsRecovered`, `EverySyncReturns`, `ChangesAreSynced`),
since fairness and `ENABLED` are beyond the provers used; and the two violations.
Every invariant and action property of the passing runs is proved. No module uses
recursion.

## 5. What the models show besides

### Set aside by a constant

Two behaviours of the code are set aside by a constant of a configuration; changing it
makes TLC show them.

- *Webpack died* (RunLive.cfg with `Fragile = {ios}` and no `stop()` by the client,
  ChangesArrive): `stopWatchers` takes the pid of a process that is not there and
  throws. When it is called for the failure of a lost device, the error
  rejects the chain and no later change is synced to the devices that are left.
- *A shared settings instance* (two calls of Settings.cfg with one `InstanceOf`,
  IsStore): an instance reads the file once, and overwrites what other processes have
  saved since. `doctor-service.ts:57` keeps one.

### Part of the models

- *A waiter that gives up* (LockImpatient): `lock()` registers `<path>` and
  `<path>.lock` with the cleanup process before it owns them, and leaves the
  registrations there when the retries run out. When the process of that waiter
  ends, its cleanup process deletes the directory of the current holder, and
  the next waiter enters.
- *`removeSetting`* always fails: without data `delete` throws, and with data it waits for the
  lock it holds until the retries run out.
- *A kill inside `writeJson`* leaves a file that does not parse; the next load
  deletes it with all settings.
- *The flag `hasWebpackCompilerProcess`* is set before the compilation that may
  fail and stays set, so `stopWatchers` takes the pid of nothing.
- *A device lost during the first initial sync*: the deviceLost handler is
  attached after it (`run-controller.ts:131`), so the device stays in the
  descriptors.
- *`run()` while a whole `stop()` is under way*: `stop()` goes on and clears the
  device that was added, and unhooks the handler; `run()` returns as if it
  were in LiveSync.

### Excepted by a property

Cases a property names because the code does not provide for them. Removing the
exception from the property makes TLC show the behaviour.

The lock and the settings (`MutualExclusion`, `IsMutex`, `HolderIsCovered`, `IsStore`):

- `robbed`: the directory of a running call is removed by the cleanup process of
  another that never had it, or by the late release of a call that was itself
  robbed. In the settings (`intruded`) two calls then write at a time, one overwrites
  the key of the other or both leave a mixture, and the nested call of
  `removeSetting` may succeed.
- `exposed`: the release function is not awaited, so the end of one call withdraws
  the registration another call of the same process has just added; a kill then
  leaves the lock to the staleness rule.

`run()`, `stop()` and the links of the chain (`NoSyncAfterStopped`,
`InitialSyncComesFirst`, `PreparedBeforeSync`, `NoWatcherLeft`):

- `overtaken`: a device is stopped whose initial sync is queued. The link filters by the
  descriptors `run()` was given, so the device is announced as stopped and then
  synced. A device that `run()` adds again while a `stop()` of it is under way is
  announced as stopped too and synced; it has joined since, so the property does not
  speak of it.
- A change that is queued before the initial sync of a device: a second `run()` puts
  the device into the descriptors before it is deployed, so the change is synced
  first. `skipped`: the same for a device whose initial sync came to nothing, as its
  link came to its turn in a stopped LiveSync that a `run()` has revived since (the
  one exception that takes more calls of `run()` than a run makes: three).
- `orphaned`: a device fails while its prepare is under way. The next device reads
  `global.prepare` of the first one (`run-controller.ts:595`), so its files may be
  synced after the prepare of another platform.
- `escaped`: `stop()` closes the watchers before a `prepare()` under way has started
  them, be it of the device that fails, of the client, or of a lost device while a
  second `run()` prepares it. Webpack is left running.

The watchers (`HeardOnce`, `RunningIsKnown`):

- `misheard`: the one field `webpackCompilerHandler` holds the handler made last, for
  whichever platform, and `stopWatchers` removes that one: the changes of a platform
  that goes on reach nobody, and the one stopped keeps its listener. A prepare of a
  paused platform adds a second handler. Resuming restarts webpack of a platform
  that was stopped, without a listener.
- `forgotten`: a process is started while its predecessor closes, whose "close" handler
  deletes the entry of the new one; two starts for one platform overwrite each
  other's entry; a process is spawned after its platform was stopped. Nothing can stop
  such a process any more.

LiveSync of an Android device (`SyncDelivers`; `late` in `OnlyLateEventsThrow`):

- A socket that was abandoned when the time of `connect()` was up keeps the
  listeners of its attempt. When it closes during a later attempt, it resets
  `pendingConnectionData` of that one (`android-livesync-tool.ts:473`), and the
  next "close" of the new attempt throws outside of any promise. So does a process
  id that arrives after the attempt has connected.
- An application that neither applies a hot update nor logs an error counts as
  updated (`hmr-status-service.ts:34`), and one that dies with hot updates runs the
  older files when it is started by anyone but the CLI.
- The hashes are uploaded before the do-sync operation
  (`android-device-livesync-service-base.ts:51`). When files are lost with the
  connection after that, a device that joins again skips them.

Prepare, build and installation (`InfoIsHonest`, `InstalledIsCurrent`):

- A change between the check of a prepare and the saving of its prepare info is
  older than the file's time and never seen (`project-changes-service.ts:273`).
- The second device of a platform in a session finds the watcher: the prepare info
  is written again without a check, from the `_prepareInfo` of whichever platform
  was checked last (`:281`). `shouldBuild` likewise reads the changes of the
  platform checked last.
- `initialDeviceBuildInfo` (`device-install-app-service.ts:29`, `:128`) is the build
  info of the first device and is compared for all of them; with no local build
  info it makes `shouldInstall` throw (`:142`).
- `global.buildInProgress` stays set after a build that failed
  (`build-controller.ts:49`), and a prepare that fails leaves its watcher.

Plugins (`PreparedPluginsAreCurrent`):

- `ns plugin remove` takes the native code from the Xcode project and keeps the
  hashes (`plugins-service.ts:141`); the same version added again is not added
  to the Xcode project (`withdrawn`).
- A change after the sources are copied and before the hashes are taken again
  (`plugins-service.ts:271`) is never built. One between the hash of the sources
  and the copy, then a kill and a revert, leaves an `.aar` of the reverted version
  (`unseen`).
- Files of an earlier version stay in the Xcode project beside the new ones: an update
  only adds. The property asks for the files of the version installed, not for their
  being alone.

Migration (`OriginalsAreKept`, `SettingsSurvive`):

- The backup of a second attempt is made of the files the first one has rewritten,
  over the originals; folders are copied into the copy. A backup that cannot be
  made, or whose list is torn, is removed with all that was in it.
- A kill between `writeDefaultConfig` and the settings: the next attempt finds the
  file, skips `migrateConfigs`, and the application id is silently the default.
- A kill after the dependencies: `ns migrate` says there is nothing to migrate, and
  the webpack configuration is never renewed. `shouldMigrate` is cached by the hash
  of `package.json` alone.
- `tsconfig.json` and the sources are changed without a backup.
  `docs/man_pages/general/migrate.md:12` says "The original files will be moved to
  `.migration_backup` folder"; they are copied.

Detection (`DetectionSettles`):

- A device that is removed while its `init()` is pending becomes known afterwards
  and stays. One whose `init()` fails stays tracked and is never tried again.
- `stopDeviceDetectionInterval` clears the interval and keeps the field
  (`devices-service.ts:503`), so it is not started again.
- The index of a device is checked with `>` instead of `>=`
  (`devices-service.ts:1086`); this is outside the model.

The end of the CLI (`NothingIsLeftBehind`):

- `stopWebpackForPlatform` withdraws webpack from the cleanup process before it kills
  it (`webpack-compiler-service.ts:583`): a kill of the CLI between the two leaves
  webpack running. A kill between the spawn and `addKillProcess` does as well; an
  error does not, because the cleanup process is awaited before (`:375`).
- A cleanup process that starts too late is never used: the rejected promise is
  cached, so no lock can be taken and no webpack started in this session.

## 6. Plan

Done: the run controller, prepare controller, lock and settings first; then the
sockets and the sync of an Android device, HMR status included, prepare info and
builds, plugins, migration, detection of devices, the cleanup process. What would
come next, in this order:

1. Abstract `LiveSyncSession` (each device is out, joining or synced; a change
   reaches those synced) as the refinement target of `RunController` for one
   `run()`, and of a composition of it with `AndroidDeviceLiveSync`.
2. `DevicesService`: the detection of iOS devices and emulators, and `execute` on
   devices that go meanwhile.
3. The debug controller and the sockets of iOS devices, which take the file lock
   and cache one socket per application.
4. The LiveSync command helper and the key commands as the client of
   `RunController`, in place of calls at any time.
5. Proofs: the refinement of item 1.

## 7. What is not modelled

- Of the modelled components: `compileWithoutWatch` (one process and one
  message), the debugger, the cache time of settings, the texts of events and
  logs.
- Of the Android LiveSync: `removeFile` (its caller always passes an empty list of
  files to remove), runtimes without sockets, a user who removes the application
  during a session; adb fails only where `fault` says so.
- Of prepare and build: signing, release and clean builds, `--nobuild`,
  `forceRebuildNativeApp`; of plugins the validation and the package managers; of
  the migration the versions that are desired, ESLint and TypeScript settings;
  `restore()` of the backup, which no command calls.
- Of the detection: iOS, emulators, the choice of a device; of the cleanup process
  requests and JS files, which no code registers, and the removal of forwarded ports.
- Of the rest: section 1 and `PROJECT.json` give the reason for each component.
  Generation of native projects, packages, assets, templates and configuration is
  about file contents; emulators, device tools, portals and uploads are I/O; hooks
  and extensions are user code.
- Time: time-outs are steps that may happen at any moment they are armed; the
  durations in the code decide only how likely they are. The exceptions are the
  refresh of the lock directory and its staleness, where a directory is stale
  exactly when its process is gone.
