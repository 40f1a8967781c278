---------------------------- MODULE RunController ----------------------------
(***************************************************************************)
(* LiveSync of one project: lib/controllers/run-controller.ts with the     *)
(* data it keeps in lib/services/livesync-process-data-service.ts.         *)
(*                                                                         *)
(* Everything runs on one event loop; an action below is the code between  *)
(* two awaits.  run() and stop() are called by the client; stop() is also  *)
(* called when a device is lost and, when a device fails, by the sync.     *)
(* Syncs are links of a promise chain (actionsChain): a link starts when   *)
(* the one before it has resolved, visits the connected devices one after  *)
(* another, and rejects the rest of the chain when it throws.              *)
(*                                                                         *)
(* Of the PrepareController there is the state of one webpack process per  *)
(* platform and of the prepare() that is under way (global.prepare).       *)
(***************************************************************************)
EXTENDS Naturals, Sequences, FiniteSets

CONSTANTS
    Devices, Platforms,
    PlatformOf,     \* the platform of each device
    Runs,           \* calls of run()
    UserStops,      \* calls of stop() by the client
    InAction,       \* the call of stop() a failing sync makes
    NoDevice, NoPlatform,
    MaxChanges,     \* bound: file changes the watchers report
    FaultyInstall,  \* devices that may fail while prepare() is under way
    FaultySync,     \* devices whose file transfer may fail
    Losable,        \* devices that may be disconnected, for good
    Fragile         \* platforms whose prepare() may fail and webpack die

StopCalls == UserStops \union Devices \union {InAction}

ASSUME ConstantsAssumption ==
    /\ PlatformOf \in [Devices -> Platforms]
    /\ NoDevice \notin Devices
    /\ NoPlatform \notin Platforms
    /\ MaxChanges \in Nat
    /\ FaultyInstall \subseteq Devices /\ FaultySync \subseteq Devices
    /\ Losable \subseteq Devices /\ Fragile \subseteq Platforms
    /\ InAction \notin UserStops \union Devices
    /\ UserStops \intersect Devices = {}

VARIABLES
    session,    \* ILiveSyncProcessData: isStopped, deviceDescriptors, platforms
    chain,      \* the links of actionsChain, and currentSyncAction
    act,        \* the running link: devices to visit, device, stage, failure
    prep,       \* global.prepare
    watch,      \* the webpack process of each platform
    run,        \* the calls of run()
    stop,       \* the calls of stop(); those of lost devices bear their name
    handlers,   \* prepareReadyEventHandler, and the deviceLost handler
    connected,  \* what $devicesService knows
    changes,    \* file changes so far, and native ones still being checked
    told,       \* devices announced as stopped that have not joined since
    gone,       \* the devices each stop() has taken out that have not joined since
    stale,      \* <<link, device>>: not over when a stop() took the device out
    overtaken,  \* those of them that had not begun
    deployed,   \* devices that got their initial sync since they last joined
    skipped,    \* devices whose initial sync came to nothing in a stopped LiveSync
    missing,    \* <<device, change>>: changes a deployed device has not got
    escaped,    \* platforms whose webpack was started behind a stop()
    orphaned    \* whether the device that called prepare() failed meanwhile

taken == <<gone, stale, overtaken, deployed, missing>>
history == <<told, taken, skipped, escaped, orphaned>>
calls == <<run, stop>>
vars == <<session, chain, act, prep, watch, calls, handlers, connected,
          changes, history>>

Changes == 1 .. MaxChanges

(* A link syncs everything to the devices a call of run() added (change 0) *)
(* or one change to the devices of a platform.                             *)
Links == [devs : SUBSET Devices, platform : Platforms \union {NoPlatform},
          change : 0 .. MaxChanges]

SessionTypes == [state : {"none", "live", "stopped"},
                 descs : SUBSET Devices, platforms : SUBSET Platforms]

ChainTypes == [links : Seq(Links), settled : Nat, running : BOOLEAN,
               broken : BOOLEAN, current : Nat]

ActTypes == [todo : SUBSET Devices, dev : Devices \union {NoDevice},
             at : {"none", "install", "sync", "stopping"}, failed : BOOLEAN]

PrepTypes == [platform : Platforms \union {NoPlatform},
              at : {"none", "deps", "webpack", "native", "done", "failed"}]

WatchTypes == [Platforms -> {"off", "spawning", "compiling", "on", "dead"}]

RunTypes == [at : {"idle", "setup", "queued", "done", "failed"},
             devs : SUBSET Devices, link : Nat]

StopTypes == [at : {"idle", "lonely", "closing", "chain", "hooks", "action",
                    "done", "failed"},
              all : BOOLEAN, left : SUBSET Platforms, upto : Nat]

ChangesTypes == [seen : 0 .. MaxChanges, checking : SUBSET (Changes \X Platforms)]

(* A link that runs is there, and a device action is one of a link.        *)
ChainInRange ==
    /\ chain.settled <= Len(chain.links)
    /\ chain.running => chain.settled < Len(chain.links)
    /\ act.dev # NoDevice => chain.running

StateOK ==
    /\ session \in SessionTypes
    /\ chain \in ChainTypes
    /\ act \in ActTypes
    /\ ChainInRange
    /\ prep \in PrepTypes
    /\ watch \in WatchTypes
    /\ run \in [Runs -> RunTypes]
    /\ stop \in [StopCalls -> StopTypes]
    /\ handlers \in [ready : BOOLEAN, lost : BOOLEAN]
    /\ connected \subseteq Devices
    /\ changes \in ChangesTypes

(* What the properties remember of the past.                               *)
HistoryOK ==
    /\ told \subseteq Devices
    /\ gone \in [StopCalls -> SUBSET Devices]
    /\ stale \subseteq Nat \X Devices /\ overtaken \subseteq stale
    /\ deployed \subseteq Devices /\ skipped \subseteq Devices
    /\ missing \subseteq Devices \X Changes
    /\ escaped \subseteq Platforms /\ orphaned \in BOOLEAN

TypeOK == StateOK /\ HistoryOK

NoStop == [at |-> "idle", all |-> FALSE, left |-> {}, upto |-> 0]

Init ==
    /\ session = [state |-> "none", descs |-> {}, platforms |-> {}]
    /\ chain = [links |-> <<>>, settled |-> 0, running |-> FALSE,
                broken |-> FALSE, current |-> 0]
    /\ act = [todo |-> {}, dev |-> NoDevice, at |-> "none", failed |-> FALSE]
    /\ prep = [platform |-> NoPlatform, at |-> "none"]
    /\ watch = [q \in Platforms |-> "off"]
    /\ run = [r \in Runs |-> [at |-> "idle", devs |-> {}, link |-> 0]]
    /\ stop = [s \in StopCalls |-> NoStop]
    /\ handlers = [ready |-> FALSE, lost |-> FALSE]
    /\ connected = Devices
    /\ changes = [seen |-> 0, checking |-> {}]
    /\ told = {} /\ gone = [s \in StopCalls |-> {}]
    /\ stale = {} /\ overtaken = {}
    /\ deployed = {} /\ skipped = {} /\ missing = {}
    /\ escaped = {} /\ orphaned = FALSE

(* A call of run() or stop() that has not returned.                        *)
UnderWay(call) == call.at \notin {"idle", "done", "failed"}

-----------------------------------------------------------------------------
(* stop() *)

(* $prepareController.stopWatchers(q): while webpack is being spawned, or  *)
(* after it died, there is no process to take the pid of, and it throws.   *)
CloseThrows(q) == watch[q] \in {"spawning", "dead"}

(* The first compilation of a process that is killed is rejected.          *)
CloseWatcher(q) ==
    /\ watch' = [watch EXCEPT ![q] = "off"]
    /\ escaped' = escaped \ {q}
    /\ prep' = IF watch[q] = "compiling" THEN [prep EXCEPT !.at = "failed"]
                                         ELSE prep

Lonely(q, devices) == \A d \in devices : PlatformOf[d] # q

(* Mutant: the stop() of a failing sync waits for that sync.               *)
AwaitsAlways(s) == TRUE

(* "we cannot await it as this will cause infinite loop"                   *)
Awaits(s) == s # InAction

(* The end of the first loop: stop everything, or only await the sync that *)
(* is running.                                                             *)
AfterLonely(s, call, descs) ==
    IF call.all \/ descs = {}
    THEN [call EXCEPT !.at = "closing", !.left = session.platforms]
    ELSE [call EXCEPT !.at = "action",
                      !.upto = IF Awaits(s) THEN chain.current ELSE 0]

(* The links from the n-th on that are to sync one of these devices from   *)
(* scratch, with the device.                                               *)
Naming(n, devices) ==
    {pair \in (n .. Len(chain.links)) \X devices :
        pair[2] \in chain.links[pair[1]].devs}

FirstPending == chain.settled + 1
FirstQueued == IF chain.running THEN chain.settled + 2 ELSE chain.settled + 1

(* stop() up to its first await; ids = {}: no deviceIdentifiers are given. *)
BeginStop(s, ids, devices) ==
    /\ stop[s].at = "idle"
    /\ IF session.state = "live"
       THEN LET removed == IF ids = {} THEN session.descs
                                       ELSE session.descs \intersect ids
                descs == session.descs \ removed
                call == [NoStop EXCEPT !.at = "lonely", !.all = (ids = {}),
                                       !.left = session.platforms]
            IN  /\ session' = [session EXCEPT !.descs = descs]
                /\ stop' = [stop EXCEPT ![s] =
                              IF \E q \in session.platforms : Lonely(q, devices)
                              THEN call ELSE AfterLonely(s, call, descs)]
                /\ gone' = [gone EXCEPT ![s] = removed]
                /\ stale' = stale \union Naming(FirstPending, removed)
                /\ overtaken' = overtaken \union Naming(FirstQueued, removed)
                /\ deployed' = deployed \ removed
                /\ missing' = {m \in missing : m[1] \notin removed}
       ELSE /\ stop' = [stop EXCEPT ![s].at = "done"]
            /\ UNCHANGED <<session, taken>>

UserStop(s) ==
    /\ s \in UserStops
    /\ \E ids \in SUBSET Devices : BeginStop(s, ids, connected)
    /\ UNCHANGED <<chain, act, prep, watch, run, handlers, connected, changes,
                   told, skipped, escaped, orphaned>>

(* deviceLost: the devices service has dropped the device already.         *)
DeviceLost(d) ==
    /\ d \in connected \intersect Losable
    /\ connected' = connected \ {d}
    /\ IF handlers.lost /\ d \in session.descs
       THEN BeginStop(d, {d}, connected')
       ELSE UNCHANGED <<session, stop, taken>>
    /\ UNCHANGED <<chain, act, prep, watch, run, handlers, changes, told, skipped,
                   escaped, orphaned>>

StopThrows(s) ==
    /\ stop' = [stop EXCEPT ![s].at = "failed"]
    /\ UNCHANGED <<session, prep, watch, stale, escaped>>

(* First loop: the watchers of platforms without connected devices.        *)
StopLonely(s) ==
    /\ stop[s].at = "lonely"
    /\ \E q \in stop[s].left :
        /\ Lonely(q, connected)
        /\ IF CloseThrows(q) THEN StopThrows(s)
           ELSE LET call == [stop[s] EXCEPT !.left = @ \ {q}]
                IN  /\ CloseWatcher(q)
                    /\ stop' = [stop EXCEPT ![s] =
                          IF \E p \in call.left : Lonely(p, connected)
                          THEN call ELSE AfterLonely(s, call, session.descs)]
                    /\ UNCHANGED <<session, stale>>
    /\ UNCHANGED <<chain, act, run, handlers, connected, changes, told, gone,
                   overtaken, deployed, skipped, missing, orphaned>>

(* Mutant: the second loop misses one platform.                            *)
StopClosingOffByOne(s) ==
    /\ stop[s].at = "closing"
    /\ \E q \in stop[s].left :
        IF CloseThrows(q) THEN StopThrows(s)
        ELSE /\ CloseWatcher(q)
             /\ session' = [session EXCEPT !.state = "stopped"]
             /\ stale' = stale \union Naming(FirstPending, Devices)
             /\ stop' = [stop EXCEPT ![s].at = "chain", ![s].left = {},
                          ![s].upto = IF Awaits(s) THEN Len(chain.links) ELSE 0]
    /\ UNCHANGED <<chain, act, run, handlers, connected, changes, told, gone,
                   overtaken, deployed, skipped, missing, orphaned>>

(* Second loop: all watchers; then isStopped and await the whole chain.    *)
StopClosing(s) ==
    /\ stop[s].at = "closing"
    /\ \E q \in stop[s].left :
        IF CloseThrows(q) THEN StopThrows(s)
        ELSE /\ CloseWatcher(q)
             /\ IF stop[s].left = {q}
                THEN /\ session' = [session EXCEPT !.state = "stopped"]
                     /\ stale' = stale \union Naming(FirstPending, Devices)
                     /\ stop' = [stop EXCEPT ![s].at = "chain", ![s].left = {},
                          ![s].upto = IF Awaits(s) THEN Len(chain.links) ELSE 0]
                ELSE /\ stop' = [stop EXCEPT ![s].left = @ \ {q}]
                     /\ UNCHANGED <<session, stale>>
    /\ UNCHANGED <<chain, act, run, handlers, connected, changes, told, gone,
                   overtaken, deployed, skipped, missing, orphaned>>

(* Link n of the chain, or what was there before the first one.            *)
Resolved(n) == n <= chain.settled
Settled(n) == Resolved(n) \/ chain.broken

StopChain(s) ==
    /\ stop[s].at = "chain"
    /\ Settled(stop[s].upto)
    /\ IF Resolved(stop[s].upto)
       THEN /\ session' = [session EXCEPT !.descs = {}]
            /\ handlers' = [handlers EXCEPT !.ready = FALSE]
            /\ stop' = [stop EXCEPT ![s].at = "hooks"]
            /\ stale' = stale \union Naming(FirstPending, session.descs)
            /\ deployed' = {} /\ missing' = {}
       ELSE /\ stop' = [stop EXCEPT ![s].at = "failed"]
            /\ UNCHANGED <<session, handlers, stale, deployed, missing>>
    /\ UNCHANGED <<chain, act, prep, watch, run, connected, changes, told, gone,
                   overtaken, skipped, escaped, orphaned>>

(* "Emit RunOnDevice stopped when we've really stopped."                   *)
EmitStopped(s) ==
    /\ told' = told \union gone[s]
    /\ stop' = [stop EXCEPT ![s].at = "done"]

(* The whole LiveSync was stopped and the "after watch" hooks are over, or *)
(* only devices were stopped and the sync that was running has settled.    *)
StopReturns(s) ==
    /\ \/ stop[s].at = "hooks" /\ EmitStopped(s)
       \/ /\ stop[s].at = "action"
          /\ Settled(stop[s].upto)
          /\ IF Resolved(stop[s].upto) THEN EmitStopped(s)
             ELSE stop' = [stop EXCEPT ![s].at = "failed"] /\ UNCHANGED told
    /\ UNCHANGED <<session, chain, act, prep, watch, run, handlers, connected,
                   changes, taken, skipped, escaped, orphaned>>

-----------------------------------------------------------------------------
(* run() *)

AddLink(links, devs, platform, change) ==
    Append(links, [devs |-> devs, platform |-> platform, change |-> change])

RunCall(r) ==
    /\ run[r].at = "idle"
    /\ \E devs \in SUBSET Devices \ {{}} :
        run' = [run EXCEPT ![r] = [at |-> "setup", devs |-> devs, link |-> 0]]
    /\ UNCHANGED <<session, chain, act, prep, watch, stop, handlers, connected,
                   changes, history>>

(* The dependencies cannot be installed, or a device is not connected.     *)
RunFails(r) ==
    /\ run[r].at = "setup"
    /\ run' = [run EXCEPT ![r].at = "failed"]
    /\ UNCHANGED <<session, chain, act, prep, watch, stop, handlers, connected,
                   changes, history>>

(* Mutant: devices that are queued but not yet synced count as new.        *)
InitialSyncForUndeployed(devs) == devs \ deployed

(* getDeviceDescriptorsForInitialSync                                      *)
InitialSyncFor(devs) ==
    IF session.state = "live" THEN devs \ session.descs ELSE devs

(* Mutant: the platforms of earlier calls are forgotten.                   *)
NewPlatforms(devs) == {PlatformOf[d] : d \in devs}

(* _.uniq(_.concat(newPlatforms, oldPlatforms))                            *)
AllPlatforms(devs) == session.platforms \union {PlatformOf[d] : d \in devs}

(* persistData, then addActionToChain of syncInitialDataOnDevices.         *)
Join(r, ready) ==
    LET devs == run[r].devs
        initial == InitialSyncFor(devs)
    IN  /\ session' = [state |-> "live", descs |-> session.descs \union devs,
                       platforms |-> AllPlatforms(devs)]
        /\ chain' = [chain EXCEPT !.current = Len(chain.links),
                       !.links = AddLink(@, initial, NoPlatform, 0)]
        /\ run' = [run EXCEPT ![r].at = "queued",
                              ![r].link = Len(chain.links) + 1]
        /\ handlers' = [handlers EXCEPT !.ready = ready]
        /\ told' = told \ devs
        /\ gone' = [s \in StopCalls |-> gone[s] \ devs]
        /\ deployed' = deployed \ initial
        /\ skipped' = skipped \ initial
        /\ UNCHANGED <<act, prep, watch, stop, connected, changes, stale, overtaken,
                       missing, escaped, orphaned>>

MayJoin(r) ==
    /\ run[r].at = "setup"
    /\ run[r].devs \subseteq connected

(* Mutant: stop() leaves the removed handler in prepareReadyEventHandler.  *)
RunStartUnheard(r) ==
    MayJoin(r) /\ Join(r, handlers.ready \/ session.state = "none")

(* The rest of run() up to the await of its link in the chain.             *)
RunStart(r) == MayJoin(r) /\ Join(r, TRUE)

RunReturns(r) ==
    /\ run[r].at = "queued"
    /\ Settled(run[r].link)
    /\ IF Resolved(run[r].link)
       THEN /\ run' = [run EXCEPT ![r].at = "done"]
            /\ handlers' = [handlers EXCEPT !.lost = TRUE]
       ELSE /\ run' = [run EXCEPT ![r].at = "failed"]
            /\ UNCHANGED handlers
    /\ UNCHANGED <<session, chain, act, prep, watch, stop, connected, changes,
                   history>>

-----------------------------------------------------------------------------
(* File changes *)

(* The handler of PREPARE_READY_EVENT_NAME; a native change is first       *)
(* looked at by $projectChangesService.                                    *)
HandleChange(q, c) ==
    \/ /\ chain' = [chain EXCEPT !.links = AddLink(@, {}, q, c)]
       /\ changes' = [changes EXCEPT !.seen = c]
    \/ /\ changes' = [seen |-> c, checking |-> changes.checking \union {<<c, q>>}]
       /\ UNCHANGED chain

(* The event is raised by the watchers of platform q.                      *)
ReportChange(q, isHandled) ==
    LET c == changes.seen + 1
        behind == {d \in deployed \intersect session.descs : PlatformOf[d] = q}
    IN  /\ watch[q] = "on"
        /\ c <= MaxChanges
        /\ missing' = missing \union (behind \X {c})
        /\ IF isHandled THEN HandleChange(q, c)
           ELSE changes' = [changes EXCEPT !.seen = c] /\ UNCHANGED chain
        /\ UNCHANGED <<session, act, prep, watch, calls, handlers, connected,
                       told, gone, stale, overtaken, deployed, skipped, escaped,
                       orphaned>>

(* Mutant: what happens during a sync is left to that sync.                *)
ChangeReportedWhenIdle(q) == ReportChange(q, handlers.ready /\ ~chain.running)

ChangeReported(q) == ReportChange(q, handlers.ready)

(* checkForChanges answers that there are changes, or that there are none. *)
NativeChecked(c, q) ==
    /\ <<c, q>> \in changes.checking
    /\ changes' = [changes EXCEPT !.checking = @ \ {<<c, q>>}]
    /\ \/ /\ chain' = [chain EXCEPT !.links = AddLink(@, {}, q, c)]
          /\ UNCHANGED missing
       \/ /\ missing' = {m \in missing : m[2] # c}
          /\ UNCHANGED chain
    /\ UNCHANGED <<session, act, prep, watch, calls, handlers, connected, told, gone,
                   stale, overtaken, deployed, skipped, escaped, orphaned>>

-----------------------------------------------------------------------------
(* The links of the chain *)

Link == chain.links[chain.settled + 1]
Initial == Link.change = 0

NextLinkIsDue ==
    /\ ~chain.running
    /\ ~chain.broken
    /\ chain.settled < Len(chain.links)

(* A link that finds the LiveSync stopped does nothing.                    *)
SkipLink ==
    /\ NextLinkIsDue
    /\ session.state = "stopped"
    /\ chain' = [chain EXCEPT !.settled = @ + 1]
    /\ skipped' = skipped \union Link.devs
    /\ UNCHANGED <<session, act, prep, watch, calls, handlers, connected,
                   changes, told, taken, escaped, orphaned>>

(* executeOnAllConnectedDevices works on the devices known when it starts. *)
StartLink ==
    /\ NextLinkIsDue
    /\ session.state = "live"
    /\ chain' = [chain EXCEPT !.running = TRUE, !.current = chain.settled + 1]
    /\ act' = [act EXCEPT !.todo = connected, !.failed = FALSE]
    /\ UNCHANGED <<session, prep, watch, calls, handlers, connected, changes,
                   history>>

(* Mutant: a change goes to every device of the platform.                  *)
CanExecuteStale(d) ==
    IF Initial THEN d \in Link.devs ELSE PlatformOf[d] = Link.platform

(* canExecute: the devices run() was called for; for a change, the devices *)
(* of the platform that are still described when their turn comes.         *)
CanExecute(d) ==
    IF Initial THEN d \in Link.devs
    ELSE PlatformOf[d] = Link.platform /\ d \in session.descs

PreparePending == prep.at \in {"deps", "webpack", "native"}

(* The next device.  The initial sync uses the prepare() that is under way *)
(* (global.prepare), whatever its platform, or calls prepare().            *)
VisitDevice(d) ==
    /\ chain.running
    /\ act.dev = NoDevice
    /\ d \in act.todo
    /\ CanExecute(d)
    /\ act' = [act EXCEPT !.todo = @ \ {d}, !.dev = d,
                          !.at = IF Initial THEN "install" ELSE "sync"]
    /\ prep' = IF Initial /\ ~PreparePending
               THEN [platform |-> PlatformOf[d], at |-> "deps"] ELSE prep
    /\ orphaned' = (orphaned /\ ~(Initial /\ ~PreparePending))
    /\ UNCHANGED <<session, chain, watch, calls, handlers, connected, changes,
                   told, taken, skipped, escaped>>

(* Mutant: prepareResultData is not awaited.                               *)
StartTransferUnprepared ==
    /\ act.at = "install"
    /\ act' = [act EXCEPT !.at = "sync"]
    /\ UNCHANGED <<session, chain, prep, watch, calls, handlers, connected,
                   changes, history>>

(* The app is built and installed, and prepareResultData has resolved.     *)
StartTransfer ==
    /\ act.at = "install"
    /\ prep.at = "done"
    /\ act' = [act EXCEPT !.at = "sync"]
    /\ UNCHANGED <<session, chain, prep, watch, calls, handlers, connected,
                   changes, history>>

(* fullSync, or liveSyncWatchAction, and refreshApplication are over.      *)
DeviceSynced ==
    /\ act.at = "sync"
    /\ act' = [act EXCEPT !.dev = NoDevice, !.at = "none"]
    /\ IF Initial
       THEN /\ deployed' = deployed \union {act.dev}
            /\ skipped' = skipped \ {act.dev}
            /\ missing' = {m \in missing : m[1] # act.dev}
       ELSE /\ missing' = missing \ {<<act.dev, Link.change>>}
            /\ UNCHANGED <<deployed, skipped>>
    /\ UNCHANGED <<session, chain, prep, watch, calls, handlers, connected,
                   changes, told, gone, stale, overtaken, escaped, orphaned>>

(* Mutant: the error is reported, but the device is not stopped.           *)
DeviceFailsOnly ==
    /\ \/ act.at = "install" /\ (act.dev \in FaultyInstall \/ prep.at = "failed")
       \/ act.at = "sync" /\ (act.dev \in FaultySync \/ act.dev \notin connected)
    /\ act' = [act EXCEPT !.dev = NoDevice, !.at = "none"]
    /\ UNCHANGED <<session, chain, prep, watch, calls, handlers, connected, changes,
                   history>>

(* The catch of a device action: runOnDeviceError, then stop the device.   *)
DeviceFails ==
    /\ \/ act.at = "install" /\ (act.dev \in FaultyInstall \/ prep.at = "failed")
       \/ act.at = "sync" /\ (act.dev \in FaultySync \/ act.dev \notin connected)
    /\ act' = [act EXCEPT !.at = "stopping"]
    /\ BeginStop(InAction, {act.dev}, connected)
    /\ skipped' = IF session.state # "live" /\ Initial
                  THEN skipped \union {act.dev} ELSE skipped
    /\ orphaned' = (orphaned \/ PreparePending)
    /\ UNCHANGED <<chain, prep, watch, run, handlers, connected, changes, told,
                   escaped>>

DeviceStopped ==
    /\ act.at = "stopping"
    /\ stop[InAction].at \in {"done", "failed"}
    /\ act' = [act EXCEPT !.dev = NoDevice, !.at = "none",
                          !.failed = @ \/ stop[InAction].at = "failed"]
    /\ stop' = [stop EXCEPT ![InAction] = NoStop]
    /\ UNCHANGED <<session, chain, prep, watch, run, handlers, connected,
                   changes, history>>

(* Mutant: the device action is not awaited.                               *)
EndLinkNotAwaited ==
    /\ chain.running
    /\ \A d \in act.todo : ~CanExecute(d)
    /\ chain' = [chain EXCEPT !.running = FALSE, !.settled = @ + 1]
    /\ act' = [act EXCEPT !.todo = {}]
    /\ UNCHANGED <<session, prep, watch, calls, handlers, connected, changes,
                   history>>

(* When a device action threw, so does the link: every later one rejects.  *)
EndLink ==
    /\ chain.running
    /\ act.dev = NoDevice
    /\ \A d \in act.todo : ~CanExecute(d)
    /\ chain' = IF act.failed
                THEN [chain EXCEPT !.running = FALSE, !.broken = TRUE]
                ELSE [chain EXCEPT !.running = FALSE, !.settled = @ + 1]
    /\ act' = [act EXCEPT !.todo = {}]
    /\ UNCHANGED <<session, prep, watch, calls, handlers, connected, changes,
                   history>>

-----------------------------------------------------------------------------
(* prepare() and webpack, as far as run-controller.ts can tell *)

PrepareStep(from, to) ==
    /\ prep.at = from
    /\ prep' = [prep EXCEPT !.at = to]
    /\ UNCHANGED <<session, chain, act, calls, handlers, connected, changes,
                   told, taken, skipped, orphaned>>

(* Whether the LiveSync is stopped, or a stop() of it has closed this      *)
(* watcher already.                                                        *)
ClosedBehind(q) ==
    \/ session.state # "live"
    \/ \E s \in StopCalls : stop[s].at = "closing" /\ q \notin stop[s].left

(* Dependencies and platform are in place; a process that is there, or was *)
(* there, is not started again.                                            *)
StartWatcher ==
    \/ /\ PrepareStep("deps", "webpack")
       /\ watch[prep.platform] = "off"
       /\ watch' = [watch EXCEPT ![prep.platform] = "spawning"]
       /\ escaped' = IF ClosedBehind(prep.platform)
                     THEN escaped \union {prep.platform} ELSE escaped
    \/ /\ PrepareStep("deps", "native")
       /\ watch[prep.platform] # "off"
       /\ UNCHANGED <<watch, escaped>>

SpawnWebpack ==
    /\ PrepareStep("webpack", "webpack")
    /\ watch[prep.platform] = "spawning"
    /\ watch' = [watch EXCEPT ![prep.platform] = "compiling"]
    /\ UNCHANGED escaped

FirstCompilation ==
    /\ PrepareStep("webpack", "native")
    /\ watch[prep.platform] = "compiling"
    /\ watch' = [watch EXCEPT ![prep.platform] = "on"]
    /\ UNCHANGED escaped

PrepareEnds ==
    /\ PrepareStep("native", "done")
    /\ UNCHANGED <<watch, escaped>>

(* The dependencies, the platform or the native project cannot be prepared. *)
PrepareFails ==
    /\ prep.platform \in Fragile
    /\ PrepareStep("deps", "failed") \/ PrepareStep("native", "failed")
    /\ UNCHANGED <<watch, escaped>>

(* webpack exits: compileWithWatch rejects, or nobody notices.             *)
WebpackDies(q) ==
    /\ q \in Fragile
    /\ watch[q] \in {"compiling", "on"}
    /\ watch' = [watch EXCEPT ![q] = "dead"]
    /\ prep' = IF watch[q] = "compiling" THEN [prep EXCEPT !.at = "failed"]
                                         ELSE prep
    /\ UNCHANGED <<session, chain, act, calls, handlers, connected, changes,
                   history>>

-----------------------------------------------------------------------------

(* What the event loop, the tools and the devices do once they are asked.  *)
System ==
    \/ \E s \in StopCalls :
          StopLonely(s) \/ StopClosing(s) \/ StopChain(s) \/ StopReturns(s)
    \/ \E r \in Runs : RunFails(r) \/ RunStart(r) \/ RunReturns(r)
    \/ \E c \in Changes, q \in Platforms : NativeChecked(c, q)
    \/ SkipLink \/ StartLink \/ EndLink
    \/ \E d \in Devices : VisitDevice(d)
    \/ StartTransfer \/ DeviceSynced \/ DeviceFails \/ DeviceStopped
    \/ StartWatcher \/ SpawnWebpack \/ FirstCompilation
    \/ PrepareEnds \/ PrepareFails

Environment ==
    \/ \E s \in UserStops : UserStop(s)
    \/ \E r \in Runs : RunCall(r)
    \/ \E d \in Devices : DeviceLost(d)
    \/ \E q \in Platforms : ChangeReported(q) \/ WebpackDies(q)

Next == System \/ Environment

Spec == Init /\ [][Next]_vars

(* The event loop runs what is due; installs, transfers, prepares and      *)
(* hooks end, with or without an error.  Nothing is assumed of the client, *)
(* the devices or the files.  System steps cannot go on for ever without a *)
(* step of the environment, so fairness of their disjunction is enough.    *)
FairSpec == Spec /\ WF_vars(System)

-----------------------------------------------------------------------------
(* Properties *)

(* stop(): "Emit RunOnDevice stopped when we've really stopped": no files  *)
(* are transferred to a device that was announced as stopped, until run()  *)
(* is called for it again; an initial sync stop() found in the queue, for  *)
(* which it does not wait, is the exception the code makes.                *)
NoSyncAfterStopped ==
    act.at = "sync" /\ act.dev \in told =>
        <<chain.settled + 1, act.dev>> \in overtaken

(* A LiveSync with devices listens to the watchers, so that "any change    *)
(* will trigger a LiveSync operation", unless its last stop() is not over. *)
ActiveIsHandled ==
    session.state = "live" /\ session.descs # {} => handlers.ready

(* The platforms whose watchers stop() closes include those of all devices *)
(* of the LiveSync, whichever call of run() brought them.                  *)
PlatformsCovered ==
    \A d \in session.descs : PlatformOf[d] \in session.platforms

(* prepareResultData: files are transferred once the prepare() of the      *)
(* platform of the device has ended, not that of another platform; unless  *)
(* the prepare() that goes on was left behind by a device that failed.     *)
PreparedBeforeSync ==
    act.at = "sync" /\ Initial =>
        prep.platform = PlatformOf[act.dev] \/ orphaned

(* The devices link n has still to sync from scratch, but for those that   *)
(* were stopped since; a link behind a rejected one never runs.            *)
Due(n) ==
    LET begun == chain.running /\ n = chain.settled + 1
    IN  {d \in chain.links[n].devs :
            /\ ~chain.broken
            /\ begun => d \in act.todo \/ (d = act.dev /\ act.at # "stopping")
            /\ <<n, d>> \notin stale}

(* "we want to execute initialSync only for D": no device is waiting for   *)
(* two initial syncs, however the calls of run() and stop() overlap.       *)
NoDeviceIsDeployedTwice ==
    \A i, j \in chain.settled + 1 .. Len(chain.links) :
        i # j => Due(i) \intersect Due(j) = {}

(* "Consecutive calls [...] will execute the initial sync (deploy and       *)
(* fullSync)": the initial sync of a device of the LiveSync is over before *)
(* a change is transferred to it, also when that of another device failed; *)
(* unless its initial sync is queued behind the change, or was skipped in  *)
(* a LiveSync that was stopped under it.                                   *)
InitialSyncComesFirst ==
    act.at = "sync" /\ ~Initial /\ act.dev \in session.descs =>
        \/ act.dev \in deployed \union skipped
        \/ \E n \in chain.settled + 2 .. Len(chain.links) :
              act.dev \in chain.links[n].devs

(* A LiveSync that has been stopped leaves no webpack process behind, but  *)
(* what a prepare() under way starts once stop() has closed its watcher.   *)
NoWatcherLeft ==
    session.state = "stopped" =>
        \A q \in Platforms : watch[q] = "off" \/ q \in escaped

(* No call waits for ever: in particular the stop() a failing sync makes   *)
(* and the stop() of a lost device do not wait for each other.             *)
EveryCallReturns ==
    /\ \A r \in Runs : UnderWay(run[r]) ~> ~UnderWay(run[r])
    /\ \A s \in StopCalls : UnderWay(stop[s]) ~> ~UnderWay(stop[s])

(* "any change in it will trigger a LiveSync operation": a change reaches  *)
(* every deployed device that stays connected and in the LiveSync.         *)
ChangesArrive ==
    \A d \in Devices, c \in Changes :
        <<d, c>> \in missing ~> <<d, c>> \notin missing \/ d \notin connected

=============================================================================
