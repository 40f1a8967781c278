------------------------ MODULE AndroidDeviceLiveSync ------------------------
(***************************************************************************)
(* LiveSync of one application on one Android device, from the files on    *)
(* the computer to the code the application runs:                          *)
(*   lib/controllers/run-controller.ts: the action on the device of        *)
(*     syncInitialDataOnDevices(), of syncChangedDataOnDevices(), and      *)
(*     refreshApplicationWithoutDebug();                                   *)
(*   lib/services/livesync/platform-livesync-service-base.ts,              *)
(*     android-livesync-service.ts: fullSync(), liveSyncWatchAction();     *)
(*   android-device-livesync-service-base.ts and                           *)
(*     android-device-livesync-sockets-service.ts: transfer, finalizeSync; *)
(*   lib/common/mobile/android/android-device-hash-service.ts: the file    *)
(*     of hashes on the device;                                            *)
(*   lib/services/hmr-status-service.ts: the status of a hot update.       *)
(* The connection is that of AndroidLivesyncTool.                          *)
(*                                                                         *)
(* The chain of the run controller runs one sync at a time.  The developer *)
(* changes files meanwhile; the application may die at any time; sockets,  *)
(* reports and timers come in any order.  The application and its runtime  *)
(* are not in the repository; they are modelled from how the code uses     *)
(* them: a restarted application runs the files on the device, a hot       *)
(* update applies to the code it was made for.                             *)
(***************************************************************************)
EXTENDS AndroidLivesyncTool, Integers

CONSTANTS
    Files,
    MaxChanges,     \* bound: changes of files
    UseHmr          \* useHotModuleReload

ASSUME LiveSyncAssumption ==
    /\ Files # {} /\ IsFiniteSet(Files)
    /\ MaxChanges \in Nat
    /\ UseHmr \in BOOLEAN

Versions == Nat
Unknown == -1       \* the hash of no version

VARIABLES
    local,      \* the version of each file on the computer
    queue,      \* changes the run controller has not synced
    device,     \* the version of each file on the device, and a hot update
    hashes,     \* what getShasumsFromDevice() says
    marker,     \* whether the device has the livesync-in-progress file
    app,        \* the application: whether it runs, and which versions
    hmrStatus,  \* what $hmrStatusService knows of the hash of the change
    sync,       \* the sync under way
    live,       \* whether the device is in LiveSync
    longLiving, \* whether the runtime's protocol is at least 0.2.0
    webpack5,   \* whether webpack reports what it emits the newer way
    excused     \* whether there is a reason for the application to be old

kinds == <<longLiving, webpack5>>
hostVars == <<local, queue, hmrStatus, sync, live, kinds>>
others == <<local, queue, hmrStatus, live, kinds, excused>>
deviceVars == <<device, hashes, marker, app>>
vars == <<toolVars, hostVars, deviceVars, excused>>

\* What a webpack compilation reports: a new version of a file, as a hot
\* update (hasOnlyHotUpdateFiles) or as files.
Changes == [file : Files, version : Versions, hot : BOOLEAN]
NoChange == [file |-> CHOOSE f \in Files : TRUE, version |-> 0, hot |-> FALSE]

SyncTypes ==
    [at : {"idle", "before", "connect", "hash", "send", "upload", "finalize",
           "doSync", "refresh", "stop", "start", "reconnect", "status", "failed"},
     kind : {"full", "watch"},
     stage : {"sync", "recover", "fallback"},
     change : Changes,
     allFiles : BOOLEAN,        \* whether watchInfo.filesToSync is allAppFiles
     force : BOOLEAN,
     todo : SUBSET Files,       \* files still to send
     update : BOOLEAN,          \* whether the hot update is still to send
     current : [Files -> Versions \union {Unknown}],    \* currentHashes
     modified : BOOLEAN,        \* whether modifiedFilesData has files
     didRefresh : BOOLEAN,
     secondTry : BOOLEAN]

NoHashes == [f \in Files |-> Unknown]
Base == [f \in Files |-> 0]

NoSync == [at |-> "idle", kind |-> "full", stage |-> "sync", change |-> NoChange,
           allFiles |-> FALSE, force |-> FALSE, todo |-> {}, update |-> FALSE,
           current |-> NoHashes, modified |-> FALSE, didRefresh |-> TRUE,
           secondTry |-> FALSE]

\* LiveSync begins with the initial sync of an application that is installed.
Init ==
    /\ ToolInit
    /\ local \in [Files -> {0, 1}] /\ FoldFunction(+, 0, local) <= MaxChanges
    /\ queue = <<>>
    /\ device = [files |-> Base, update |-> NoChange]
    /\ hashes \in {NoHashes, Base}
    /\ marker = FALSE
    /\ app = [runs |-> FALSE, code |-> Base]
    /\ hmrStatus = "none"
    /\ sync \in {[NoSync EXCEPT !.at = "before", !.force = force] : force \in BOOLEAN}
    /\ live = TRUE
    /\ longLiving \in BOOLEAN /\ webpack5 \in BOOLEAN
    /\ excused = FALSE

at(place) == ~thrown /\ sync.at = place
goto(place) == sync' = [sync EXCEPT !.at = place]

\* The end of a sync; nobody asks for the status of its hash again.
over == sync' = NoSync /\ hmrStatus' = "none"

\* The sockets when the application is gone; the events come later.
cutOff == [s \in Sockets |->
              IF sock[s].at = "open" THEN [sock[s] EXCEPT !.at = "lost"] ELSE sock[s]]

(***************************************************************************)
(* The developer and the application                                       *)
(***************************************************************************)
\* A file changes; in LiveSync the watcher reports it.
FileChanges(f, hot) ==
    /\ ~thrown
    /\ FoldFunction(+, 0, local) < MaxChanges
    /\ IF webpack5 THEN hot = UseHmr ELSE hot => UseHmr
    /\ local' = [local EXCEPT ![f] = @ + 1]
    /\ queue' = IF live
                THEN Append(queue, [file |-> f, version |-> local[f] + 1, hot |-> hot])
                ELSE queue
    /\ UNCHANGED <<toolVars, hmrStatus, sync, live, kinds, deviceVars, excused>>

\* The application takes a file from the connection.
AppTakesFile ==
    /\ ~thrown /\ app.runs /\ stream # <<>>
    /\ LET message == Head(stream) IN
       /\ message.kind \in {"file", "update"}
       /\ device' = IF message.kind = "file"
                    THEN [device EXCEPT
                             !.files[message.change.file] = message.change.version]
                    ELSE [device EXCEPT !.update = message.change]
    /\ stream' = Tail(stream)
    /\ UNCHANGED <<socketConnection, sock, attempt, operation, report, thrown, late, faults,
                   hostVars, hashes, marker, app, excused>>

\* The application takes the do-sync operation and reports its end, or an
\* error.  When it may refresh and has a hot update it applies it to the code
\* the update was made for, and logs how that went, as a rule.
AppSyncs ==
    /\ ~thrown /\ app.runs /\ stream # <<>>
    /\ Head(stream).kind = "sync"
    /\ stream' = Tail(stream)
    /\ LET u == device.update
           old == app.code[u.file]
       IN
       \/ /\ report' = "error"
          /\ fault
          /\ UNCHANGED <<app, hmrStatus, excused>>
       \/ /\ report' = "notRefreshed"
          /\ UNCHANGED <<app, hmrStatus, excused, faults>>
       \/ /\ Head(stream).refresh
          /\ report' = "refreshed"
          /\ UNCHANGED faults
          /\ \/ /\ old + 1 = u.version
                /\ app' = [app EXCEPT !.code[u.file] = u.version]
                /\ hmrStatus' \in {"success", hmrStatus}
                /\ UNCHANGED excused
             \/ /\ old < u.version
                /\ hmrStatus' = "error"
                /\ UNCHANGED <<app, excused>>
             \/ /\ old < u.version
                /\ excused' = TRUE
                /\ UNCHANGED <<app, hmrStatus>>
             \/ /\ old >= u.version
                /\ UNCHANGED <<app, hmrStatus, excused>>
    /\ device' = [device EXCEPT !.update = NoChange]
    /\ UNCHANGED <<socketConnection, sock, attempt, operation, thrown, late, local, queue,
                   sync, live, kinds, hashes, marker>>

\* The application dies; code it only had as hot updates is gone.
AppDies ==
    /\ ~thrown /\ app.runs
    /\ fault
    /\ app' = [app EXCEPT !.runs = FALSE]
    /\ sock' = cutOff
    /\ stream' = <<>>
    /\ excused' = (excused \/ app.code # device.files)
    /\ UNCHANGED <<socketConnection, attempt, operation, report, thrown, late,
                   hostVars, device, hashes, marker>>

(***************************************************************************)
(* The syncs                                                               *)
(***************************************************************************)
\* The device joins again, after a failure.  Hashes that promise more than the
\* device has come from a sync that failed.
SyncInitialData(force) ==
    /\ at("idle") /\ ~live
    /\ sync' = [NoSync EXCEPT !.at = "before", !.force = force]
    /\ live' = TRUE
    /\ fault
    /\ excused' = \E f \in Files : hashes[f] \notin {Unknown, device.files[f]}
    /\ UNCHANGED <<toolState, local, queue, hmrStatus, kinds, deviceVars>>

\* The next link of the chain, with watchHmrStatus() and liveSyncWatchAction().
SyncChangedData ==
    /\ at("idle") /\ live /\ queue # <<>>
    /\ sync' = [NoSync EXCEPT !.at = "before", !.kind = "watch", !.change = Head(queue),
                              !.allFiles = ~Head(queue).hot]
    /\ queue' = Tail(queue)
    /\ hmrStatus' = "none"
    /\ UNCHANGED <<toolVars, local, live, kinds, deviceVars, excused>>

\* beforeLiveSyncAction(): without a connection, mark the device, start the
\* application and connect; adb may fail.
BeforeLiveSyncAction ==
    /\ at("before")
    /\ \/ /\ hasConnection
          /\ goto("hash")
          /\ UNCHANGED <<toolVars, app, marker>>
       \/ /\ ~hasConnection
          /\ goto("connect")
          /\ beginConnect
          /\ marker' = TRUE
          /\ app' = IF app.runs THEN app ELSE [runs |-> TRUE, code |-> device.files]
          /\ UNCHANGED <<socketConnection, sock, retryTimers, pending, lookups, traffic,
                         thrown, late, faults>>
       \/ /\ ~hasConnection
          /\ fault
          /\ goto("failed")
          /\ marker' = FALSE
          /\ UNCHANGED <<toolState, app>>
    /\ UNCHANGED <<others, device, hashes>>

\* connect() is over, for beforeLiveSyncAction() or for restartApplication(),
\* which does not mind when it failed.
Connected ==
    /\ ~thrown
    /\ connect.at \in {"connected", "failed"}
    /\ connect' = Idle
    /\ \/ /\ at("connect")
          /\ goto(IF connect.at = "connected" THEN "hash" ELSE "failed")
          /\ marker' = (marker /\ connect.at = "connected")
       \/ /\ at("reconnect")
          /\ goto("status")
          /\ UNCHANGED marker
    /\ UNCHANGED <<socketConnection, sock, retryTimers, pending, lookups, traffic,
                   thrown, late, faults, others, device, hashes, app>>

(* Mutant: the file of the change only, whatever hot updates came before.  *)
filesToSyncChanged == IF ~sync.allFiles /\ ~webpack5 THEN {} ELSE {sync.change.file}

\* The files of a change: what webpack emitted, or all chunks (fallbackFiles),
\* and the hot update, which the newer webpack emits with the file.
filesToSync ==
    IF ~sync.allFiles /\ ~webpack5 THEN {}
    ELSE IF UseHmr /\ ~webpack5 THEN Files ELSE {sync.change.file}
withUpdate == sync.change.hot /\ (webpack5 \/ ~sync.allFiles)

\* transferFiles() up to the first file: the hashes, and which files to send.
\* A forced full sync deletes the file of hashes; a local copy stays.
GenerateHashes ==
    /\ at("hash")
    /\ LET given == IF sync.kind = "full" THEN Files ELSE filesToSync
           changed == {f \in given : hashes[f] # local[f]}
           todo == IF sync.kind = "watch" \/ sync.force THEN given ELSE changed
           update == sync.kind = "watch" /\ withUpdate
       IN  sync' = [sync EXCEPT
                       !.at = "send",
                       !.current = [f \in Files |->
                                       IF f \in given THEN local[f] ELSE Unknown],
                       !.todo = todo,
                       !.update = update,
                       !.modified = (todo # {} \/ update)]
    /\ hashes' \in IF sync.kind = "full" /\ sync.force THEN {hashes, NoHashes} ELSE {hashes}
    /\ UNCHANGED <<toolVars, others, device, marker, app>>

\* sendFile(), which fails without a connection; of a file what it holds now.
Send(message) ==
    /\ IF hasConnection THEN written(message) ELSE UNCHANGED stream
    /\ UNCHANGED <<socketConnection, sock, attempt, operation, report, thrown, late, faults,
                   others, deviceVars>>

SendFile(f) ==
    /\ at("send") /\ f \in sync.todo
    /\ sync' = IF hasConnection THEN [sync EXCEPT !.todo = @ \ {f}]
                                ELSE [sync EXCEPT !.at = "failed"]
    /\ Send([kind |-> "file",
             change |-> [NoChange EXCEPT !.file = f, !.version = local[f]]])

SendUpdate ==
    /\ at("send") /\ sync.todo = {} /\ sync.update
    /\ sync' = IF hasConnection THEN [sync EXCEPT !.update = FALSE]
                                ELSE [sync EXCEPT !.at = "failed"]
    /\ Send([kind |-> "update", change |-> sync.change])

\* updateHashesOnDevice(): the file of hashes becomes currentHashes.
UpdateHashesOnDevice ==
    /\ at("send") /\ sync.todo = {} /\ ~sync.update
    /\ hashes' = sync.current
    /\ sync' = [sync EXCEPT !.at = "finalize", !.current = NoHashes, !.force = FALSE]
    /\ UNCHANGED <<toolVars, others, device, marker, app>>

\* Where a sync goes on: refreshApplication() or the end of fullSyncAction().
synced == IF sync.stage = "recover" THEN "stop" ELSE "refresh"

(* Mutant: a sync without files leaves the file on the device.             *)
DoSyncMarked ==
    /\ at("finalize")
    /\ IF sync.modified
       THEN /\ sendDoSyncOperation(UseHmr /\ sync.kind = "watch")
            /\ goto("doSync")
            /\ UNCHANGED <<socketConnection, sock, report, attempt, thrown, late, faults>>
       ELSE /\ sync' = [sync EXCEPT !.at = synced, !.didRefresh = TRUE]
            /\ IF longLiving THEN UNCHANGED toolVars ELSE end
    /\ UNCHANGED <<others, device, hashes, app, marker>>

\* doSync(), up to its await; a sync without files has nothing to await.
DoSync ==
    /\ at("finalize")
    /\ IF sync.modified
       THEN /\ sendDoSyncOperation(UseHmr /\ sync.kind = "watch")
            /\ goto("doSync")
            /\ UNCHANGED <<marker, socketConnection, sock, report, attempt, thrown, late,
                           faults>>
       ELSE /\ marker' = FALSE
            /\ sync' = [sync EXCEPT !.at = synced, !.didRefresh = TRUE]
            /\ IF longLiving THEN UNCHANGED toolVars ELSE end
    /\ UNCHANGED <<others, device, hashes, app>>

\* actionOnEnd() and the rest of finalizeSync().
DoSyncEnds ==
    /\ at("doSync")
    /\ operation.at \in {"refreshed", "notRefreshed", "failed"}
    /\ marker' = FALSE
    /\ IF operation.at = "failed"
       THEN goto("failed")
       ELSE sync' = [sync EXCEPT !.at = synced,
                                 !.didRefresh = (operation.at = "refreshed")]
    /\ operation' = NoOperation
    /\ IF operation.at = "failed" \/ ~longLiving
       THEN closed
       ELSE UNCHANGED <<socketConnection, sock, attempt, stream, report, thrown, late, faults>>
    /\ UNCHANGED <<others, device, hashes, app>>

\* refreshApplicationWithoutDebug(): restart, let it be, or sync all files
\* first (fullSyncAction) when a hot update did not refresh the application.
RefreshApplication ==
    /\ at("refresh")
    /\ \/ /\ sync.kind = "full" \/ ~sync.change.hot \/ sync.stage = "fallback"
          /\ goto("stop")
       \/ /\ sync.kind = "watch" /\ sync.change.hot /\ sync.stage = "sync"
          /\ IF sync.didRefresh
             THEN goto("status")
             ELSE sync' = [sync EXCEPT !.at = "before", !.stage = "recover",
                                       !.allFiles = TRUE]
    /\ UNCHANGED <<toolVars, others, deviceVars>>

\* restartApplication() of the device; an error is caught and told.
StopApplication ==
    /\ at("stop")
    /\ app' = [app EXCEPT !.runs = FALSE]
    /\ sock' = cutOff
    /\ stream' = <<>>
    /\ goto("start")
    /\ UNCHANGED <<socketConnection, attempt, operation, report, thrown, late, faults, others,
                   device, hashes, marker>>

StartApplication ==
    /\ at("start")
    /\ \/ /\ app' = [runs |-> TRUE, code |-> device.files]
          /\ IF longLiving /\ ~hasConnection
             THEN goto("reconnect") /\ beginConnect
             ELSE goto("status") /\ UNCHANGED connect
          /\ UNCHANGED <<excused, faults>>
       \/ /\ fault
          /\ goto("status")
          /\ excused' = TRUE
          /\ UNCHANGED <<app, connect>>
    /\ UNCHANGED <<socketConnection, sock, retryTimers, pending, lookups, traffic,
                   thrown, late, local, queue, hmrStatus, live, kinds, device, hashes, marker>>

\* After the refresh: the status of the hot update, unless all files were
\* synced.  No status within ten seconds is taken for success.
HmrStatusKnown ==
    /\ at("status")
    /\ IF /\ sync.kind = "watch" /\ UseHmr /\ sync.stage = "sync"
          /\ hmrStatus = "error"
       THEN /\ sync' = [sync EXCEPT !.at = "before", !.stage = "fallback",
                                    !.allFiles = TRUE]
            /\ UNCHANGED hmrStatus
       ELSE over
    /\ UNCHANGED <<toolVars, local, queue, live, kinds, excused, deviceVars>>

(* Mutant: the device is still among those the queued changes are for.     *)
SyncFailsQueued ==
    /\ at("failed")
    /\ live' = (sync.stage = "recover")
    /\ over
    /\ excused' = TRUE
    /\ UNCHANGED <<toolVars, local, queue, kinds, deviceVars>>

\* installOnDevice() puts back the files of the build and what their hashes
\* are; the application stops.
installOnDevice ==
    /\ fault
    /\ app' = [app EXCEPT !.runs = FALSE]
    /\ sock' = cutOff
    /\ stream' = <<>>
    /\ device' = [files |-> Base, update |-> NoChange]
    /\ hashes' \in {NoHashes, Base}
    /\ excused' = TRUE
    /\ UNCHANGED <<socketConnection, attempt, operation, report, thrown, late, marker>>

\* The first error of a change with HMR is followed by a second watchAction().
triesAgain == sync.stage # "recover" /\ UseHmr /\ sync.kind = "watch" /\ ~sync.secondTry

\* An error of a sync.  One of fullSyncAction() is caught by refresh; before
\* a second watchAction() the application is installed if need be; any other
\* error takes the device out of LiveSync.
SyncFails ==
    /\ at("failed")
    /\ \/ /\ sync.stage = "recover"
          /\ excused' = TRUE
          /\ over
          /\ UNCHANGED <<toolVars, live, queue, deviceVars>>
       \/ /\ triesAgain
          /\ \/ UNCHANGED <<toolVars, deviceVars, excused>>
             \/ installOnDevice
          /\ sync' = [sync EXCEPT !.at = "before", !.stage = "sync", !.todo = {},
                                    !.update = FALSE, !.secondTry = TRUE]
          /\ UNCHANGED <<live, queue, hmrStatus>>
       \/ /\ sync.stage # "recover"
          /\ IF triesAgain THEN fault ELSE UNCHANGED faults
          /\ live' = FALSE
          /\ queue' = <<>>
          /\ over
          /\ UNCHANGED <<toolState, excused, deviceVars>>
    /\ UNCHANGED <<local, kinds>>

ToolSteps ==
    /\ ~thrown
    /\ ToolStep
    /\ UNCHANGED <<hostVars, deviceVars, excused>>

\* A socket gets its first answer from the application.
Answered(s) ==
    /\ ~thrown /\ app.runs
    /\ SocketAnswers(s)
    /\ UNCHANGED <<hostVars, deviceVars, excused>>

SyncStep ==
    \/ SyncChangedData \/ BeforeLiveSyncAction \/ Connected \/ GenerateHashes
    \/ (\E f \in Files : SendFile(f)) \/ SendUpdate
    \/ UpdateHashesOnDevice \/ DoSync \/ DoSyncEnds \/ RefreshApplication
    \/ StopApplication \/ StartApplication \/ HmrStatusKnown \/ SyncFails

Next ==
    \/ \E f \in Files, hot \in BOOLEAN : FileChanges(f, hot)
    \/ AppTakesFile \/ AppSyncs \/ AppDies
    \/ \E force \in BOOLEAN : SyncInitialData(force)
    \/ \E s \in Sockets : Answered(s)
    \/ SyncStep
    \/ ToolSteps

Spec == Init /\ [][Next]_vars

\* The CLI goes on and its timers fire; nothing is asked of the application,
\* nor of the sockets.
Timers ==
    /\ ~thrown
    /\ \/ PortForwarded \/ ConnectTimesOut \/ OperationTimesOut
       \/ \E whose \in {"deciding", "moot"} : LookupAnswers(whose)
    /\ UNCHANGED <<hostVars, deviceVars, excused>>

FairSpec == Spec /\ WF_vars(SyncStep) /\ WF_vars(Timers)

(***************************************************************************)
(* Properties                                                              *)
(***************************************************************************)
\* Values are of their types; and the listeners handleConnection() adds are
\* those of the connection and of no socket that was one before.
TypeOK ==
    /\ \A s \in Sockets : sock[s].ears = "tool" <=> s = socketConnection
    /\ socketConnection \in Sockets \union {NoSocket}
    /\ sock \in [Sockets -> SockTypes]
    /\ connect \in ConnectTypes
    /\ retryTimers \subseteq {"ours", "stale"}
    /\ lookups \subseteq {"deciding", "moot"}
    /\ late \in BOOLEAN
    /\ operation \in OperationTypes
    /\ report \in Reports
    /\ sync \in SyncTypes
    /\ queue \in Seq(Changes)

\* Only what comes late can make a handler throw: as long as no timer, socket
\* or time-out of an earlier attempt was handled since an attempt began, its
\* pendingConnectionData is there whenever one of its own handlers needs it,
\* whatever else goes wrong in it.
OnlyLateEventsThrow == thrown => late

\* The application that runs when every change is synced has the newest
\* version of every file, whatever was lost on the way; "excused" names the
\* cases in which the code lets it be old: the developer was told, the
\* application kept silent on a hot update or died with one, the file of
\* hashes promises what a sync that failed did not deliver, or a second try
\* installed the build again and then sent the files of its change only.
SyncDelivers ==
    at("idle") /\ live /\ queue = <<>> /\ ~excused /\ app.runs
        => app.code = local

\* connect() that the caller is told has failed, or that goes on, has made no
\* connection: an answer that comes after the time is up never makes one.
RejectedMeansNoConnection ==
    connect.at \in {"port", "trying", "failed"} => ~hasConnection

\* A sync that went well leaves no livesync-in-progress file behind, which
\* would keep the next start of the application waiting for files.
MarkerIsCleared ==
    at("idle") /\ live /\ ~excused => ~marker

\* Every sync ends although the application may never answer, and the changes
\* reported meanwhile are synced, or the device is taken out of LiveSync.
EverySyncReturns == sync.at # "idle" ~> sync.at = "idle" \/ thrown
ChangesAreSynced == queue # <<>> ~> queue = <<>> \/ thrown

=============================================================================
