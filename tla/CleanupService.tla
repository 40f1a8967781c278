----------------------------- MODULE CleanupService -----------------------------
(***************************************************************************)
(* What a CLI process leaves behind when it ends, and the detached process *)
(* that cleans up after it.                                                *)
(*   lib/services/cleanup-service.ts: the start of the cleanup process and *)
(*     the messages to it;                                                 *)
(*   lib/detached-processes/cleanup-process.ts: what is registered, and    *)
(*     the clean up once the CLI is gone;                                  *)
(*   lib/services/webpack/webpack-compiler-service.ts and                  *)
(*     temp-service.ts, which make what is to be cleaned.  (The files of   *)
(*     locks are in LockService.)                                          *)
(*                                                                         *)
(* The CLI may end between any two events, a command that fails included,  *)
(* or be killed at any moment.                                             *)
(***************************************************************************)
EXTENDS Naturals, Sequences

CONSTANTS
    Webpacks,           \* webpack processes the CLI may start
    Temps,              \* temporary files and folders it may make
    MaxCleanupFaults    \* bound: kills, late or failed starts, failed commands

ASSUME CleanupAssumption == Webpacks \intersect Temps = {} /\ MaxCleanupFaults \in Nat

VARIABLES
    cli,            \* whether the CLI runs or is gone
    cleanupProcess, \* the cached promise of getCleanupProcess()
    detached,       \* the cleanup process
    messages,       \* sent to it and not received
    registered,     \* commandsInfos and filesToDelete
    existing,       \* the webpack processes that run, the temporary files there are
    client,         \* of each, where the code that makes it is
    forsaken,       \* what is known to be left behind
    cleanupFaults

cleanupVars == <<cli, cleanupProcess, detached, messages, registered, existing, client,
                 forsaken, cleanupFaults>>

Things == Webpacks \union Temps

CleanupInit ==
    /\ cli = "runs"
    /\ cleanupProcess = "none"
    /\ detached = "none"
    /\ messages = <<>>
    /\ registered = {} /\ existing = {}
    /\ client = [t \in Things |-> "rest"]
    /\ forsaken = {}
    /\ cleanupFaults = 0

faulty == cleanupFaults < MaxCleanupFaults /\ cleanupFaults' = cleanupFaults + 1

from(t, place) == cli = "runs" /\ client[t] = place
to(t, place) == client' = [client EXCEPT ![t] = place]

(***************************************************************************)
(* The start of the cleanup process                                        *)
(***************************************************************************)
\* getCleanupProcess(): it is spawned by the first call.
getCleanupProcess ==
    IF cleanupProcess = "none"
    THEN cleanupProcess' = "pending" /\ detached' = "booting"
    ELSE UNCHANGED <<cleanupProcess, detached>>

\* It sends ProcessReadyToReceive; after the time-out that comes too late for
\* those who wait, now and later.
Ready ==
    /\ cli = "runs" /\ detached = "booting"
    /\ detached' = "ready"
    /\ cleanupProcess' = IF cleanupProcess = "pending" THEN "resolved" ELSE cleanupProcess
    /\ UNCHANGED <<cli, messages, registered, existing, client, forsaken, cleanupFaults>>

\* The time-out, or the "error" event of a process that could not be spawned.
StartFails ==
    /\ cli = "runs" /\ cleanupProcess = "pending"
    /\ faulty
    /\ cleanupProcess' = "rejected"
    /\ detached' \in {detached, "gone"}
    /\ UNCHANGED <<cli, messages, registered, existing, client, forsaken>>

(***************************************************************************)
(* Its clients                                                             *)
(***************************************************************************)
\* startWebpackProcess(), up to its await of the cleanup process.
StartWebpackProcess(w) ==
    /\ from(w, "rest")
    /\ to(w, "asking")
    /\ getCleanupProcess
    /\ UNCHANGED <<cli, messages, registered, existing, forsaken, cleanupFaults>>

(* Mutant: webpack is spawned while the cleanup process is starting.       *)
SpawnWebpackAtOnce(w) ==
    /\ from(w, "asking")
    /\ existing' = existing \union {w}
    /\ to(w, "made")
    /\ UNCHANGED <<cli, cleanupProcess, detached, messages, registered, forsaken,
                   cleanupFaults>>

SpawnWebpack(w) ==
    /\ from(w, "asking") /\ cleanupProcess = "resolved"
    /\ existing' = existing \union {w}
    /\ to(w, "made")
    /\ UNCHANGED <<cli, cleanupProcess, detached, messages, registered, forsaken,
                   cleanupFaults>>

\* mkdirSync() and path() of the temp service, up to their await.
MakeTemp(t) ==
    /\ from(t, "rest")
    /\ existing' = existing \union {t}
    /\ to(t, "made")
    /\ getCleanupProcess
    /\ UNCHANGED <<cli, messages, registered, forsaken, cleanupFaults>>

send(kind, t) == messages' = Append(messages, [kind |-> kind, thing |-> t])

\* addKillProcess(), addCleanupDeleteAction().
AddCleanup(t) ==
    /\ from(t, "made") /\ cleanupProcess = "resolved"
    /\ send("add", t)
    /\ to(t, "on")
    /\ UNCHANGED <<cli, cleanupProcess, detached, registered, existing, forsaken,
                   cleanupFaults>>

\* The error of the start reaches the client; a temporary file stays unknown.
CleanupIsRejected(t) ==
    /\ client[t] \in {"asking", "made"} /\ from(t, client[t])
    /\ cleanupProcess = "rejected"
    /\ to(t, "done")
    /\ forsaken' = forsaken \union ({t} \intersect existing)
    /\ UNCHANGED <<cli, cleanupProcess, detached, messages, registered, existing,
                   cleanupFaults>>

\* stopWebpackForPlatform(): it is withdrawn, then killed.  The handler of the
\* "close" event withdraws it as well.
StopWebpack(w) ==
    /\ from(w, "on")
    /\ send("remove", w)
    /\ to(w, "stopping")
    /\ UNCHANGED <<cli, cleanupProcess, detached, registered, existing, forsaken,
                   cleanupFaults>>

KillWebpack(w) ==
    /\ from(w, "stopping")
    /\ existing' = existing \ {w}
    /\ to(w, "closing")
    /\ UNCHANGED <<cli, cleanupProcess, detached, messages, registered, forsaken,
                   cleanupFaults>>

WebpackExits(w) ==
    /\ client[w] = "on" /\ w \in existing
    /\ existing' = existing \ {w}
    /\ to(w, "closing")
    /\ UNCHANGED <<cli, cleanupProcess, detached, messages, registered, forsaken,
                   cleanupFaults>>

Closed(w) ==
    /\ from(w, "closing")
    /\ send("remove", w)
    /\ to(w, "done")
    /\ UNCHANGED <<cli, cleanupProcess, detached, registered, existing, forsaken,
                   cleanupFaults>>

(***************************************************************************)
(* The end                                                                 *)
(***************************************************************************)
\* process.exit() runs between two events: a client that awaits what is there
\* already, or is about to kill webpack, goes on before it.  The package temp
\* removes what it tracks.
Exit ==
    /\ cli = "runs"
    /\ \A t \in Things : client[t] # "stopping"
    /\ cleanupProcess = "resolved" => \A t \in Things : client[t] # "made"
    /\ cli' = "gone"
    /\ existing' = existing \ Temps
    /\ UNCHANGED <<cleanupProcess, detached, messages, registered, client, forsaken,
                   cleanupFaults>>

\* A kill may find something made and not registered, or withdrawn and not killed.
IsKilled ==
    /\ cli = "runs"
    /\ faulty
    /\ cli' = "gone"
    /\ forsaken' = forsaken \union {t \in Things : client[t] \in {"made", "stopping"}}
    /\ UNCHANGED <<cleanupProcess, detached, messages, registered, existing, client>>

(***************************************************************************)
(* The cleanup process                                                     *)
(***************************************************************************)
\* process.on("message").
Receive ==
    /\ detached = "ready" /\ messages # <<>>
    /\ messages' = Tail(messages)
    /\ registered' = IF Head(messages).kind = "add"
                     THEN registered \union {Head(messages).thing}
                     ELSE registered \ {Head(messages).thing}
    /\ UNCHANGED <<cli, cleanupProcess, detached, existing, client, forsaken,
                   cleanupFaults>>

\* process.on("disconnect"), behind the messages; or it was not even ready.
Disconnect ==
    /\ cli = "gone" /\ messages = <<>>
    /\ detached \in {"booting", "ready"}
    /\ detached' = "cleaning"
    /\ UNCHANGED <<cli, cleanupProcess, messages, registered, existing, client, forsaken,
                   cleanupFaults>>

\* executeCleanup(): the commands, each with a time-out; one that fails is
\* logged, and the next one is executed.
ExecuteCommand(w) ==
    /\ detached = "cleaning" /\ w \in registered
    /\ registered' = registered \ {w}
    /\ \/ /\ existing' = existing \ {w}
          /\ UNCHANGED <<forsaken, cleanupFaults>>
       \/ /\ faulty
          /\ forsaken' = forsaken \union {w}
          /\ UNCHANGED existing
    /\ UNCHANGED <<cli, cleanupProcess, detached, messages, client>>

\* At last the files, all at once.
DeleteFiles ==
    /\ detached = "cleaning" /\ registered \intersect Webpacks = {}
    /\ detached' = "gone"
    /\ registered' = {}
    /\ \/ /\ existing' = existing \ registered
          /\ UNCHANGED <<forsaken, cleanupFaults>>
       \/ /\ faulty
          /\ forsaken' = forsaken \union registered
          /\ UNCHANGED existing
    /\ UNCHANGED <<cli, cleanupProcess, messages, client>>

CleanupNext ==
    \/ Ready \/ StartFails
    \/ \E w \in Webpacks :
          \/ StartWebpackProcess(w) \/ SpawnWebpack(w)
          \/ StopWebpack(w) \/ KillWebpack(w) \/ WebpackExits(w) \/ Closed(w)
          \/ ExecuteCommand(w)
    \/ \E t \in Temps : MakeTemp(t)
    \/ \E t \in Things : AddCleanup(t) \/ CleanupIsRejected(t)
    \/ Exit \/ IsKilled
    \/ Receive \/ Disconnect \/ DeleteFiles

CleanupSpec == CleanupInit /\ [][CleanupNext]_cleanupVars

\* Once the CLI is gone and the cleanup process has done its work, no webpack
\* and no temporary file is left, however the CLI ended: except what a kill
\* found between its making and its registration or its removal, what was made
\* without a cleanup process, and what a command failed to clean.
NothingIsLeftBehind ==
    cli = "gone" /\ detached \in {"none", "gone"} => existing \subseteq forsaken

=============================================================================
