----------------------------- MODULE LockService -----------------------------
(***************************************************************************)
(* The file lock of lib/common/services/lock-service.ts, taken by CLI      *)
(* processes on one lock path, together with the detached cleanup process  *)
(* (lib/detached-processes/cleanup-process.ts) each CLI process keeps: it  *)
(* deletes the paths registered with it once its CLI process is gone.      *)
(*                                                                         *)
(* A task is one call of executeActionWithLock(action, lockFilePath).  The *)
(* directory `<path>.lock' is the lock itself (npm proper-lockfile, not in *)
(* the repository); `<path>' is the file the service writes next to it.    *)
(***************************************************************************)
EXTENDS Naturals, FiniteSets

CONSTANTS
    Tasks,          \* calls of executeActionWithLock
    Procs,          \* CLI processes, each with its own cleanup process
    ProcOf,         \* the process that makes the call
    NoTask,         \* no task: `<path>.lock' does not exist
    Impatient,      \* tasks whose retries may run out (retriesObj, 13 retries)
    Killable        \* processes that may be killed at any moment

ASSUME TasksAssumption ==
    /\ ProcOf \in [Tasks -> Procs]
    /\ NoTask \notin Tasks
    /\ Impatient \subseteq Tasks
    /\ Killable \subseteq Procs

VARIABLES
    pc,         \* where each task is in lock() / the release function
    lockDir,    \* the task that created `<path>.lock', NoTask if it is absent
    lockFile,   \* whether `<path>' exists
    registered, \* filesToDelete of each cleanup process
    process,    \* state of each CLI process and of its cleanup process
    \* History, which no guard reads:
    robbed,     \* running tasks whose directory somebody else removed
    exposed     \* tasks whose registration another call withdrew

history == <<robbed, exposed>>

vars == <<pc, lockDir, lockFile, registered, process, history>>

Paths == {"file", "dir"}
PC == {"idle", "addDir", "write", "waiting", "held",
       "released", "removeFile", "removeDir", "done", "failed"}

TypeOK ==
    /\ pc \in [Tasks -> PC]
    /\ lockDir \in Tasks \union {NoTask}
    /\ lockFile \in BOOLEAN
    /\ registered \in [Procs -> SUBSET Paths]
    /\ process \in [Procs -> {"running", "gone", "swept"}]
    /\ robbed \subseteq Tasks /\ exposed \subseteq Tasks

Init ==
    /\ pc = [t \in Tasks |-> "idle"]
    /\ lockDir = NoTask
    /\ lockFile = FALSE
    /\ registered = [p \in Procs |-> {}]
    /\ process = [p \in Procs |-> "running"]
    /\ robbed = {} /\ exposed = {}

-----------------------------------------------------------------------------

Running(t) == process[ProcOf[t]] = "running"

(* One step of the code of task t between two awaits. *)
At(t, from, to) ==
    /\ Running(t)
    /\ pc[t] = from
    /\ pc' = [pc EXCEPT ![t] = to]

Register(t, path) ==
    registered' = [registered EXCEPT ![ProcOf[t]] = @ \union {path}]

Unregister(t, path) ==
    registered' = [registered EXCEPT ![ProcOf[t]] = @ \ {path}]

(* lock(): addCleanupDeleteAction(filePath), then for `${filePath}.lock'.  *)
(* The cleanup process keeps a set: adding twice is a no-op.               *)
AddCleanupFile(t) ==
    /\ At(t, "idle", "addDir")
    /\ Register(t, "file")
    /\ UNCHANGED <<lockDir, lockFile, process, history>>

(* Mutant: only the file is handed to the cleanup process.                 *)
AddCleanupDirOnlyFile(t) ==
    /\ At(t, "addDir", "write")
    /\ Register(t, "file")
    /\ UNCHANGED <<lockDir, lockFile, process, history>>

AddCleanupDir(t) ==
    /\ At(t, "addDir", "write")
    /\ Register(t, "dir")
    /\ UNCHANGED <<lockDir, lockFile, process, history>>

WriteLockFile(t) ==
    /\ At(t, "write", "waiting")
    /\ lockFile' = TRUE
    /\ UNCHANGED <<lockDir, registered, process, history>>

(* A directory nobody has touched for `stale' milliseconds: proper-lockfile *)
(* of the creator refreshes it while its process runs.                      *)
Stale == lockDir # NoTask /\ ~Running(lockDir)

(* Mutant: an existing directory does not fail the mkdir.                  *)
AcquireExisting(t) ==
    /\ At(t, "waiting", "held")
    /\ lockDir' = t
    /\ UNCHANGED <<lockFile, registered, process, history>>

(* lockfile.lock: mkdir of `<path>.lock' succeeds, or replaces a stale one. *)
Acquire(t) ==
    /\ At(t, "waiting", "held")
    /\ lockDir = NoTask \/ Stale
    /\ lockDir' = t
    /\ UNCHANGED <<lockFile, registered, process, history>>

(* The retries are exhausted: lock() throws "Timeout while waiting for     *)
(* lock" and what it registered for cleanup stays registered.              *)
Timeout(t) ==
    /\ t \in Impatient
    /\ lockDir # NoTask
    /\ At(t, "waiting", "failed")
    /\ UNCHANGED <<lockDir, lockFile, registered, process, history>>

(* The running task, other than the tasks of T, whose directory goes when  *)
(* somebody removes `<path>.lock'.                                         *)
Victims(T) == {u \in Tasks \ T : lockDir = u /\ Running(u)}

(* Mutant: the release function forgets releaseFunc().                     *)
ReleaseOnlyClean(t) ==
    /\ At(t, "held", "released")
    /\ UNCHANGED <<lockDir, lockFile, registered, process, history>>

(* The release function, which executeActionWithLock does not await:       *)
(* releaseFunc() removes the directory, whoever created it, then cleanLock *)
(* deletes the file and withdraws both registrations.                      *)
Release(t) ==
    /\ At(t, "held", "released")
    /\ lockDir' = NoTask
    /\ robbed' = robbed \union Victims({t})
    /\ UNCHANGED <<lockFile, registered, process, exposed>>

(* Mutant: unlock also deletes `<path>.lock', by then perhaps of another.  *)
DeleteLockFileAndDir(t) ==
    /\ At(t, "released", "removeFile")
    /\ lockFile' = FALSE
    /\ lockDir' = NoTask
    /\ UNCHANGED <<registered, process, history>>

DeleteLockFile(t) ==
    /\ At(t, "released", "removeFile")
    /\ lockFile' = FALSE
    /\ UNCHANGED <<lockDir, registered, process, history>>

RemoveCleanupFile(t) ==
    /\ At(t, "removeFile", "removeDir")
    /\ Unregister(t, "file")
    /\ UNCHANGED <<lockDir, lockFile, process, history>>

(* The set of the cleanup process does not know which call added the path. *)
RemoveCleanupDir(t) ==
    /\ At(t, "removeDir", "done")
    /\ Unregister(t, "dir")
    /\ exposed' = exposed \union
         {u \in Tasks \ {t} : /\ ProcOf[u] = ProcOf[t]
                              /\ pc[u] \in {"write", "waiting", "held"}}
    /\ UNCHANGED <<lockDir, lockFile, process, robbed>>

-----------------------------------------------------------------------------

Finished(t) == pc[t] \in {"done", "failed"}

(* The CLI process ends: normally, once its calls are over, or killed.     *)
ProcessEnds(p) ==
    /\ process[p] = "running"
    /\ p \in Killable \/ \A t \in Tasks : ProcOf[t] = p => Finished(t)
    /\ process' = [process EXCEPT ![p] = "gone"]
    /\ UNCHANGED <<pc, lockDir, lockFile, registered, history>>

(* Mutant: the clean up deletes the file and leaves the directory.         *)
ExecuteCleanupOnlyFile(p) ==
    /\ process[p] = "gone"
    /\ process' = [process EXCEPT ![p] = "swept"]
    /\ lockFile' = (lockFile /\ "file" \notin registered[p])
    /\ UNCHANGED <<pc, lockDir, registered, history>>

(* process.on("disconnect") of the cleanup process: rm -Rf filesToDelete,  *)
(* also of paths that by then belong to a task of another process.         *)
ExecuteCleanup(p) ==
    /\ process[p] = "gone"
    /\ process' = [process EXCEPT ![p] = "swept"]
    /\ lockFile' = (lockFile /\ "file" \notin registered[p])
    /\ IF "dir" \in registered[p]
       THEN lockDir' = NoTask /\ robbed' = robbed \union Victims({})
       ELSE UNCHANGED <<lockDir, robbed>>
    /\ UNCHANGED <<pc, registered, exposed>>

TaskStep(t) ==
    \/ AddCleanupFile(t)
    \/ AddCleanupDir(t)
    \/ WriteLockFile(t)
    \/ Acquire(t)
    \/ Timeout(t)
    \/ Release(t)
    \/ DeleteLockFile(t)
    \/ RemoveCleanupFile(t)
    \/ RemoveCleanupDir(t)

Next ==
    \/ \E t \in Tasks : TaskStep(t)
    \/ \E p \in Procs : ProcessEnds(p) \/ ExecuteCleanup(p)

Spec == Init /\ [][Next]_vars

(* The event loop of a running process makes progress and the operating    *)
(* system runs the detached cleanup process.  Ending is never forced.  The *)
(* lock is retried at intervals, so Acquire can be missed by a waiter      *)
(* while others take turns; every task here takes the lock once, so weak   *)
(* fairness is enough for a waiter that never gives up.                    *)
Fairness ==
    /\ \A t \in Tasks : WF_vars(TaskStep(t))
    /\ \A p \in Procs : WF_vars(ExecuteCleanup(p))

FairSpec == Spec /\ Fairness

-----------------------------------------------------------------------------
(* Properties *)

Holding(t) == Running(t) /\ pc[t] = "held"

(* "Describes methods that can be used to use file locking": two running   *)
(* processes, or two calls of one, are never both inside their actions,    *)
(* whoever is killed or gives up waiting, but for calls whose directory    *)
(* somebody else has removed: the cleanup process of one that never had    *)
(* it, or the late release of a call that was itself robbed.               *)
MutualExclusion ==
    \A t, u \in Tasks \ robbed : Holding(t) /\ Holding(u) => t = u

(* lib/definitions/lock-service.d.ts:30 "Waits until the `unlock` method   *)
(* is called for the specified file": lock() hands the lock over only when *)
(* every running holder has released it.                                   *)
WaitsForUnlock ==
    [][\A t \in Tasks : pc[t] = "waiting" /\ pc'[t] = "held" =>
           \A u \in Tasks \ {t} : ~Holding(u)]_vars

(* getPathsForCleanupAction, "Ensure we will take care of it as well": the *)
(* cleanup process of a task that holds the lock knows the directory, so a *)
(* kill cannot leave the lock behind.  A task is without that cover only   *)
(* when another call of its process ended while it waited or held.         *)
HolderIsCovered ==
    \A t \in Tasks : Holding(t) /\ lockDir = t =>
        "dir" \in registered[ProcOf[t]] \/ t \in exposed

(* The lock of a process that dies does not outlive its cleanup process.   *)
LockIsRecovered ==
    \A t \in Tasks :
        (lockDir = t /\ process[ProcOf[t]] = "gone" /\ t \notin exposed)
            ~> (lockDir # t)

(* The wait of lock() ends: a task that does not run out of retries gets   *)
(* the lock, whatever happens to the processes that held it before.        *)
EveryWaiterIsServed ==
    \A t \in Tasks \ Impatient : pc[t] = "waiting" ~> (pc[t] = "held" \/ ~Running(t))

(* The lock as its callers see it: `<path>.lock' is taken when it is free  *)
(* or its creator is dead, and given back by the call that took it when it *)
(* leaves or, for the dead, by anybody (executeActionWithLock).  No step   *)
(* of the mutex: the removal of the directory of a running call by         *)
(* somebody else, and the release of a call that was robbed so.            *)
AliveTasks == {t \in Tasks : Running(t)}
Inside == {t \in Tasks : pc[t] = "held"}

Lock == INSTANCE Mutex WITH
    Users <- Tasks, Free <- NoTask, holder <- lockDir, inside <- Inside,
    alive <- AliveTasks

Robbery == robbed' # robbed \/ \E t \in robbed : t \in Inside /\ t \notin Inside'

IsMutex == Lock!Init /\ [][Lock!Next \/ Robbery]_<<lockDir, Inside, AliveTasks>>

=============================================================================
