-------------------------- MODULE LockServiceProofs --------------------------
(***************************************************************************)
(* What the file lock keeps, for any number of processes and of calls in   *)
(* each, whoever is killed or gives up waiting: mutual exclusion of the    *)
(* calls whose directory nobody else removed, the refinement of the mutex  *)
(* by every step but such a removal, and the cover of the holder.          *)
(***************************************************************************)
EXTENDS LockService, TLAPS

(* The tasks that have been given the lock.                                *)
After == {"held", "released", "removeFile", "removeDir", "done"}

(* The directory is there for a task inside its action.                    *)
DirIsHeld == \A t \in Tasks : lockDir = t => pc[t] = "held" /\ t \notin robbed

(* A task inside its action has its directory, if nobody took it away.     *)
HolderHasDir == \A t \in Tasks \ robbed : Holding(t) => lockDir = t

RobbedHeld == \A t \in robbed : pc[t] \in After

IInv ==
    /\ TypeOK
    /\ DirIsHeld
    /\ HolderHasDir
    /\ RobbedHeld

(* The variables keep their types.                                         *)
THEOREM TypeCorrect == Spec => []TypeOK
<1> USE TasksAssumption DEF TypeOK, PC, Paths, history
<1>1. Init => TypeOK
  BY DEF Init
<1>2. TypeOK /\ [Next]_vars => TypeOK'
  <2> SUFFICES ASSUME TypeOK, [Next]_vars PROVE TypeOK'
    OBVIOUS
  <2>1. ASSUME NEW t \in Tasks, AddCleanupFile(t) PROVE TypeOK'
    BY <2>1 DEF AddCleanupFile, At, Register
  <2>2. ASSUME NEW t \in Tasks, AddCleanupDir(t) PROVE TypeOK'
    BY <2>2 DEF AddCleanupDir, At, Register
  <2>3. ASSUME NEW t \in Tasks, WriteLockFile(t) PROVE TypeOK'
    BY <2>3 DEF WriteLockFile, At
  <2>4. ASSUME NEW t \in Tasks, Acquire(t) PROVE TypeOK'
    BY <2>4 DEF Acquire, At
  <2>5. ASSUME NEW t \in Tasks, Timeout(t) PROVE TypeOK'
    BY <2>5 DEF Timeout, At
  <2>6. ASSUME NEW t \in Tasks, Release(t) PROVE TypeOK'
    BY <2>6 DEF Release, At, Victims
  <2>7. ASSUME NEW t \in Tasks, DeleteLockFile(t) PROVE TypeOK'
    BY <2>7 DEF DeleteLockFile, At
  <2>8. ASSUME NEW t \in Tasks, RemoveCleanupFile(t) PROVE TypeOK'
    BY <2>8 DEF RemoveCleanupFile, At, Unregister
  <2>9. ASSUME NEW t \in Tasks, RemoveCleanupDir(t) PROVE TypeOK'
    BY <2>9 DEF RemoveCleanupDir, At, Unregister
  <2>10. ASSUME NEW p \in Procs, ProcessEnds(p) PROVE TypeOK'
    BY <2>10 DEF ProcessEnds
  <2>11. ASSUME NEW p \in Procs, ExecuteCleanup(p) PROVE TypeOK'
    BY <2>11 DEF ExecuteCleanup, Victims
  <2>12. CASE UNCHANGED vars
    BY <2>12 DEF vars
  <2>13. QED
    BY <2>1, <2>2, <2>3, <2>4, <2>5, <2>6, <2>7, <2>8, <2>9, <2>10, <2>11, <2>12
    DEF Next, TaskStep
<1>3. QED
  BY <1>1, <1>2, PTL DEF Spec

LEMMA IInvInit == Init => IInv
  BY TasksAssumption
  DEF Init, IInv, TypeOK, PC, Paths, DirIsHeld, HolderHasDir, RobbedHeld, Holding

LEMMA IInvStep == ASSUME IInv, TypeOK', [Next]_vars PROVE IInv'
<1> USE TasksAssumption
    DEF IInv, TypeOK, DirIsHeld, HolderHasDir, RobbedHeld, After, Holding,
        Running, history
<1>1. ASSUME NEW t \in Tasks, AddCleanupFile(t) PROVE IInv'
  BY <1>1 DEF AddCleanupFile, At
<1>2. ASSUME NEW t \in Tasks, AddCleanupDir(t) PROVE IInv'
  BY <1>2 DEF AddCleanupDir, At
<1>3. ASSUME NEW t \in Tasks, WriteLockFile(t) PROVE IInv'
  BY <1>3 DEF WriteLockFile, At
<1>4. ASSUME NEW t \in Tasks, Acquire(t) PROVE IInv'
  <2>1. t \notin robbed
    BY <1>4 DEF Acquire, At
  <2>2. \A u \in Tasks \ robbed : Holding(u) => FALSE
    BY <1>4 DEF Acquire, Stale
  <2>3. DirIsHeld' /\ RobbedHeld'
    BY <1>4, <2>1 DEF Acquire, At
  <2>4. HolderHasDir'
    BY <1>4, <2>1, <2>2 DEF Acquire, At
  <2>5. QED
    BY <2>3, <2>4
<1>5. ASSUME NEW t \in Tasks, Timeout(t) PROVE IInv'
  BY <1>5 DEF Timeout, At
<1>6. ASSUME NEW t \in Tasks, Release(t) PROVE IInv'
  <2>1. RobbedHeld'
    BY <1>6 DEF Release, At, Victims
  <2>2. DirIsHeld' /\ HolderHasDir'
    BY <1>6 DEF Release, At, Victims
  <2>3. QED
    BY <2>1, <2>2
<1>7. ASSUME NEW t \in Tasks, DeleteLockFile(t) PROVE IInv'
  BY <1>7 DEF DeleteLockFile, At
<1>8. ASSUME NEW t \in Tasks, RemoveCleanupFile(t) PROVE IInv'
  BY <1>8 DEF RemoveCleanupFile, At
<1>9. ASSUME NEW t \in Tasks, RemoveCleanupDir(t) PROVE IInv'
  BY <1>9 DEF RemoveCleanupDir, At
<1>10. ASSUME NEW p \in Procs, ProcessEnds(p) PROVE IInv'
  BY <1>10 DEF ProcessEnds
<1>11. ASSUME NEW p \in Procs, ExecuteCleanup(p) PROVE IInv'
  <2>1. RobbedHeld'
    BY <1>11 DEF ExecuteCleanup, Victims
  <2>2. DirIsHeld' /\ HolderHasDir'
    BY <1>11 DEF ExecuteCleanup, Victims
  <2>3. QED
    BY <2>1, <2>2
<1>12. CASE UNCHANGED vars
  BY <1>12 DEF vars
<1>13. QED
  BY <1>1, <1>2, <1>3, <1>4, <1>5, <1>6, <1>7, <1>8, <1>9, <1>10, <1>11, <1>12
  DEF Next, TaskStep

LEMMA IInvHolds == Spec => []IInv
<1>1. TypeOK' /\ IInv /\ [Next]_vars => IInv'
  BY IInvStep
<1>2. QED
  BY <1>1, IInvInit, TypeCorrect, PTL DEF Spec

(* No two calls are inside their actions together, whoever is killed or    *)
(* times out, unless the directory of one of them was taken away.          *)
THEOREM LockIsMutual == Spec => []MutualExclusion
<1>1. IInv => MutualExclusion
  BY DEF IInv, HolderHasDir, MutualExclusion
<1>2. QED
  BY <1>1, IInvHolds, PTL

(* The lock of the file system implements the mutex its callers rely on:   *)
(* every step takes a free or a dead lock, gives back one's own on leaving *)
(* or a dead one, or leaves the lock alone, except when the directory of a *)
(* running call is taken away and when a call robbed so leaves.            *)
THEOREM LockIsMutex == Spec => IsMutex
<1> DEFINE Unmoved == UNCHANGED <<lockDir, Inside, AliveTasks>>
<1>1. Init => Lock!Init
  BY TasksAssumption DEF Init, Lock!Init, Running, Inside, AliveTasks
<1>2. ASSUME IInv, IInv', [Next]_vars
      PROVE  Lock!Next \/ Robbery \/ Unmoved
  <2> USE TasksAssumption, <1>2 DEF IInv, TypeOK, Running, Inside, AliveTasks
  <2>1. ASSUME NEW t \in Tasks, Acquire(t) PROVE Lock!Enter(t)
    BY <2>1 DEF Acquire, At, Stale, Lock!Enter
  <2>2. ASSUME NEW t \in Tasks, Release(t), ~Robbery PROVE Lock!Leave(t)
    <3>1. t \notin robbed
      BY <2>2 DEF Release, At, Robbery
    <3>2. lockDir = t
      BY <2>2, <3>1 DEF Release, At, HolderHasDir, Holding
    <3>3. QED
      BY <2>2, <3>2 DEF Release, At, Lock!Leave
  <2>3. ASSUME NEW p \in Procs, ExecuteCleanup(p), robbed' = robbed
        PROVE  Lock!Next
    <3>1. AliveTasks' = AliveTasks /\ Inside' = Inside
      BY <2>3 DEF ExecuteCleanup
    <3>2. CASE "dir" \in registered[p]
      <4>1. lockDir \notin AliveTasks
        BY <2>3, <3>2 DEF ExecuteCleanup, Victims, DirIsHeld
      <4>2. Lock!Recover
        BY <2>3, <3>1, <3>2, <4>1 DEF ExecuteCleanup, Lock!Recover
      <4>3. QED
        BY <4>2 DEF Lock!Next
    <3>3. CASE "dir" \notin registered[p]
      BY <2>3, <3>1, <3>3 DEF ExecuteCleanup, Lock!Next, Lock!Die
    <3>4. QED
      BY <3>2, <3>3
  <2>4. ASSUME NEW p \in Procs, ProcessEnds(p) PROVE Lock!Die
    BY <2>4 DEF ProcessEnds, Lock!Die
  <2>5. ASSUME NEW t \in Tasks,
               \/ AddCleanupFile(t) \/ AddCleanupDir(t) \/ WriteLockFile(t)
               \/ Timeout(t) \/ DeleteLockFile(t) \/ RemoveCleanupFile(t)
               \/ RemoveCleanupDir(t)
        PROVE  Unmoved
    BY <2>5
    DEF AddCleanupFile, AddCleanupDir, WriteLockFile, Timeout, DeleteLockFile,
        RemoveCleanupFile, RemoveCleanupDir, At
  <2>6. CASE UNCHANGED vars
    BY <2>6 DEF vars
  <2>7. QED
    BY <2>1, <2>2, <2>3, <2>4, <2>5, <2>6 DEF Next, TaskStep, Lock!Next, Robbery
<1>3. QED
  BY <1>1, <1>2, IInvHolds, PTL DEF Spec, IsMutex

-----------------------------------------------------------------------------
(* The registration of the directory with the cleanup process.             *)

(* The tasks whose registration of the directory is still to be withdrawn. *)
Covered == {"write", "waiting", "held"}

CoveredInv ==
    \A t \in Tasks : pc[t] \in Covered =>
        "dir" \in registered[ProcOf[t]] \/ t \in exposed

(* The cleanup process of a task that holds the lock knows the directory,  *)
(* whoever is killed or gives up waiting, with any number of calls in a    *)
(* process, unless another call of its process withdrew the registration.  *)
THEOREM HolderStaysCovered == Spec => []HolderIsCovered
<1> USE TasksAssumption DEF TypeOK, CoveredInv, Covered, history
<1>1. Init => CoveredInv
  BY DEF Init
<1>2. TypeOK /\ CoveredInv /\ [Next]_vars => CoveredInv'
  <2> SUFFICES ASSUME TypeOK, CoveredInv, [Next]_vars PROVE CoveredInv'
    OBVIOUS
  <2>1. ASSUME NEW t \in Tasks, AddCleanupFile(t) PROVE CoveredInv'
    BY <2>1 DEF AddCleanupFile, At, Register
  <2>2. ASSUME NEW t \in Tasks, AddCleanupDir(t) PROVE CoveredInv'
    BY <2>2 DEF AddCleanupDir, At, Register
  <2>3. ASSUME NEW t \in Tasks,
               \/ WriteLockFile(t) \/ Acquire(t) \/ Timeout(t) \/ Release(t)
               \/ DeleteLockFile(t)
        PROVE  CoveredInv'
    BY <2>3 DEF WriteLockFile, Acquire, Timeout, Release, DeleteLockFile, At
  <2>4. ASSUME NEW t \in Tasks, RemoveCleanupFile(t) PROVE CoveredInv'
    BY <2>4 DEF RemoveCleanupFile, At, Unregister
  <2>5. ASSUME NEW t \in Tasks, RemoveCleanupDir(t) PROVE CoveredInv'
    <3>1. ASSUME NEW u \in Tasks, pc'[u] \in Covered
          PROVE  "dir" \in registered'[ProcOf[u]] \/ u \in exposed'
      BY <2>5, <3>1 DEF RemoveCleanupDir, At, Unregister
    <3>2. QED
      BY <3>1
  <2>6. ASSUME NEW p \in Procs, ProcessEnds(p) \/ ExecuteCleanup(p)
        PROVE  CoveredInv'
    BY <2>6 DEF ProcessEnds, ExecuteCleanup
  <2>7. CASE UNCHANGED vars
    BY <2>7 DEF vars
  <2>8. QED
    BY <2>1, <2>2, <2>3, <2>4, <2>5, <2>6, <2>7 DEF Next, TaskStep
<1>3. CoveredInv => HolderIsCovered
  BY DEF HolderIsCovered, Holding
<1>4. QED
  BY <1>1, <1>2, <1>3, TypeCorrect, PTL DEF Spec

=============================================================================
