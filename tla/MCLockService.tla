---------------------------- MODULE MCLockService ----------------------------
(* Instances of LockService: one call in each process, or two calls in one *)
(* process beside two other processes.                                     *)
EXTENDS LockService, TLC

CONSTANTS t1, t2, t3, p1, p2, p3

OneEach == (t1 :> p1) @@ (t2 :> p2) @@ (t3 :> p3)
TwoInOne == (t1 :> p1) @@ (t2 :> p1) @@ (t3 :> p2)

=============================================================================
