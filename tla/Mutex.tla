-------------------------------- MODULE Mutex --------------------------------
(***************************************************************************)
(* What executeActionWithLock (lib/common/services/lock-service.ts)        *)
(* promises: one user at a time, who enters a free lock and gives it back  *)
(* when it leaves.  A user may die, also inside: then the lock may be      *)
(* given back for it, or be taken over.                                    *)
(***************************************************************************)
CONSTANTS
    Users,      \* those who take the lock, each any number of times
    Free        \* nobody, not a user

VARIABLES
    holder,     \* the user who has the lock, or Free
    inside,     \* the users who have entered and not left
    alive       \* the users that have not died

Init == holder = Free /\ inside = {} /\ alive = Users

Enter(u) ==
    /\ u \in alive /\ holder \notin alive
    /\ holder' = u
    /\ inside' = inside \union {u}
    /\ UNCHANGED alive

Leave(u) ==
    /\ u \in alive /\ holder = u
    /\ holder' = Free
    /\ inside' = inside \ {u}
    /\ UNCHANGED alive

Recover == holder \notin alive /\ holder' = Free /\ UNCHANGED <<inside, alive>>

Die == alive' \subseteq alive /\ UNCHANGED <<holder, inside>>

Next == Die \/ Recover \/ \E u \in Users : Enter(u) \/ Leave(u)

=============================================================================
