\* Two processes may be killed at any moment, one of which makes two calls; the
\* call of another may run out of retries.
CONSTANTS
    t1 = t1
    t2 = t2
    t3 = t3
    p1 = p1
    p2 = p2
    p3 = p3
    Tasks = {t1, t2, t3}
    Procs = {p1, p2}
    ProcOf <- TwoInOne
    NoTask = NoTask
    Impatient = {t3}
    Killable = {p1, p2}
SPECIFICATION FairSpec
INVARIANTS MutualExclusion HolderIsCovered
PROPERTIES IsMutex LockIsRecovered EveryWaiterIsServed
CHECK_DEADLOCK FALSE
