\* Three processes, none killed; the call of one may run out of retries.
CONSTANTS
    t1 = t1
    t2 = t2
    t3 = t3
    p1 = p1
    p2 = p2
    p3 = p3
    Tasks = {t1, t2, t3}
    Procs = {p1, p2, p3}
    ProcOf <- OneEach
    NoTask = NoTask
    Impatient = {t3}
    Killable = {}
SPECIFICATION FairSpec
PROPERTY WaitsForUnlock
CHECK_DEADLOCK FALSE
