\* Two processes share one settings file, one of them may be killed.
CONSTANTS
    p1 = p1
    p2 = p2
    k1 = k1
    k2 = k2
    Calls = {1, 2, 3, 4}
    Procs = {p1, p2}
    Instances = {1, 2, 3, 4}
    ProcOf <- MCProcOf
    InstanceOf <- MCInstanceOf
    Request <- MCRequest
    Keys = {k1, k2}
    Values = {1, 2}
    NoValue = NoValue
    Impatient = {2, 3}
    Killable = {p2}
    None = None
    Absent = Absent
    Broken = Broken
    Unloaded = Unloaded
SPECIFICATION FairSpec
INVARIANTS TypeOK
PROPERTIES IsStore EveryCallReturns
CHECK_DEADLOCK FALSE
