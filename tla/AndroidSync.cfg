\* Two changes, by hot update or by files, and one fault.
CONSTANTS
    Sockets = {1, 2}
    NoSocket = 0
    Files = {f1, f2}
    MaxChanges = 2
    MaxFaults = 1
    UseHmr = TRUE
SPECIFICATION Spec
INVARIANTS TypeOK SyncDelivers RejectedMeansNoConnection OnlyLateEventsThrow MarkerIsCleared
CHECK_DEADLOCK FALSE
