\* One change and one fault; an application that may never answer.
CONSTANTS
    Sockets = {1, 2}
    NoSocket = 0
    Files = {f1, f2}
    MaxChanges = 1
    MaxFaults = 1
    UseHmr = TRUE
SPECIFICATION FairSpec
PROPERTIES EverySyncReturns ChangesAreSynced
CHECK_DEADLOCK FALSE
