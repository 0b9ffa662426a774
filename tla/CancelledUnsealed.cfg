SPECIFICATION Spec
CONSTANTS
    MaxWork = 0
    MaxCancels = 1
    MaxFaults = 0
    MaxCrashes = 0
    MaxSequence = 9
INVARIANTS
    UnauthoritativeRunIsSealed
CHECK_DEADLOCK FALSE
