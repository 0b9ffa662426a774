SPECIFICATION Spec
CONSTANTS
    MaxWork = 0
    MaxCancels = 2
    MaxFaults = 0
    MaxCrashes = 0
    MaxSequence = 9
INVARIANTS
    ConvergesTerminal
CHECK_DEADLOCK FALSE
