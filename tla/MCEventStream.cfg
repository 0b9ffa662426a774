SPECIFICATION FairStreamSpec
CONSTANTS
    MaxWork = 0
    MaxCancels = 1
    MaxFaults = 2
    MaxCrashes = 1
    MaxSequence = 9
INVARIANTS
    DeliveredEndIsFinal
    DeliveredInOrder
PROPERTIES
    ClientLearnsTheEnd
CHECK_DEADLOCK FALSE
