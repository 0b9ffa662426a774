SPECIFICATION FairSpec
CONSTANTS
    MaxWork = 1
    MaxCancels = 2
    MaxFaults = 1
    MaxCrashes = 2
    MaxSequence = 11
INVARIANTS
    TypeOK
    RowsInKeyOrder
    IntactUnlessAborted
    RowAgreesWithReceipt
    EndsTerminal
    ReceiptlessOnlyIfUnsealable
PROPERTIES
    SealedOnce
    ImplementsOutcome
    ImplementsLedger
    EventuallyFinal
CHECK_DEADLOCK FALSE
