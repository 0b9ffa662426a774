SPECIFICATION Spec
CONSTANTS
    Cases <- Misread
    Searches = 1
    TopK = 1
    ScanLimit = 1
    OpenLimit = 1
    Window = 1
    MaxErrors = 0
INVARIANT VerifiedAsDocumented
CHECK_DEADLOCK FALSE
