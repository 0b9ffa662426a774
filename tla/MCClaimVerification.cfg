SPECIFICATION Spec
CONSTANTS
    Cases <- MCCases
    Searches = 2
    TopK = 1
    ScanLimit = 2
    OpenLimit = 3
    Window = 1
    MaxErrors = 1
INVARIANTS
    AbsenceIsSound
    ProbeDecides
    VerifiedIsStated
    DateVariantsDisjoint
    AuthoritiesAgree
    RehearsalConfirms
    FeedbackHolds
CHECK_DEADLOCK FALSE
