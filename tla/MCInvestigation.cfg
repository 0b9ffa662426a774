SPECIFICATION Spec
CONSTANTS
    Library <- MCLibrary
    Undated = Undated
    FusionWidth = 2
    LexicalScan = 2
    Searches <- MCSearches
    Reads <- MCReads
    Inspections <- MCInspections
    TurnLimits = {3, 4}
    MaxToolCalls = 3
    MaxSearches = 2
    MaxTopK = 3
    MaxOpenedChunks = 3
    MaxOpenedTokens = 7
    MaxInspections = 2
    MaxInspectionPages = 2
    MaxInspectionCharacters = 8
INVARIANTS
    ReadIsAccounted
    ModelCallsRecordedOnce
    DraftIsEarned
    ResultsRespectRankings
PROPERTIES
    InvestigationEnds
    InvestigationAdvances
CHECK_DEADLOCK FALSE
