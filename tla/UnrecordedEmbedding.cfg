SPECIFICATION Spec
CONSTANTS
    Library <- MCLibrary
    Undated = Undated
    FusionWidth = 2
    LexicalScan = 2
    Searches <- MCSearches
    Reads <- MCReads
    Inspections <- MCInspections
    TurnLimits = {2}
    MaxToolCalls = 3
    MaxSearches = 2
    MaxTopK = 3
    MaxOpenedChunks = 3
    MaxOpenedTokens = 7
    MaxInspections = 2
    MaxInspectionPages = 2
    MaxInspectionCharacters = 8
INVARIANT CallsAreRecorded
CHECK_DEADLOCK FALSE
