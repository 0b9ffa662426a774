SPECIFICATION Spec
CONSTANTS
    Runs = {r1, r2}
    Processes = {server}
    Hour = 0
    Day = 1
    HourLimit = 4
    DayLimit = 5
    PerRun = 2
    MaxCall = 2
    MaxTime = 2
    Lag = 1
    MaxFaults = 1
    MaxStarts = 1
    Unreserved = Unreserved
SYMMETRY RunSymmetry
INVARIANTS
    CommittedWithinBudget
    SpendingWithinBudget
    NothingHeldAtRest
CHECK_DEADLOCK FALSE
