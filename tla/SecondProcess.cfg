SPECIFICATION Spec
CONSTANTS
    Runs = {r1, r2}
    Processes = {old, new}
    Hour = 0
    Day = 1
    HourLimit = 4
    DayLimit = 5
    PerRun = 2
    MaxCall = 2
    MaxTime = 2
    Lag = 1
    MaxFaults = 0
    MaxStarts = 1
    Unreserved = Unreserved
INVARIANTS
    ActiveReservationIsCounted
CHECK_DEADLOCK FALSE
