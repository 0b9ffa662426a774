SPECIFICATION FairSpec
CONSTANTS
    alice = alice
    bob = bob
    home = home
    Runs = {1, 2, 3}
    Sessions = {alice, bob}
    Addresses = {home}
    Requests <- MCRequests
    MaxConcurrent = 2
    PerSession = 1
    PerAddress = 2
    Hour = 1
    Nobody = Nobody
    MaxTime = 2
    MaxMishaps = 1
INVARIANTS
    TypeOK
    NoTaskWaits
    OneLiveRunPerSession
    WindowsAreExact
    HourlyLimit
    ReservationsAreOwned
    CorpusClosedAfterUse
PROPERTIES
    SlotsComeBack
CHECK_DEADLOCK FALSE
