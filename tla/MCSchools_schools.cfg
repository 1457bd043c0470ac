SPECIFICATION FairSpec
CONSTANTS
    None = None
    MaxSchools = 2
    MaxRequests = 2
    Servers = {p1, p2}
    MaxCrashes = 1
    MaxFaults = 1
INVARIANTS CreatedIsWhole
PROPERTIES FinishedByBoot
CHECK_DEADLOCK FALSE
