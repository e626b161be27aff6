SPECIFICATION Spec
CONSTANTS
    None = None
    MaxAmount = 2
    Budget = 0
    Cost <- MCCost
    Limit = 2
    Verifiable <- MCVerifiable
    Bounty = 100
    FloorPct = 30
    ClockFloor = 2
    Grace = 0
    Opponents = {None, "SELLER"}
    Created <- MCCreated
    MaxTime = 3
    MaxRequests = 2
    MaxCrashes = 1
    Skew = 1
    Task = {1, 2}
    TimerId = {1, 2}
CHECK_DEADLOCK FALSE
INVARIANTS
    TimeoutNeverFabricated
    DeadlineArmed
PROPERTY DeadlineEnforced
