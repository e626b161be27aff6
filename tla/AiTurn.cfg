SPECIFICATION Spec
CONSTANTS
    None = None
    MaxAmount = 2
    Budget = 1
    Cost <- MCCost
    Limit = 1
    Verifiable <- MCVerifiable
    Bounty = 100
    FloorPct = 30
    ClockFloor = 2
    Grace = 0
    Bot = "BUYER"
    Created <- MCCreated
    MaxTime = 1
    MaxRequests = 2
    MaxMishaps = 1
    Task = {1, 2}
    MaxTimers = 2
CHECK_DEADLOCK FALSE
PROPERTIES
    LeavesOnlyByDecision
    BotTurnEnds
