SPECIFICATION SecrecySpec
CONSTANTS
    None = None
    MaxAmount = 3
    Budget = 1
    Cost <- MCCost
    Limit = 2
    Verifiable <- MCVerifiable
    Bounty = 100
    FloorPct = 30
    ClockFloor = 2
    Grace = 0
    LowTime = 2
    CriticalTime = 1
    Modes = {"FRIEND_LIVE"}
    Hands <- MCHands
    Horizon = 2
    MaxEvents = 5
CHECK_DEADLOCK FALSE
INVARIANTS
    ViewsAlike
    
