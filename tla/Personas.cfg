SPECIFICATION GameSpec
CONSTANTS
    None = None
    MaxAmount = 16
    Budget = 10
    Cost <- MCCost
    Limit = 2
    MaxTime = 3
    Verifiable <- MCVerifiable
    Bounty = 100
    FloorPct = 30
    ClockFloor = 2
    Grace = 0
    Movement <- MCMovement
    Pairs <- MCPairs
CHECK_DEADLOCK FALSE
INVARIANTS
    IntentsAreLegal
    RetreatsOnlyWhenStuck
