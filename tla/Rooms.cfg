SPECIFICATION Spec
CONSTANTS
    None = None
    MaxAmount = 1
    Budget = 0
    Cost <- MCCost
    Limit = None
    Verifiable <- MCVerifiable
    Bounty = 100
    FloorPct = 30
    ClockFloor = 2
    Grace = 0
    Call = {"h1", "h2"}
    Watcher = {"BUYER"}
    Created <- MCCreated
    MaxSeq = 5
    MaxRestarts = 1
INVARIANT HeartbeatFollowsMatch
PROPERTY ScreensCatchUp
CHECK_DEADLOCK FALSE
