SPECIFICATION Spec
CONSTANTS
    None = None
    MaxAmount = 2
    Budget = 0
    Cost <- MCCost
    Limit = None
    Verifiable <- MCVerifiable
    Bounty = 100
    FloorPct = 30
    ClockFloor = 2
    Grace = 0
    Socket = {"b1", "b2", "b3"}
    Owner <- MCOwner
    Created <- MCCreated
    MaxSeq = 5
    MaxRestarts = 1
CHECK_DEADLOCK FALSE
INVARIANTS
    NoGhostPresence
    PresenceMirrored
PROPERTY ReturnResumes
