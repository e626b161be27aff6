SPECIFICATION Spec
CONSTANTS
    None = None
    MaxAmount = 4
    Budget = 11
    Cost <- MCCost
    Limit = 2
    Verifiable <- MCVerifiable
    Bounty = 100
    FloorPct = 30
    ClockFloor = 2
    Grace = 0
    ReservationPairs <- MCReservationPairs
    Modes = {"RANKED_LIVE", "FRIEND_LIVE"}
    MaxTime = 3
    MaxSeq = 7
    LowTime = 2
    CriticalTime = 1
CHECK_DEADLOCK FALSE
INVARIANTS
    OneClock
    ClockAccounting
    TimeoutAttribution
    ChipsWithinBudget
    RewardsWithinBounty
    EconomyIsFinal
    ViewPredictsServer
PROPERTIES
    DealInsideBothReservations
    NothingCommitsPastLimit
    TurnPassesByMoveOnly
    AbsenceStopsClock
    ImplementsBargain
