SPECIFICATION PlaySpec
CONSTANTS
    None = None
    MaxAmount = 3
    Budget = 20
    Cost <- MCCost
    Limit = 2
    Verifiable <- MCVerifiable
    Bounty = 100
    FloorPct = 30
    ClockFloor = 2
    Grace = 0
    Reservations <- MCReservations
    LowWarning = 1
    LongHold = 1
    FastResistance = 0
    FastCloseTime = 0
    PitchWindow = 1
    MaxGap = 1
    MaxStream = 9
    LastTime = 3
    MaxAsides = 1
    Personas = {"wall", "anchor"}
    Histories <- MCHistories
    MatchId = 3
CHECK_DEADLOCK FALSE
INVARIANTS
    DecisionTimesAddUp
    UnreciprocatedMeansHeld
    LargestConcessionNamed
    ProgressOnlyAdds
PROPERTIES
    ForegoneWasAcceptable
