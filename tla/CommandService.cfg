SPECIFICATION Spec
CONSTANTS
    None = None
    MaxAmount = 2
    Budget = 1
    Cost <- MCCost
    Limit = 2
    Verifiable <- MCVerifiable
    Bounty = 100
    FloorPct = 30
    ClockFloor = 2
    Grace = 0
    ReservationPairs <- MCReservationPairs
    Kinds = {"READY", "OFFER", "ACCEPT", "WALK_AWAY", "REVEAL", "MESSAGE", "DISCONNECT", "RECONNECT", "ABORT", "TIMEOUT"}
    MaxDelay = 1
    MaxTime = 2
    MaxEvents = 6
CHECK_DEADLOCK FALSE
INVARIANTS
    ReplayReproducesSnapshot
    ExactlyOnce
    RowsMirrorSnapshot
PROPERTIES
    ChargesOnlyGrow
    TimedOutPlayerKept
