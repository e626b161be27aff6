----------------------------- MODULE MatchView -----------------------------
(***************************************************************************)
(* What each player is shown of a match (packages/domain/src/projection.ts *)
(* viewMatchFor): a pure function of the state, the viewer and the server  *)
(* time.  Names and versions fixed at creation are left out.               *)
(***************************************************************************)
EXTENDS MatchDomain

CONSTANTS
    LowTime,      \* config.timeWarningLowMs
    CriticalTime  \* config.timeWarningCriticalMs

ASSUME WarningsAssumption ==
    /\ LowTime \in Nat \ {0}
    /\ CriticalTime \in 1 .. LowTime

\* Bug: the running part of the turn is left out.
TimeRemaining_Stored(m, p, t) ==
    IF Terminal(m) \/ Limit = None THEN None
    ELSE IF m.cumulative[p] >= Limit THEN 0
    ELSE Limit - m.cumulative[p]

\* decisionTimeRemainingMs.
TimeRemaining(m, p, t) ==
    IF Terminal(m) \/ Limit = None THEN None
    ELSE IF ElapsedActive(m, p, t) >= Limit THEN 0
    ELSE Limit - ElapsedActive(m, p, t)

TimeTier(m, p, t) ==
    LET remaining == TimeRemaining(m, p, t) IN
    IF remaining = None THEN None
    ELSE IF remaining <= CriticalTime THEN "CRITICAL"
    ELSE IF remaining <= LowTime THEN "LOW_TIME"
    ELSE "NORMAL"

\* Bug: the reservation values are shown while the match is paused.
ShowsReservation_Paused(m, viewer, p) == p = viewer \/ Terminal(m) \/ m.status = "PAUSED"

\* GR-002: one's own always, the opponent's after the end.
ShowsReservation(m, viewer, p) == p = viewer \/ Terminal(m)

ParticipantView(m, viewer, p, t) ==
    [disconnected |-> m.disconnected[p],
     opening |-> m.opening[p], latest |-> m.latest[p], standing |-> m.standing[p],
     chipsSpent |-> m.chipsSpent[p], remainingChips |-> Budget - m.chipsSpent[p],
     cumulative |-> m.cumulative[p],
     multiplier |-> ClockMultiplier(ElapsedActive(m, p, t)),
     remaining |-> TimeRemaining(m, p, t), tier |-> TimeTier(m, p, t),
     revealed |-> m.revealed[p],
     reservation |-> IF ShowsReservation(m, viewer, p) THEN m.rv[p] ELSE None]

ViewMatchFor(m, viewer, t) ==
    [status |-> m.status, active |-> m.active, turnStartedAt |-> m.turnStartedAt,
     startedAt |-> m.startedAt, completedAt |-> m.completedAt,
     settlement |-> m.settlement, reason |-> m.reason, economy |-> m.economy,
     myTurn |-> OwnsTurn(m, viewer), myReservation |-> m.rv[viewer],
     participants |-> [p \in Player |-> ParticipantView(m, viewer, p, t)]]

=============================================================================
