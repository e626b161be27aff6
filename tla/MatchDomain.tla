---------------------------- MODULE MatchDomain ----------------------------
(***************************************************************************)
(* The pure core of a match (packages/domain/src/match.ts, clock.ts,       *)
(* economy.ts): createMatch and, for each command, its guard               *)
(* (Can<Command>), the state it produces (After<Command>) and the events   *)
(* it emits (<Command>Events).  The code's applyCommand(prev, command,     *)
(* config) is stateless, and so are these operators: `m' is a match,       *)
(* `now' the server time the caller supplies.                              *)
(*                                                                         *)
(* A player is named by its role: createMatch admits exactly one BUYER and *)
(* one SELLER.  A rejected command (the code's failure(...)) is a command  *)
(* whose guard is false.  An accepted command that changes nothing (the    *)
(* code's done(working) before any assignment) has a true guard, the state *)
(* it started from, and no events.                                         *)
(***************************************************************************)
EXTENDS Integers, Sequences

CONSTANTS
    None,        \* null
    MaxAmount,   \* config.maxAmountTenths
    Budget,      \* config.concessionBudgetChips
    Cost,        \* Cost[a][b]: concessionCostChips(concessionMagnitude(a, b))
    Limit,       \* effectiveHardDecisionLimitMs(config), None when unset
    Verifiable,  \* Verifiable[p]: the fact ids p may reveal
    Bounty,      \* config.matchBountyChips
    FloorPct,    \* config.clockFloorMultiplier, in percent
    ClockFloor,  \* config.clockFloorMs
    Grace        \* config.turnGraceMs

Player == {"BUYER", "SELLER"}
Other(p) == IF p = "BUYER" THEN "SELLER" ELSE "BUYER"

\* isValidAmountTenths: MIN_AMOUNT_TENTHS is 1.
Amount == 1 .. MaxAmount

Mode == {"RANKED_LIVE", "FRIEND_LIVE", "AI", "ASYNC"}
Status == {"CREATED", "READY", "ACTIVE", "PAUSED", "DEAL", "NO_DEAL", "ABORTED"}
Reason == {"ACCEPTED", "WALKED_AWAY", "TIMED_OUT", "ABORTED"}
Fact == Verifiable["BUYER"] \cup Verifiable["SELLER"]

\* What validateEconomyConfig and the types guarantee of a configuration, and
\* of the price of a concession: a real move costs at least one chip (GE-007).
ASSUME ConfigAssumption ==
    /\ MaxAmount \in Nat \ {0}
    /\ Budget \in Nat
    /\ Cost \in [Amount -> [Amount -> Nat]]
    /\ \A a, b \in Amount : a # b => Cost[a][b] >= 1
    /\ Limit \in (Nat \ {0}) \cup {None}
    /\ Verifiable \in [Player -> SUBSET Fact]
    /\ Bounty \in Nat \ {0}
    /\ FloorPct \in 1 .. 100
    /\ ClockFloor \in Nat \ {0}
    /\ Grace \in Nat

ASSUME NoneAssumption ==
    /\ None \notin Int
    /\ None \notin Player
    /\ None \notin Reason

\* A match as it is stored (types.ts, MatchState).
Match ==
    [mode : Mode, rv : [Player -> Amount], first : Player, status : Status,
     active : Player \cup {None}, turnStartedAt : Nat \cup {None}, seq : Nat,
     startedAt : Nat \cup {None}, completedAt : Nat \cup {None},
     settlement : Amount \cup {None}, reason : Reason \cup {None},
     economy : [ratedEligible : BOOLEAN, gross : [Player -> Int \cup {None}]] \cup {None},
     ready : [Player -> BOOLEAN], disconnected : [Player -> BOOLEAN],
     chipsSpent : [Player -> Nat], cumulative : [Player -> Nat],
     opening : [Player -> Amount \cup {None}],
     latest : [Player -> Amount \cup {None}],
     standing : [Player -> Nat \cup {None}],
     revealed : [Player -> SUBSET Fact]]

Terminal(m) == m.status \in {"DEAL", "NO_DEAL", "ABORTED"}

-----------------------------------------------------------------------------
(* Clocks                                                                  *)

\* Bug: the operands of the subtraction swapped.
SinceTurn_Swapped(m, now) ==
    IF now > m.turnStartedAt THEN m.turnStartedAt - now ELSE 0

\* Bug: a reading of the clock older than the turn is charged as negative time.
SinceTurn_Unclamped(m, now) == now - m.turnStartedAt

\* The part of the live turn not yet charged; never negative.
SinceTurn(m, now) ==
    IF now > m.turnStartedAt THEN now - m.turnStartedAt ELSE 0

ElapsedActive(m, p, now) ==
    IF m.active # p \/ m.turnStartedAt = None
    THEN m.cumulative[p]
    ELSE m.cumulative[p] + SinceTurn(m, now)

\* cumulativeActiveMs once the running clock, if any, is charged to its owner.
FrozenClock(m, now) ==
    [p \in Player |-> ElapsedActive(m, p, now)]

\* The GR-023 guard at the head of applyCommand: no OFFER, ACCEPT, WALK_AWAY or
\* REVEAL commits once the active player's decision time has reached the limit.
Exhausted(m, now) ==
    /\ m.status = "ACTIVE"
    /\ m.active # None
    /\ Limit # None
    /\ ElapsedActive(m, m.active, now) >= Limit

-----------------------------------------------------------------------------
(* Economy, over integers: a share is a numerator over the ZOPA, a         *)
(* multiplier a numerator over 100 * ClockFloor, a gross reward their      *)
(* product with the bounty.                                                *)

Zopa(m) == m.rv["BUYER"] - m.rv["SELLER"]

WithinReservation(m, p, a) ==
    IF p = "BUYER" THEN a <= m.rv[p] ELSE a >= m.rv[p]

MultiplierUnit == 100 * ClockFloor

ClockMultiplier(t) ==
    IF t <= Grace THEN MultiplierUnit
    ELSE IF t - Grace >= ClockFloor THEN FloorPct * ClockFloor
    ELSE MultiplierUnit - (100 - FloorPct) * (t - Grace)

\* Bug: the share of both roles measured from the buyer's side.
SurplusShare_OneSided(m, p, a) == m.rv[p] - a

SurplusShare(m, p, a) ==
    IF p = "BUYER" THEN m.rv[p] - a ELSE a - m.rv[p]

\* A deal between equal reservation values divides zero by zero: None is NaN.
GrossReward(m, p) ==
    IF Zopa(m) = 0 THEN None
    ELSE Bounty * SurplusShare(m, p, m.settlement) * ClockMultiplier(m.cumulative[p])

\* computeEconomy, on a match whose settlement, reason and clocks are final.
Economy(m) ==
    [ratedEligible |-> m.mode = "RANKED_LIVE" /\ m.reason # "ABORTED",
     gross |-> [p \in Player |->
                   IF m.reason = "ACCEPTED" THEN GrossReward(m, p) ELSE 0]]

-----------------------------------------------------------------------------
(* Creation                                                                *)

\* createMatch's checks on what the caller supplies (mode, reservation values).
ValidMatchInput(mode, rv) ==
    /\ \A p \in Player : rv[p] \in Amount
    /\ mode = "RANKED_LIVE" => rv["BUYER"] > rv["SELLER"]

CreatedMatch(mode, rv, first) ==
    [mode |-> mode, rv |-> rv, first |-> first,
     status |-> "CREATED", active |-> None, turnStartedAt |-> None, seq |-> 0,
     startedAt |-> None, completedAt |-> None,
     settlement |-> None, reason |-> None, economy |-> None,
     ready |-> [p \in Player |-> FALSE],
     disconnected |-> [p \in Player |-> FALSE],
     chipsSpent |-> [p \in Player |-> 0],
     cumulative |-> [p \in Player |-> 0],
     opening |-> [p \in Player |-> None],
     latest |-> [p \in Player |-> None],
     standing |-> [p \in Player |-> None],
     revealed |-> [p \in Player |-> {}]]

Event(type, actor, at, arg) ==
    [type |-> type, actor |-> actor, at |-> at, arg |-> arg]

-----------------------------------------------------------------------------
(* READY                                                                   *)

CanReady(m) == m.status \in {"CREATED", "READY"}

Starts(m, p) == m.ready[Other(p)]

Started(m, now) ==
    [m EXCEPT !.status = "ACTIVE", !.startedAt = now, !.active = m.first,
              !.turnStartedAt = now, !.seq = @ + 1]

AfterReady(m, p, now) ==
    LET readied == [m EXCEPT !.ready[p] = TRUE, !.status = "READY", !.seq = @ + 1]
    IN  IF m.ready[p] THEN m
        ELSE IF Starts(m, p) THEN Started(readied, now) ELSE readied

ReadyEvents(m, p, now) ==
    IF m.ready[p] THEN <<>>
    ELSE <<Event("PLAYER_READY", p, now, None)>>
         \o (IF Starts(m, p)
             THEN <<Event("MATCH_STARTED", None, now, m.first)>> ELSE <<>>)

-----------------------------------------------------------------------------
(* Turn-taking commands: OFFER, ACCEPT, WALK_AWAY, REVEAL                  *)

\* The running clock is charged to its owner (freezeRunningClock), and the
\* match goes on with this status, owner of the turn and turn start.
Handover(m, status, owner, started, events, now) ==
    [m EXCEPT !.cumulative = FrozenClock(m, now),
              !.status = status,
              !.active = owner,
              !.turnStartedAt = started,
              !.seq = @ + events]

\* Bug: the decision-time guard left out.
HasTurn_NoLimit(m, p, now) == m.status = "ACTIVE" /\ m.active = p

HasTurn(m, p, now) ==
    /\ m.status = "ACTIVE"
    /\ m.active = p
    /\ ~Exhausted(m, now)

\* Direction and price of a concession; an opening offer is free (GR-006).
TowardOpponent(p, previous, a) ==
    IF p = "BUYER" THEN a > previous ELSE a < previous

OfferCost(m, p, a) == IF m.latest[p] = None THEN 0 ELSE Cost[m.latest[p]][a]

\* Bug: the balance is checked before the new cost is added.
CanOffer_StaleBalance(m, p, a, now) ==
    /\ HasTurn(m, p, now)
    /\ a \in Amount
    /\ WithinReservation(m, p, a)
    /\ m.latest[p] # None =>
         TowardOpponent(p, m.latest[p], a) /\ m.chipsSpent[p] <= Budget

\* Bug: an offer is held against both reservation values.
CanOffer_BothValues(m, p, a, now) ==
    /\ HasTurn(m, p, now)
    /\ a \in Amount
    /\ \A q \in Player : WithinReservation(m, q, a)
    /\ m.latest[p] # None =>
         /\ TowardOpponent(p, m.latest[p], a)
         /\ m.chipsSpent[p] + OfferCost(m, p, a) <= Budget

CanOffer(m, p, a, now) ==
    /\ HasTurn(m, p, now)
    /\ a \in Amount
    /\ WithinReservation(m, p, a)
    /\ m.latest[p] # None =>
         /\ TowardOpponent(p, m.latest[p], a)
         /\ m.chipsSpent[p] + OfferCost(m, p, a) <= Budget

Conceded(m, p, oid, a) ==
    [m EXCEPT !.chipsSpent[p] = @ + OfferCost(m, p, a),
              !.latest[p] = a,
              !.opening[p] = IF @ = None THEN a ELSE @,
              !.standing[p] = oid]

\* Bug: the match is paused but the absent opponent's clock is left running.
AfterOffer_ClockRuns(m, p, oid, a, now) ==
    LET away == m.disconnected[Other(p)] IN
    Handover(Conceded(m, p, oid, a), IF away THEN "PAUSED" ELSE "ACTIVE",
             Other(p), now, IF away THEN 2 ELSE 1, now)

\* Bug: the turn passes without a look at whether the opponent is there.
AfterOffer_IgnoresAbsence(m, p, oid, a, now) ==
    Handover(Conceded(m, p, oid, a), "ACTIVE", Other(p), now, 1, now)

\* The turn passes to the opponent; an opponent who is away freezes the match.
AfterOffer(m, p, oid, a, now) ==
    LET away == m.disconnected[Other(p)] IN
    Handover(Conceded(m, p, oid, a), IF away THEN "PAUSED" ELSE "ACTIVE",
             Other(p), IF away THEN None ELSE now, IF away THEN 2 ELSE 1, now)

OfferEvents(m, p, oid, a, now) ==
    <<Event("OFFER_SUBMITTED", p, now, [id |-> oid, amount |-> a])>>
    \o (IF m.disconnected[Other(p)]
        THEN <<Event("MATCH_PAUSED", None, now, Other(p))>> ELSE <<>>)

\* Bug: the economy is computed before the running clock is charged.
Ended_EconomyFirst(m, status, reason, settlement, events, now) ==
    LET over == [m EXCEPT !.reason = reason, !.settlement = settlement,
                          !.completedAt = now]
    IN  [Handover(over, status, None, None, events, now)
            EXCEPT !.economy = Economy(over)]

\* The fields every ending sets; the clock is charged before it is read.
Ended(m, status, reason, settlement, events, now) ==
    LET over == Handover([m EXCEPT !.reason = reason, !.settlement = settlement,
                                   !.completedAt = now],
                         status, None, None, events, now)
    IN  [over EXCEPT !.economy = Economy(over)]

\* Bug: the accepting player's own reservation value is not checked.
CanAccept_AnyPrice(m, p, oid, now) ==
    /\ HasTurn(m, p, now)
    /\ m.standing[Other(p)] # None
    /\ m.standing[Other(p)] = oid

CanAccept(m, p, oid, now) ==
    /\ HasTurn(m, p, now)
    /\ m.standing[Other(p)] # None
    /\ m.standing[Other(p)] = oid
    /\ m.latest[Other(p)] # None
    /\ WithinReservation(m, p, m.latest[Other(p)])

\* Bug: the deal settles at the accepting player's own offer, if there is one.
AfterAccept_OwnOffer(m, p, now) ==
    Ended(m, "DEAL", "ACCEPTED",
          IF m.latest[p] = None THEN m.latest[Other(p)] ELSE m.latest[p], 2, now)

AfterAccept(m, p, now) ==
    Ended(m, "DEAL", "ACCEPTED", m.latest[Other(p)], 2, now)

AcceptEvents(m, p, oid, now) ==
    <<Event("OFFER_ACCEPTED", p, now, [id |-> oid, amount |-> m.latest[Other(p)]]),
      Event("MATCH_COMPLETED", None, now, "ACCEPTED")>>

CanWalkAway(m, p, now) == HasTurn(m, p, now)

AfterWalkAway(m, now) == Ended(m, "NO_DEAL", "WALKED_AWAY", m.settlement, 2, now)

WalkAwayEvents(m, p, now) ==
    <<Event("WALKED_AWAY", p, now, None),
      Event("MATCH_COMPLETED", None, now, "WALKED_AWAY")>>

\* Bug: a reveal is not treated as a gameplay command.
CanReveal_NoLimit(m, p, fact, now) ==
    /\ m.status = "ACTIVE"
    /\ m.active = p
    /\ fact \in Verifiable[p] \ m.revealed[p]

CanReveal(m, p, fact, now) ==
    /\ HasTurn(m, p, now)
    /\ fact \in Verifiable[p]
    /\ fact \notin m.revealed[p]

\* Unlike an offer, a reveal hands the turn over without looking at whether
\* the opponent is connected.
AfterReveal(m, p, fact, now) ==
    Handover([m EXCEPT !.revealed[p] = @ \cup {fact}],
             "ACTIVE", Other(p), now, 1, now)

RevealEvents(m, p, fact, now) == <<Event("FACT_REVEALED", p, now, fact)>>

-----------------------------------------------------------------------------
(* MESSAGE, DISCONNECT, RECONNECT                                          *)

CanMessage(m, body) == m.status \in {"ACTIVE", "PAUSED"} /\ body # "blank"

AfterMessage(m) == [m EXCEPT !.seq = @ + 1]

MessageEvents(p, body, now) == <<Event("MESSAGE_SENT", p, now, body)>>

OwnsTurn(m, p) == m.status = "ACTIVE" /\ m.active = p

\* Bug: the running clock is stopped without being charged.
AfterDisconnect_Uncharged(m, p, now) ==
    IF Terminal(m) \/ m.disconnected[p] THEN m
    ELSE IF OwnsTurn(m, p)
    THEN [m EXCEPT !.disconnected[p] = TRUE, !.turnStartedAt = None,
                   !.status = "PAUSED", !.seq = @ + 2]
    ELSE [m EXCEPT !.disconnected[p] = TRUE, !.seq = @ + 1]

\* Only the active player's absence pauses the match (GR-015).
AfterDisconnect(m, p, now) ==
    IF Terminal(m) \/ m.disconnected[p] THEN m
    ELSE IF OwnsTurn(m, p)
    THEN Handover([m EXCEPT !.disconnected[p] = TRUE], "PAUSED", p, None, 2, now)
    ELSE [m EXCEPT !.disconnected[p] = TRUE, !.seq = @ + 1]

DisconnectEvents(m, p, now) ==
    IF Terminal(m) \/ m.disconnected[p] THEN <<>>
    ELSE <<Event("PLAYER_DISCONNECTED", p, now, None)>>
         \o (IF OwnsTurn(m, p)
             THEN <<Event("MATCH_PAUSED", None, now, p)>> ELSE <<>>)

Resumed(m, now) == [m EXCEPT !.status = "ACTIVE", !.turnStartedAt = now]

\* Bug: whoever comes back to a paused match gets the turn.
AfterReconnect_TakesTurn(m, p, now) ==
    IF Terminal(m) \/ ~m.disconnected[p] THEN m
    ELSE IF m.status = "PAUSED"
    THEN [m EXCEPT !.disconnected[p] = FALSE, !.status = "ACTIVE",
                   !.active = p, !.turnStartedAt = now, !.seq = @ + 1]
    ELSE [m EXCEPT !.disconnected[p] = FALSE, !.seq = @ + 1]

AfterReconnect(m, p, now) ==
    LET back == [m EXCEPT !.disconnected[p] = FALSE, !.seq = @ + 1]
    IN  IF Terminal(m) \/ ~m.disconnected[p] THEN m
        ELSE IF m.status = "PAUSED" /\ m.active = p THEN Resumed(back, now)
        ELSE back

ReconnectEvents(m, p, now) ==
    IF Terminal(m) \/ ~m.disconnected[p] THEN <<>>
    ELSE <<Event("PLAYER_RECONNECTED", p, now, None)>>

-----------------------------------------------------------------------------
(* TIMEOUT and ABORT, issued by the server only                            *)

\* Bug: any timer may end the match of the player whose turn it is.
CanTimeout_Anytime(m, p, now) == m.status = "ACTIVE" /\ m.active = p

CanTimeout(m, p, now) ==
    /\ m.status = "ACTIVE"
    /\ m.active = p
    /\ Limit # None
    /\ ElapsedActive(m, p, now) >= Limit

AfterTimeout(m, now) == Ended(m, "NO_DEAL", "TIMED_OUT", m.settlement, 2, now)

TimeoutEvents(p, now) ==
    <<Event("TIMED_OUT", p, now, p),
      Event("MATCH_COMPLETED", None, now, "TIMED_OUT")>>

AfterAbort(m, now) ==
    IF Terminal(m) THEN m
    ELSE Ended(m, "ABORTED", "ABORTED", m.settlement, 1, now)

AbortEvents(m, now) ==
    IF Terminal(m) THEN <<>> ELSE <<Event("MATCH_ABORTED", None, now, None)>>
=============================================================================
