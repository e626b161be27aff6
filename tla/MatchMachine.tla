---------------------------- MODULE MatchMachine ----------------------------
(***************************************************************************)
(* One match driven by every command applyCommand accepts, and its views,  *)
(* under a server clock that only moves forward.  The clock stands still   *)
(* before the match starts and after it ends: a match depends on time only *)
(* through differences taken while it is live.                             *)
(*                                                                         *)
(* `frozen' is a history variable: the time spent PAUSED.                  *)
(***************************************************************************)
EXTENDS MatchView

CONSTANTS
    Modes,             \* the modes a match may be created in
    ReservationPairs,  \* the reservation values it may be created with
    MaxTime,           \* bound on the clock
    MaxSeq             \* bound on the events chat and presence may add to

ASSUME BoundsAssumption ==
    /\ Modes \subseteq Mode
    /\ ReservationPairs \subseteq [Player -> Amount]
    /\ MaxTime \in Nat
    /\ MaxSeq \in Nat

VARIABLES match, now, frozen

vars == <<match, now, frozen>>

Init ==
    /\ \E mode \in Modes, rv \in ReservationPairs, first \in Player :
         /\ ValidMatchInput(mode, rv)
         /\ match = CreatedMatch(mode, rv, first)
    /\ now = 0
    /\ frozen = 0

Commit(m) == match' = m /\ UNCHANGED <<now, frozen>>

Ready(p) == CanReady(match) /\ Commit(AfterReady(match, p, now))

\* The server names an offer with a fresh id; the event sequence number stands
\* for it.
Offer(p, a) ==
    /\ CanOffer(match, p, a, now)
    /\ Commit(AfterOffer(match, p, match.seq + 1, a, now))

Accept(p, oid) ==
    /\ CanAccept(match, p, oid, now)
    /\ Commit(AfterAccept(match, p, now))

WalkAway(p) == CanWalkAway(match, p, now) /\ Commit(AfterWalkAway(match, now))

Reveal(p, fact) ==
    /\ CanReveal(match, p, fact, now)
    /\ Commit(AfterReveal(match, p, fact, now))

\* Chat and presence may repeat for ever; MaxSeq ends them.
Message(p, body) ==
    /\ match.seq < MaxSeq
    /\ CanMessage(match, body)
    /\ Commit(AfterMessage(match))

Disconnect(p) ==
    /\ match.seq < MaxSeq
    /\ Commit(AfterDisconnect(match, p, now))

Reconnect(p) ==
    /\ match.seq < MaxSeq
    /\ Commit(AfterReconnect(match, p, now))

Timeout(p) == CanTimeout(match, p, now) /\ Commit(AfterTimeout(match, now))

Abort == Commit(AfterAbort(match, now))

Live == match.status \in {"ACTIVE", "PAUSED"}

Tick ==
    /\ Live
    /\ now < MaxTime
    /\ now' = now + 1
    /\ frozen' = IF match.status = "PAUSED" THEN frozen + 1 ELSE frozen
    /\ UNCHANGED match

Next ==
    \/ \E p \in Player :
         \/ Ready(p)
         \/ \E a \in Amount : Offer(p, a)
         \/ \E oid \in 1 .. match.seq : Accept(p, oid)
         \/ WalkAway(p)
         \/ \E fact \in Fact : Reveal(p, fact)
         \/ \E body \in {"text", "blank"} : Message(p, body)
         \/ Disconnect(p)
         \/ Reconnect(p)
         \/ Timeout(p)
    \/ Abort
    \/ Tick

Spec == Init /\ [][Next]_vars

-----------------------------------------------------------------------------
(* Types                                                                   *)

\* Every field of a match, the clock and the history variable have the types
\* of packages/domain/src/types.ts.
TypeOK == match \in Match /\ now \in Nat /\ frozen \in Nat

-----------------------------------------------------------------------------
(* Safety                                                                  *)

\* GR-014: while the match is ACTIVE exactly one player's clock runs; while it
\* is PAUSED no clock runs and the player everyone waits for is away, so that
\* a reconnection of that player is always possible and resumes the match.
OneClock ==
    /\ match.status = "ACTIVE" =>
         match.active \in Player /\ match.turnStartedAt # None
    /\ match.status = "PAUSED" =>
         /\ match.active \in Player
         /\ match.turnStartedAt = None
         /\ match.disconnected[match.active]
    /\ ~Live => match.active = None /\ match.turnStartedAt = None

RunningTime ==
    IF match.turnStartedAt = None THEN 0 ELSE SinceTurn(match, now)

Charged == match.cumulative["BUYER"] + match.cumulative["SELLER"]

\* GR-014, GR-015, GR-023: no decision time is lost, charged twice or charged
\* for a pause.  What the two players have been charged, the part of the live
\* turn not charged yet and the time spent PAUSED add up to the age of the
\* match, across every turn change, pause, resumption and ending.
ClockAccounting ==
    match.startedAt # None =>
        Charged + RunningTime + frozen = now - match.startedAt

\* GR-024: a match ends TIMED_OUT only when one player used the whole limit,
\* and a player who has used it never strikes a deal or is walked away from:
\* disconnecting past the limit pauses the clock but does not reopen play.
TimeoutAttribution ==
    Limit # None =>
        /\ match.reason = "TIMED_OUT" =>
             \E p \in Player : /\ match.cumulative[p] >= Limit
                               /\ match.cumulative[Other(p)] < Limit
        /\ match.reason \in {"ACCEPTED", "WALKED_AWAY"} =>
             \A p \in Player : match.cumulative[p] < Limit

\* GE-004, GR-006, GR-017: no sequence of concessions overdraws the budget, and
\* every chip spent bought movement (an opening offer alone is free).
ChipsWithinBudget ==
    \A p \in Player :
        /\ match.chipsSpent[p] <= Budget
        /\ match.chipsSpent[p] = 0 <=> match.latest[p] = match.opening[p]

\* GE-003, GE-009: the rewards of a match are never negative, together never
\* exceed the bounty, and are zero for both players unless there is a deal.
\* The one exception is a deal between equal reservation values.
RewardsWithinBounty ==
    match.economy # None =>
        LET gross == match.economy.gross IN
        /\ match.status # "DEAL" => \A p \in Player : gross[p] = 0
        /\ Zopa(match) # 0 =>
             /\ \A p \in Player : gross[p] >= 0
             /\ gross["BUYER"] + gross["SELLER"] <=
                  (IF Zopa(match) > 0 THEN Bounty * Zopa(match) * MultiplierUnit ELSE 0)

\* GE-008, GR-019: the stored economy is final; it is exactly what
\* computeEconomy returns for the match as it stands, so nothing after the end
\* touches a clock, a settlement or a reason it was computed from.
EconomyIsFinal ==
    Terminal(match) => match.economy = Economy(match)

\* GR-022, GR-023: the view never promises what the server would refuse, nor
\* hides a turn it would accept: a player sees its turn with time left exactly
\* when the server would commit a move of that player.
ViewPredictsServer ==
    \A p \in Player :
        LET view == ViewMatchFor(match, p, now) IN
        (view.myTurn /\ view.participants[p].remaining # 0) <=> CanWalkAway(match, p, now)

-----------------------------------------------------------------------------
(* Refinement: what a match promises, whatever its turns, clocks and        *)
(* presence, is the abstract bargain.                                       *)

Outcome ==
    IF match.status = "DEAL" THEN match.settlement
    ELSE IF match.status \in {"NO_DEAL", "ABORTED"} THEN 0 ELSE None

B == INSTANCE Bargain WITH rv <- match.rv, bid <- match.latest, outcome <- Outcome

\* Every behaviour of a match is a behaviour of the bargain: monotone bids
\* inside one's own reservation value, and one irrevocable outcome that is
\* either a break or the opponent's latest bid.
ImplementsBargain == B!Spec

-----------------------------------------------------------------------------
(* Action properties                                                       *)

\* GR-008, GR-009: an offer is never retracted and only moves towards the
\* opponent; the opening offer is never rewritten.
OffersOnlyConcede ==
    [][\A p \in Player :
          match.latest[p] # None =>
            /\ match'.opening[p] = match.opening[p]
            /\ match'.latest[p] # match.latest[p] =>
                 B!Improves(p, match.latest[p], match'.latest[p])]_vars

\* Core invariant (GR-023): once the live player's decision time has reached the
\* limit, a step may time out, abort, pause or let time pass, but no offer,
\* reveal, deal or walk-away commits.
NothingCommitsPastLimit ==
    [][(\E p \in Player : OwnsTurn(match, p) /\ Limit # None
                           /\ match.cumulative[p] + RunningTime >= Limit) =>
          /\ match'.latest = match.latest
          /\ match'.revealed = match.revealed
          /\ match'.reason \in {None, "TIMED_OUT", "ABORTED"}]_vars

\* Core invariant of docs/02_GAME_RULES.md: however the offers crossed, a match
\* that is or becomes a deal is settled inside both reservation values, and the
\* step that strikes it settles at the offer of the opponent of the player on
\* turn, never at the accepting player's own.
DealInsideBothReservations ==
    [][match'.status = "DEAL" =>
          /\ match'.rv["SELLER"] <= match'.settlement
          /\ match'.settlement <= match'.rv["BUYER"]
          /\ match.status # "DEAL" =>
               /\ match.active \in Player
               /\ match'.settlement = match.latest[Other(match.active)]]_vars

\* GR-013, GR-014, GR-015: the turn passes to the opponent only in a step in
\* which its owner concedes or reveals; chat, absence and return never move it.
TurnPassesByMoveOnly ==
    [][\A p \in Player :
          match.active = p /\ match'.active = Other(p) =>
            \/ match'.latest[p] # match.latest[p]
            \/ match'.revealed[p] # match.revealed[p]]_vars

AbsentClockRuns == match.status = "ACTIVE" /\ match.disconnected[match.active]

\* match.ts:296, "A disconnected player must never accumulate decision time": the
\* clock of a player who is away begins to run in two ways only, when the opponent
\* reveals a fact (match.ts:422) and when the match starts (match.ts:223).  No
\* offer, and no disconnection or return of either player in whatever order, gets
\* it going.
AbsenceStopsClock ==
    [][AbsentClockRuns' =>
          \/ AbsentClockRuns /\ match'.active = match.active
          \/ match'.revealed # match.revealed
          \/ match.status \in {"CREATED", "READY"}]_vars
=============================================================================
