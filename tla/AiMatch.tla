------------------------------ MODULE AiMatch -------------------------------
(***************************************************************************)
(* A match between a human and a bot: what either may decide to do         *)
(* (packages/ai/src/types.ts), which decisions commitMove() of             *)
(* apps/api/src/ai/engine.ts gets through, and what they lead to.  The     *)
(* match has the decision-time limit ai-routes.ts creates it with, the     *)
(* clock only moves forward, and a timeout may end it.  AiTurn puts the    *)
(* engine around this match, Personas the agents.                          *)
(***************************************************************************)
EXTENDS MatchCommands

CONSTANT MaxTime  \* bound on the clock

ASSUME TimeAssumption == MaxTime \in Nat

VARIABLES match, now

WalkAwayIntent == [kind |-> "WALK_AWAY"]
AcceptIntent(oid) == [kind |-> "ACCEPT", id |-> oid]
OfferIntent(a) == [kind |-> "OFFER", amount |-> a]

\* `at' is the reading of the clock the intent is committed with.
LegalIntent(m, p, d, at) ==
    \/ d.kind = "OFFER" /\ CanOffer(m, p, d.amount, at)
    \/ d.kind = "ACCEPT" /\ CanAccept(m, p, d.id, at)
    \/ d.kind = "WALK_AWAY" /\ CanWalkAway(m, p, at)

Carried(m, p, d, at) ==
    CASE d.kind = "OFFER" -> AfterOffer(m, p, m.seq + 1, d.amount, at)
      [] d.kind = "ACCEPT" -> AfterAccept(m, p, at)
      [] d.kind = "WALK_AWAY" -> AfterWalkAway(m, at)

\* The match as the human's READY starts it.
Begun(created) == Started([created EXCEPT !.ready = [p \in Player |-> TRUE]], 0)

TimePasses == now < MaxTime /\ now' = now + 1 /\ UNCHANGED match

\* The timer of the timeout scheduler fires.
TimesOut ==
    /\ \E p \in Player : CanTimeout(match, p, now)
    /\ match' = AfterTimeout(match, now)
    /\ UNCHANGED now
=============================================================================
