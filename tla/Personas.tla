------------------------------ MODULE Personas ------------------------------
(***************************************************************************)
(* The five practice personas (packages/ai/src/personas.ts, registry.ts)   *)
(* bargaining with a human.  A persona decides from what its view shows it *)
(* -- its own reservation value and what both players did in public -- and *)
(* from seeded dice; each roll is a choice here.                           *)
(*                                                                         *)
(* Ratios of the registry are percentages, fractions and logarithms are    *)
(* thousandths; what floating point rounds differently is left out.  The   *)
(* engine around the agent is AiTurn; chat and presence, which move no     *)
(* offer, are left to it.                                                  *)
(***************************************************************************)
EXTENDS AiMatch

CONSTANTS
    Movement,  \* Movement[a][b]: concessionMagnitude(a, b), in thousandths
    Pairs      \* the reservation values a match may be created with

ASSUME PersonasAssumption ==
    /\ Movement \in [Amount -> [Amount -> Nat]]
    /\ Pairs \subseteq [Player -> Amount]

VARIABLES
    bot,      \* the role the bot plays
    persona   \* its key in the registry

gameVars == <<match, now, bot, persona>>

Strategy(buyerOpens, sellerOpens, pace, buyerTakes, sellerTakes, walks) ==
    [opens |-> [p \in Player |-> IF p = "BUYER" THEN buyerOpens ELSE sellerOpens],
     pace  |-> pace,
     takes |-> [p \in Player |-> IF p = "BUYER" THEN buyerTakes ELSE sellerTakes],
     walks |-> walks]

\* The registry; `walks' is whether walkProbability is above zero, and None is
\* the 'reciprocal' pace.
AI_PERSONAS ==
    [anchor  |-> Strategy( 2, 500000, 120,  65, 140, TRUE),
     grinder |-> Strategy(50, 150,     50, 100, 100, TRUE),
     closer  |-> Strategy(85, 115,    350,  95, 100, FALSE),
     wall    |-> Strategy(30, 160,     20,  75, 130, TRUE),
     mirror  |-> Strategy(60, 130, None, 100, 100, TRUE)]

-----------------------------------------------------------------------------
(* The decision                                                            *)

Least(a, b) == IF a <= b THEN a ELSE b
Greatest(a, b) == IF a <= b THEN b ELSE a

\* Math.round of num / den.
Round(num, den) == (2 * num + den) \div (2 * den)

OpeningAmount(m, p, s) ==
    LET raw == Greatest(1, Round(m.rv[p] * s.opens[p], 100))
        inside == IF p = "BUYER" THEN Least(raw, m.rv[p]) ELSE Greatest(raw, m.rv[p])
    IN  Least(inside, MaxAmount)

OpponentMovement(opening, latest) ==
    IF opening = None \/ latest = None THEN 0 ELSE Movement[opening][latest]

MirrorFraction(movement) == Least(250, Greatest(40, movement \div 6))

Pace(m, p, s) ==
    IF s.pace = None
    THEN MirrorFraction(OpponentMovement(m.opening[Other(p)], m.latest[Other(p)]))
    ELSE s.pace

\* An opponent who has made no offer is null, which arithmetic takes for zero.
Gap(m, p) ==
    LET theirs == IF m.latest[Other(p)] = None THEN 0 ELSE m.latest[Other(p)]
    IN  IF p = "BUYER" THEN theirs - m.latest[p] ELSE m.latest[p] - theirs

AtMandate(m, p) ==
    IF p = "BUYER" THEN m.latest[p] >= m.rv[p] ELSE m.latest[p] <= m.rv[p]

\* Bug: no smallest step, so a slow persona may stand still.
Step_Unclamped(m, p, s, k) ==
    LET den == 1000 * 2^k
        moved == Pace(m, p, s) * Gap(m, p)
    IN  IF p = "BUYER" THEN Least(Round(m.latest[p] * den + moved, den), m.rv[p])
        ELSE Greatest(Round(m.latest[p] * den - moved, den), m.rv[p])

\* The concession tried after k halvings of the fraction: that part of the gap,
\* at least one tenth, never beyond the reservation value.
Step(m, p, s, k) ==
    LET den == 1000 * 2^k
        moved == Pace(m, p, s) * Gap(m, p)
    IN  IF p = "BUYER"
        THEN Greatest(m.latest[p] + 1, Least(Round(m.latest[p] * den + moved, den), m.rv[p]))
        ELSE Least(m.latest[p] - 1, Greatest(Round(m.latest[p] * den - moved, den), m.rv[p]))

\* Bug: no second try when the first concession is too expensive.
Tries_Once(m, p, s) == {0}

\* The halvings before less than half a tenth of the gap is left to concede.
Tries(m, p, s) ==
    {k \in 0 .. MaxAmount : k = 0 \/ 2 * Pace(m, p, s) * Gap(m, p) >= 1000 * 2^k}

Affordable(m, p, a) == Cost[m.latest[p]][a] <= Budget - m.chipsSpent[p]

\* None when there is no move to make.
ConcessionAmount(m, p, s) ==
    LET good == {k \in Tries(m, p, s) : Affordable(m, p, Step(m, p, s, k))}
    IN  IF AtMandate(m, p) \/ Gap(m, p) <= 0 \/ good = {} THEN None
        ELSE Step(m, p, s, CHOOSE k \in good : \A l \in good : k <= l)

Acceptable(m, p, s) ==
    /\ m.standing[Other(p)] # None
    /\ m.latest[Other(p)] # None
    /\ IF p = "BUYER" THEN 100 * m.latest[Other(p)] <= m.rv[p] * s.takes[p]
       ELSE 100 * m.latest[Other(p)] >= m.rv[p] * s.takes[p]

\* What the agent plays when it neither accepts nor rolls to walk away.
Play(m, p, s) ==
    LET amount == IF m.latest[p] = None THEN OpeningAmount(m, p, s)
                  ELSE ConcessionAmount(m, p, s)
    IN  IF amount = None THEN WalkAwayIntent ELSE OfferIntent(amount)

\* The engine never permits the agent to chat.
Decisions(m, p, s) ==
    IF Acceptable(m, p, s) THEN {AcceptIntent(m.standing[Other(p)])}
    ELSE {Play(m, p, s)} \cup (IF s.walks THEN {WalkAwayIntent} ELSE {})

-----------------------------------------------------------------------------
(* The match                                                               *)

GameInit ==
    /\ bot \in Player
    /\ persona \in DOMAIN AI_PERSONAS
    /\ \E rv \in Pairs, first \in Player : match = Begun(CreatedMatch("AI", rv, first))
    /\ now = 0

Counterpart == Other(bot)
Agent == AI_PERSONAS[persona]

Moves(p, d) ==
    /\ LegalIntent(match, p, d, now)
    /\ match' = Carried(match, p, d, now)
    /\ UNCHANGED <<now, bot, persona>>

\* Past the limit the domain refuses whatever the agent decides, and the engine's
\* fallback with it.
BotMoves ==
    /\ OwnsTurn(match, bot)
    /\ \E d \in Decisions(match, bot, Agent) : Moves(bot, d)

HumanMoves(d) == Moves(Counterpart, d)

\* The bot has no dossier; the human may reveal instead of making an offer.
HumanReveals(fact) ==
    /\ CanReveal(match, Counterpart, fact, now)
    /\ match' = AfterReveal(match, Counterpart, fact, now)
    /\ UNCHANGED <<now, bot, persona>>

GameTick == TimePasses /\ UNCHANGED <<bot, persona>>
GameTimeout == TimesOut /\ UNCHANGED <<bot, persona>>

GameNext ==
    \/ BotMoves
    \/ \E a \in Amount : HumanMoves(OfferIntent(a))
    \/ HumanMoves(AcceptIntent(match.standing[bot]))
    \/ HumanMoves(WalkAwayIntent)
    \/ \E fact \in Fact : HumanReveals(fact)
    \/ GameTick
    \/ GameTimeout

GameSpec == GameInit /\ [][GameNext]_gameVars

-----------------------------------------------------------------------------
(* Properties                                                              *)

\* personas.ts:1-7: whatever its dice say, however slow it is and however few
\* chips it has left, a persona never proposes a move the domain refuses, but for
\* one reason: its decision time is used up, and then any move is refused.
IntentsAreLegal ==
    OwnsTurn(match, bot) =>
        \A d \in Decisions(match, bot, Agent) :
            LegalIntent(match, bot, d, now) <=> ~Exhausted(match, now)

Crossed == match.latest[Counterpart] # None /\ Gap(match, bot) <= 0

\* personas.ts:51, "Returns null when no legal move exists": an agent that is
\* at a loss and leaves had no legal offer, not even of one tenth, when its turn
\* began: it is not the clock that took the last one.  It also leaves when the
\* offers have crossed and, as a buyer, when the human has revealed a fact and
\* made no offer yet (the null that counts as zero).
RetreatsOnlyWhenStuck ==
    OwnsTurn(match, bot) /\ match.latest[bot] # None =>
        \/ ConcessionAmount(match, bot, Agent) # None
        \/ Crossed
        \/ bot = "BUYER" /\ match.latest[Counterpart] = None
        \/ \A a \in Amount : ~CanOffer(match, bot, a, match.turnStartedAt)
=============================================================================
