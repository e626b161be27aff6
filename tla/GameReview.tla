----------------------------- MODULE GameReview -----------------------------
(***************************************************************************)
(* The deterministic review of a finished match                            *)
(* (packages/intelligence/src: features.ts, observations.ts, curate.ts,    *)
(* review.ts, timeline.ts), over every event stream the domain can write.  *)
(*                                                                         *)
(* A review is a pure function of the final match `m' and its events `ev'; *)
(* the index of an event in the stream is its sequence number.  A          *)
(* magnitude |ln(b/a)| is kept as the pair <<larger, smaller>> and         *)
(* magnitudes are compared by cross-multiplication; fractions are compared *)
(* in percent the same way.                                                *)
(***************************************************************************)
EXTENDS MatchCommands, SequencesExt

CONSTANTS
    Reservations,      \* the reservation values a match may be created with
    LowWarning,        \* config.timeWarningLowMs
    LongHold,          \* thresholds.longHoldMs
    FastResistance,    \* thresholds.fastResistanceMs
    FastCloseTime,     \* thresholds.fastCloseMs
    PitchWindow,       \* thresholds.pitchWindowMs
    MaxGap,            \* bound on the time between two commands
    MaxStream,         \* bound on the stream
    LastTime,          \* bound on the clock
    MaxAsides          \* bound on the messages and disconnections of a match

ASSUME ReviewAssumption ==
    /\ \A rv \in Reservations : rv \in [Player -> Amount] /\ rv["BUYER"] > rv["SELLER"]
    /\ {LowWarning, LongHold, FastResistance, FastCloseTime, PitchWindow} \subseteq Nat
    /\ {MaxGap, LastTime, MaxStream, MaxAsides} \subseteq Nat

VARIABLES
    match,   \* the match
    events   \* everything it emitted

playVars == <<match, events>>

-----------------------------------------------------------------------------
(* Filters.  They are folds, and not SelectSeq, because the proof system   *)
(* gives SelectSeq no meaning.                                             *)

\* The elements of s that are in T, in their order.
Among(s, T) == FoldLeft(LAMBDA kept, x : IF x \in T THEN Append(kept, x) ELSE kept, <<>>, s)

Filter(s, Test(_)) == Among(s, {x \in ToSet(s) : Test(x)})

-----------------------------------------------------------------------------
(* features.ts: pauses and moves                                           *)

FirstAt(ev, types) == SelectInSeq(ev, LAMBDA e : e.type \in types)

StartTime(ev) == ev[FirstAt(ev, {"MATCH_STARTED"})].at

\* The spans during which p was away, oldest first; one still open at the end
\* is closed by the last event.
OwnDisconnectSpans(ev, p) ==
    LET Toggle(s, e) ==
            IF e.actor # p THEN s
            ELSE IF e.type = "PLAYER_DISCONNECTED" /\ s.open = None
            THEN [s EXCEPT !.open = e.at]
            ELSE IF e.type = "PLAYER_RECONNECTED" /\ s.open # None
            THEN [spans |-> Append(s.spans, [from |-> s.open, to |-> e.at]),
                  open |-> None]
            ELSE s
        s == FoldLeft(Toggle, [spans |-> <<>>, open |-> None], ev)
    IN  IF s.open = None THEN s.spans
        ELSE Append(s.spans, [from |-> s.open, to |-> Last(ev).at])

\* The time of spans that lies between two instants.
PausedWithin(spans, from, to) ==
    LET Overlap(s) == (IF to < s.to THEN to ELSE s.to)
                      - (IF from > s.from THEN from ELSE s.from)
    IN  FoldLeft(LAMBDA sum, s : IF Overlap(s) > 0 THEN sum + Overlap(s) ELSE sum,
                 0, spans)

\* Bug: the player's own pauses are charged as thinking time.
ActiveTime_PausesCharged(ev, p, from, to) == IF to > from THEN to - from ELSE 0

ActiveTime(ev, p, from, to) ==
    LET t == to - from - PausedWithin(OwnDisconnectSpans(ev, p), from, to)
    IN  IF t > 0 THEN t ELSE 0

\* Bug: the opponent's position at the player's last offer is not remembered.
AfterOwnOffer_Forgets(s, move) ==
    [s EXCEPT !.moves = Append(@, move), !.message = None]

AfterOwnOffer(s, move) ==
    [s EXCEPT !.moves = Append(@, move), !.heldAt = s.opponent, !.message = None]

\* The offers of p, each with the time it took and what the opponent had on the
\* table.  Only an offer hands the turn on here, so `grant' is as old as the
\* opponent's last offer even when the opponent answered with a reveal.
ClassifyMoves(ev, p) ==
    LET Move(s, i) ==
            [seq |-> i, at |-> ev[i].at, amount |-> ev[i].arg.amount,
             previous |-> IF s.moves = <<>> THEN None ELSE Last(s.moves).amount,
             active |-> ActiveTime(ev, p, s.grant, ev[i].at),
             unreciprocated |-> s.moves # <<>> /\ s.opponent = s.heldAt,
             pitched |-> s.message # None /\ ev[i].at - s.message <= PitchWindow]
        Read(s, i) ==
            IF ev[i].type = "MESSAGE_SENT" /\ ev[i].actor = p
            THEN [s EXCEPT !.message = ev[i].at]
            ELSE IF ev[i].type # "OFFER_SUBMITTED" THEN s
            ELSE IF ev[i].actor = p THEN AfterOwnOffer(s, Move(s, i))
            ELSE [s EXCEPT !.opponent = ev[i].arg.amount, !.grant = ev[i].at]
    IN  FoldLeftDomain(Read, [moves |-> <<>>, grant |-> StartTime(ev), opponent |-> None,
                              heldAt |-> None, message |-> None], ev).moves

Concessions(moves) == Filter(moves, LAMBDA c : c.previous # None)

Decisive == {"OFFER_ACCEPTED", "WALKED_AWAY", "TIMED_OUT"}

\* How long p took over the act that ended the match, if it was p's.  Events are
\* compared by time, not by position: the offer p answers is missed when the
\* two carry the same instant.
FinalDecisionMs(ev, p) ==
    LET k == FirstAt(ev, Decisive)
        late == SelectInSeq(ev, LAMBDA e : e.at >= ev[k].at)
        offer == SelectLastInSubSeq(ev, 1, late - 1,
                     LAMBDA e : e.type = "OFFER_SUBMITTED" /\ e.actor = Other(p))
    IN  IF k = 0 \/ ev[k].actor # p THEN None
        ELSE ActiveTime(ev, p, IF offer = 0 THEN StartTime(ev) ELSE ev[offer].at, ev[k].at)

DecisionTimes(ev, p, moves) ==
    LET final == FinalDecisionMs(ev, p) IN
    [i \in DOMAIN moves |-> moves[i].active] \o (IF final = None THEN <<>> ELSE <<final>>)

-----------------------------------------------------------------------------
(* features.ts: magnitudes, runs, closing                                  *)

\* |ln(amount / previous)| of a concession, and the order of magnitudes.
Magnitude(m) == IF m.amount > m.previous THEN <<m.amount, m.previous>>
                ELSE <<m.previous, m.amount>>

Smaller(a, b) == a[1] * b[2] < b[1] * a[2]

\* The first of the largest, as an index into the concessions.
Largest(concessions) ==
    CHOOSE i \in DOMAIN concessions :
        /\ \A j \in DOMAIN concessions :
             ~Smaller(Magnitude(concessions[i]), Magnitude(concessions[j]))
        /\ \A j \in 1 .. i - 1 :
             Smaller(Magnitude(concessions[j]), Magnitude(concessions[i]))

\* Bug: the opening offer is left out of the count of moves.
LargestConcessionTurn_NoOpening(concessions) == Largest(concessions)

\* The opening is move 1, so concession i is move i + 1.
LargestConcessionTurn(concessions) == Largest(concessions) + 1

ConcessionPattern(concessions) ==
    LET Pairs == 2 .. Len(concessions)
        Grows(i, j) == Smaller(Magnitude(concessions[i]), Magnitude(concessions[j]))
    IN  IF Len(concessions) < 3 THEN None
        ELSE IF \A i \in Pairs : Grows(i - 1, i) THEN "INCREASING"
        ELSE IF \A i \in Pairs : Grows(i, i - 1) THEN "DECLINING" ELSE "MIXED"

\* The sequence numbers of the first longest run of unreciprocated concessions.
LongestUnilateralRun(concessions) ==
    LET Extend(s, c) ==
            LET run == IF c.unreciprocated THEN Append(s.run, c.seq) ELSE <<>>
            IN  [run |-> run, best |-> IF Len(run) > Len(s.best) THEN run ELSE s.best]
    IN  FoldLeft(Extend, [run |-> <<>>, best |-> <<>>], concessions).best

\* The sequence numbers of the quick concessions inside such runs.
FastAfterResistance(concessions) ==
    LET Fast(i) == /\ i > 1
                   /\ concessions[i].unreciprocated /\ concessions[i - 1].unreciprocated
                   /\ concessions[i].active <= FastResistance
        hits == Filter([i \in DOMAIN concessions |-> i], Fast)
    IN  [k \in DOMAIN hits |-> concessions[hits[k]].seq]

\* The last amount on p's side of the table among the first n events.
LatestOffer(ev, p, n) ==
    LET k == SelectLastInSubSeq(ev, 1, n,
                 LAMBDA e : e.type = "OFFER_SUBMITTED" /\ e.actor = p)
    IN  IF k = 0 THEN None ELSE ev[k].arg.amount

\* When the two latest offers first met.
FirstCrossAt(ev) ==
    LET Crossed(n) ==
            LET b == LatestOffer(ev, "BUYER", n)
                s == LatestOffer(ev, "SELLER", n)
            IN  b # None /\ s # None /\ b >= s
        met == {n \in DOMAIN ev : Crossed(n)}
    IN  IF met = {} THEN None ELSE ev[CHOOSE n \in met : \A k \in met : n <= k].at

Outcome(m) ==
    CASE m.status = "DEAL" -> "DEAL"
      [] m.reason = "TIMED_OUT" -> "NO_DEAL_TIMED_OUT"
      [] m.reason = "WALKED_AWAY" -> "NO_DEAL_WALKED"
      [] OTHER -> "ABORTED"

Broken(m) == Outcome(m) \in {"NO_DEAL_WALKED", "NO_DEAL_TIMED_OUT"}

\* Bug: the player's own last offer is taken for the one on the table.
Foregone_Own(m, ev, p) ==
    LET a == LatestOffer(ev, p, Len(ev)) IN
    IF Broken(m) /\ a # None /\ WithinReservation(m, p, a)
    THEN SurplusShare(m, p, a) ELSE None

\* foregoneValueTenths: what the offer on the table was worth to p.  The code
\* does not ask whether p is the one who ended the match.
Foregone(m, ev, p) ==
    LET a == LatestOffer(ev, Other(p), Len(ev)) IN
    IF Broken(m) /\ a # None /\ WithinReservation(m, p, a)
    THEN SurplusShare(m, p, a) ELSE None

-----------------------------------------------------------------------------
(* observations.ts: what is said of a player.  `n' is the number the copy  *)
(* of the observation states: a count, an amount, a time, or the move.     *)

Obs(type, n, refs) == [type |-> type, n |-> n, refs |-> refs]

AtMostPct(part, whole, pct) == 100 * part <= pct * whole
AtLeastPct(part, whole, pct) == 100 * part >= pct * whole

Refs(moves) == [i \in DOMAIN moves |-> moves[i].seq]

TerminalRefs(ev) ==
    LET k == FirstAt(ev, Decisive) IN IF k = 0 THEN <<>> ELSE <<k>>

\* How far p's opening claims into the ZOPA, from the opponent's limit.
OpeningReach(m, p, a) ==
    IF p = "BUYER" THEN a - m.rv["SELLER"] ELSE m.rv["BUYER"] - a

Gap(a, b) == IF a > b THEN a - b ELSE b - a

When(condition, o) == IF condition THEN {o} ELSE {}

OpeningObservations(m, moves, p) ==
    LET a == moves[1].amount
        reach == OpeningReach(m, p, a)
        refs == <<moves[1].seq>>
    IN  IF moves = <<>> THEN {}
        ELSE When(Zopa(m) > 0 /\ AtMostPct(reach, Zopa(m), 30),
                  Obs("STRONG_OPENING_POSITION", None, refs))
             \cup When(Zopa(m) > 0 /\ AtLeastPct(reach, Zopa(m), 70),
                       Obs("CONSERVATIVE_OPENING", None, refs))
             \cup When(a >= 2 * m.rv[p] \/ m.rv[p] >= 2 * a,
                       Obs("LARGE_OPENING", None, refs))

ConcessionObservations(moves) ==
    LET given == Concessions(moves)
        held == Filter(given, LAMBDA c : c.unreciprocated)
        run == LongestUnilateralRun(given)
        fast == FastAfterResistance(given)
        turn == LargestConcessionTurn(given)
        largest == <<given[Largest(given)].seq>>
        lastThird == Len(moves) >= 3 /\ turn > (2 * Len(moves)) \div 3
        pattern == ConcessionPattern(given)
    IN  When(held # <<>>, Obs("UNRECIPROCATED_CONCESSION", Len(held), Refs(held)))
        \cup When(Len(run) >= 2, Obs("CONSECUTIVE_UNILATERAL_CONCESSIONS", Len(run), run))
        \cup When(given # <<>>, Obs("LARGEST_CONCESSION", turn, largest))
        \cup When(Len(given) >= 2 /\ lastThird, Obs("LATE_LARGE_CONCESSION", turn, largest))
        \cup When(pattern = "DECLINING", Obs("DECLINING_CONCESSIONS", None, Refs(moves)))
        \cup When(pattern = "INCREASING", Obs("INCREASING_CONCESSIONS", None, Refs(moves)))
        \cup When(fast # <<>>, Obs("FAST_CONCESSION_AFTER_RESISTANCE", Len(fast), fast))

\* A long hold is looked for among all decisions and counted among the offers
\* alone, so one that ended the match is announced as none.
TimeObservations(m, ev, p, moves) ==
    LET times == DecisionTimes(ev, p, moves)
        holds == Filter(moves, LAMBDA c : c.active >= LongHold)
        calm == IF Limit > LowWarning THEN Limit - LowWarning ELSE 0
    IN  When(\E i \in DOMAIN times : times[i] >= LongHold,
             Obs("LONG_HOLD", Len(holds), Refs(holds)))
        \cup When(/\ Limit # None /\ m.cumulative[p] > 0
                  /\ AtLeastPct(m.cumulative[p] - calm, m.cumulative[p], 25),
                  Obs("TIME_PRESSURE_EXPOSURE", None, <<>>))

ChipObservations(m, p, moves) ==
    LET spent == m.chipsSpent[p] IN
    When(AtLeastPct(spent, Budget, 50), Obs("HIGH_CHIP_SPEND", spent, Refs(moves)))
    \cup When(AtMostPct(spent, Budget, 10) /\ Concessions(moves) # <<>>,
              Obs("LOW_CHIP_SPEND", spent, Refs(moves)))

DealObservations(m, ev, p, moves) ==
    LET refs == TerminalRefs(ev)
        q == Other(p)
        share == SurplusShare(m, p, m.settlement)
        cross == FirstCrossAt(ev)
    IN  IF m.status # "DEAL" THEN {}
        ELSE When(Len(moves) <= 4 /\ AtMostPct(m.chipsSpent[p], Budget, 20),
                  Obs("EFFICIENT_CLOSE", Len(moves), refs))
             \cup When(AtMostPct(Gap(m.settlement, m.rv[p]), m.rv[p], 10),
                       Obs("DEAL_NEAR_OWN_LIMIT", None, refs))
             \cup When(AtMostPct(Gap(m.settlement, m.rv[q]), m.rv[q], 10),
                       Obs("DEAL_NEAR_OPPONENT_LIMIT", None, refs))
             \cup When(AtLeastPct(share, Zopa(m), 65), Obs("STRONG_SURPLUS_CAPTURE", share, refs))
             \cup When(AtMostPct(share, Zopa(m), 35), Obs("LOW_SURPLUS_CAPTURE", share, refs))
             \cup When(cross # None /\ m.completedAt - cross <= FastCloseTime,
                       Obs("FAST_CLOSE", m.completedAt - cross, refs))

NoDealObservations(m, ev, p) ==
    LET refs == TerminalRefs(ev)
        mine == LatestOffer(ev, p, Len(ev))
        theirs == LatestOffer(ev, Other(p), Len(ev))
        offers == Filter([i \in DOMAIN ev |-> i],
                            LAMBDA i : ev[i].type = "OFFER_SUBMITTED")
        foregone == Foregone(m, ev, p)
    IN  When(foregone # None /\ foregone > 0,
             Obs("MISSED_STANDING_OFFER", foregone, refs))
        \cup When(Broken(m) /\ Zopa(m) > 0, Obs("FAILED_POSITIVE_ZOPA", Zopa(m), refs))
        \cup When(/\ m.status # "DEAL" /\ Zopa(m) > 0 /\ Len(offers) >= 4
                  /\ mine # None /\ theirs # None
                  /\ AtMostPct(Gap(mine, theirs), Zopa(m), 20),
                  Obs("DEADLOCK", Gap(mine, theirs),
                      SubSeq(offers, Len(offers) - 1, Len(offers)) \o refs))
        \cup When(Outcome(m) = "NO_DEAL_TIMED_OUT", Obs("TIMEOUT", m.cumulative[p], refs))

TalkObservations(ev, p, moves) ==
    LET pitched == Filter(moves, LAMBDA c : c.pitched)
        silent == ~\E i \in DOMAIN ev : ev[i].type = "MESSAGE_SENT" /\ ev[i].actor = p
    IN  When(Len(moves) >= 3 /\ silent, Obs("SILENT_NEGOTIATION", Len(moves), Refs(moves)))
        \cup When(pitched # <<>>, Obs("OFFER_WITH_PITCH", Len(pitched), Refs(pitched)))

DetectObservations(m, ev, p) ==
    LET moves == ClassifyMoves(ev, p) IN
    OpeningObservations(m, moves, p)
    \cup ConcessionObservations(moves)
    \cup TimeObservations(m, ev, p, moves)
    \cup ChipObservations(m, p, moves)
    \cup DealObservations(m, ev, p, moves)
    \cup NoDealObservations(m, ev, p)
    \cup TalkObservations(ev, p, moves)

-----------------------------------------------------------------------------
(* curate.ts, timeline.ts: the review                                      *)

PRIORITY ==
    <<"MISSED_STANDING_OFFER", "DEADLOCK", "TIMEOUT", "FAILED_POSITIVE_ZOPA",
      "UNRECIPROCATED_CONCESSION", "CONSECUTIVE_UNILATERAL_CONCESSIONS",
      "LATE_LARGE_CONCESSION", "FAST_CONCESSION_AFTER_RESISTANCE",
      "STRONG_OPENING_POSITION", "LARGE_OPENING", "CONSERVATIVE_OPENING",
      "LARGEST_CONCESSION", "STRONG_SURPLUS_CAPTURE", "LOW_SURPLUS_CAPTURE",
      "DEAL_NEAR_OWN_LIMIT", "DEAL_NEAR_OPPONENT_LIMIT", "FAST_CLOSE", "EFFICIENT_CLOSE",
      "DECLINING_CONCESSIONS", "INCREASING_CONCESSIONS", "LONG_HOLD",
      "TIME_PRESSURE_EXPOSURE", "HIGH_CHIP_SPEND", "LOW_CHIP_SPEND",
      "SILENT_NEGOTIATION", "OFFER_WITH_PITCH">>

MOMENT_CAP == 5

\* The number the RESULT moment states: the captured share, the value of a
\* standing offer that was left, the time used.
ResultMoment(m, ev, p) ==
    LET k == FirstAt(ev, Decisive \cup {"MATCH_ABORTED"})
        n == CASE Outcome(m) = "DEAL" -> SurplusShare(m, p, m.settlement)
               [] Outcome(m) = "NO_DEAL_TIMED_OUT" -> m.cumulative[p]
               [] Outcome(m) = "NO_DEAL_WALKED" -> Foregone(m, ev, p)
               [] OTHER -> None
    IN  Obs("RESULT", n, IF k = 0 THEN <<>> ELSE <<k>>)

\* What the RESULT moment has already said.
Stated(m, ev, p) ==
    CASE Outcome(m) = "NO_DEAL_TIMED_OUT" -> {"TIMEOUT"}
      [] Outcome(m) = "NO_DEAL_WALKED" /\ Foregone(m, ev, p) # None -> {"MISSED_STANDING_OFFER"}
      [] Outcome(m) = "DEAL" -> {"STRONG_SURPLUS_CAPTURE", "LOW_SURPLUS_CAPTURE"}
      [] OTHER -> {}

\* The RESULT moment takes one of the n places.
FirstOf(kinds, n) == SubSeq(kinds, 1, IF Len(kinds) < n THEN Len(kinds) ELSE n - 1)

\* The kinds of what was seen, most telling first, without what the RESULT says.
MomentKinds(seen, stated) ==
    Filter(PRIORITY, LAMBDA t : t \notin stated /\ \E o \in seen : o.type = t)

Moments(kinds, seen) ==
    [i \in DOMAIN kinds |-> CHOOSE o \in seen : o.type = kinds[i]]

Curated(seen, stated) == Moments(FirstOf(MomentKinds(seen, stated), MOMENT_CAP), seen)

CurateReview(m, ev, p) ==
    <<ResultMoment(m, ev, p)>> \o Curated(DetectObservations(m, ev, p), Stated(m, ev, p))

TimelineTypes ==
    {"OFFER_SUBMITTED", "MESSAGE_SENT", "OFFER_ACCEPTED", "WALKED_AWAY", "TIMED_OUT",
     "MATCH_ABORTED"}

\* The sequence numbers of the timeline, in order.
BuildTimeline(ev) ==
    Filter([i \in DOMAIN ev |-> i], LAMBDA i : ev[i].type \in TimelineTypes)

-----------------------------------------------------------------------------
(* The matches reviewed: started, then any commands, at times that never   *)
(* go back.                                                                *)

Opening(rv, first) ==
    LET created == CreatedMatch("FRIEND_LIVE", rv, first)
        readied == AfterReady(created, "BUYER", 0)
    IN  [match |-> AfterReady(readied, "SELLER", 0),
         events |-> ReadyEvents(created, "BUYER", 0) \o ReadyEvents(readied, "SELLER", 0)]

PlayInit ==
    /\ \E rv \in Reservations, first \in Player :
         /\ match = Opening(rv, first).match
         /\ events = Opening(rv, first).events

Count(types) == Cardinality({i \in DOMAIN events : events[i].type \in types})

\* A match with reveals is kept free of messages and disconnections, which are
\* few: each of them multiplies the streams.
Asides == Count({"MESSAGE_SENT", "PLAYER_DISCONNECTED"})

MayDigress == Asides < MaxAsides /\ Count({"FACT_REVEALED"}) = 0

Commit(c, at) ==
    /\ Len(events) < MaxStream
    /\ Accepted(match, c, at)
    /\ Emitted(match, c, at) # <<>>
    /\ match' = Applied(match, c, at)
    /\ events' = events \o Emitted(match, c, at)

Instants == {at \in 0 .. LastTime : Last(events).at <= at /\ at <= Last(events).at + MaxGap}

\* The server names an offer with a fresh id; its sequence number stands for it.
Offer(p, a) == \E at \in Instants : Commit(OfferCommand(p, Len(events) + 1, a), at)

Accept(p) == \E at \in Instants : Commit(Command("ACCEPT", p, match.standing[Other(p)]), at)

WalkAway(p) == \E at \in Instants : Commit(Command("WALK_AWAY", p, None), at)

Reveal(p, f) ==
    /\ Asides = 0
    /\ \E at \in Instants : Commit(Command("REVEAL", p, f), at)

Message(p) ==
    /\ MayDigress
    /\ \E at \in Instants : Commit(Command("MESSAGE", p, "text"), at)

Disconnect(p) ==
    /\ MayDigress
    /\ \E at \in Instants : Commit(Command("DISCONNECT", p, None), at)

Reconnect(p) == \E at \in Instants : Commit(Command("RECONNECT", p, None), at)

TimeOut(p) == \E at \in Instants : Commit(Command("TIMEOUT", p, None), at)

Abort == \E at \in Instants : Commit(Command("ABORT", None, None), at)

PlayNext ==
    \/ \E p \in Player :
         \/ \E a \in Amount : Offer(p, a)
         \/ Accept(p) \/ WalkAway(p) \/ Message(p)
         \/ \E f \in Fact : Reveal(p, f)
         \/ Disconnect(p) \/ Reconnect(p) \/ TimeOut(p)
    \/ Abort

PlaySpec == PlayInit /\ [][PlayNext]_playVars

-----------------------------------------------------------------------------
(* Properties                                                              *)

OfferBy(p, k) == events[k].type = "OFFER_SUBMITTED" /\ events[k].actor = p

\* No reveal took a turn, and the act that ended the match came later than the
\* offer it answers.
Orderly ==
    /\ Count({"FACT_REVEALED"}) = 0
    /\ \A i, j \in DOMAIN events :
         events[i].type = "OFFER_SUBMITTED" /\ events[j].type \in Decisive
             => events[i].at < events[j].at

\* The decision times of the review, worked out again from the events, are the
\* clock the match was decided by, unless it was aborted in mid-decision
\* (features.ts:114-117, 150-168 against cumulativeActiveMs of match.ts).
DecisionTimesAddUp ==
    Terminal(match) /\ Orderly =>
        \A p \in Player :
            LET times == DecisionTimes(events, p, ClassifyMoves(events, p))
                total == FoldLeft(LAMBDA t, d : t + d, 0, times)
            IN  IF match.reason = "ABORTED" THEN total <= match.cumulative[p]
                ELSE total = match.cumulative[p]

\* A concession is called unreciprocated exactly when the opponent made no offer
\* since the player's last one, and then the opponent answered it with a fact:
\* the one-sided runs of a review exist only through reveals
\* (features.ts:128-136, match.ts revealFact).
UnreciprocatedMeansHeld ==
    Terminal(match) => \A p \in Player : LET moves == ClassifyMoves(events, p) IN
        \A i \in 2 .. Len(moves) :
            LET between == moves[i - 1].seq + 1 .. moves[i].seq - 1 IN
            /\ moves[i].unreciprocated <=> ~\E k \in between : OfferBy(Other(p), k)
            /\ moves[i].unreciprocated =>
                 \E k \in between : events[k].type = "FACT_REVEALED"
                                     /\ events[k].actor = Other(p)

\* The player who walks away is told of an offer left standing exactly when
\* ACCEPT would have been taken at that moment, and its value is the share that
\* accepting would have won (features.ts:257-261, curate.ts:125-133, acceptOffer).
ForegoneWasAcceptable ==
    [][\A p \in Player :
          match.active = p /\ match.reason = None /\ match'.reason = "WALKED_AWAY" =>
              LET at == match'.completedAt
                  deal == AfterAccept(match, p, at)
              IN  ResultMoment(match', events', p).n =
                      IF CanAccept(match, p, match.standing[Other(p)], at)
                      THEN SurplusShare(deal, p, deal.settlement) ELSE None]_playVars

\* The move the review calls the largest concession is the offer it points at,
\* counted among the player's offers from 1, and no other concession of the
\* player is larger in ratio (features.ts:335, 355-356, observations.ts:94-104).
LargestConcessionNamed ==
    Terminal(match) => \A p \in Player :
        LET mine == Filter([k \in DOMAIN events |-> k], LAMBDA k : OfferBy(p, k))
            Amt(i) == events[mine[i]].arg.amount
        IN  \A o \in DetectObservations(match, events, p) : o.type = "LARGEST_CONCESSION" =>
                /\ mine[o.n] = o.refs[1]
                /\ \A i \in 2 .. Len(mine) :
                     IF p = "BUYER" THEN Amt(i) * Amt(o.n - 1) <= Amt(o.n) * Amt(i - 1)
                     ELSE Amt(i) * Amt(o.n - 1) >= Amt(o.n) * Amt(i - 1)

PointsAt(moments, steps) ==
    /\ steps # <<>>
    /\ Len(moments) \in 1 .. MOMENT_CAP
    /\ moments[1].refs = <<Last(steps)>>
    /\ \A i \in DOMAIN moments : ToSet(moments[i].refs) \subseteq ToSet(steps)

\* Every moment of a review, and there are one to five, points at steps of the
\* timeline, and the RESULT at its last step (curate.ts:60-90, review.ts:54-68,
\* timeline.ts).
MomentsPointAtTimeline ==
    Terminal(match) => \A p \in Player :
        PointsAt(CurateReview(match, events, p), BuildTimeline(events))
=============================================================================
