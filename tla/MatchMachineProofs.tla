------------------------- MODULE MatchMachineProofs -------------------------
(***************************************************************************)
(* Theorems about every instance of MatchMachine, its views included.      *)
(***************************************************************************)
EXTENDS MatchMachine, MatchDomainProofs

-----------------------------------------------------------------------------
(* Type correctness                                                        *)

\* The first match is well formed.
LEMMA InitType == Init => TypeOK
<1> SUFFICES ASSUME Init PROVE TypeOK
  OBVIOUS
<1>1. PICK mode \in Modes, rv \in ReservationPairs, first \in Player :
        match = CreatedMatch(mode, rv, first)
  BY DEF Init
<1>2. mode \in Mode /\ rv \in [Player -> Amount]
  BY BoundsAssumption
<1> QED BY <1>1, <1>2, CreatedType DEF Init, TypeOK

\* Every step keeps the types.
LEMMA StepType == TypeOK /\ [Next]_vars => TypeOK'
<1> SUFFICES ASSUME TypeOK, [Next]_vars PROVE TypeOK'
  OBVIOUS
<1> USE DEF TypeOK
<1>1. ASSUME NEW p \in Player, Ready(p) PROVE TypeOK'
  BY <1>1, ReadyType DEF Ready, Commit
<1>2. ASSUME NEW p \in Player, NEW a \in Amount, Offer(p, a) PROVE TypeOK'
  <2>1. match.seq + 1 \in Nat
    BY DEF Match
  <2> QED BY <1>2, <2>1, OfferType DEF Offer, Commit
<1>3. ASSUME NEW p \in Player, NEW oid \in 1 .. match.seq, Accept(p, oid)
      PROVE  TypeOK'
  BY <1>3, EndingsType DEF Accept, CanAccept, Commit
<1>4. ASSUME NEW p \in Player, WalkAway(p) PROVE TypeOK'
  BY <1>4, EndingsType DEF WalkAway, Commit
<1>5. ASSUME NEW p \in Player, NEW fact \in Fact, Reveal(p, fact) PROVE TypeOK'
  BY <1>5, RevealType DEF Reveal, Commit
<1>6. ASSUME NEW p \in Player, NEW body \in {"text", "blank"}, Message(p, body)
      PROVE  TypeOK'
  BY <1>6 DEF Message, Commit, AfterMessage, Match
<1>7. ASSUME NEW p \in Player, Disconnect(p) \/ Reconnect(p) PROVE TypeOK'
  BY <1>7, PresenceType DEF Disconnect, Reconnect, Commit
<1>8. ASSUME NEW p \in Player, Timeout(p) PROVE TypeOK'
  BY <1>8, EndingsType DEF Timeout, Commit
<1>9. CASE Abort
  <2>1. "BUYER" \in Player
    BY DEF Player
  <2> QED BY <1>9, <2>1, EndingsType DEF Abort, Commit
<1>10. CASE Tick
  BY <1>10 DEF Tick
<1>11. CASE UNCHANGED vars
  BY <1>11 DEF vars
<1> QED BY <1>1, <1>2, <1>3, <1>4, <1>5, <1>6, <1>7, <1>8, <1>9, <1>10, <1>11
        DEF Next

\* For every configuration, reservation pair and bound, a match keeps the
\* shape types.ts declares.
THEOREM TypeCorrect == Spec => []TypeOK
BY InitType, StepType, PTL DEF Spec

-----------------------------------------------------------------------------
(* One clock                                                               *)

\* OneClock says nothing of the fields a step left alone.
LEMMA OneClockFrame ==
    ASSUME OneClock,
           match'.status = match.status, match'.active = match.active,
           match'.turnStartedAt = match.turnStartedAt,
           match.status = "PAUSED" =>
               match'.disconnected[match.active] = match.disconnected[match.active]
    PROVE  OneClock'
BY DEF OneClock, Live

\* Every ending satisfies it.
LEMMA OneClockEnded ==
    ASSUME match'.status \in {"DEAL", "NO_DEAL", "ABORTED"},
           match'.active = None, match'.turnStartedAt = None
    PROVE  OneClock'
BY DEF OneClock, Live

\* OneClock is inductive over well-formed matches.
LEMMA OneClockStep == TypeOK /\ OneClock /\ [Next]_vars => OneClock'
<1> SUFFICES ASSUME TypeOK, OneClock, [Next]_vars PROVE OneClock'
  OBVIOUS
<1>0. match \in Match /\ now \in Nat /\ now # None
  BY NoneAssumption DEF TypeOK
<1>1. ASSUME NEW p \in Player, Ready(p) PROVE OneClock'
  <2>1. match.status \in {"CREATED", "READY"} /\ match.first \in Player
    BY <1>0, <1>1 DEF Ready, CanReady, Match
  <2>2. match.active = None /\ match.turnStartedAt = None
    BY <2>1 DEF OneClock, Live
  <2>3. match' = AfterReady(match, p, now)
    BY <1>1 DEF Ready, Commit
  <2> QED BY <1>0, <2>1, <2>2, <2>3, ReadyFields DEF OneClock, Live
<1>2. ASSUME NEW p \in Player, NEW a \in Amount, Offer(p, a) PROVE OneClock'
  <2>1. match' = AfterOffer(match, p, match.seq + 1, a, now)
    BY <1>2 DEF Offer, Commit
  <2>2. /\ match'.active = Other(p)
        /\ match'.disconnected = match.disconnected
        /\ \/ /\ match'.status = "PAUSED"
              /\ match'.turnStartedAt = None
              /\ match.disconnected[Other(p)]
           \/ match'.status = "ACTIVE" /\ match'.turnStartedAt = now
    BY <1>0, <2>1, OfferTurn
  <2>3. Other(p) \in Player
    BY OtherIsPlayer
  <2> QED BY <1>0, <2>2, <2>3 DEF OneClock, Live
<1>3. ASSUME NEW p \in Player, NEW oid \in 1 .. match.seq, Accept(p, oid)
      PROVE  OneClock'
  <2>1. match' = AfterAccept(match, p, now)
    BY <1>3 DEF Accept, Commit
  <2> QED BY <1>0, <2>1, EndedFields, OneClockEnded DEF AfterAccept
<1>4. ASSUME NEW p \in Player, WalkAway(p) PROVE OneClock'
  <2>1. match' = AfterWalkAway(match, now)
    BY <1>4 DEF WalkAway, Commit
  <2> QED BY <1>0, <2>1, EndedFields, OneClockEnded DEF AfterWalkAway
<1>5. ASSUME NEW p \in Player, NEW fact \in Fact, Reveal(p, fact) PROVE OneClock'
  <2>1. match' = AfterReveal(match, p, fact, now)
    BY <1>5 DEF Reveal, Commit
  <2> QED BY <1>0, <2>1, RevealFields, OtherIsPlayer DEF OneClock, Live
<1>6. ASSUME NEW p \in Player, NEW body \in {"text", "blank"}, Message(p, body)
      PROVE  OneClock'
  <2>1. match' = AfterMessage(match)
    BY <1>6 DEF Message, Commit
  <2> QED BY <1>0, <2>1, MessageFields, OneClockFrame
<1>7. ASSUME NEW p \in Player, Disconnect(p) PROVE OneClock'
  <2>1. match' = AfterDisconnect(match, p, now)
    BY <1>7 DEF Disconnect, Commit
  <2>2. match.disconnected \in [Player -> BOOLEAN]
    BY <1>0 DEF Match
  <2>3. CASE match' = match
    BY <2>3, OneClockFrame
  <2>4. CASE match' # match
    <3>1. /\ match'.active = match.active
          /\ match'.disconnected = [match.disconnected EXCEPT ![p] = TRUE]
          /\ IF OwnsTurn(match, p)
             THEN match'.status = "PAUSED" /\ match'.turnStartedAt = None
             ELSE match'.status = match.status /\ match'.turnStartedAt = match.turnStartedAt
      BY <1>0, <2>1, <2>4, DisconnectFields
    <3> QED BY <2>2, <3>1 DEF OneClock, Live, OwnsTurn
  <2> QED BY <2>3, <2>4
<1>8. ASSUME NEW p \in Player, Reconnect(p) PROVE OneClock'
  <2>1. match' = AfterReconnect(match, p, now)
    BY <1>8 DEF Reconnect, Commit
  <2>2. match.disconnected \in [Player -> BOOLEAN]
    BY <1>0 DEF Match
  <2>3. CASE match' = match
    BY <2>3, OneClockFrame
  <2>4. CASE match' # match
    <3>1. /\ match'.active = match.active
          /\ match'.disconnected = [match.disconnected EXCEPT ![p] = FALSE]
          /\ IF match.status = "PAUSED" /\ match.active = p
             THEN match'.status = "ACTIVE" /\ match'.turnStartedAt = now
             ELSE match'.status = match.status /\ match'.turnStartedAt = match.turnStartedAt
      BY <1>0, <2>1, <2>4, ReconnectFields
    <3> QED BY <1>0, <2>2, <3>1 DEF OneClock, Live
  <2> QED BY <2>3, <2>4
<1>9. ASSUME NEW p \in Player, Timeout(p) PROVE OneClock'
  <2>1. match' = AfterTimeout(match, now)
    BY <1>9 DEF Timeout, Commit
  <2> QED BY <1>0, <2>1, EndedFields, OneClockEnded DEF AfterTimeout
<1>10. CASE Abort
  <2>1. match' = AfterAbort(match, now)
    BY <1>10 DEF Abort, Commit
  <2>2. CASE Terminal(match)
    BY <2>1, <2>2, OneClockFrame DEF AfterAbort
  <2>3. CASE ~Terminal(match)
    BY <1>0, <2>1, <2>3, EndedFields, OneClockEnded DEF AfterAbort
  <2> QED BY <2>2, <2>3
<1>11. CASE Tick \/ UNCHANGED vars
  BY <1>11, OneClockFrame DEF Tick, vars
<1> QED BY <1>1, <1>2, <1>3, <1>4, <1>5, <1>6, <1>7, <1>8, <1>9, <1>10, <1>11
        DEF Next

\* For every configuration and every interleaving of moves, chat, absences,
\* returns, timeouts and aborts: an ACTIVE match has one running clock, a PAUSED
\* one has none and waits for an absent player, any other has no turn at all.
THEOREM ClockIsOne == Spec => []OneClock
<1>1. Init => OneClock
  BY DEF Init, CreatedMatch, OneClock, Live
<1>2. TypeOK /\ OneClock /\ [Next]_vars => OneClock'
  BY OneClockStep
<1> QED BY <1>1, <1>2, TypeCorrect, PTL DEF Spec

-----------------------------------------------------------------------------
(* What a step does to the bids and to the outcome                         *)

\* It leaves both alone,
GoesOn ==
    /\ SameBids(match, match')
    /\ SameEnd(match, match')
    /\ match'.status = match.status \/ (Running(match) /\ Running(match'))

\* or it publishes a legal offer,
Concedes(p, a) ==
    /\ CanOffer(match, p, a, now)
    /\ match.status = "ACTIVE"
    /\ Running(match')
    /\ SameEnd(match, match')
    /\ match'.rv = match.rv
    /\ match'.latest = [match.latest EXCEPT ![p] = a]
    /\ match'.opening = [match.opening EXCEPT ![p] = IF @ = None THEN a ELSE @]
    /\ match'.chipsSpent = [match.chipsSpent EXCEPT ![p] = @ + OfferCost(match, p, a)]

\* or it strikes a deal at an offer its player can afford,
Strikes(p) ==
    /\ match.status = "ACTIVE"
    /\ match.active = p
    /\ match.latest[Other(p)] # None
    /\ WithinReservation(match, p, match.latest[Other(p)])
    /\ SameBids(match, match')
    /\ match'.status = "DEAL"
    /\ match'.settlement = match.latest[Other(p)]

\* or it ends a running match without a deal.
Breaks ==
    /\ Running(match)
    /\ SameBids(match, match')
    /\ match'.status \in {"NO_DEAL", "ABORTED"}

StepKind ==
    \/ GoesOn
    \/ \E p \in Player, a \in Amount : Concedes(p, a)
    \/ \E p \in Player : Strikes(p)
    \/ Breaks

\* A step that changes neither bids, nor outcome, nor status goes on.
LEMMA GoesOnFrame ==
    ASSUME match' = match PROVE GoesOn
BY DEF GoesOn, SameBids, SameEnd

\* Every step is of one of these kinds.
LEMMA StepKinds == TypeOK /\ [Next]_vars => StepKind
<1> SUFFICES ASSUME TypeOK, [Next]_vars PROVE StepKind
  OBVIOUS
<1>0. match \in Match /\ match.status \in Status
  BY DEF TypeOK, Match
<1>1. ASSUME NEW p \in Player, Ready(p) PROVE GoesOn
  <2>1. match' = AfterReady(match, p, now) /\ CanReady(match)
    BY <1>1 DEF Ready, Commit
  <2> QED BY <1>0, <2>1, ReadyFields DEF GoesOn, CanReady, Running
<1>2. ASSUME NEW p \in Player, NEW a \in Amount, Offer(p, a) PROVE Concedes(p, a)
  <2>1. match' = AfterOffer(match, p, match.seq + 1, a, now)
    BY <1>2 DEF Offer, Commit
  <2>2. CanOffer(match, p, a, now) /\ match.status = "ACTIVE"
    BY <1>2 DEF Offer, CanOffer, HasTurn
  <2>3. Running(match') /\ SameEnd(match, match')
    BY <1>0, <2>1, OfferTurn DEF Running
  <2>4. /\ match'.rv = match.rv
        /\ match'.latest = [match.latest EXCEPT ![p] = a]
        /\ match'.opening = [match.opening EXCEPT ![p] = IF @ = None THEN a ELSE @]
        /\ match'.chipsSpent = [match.chipsSpent EXCEPT ![p] = @ + OfferCost(match, p, a)]
    BY <1>0, <2>1, OfferBids
  <2> QED BY <2>2, <2>3, <2>4 DEF Concedes
<1>3. ASSUME NEW p \in Player, NEW oid \in 1 .. match.seq, Accept(p, oid)
      PROVE  Strikes(p)
  <2>1. match' = AfterAccept(match, p, now)
    BY <1>3 DEF Accept, Commit
  <2>2. /\ match.status = "ACTIVE" /\ match.active = p
        /\ match.latest[Other(p)] # None
        /\ WithinReservation(match, p, match.latest[Other(p)])
    BY <1>3 DEF Accept, CanAccept, HasTurn
  <2> QED BY <1>0, <2>1, <2>2, EndedFields DEF AfterAccept, Strikes
<1>4. ASSUME NEW p \in Player, WalkAway(p) PROVE Breaks
  <2>1. match' = AfterWalkAway(match, now) /\ Running(match)
    BY <1>4 DEF WalkAway, CanWalkAway, HasTurn, Commit, Running
  <2> QED BY <1>0, <2>1, EndedFields DEF AfterWalkAway, Breaks
<1>5. ASSUME NEW p \in Player, NEW fact \in Fact, Reveal(p, fact) PROVE GoesOn
  <2>1. match' = AfterReveal(match, p, fact, now) /\ Running(match)
    BY <1>5 DEF Reveal, CanReveal, HasTurn, Commit, Running
  <2> QED BY <1>0, <2>1, RevealFields DEF GoesOn, Running
<1>6. ASSUME NEW p \in Player, NEW body \in {"text", "blank"}, Message(p, body)
      PROVE  GoesOn
  <2>1. match' = AfterMessage(match)
    BY <1>6 DEF Message, Commit
  <2> QED BY <1>0, <2>1, MessageFields DEF GoesOn
<1>7. ASSUME NEW p \in Player, Disconnect(p) PROVE GoesOn
  <2>1. match' = AfterDisconnect(match, p, now)
    BY <1>7 DEF Disconnect, Commit
  <2>2. SameBids(match, match') /\ SameEnd(match, match')
    BY <1>0, <2>1, DisconnectFields
  <2>3. match'.status = match.status \/ (match.status = "ACTIVE" /\ match'.status = "PAUSED")
    <3>1. CASE match' = match
      BY <3>1
    <3>2. CASE match' # match
      <4>1. IF OwnsTurn(match, p)
            THEN match'.status = "PAUSED" /\ match'.turnStartedAt = None
            ELSE match'.status = match.status /\ match'.turnStartedAt = match.turnStartedAt
        BY <1>0, <2>1, <3>2, DisconnectFields
      <4> QED BY <4>1 DEF OwnsTurn
    <3> QED BY <3>1, <3>2
  <2> QED BY <2>2, <2>3 DEF GoesOn, Running
<1>8. ASSUME NEW p \in Player, Reconnect(p) PROVE GoesOn
  <2>1. match' = AfterReconnect(match, p, now)
    BY <1>8 DEF Reconnect, Commit
  <2>2. SameBids(match, match') /\ SameEnd(match, match')
    BY <1>0, <2>1, ReconnectFields
  <2>3. match'.status = match.status \/ (match.status = "PAUSED" /\ match'.status = "ACTIVE")
    BY <1>0, <2>1, ReconnectStatus
  <2> QED BY <2>2, <2>3 DEF GoesOn, Running
<1>9. ASSUME NEW p \in Player, Timeout(p) PROVE Breaks
  <2>1. match' = AfterTimeout(match, now) /\ Running(match)
    BY <1>9 DEF Timeout, CanTimeout, Commit, Running
  <2> QED BY <1>0, <2>1, EndedFields DEF AfterTimeout, Breaks
<1>10. CASE Abort
  <2>1. match' = AfterAbort(match, now)
    BY <1>10 DEF Abort, Commit
  <2>2. CASE Terminal(match)
    BY <2>1, <2>2, GoesOnFrame DEF AfterAbort, StepKind
  <2>3. CASE ~Terminal(match)
    <3>1. Running(match)
      BY <1>0, <2>3 DEF Terminal, Running, Status
    <3> QED BY <1>0, <2>1, <2>3, <3>1, EndedFields DEF AfterAbort, Breaks, StepKind
  <2> QED BY <2>2, <2>3
<1>11. CASE Tick \/ UNCHANGED vars
  BY <1>11, GoesOnFrame DEF Tick, vars, StepKind
<1> QED BY <1>1, <1>2, <1>3, <1>4, <1>5, <1>6, <1>7, <1>8, <1>9, <1>10, <1>11
        DEF Next, StepKind

-----------------------------------------------------------------------------
(* Deals and offers                                                        *)

\* Whoever owns a bid can afford it: what acceptance relies on.
BidsAffordable ==
    \A p \in Player :
        match.latest[p] # None => WithinReservation(match, p, match.latest[p])

\* A deal is struck inside both values.
DealInside ==
    match.status = "DEAL" =>
        match.rv["SELLER"] <= match.settlement /\ match.settlement <= match.rv["BUYER"]

DealInv == TypeOK /\ BidsAffordable /\ DealInside

\* A reservation value that stays makes the same bids affordable.
LEMMA AffordableFrame ==
    ASSUME BidsAffordable, SameBids(match, match') PROVE BidsAffordable'
BY DEF BidsAffordable, SameBids, WithinReservation

\* Every kind of step keeps the bids affordable and a deal inside both values.
LEMMA DealStep == DealInv /\ [Next]_vars => BidsAffordable' /\ DealInside'
<1> SUFFICES ASSUME DealInv, [Next]_vars
             PROVE  BidsAffordable' /\ DealInside'
  OBVIOUS
<1>0. match \in Match /\ StepKind
  BY StepKinds DEF DealInv, TypeOK
<1>1. CASE GoesOn
  <2>1. BidsAffordable'
    BY <1>1, AffordableFrame DEF DealInv, GoesOn
  <2>2. match'.status = "DEAL" => match.status = "DEAL"
    BY <1>1 DEF GoesOn, Running
  <2>3. /\ match'.settlement = match.settlement
        /\ match'.rv = match.rv
        /\ match'.latest = match.latest
    BY <1>1 DEF GoesOn, SameBids, SameEnd
  <2> QED BY <2>1, <2>2, <2>3 DEF DealInv, DealInside
<1>2. ASSUME NEW p \in Player, NEW a \in Amount, Concedes(p, a)
      PROVE  BidsAffordable' /\ DealInside'
  <2>1. WithinReservation(match, p, a) /\ match'.rv = match.rv
    BY <1>2 DEF Concedes, CanOffer
  <2>2. \A q \in Player : match'.latest[q] = IF q = p THEN a ELSE match.latest[q]
    BY <1>0, <1>2 DEF Concedes, Match
  <2>3. BidsAffordable'
    BY <2>1, <2>2 DEF DealInv, BidsAffordable, WithinReservation
  <2>4. match'.status # "DEAL"
    BY <1>2 DEF Concedes, Running
  <2> QED BY <2>3, <2>4 DEF DealInside
<1>3. ASSUME NEW p \in Player, Strikes(p)
      PROVE  BidsAffordable' /\ DealInside'
  <2> DEFINE price == match.latest[Other(p)]
  <2>1. Other(p) \in Player /\ Other(p) # p
    BY OtherIsPlayer
  <2>2. WithinReservation(match, p, price) /\ WithinReservation(match, Other(p), price)
    BY <1>3, <2>1 DEF Strikes, DealInv, BidsAffordable
  <2>3. match.rv["SELLER"] <= price /\ price <= match.rv["BUYER"]
    <3>1. \A a \in Amount : a \in Int
      BY ConfigAssumption DEF Amount
    <3>2. match.rv \in [Player -> Amount] /\ match.latest \in [Player -> Amount \cup {None}]
      BY <1>0 DEF Match
    <3>3. price \in Amount
      BY <1>3, <2>1, <3>2 DEF Strikes
    <3>4. match.rv["SELLER"] \in Amount /\ match.rv["BUYER"] \in Amount
      BY <3>2 DEF Player
    <3>5. price \in Int /\ match.rv["SELLER"] \in Int /\ match.rv["BUYER"] \in Int
      BY <3>1, <3>3, <3>4
    <3> HIDE DEF price
    <3> QED BY <2>1, <2>2, <3>5 DEF WithinReservation, Player
  <2>4. /\ match'.rv = match.rv /\ match'.settlement = price
        /\ match'.latest = match.latest
    BY <1>3 DEF Strikes, SameBids
  <2>5. BidsAffordable'
    BY <1>3, AffordableFrame DEF Strikes, DealInv
  <2> QED BY <2>1, <2>3, <2>4, <2>5 DEF DealInside
<1>4. CASE Breaks
  BY <1>4, AffordableFrame DEF Breaks, DealInv, DealInside
<1> QED BY <1>0, <1>1, <1>2, <1>3, <1>4 DEF StepKind

LEMMA DealsStayInside == Spec => [](TypeOK /\ DealInside)
<1>1. Init => BidsAffordable /\ DealInside
  BY DEF Init, CreatedMatch, BidsAffordable, DealInside
<1>2. TypeOK /\ BidsAffordable /\ DealInside /\ [Next]_vars => BidsAffordable' /\ DealInside'
  BY DealStep DEF DealInv
<1> QED BY <1>1, <1>2, TypeCorrect, PTL DEF Spec

\* Only an acceptance makes a deal, at the offer of the opponent of the player
\* on turn.
LEMMA DealIsAccepted ==
    TypeOK /\ [Next]_vars /\ match.status # "DEAL" /\ match'.status = "DEAL" =>
        match.active \in Player /\ match'.settlement = match.latest[Other(match.active)]
<1> SUFFICES ASSUME TypeOK, [Next]_vars, match.status # "DEAL", match'.status = "DEAL"
             PROVE  match.active \in Player /\ match'.settlement = match.latest[Other(match.active)]
  OBVIOUS
<1>1. StepKind
  BY StepKinds
<1>2. PICK p \in Player : Strikes(p)
  BY <1>1 DEF StepKind, GoesOn, Concedes, Running, Breaks
<1> QED BY <1>2 DEF Strikes

\* Whatever the reservation values, prices and budget: a deal is struck inside
\* both reservation values, at the offer of the player who does not accept.
THEOREM DealsAreInside == Spec => DealInsideBothReservations
<1>1. TypeOK /\ DealInside /\ (TypeOK /\ DealInside)' /\ [Next]_vars =>
        [match'.status = "DEAL" =>
          /\ match'.rv["SELLER"] <= match'.settlement
          /\ match'.settlement <= match'.rv["BUYER"]
          /\ match.status # "DEAL" =>
               /\ match.active \in Player
               /\ match'.settlement = match.latest[Other(match.active)]]_vars
  BY DealIsAccepted DEF DealInside
<1> QED BY <1>1, DealsStayInside, PTL DEF Spec, DealInsideBothReservations

-----------------------------------------------------------------------------
(* The refinement of the abstract bargain                                  *)

\* A well-formed match takes only steps of the bargain, or leaves it alone.
LEMMA BargainStep == TypeOK /\ [Next]_vars => [B!Next]_(B!bargainVars)
<1> SUFFICES ASSUME TypeOK, [Next]_vars PROVE [B!Next]_(B!bargainVars)
  OBVIOUS
<1>0. match \in Match /\ StepKind
  BY StepKinds DEF TypeOK
<1>1. CASE GoesOn
  <2>1. Outcome' = Outcome
    BY <1>1 DEF GoesOn, SameEnd, Running, Outcome
  <2>2. match'.rv = match.rv /\ match'.latest = match.latest
    BY <1>1 DEF GoesOn, SameBids
  <2> QED BY <2>1, <2>2 DEF B!bargainVars
<1>2. ASSUME NEW p \in Player, NEW a \in Amount, Concedes(p, a) PROVE B!Bid(p, a)
  <2>1. Outcome = None /\ Outcome' = None
    BY <1>2 DEF Concedes, Running, Outcome
  <2>2. B!Affordable(p, a)
    BY <1>2 DEF Concedes, CanOffer, WithinReservation, B!Affordable
  <2>3. match.latest[p] # None => B!Improves(p, match.latest[p], a)
    BY <1>2 DEF Concedes, CanOffer, TowardOpponent, B!Improves
  <2> QED BY <1>2, <2>1, <2>2, <2>3 DEF Concedes, B!Bid
<1>3. ASSUME NEW p \in Player, Strikes(p) PROVE B!Strike(p)
  <2>1. Outcome = None /\ Outcome' = match.latest[Other(p)]
    BY <1>3 DEF Strikes, Outcome
  <2>2. B!Opposite(p) = Other(p)
    BY DEF B!Opposite, Other
  <2>3. B!Affordable(p, match.latest[Other(p)])
    BY <1>3 DEF Strikes, WithinReservation, B!Affordable
  <2> QED BY <1>3, <2>1, <2>2, <2>3 DEF Strikes, SameBids, B!Strike
<1>4. CASE Breaks
  <2>1. Outcome = None /\ Outcome' = 0
    BY <1>4 DEF Breaks, Running, Outcome
  <2> QED BY <1>4, <2>1 DEF Breaks, SameBids, B!Break, B!Broken, B!Next
<1>5. Player = B!Side /\ Amount = 1 .. MaxAmount
  BY DEF Player, B!Side, Amount
<1> QED BY <1>0, <1>1, <1>2, <1>3, <1>4, <1>5 DEF StepKind, B!Next

\* For every configuration, the detailed match implements the abstract bargain.
THEOREM MatchImplementsBargain == Spec => ImplementsBargain
<1>1. Init => B!Init
  <2> SUFFICES ASSUME Init PROVE B!Init
    OBVIOUS
  <2>1. PICK mode \in Modes, rv \in ReservationPairs, first \in Player :
          match = CreatedMatch(mode, rv, first)
    BY DEF Init
  <2>2. /\ match.rv = rv /\ match.latest = [p \in Player |-> None]
        /\ match.status = "CREATED"
    BY <2>1 DEF CreatedMatch
  <2> QED BY <2>2 DEF B!Init, B!Side, Player, Outcome
<1>2. TypeOK /\ [Next]_vars => [B!Next]_(B!bargainVars)
  BY BargainStep
<1> QED BY <1>1, <1>2, TypeCorrect, PTL DEF Spec, ImplementsBargain, B!Spec

-----------------------------------------------------------------------------
(* The budget: no sequence of concessions overdraws it or goes backwards   *)

\* A player without an offer has spent nothing; one with an offer is either
\* still at the opening and has spent nothing, or has moved on and has paid.
PaidForMovement(p) ==
    \/ match.latest[p] = None /\ match.opening[p] = None /\ match.chipsSpent[p] = 0
    \/ /\ match.latest[p] # None /\ match.opening[p] # None
       /\ \/ match.latest[p] = match.opening[p] /\ match.chipsSpent[p] = 0
          \/ /\ TowardOpponent(p, match.opening[p], match.latest[p])
             /\ match.chipsSpent[p] \in 1 .. Budget

Paid == \A p \in Player : PaidForMovement(p)

\* What is on the table of a match, typed without the rest of the record.
LEMMA TableTypes ==
    ASSUME TypeOK
    PROVE  /\ match.latest \in [Player -> Amount \cup {None}]
           /\ match.opening \in [Player -> Amount \cup {None}]
           /\ match.chipsSpent \in [Player -> Nat]
BY DEF TypeOK, Match

\* A legal offer of one player keeps that player's movement paid.
LEMMA OfferPays ==
    ASSUME TypeOK, NEW p \in Player, NEW a \in Amount,
           PaidForMovement(p), Concedes(p, a)
    PROVE  PaidForMovement(p)'
<1>0. /\ match.latest[p] \in Amount \cup {None}
      /\ match.opening[p] \in Amount \cup {None}
      /\ match.chipsSpent[p] \in Nat
      /\ Budget \in Nat
  BY TableTypes, ConfigAssumption
<1> DEFINE cost == OfferCost(match, p, a)
<1>1. /\ match'.latest[p] = a
      /\ match'.opening[p] = IF match.opening[p] = None THEN a ELSE match.opening[p]
      /\ match'.chipsSpent[p] = match.chipsSpent[p] + cost
  BY TableTypes DEF Concedes
<1>2. a # None
  BY AmountsAreIntegers
<1>3. CASE match.latest[p] = None
  <2>1. cost = 0
    BY <1>3 DEF OfferCost
  <2> HIDE DEF cost
  <2>2. match.opening[p] = None /\ match.chipsSpent[p] = 0
    BY <1>3 DEF PaidForMovement
  <2>3. match'.latest[p] = a /\ match'.opening[p] = a /\ match'.chipsSpent[p] = 0
    BY <1>1, <2>1, <2>2
  <2> QED BY <1>2, <2>3 DEF PaidForMovement
<1>4. CASE match.latest[p] # None
  <2>1. match.latest[p] \in Amount /\ match.opening[p] \in Amount
    BY <1>0, <1>4 DEF PaidForMovement
  <2>2. /\ TowardOpponent(p, match.latest[p], a)
        /\ match.chipsSpent[p] + cost <= Budget
    BY <1>2, <1>4 DEF Concedes, CanOffer
  <2>3. match.latest[p] # a
    BY <2>1, <2>2, MovementOrders
  <2>4. cost \in Nat /\ cost >= 1
    BY <1>4, <2>1, <2>3, MovesCost DEF OfferCost
  <2> HIDE DEF cost
  <2>5. TowardOpponent(p, match.opening[p], a)
    <3>1. CASE match.latest[p] = match.opening[p]
      BY <2>2, <3>1
    <3>2. CASE TowardOpponent(p, match.opening[p], match.latest[p])
      BY <2>1, <2>2, <3>2, MovementOrders
    <3> QED BY <1>4, <3>1, <3>2 DEF PaidForMovement
  <2>6. match'.chipsSpent[p] \in 1 .. Budget
    BY <1>0, <1>1, <2>2, <2>4
  <2>7. match'.opening[p] = match.opening[p] /\ match'.opening[p] # None
    BY <1>1, <2>1, AmountsAreIntegers
  <2> QED BY <1>1, <1>2, <2>5, <2>6, <2>7 DEF PaidForMovement
<1> QED BY <1>3, <1>4

\* Every step keeps every movement paid.
LEMMA PaidStep == TypeOK /\ Paid /\ [Next]_vars => Paid'
<1> SUFFICES ASSUME TypeOK, Paid, [Next]_vars, NEW q \in Player
             PROVE  PaidForMovement(q)'
  BY DEF Paid
<1>0. PaidForMovement(q) /\ StepKind
  BY StepKinds DEF Paid
<1>1. CASE SameBids(match, match')
  BY <1>0, <1>1 DEF SameBids, PaidForMovement
<1>2. ASSUME NEW p \in Player, NEW a \in Amount, Concedes(p, a)
      PROVE  PaidForMovement(q)'
  <2>1. CASE q = p
    BY <1>0, <1>2, <2>1, OfferPays
  <2>2. CASE q # p
    <3>1. /\ match'.latest[q] = match.latest[q]
          /\ match'.opening[q] = match.opening[q]
          /\ match'.chipsSpent[q] = match.chipsSpent[q]
      BY <1>2, <2>2, TableTypes DEF Concedes
    <3> QED BY <1>0, <3>1 DEF PaidForMovement
  <2> QED BY <2>1, <2>2
<1> QED BY <1>0, <1>1, <1>2 DEF StepKind, GoesOn, Strikes, Breaks

\* Whatever the prices of movement and the budget, as long as movement costs at
\* least one chip: nobody overdraws the budget, and chips are spent by moving
\* away from the opening offer and by nothing else.
THEOREM BudgetHolds == Spec => []ChipsWithinBudget
<1>1. Init => Paid
  BY DEF Init, CreatedMatch, Paid, PaidForMovement
<1>2. TypeOK /\ Paid /\ [Next]_vars => Paid'
  BY PaidStep
<1>3. TypeOK /\ Paid => ChipsWithinBudget
  <2> SUFFICES ASSUME TypeOK, Paid, NEW p \in Player
               PROVE  /\ match.chipsSpent[p] <= Budget
                      /\ match.chipsSpent[p] = 0 <=> match.latest[p] = match.opening[p]
    BY DEF ChipsWithinBudget
  <2>1. PaidForMovement(p) /\ Budget \in Nat
    BY ConfigAssumption DEF Paid
  <2>2. CASE match.chipsSpent[p] = 0 /\ match.latest[p] = match.opening[p]
    BY <2>1, <2>2
  <2>3. CASE /\ match.latest[p] # None /\ match.opening[p] # None
             /\ TowardOpponent(p, match.opening[p], match.latest[p])
             /\ match.chipsSpent[p] \in 1 .. Budget
    <3>1. match.latest[p] \in Amount /\ match.opening[p] \in Amount
      BY <2>3, TableTypes
    <3>2. match.latest[p] # match.opening[p]
      BY <2>3, <3>1, MovementOrders
    <3> QED BY <2>1, <2>3, <3>2
  <2> QED BY <2>1, <2>2, <2>3 DEF PaidForMovement
<1> QED BY <1>1, <1>2, <1>3, TypeCorrect, PTL DEF Spec

\* What OffersOnlyConcede asks of one step.
ConcedesOnly ==
    \A p \in Player :
        match.latest[p] # None =>
          /\ match'.opening[p] = match.opening[p]
          /\ match'.latest[p] # match.latest[p] =>
               B!Improves(p, match.latest[p], match'.latest[p])

\* No step of any match retracts an offer, moves one backwards or rewrites an
\* opening: command by command, whatever the order they come in.
THEOREM ConcessionsAreMonotone == Spec => OffersOnlyConcede
<1>1. TypeOK /\ Paid /\ [Next]_vars => ConcedesOnly
  <2> SUFFICES ASSUME TypeOK, Paid, [Next]_vars, NEW q \in Player, match.latest[q] # None
               PROVE  /\ match'.opening[q] = match.opening[q]
                      /\ match'.latest[q] # match.latest[q] =>
                           B!Improves(q, match.latest[q], match'.latest[q])
    BY DEF ConcedesOnly
  <2>0. StepKind
    BY StepKinds
  <2>1. CASE SameBids(match, match')
    BY <2>1 DEF SameBids
  <2>2. ASSUME NEW p \in Player, NEW a \in Amount, Concedes(p, a)
        PROVE  /\ match'.opening[q] = match.opening[q]
               /\ match'.latest[q] # match.latest[q] =>
                    B!Improves(q, match.latest[q], match'.latest[q])
    <3>1. match'.latest[q] = IF q = p THEN a ELSE match.latest[q]
      BY <2>2, TableTypes DEF Concedes
    <3>2. match.opening[q] # None
      BY DEF Paid, PaidForMovement
    <3>3. match'.opening[q] = match.opening[q]
      BY <2>2, <3>2, TableTypes DEF Concedes
    <3>4. q = p => TowardOpponent(q, match.latest[q], a)
      BY <2>2 DEF Concedes, CanOffer
    <3> QED BY <3>1, <3>3, <3>4 DEF TowardOpponent, B!Improves
  <2> QED BY <2>0, <2>1, <2>2 DEF StepKind, GoesOn, Strikes, Breaks
<1>2. Init => Paid
  BY DEF Init, CreatedMatch, Paid, PaidForMovement
<1>3. TypeOK /\ Paid /\ [Next]_vars => Paid'
  BY PaidStep
<1> QED BY <1>1, <1>2, <1>3, TypeCorrect, PTL DEF Spec, OffersOnlyConcede, ConcedesOnly

-----------------------------------------------------------------------------
(* Decision time: none is lost, and nothing commits past the limit         *)

-----------------------------------------------------------------------------
(* What a step does to the clocks                                          *)

\* It leaves turn and clocks alone,
Waits ==
    /\ match'.startedAt = match.startedAt
    /\ match'.status \in {match.status} \cup
          (IF match.status \in {"CREATED", "READY"} THEN {"READY"} ELSE {})
    /\ SameClock(match, match')
    /\ match'.reason = match.reason
    /\ SameTable(match, match')

\* or it starts the match,
Opens ==
    /\ match.status \in {"CREATED", "READY"}
    /\ match'.status = "ACTIVE"
    /\ match'.startedAt = now /\ match'.turnStartedAt = now
    /\ match'.cumulative = match.cumulative
    /\ match'.reason = match.reason
    /\ SameTable(match, match')

\* or player p moves in time, and the turn passes,
Passes(p) ==
    /\ HasTurn(match, p, now)
    /\ match'.status \in {"ACTIVE", "PAUSED"}
    /\ match'.active = Other(p)
    /\ match'.turnStartedAt \in {None, now}
    /\ match'.cumulative = FrozenClock(match, now)
    /\ match'.startedAt = match.startedAt
    /\ match'.reason = match.reason
    /\ match'.latest[p] # match.latest[p] \/ match'.revealed[p] # match.revealed[p]

\* or the player on turn leaves,
Pauses(p) ==
    /\ OwnsTurn(match, p)
    /\ match'.status = "PAUSED"
    /\ match'.active = p
    /\ match'.turnStartedAt = None
    /\ match'.cumulative = FrozenClock(match, now)
    /\ match'.startedAt = match.startedAt
    /\ match'.reason = match.reason
    /\ SameTable(match, match')

\* or that player returns,
Resumes ==
    /\ match.status = "PAUSED"
    /\ match'.status = "ACTIVE"
    /\ match'.active = match.active
    /\ match'.turnStartedAt = now
    /\ match'.cumulative = match.cumulative
    /\ match'.startedAt = match.startedAt
    /\ match'.reason = match.reason
    /\ SameTable(match, match')

\* or the match ends: by a move in time, a timeout that is due, or an abort.
Ends ==
    /\ ~Terminal(match)
    /\ Terminal(match')
    /\ match'.active = None
    /\ match'.turnStartedAt = None
    /\ match'.cumulative = FrozenClock(match, now)
    /\ match'.startedAt = match.startedAt
    /\ SameTable(match, match')
    /\ \/ /\ match'.reason \in {"ACCEPTED", "WALKED_AWAY"}
          /\ \E p \in Player : HasTurn(match, p, now)
       \/ /\ match'.reason = "TIMED_OUT"
          /\ \E p \in Player : CanTimeout(match, p, now)
       \/ match'.reason = "ABORTED"

ClockKind ==
    \/ /\ UNCHANGED <<now, frozen>>
       /\ \/ Waits \/ Opens \/ Resumes \/ Ends
          \/ \E p \in Player : Passes(p) \/ Pauses(p)
    \/ Tick

\* Every step is of one of these kinds.
LEMMA ClockKinds == TypeOK /\ [Next]_vars => ClockKind
<1> SUFFICES ASSUME TypeOK, [Next]_vars PROVE ClockKind
  OBVIOUS
<1>0. match \in Match /\ now \in Nat
  BY DEF TypeOK
<1>1. ASSUME NEW p \in Player, Ready(p) PROVE ClockKind
  <2>1. /\ match' = AfterReady(match, p, now)
        /\ match.status \in {"CREATED", "READY"}
        /\ UNCHANGED <<now, frozen>>
    BY <1>1 DEF Ready, CanReady, Commit
  <2>2. Waits \/ Opens
    BY <1>0, <2>1, ReadyClock DEF Waits, Opens, SameClock
  <2> QED BY <2>1, <2>2 DEF ClockKind
<1>2. ASSUME NEW p \in Player, NEW a \in Amount, Offer(p, a) PROVE ClockKind
  <2>1. /\ match' = AfterOffer(match, p, match.seq + 1, a, now)
        /\ CanOffer(match, p, a, now)
        /\ UNCHANGED <<now, frozen>>
    BY <1>2 DEF Offer, Commit
  <2>2. match.seq + 1 \in Nat /\ match.latest \in [Player -> Amount \cup {None}]
    BY <1>0 DEF Match
  <2>3. HasTurn(match, p, now) /\ match.latest[p] # a
    BY <1>0, <2>1, OfferDiffers DEF CanOffer
  <2>4. /\ match'.status \in {"ACTIVE", "PAUSED"}
        /\ match'.active = Other(p)
        /\ match'.turnStartedAt \in {None, now}
        /\ match'.cumulative = FrozenClock(match, now)
        /\ match'.startedAt = match.startedAt
        /\ match'.reason = match.reason
    BY <1>0, <2>1, <2>2, OfferClock
  <2>5. match'.latest[p] # match.latest[p]
    <3>1. match'.latest = [match.latest EXCEPT ![p] = a]
      BY <1>0, <2>1 DEF AfterOffer, Handover, Conceded, Match
    <3> QED BY <2>2, <2>3, <3>1
  <2> QED BY <2>1, <2>3, <2>4, <2>5 DEF ClockKind, Passes
<1>3. ASSUME NEW p \in Player, NEW oid \in 1 .. match.seq, Accept(p, oid)
      PROVE  ClockKind
  <2>1. /\ match' = Ended(match, "DEAL", "ACCEPTED", match.latest[Other(p)], 2, now)
        /\ HasTurn(match, p, now)
        /\ UNCHANGED <<now, frozen>>
    BY <1>3 DEF Accept, AfterAccept, CanAccept, Commit
  <2>2. match.latest[Other(p)] \in Amount \cup {None} /\ "ACCEPTED" \in Reason
    BY <1>0, OtherIsPlayer DEF Match, Reason
  <2>3. Ends
    BY <1>0, <2>1, <2>2, EndedClock DEF Ends, Terminal, HasTurn
  <2> QED BY <2>1, <2>3 DEF ClockKind
<1>4. ASSUME NEW p \in Player, WalkAway(p) PROVE ClockKind
  <2>1. /\ match' = Ended(match, "NO_DEAL", "WALKED_AWAY", match.settlement, 2, now)
        /\ HasTurn(match, p, now)
        /\ UNCHANGED <<now, frozen>>
    BY <1>4 DEF WalkAway, AfterWalkAway, CanWalkAway, Commit
  <2>2. match.settlement \in Amount \cup {None} /\ "WALKED_AWAY" \in Reason
    BY <1>0 DEF Match, Reason
  <2>3. Ends
    BY <1>0, <2>1, <2>2, EndedClock DEF Ends, Terminal, HasTurn
  <2> QED BY <2>1, <2>3 DEF ClockKind
<1>5. ASSUME NEW p \in Player, NEW fact \in Fact, Reveal(p, fact) PROVE ClockKind
  <2>1. /\ match' = AfterReveal(match, p, fact, now)
        /\ HasTurn(match, p, now)
        /\ fact \notin match.revealed[p]
        /\ UNCHANGED <<now, frozen>>
    BY <1>5 DEF Reveal, CanReveal, Commit
  <2>2. Passes(p)
    BY <1>0, <2>1, RevealClock DEF Passes
  <2> QED BY <2>1, <2>2 DEF ClockKind
<1>6. ASSUME NEW p \in Player, NEW body \in {"text", "blank"}, Message(p, body)
      PROVE  ClockKind
  <2>1. match' = [match EXCEPT !.seq = @ + 1] /\ UNCHANGED <<now, frozen>>
    BY <1>6 DEF Message, AfterMessage, Commit
  <2>2. Waits
    BY <1>0, <2>1 DEF Waits, SameClock, SameTable, Match
  <2> QED BY <2>1, <2>2 DEF ClockKind
<1>7. ASSUME NEW p \in Player, Disconnect(p) PROVE ClockKind
  <2>1. match' = AfterDisconnect(match, p, now) /\ UNCHANGED <<now, frozen>>
    BY <1>7 DEF Disconnect, Commit
  <2>2. Waits \/ Pauses(p)
    BY <1>0, <2>1, DisconnectClock DEF Waits, Pauses
  <2> QED BY <2>1, <2>2 DEF ClockKind
<1>8. ASSUME NEW p \in Player, Reconnect(p) PROVE ClockKind
  <2>1. match' = AfterReconnect(match, p, now) /\ UNCHANGED <<now, frozen>>
    BY <1>8 DEF Reconnect, Commit
  <2>2. Waits \/ Resumes
    BY <1>0, <2>1, ReconnectClock DEF Waits, Resumes, SameClock
  <2> QED BY <2>1, <2>2 DEF ClockKind
<1>9. ASSUME NEW p \in Player, Timeout(p) PROVE ClockKind
  <2>1. /\ match' = Ended(match, "NO_DEAL", "TIMED_OUT", match.settlement, 2, now)
        /\ CanTimeout(match, p, now)
        /\ UNCHANGED <<now, frozen>>
    BY <1>9 DEF Timeout, AfterTimeout, Commit
  <2>2. match.settlement \in Amount \cup {None} /\ "TIMED_OUT" \in Reason
    BY <1>0 DEF Match, Reason
  <2>3. Ends
    BY <1>0, <2>1, <2>2, EndedClock DEF Ends, Terminal, CanTimeout
  <2> QED BY <2>1, <2>3 DEF ClockKind
<1>10. CASE Abort
  <2>1. match' = AfterAbort(match, now) /\ UNCHANGED <<now, frozen>>
    BY <1>10 DEF Abort, Commit
  <2>2. CASE Terminal(match)
    BY <2>1, <2>2 DEF AfterAbort, Waits, SameClock, SameTable, ClockKind
  <2>3. CASE ~Terminal(match)
    <3>1. match' = Ended(match, "ABORTED", "ABORTED", match.settlement, 1, now)
      BY <2>1, <2>3 DEF AfterAbort
    <3>2. match.settlement \in Amount \cup {None} /\ "ABORTED" \in Reason
      BY <1>0 DEF Match, Reason
    <3>3. Ends
      BY <1>0, <2>3, <3>1, <3>2, EndedClock DEF Ends, Terminal
    <3> QED BY <2>1, <3>3 DEF ClockKind
  <2> QED BY <2>2, <2>3
<1>11. CASE Tick
  BY <1>11 DEF ClockKind
<1>12. CASE UNCHANGED vars
  BY <1>12 DEF vars, ClockKind, Waits, SameClock, SameTable
<1> QED BY <1>1, <1>2, <1>3, <1>4, <1>5, <1>6, <1>7, <1>8, <1>9, <1>10, <1>11, <1>12
        DEF Next

-----------------------------------------------------------------------------
(* The invariant                                                           *)

\* Before the start nothing is charged; a running turn started in the past; a
\* match that goes on has no reason to have ended.
Booked ==
    /\ match.status \in {"CREATED", "READY"} => match.startedAt = None
    /\ match.startedAt = None =>
         ~Live /\ frozen = 0 /\ \A p \in Player : match.cumulative[p] = 0
    /\ match.turnStartedAt # None => match.turnStartedAt <= now
    /\ ~Terminal(match) => match.reason = None

\* A player who gave the turn away had not used the limit: only the player on
\* turn can be past it.
OthersInTime ==
    Limit # None /\ Live => match.cumulative[Other(match.active)] < Limit

ClockInv == TypeOK /\ OneClock /\ Booked /\ ClockAccounting

LimitInv == TypeOK /\ OneClock /\ Booked /\ OthersInTime /\ TimeoutAttribution

\* A charge moves the running time to the charged time.
LEMMA ChargeMovesTime ==
    ASSUME TypeOK, OneClock, now' = now,
           match'.cumulative = FrozenClock(match, now),
           match'.turnStartedAt \in {None, now}
    PROVE  Charged' + RunningTime' = Charged + RunningTime
<1>0. match \in Match /\ now \in Nat /\ match.cumulative \in [Player -> Nat]
  BY DEF TypeOK, Match
<1>1. RunningTime' = 0
  BY <1>0 DEF RunningTime, SinceTurn
<1>2. CASE match.turnStartedAt = None
  <2>1. match'.cumulative = match.cumulative
    BY <1>0, <1>2, FrozenClockValue
  <2>2. RunningTime = 0
    BY <1>2 DEF RunningTime
  <2> QED BY <1>1, <2>1, <2>2 DEF Charged
<1>3. CASE match.turnStartedAt # None
  <2>1. match.active \in Player
    BY <1>0, <1>3 DEF OneClock, Live
  <2>2. RunningTime = SinceTurn(match, now)
    BY <1>3 DEF RunningTime
  <2>3. /\ RunningTime \in Nat
        /\ match'.cumulative[match.active] = match.cumulative[match.active] + RunningTime
        /\ match'.cumulative[Other(match.active)] = match.cumulative[Other(match.active)]
    BY <1>0, <1>3, <2>1, <2>2, FrozenClockValue
  <2>4. match.cumulative["BUYER"] \in Nat /\ match.cumulative["SELLER"] \in Nat
    BY <1>0 DEF Player
  <2>5. CASE match.active = "BUYER"
    BY <1>1, <2>3, <2>4, <2>5 DEF Charged, Other
  <2>6. CASE match.active = "SELLER"
    BY <1>1, <2>3, <2>4, <2>6 DEF Charged, Other
  <2> QED BY <2>1, <2>5, <2>6 DEF Player
<1> QED BY <1>2, <1>3

\* The books balance again when what a step moves, it moves inside them.
LEMMA AccountingFrame ==
    ASSUME ClockAccounting, now' = now, frozen' = frozen,
           match'.startedAt = match.startedAt,
           Charged' + RunningTime' = Charged + RunningTime
    PROVE  ClockAccounting'
<1> HIDE DEF Charged, RunningTime
<1> QED BY DEF ClockAccounting

\* A tick adds one to the running time, or to the frozen time.
LEMMA TickAccounts ==
    ASSUME TypeOK, OneClock, Booked, ClockAccounting, Tick
    PROVE  ClockAccounting'
<1>0. /\ now \in Nat /\ frozen \in Nat /\ Charged \in Nat
      /\ match.turnStartedAt \in Nat \cup {None}
      /\ match.startedAt \in Nat \cup {None}
  BY DEF TypeOK, Match, Charged, Player
<1>1. Charged' = Charged /\ match' = match /\ now' = now + 1
  BY DEF Tick, Charged
<1>2. CASE match.status = "PAUSED"
  <2>1. RunningTime = 0 /\ RunningTime' = 0 /\ frozen' = frozen + 1
    BY <1>1, <1>2 DEF OneClock, RunningTime, Tick
  <2> HIDE DEF RunningTime, Charged
  <2> QED BY <1>0, <1>1, <2>1 DEF ClockAccounting
<1>3. CASE match.status # "PAUSED"
  <2>1. match.turnStartedAt \in Nat /\ match.turnStartedAt <= now /\ frozen' = frozen
    BY <1>0, <1>3 DEF OneClock, Booked, Tick, Live
  <2>2. RunningTime \in Nat /\ RunningTime' = RunningTime + 1
    BY <1>0, <1>1, <2>1, NoneAssumption DEF RunningTime, SinceTurn
  <2> HIDE DEF RunningTime, Charged
  <2> QED BY <1>0, <1>1, <2>1, <2>2 DEF ClockAccounting
<1> QED BY <1>2, <1>3

\* Booked is inductive over OneClock.
LEMMA BookedStep == TypeOK /\ OneClock /\ Booked /\ [Next]_vars => Booked'
<1> SUFFICES ASSUME TypeOK, OneClock, Booked, [Next]_vars PROVE Booked'
  OBVIOUS
<1>0. match \in Match /\ now \in Nat /\ now # None /\ ClockKind
  BY ClockKinds, NoneAssumption DEF TypeOK
<1>1. CASE Waits /\ UNCHANGED <<now, frozen>>
  BY <1>0, <1>1 DEF Waits, Booked, SameClock, Live, Terminal
<1>2. CASE Opens /\ UNCHANGED <<now, frozen>>
  BY <1>0, <1>2 DEF Opens, Booked, Live, Terminal
<1>3. CASE Resumes /\ UNCHANGED <<now, frozen>>
  BY <1>0, <1>3 DEF Resumes, Booked, Live, Terminal
<1>4. CASE Ends /\ UNCHANGED <<now, frozen>>
  <2>1. match'.startedAt = None => match'.cumulative = match.cumulative
    BY <1>0, <1>4, FrozenClockValue DEF Ends, Booked, OneClock
  <2> QED BY <1>0, <1>4, <2>1 DEF Ends, Booked, Live, Terminal
<1>5. ASSUME NEW p \in Player, Passes(p), UNCHANGED <<now, frozen>> PROVE Booked'
  BY <1>0, <1>5 DEF Passes, Booked, Live, Terminal, HasTurn
<1>6. ASSUME NEW p \in Player, Pauses(p), UNCHANGED <<now, frozen>> PROVE Booked'
  BY <1>0, <1>6 DEF Pauses, Booked, Live, Terminal, OwnsTurn
<1>7. CASE Tick
  <2>1. match.turnStartedAt \in Nat \cup {None}
    BY <1>0 DEF Match
  <2> QED BY <1>0, <1>7, <2>1 DEF Tick, Booked, Live, Terminal
<1> QED BY <1>0, <1>1, <1>2, <1>3, <1>4, <1>5, <1>6, <1>7 DEF ClockKind

\* So is the balance of decision time.
LEMMA AccountingStep == ClockInv /\ [Next]_vars => ClockAccounting'
<1> SUFFICES ASSUME ClockInv, [Next]_vars PROVE ClockAccounting'
  OBVIOUS
<1>0. /\ TypeOK /\ OneClock /\ Booked /\ ClockAccounting
      /\ match \in Match /\ now \in Nat /\ now # None /\ ClockKind
  BY ClockKinds, NoneAssumption DEF ClockInv, TypeOK
<1>1. CASE Waits /\ UNCHANGED <<now, frozen>>
  <2>1. Charged' + RunningTime' = Charged + RunningTime
    BY <1>1 DEF Waits, SameClock, Charged, RunningTime, SinceTurn
  <2> QED BY <1>0, <1>1, <2>1, AccountingFrame DEF Waits
<1>2. CASE Opens /\ UNCHANGED <<now, frozen>>
  <2>1. frozen = 0 /\ match.cumulative["BUYER"] = 0 /\ match.cumulative["SELLER"] = 0
    BY <1>0, <1>2 DEF Opens, Booked, Player
  <2>2. Charged' = 0 /\ RunningTime' = 0
    BY <1>0, <1>2, <2>1 DEF Opens, Charged, RunningTime, SinceTurn
  <2> HIDE DEF Charged, RunningTime
  <2> QED BY <1>0, <1>2, <2>1, <2>2 DEF Opens, ClockAccounting
<1>3. CASE Resumes /\ UNCHANGED <<now, frozen>>
  <2>1. RunningTime = 0 /\ RunningTime' = 0 /\ Charged' = Charged
    BY <1>0, <1>3 DEF Resumes, OneClock, RunningTime, SinceTurn, Charged
  <2>2. Charged' + RunningTime' = Charged + RunningTime
    BY <2>1
  <2> QED BY <1>0, <1>3, <2>2, AccountingFrame DEF Resumes
<1>4. CASE Ends /\ UNCHANGED <<now, frozen>>
  <2>1. Charged' + RunningTime' = Charged + RunningTime
    BY <1>0, <1>4, ChargeMovesTime DEF Ends
  <2> QED BY <1>0, <1>4, <2>1, AccountingFrame DEF Ends
<1>5. ASSUME NEW p \in Player, Passes(p), UNCHANGED <<now, frozen>>
      PROVE  ClockAccounting'
  <2>1. Charged' + RunningTime' = Charged + RunningTime
    BY <1>0, <1>5, ChargeMovesTime DEF Passes
  <2> QED BY <1>0, <1>5, <2>1, AccountingFrame DEF Passes
<1>6. ASSUME NEW p \in Player, Pauses(p), UNCHANGED <<now, frozen>>
      PROVE  ClockAccounting'
  <2>1. Charged' + RunningTime' = Charged + RunningTime
    BY <1>0, <1>6, ChargeMovesTime DEF Pauses
  <2> QED BY <1>0, <1>6, <2>1, AccountingFrame DEF Pauses
<1>7. CASE Tick
  BY <1>0, <1>7, TickAccounts
<1> QED BY <1>0, <1>1, <1>2, <1>3, <1>4, <1>5, <1>6, <1>7 DEF ClockKind

\* A match is created with empty books.
LEMMA InitBooked == Init => Booked /\ ClockAccounting /\ TimeoutAttribution /\ OthersInTime
<1> SUFFICES ASSUME Init
             PROVE  Booked /\ ClockAccounting /\ TimeoutAttribution /\ OthersInTime
  OBVIOUS
<1>1. /\ match.status = "CREATED" /\ match.startedAt = None /\ match.turnStartedAt = None
      /\ match.reason = None /\ match.cumulative = [p \in Player |-> 0]
      /\ frozen = 0
  BY DEF Init, CreatedMatch
<1>2. match.reason \notin {"TIMED_OUT", "ACCEPTED", "WALKED_AWAY"}
  BY <1>1, NoneAssumption DEF Reason
<1> QED BY <1>1, <1>2 DEF Booked, ClockAccounting, TimeoutAttribution, OthersInTime,
                          Live, Terminal

\* For every configuration and however often a match is handed over, paused,
\* resumed or ended: what the players were charged, what runs and what was
\* frozen add up to the age of the match.
THEOREM NoTimeIsLost == Spec => []ClockAccounting
<1>1. TypeOK /\ OneClock /\ Booked /\ [Next]_vars => Booked'
  BY BookedStep
<1>2. TypeOK /\ OneClock /\ Booked /\ ClockAccounting /\ [Next]_vars => ClockAccounting'
  BY AccountingStep DEF ClockInv
<1> QED BY <1>1, <1>2, InitBooked, TypeCorrect, ClockIsOne, PTL DEF Spec

-----------------------------------------------------------------------------
(* The limit                                                               *)

\* In time, over the limit: what the two guards say of the charged clocks.
LEMMA GuardsReadTheCharge ==
    ASSUME TypeOK, OneClock, OthersInTime, Limit # None, NEW p \in Player
    PROVE  /\ HasTurn(match, p, now) =>
                \A q \in Player : FrozenClock(match, now)[q] < Limit
           /\ CanTimeout(match, p, now) =>
                /\ FrozenClock(match, now)[p] >= Limit
                /\ FrozenClock(match, now)[Other(p)] < Limit
           /\ OwnsTurn(match, p) => FrozenClock(match, now)[Other(p)] < Limit
<1>0. /\ match \in Match /\ now \in Nat /\ Limit \in Nat
      /\ FrozenClock(match, now) \in [Player -> Nat]
  BY ConfigAssumption, FrozenClockType DEF TypeOK
<1>1. FrozenClock(match, now)[p] = ElapsedActive(match, p, now)
  BY DEF FrozenClock
<1>2. ASSUME OwnsTurn(match, p) PROVE FrozenClock(match, now)[Other(p)] < Limit
  <2>1. /\ match.turnStartedAt # None /\ match.active = p
        /\ match.cumulative[Other(p)] < Limit
    BY <1>2 DEF OwnsTurn, OneClock, OthersInTime, Live
  <2>2. FrozenClock(match, now)[Other(p)] = match.cumulative[Other(p)]
    BY <1>0, <2>1, FrozenClockValue
  <2> QED BY <2>1, <2>2
<1>3. ASSUME HasTurn(match, p, now)
      PROVE  \A q \in Player : FrozenClock(match, now)[q] < Limit
  <2>1. OwnsTurn(match, p) /\ ~(ElapsedActive(match, p, now) >= Limit)
    BY <1>3, NoneAssumption DEF HasTurn, OwnsTurn, Exhausted
  <2>2. FrozenClock(match, now)[p] < Limit
    BY <1>0, <1>1, <2>1
  <2>3. \A q \in Player : q = p \/ q = Other(p)
    BY DEF Player, Other
  <2> QED BY <1>2, <2>1, <2>2, <2>3
<1>4. ASSUME CanTimeout(match, p, now)
      PROVE  /\ FrozenClock(match, now)[p] >= Limit
             /\ FrozenClock(match, now)[Other(p)] < Limit
  BY <1>1, <1>2, <1>4 DEF CanTimeout, OwnsTurn
<1> QED BY <1>2, <1>3, <1>4

\* The player who waits stays below the limit.
LEMMA OthersInTimeStep ==
    ASSUME TypeOK, OneClock, Booked, OthersInTime, [Next]_vars
    PROVE  OthersInTime'
<1> SUFFICES ASSUME Limit # None, Live'
             PROVE  match'.cumulative[Other(match'.active)] < Limit
  BY DEF OthersInTime
<1>0. match \in Match /\ ClockKind /\ Limit \in Nat \ {0}
  BY ClockKinds, ConfigAssumption DEF TypeOK
<1>1. CASE Waits
  BY <1>1 DEF Waits, SameClock, OthersInTime, Live
<1>2. CASE Opens
  <2>1. \A p \in Player : match'.cumulative[p] = 0
    BY <1>2 DEF Opens, Booked
  <2>2. Other(match'.active) \in Player
    BY DEF Other, Player
  <2> QED BY <1>0, <2>1, <2>2
<1>3. CASE Resumes
  BY <1>3 DEF Resumes, OthersInTime, Live
<1>4. CASE Ends
  BY <1>4 DEF Ends, Terminal, Live
<1>5. ASSUME NEW p \in Player, Passes(p)
      PROVE  match'.cumulative[Other(match'.active)] < Limit
  <2>1. Other(match'.active) = p
    BY <1>5 DEF Passes, Other, Player
  <2> QED BY <1>5, <2>1, GuardsReadTheCharge DEF Passes
<1>6. ASSUME NEW p \in Player, Pauses(p)
      PROVE  match'.cumulative[Other(match'.active)] < Limit
  BY <1>6, GuardsReadTheCharge DEF Pauses
<1>7. CASE Tick
  BY <1>7 DEF Tick, OthersInTime, Live
<1> QED BY <1>0, <1>1, <1>2, <1>3, <1>4, <1>5, <1>6, <1>7 DEF ClockKind

\* A match ends TIMED_OUT, or by a player's move, for the right clocks.
LEMMA AttributionStep ==
    ASSUME TypeOK, OneClock, Booked, OthersInTime, TimeoutAttribution, [Next]_vars
    PROVE  TimeoutAttribution'
<1> SUFFICES ASSUME Limit # None PROVE TimeoutAttribution'
  BY DEF TimeoutAttribution
<1>0. match \in Match /\ ClockKind
  BY ClockKinds DEF TypeOK
<1>1. CASE Waits \/ Tick
  BY <1>1 DEF Waits, Tick, SameClock, TimeoutAttribution
<1>2. CASE match'.reason = match.reason /\ match.status \in {"CREATED", "READY", "ACTIVE", "PAUSED"}
  <2>1. match'.reason = None
    BY <1>2 DEF Booked, Terminal
  <2>2. match'.reason \notin {"TIMED_OUT", "ACCEPTED", "WALKED_AWAY"}
    BY <2>1, NoneAssumption DEF Reason
  <2> QED BY <2>2 DEF TimeoutAttribution
<1>3. CASE Ends
  <2>1. CASE /\ match'.reason \in {"ACCEPTED", "WALKED_AWAY"}
             /\ \E p \in Player : HasTurn(match, p, now)
    <3>1. \A q \in Player : match'.cumulative[q] < Limit
      BY <1>3, <2>1, GuardsReadTheCharge DEF Ends
    <3> QED BY <2>1, <3>1 DEF TimeoutAttribution
  <2>2. CASE match'.reason = "TIMED_OUT" /\ \E p \in Player : CanTimeout(match, p, now)
    <3>1. \E p \in Player : /\ match'.cumulative[p] >= Limit
                            /\ match'.cumulative[Other(p)] < Limit
      BY <1>3, <2>2, GuardsReadTheCharge DEF Ends
    <3> QED BY <2>2, <3>1 DEF TimeoutAttribution
  <2>3. CASE match'.reason = "ABORTED"
    BY <2>3 DEF TimeoutAttribution
  <2> QED BY <1>3, <2>1, <2>2, <2>3 DEF Ends
<1> QED BY <1>0, <1>1, <1>2, <1>3
        DEF ClockKind, Opens, Resumes, Passes, Pauses, HasTurn, OwnsTurn

\* For every limit: a match times out only for a player who used all of it
\* while the opponent had not, and whoever used it strikes no deal.
THEOREM TimeoutIsEarned == Spec => []TimeoutAttribution
<1>1. TypeOK /\ OneClock /\ Booked /\ [Next]_vars => Booked'
  BY BookedStep
<1>2. TypeOK /\ OneClock /\ Booked /\ OthersInTime /\ [Next]_vars => OthersInTime'
  BY OthersInTimeStep
<1>3. TypeOK /\ OneClock /\ Booked /\ OthersInTime /\ TimeoutAttribution /\ [Next]_vars
        => TimeoutAttribution'
  BY AttributionStep
<1> QED BY <1>1, <1>2, <1>3, InitBooked, TypeCorrect, ClockIsOne, PTL DEF Spec

\* What NothingCommitsPastLimit asks of one step.
PastLimitHolds ==
    (\E p \in Player : OwnsTurn(match, p) /\ Limit # None
                          /\ match.cumulative[p] + RunningTime >= Limit) =>
        /\ match'.latest = match.latest
        /\ match'.revealed = match.revealed
        /\ match'.reason \in {None, "TIMED_OUT", "ABORTED"}

\* Being at the limit is what the guard of applyCommand tests.
LEMMA PastLimitIsExhausted ==
    ASSUME OneClock, NEW p \in Player, OwnsTurn(match, p), Limit # None,
           match.cumulative[p] + RunningTime >= Limit
    PROVE  Exhausted(match, now)
<1>1. match.active = p /\ match.status = "ACTIVE" /\ match.turnStartedAt # None /\ p # None
  BY NoneAssumption DEF OwnsTurn, OneClock
<1>2. ElapsedActive(match, p, now) = match.cumulative[p] + RunningTime
  BY <1>1 DEF ElapsedActive, RunningTime
<1> QED BY <1>1, <1>2 DEF Exhausted

\* For every limit: from the moment the player on turn has reached it, no
\* offer, reveal, acceptance or walk-away of anyone commits.
THEOREM NothingPastLimit == Spec => NothingCommitsPastLimit
<1>1. TypeOK /\ OneClock /\ Booked /\ [Next]_vars => PastLimitHolds
  <2> SUFFICES ASSUME TypeOK, OneClock, Booked, [Next]_vars,
                      NEW p \in Player, OwnsTurn(match, p), Limit # None,
                      match.cumulative[p] + RunningTime >= Limit
               PROVE  /\ SameTable(match, match')
                      /\ match'.reason \in {None, "TIMED_OUT", "ABORTED"}
    BY DEF PastLimitHolds, SameTable
  <2>1. ClockKind /\ Exhausted(match, now)
    BY ClockKinds, PastLimitIsExhausted
  <2>2. match.status = "ACTIVE" /\ match.reason = None
    BY DEF OwnsTurn, Booked, Terminal
  <2>3. \A q \in Player : ~Passes(q) /\ ~HasTurn(match, q, now)
    BY <2>1 DEF Passes, HasTurn
  <2> QED BY <2>1, <2>2, <2>3
          DEF ClockKind, Waits, Opens, Resumes, Pauses, Ends, Tick, SameTable
<1>2. TypeOK /\ OneClock /\ Booked /\ [Next]_vars => Booked'
  BY BookedStep
<1> QED BY <1>1, <1>2, InitBooked, TypeCorrect, ClockIsOne, PTL
        DEF Spec, NothingCommitsPastLimit, PastLimitHolds

\* What TurnPassesByMoveOnly asks of one step.
TurnPassesHolds ==
    \A p \in Player :
        match.active = p /\ match'.active = Other(p) =>
          \/ match'.latest[p] # match.latest[p]
          \/ match'.revealed[p] # match.revealed[p]

\* In every match the turn passes by an offer or a reveal of the player who has
\* it: no chat, absence, return, timeout or abort hands it over.
THEOREM TurnsAreMoved == Spec => TurnPassesByMoveOnly
<1>1. TypeOK /\ OneClock /\ [Next]_vars => TurnPassesHolds
  <2> SUFFICES ASSUME TypeOK, OneClock, [Next]_vars, NEW p \in Player,
                      match.active = p, match'.active = Other(p)
               PROVE  \/ match'.latest[p] # match.latest[p]
                      \/ match'.revealed[p] # match.revealed[p]
    BY DEF TurnPassesHolds
  <2>0. ClockKind /\ Other(p) # p /\ p # None /\ Other(p) # None
    BY ClockKinds, OtherIsPlayer, NoneAssumption
  <2>1. match.status \notin {"CREATED", "READY"}
    BY <2>0 DEF OneClock, Live
  <2>2. ASSUME NEW q \in Player, Passes(q) PROVE q = p
    BY <2>2 DEF Passes, HasTurn
  <2>3. ASSUME NEW q \in Player PROVE ~Pauses(q)
    BY <2>0, <2>3 DEF Pauses, OwnsTurn
  <2> QED BY <2>0, <2>1, <2>2, <2>3
          DEF ClockKind, Waits, SameClock, Opens, Resumes, Ends, Passes, Tick
<1> QED BY <1>1, TypeCorrect, ClockIsOne, PTL
        DEF Spec, TurnPassesByMoveOnly, TurnPassesHolds

-----------------------------------------------------------------------------
(* Who is away                                                             *)

\* What AbsenceStopsClock asks of one step.
AbsenceHolds ==
    AbsentClockRuns' =>
        \/ AbsentClockRuns /\ match'.active = match.active
        \/ match'.revealed # match.revealed
        \/ match.status \in {"CREATED", "READY"}

\* Offers and presence do not start the clock of somebody who is away.
LEMMA AbsenceStep == TypeOK /\ OneClock /\ [Next]_vars => AbsenceHolds
<1> SUFFICES ASSUME TypeOK, OneClock, [Next]_vars PROVE AbsenceHolds
  OBVIOUS
<1>0. match \in Match /\ now \in Nat /\ match.disconnected \in [Player -> BOOLEAN]
  BY DEF TypeOK, Match
<1>1. ASSUME NEW p \in Player, Ready(p) PROVE AbsenceHolds
  BY <1>1 DEF Ready, CanReady, AbsenceHolds
<1>2. ASSUME NEW p \in Player, NEW a \in Amount, Offer(p, a) PROVE AbsenceHolds
  <2>1. match' = AfterOffer(match, p, match.seq + 1, a, now)
    BY <1>2 DEF Offer, Commit
  <2>2. match.disconnected[Other(p)] => match'.status = "PAUSED"
    BY <1>0, <2>1 DEF AfterOffer, Handover, Conceded, Match
  <2>3. match'.active = Other(p) /\ match'.disconnected = match.disconnected
    BY <1>0, <2>1, OfferTurn
  <2> QED BY <2>2, <2>3 DEF AbsenceHolds, AbsentClockRuns
<1>3. ASSUME NEW p \in Player, NEW oid \in 1 .. match.seq, Accept(p, oid)
      PROVE  AbsenceHolds
  <2>1. match' = AfterAccept(match, p, now)
    BY <1>3 DEF Accept, Commit
  <2> QED BY <1>0, <2>1, EndedFields DEF AfterAccept, AbsenceHolds, AbsentClockRuns
<1>4. ASSUME NEW p \in Player, WalkAway(p) PROVE AbsenceHolds
  <2>1. match' = AfterWalkAway(match, now)
    BY <1>4 DEF WalkAway, Commit
  <2> QED BY <1>0, <2>1, EndedFields DEF AfterWalkAway, AbsenceHolds, AbsentClockRuns
<1>5. ASSUME NEW p \in Player, NEW fact \in Fact, Reveal(p, fact) PROVE AbsenceHolds
  <2>1. match' = AfterReveal(match, p, fact, now) /\ fact \notin match.revealed[p]
    BY <1>5 DEF Reveal, CanReveal, Commit
  <2>2. match'.revealed = [match.revealed EXCEPT ![p] = @ \cup {fact}]
    BY <1>0, <2>1 DEF AfterReveal, Handover, Match
  <2>3. match'.revealed # match.revealed
    BY <1>0, <2>1, <2>2 DEF Match
  <2> QED BY <2>3 DEF AbsenceHolds
<1>6. ASSUME NEW p \in Player, NEW body \in {"text", "blank"}, Message(p, body)
      PROVE  AbsenceHolds
  <2>1. match' = AfterMessage(match)
    BY <1>6 DEF Message, Commit
  <2> QED BY <1>0, <2>1, MessageFields DEF AbsenceHolds, AbsentClockRuns
<1>7. ASSUME NEW p \in Player, Disconnect(p) PROVE AbsenceHolds
  <2>1. match' = AfterDisconnect(match, p, now)
    BY <1>7 DEF Disconnect, Commit
  <2>2. CASE match' = match
    BY <2>2 DEF AbsenceHolds, AbsentClockRuns
  <2>3. CASE match' # match
    <3>1. /\ match'.active = match.active
          /\ match'.disconnected = [match.disconnected EXCEPT ![p] = TRUE]
          /\ IF OwnsTurn(match, p) THEN match'.status = "PAUSED"
             ELSE match'.status = match.status
      BY <1>0, <2>1, <2>3, DisconnectFields
    <3> QED BY <1>0, <3>1 DEF AbsenceHolds, AbsentClockRuns, OwnsTurn
  <2> QED BY <2>2, <2>3
<1>8. ASSUME NEW p \in Player, Reconnect(p) PROVE AbsenceHolds
  <2>1. match' = AfterReconnect(match, p, now)
    BY <1>8 DEF Reconnect, Commit
  <2>2. CASE match' = match
    BY <2>2 DEF AbsenceHolds, AbsentClockRuns
  <2>3. CASE match' # match
    <3>1. /\ match'.active = match.active
          /\ match'.disconnected = [match.disconnected EXCEPT ![p] = FALSE]
          /\ IF match.status = "PAUSED" /\ match.active = p THEN match'.status = "ACTIVE"
             ELSE match'.status = match.status
      BY <1>0, <2>1, <2>3, ReconnectFields
    <3> QED BY <1>0, <3>1 DEF AbsenceHolds, AbsentClockRuns, OneClock
  <2> QED BY <2>2, <2>3
<1>9. ASSUME NEW p \in Player, Timeout(p) PROVE AbsenceHolds
  <2>1. match' = AfterTimeout(match, now)
    BY <1>9 DEF Timeout, Commit
  <2> QED BY <1>0, <2>1, EndedFields DEF AfterTimeout, AbsenceHolds, AbsentClockRuns
<1>10. CASE Abort
  <2>1. match' = AfterAbort(match, now)
    BY <1>10 DEF Abort, Commit
  <2>2. CASE Terminal(match)
    BY <2>1, <2>2 DEF AfterAbort, AbsenceHolds, AbsentClockRuns
  <2>3. CASE ~Terminal(match)
    BY <1>0, <2>1, <2>3, EndedFields DEF AfterAbort, AbsenceHolds, AbsentClockRuns
  <2> QED BY <2>2, <2>3
<1>11. CASE Tick \/ UNCHANGED vars
  BY <1>11 DEF Tick, vars, AbsenceHolds, AbsentClockRuns
<1> QED BY <1>1, <1>2, <1>3, <1>4, <1>5, <1>6, <1>7, <1>8, <1>9, <1>10, <1>11
        DEF Next

\* For every configuration and interleaving the clock of a player who is away
\* begins to run by the start or by a reveal of the opponent, and in no other way.
THEOREM AbsenceFreezes == Spec => AbsenceStopsClock
BY AbsenceStep, TypeCorrect, ClockIsOne, PTL DEF Spec, AbsenceStopsClock, AbsenceHolds

-----------------------------------------------------------------------------
(* The economy is written once                                             *)

\* A step leaves the match as it is, or goes on with a match that has not ended,
\* or ends it and stores its economy.
GoesOnUnpaid ==
    /\ Running(match)
    /\ Running(match')
    /\ SameBooks(match, match')

Pays ==
    /\ match'.economy = Economy(match')
    /\ \/ /\ match'.status = "DEAL"
          /\ match'.reason = "ACCEPTED"
          /\ match'.settlement \in Amount
       \/ match'.status = "NO_DEAL" /\ match'.reason \in {"WALKED_AWAY", "TIMED_OUT"}
       \/ match'.status = "ABORTED" /\ match'.reason = "ABORTED"

PayKind == match' = match \/ GoesOnUnpaid \/ Pays

\* Every step is of one of these kinds.
LEMMA PayKinds == TypeOK /\ [Next]_vars => PayKind
<1> SUFFICES ASSUME TypeOK, [Next]_vars PROVE PayKind
  OBVIOUS
<1>0. match \in Match /\ match.status \in Status
  BY DEF TypeOK, Match
<1>1. ASSUME NEW p \in Player, Ready(p) PROVE PayKind
  <2>1. match' = AfterReady(match, p, now) /\ Running(match)
    BY <1>1 DEF Ready, Commit, CanReady, Running
  <2>2. match' = match \/ Running(match')
    BY <1>0, <2>1, ReadyFields DEF Running
  <2> QED BY <1>0, <2>1, <2>2, PlayBooks DEF PayKind, GoesOnUnpaid
<1>2. ASSUME NEW p \in Player, NEW a \in Amount, Offer(p, a) PROVE PayKind
  <2>1. match' = AfterOffer(match, p, match.seq + 1, a, now) /\ Running(match)
    BY <1>2 DEF Offer, Commit, CanOffer, HasTurn, Running
  <2>2. match.seq + 1 \in Nat
    BY <1>0 DEF Match
  <2>3. Running(match')
    BY <1>0, <2>1, OfferTurn DEF Running
  <2> QED BY <1>0, <2>1, <2>2, <2>3, PlayBooks DEF PayKind, GoesOnUnpaid
<1>3. ASSUME NEW p \in Player, NEW oid \in 1 .. match.seq, Accept(p, oid) PROVE PayKind
  <2>1. match' = AfterAccept(match, p, now) /\ match.latest[Other(p)] \in Amount
    BY <1>0, <1>3, OtherIsPlayer DEF Accept, CanAccept, Commit, Match
  <2>2. match'.settlement \in Amount
    BY <1>0, <2>1, EndedFields DEF AfterAccept
  <2> QED BY <1>0, <2>1, <2>2, EndedEconomy DEF AfterAccept, PayKind, Pays
<1>4. ASSUME NEW p \in Player, WalkAway(p) PROVE PayKind
  <2>1. match' = AfterWalkAway(match, now)
    BY <1>4 DEF WalkAway, Commit
  <2> QED BY <1>0, <2>1, EndedEconomy DEF AfterWalkAway, PayKind, Pays
<1>5. ASSUME NEW p \in Player, NEW fact \in Fact, Reveal(p, fact) PROVE PayKind
  <2>1. match' = AfterReveal(match, p, fact, now) /\ Running(match)
    BY <1>5 DEF Reveal, Commit, CanReveal, HasTurn, Running
  <2>2. Running(match')
    BY <1>0, <2>1, RevealFields DEF Running
  <2> QED BY <1>0, <2>1, <2>2, PlayBooks DEF PayKind, GoesOnUnpaid
<1>6. ASSUME NEW p \in Player, NEW body \in {"text", "blank"}, Message(p, body)
      PROVE  PayKind
  <2>1. match' = AfterMessage(match) /\ Running(match)
    BY <1>6 DEF Message, Commit, CanMessage, Running
  <2>2. Running(match')
    BY <1>0, <2>1, MessageFields DEF Running
  <2> QED BY <1>0, <2>1, <2>2, PlayBooks DEF PayKind, GoesOnUnpaid
<1>7. ASSUME NEW p \in Player, Disconnect(p) PROVE PayKind
  <2>1. match' = AfterDisconnect(match, p, now)
    BY <1>7 DEF Disconnect, Commit
  <2>2. match' = match \/ (Running(match) /\ Running(match'))
    BY <1>0, <2>1, DisconnectFields DEF Terminal, Running, Status
  <2> QED BY <1>0, <2>1, <2>2, PresenceBooks DEF PayKind, GoesOnUnpaid
<1>8. ASSUME NEW p \in Player, Reconnect(p) PROVE PayKind
  <2>1. match' = AfterReconnect(match, p, now)
    BY <1>8 DEF Reconnect, Commit
  <2>2. match' = match \/ ~Terminal(match)
    BY <2>1 DEF AfterReconnect
  <2>3. match'.status = match.status \/ (match.status = "PAUSED" /\ match'.status = "ACTIVE")
    BY <1>0, <2>1, ReconnectStatus
  <2>4. match' = match \/ (Running(match) /\ Running(match'))
    BY <1>0, <2>2, <2>3 DEF Terminal, Running, Status
  <2> QED BY <1>0, <2>1, <2>4, PresenceBooks DEF PayKind, GoesOnUnpaid
<1>9. ASSUME NEW p \in Player, Timeout(p) PROVE PayKind
  <2>1. match' = AfterTimeout(match, now)
    BY <1>9 DEF Timeout, Commit
  <2> QED BY <1>0, <2>1, EndedEconomy DEF AfterTimeout, PayKind, Pays
<1>10. CASE Abort
  <2>1. match' = AfterAbort(match, now)
    BY <1>10 DEF Abort, Commit
  <2> QED BY <1>0, <2>1, EndedEconomy DEF AfterAbort, PayKind, Pays
<1>11. CASE Tick \/ UNCHANGED vars
  BY <1>11 DEF Tick, vars, PayKind
<1> QED BY <1>1, <1>2, <1>3, <1>4, <1>5, <1>6, <1>7, <1>8, <1>9, <1>10, <1>11 DEF Next

\* The economy is there from the end on, and says why the match ended.
Books ==
    IF Terminal(match)
    THEN /\ match.economy = Economy(match)
         /\ match.status # "DEAL" => match.reason # "ACCEPTED"
         /\ match.status = "DEAL" => match.reason = "ACCEPTED" /\ match.settlement \in Amount
    ELSE match.economy = None /\ match.reason = None

\* No step books twice, or leaves an ended match without its books.
LEMMA BooksStep == TypeOK /\ Books /\ [Next]_vars => Books'
<1> SUFFICES ASSUME TypeOK, Books, [Next]_vars PROVE Books'
  OBVIOUS
<1>1. PayKind
  BY PayKinds
<1>2. CASE match' = match
  BY <1>2 DEF Books
<1>3. CASE GoesOnUnpaid
  BY <1>3 DEF GoesOnUnpaid, Running, SameBooks, Books, Terminal
<1>4. CASE Pays
  BY <1>4 DEF Pays, Books, Terminal
<1> QED BY <1>1, <1>2, <1>3, <1>4 DEF PayKind

\* A match is created without an economy.
LEMMA InitUnpaid == Init => Books
BY DEF Init, CreatedMatch, Books, Terminal

\* The books of every match, as an invariant.
LEMMA BooksKept == Spec => []Books
<1>1. TypeOK /\ Books /\ [Next]_vars => Books'
  BY BooksStep
<1> QED BY <1>1, InitUnpaid, TypeCorrect, PTL DEF Spec

\* For every match: what an ended match stores is what computeEconomy returns
\* for it as it stands, for ever.
THEOREM EconomyStays == Spec => []EconomyIsFinal
<1>1. Books => EconomyIsFinal
  BY DEF Books, EconomyIsFinal
<1> QED BY <1>1, BooksKept, PTL

-----------------------------------------------------------------------------
(* Within the bounty                                                       *)

\* A deal between different values, inside both, splits them into two shares.
LEMMA SharesOfDeal ==
    ASSUME TypeOK, Books, DealInside, match.status = "DEAL"
    PROVE  /\ \A p \in Player : SurplusShare(match, p, match.settlement) \in Nat
           /\ SurplusShare(match, "BUYER", match.settlement)
                + SurplusShare(match, "SELLER", match.settlement) = Zopa(match)
           /\ Zopa(match) \in Nat
<1>1. /\ match.rv["SELLER"] <= match.settlement
      /\ match.settlement <= match.rv["BUYER"]
  BY DEF DealInside
<1>2. match.rv["BUYER"] \in Int /\ match.rv["SELLER"] \in Int
  <2>1. match.rv["BUYER"] \in Amount /\ match.rv["SELLER"] \in Amount
    BY DEF TypeOK, Match, Player
  <2> QED BY <2>1, ConfigAssumption DEF Amount
<1>3. match.settlement \in Int
  BY ConfigAssumption DEF Books, Terminal, Amount
<1> QED BY <1>1, <1>2, <1>3 DEF SurplusShare, Zopa, Player

\* What the two of them are paid.
LEMMA DealPays ==
    ASSUME TypeOK, Books, match.status = "DEAL", Zopa(match) # 0, NEW p \in Player
    PROVE  match.economy.gross[p] =
              Bounty * SurplusShare(match, p, match.settlement)
                     * ClockMultiplier(match.cumulative[p])
BY DEF Books, Terminal, Economy, GrossReward

\* For every bounty, floor, grace time and pair of values: no reward is
\* negative, the two together stay within the bounty, and only a deal pays.
THEOREM RewardsAreBounded == Spec => []RewardsWithinBounty
<1>1. TypeOK /\ Books /\ DealInside => RewardsWithinBounty
  <2> SUFFICES ASSUME TypeOK, Books, DealInside, match.economy # None
               PROVE  RewardsWithinBounty
    BY DEF RewardsWithinBounty
  <2>1. Terminal(match) /\ match.economy = Economy(match)
    BY DEF Books
  <2>2. ASSUME match.status # "DEAL", NEW p \in Player PROVE match.economy.gross[p] = 0
    BY <2>1, <2>2 DEF Books, Economy
  <2>3. ASSUME match.status # "DEAL", Zopa(match) # 0
        PROVE  /\ \A p \in Player : match.economy.gross[p] >= 0
               /\ match.economy.gross["BUYER"] + match.economy.gross["SELLER"] <=
                    (IF Zopa(match) > 0 THEN Bounty * Zopa(match) * MultiplierUnit ELSE 0)
    <3>1. Zopa(match) \in Int /\ Bounty \in Nat /\ MultiplierUnit \in Nat
      BY ConfigAssumption, MultiplierRange DEF TypeOK, Match, Amount, Player, Zopa
    <3>2. Zopa(match) > 0 => Bounty * Zopa(match) \in Nat
      BY <3>1, ProductGrows
    <3>3. Zopa(match) > 0 => Bounty * Zopa(match) * MultiplierUnit \in Nat
      BY <3>1, <3>2, ProductGrows
    <3> QED BY <2>2, <2>3, <3>3 DEF Player
  <2>4. ASSUME match.status = "DEAL", Zopa(match) # 0
        PROVE  /\ \A p \in Player : match.economy.gross[p] >= 0
               /\ match.economy.gross["BUYER"] + match.economy.gross["SELLER"] <=
                    (IF Zopa(match) > 0 THEN Bounty * Zopa(match) * MultiplierUnit ELSE 0)
    <3> DEFINE x == SurplusShare(match, "BUYER", match.settlement)
               y == SurplusShare(match, "SELLER", match.settlement)
               f == ClockMultiplier(match.cumulative["BUYER"])
               g == ClockMultiplier(match.cumulative["SELLER"])
    <3>1. x \in Nat /\ y \in Nat /\ x + y = Zopa(match) /\ Zopa(match) \in Nat
      BY <2>4, SharesOfDeal DEF Player
    <3>2. f \in 0 .. MultiplierUnit /\ g \in 0 .. MultiplierUnit /\ MultiplierUnit \in Nat
      BY MultiplierRange DEF TypeOK, Match, Player
    <3>3. match.economy.gross["BUYER"] = Bounty * x * f /\ match.economy.gross["SELLER"] = Bounty * y * g
      BY <2>4, DealPays DEF Player
    <3> HIDE DEF x, y, f, g
    <3>4. Bounty \in Nat /\ Zopa(match) > 0
      BY <2>4, <3>1, ConfigAssumption
    <3>5. /\ Bounty * x * f >= 0 /\ Bounty * y * g >= 0
          /\ Bounty * x * f + Bounty * y * g <= Bounty * (x + y) * MultiplierUnit
      BY <3>1, <3>2, <3>4, SharesWithin
    <3>6. \A p \in Player : match.economy.gross[p] >= 0
      BY <3>3, <3>5 DEF Player
    <3>7. match.economy.gross["BUYER"] + match.economy.gross["SELLER"]
             <= Bounty * Zopa(match) * MultiplierUnit
      BY <3>1, <3>3, <3>5
    <3> QED BY <3>4, <3>6, <3>7
  <2> QED BY <2>2, <2>3, <2>4 DEF RewardsWithinBounty
<1> QED BY <1>1, BooksKept, DealsStayInside, PTL

-----------------------------------------------------------------------------
(* What players are shown (packages/domain/src/projection.ts)              *)

\* While the match goes on, no time is shown exactly when the limit is used up.
LEMMA NoTimeShown ==
    ASSUME NEW m \in Match, NEW p \in Player, NEW t \in Nat, OwnsTurn(m, p)
    PROVE  TimeRemaining(m, p, t) = 0 <=> Exhausted(m, t)
<1>1. /\ m.status = "ACTIVE" /\ m.active = p /\ m.active # None /\ ~Terminal(m)
  BY NoneAssumption DEF OwnsTurn, Terminal
<1>2. ElapsedActive(m, p, t) \in Nat /\ None # 0
  BY FrozenClockType, NoneAssumption
<1>3. CASE Limit = None
  BY <1>1, <1>2, <1>3 DEF TimeRemaining, Exhausted
<1>4. CASE Limit # None
  <2>1. Limit \in Nat
    BY <1>4, ConfigAssumption
  <2>2. Exhausted(m, t) <=> ElapsedActive(m, p, t) >= Limit
    BY <1>1, <1>4 DEF Exhausted
  <2>3. TimeRemaining(m, p, t) =
          IF ElapsedActive(m, p, t) >= Limit THEN 0 ELSE Limit - ElapsedActive(m, p, t)
    BY <1>1, <1>4 DEF TimeRemaining
  <2> QED BY <1>2, <2>1, <2>2, <2>3
<1> QED BY <1>3, <1>4

\* For every limit and clock: a player is shown the turn with time left exactly
\* when the server would commit a move.
THEOREM ViewsAreHonest == Spec => []ViewPredictsServer
<1>1. TypeOK => ViewPredictsServer
  <2> SUFFICES ASSUME TypeOK, NEW p \in Player
               PROVE  (OwnsTurn(match, p) /\ TimeRemaining(match, p, now) # 0)
                          <=> CanWalkAway(match, p, now)
    BY DEF ViewPredictsServer, ViewMatchFor, ParticipantView
  <2>1. match \in Match /\ now \in Nat
    BY DEF TypeOK
  <2>2. CanWalkAway(match, p, now) <=> OwnsTurn(match, p) /\ ~Exhausted(match, now)
    BY DEF CanWalkAway, HasTurn, OwnsTurn
  <2> QED BY <2>1, <2>2, NoTimeShown
<1> QED BY <1>1, TypeCorrect, PTL
=============================================================================
