-------------------------- MODULE MatchDomainProofs --------------------------
(***************************************************************************)
(* Lemmas about the operators of MatchDomain, for every configuration:     *)
(* what a command returns for any match of the right type.  Every module   *)
(* of proofs about a model that commits commands rests on them.            *)
(***************************************************************************)
EXTENDS MatchCommands, SequenceTheorems, WellFoundedInduction, TLAPS

-----------------------------------------------------------------------------
(* Types                                                                   *)

\* The opponent of a player is another player.
LEMMA OtherIsPlayer ==
    ASSUME NEW p \in Player PROVE Other(p) \in Player /\ Other(p) # p
BY DEF Other, Player

\* Charging the running clock yields a natural number for each player, and
\* never less than what had been charged.
LEMMA FrozenClockType ==
    ASSUME NEW m \in Match, NEW t \in Nat
    PROVE  /\ FrozenClock(m, t) \in [Player -> Nat]
           /\ \A p \in Player : ElapsedActive(m, p, t) \in Nat
           /\ \A p \in Player : ElapsedActive(m, p, t) >= m.cumulative[p]
<1>1. \A p \in Player : ElapsedActive(m, p, t) \in Nat
  BY NoneAssumption DEF ElapsedActive, SinceTurn, Match
<1>2. \A p \in Player : ElapsedActive(m, p, t) >= m.cumulative[p]
  BY NoneAssumption DEF ElapsedActive, SinceTurn, Match
<1> QED BY <1>1, <1>2 DEF FrozenClock

\* A payout multiplier is an integer.
LEMMA ClockMultiplierType ==
    ASSUME NEW t \in Nat PROVE ClockMultiplier(t) \in Int
BY ConfigAssumption DEF ClockMultiplier, MultiplierUnit

\* The economy of a match is well formed as soon as a deal has a price.
LEMMA EconomyType ==
    ASSUME NEW m \in Match, m.reason = "ACCEPTED" => m.settlement \in Amount
    PROVE  Economy(m) \in [ratedEligible : BOOLEAN, gross : [Player -> Int \cup {None}]]
<1>1. ASSUME NEW p \in Player, m.reason = "ACCEPTED"
      PROVE  GrossReward(m, p) \in Int \cup {None}
  <2>1. ClockMultiplier(m.cumulative[p]) \in Int
    BY ClockMultiplierType DEF Match
  <2>2. SurplusShare(m, p, m.settlement) \in Int
    <3>1. m.settlement \in Int
      BY <1>1, ConfigAssumption DEF Amount
    <3>2. m.rv[p] \in Int
      BY ConfigAssumption DEF Match, Amount
    <3> QED BY <3>1, <3>2 DEF SurplusShare
  <2>3. Bounty * SurplusShare(m, p, m.settlement) \in Int
    BY <2>2, ConfigAssumption
  <2>4. Bounty * SurplusShare(m, p, m.settlement)
               * ClockMultiplier(m.cumulative[p]) \in Int
    BY <2>1, <2>3
  <2> QED BY <2>4 DEF GrossReward
<1>2. [p \in Player |-> IF m.reason = "ACCEPTED" THEN GrossReward(m, p) ELSE 0]
        \in [Player -> Int \cup {None}]
  BY <1>1
<1> QED BY <1>2 DEF Economy

\* Handing the turn over, or pausing, turns a match into a match.
LEMMA HandoverType ==
    ASSUME NEW m \in Match, NEW status \in Status, NEW owner \in Player \cup {None},
           NEW started \in Nat \cup {None}, NEW n \in Nat, NEW t \in Nat
    PROVE  /\ Handover(m, status, owner, started, n, t) \in Match
           /\ Handover(m, status, owner, started, n, t).reason = m.reason
           /\ Handover(m, status, owner, started, n, t).settlement = m.settlement
<1>1. FrozenClock(m, t) \in [Player -> Nat]
  BY FrozenClockType
<1>2. m.seq + n \in Nat
  BY DEF Match
<1> QED BY <1>1, <1>2, ZenonT(30) DEF Handover, Match

\* Every ending turns a match into a match.
LEMMA EndedType ==
    ASSUME NEW m \in Match, NEW t \in Nat, NEW status \in Status,
           NEW reason \in Reason, NEW settlement \in Amount \cup {None},
           NEW n \in Nat, reason = "ACCEPTED" => settlement \in Amount
    PROVE  Ended(m, status, reason, settlement, n, t) \in Match
<1> DEFINE closed == [m EXCEPT !.reason = reason, !.settlement = settlement,
                               !.completedAt = t]
<1> DEFINE over == Handover(closed, status, None, None, n, t)
<1>1. /\ closed \in Match
      /\ closed.reason = reason
      /\ closed.settlement = settlement
  BY ZenonT(30) DEF Match
<1> HIDE DEF closed
<1>2. /\ over \in Match
      /\ over.reason = reason
      /\ over.settlement = settlement
  <2>1. None \in Player \cup {None} /\ None \in Nat \cup {None}
    OBVIOUS
  <2>2. over \in Match
    BY <1>1, <2>1, HandoverType
  <2>3. over.reason = closed.reason /\ over.settlement = closed.settlement
    BY <1>1 DEF Handover, Match
  <2> QED BY <1>1, <2>2, <2>3
<1> HIDE DEF over
<1>3. Economy(over) \in [ratedEligible : BOOLEAN, gross : [Player -> Int \cup {None}]]
  BY <1>2, EconomyType
<1>4. [over EXCEPT !.economy = Economy(over)] \in Match
  BY <1>2, <1>3, ZenonT(30) DEF Match
<1> QED BY <1>4 DEF Ended, over, closed

\* The match createMatch builds is well formed.
LEMMA CreatedType ==
    ASSUME NEW mode \in Mode, NEW rv \in [Player -> Amount], NEW first \in Player
    PROVE  CreatedMatch(mode, rv, first) \in Match
BY DEF CreatedMatch, Match, Status

\* The price of a legal offer is a natural number.
LEMMA OfferCostType ==
    ASSUME NEW m \in Match, NEW p \in Player, NEW a \in Amount
    PROVE  OfferCost(m, p, a) \in Nat
<1>1. CASE m.latest[p] = None
  BY <1>1 DEF OfferCost
<1>2. CASE m.latest[p] # None
  <2>1. m.latest[p] \in Amount
    BY <1>2 DEF Match
  <2> QED BY <1>2, <2>1, ConfigAssumption DEF OfferCost
<1> QED BY <1>1, <1>2

\* A match that starts, and one that resumes, is a match.
LEMMA StartedType ==
    ASSUME NEW m \in Match, NEW t \in Nat
    PROVE  Started(m, t) \in Match /\ Resumed(m, t) \in Match
<1>1. m.seq + 1 \in Nat /\ m.first \in Player
  BY DEF Match
<1>2. Started(m, t) \in Match
  BY <1>1 DEF Started, Match, Status
<1>3. Resumed(m, t) \in Match
  BY DEF Resumed, Match, Status
<1> QED BY <1>2, <1>3

\* READY returns a match.
LEMMA ReadyType ==
    ASSUME NEW m \in Match, NEW p \in Player, NEW t \in Nat
    PROVE  AfterReady(m, p, t) \in Match
<1> DEFINE readied == [m EXCEPT !.ready[p] = TRUE, !.status = "READY", !.seq = @ + 1]
<1>1. readied \in Match
  <2>1. m.seq + 1 \in Nat
    BY DEF Match
  <2>2. [m.ready EXCEPT ![p] = TRUE] \in [Player -> BOOLEAN]
    BY DEF Match
  <2> QED BY <2>1, <2>2 DEF Match, Status
<1> HIDE DEF readied
<1>2. Started(readied, t) \in Match
  BY <1>1, StartedType
<1> QED BY <1>1, <1>2 DEF AfterReady, readied

\* What a legal offer writes down about its player.
LEMMA ConcededType ==
    ASSUME NEW m \in Match, NEW p \in Player, NEW oid \in Nat, NEW a \in Amount
    PROVE  Conceded(m, p, oid, a) \in Match
<1>1. m.chipsSpent[p] + OfferCost(m, p, a) \in Nat
  BY OfferCostType DEF Match
<1> QED BY <1>1, ZenonT(30) DEF Conceded, Match

\* OFFER returns a match.
LEMMA OfferType ==
    ASSUME NEW m \in Match, NEW p \in Player, NEW oid \in Nat,
           NEW a \in Amount, NEW t \in Nat
    PROVE  AfterOffer(m, p, oid, a, t) \in Match
<1> DEFINE conceded == Conceded(m, p, oid, a)
<1>1. conceded \in Match
  BY ConcededType
<1>2. Other(p) \in Player
  BY OtherIsPlayer
<1> HIDE DEF conceded
<1>3. /\ Handover(conceded, "PAUSED", Other(p), None, 2, t) \in Match
      /\ Handover(conceded, "ACTIVE", Other(p), t, 1, t) \in Match
  BY <1>1, <1>2, HandoverType DEF Status
<1>4. \/ AfterOffer(m, p, oid, a, t) = Handover(conceded, "PAUSED", Other(p), None, 2, t)
      \/ AfterOffer(m, p, oid, a, t) = Handover(conceded, "ACTIVE", Other(p), t, 1, t)
  BY DEF AfterOffer, conceded
<1> QED BY <1>3, <1>4

\* REVEAL returns a match.
LEMMA RevealType ==
    ASSUME NEW m \in Match, NEW p \in Player, NEW fact \in Fact, NEW t \in Nat
    PROVE  AfterReveal(m, p, fact, t) \in Match
<1> DEFINE shown == [m EXCEPT !.revealed[p] = @ \cup {fact}]
<1>1. shown \in Match
  <2>1. m.revealed[p] \cup {fact} \in SUBSET Fact
    BY DEF Match
  <2> QED BY <2>1 DEF Match
<1>2. Other(p) \in Player
  BY OtherIsPlayer
<1> HIDE DEF shown
<1>3. Handover(shown, "ACTIVE", Other(p), t, 1, t) \in Match
  BY <1>1, <1>2, HandoverType DEF Status
<1> QED BY <1>3 DEF AfterReveal, shown

\* DISCONNECT and RECONNECT return a match.
LEMMA PresenceType ==
    ASSUME NEW m \in Match, NEW p \in Player, NEW t \in Nat
    PROVE  AfterDisconnect(m, p, t) \in Match /\ AfterReconnect(m, p, t) \in Match
<1> DEFINE gone == [m EXCEPT !.disconnected[p] = TRUE]
<1> DEFINE back == [m EXCEPT !.disconnected[p] = FALSE, !.seq = @ + 1]
<1>0. /\ m.seq + 1 \in Nat
      /\ [m.disconnected EXCEPT ![p] = TRUE] \in [Player -> BOOLEAN]
      /\ [m.disconnected EXCEPT ![p] = FALSE] \in [Player -> BOOLEAN]
  BY DEF Match
<1>1. gone \in Match
  BY <1>0 DEF Match
<1>2. back \in Match
  BY <1>0 DEF Match
<1>3. [m EXCEPT !.disconnected[p] = TRUE, !.seq = @ + 1] \in Match
  BY <1>0 DEF Match
<1> HIDE DEF gone, back
<1>4. Handover(gone, "PAUSED", p, None, 2, t) \in Match
  BY <1>1, HandoverType DEF Status
<1>5. AfterDisconnect(m, p, t) \in Match
  BY <1>3, <1>4 DEF AfterDisconnect, gone
<1>6. Resumed(back, t) \in Match
  BY <1>2, StartedType
<1>7. AfterReconnect(m, p, t) \in Match
  BY <1>2, <1>6 DEF AfterReconnect, back
<1> QED BY <1>5, <1>7

\* The four ways a match can end return a match.
LEMMA EndingsType ==
    ASSUME NEW m \in Match, NEW p \in Player, NEW t \in Nat
    PROVE  /\ m.latest[Other(p)] # None => AfterAccept(m, p, t) \in Match
           /\ AfterWalkAway(m, t) \in Match
           /\ AfterTimeout(m, t) \in Match
           /\ AfterAbort(m, t) \in Match
<1>1. m.settlement \in Amount \cup {None}
  BY DEF Match
<1>2. m.latest[Other(p)] \in Amount \cup {None}
  BY OtherIsPlayer DEF Match
<1>3. ASSUME m.latest[Other(p)] # None PROVE AfterAccept(m, p, t) \in Match
  BY <1>2, <1>3, EndedType DEF AfterAccept, Status, Reason
<1>4. AfterWalkAway(m, t) \in Match
  BY <1>1, EndedType DEF AfterWalkAway, Status, Reason
<1>5. AfterTimeout(m, t) \in Match
  BY <1>1, EndedType DEF AfterTimeout, Status, Reason
<1>6. AfterAbort(m, t) \in Match
  BY <1>1, EndedType DEF AfterAbort, Status, Reason
<1> QED BY <1>3, <1>4, <1>5, <1>6

\* A fact a player may reveal is a fact.
LEMMA FactType ==
    ASSUME NEW p \in Player PROVE Verifiable[p] \subseteq Fact
BY DEF Fact, Player

-----------------------------------------------------------------------------
(* The fields a command leaves alone                                       *)

\* What no command but OFFER touches, and no command but an ending.
SameBids(m, n) ==
    /\ n.rv = m.rv
    /\ n.opening = m.opening
    /\ n.latest = m.latest
    /\ n.chipsSpent = m.chipsSpent

SameEnd(m, n) == n.settlement = m.settlement /\ n.reason = m.reason

\* Handing over the turn writes the turn and the charged time only.
LEMMA HandoverFields ==
    ASSUME NEW m \in Match, NEW status, NEW owner, NEW started, NEW n, NEW t
    PROVE  LET h == Handover(m, status, owner, started, n, t) IN
           /\ h.status = status
           /\ h.active = owner
           /\ h.turnStartedAt = started
           /\ h.disconnected = m.disconnected
           /\ SameBids(m, h)
           /\ SameEnd(m, h)
BY DEF Handover, Match, SameBids, SameEnd

\* An ending stops the turn and leaves the bids alone.
LEMMA EndedFields ==
    ASSUME NEW m \in Match, NEW status, NEW reason, NEW settlement, NEW n, NEW t
    PROVE  LET e == Ended(m, status, reason, settlement, n, t) IN
           /\ e.status = status
           /\ e.active = None
           /\ e.turnStartedAt = None
           /\ e.reason = reason
           /\ e.settlement = settlement
           /\ SameBids(m, e)
BY DEF Ended, Handover, Match, SameBids

\* An offer hands over the turn.
LEMMA OfferTurn ==
    ASSUME NEW m \in Match, NEW p \in Player, NEW oid, NEW a \in Amount, NEW t
    PROVE  LET n == AfterOffer(m, p, oid, a, t) IN
           /\ n.active = Other(p)
           /\ n.disconnected = m.disconnected
           /\ SameEnd(m, n)
           /\ \/ /\ n.status = "PAUSED"
                 /\ n.turnStartedAt = None
                 /\ m.disconnected[Other(p)]
              \/ n.status = "ACTIVE" /\ n.turnStartedAt = t
BY DEF AfterOffer, Handover, Conceded, Match, SameEnd

\* An offer rewrites its player's bid and what it has paid.
LEMMA OfferBids ==
    ASSUME NEW m \in Match, NEW p \in Player, NEW oid, NEW a \in Amount, NEW t
    PROVE  LET n == AfterOffer(m, p, oid, a, t) IN
           /\ n.rv = m.rv
           /\ n.latest = [m.latest EXCEPT ![p] = a]
           /\ n.opening = [m.opening EXCEPT ![p] = IF @ = None THEN a ELSE @]
           /\ n.chipsSpent = [m.chipsSpent EXCEPT ![p] = @ + OfferCost(m, p, a)]
BY DEF AfterOffer, Handover, Conceded, Match

\* A start gives the first player a running clock.
LEMMA ReadyFields ==
    ASSUME NEW m \in Match, NEW p \in Player, NEW t
    PROVE  LET n == AfterReady(m, p, t) IN
           /\ SameBids(m, n)
           /\ SameEnd(m, n)
           /\ \/ n = m
              \/ /\ n.status = "READY"
                 /\ n.active = m.active
                 /\ n.turnStartedAt = m.turnStartedAt
              \/ /\ n.status = "ACTIVE"
                 /\ n.active = m.first
                 /\ n.turnStartedAt = t
BY DEF AfterReady, Started, Match, SameBids, SameEnd

\* A reveal hands over the turn, with a running clock.
LEMMA RevealFields ==
    ASSUME NEW m \in Match, NEW p \in Player, NEW fact, NEW t
    PROVE  LET n == AfterReveal(m, p, fact, t) IN
           /\ SameBids(m, n)
           /\ SameEnd(m, n)
           /\ n.status = "ACTIVE"
           /\ n.active = Other(p)
           /\ n.turnStartedAt = t
BY DEF AfterReveal, Handover, Match, SameBids, SameEnd

\* An absence pauses the match of the player on turn, and no other.
LEMMA DisconnectFields ==
    ASSUME NEW m \in Match, NEW p \in Player, NEW t
    PROVE  LET n == AfterDisconnect(m, p, t) IN
           /\ SameBids(m, n)
           /\ SameEnd(m, n)
           /\ n.active = m.active
           /\ \/ n = m
              \/ /\ ~Terminal(m)
                 /\ n.disconnected = [m.disconnected EXCEPT ![p] = TRUE]
                 /\ IF OwnsTurn(m, p)
                    THEN n.status = "PAUSED" /\ n.turnStartedAt = None
                    ELSE n.status = m.status /\ n.turnStartedAt = m.turnStartedAt
BY DEF AfterDisconnect, Handover, OwnsTurn, Terminal, Match, SameBids, SameEnd

\* A return resumes the match that waits for that player, and no other.
LEMMA ReconnectFields ==
    ASSUME NEW m \in Match, NEW p \in Player, NEW t
    PROVE  LET n == AfterReconnect(m, p, t) IN
           /\ SameBids(m, n)
           /\ SameEnd(m, n)
           /\ n.active = m.active
           /\ \/ n = m
              \/ /\ ~Terminal(m)
                 /\ n.disconnected = [m.disconnected EXCEPT ![p] = FALSE]
                 /\ IF m.status = "PAUSED" /\ m.active = p
                    THEN n.status = "ACTIVE" /\ n.turnStartedAt = t
                    ELSE n.status = m.status /\ n.turnStartedAt = m.turnStartedAt
BY DEF AfterReconnect, Resumed, Terminal, Match, SameBids, SameEnd

\* A return leaves the status alone, or resumes a pause.
LEMMA ReconnectStatus ==
    ASSUME NEW m \in Match, NEW p \in Player, NEW t
    PROVE  LET n == AfterReconnect(m, p, t) IN
           n.status = m.status \/ (m.status = "PAUSED" /\ n.status = "ACTIVE")
BY DEF AfterReconnect, Resumed, Terminal, Match

\* Chat changes nothing but the event counter.
LEMMA MessageFields ==
    ASSUME NEW m \in Match
    PROVE  LET n == AfterMessage(m) IN
           /\ SameBids(m, n)
           /\ SameEnd(m, n)
           /\ n.status = m.status
           /\ n.active = m.active
           /\ n.turnStartedAt = m.turnStartedAt
           /\ n.disconnected = m.disconnected
BY DEF AfterMessage, Match, SameBids, SameEnd

Running(m) == m.status \in {"CREATED", "READY", "ACTIVE", "PAUSED"}

-----------------------------------------------------------------------------
(* The turn and the clocks                                                 *)

\* The fields the running clock is computed from.
SameClock(m, n) ==
    /\ n.active = m.active
    /\ n.turnStartedAt = m.turnStartedAt
    /\ n.cumulative = m.cumulative

SameTable(m, n) == n.latest = m.latest /\ n.revealed = m.revealed

\* The charge depends on those fields only.
LEMMA FrozenClockFrame ==
    ASSUME NEW m, NEW n, NEW t, SameClock(m, n)
    PROVE  FrozenClock(n, t) = FrozenClock(m, t)
BY DEF SameClock, FrozenClock, ElapsedActive, SinceTurn

\* A handover charges the running clock.
LEMMA HandoverClock ==
    ASSUME NEW m \in Match, NEW status, NEW owner, NEW started, NEW n, NEW t
    PROVE  LET h == Handover(m, status, owner, started, n, t) IN
           /\ h.status = status
           /\ h.active = owner
           /\ h.turnStartedAt = started
           /\ h.cumulative = FrozenClock(m, t)
           /\ h.startedAt = m.startedAt
           /\ h.reason = m.reason
           /\ SameTable(m, h)
BY DEF Handover, Match, SameTable

\* The offer's own fields are no part of the clock.
LEMMA ConcededClock ==
    ASSUME NEW m \in Match, NEW p \in Player, NEW oid \in Nat, NEW a \in Amount
    PROVE  LET c == Conceded(m, p, oid, a) IN
           /\ c \in Match
           /\ SameClock(m, c)
           /\ c.startedAt = m.startedAt
           /\ c.reason = m.reason
           /\ c.latest = [m.latest EXCEPT ![p] = a]
           /\ c.revealed = m.revealed
<1>1. Conceded(m, p, oid, a) \in Match
  BY ConcededType
<1>2. LET c == Conceded(m, p, oid, a) IN
      /\ SameClock(m, c)
      /\ c.startedAt = m.startedAt
      /\ c.reason = m.reason
      /\ c.latest = [m.latest EXCEPT ![p] = a]
      /\ c.revealed = m.revealed
  BY DEF Conceded, Match, SameClock
<1> QED BY <1>1, <1>2

\* An offer charges its player and hands the turn over.
LEMMA OfferClock ==
    ASSUME NEW m \in Match, NEW p \in Player, NEW oid \in Nat, NEW a \in Amount, NEW t \in Nat
    PROVE  LET n == AfterOffer(m, p, oid, a, t) IN
           /\ \/ n.status = "ACTIVE" /\ n.turnStartedAt = t
              \/ n.status = "PAUSED" /\ n.turnStartedAt = None
           /\ n.active = Other(p)
           /\ n.cumulative = FrozenClock(m, t)
           /\ n.startedAt = m.startedAt
           /\ n.reason = m.reason
<1> DEFINE c == Conceded(m, p, oid, a)
<1>1. /\ c \in Match
      /\ FrozenClock(c, t) = FrozenClock(m, t)
      /\ c.startedAt = m.startedAt
      /\ c.reason = m.reason
      /\ c.latest = [m.latest EXCEPT ![p] = a]
  <2>1. /\ c \in Match /\ SameClock(m, c)
        /\ c.startedAt = m.startedAt
        /\ c.reason = m.reason
        /\ c.latest = [m.latest EXCEPT ![p] = a]
    BY ConcededClock
  <2> HIDE DEF c
  <2>2. FrozenClock(c, t) = FrozenClock(m, t)
    BY <2>1, FrozenClockFrame
  <2> QED BY <2>1, <2>2
<1> HIDE DEF c
<1>2. \/ AfterOffer(m, p, oid, a, t) = Handover(c, "PAUSED", Other(p), None, 2, t)
      \/ AfterOffer(m, p, oid, a, t) = Handover(c, "ACTIVE", Other(p), t, 1, t)
  BY DEF AfterOffer, c
<1>3. CASE AfterOffer(m, p, oid, a, t) = Handover(c, "PAUSED", Other(p), None, 2, t)
  BY <1>1, <1>3, HandoverClock DEF SameTable
<1>4. CASE AfterOffer(m, p, oid, a, t) = Handover(c, "ACTIVE", Other(p), t, 1, t)
  BY <1>1, <1>4, HandoverClock DEF SameTable
<1> QED BY <1>2, <1>3, <1>4

\* A reveal does the same, and adds the fact.
LEMMA RevealClock ==
    ASSUME NEW m \in Match, NEW p \in Player, NEW fact \in Fact, NEW t
    PROVE  LET n == AfterReveal(m, p, fact, t) IN
           /\ n.status = "ACTIVE"
           /\ n.active = Other(p)
           /\ n.turnStartedAt = t
           /\ n.cumulative = FrozenClock(m, t)
           /\ n.startedAt = m.startedAt
           /\ n.reason = m.reason
           /\ n.revealed[p] = m.revealed[p] \cup {fact}
<1> DEFINE r == [m EXCEPT !.revealed[p] = @ \cup {fact}]
<1>1. /\ r \in Match
      /\ SameClock(m, r)
      /\ r.startedAt = m.startedAt
      /\ r.reason = m.reason
      /\ r.revealed[p] = m.revealed[p] \cup {fact}
  BY SMTT(30) DEF Match, SameClock
<1>2. FrozenClock(r, t) = FrozenClock(m, t)
  BY <1>1, FrozenClockFrame
<1>3. AfterReveal(m, p, fact, t) = Handover(r, "ACTIVE", Other(p), t, 1, t)
  BY DEF AfterReveal
<1> HIDE DEF r
<1> QED BY <1>1, <1>2, <1>3, HandoverClock DEF SameTable

\* An ending charges the running clock and stops it.
LEMMA EndedClock ==
    ASSUME NEW m \in Match, NEW status, NEW reason \in Reason,
           NEW settlement \in Amount \cup {None}, NEW n, NEW t \in Nat
    PROVE  LET e == Ended(m, status, reason, settlement, n, t) IN
           /\ e.status = status
           /\ e.active = None
           /\ e.turnStartedAt = None
           /\ e.cumulative = FrozenClock(m, t)
           /\ e.startedAt = m.startedAt
           /\ e.reason = reason
           /\ SameTable(m, e)
<1> DEFINE c == [m EXCEPT !.reason = reason, !.settlement = settlement, !.completedAt = t]
<1> DEFINE h == Handover(c, status, None, None, n, t)
<1>1. /\ c \in Match
      /\ SameClock(m, c)
      /\ c.startedAt = m.startedAt
      /\ c.reason = reason
      /\ SameTable(m, c)
  BY ZenonT(30) DEF Match, SameClock, SameTable
<1>2. FrozenClock(c, t) = FrozenClock(m, t)
  BY <1>1, FrozenClockFrame
<1>3. Ended(m, status, reason, settlement, n, t) = [h EXCEPT !.economy = Economy(h)]
  BY DEF Ended
<1>4. /\ h.status = status
      /\ h.active = None
      /\ h.turnStartedAt = None
      /\ h.cumulative = FrozenClock(m, t)
      /\ h.startedAt = m.startedAt
      /\ h.reason = reason
      /\ SameTable(m, h)
  <2> HIDE DEF c
  <2> QED BY <1>1, <1>2, HandoverClock DEF SameTable
<1>5. LET e == [h EXCEPT !.economy = Economy(h)] IN
      /\ e.status = h.status
      /\ e.active = h.active
      /\ e.turnStartedAt = h.turnStartedAt
      /\ e.cumulative = h.cumulative
      /\ e.startedAt = h.startedAt
      /\ e.reason = h.reason
      /\ SameTable(h, e)
  <2>1. h = [c EXCEPT !.cumulative = FrozenClock(c, t), !.status = status,
                      !.active = None, !.turnStartedAt = None, !.seq = @ + n]
    BY DEF Handover
  <2> QED BY <1>1, <2>1 DEF Match, SameTable
<1> HIDE DEF h
<1> QED BY <1>3, <1>4, <1>5 DEF SameTable

\* An absence charges and stops the clock of its own player only.
LEMMA DisconnectClock ==
    ASSUME NEW m \in Match, NEW p \in Player, NEW t
    PROVE  LET n == AfterDisconnect(m, p, t) IN
           /\ n.startedAt = m.startedAt
           /\ n.reason = m.reason
           /\ SameTable(m, n)
           /\ \/ n.status = m.status /\ SameClock(m, n)
              \/ /\ OwnsTurn(m, p)
                 /\ n.status = "PAUSED"
                 /\ n.active = p
                 /\ n.turnStartedAt = None
                 /\ n.cumulative = FrozenClock(m, t)
<1> DEFINE d == [m EXCEPT !.disconnected[p] = TRUE]
<1>1. CASE Terminal(m) \/ m.disconnected[p]
  BY <1>1 DEF AfterDisconnect, SameClock, SameTable
<1>2. CASE ~(Terminal(m) \/ m.disconnected[p]) /\ ~OwnsTurn(m, p)
  BY <1>2 DEF AfterDisconnect, Match, SameClock, SameTable
<1>3. CASE ~(Terminal(m) \/ m.disconnected[p]) /\ OwnsTurn(m, p)
  <2>1. /\ d \in Match
        /\ SameClock(m, d)
        /\ d.startedAt = m.startedAt
        /\ d.reason = m.reason
        /\ SameTable(m, d)
    BY ZenonT(30) DEF Match, SameClock, SameTable
  <2>2. FrozenClock(d, t) = FrozenClock(m, t)
    BY <2>1, FrozenClockFrame
  <2>3. AfterDisconnect(m, p, t) = Handover(d, "PAUSED", p, None, 2, t)
    BY <1>3 DEF AfterDisconnect
  <2> HIDE DEF d
  <2> QED BY <1>3, <2>1, <2>2, <2>3, HandoverClock DEF SameTable
<1> QED BY <1>1, <1>2, <1>3

\* A return starts the clock of a match that was waiting, and no other.
LEMMA ReconnectClock ==
    ASSUME NEW m \in Match, NEW p \in Player, NEW t
    PROVE  LET n == AfterReconnect(m, p, t) IN
           /\ n.startedAt = m.startedAt
           /\ n.reason = m.reason
           /\ n.cumulative = m.cumulative
           /\ n.active = m.active
           /\ SameTable(m, n)
           /\ \/ n.status = m.status /\ n.turnStartedAt = m.turnStartedAt
              \/ m.status = "PAUSED" /\ n.status = "ACTIVE" /\ n.turnStartedAt = t
BY DEF AfterReconnect, Resumed, Match, SameTable

\* A start starts the clock of the first player; nothing was charged before.
LEMMA ReadyClock ==
    ASSUME NEW m \in Match, NEW p \in Player, NEW t
    PROVE  LET n == AfterReady(m, p, t) IN
           /\ n.cumulative = m.cumulative
           /\ n.reason = m.reason
           /\ SameTable(m, n)
           /\ \/ /\ n.startedAt = m.startedAt
                 /\ n.status \in {m.status, "READY"}
                 /\ n.active = m.active
                 /\ n.turnStartedAt = m.turnStartedAt
              \/ /\ n.startedAt = t
                 /\ n.status = "ACTIVE"
                 /\ n.active = m.first
                 /\ n.turnStartedAt = t
BY DEF AfterReady, Started, Match, SameTable

\* An offer differs from the bid it replaces.
LEMMA OfferDiffers ==
    ASSUME NEW m \in Match, NEW p \in Player, NEW a \in Amount, NEW t, CanOffer(m, p, a, t)
    PROVE  m.latest[p] # a
<1>1. CASE m.latest[p] = None
  BY <1>1, ConfigAssumption, NoneAssumption DEF Amount
<1>2. CASE m.latest[p] # None
  <2>1. m.latest[p] \in Amount /\ TowardOpponent(p, m.latest[p], a)
    BY <1>2 DEF CanOffer, Match
  <2>2. m.latest[p] \in Int /\ a \in Int
    BY <2>1, ConfigAssumption DEF Amount
  <2> QED BY <2>1, <2>2 DEF TowardOpponent
<1> QED BY <1>1, <1>2

\* The charge, player by player.
LEMMA FrozenClockValue ==
    ASSUME NEW m \in Match, NEW t \in Nat
    PROVE  /\ m.turnStartedAt = None => FrozenClock(m, t) = m.cumulative
           /\ \A p \in Player :
                m.turnStartedAt # None /\ m.active = p =>
                  /\ SinceTurn(m, t) \in Nat
                  /\ FrozenClock(m, t)[p] = m.cumulative[p] + SinceTurn(m, t)
                  /\ FrozenClock(m, t)[Other(p)] = m.cumulative[Other(p)]
<1>1. m.cumulative \in [Player -> Nat] /\ m.turnStartedAt \in Nat \cup {None}
  BY DEF Match
<1>2. ASSUME m.turnStartedAt = None PROVE FrozenClock(m, t) = m.cumulative
  BY <1>1, <1>2 DEF FrozenClock, ElapsedActive
<1>3. ASSUME NEW p \in Player, m.turnStartedAt # None, m.active = p
      PROVE  /\ SinceTurn(m, t) \in Nat
             /\ FrozenClock(m, t)[p] = m.cumulative[p] + SinceTurn(m, t)
             /\ FrozenClock(m, t)[Other(p)] = m.cumulative[Other(p)]
  <2>1. Other(p) \in Player /\ Other(p) # p
    BY OtherIsPlayer
  <2>2. SinceTurn(m, t) \in Nat
    BY <1>1, <1>3 DEF SinceTurn
  <2> QED BY <1>3, <2>1, <2>2 DEF FrozenClock, ElapsedActive
<1> QED BY <1>2, <1>3

-----------------------------------------------------------------------------
(* Rewards                                                                 *)

\* A product of naturals is one, and grows with its second factor.
LEMMA ProductGrows ==
    ASSUME NEW a \in Nat, NEW b \in Nat, NEW c \in Nat, b <= c
    PROVE  a * b \in Nat /\ a * b <= a * c
<1> DEFINE d == c - b
<1>1. d \in Nat /\ c = b + d
  OBVIOUS
<1>2. a * b \in Nat /\ a * d \in Nat
  OBVIOUS
<1>3. a * c = a * b + a * d
  BY <1>1
<1> QED BY <1>2, <1>3

\* A payout multiplier is a fraction of its unit.
LEMMA MultiplierRange ==
    ASSUME NEW t \in Nat
    PROVE  MultiplierUnit \in Nat /\ ClockMultiplier(t) \in 0 .. MultiplierUnit
<1>0. FloorPct \in 1 .. 100 /\ ClockFloor \in Nat /\ Grace \in Nat
  BY ConfigAssumption
<1>1. MultiplierUnit \in Nat
  BY <1>0 DEF MultiplierUnit
<1>2. CASE t <= Grace
  BY <1>1, <1>2 DEF ClockMultiplier
<1>3. CASE t > Grace /\ t - Grace >= ClockFloor
  <2>1. ClockFloor * FloorPct \in Nat /\ ClockFloor * FloorPct <= ClockFloor * 100
    BY <1>0, ProductGrows
  <2>2. ClockMultiplier(t) = ClockFloor * FloorPct /\ MultiplierUnit = ClockFloor * 100
    BY <1>0, <1>3 DEF ClockMultiplier, MultiplierUnit
  <2> QED BY <2>1, <2>2
<1>4. CASE t > Grace /\ ~(t - Grace >= ClockFloor)
  <2> DEFINE over == t - Grace
             loss == 100 - FloorPct
  <2>1. over \in Nat /\ over <= ClockFloor /\ loss \in Nat /\ loss <= 100
    BY <1>0, <1>4
  <2>2. loss * over \in Nat /\ loss * over <= loss * ClockFloor
    BY <1>0, <2>1, ProductGrows
  <2>3. ClockFloor * loss <= ClockFloor * 100
    BY <1>0, <2>1, ProductGrows
  <2>4. loss * over <= MultiplierUnit
    BY <1>0, <2>1, <2>2, <2>3 DEF MultiplierUnit
  <2>5. ClockMultiplier(t) = MultiplierUnit - loss * over
    BY <1>0, <1>4 DEF ClockMultiplier
  <2> QED BY <1>1, <2>2, <2>4, <2>5
<1> QED BY <1>0, <1>1, <1>2, <1>3, <1>4

\* Two shares that make up a whole, each cut by a multiplier, stay within it.
LEMMA SharesWithin ==
    ASSUME NEW bounty \in Nat, NEW x \in Nat, NEW y \in Nat, NEW u \in Nat,
           NEW f \in 0 .. u, NEW g \in 0 .. u
    PROVE  /\ bounty * x * f >= 0
           /\ bounty * y * g >= 0
           /\ bounty * x * f + bounty * y * g <= bounty * (x + y) * u
<1> DEFINE bx == bounty * x
           by == bounty * y
<1>1. bx \in Nat /\ by \in Nat /\ bounty * (x + y) = bx + by
  OBVIOUS
<1> HIDE DEF bx, by
<1>2. bx * f \in Nat /\ bx * f <= bx * u /\ by * g \in Nat /\ by * g <= by * u
  BY <1>1, ProductGrows
<1>3. (bx + by) * u = bx * u + by * u
  BY <1>1
<1>4. bx * f >= 0 /\ by * g >= 0 /\ bx * f + by * g <= (bx + by) * u
  BY <1>1, <1>2, <1>3
<1> QED BY <1>1, <1>4 DEF bx, by

\* computeEconomy reads these fields only.
LEMMA EconomyFrame ==
    ASSUME NEW m, NEW n, n.mode = m.mode, n.reason = m.reason, n.rv = m.rv,
           n.settlement = m.settlement, n.cumulative = m.cumulative
    PROVE  Economy(n) = Economy(m)
BY DEF Economy, GrossReward, Zopa, SurplusShare

\* An ending stores the economy of the match it leaves.
LEMMA EndedEconomy ==
    ASSUME NEW m \in Match, NEW status, NEW reason, NEW settlement, NEW n, NEW t
    PROVE  LET e == Ended(m, status, reason, settlement, n, t) IN
           /\ e.status = status
           /\ e.reason = reason
           /\ e.economy = Economy(e)
<1> DEFINE c == [m EXCEPT !.reason = reason, !.settlement = settlement, !.completedAt = t]
           h == Handover(c, status, None, None, n, t)
           e == [h EXCEPT !.economy = Economy(h)]
<1>1. /\ e.mode = h.mode /\ e.reason = h.reason /\ e.rv = h.rv
      /\ e.settlement = h.settlement /\ e.cumulative = h.cumulative
      /\ e.status = status /\ h.reason = reason
      /\ e.economy = Economy(h)
  BY DEF Handover, Match
<1>2. Ended(m, status, reason, settlement, n, t) = e
  BY DEF Ended
<1> HIDE DEF e, h
<1>3. Economy(e) = Economy(h)
  BY <1>1, EconomyFrame
<1> QED BY <1>1, <1>2, <1>3

\* Everything else leaves the economy and the reason alone.
SameBooks(m, n) == n.economy = m.economy /\ n.reason = m.reason

\* READY, OFFER, REVEAL and chat go on without an economy,
LEMMA PlayBooks ==
    ASSUME NEW m \in Match, NEW p \in Player, NEW t
    PROVE  /\ SameBooks(m, AfterReady(m, p, t))
           /\ \A oid \in Nat, a \in Amount : SameBooks(m, AfterOffer(m, p, oid, a, t))
           /\ \A fact \in Fact : SameBooks(m, AfterReveal(m, p, fact, t))
           /\ SameBooks(m, AfterMessage(m))
<1>1. SameBooks(m, AfterReady(m, p, t))
  BY DEF AfterReady, Started, Match, SameBooks
<1>2. ASSUME NEW oid \in Nat, NEW a \in Amount PROVE SameBooks(m, AfterOffer(m, p, oid, a, t))
  BY DEF AfterOffer, Handover, Conceded, Match, SameBooks
<1>3. ASSUME NEW fact \in Fact PROVE SameBooks(m, AfterReveal(m, p, fact, t))
  BY DEF AfterReveal, Handover, Match, SameBooks
<1>4. SameBooks(m, AfterMessage(m))
  BY DEF AfterMessage, Match, SameBooks
<1> QED BY <1>1, <1>2, <1>3, <1>4

\* and so do absence and return.
LEMMA PresenceBooks ==
    ASSUME NEW m \in Match, NEW p \in Player, NEW t
    PROVE  /\ SameBooks(m, AfterDisconnect(m, p, t))
           /\ SameBooks(m, AfterReconnect(m, p, t))
<1>1. SameBooks(m, AfterDisconnect(m, p, t))
  BY DEF AfterDisconnect, Handover, Match, SameBooks
<1>2. SameBooks(m, AfterReconnect(m, p, t))
  BY DEF AfterReconnect, Resumed, Match, SameBooks
<1> QED BY <1>1, <1>2

-----------------------------------------------------------------------------
(* Amounts and their price                                                 *)

\* Amounts are numbers, and None is not one of them.
LEMMA AmountsAreIntegers == Amount \subseteq Int /\ None \notin Amount
BY ConfigAssumption, NoneAssumption DEF Amount

\* Movement is transitive, and it is movement.
LEMMA MovementOrders ==
    ASSUME NEW p \in Player, NEW a \in Amount, NEW b \in Amount, NEW c \in Amount
    PROVE  /\ TowardOpponent(p, a, b) /\ TowardOpponent(p, b, c)
                => TowardOpponent(p, a, c)
           /\ ~TowardOpponent(p, a, a)
<1>1. a \in Int /\ b \in Int /\ c \in Int
  BY AmountsAreIntegers
<1> QED BY <1>1 DEF TowardOpponent

\* The price of a move between different amounts is at least one chip.
LEMMA MovesCost ==
    ASSUME NEW a \in Amount, NEW b \in Amount, a # b
    PROVE  Cost[a][b] \in Nat /\ Cost[a][b] >= 1
BY ConfigAssumption

-----------------------------------------------------------------------------
(* Matches in good order: what every command preserves, whoever issues it  *)

\* The result is written with the end, the clock runs exactly while the match
\* is ACTIVE, and the player who is not on turn is always within the limit.
InOrder(m, t) ==
    /\ m \in Match
    /\ ~Terminal(m) => m.reason = None
    /\ m.status \in {"CREATED", "READY"} => \A p \in Player : m.cumulative[p] = 0
    /\ m.status = "ACTIVE" => m.active \in Player /\ m.turnStartedAt \in 0 .. t
    /\ m.status = "PAUSED" => m.active \in Player /\ m.turnStartedAt = None
    /\ Limit # None /\ m.status \in {"ACTIVE", "PAUSED"} =>
         m.cumulative[Other(m.active)] < Limit
    /\ Limit # None /\ m.reason = "TIMED_OUT" =>
         \E p \in Player : m.cumulative[p] >= Limit /\ m.cumulative[Other(p)] < Limit

\* Whoever the clock runs for, the charge counts to him and to nobody else.
LEMMA OnTurnClock ==
    ASSUME NEW m, NEW t \in Nat, InOrder(m, t), NEW p \in Player, OwnsTurn(m, p)
    PROVE  /\ FrozenClock(m, t)[p] = ElapsedActive(m, p, t)
           /\ ElapsedActive(m, p, t) = m.cumulative[p] + (t - m.turnStartedAt)
           /\ FrozenClock(m, t)[Other(p)] = m.cumulative[Other(p)]
           /\ Limit # None => m.cumulative[Other(p)] < Limit
<1>1. /\ m \in Match /\ m.active = p /\ m.turnStartedAt \in 0 .. t
      /\ Other(p) \in Player /\ Other(p) # p
      /\ m.turnStartedAt # None
  BY OtherIsPlayer, NoneAssumption DEF InOrder, OwnsTurn
<1>2. m.turnStartedAt \in Nat /\ m.turnStartedAt <= t
  BY <1>1
<1>3. SinceTurn(m, t) = t - m.turnStartedAt
  BY <1>2 DEF SinceTurn
<1> QED BY <1>1, <1>3 DEF FrozenClock, ElapsedActive, InOrder, OwnsTurn

\* A player who may move is on turn and within the limit.
LEMMA MoverInTime ==
    ASSUME NEW m, NEW t \in Nat, InOrder(m, t), NEW p \in Player, HasTurn(m, p, t)
    PROVE  /\ OwnsTurn(m, p)
           /\ Limit # None => FrozenClock(m, t)[p] < Limit
<1>1. OwnsTurn(m, p) /\ p # None
  BY NoneAssumption DEF HasTurn, OwnsTurn
<1>2. Limit # None => ~(ElapsedActive(m, p, t) >= Limit)
  BY <1>1 DEF HasTurn, OwnsTurn, Exhausted
<1>3. ElapsedActive(m, p, t) \in Nat
  BY FrozenClockType DEF InOrder
<1>4. FrozenClock(m, t)[p] = ElapsedActive(m, p, t)
  BY <1>1, OnTurnClock
<1> QED BY <1>1, <1>2, <1>3, <1>4, ConfigAssumption

\* A match that starts is in good order.
LEMMA StartedInOrder ==
    ASSUME NEW m, NEW t \in Nat, InOrder(m, t), m.status \in {"CREATED", "READY"}
    PROVE  InOrder(Started(m, t), t)
<1> DEFINE n == Started(m, t)
<1>1. m \in Match /\ m.first \in Player /\ m.reason = None
  BY DEF InOrder, Terminal, Match
<1>2. n \in Match
  BY <1>1, StartedType
<1>3. /\ n.status = "ACTIVE" /\ n.active = m.first /\ n.turnStartedAt = t
      /\ n.cumulative = m.cumulative /\ n.reason = m.reason
  BY <1>1 DEF Started, Match
<1>4. Limit # None => n.cumulative[Other(n.active)] < Limit
  BY <1>1, <1>3, OtherIsPlayer, ConfigAssumption DEF InOrder
<1> HIDE DEF n
<1>5. None # "TIMED_OUT"
  BY NoneAssumption DEF Reason
<1> QED BY <1>1, <1>2, <1>3, <1>4, <1>5 DEF InOrder, n

\* READY keeps a match in order.
LEMMA ReadyInOrder ==
    ASSUME NEW m, NEW t \in Nat, InOrder(m, t), NEW p \in Player, CanReady(m)
    PROVE  InOrder(AfterReady(m, p, t), t)
<1> DEFINE r == [m EXCEPT !.ready[p] = TRUE, !.status = "READY", !.seq = @ + 1]
<1>1. m \in Match /\ m.seq + 1 \in Nat
  BY DEF InOrder, Match
<1>2. r \in Match
  <2>1. [m.ready EXCEPT ![p] = TRUE] \in [Player -> BOOLEAN]
    BY <1>1 DEF Match
  <2> QED BY <1>1, <2>1 DEF Match, Status
<1>3. r.status = "READY" /\ r.cumulative = m.cumulative /\ r.reason = m.reason
  BY <1>1 DEF Match
<1>4. m.reason = None /\ None # "TIMED_OUT" /\ \A q \in Player : m.cumulative[q] = 0
  BY NoneAssumption DEF InOrder, CanReady, Terminal, Reason
<1> HIDE DEF r
<1>5. InOrder(r, t)
  BY <1>2, <1>3, <1>4 DEF InOrder
<1>6. InOrder(Started(r, t), t)
  BY <1>3, <1>5, StartedInOrder
<1> QED BY <1>5, <1>6 DEF AfterReady, r

\* A player who concedes or reveals leaves the opponent on turn, himself in time.
LEMMA HandoverInOrder ==
    ASSUME NEW m, NEW t \in Nat, InOrder(m, t), NEW p \in Player, HasTurn(m, p, t),
           NEW n \in Match, n.active = Other(p), n.reason = m.reason,
           n.cumulative = FrozenClock(m, t),
           \/ n.status = "ACTIVE" /\ n.turnStartedAt = t
           \/ n.status = "PAUSED" /\ n.turnStartedAt = None
    PROVE  InOrder(n, t)
<1>1. Other(p) \in Player /\ Other(Other(p)) = p
  BY DEF Other, Player
<1>2. Limit # None => FrozenClock(m, t)[p] < Limit
  BY MoverInTime
<1>3. n.reason = None /\ None # "TIMED_OUT"
  BY NoneAssumption DEF InOrder, HasTurn, Terminal, Reason
<1> QED BY <1>1, <1>2, <1>3 DEF InOrder

\* OFFER and REVEAL keep a match in order.
LEMMA MoveInOrder ==
    ASSUME NEW m, NEW t \in Nat, InOrder(m, t), NEW p \in Player
    PROVE  /\ \A oid \in Nat, a \in Amount :
                CanOffer(m, p, a, t) => InOrder(AfterOffer(m, p, oid, a, t), t)
           /\ \A fact \in Fact :
                CanReveal(m, p, fact, t) => InOrder(AfterReveal(m, p, fact, t), t)
<1>0. m \in Match
  BY DEF InOrder
<1>1. ASSUME NEW oid \in Nat, NEW a \in Amount, CanOffer(m, p, a, t)
      PROVE  InOrder(AfterOffer(m, p, oid, a, t), t)
  <2> DEFINE n == AfterOffer(m, p, oid, a, t)
  <2>1. n \in Match
    BY <1>0, OfferType
  <2>2. /\ n.active = Other(p) /\ n.reason = m.reason /\ n.cumulative = FrozenClock(m, t)
        /\ \/ n.status = "ACTIVE" /\ n.turnStartedAt = t
           \/ n.status = "PAUSED" /\ n.turnStartedAt = None
    BY <1>0, OfferClock
  <2>3. HasTurn(m, p, t)
    BY <1>1 DEF CanOffer
  <2> HIDE DEF n
  <2> QED BY <2>1, <2>2, <2>3, HandoverInOrder DEF n
<1>2. ASSUME NEW fact \in Fact, CanReveal(m, p, fact, t)
      PROVE  InOrder(AfterReveal(m, p, fact, t), t)
  <2> DEFINE n == AfterReveal(m, p, fact, t)
  <2>1. n \in Match
    BY <1>0, RevealType
  <2>2. /\ n.active = Other(p) /\ n.reason = m.reason /\ n.cumulative = FrozenClock(m, t)
        /\ n.status = "ACTIVE" /\ n.turnStartedAt = t
    BY <1>0, RevealClock
  <2>3. HasTurn(m, p, t)
    BY <1>2 DEF CanReveal
  <2> HIDE DEF n
  <2> QED BY <2>1, <2>2, <2>3, HandoverInOrder DEF n
<1> QED BY <1>1, <1>2

\* An ending keeps a match in order; one that says TIMED_OUT has to be due.
LEMMA EndedInOrder ==
    ASSUME NEW m, NEW t \in Nat, InOrder(m, t), NEW status, NEW reason \in Reason,
           NEW settlement \in Amount \cup {None}, NEW k \in Nat,
           status \in {"DEAL", "NO_DEAL", "ABORTED"},
           reason = "ACCEPTED" => settlement \in Amount,
           reason = "TIMED_OUT" => \E p \in Player : CanTimeout(m, p, t)
    PROVE  InOrder(Ended(m, status, reason, settlement, k, t), t)
<1> DEFINE e == Ended(m, status, reason, settlement, k, t)
<1>0. m \in Match /\ status \in Status
  BY DEF InOrder, Status
<1>1. e \in Match
  BY <1>0, EndedType
<1>2. e.status = status /\ e.reason = reason /\ e.cumulative = FrozenClock(m, t)
  BY <1>0, EndedClock
<1> HIDE DEF e
<1>3. ASSUME Limit # None, reason = "TIMED_OUT"
      PROVE  \E p \in Player : e.cumulative[p] >= Limit /\ e.cumulative[Other(p)] < Limit
  <2>1. PICK p \in Player : CanTimeout(m, p, t)
    BY <1>3
  <2>2. OwnsTurn(m, p) /\ ElapsedActive(m, p, t) >= Limit
    BY <2>1 DEF CanTimeout, OwnsTurn
  <2>3. FrozenClock(m, t)[p] >= Limit /\ FrozenClock(m, t)[Other(p)] < Limit
    BY <1>3, <2>2, OnTurnClock
  <2> QED BY <1>2, <2>3
<1> QED BY <1>1, <1>2, <1>3 DEF InOrder, Terminal, e

\* The four endings keep a match in order.
LEMMA EndingsInOrder ==
    ASSUME NEW m, NEW t \in Nat, InOrder(m, t), NEW p \in Player
    PROVE  /\ m.latest[Other(p)] # None => InOrder(AfterAccept(m, p, t), t)
           /\ InOrder(AfterWalkAway(m, t), t)
           /\ CanTimeout(m, p, t) => InOrder(AfterTimeout(m, t), t)
           /\ InOrder(AfterAbort(m, t), t)
<1>1. m.settlement \in Amount \cup {None} /\ m.latest[Other(p)] \in Amount \cup {None}
  BY OtherIsPlayer DEF InOrder, Match
<1>2. {"ACCEPTED", "WALKED_AWAY", "TIMED_OUT", "ABORTED"} \subseteq Reason
  BY DEF Reason
<1>3. ASSUME m.latest[Other(p)] # None PROVE InOrder(AfterAccept(m, p, t), t)
  BY <1>1, <1>2, <1>3, EndedInOrder DEF AfterAccept
<1>4. InOrder(AfterWalkAway(m, t), t)
  BY <1>1, <1>2, EndedInOrder DEF AfterWalkAway
<1>5. ASSUME CanTimeout(m, p, t) PROVE InOrder(AfterTimeout(m, t), t)
  BY <1>1, <1>2, <1>5, EndedInOrder DEF AfterTimeout
<1>6. InOrder(AfterAbort(m, t), t)
  BY <1>1, <1>2, EndedInOrder DEF AfterAbort
<1> QED BY <1>3, <1>4, <1>5, <1>6

\* Chat, absence and return keep a match in order.
LEMMA PresenceInOrder ==
    ASSUME NEW m, NEW t \in Nat, InOrder(m, t), NEW p \in Player
    PROVE  /\ InOrder(AfterMessage(m), t)
           /\ InOrder(AfterDisconnect(m, p, t), t)
           /\ InOrder(AfterReconnect(m, p, t), t)
<1>0. m \in Match
  BY DEF InOrder
<1>1. InOrder(AfterMessage(m), t)
  <2> DEFINE n == AfterMessage(m)
  <2>1. n \in Match
    BY <1>0 DEF AfterMessage, Match
  <2>2. /\ n.status = m.status /\ n.reason = m.reason /\ n.active = m.active
        /\ n.turnStartedAt = m.turnStartedAt /\ n.cumulative = m.cumulative
    BY <1>0 DEF AfterMessage, Match
  <2> HIDE DEF n
  <2> QED BY <2>1, <2>2 DEF InOrder, Terminal, n
<1>2. InOrder(AfterDisconnect(m, p, t), t)
  <2> DEFINE n == AfterDisconnect(m, p, t)
  <2>1. n \in Match /\ n.reason = m.reason
    BY <1>0, PresenceType, DisconnectClock
  <2>2. \/ n.status = m.status /\ SameClock(m, n)
        \/ /\ OwnsTurn(m, p) /\ n.status = "PAUSED" /\ n.active = p
           /\ n.turnStartedAt = None /\ n.cumulative = FrozenClock(m, t)
    BY <1>0, DisconnectClock
  <2> HIDE DEF n
  <2>3. CASE n.status = m.status /\ SameClock(m, n)
    BY <2>1, <2>3 DEF InOrder, SameClock, Terminal, n
  <2>4. CASE /\ OwnsTurn(m, p) /\ n.status = "PAUSED" /\ n.active = p
             /\ n.turnStartedAt = None /\ n.cumulative = FrozenClock(m, t)
    <3>1. Limit # None => n.cumulative[Other(p)] < Limit
      BY <2>4, OnTurnClock
    <3>2. n.reason = None /\ None # "TIMED_OUT"
      BY <2>1, <2>4, NoneAssumption DEF InOrder, OwnsTurn, Terminal, Reason
    <3> QED BY <2>1, <2>4, <3>1, <3>2 DEF InOrder, n
  <2> QED BY <2>2, <2>3, <2>4
<1>3. InOrder(AfterReconnect(m, p, t), t)
  <2> DEFINE n == AfterReconnect(m, p, t)
  <2>1. n \in Match /\ n.reason = m.reason /\ n.cumulative = m.cumulative /\ n.active = m.active
    BY <1>0, PresenceType, ReconnectClock
  <2>2. \/ n.status = m.status /\ n.turnStartedAt = m.turnStartedAt
        \/ m.status = "PAUSED" /\ n.status = "ACTIVE" /\ n.turnStartedAt = t
    BY <1>0, ReconnectClock
  <2> HIDE DEF n
  <2> QED BY <2>1, <2>2 DEF InOrder, Terminal, n
<1> QED BY <1>1, <1>2, <1>3

\* Time does a match no harm.
LEMMA LaterInOrder ==
    ASSUME NEW m, NEW t \in Nat, NEW u \in Nat, t <= u, InOrder(m, t)
    PROVE  InOrder(m, u)
<1>1. m.turnStartedAt \in 0 .. t => m.turnStartedAt \in 0 .. u
  OBVIOUS
<1> QED BY <1>1 DEF InOrder

\* A new match is in good order.
LEMMA CreatedInOrder ==
    ASSUME NEW mode \in Mode, NEW rv \in [Player -> Amount], NEW first \in Player,
           NEW t \in Nat
    PROVE  InOrder(CreatedMatch(mode, rv, first), t)
<1>1. CreatedMatch(mode, rv, first) \in Match
  BY CreatedType
<1>2. None # "TIMED_OUT"
  BY NoneAssumption DEF Reason
<1> QED BY <1>1, <1>2 DEF InOrder, CreatedMatch, Terminal

-----------------------------------------------------------------------------
(* Commands: the dispatcher over all of the above                          *)

\* A command as a route, the scheduler, the AI engine or presence builds it.
WellFormed(c) ==
    /\ c.kind \in {"READY", "OFFER", "ACCEPT", "WALK_AWAY", "REVEAL", "MESSAGE", "DISCONNECT",
                   "RECONNECT", "ABORT", "TIMEOUT"}
    /\ c.kind # "ABORT" => c.by \in Player
    /\ c.kind = "OFFER" => c.id \in Nat

\* Every accepted command keeps a match in order.
LEMMA AppliedInOrder ==
    ASSUME NEW m, NEW t \in Nat, InOrder(m, t), NEW c, WellFormed(c), Accepted(m, c, t)
    PROVE  InOrder(Applied(m, c, t), t)
<1>1. CASE c.kind = "READY"
  BY <1>1, ReadyInOrder DEF Accepted, Applied, WellFormed
<1>2. CASE c.kind = "OFFER"
  BY <1>2, MoveInOrder DEF Accepted, Applied, WellFormed, CanOffer
<1>3. CASE c.kind = "REVEAL"
  <2>1. c.arg \in Fact /\ CanReveal(m, c.by, c.arg, t) /\ c.by \in Player
    BY <1>3, FactType DEF Accepted, WellFormed, CanReveal
  <2> QED BY <1>3, <2>1, MoveInOrder DEF Applied
<1>4. CASE c.kind \in {"ACCEPT", "WALK_AWAY", "TIMEOUT"}
  BY <1>4, EndingsInOrder DEF Accepted, Applied, WellFormed, CanAccept
<1>5. CASE c.kind = "ABORT"
  BY <1>5, EndingsInOrder DEF Applied, Player
<1>6. CASE c.kind \in {"MESSAGE", "DISCONNECT", "RECONNECT"}
  BY <1>6, PresenceInOrder DEF Applied, WellFormed
<1> QED BY <1>1, <1>2, <1>3, <1>4, <1>5, <1>6 DEF WellFormed

\* Handing over the turn and ending count the events they are told to count.
LEMMA HandoverCounts ==
    ASSUME NEW m \in Match, NEW status, NEW owner, NEW started, NEW n \in Nat, NEW t
    PROVE  Handover(m, status, owner, started, n, t).seq = m.seq + n
BY DEF Handover, Match

\* See HandoverCounts.
LEMMA EndedCounts ==
    ASSUME NEW m \in Match, NEW status, NEW reason, NEW settlement, NEW n \in Nat, NEW t
    PROVE  Ended(m, status, reason, settlement, n, t).seq = m.seq + n
BY DEF Ended, Handover, Match

\* The number of a match grows with the events of each command, one by one.
LEMMA AppliedCounts ==
    ASSUME NEW m \in Match, NEW t, NEW c, WellFormed(c)
    PROVE  /\ Len(Emitted(m, c, t)) \in 0 .. 2
           /\ Applied(m, c, t).seq = m.seq + Len(Emitted(m, c, t))
           /\ IF Emitted(m, c, t) = <<>> THEN Applied(m, c, t) = m
                                        ELSE Applied(m, c, t).seq > m.seq
<1>0. m.seq \in Nat
  BY DEF Match
<1>1. CASE c.kind = "READY"
  BY <1>0, <1>1 DEF Applied, Emitted, AfterReady, ReadyEvents, Started, Match
<1>2. CASE c.kind = "OFFER"
  <2>1. /\ AfterOffer(m, c.by, c.id, c.arg, t).seq =
             m.seq + (IF m.disconnected[Other(c.by)] THEN 2 ELSE 1)
    BY <1>0 DEF AfterOffer, Conceded, Handover, Match
  <2> QED BY <1>0, <1>2, <2>1 DEF Applied, Emitted, OfferEvents
<1>3. CASE c.kind = "ACCEPT"
  BY <1>0, <1>3, EndedCounts DEF Applied, Emitted, AfterAccept, AcceptEvents
<1>4. CASE c.kind = "WALK_AWAY"
  BY <1>0, <1>4, EndedCounts DEF Applied, Emitted, AfterWalkAway, WalkAwayEvents
<1>5. CASE c.kind = "TIMEOUT"
  BY <1>0, <1>5, EndedCounts DEF Applied, Emitted, AfterTimeout, TimeoutEvents
<1>6. CASE c.kind = "ABORT"
  BY <1>0, <1>6, EndedCounts DEF Applied, Emitted, AfterAbort, AbortEvents
<1>7. CASE c.kind = "REVEAL"
  <2>1. AfterReveal(m, c.by, c.arg, t).seq = m.seq + 1
    BY <1>0 DEF AfterReveal, Handover, Match
  <2> QED BY <1>0, <1>7, <2>1 DEF Applied, Emitted, RevealEvents
<1>8. CASE c.kind = "MESSAGE"
  BY <1>0, <1>8 DEF Applied, Emitted, AfterMessage, MessageEvents, Match
<1>9. CASE c.kind = "DISCONNECT"
  <2>1. CASE Terminal(m) \/ m.disconnected[c.by]
    BY <1>0, <1>9, <2>1 DEF Applied, Emitted, AfterDisconnect, DisconnectEvents
  <2>2. CASE ~(Terminal(m) \/ m.disconnected[c.by])
    <3>1. AfterDisconnect(m, c.by, t).seq = m.seq + (IF OwnsTurn(m, c.by) THEN 2 ELSE 1)
      BY <1>0, <2>2 DEF AfterDisconnect, Handover, Match
    <3> QED BY <1>0, <1>9, <2>2, <3>1 DEF Applied, Emitted, DisconnectEvents
  <2> QED BY <2>1, <2>2
<1>10. CASE c.kind = "RECONNECT"
  <2>1. CASE Terminal(m) \/ ~m.disconnected[c.by]
    BY <1>0, <1>10, <2>1 DEF Applied, Emitted, AfterReconnect, ReconnectEvents
  <2>2. CASE ~(Terminal(m) \/ ~m.disconnected[c.by])
    <3>1. AfterReconnect(m, c.by, t).seq = m.seq + 1
      BY <1>0, <2>2 DEF AfterReconnect, Resumed, Match
    <3> QED BY <1>0, <1>10, <2>2, <3>1 DEF Applied, Emitted, ReconnectEvents
  <2> QED BY <2>1, <2>2
<1> QED BY <1>1, <1>2, <1>3, <1>4, <1>5, <1>6, <1>7, <1>8, <1>9, <1>10 DEF WellFormed

\* Every accepted command returns a match, whatever reading of the clock it
\* carries.
LEMMA AppliedType ==
    ASSUME NEW m \in Match, NEW t \in Nat, NEW c, WellFormed(c), Accepted(m, c, t)
    PROVE  Applied(m, c, t) \in Match
<1>1. CASE c.kind = "READY"
  BY <1>1, ReadyType DEF Applied, WellFormed
<1>2. CASE c.kind = "OFFER"
  BY <1>2, OfferType DEF Accepted, Applied, WellFormed, CanOffer
<1>3. CASE c.kind = "REVEAL"
  <2>1. c.arg \in Fact /\ c.by \in Player
    BY <1>3, FactType DEF Accepted, WellFormed, CanReveal
  <2> QED BY <1>3, <2>1, RevealType DEF Applied
<1>4. CASE c.kind \in {"ACCEPT", "WALK_AWAY", "TIMEOUT"}
  BY <1>4, EndingsType DEF Accepted, Applied, WellFormed, CanAccept
<1>5. CASE c.kind = "ABORT"
  BY <1>5, EndingsType DEF Applied, Player
<1>6. CASE c.kind \in {"DISCONNECT", "RECONNECT"}
  BY <1>6, PresenceType DEF Applied, WellFormed
<1>7. CASE c.kind = "MESSAGE"
  BY <1>7 DEF Applied, AfterMessage, Match
<1> QED BY <1>1, <1>2, <1>3, <1>4, <1>5, <1>6, <1>7 DEF WellFormed

Endings == {"ACCEPT", "WALK_AWAY", "TIMEOUT"}

\* A command that moves a match on leaves it unfinished and its result unwritten;
\* one that ends it writes the result; a finished match takes nothing any more.
GoesOnOrEnds(m, c, n) ==
    /\ Terminal(m) => n = m
    /\ ~Terminal(m) /\ c.kind \notin Endings \cup {"ABORT"} =>
         ~Terminal(n) /\ n.reason = m.reason
    /\ c.kind \in Endings => ~Terminal(m)
    /\ c.kind = "ACCEPT" => n.status = "DEAL" /\ n.reason = "ACCEPTED"
    /\ c.kind = "WALK_AWAY" => n.status = "NO_DEAL" /\ n.reason = "WALKED_AWAY"
    /\ c.kind = "TIMEOUT" => n.status = "NO_DEAL" /\ n.reason = "TIMED_OUT"
    /\ ~Terminal(m) /\ c.kind = "ABORT" => n.status = "ABORTED" /\ n.reason = "ABORTED"

\* Every accepted command does one or the other.
LEMMA AppliedEnds ==
    ASSUME NEW m \in Match, NEW t \in Nat, NEW c, WellFormed(c), Accepted(m, c, t)
    PROVE  GoesOnOrEnds(m, c, Applied(m, c, t))
<1> DEFINE n == Applied(m, c, t)
<1>1. CASE c.kind = "READY"
  <2>1. n.reason = m.reason /\ n.status \in {m.status, "READY", "ACTIVE"}
    BY <1>1, ReadyClock DEF Applied, WellFormed
  <2>2. ~Terminal(m)
    BY <1>1 DEF Accepted, CanReady, Terminal
  <2> QED BY <1>1, <2>1, <2>2 DEF GoesOnOrEnds, Terminal, Endings
<1>2. CASE c.kind = "OFFER"
  <2>1. n.reason = m.reason /\ n.status \in {"ACTIVE", "PAUSED"} /\ ~Terminal(m)
    BY <1>2, OfferTurn DEF Accepted, Applied, WellFormed, CanOffer, HasTurn, Terminal, SameEnd
  <2> QED BY <1>2, <2>1 DEF GoesOnOrEnds, Terminal, Endings
<1>3. CASE c.kind = "REVEAL"
  <2>1. n.reason = m.reason /\ n.status = "ACTIVE" /\ ~Terminal(m)
    BY <1>3, RevealFields DEF Accepted, Applied, WellFormed, CanReveal, HasTurn, Terminal, SameEnd
  <2> QED BY <1>3, <2>1 DEF GoesOnOrEnds, Terminal, Endings
<1>4. CASE c.kind \in Endings
  <2>1. m.status = "ACTIVE"
    BY <1>4 DEF Accepted, Endings, CanAccept, CanWalkAway, CanTimeout, HasTurn
  <2>2. c.kind = "ACCEPT" => n.status = "DEAL" /\ n.reason = "ACCEPTED"
    BY EndedFields DEF Applied, AfterAccept
  <2>3. c.kind = "WALK_AWAY" => n.status = "NO_DEAL" /\ n.reason = "WALKED_AWAY"
    BY EndedFields DEF Applied, AfterWalkAway
  <2>4. c.kind = "TIMEOUT" => n.status = "NO_DEAL" /\ n.reason = "TIMED_OUT"
    BY EndedFields DEF Applied, AfterTimeout
  <2> HIDE DEF n
  <2> QED BY <1>4, <2>1, <2>2, <2>3, <2>4 DEF GoesOnOrEnds, Terminal, Endings, n
<1>5. CASE c.kind = "ABORT"
  <2>1. IF Terminal(m) THEN n = m ELSE n.status = "ABORTED" /\ n.reason = "ABORTED"
    BY <1>5, EndedFields DEF Applied, AfterAbort
  <2> QED BY <1>5, <2>1 DEF GoesOnOrEnds, Endings
<1>6. CASE c.kind = "MESSAGE"
  <2>1. n.reason = m.reason /\ n.status = m.status /\ ~Terminal(m)
    BY <1>6 DEF Accepted, Applied, AfterMessage, CanMessage, Match, Terminal
  <2> QED BY <1>6, <2>1 DEF GoesOnOrEnds, Terminal, Endings
<1>7. CASE c.kind = "DISCONNECT"
  <2>1. n.reason = m.reason /\ (n.status = m.status \/ n.status = "PAUSED")
    BY <1>7, DisconnectClock DEF Applied, WellFormed
  <2>2. Terminal(m) => n = m
    BY <1>7 DEF Applied, AfterDisconnect
  <2> QED BY <1>7, <2>1, <2>2 DEF GoesOnOrEnds, Terminal, Endings
<1>8. CASE c.kind = "RECONNECT"
  <2>1. n.reason = m.reason /\ (n.status = m.status \/ n.status = "ACTIVE")
    BY <1>8, ReconnectClock DEF Applied, WellFormed
  <2>2. Terminal(m) => n = m
    BY <1>8 DEF Applied, AfterReconnect
  <2> QED BY <1>8, <2>1, <2>2 DEF GoesOnOrEnds, Terminal, Endings
<1> QED BY <1>1, <1>2, <1>3, <1>4, <1>5, <1>6, <1>7, <1>8 DEF WellFormed, Endings

\* Whatever reading of the clock a command carries, charged time only grows.
LEMMA AppliedCharges ==
    ASSUME NEW m \in Match, NEW t \in Nat, NEW c, WellFormed(c), Accepted(m, c, t),
           NEW p \in Player
    PROVE  Applied(m, c, t).cumulative[p] >= m.cumulative[p]
<1> DEFINE n == Applied(m, c, t)
<1>1. m.cumulative[p] \in Nat /\ FrozenClock(m, t)[p] >= m.cumulative[p]
  <2>1. m.cumulative[p] \in Nat
    BY DEF Match
  <2>2. FrozenClock(m, t)[p] = ElapsedActive(m, p, t)
    BY DEF FrozenClock
  <2> QED BY <2>1, <2>2, FrozenClockType
<1>2. CASE c.kind = "READY"
  BY <1>1, <1>2, ReadyClock DEF Applied, WellFormed
<1>3. CASE c.kind = "OFFER"
  <2>1. n.cumulative = FrozenClock(m, t)
    BY <1>3, OfferClock DEF Accepted, Applied, WellFormed, CanOffer
  <2> QED BY <1>1, <2>1
<1>4. CASE c.kind = "REVEAL"
  <2>1. c.arg \in Fact /\ c.by \in Player
    BY <1>4, FactType DEF Accepted, WellFormed, CanReveal
  <2>2. n.cumulative = FrozenClock(m, t)
    BY <1>4, <2>1, RevealClock DEF Applied
  <2> QED BY <1>1, <2>2
<1>5. CASE c.kind \in Endings \cup {"ABORT"}
  <2>1. m.settlement \in Amount \cup {None}
        /\ {"ACCEPTED", "WALKED_AWAY", "TIMED_OUT", "ABORTED"} \subseteq Reason
    BY DEF Match, Reason
  <2>2. c.kind = "ACCEPT" => m.latest[Other(c.by)] \in Amount \cup {None}
    BY OtherIsPlayer DEF Match, WellFormed
  <2>3. c.kind = "ACCEPT" => n.cumulative = FrozenClock(m, t)
    BY <2>1, <2>2, EndedClock DEF Applied, AfterAccept
  <2>4. c.kind = "WALK_AWAY" => n.cumulative = FrozenClock(m, t)
    BY <2>1, EndedClock DEF Applied, AfterWalkAway
  <2>5. c.kind = "TIMEOUT" => n.cumulative = FrozenClock(m, t)
    BY <2>1, EndedClock DEF Applied, AfterTimeout
  <2>6. c.kind = "ABORT" => n.cumulative = FrozenClock(m, t) \/ n = m
    BY <2>1, EndedClock DEF Applied, AfterAbort
  <2> HIDE DEF n
  <2>7. n.cumulative = FrozenClock(m, t) \/ n = m
    BY <1>5, <2>3, <2>4, <2>5, <2>6 DEF Endings
  <2> QED BY <1>1, <2>7 DEF n
<1>6. CASE c.kind = "MESSAGE"
  BY <1>1, <1>6 DEF Applied, AfterMessage, Match
<1>7. CASE c.kind = "DISCONNECT"
  <2>1. n.cumulative = m.cumulative \/ n.cumulative = FrozenClock(m, t)
    BY <1>7, DisconnectClock DEF Applied, WellFormed, SameClock
  <2> QED BY <1>1, <2>1
<1>8. CASE c.kind = "RECONNECT"
  BY <1>1, <1>8, ReconnectClock DEF Applied, WellFormed
<1> QED BY <1>2, <1>3, <1>4, <1>5, <1>6, <1>7, <1>8 DEF WellFormed, Endings

\* The terms stay; an offer is its player's new bid; an acceptance takes the
\* opponent's bid as the price.
BidsFollow(m, c, n) ==
    /\ n.rv = m.rv
    /\ c.kind = "OFFER" => n.latest = [m.latest EXCEPT ![c.by] = c.arg]
    /\ c.kind # "OFFER" => n.latest = m.latest
    /\ c.kind = "ACCEPT" => n.settlement = m.latest[Other(c.by)]

\* What a command does to the terms, the bids and the price.
LEMMA AppliedBids ==
    ASSUME NEW m \in Match, NEW t, NEW c, WellFormed(c), Accepted(m, c, t)
    PROVE  BidsFollow(m, c, Applied(m, c, t))
<1> USE DEF BidsFollow
<1> DEFINE n == Applied(m, c, t)
<1>1. CASE c.kind = "OFFER"
  <2>1. c.arg \in Amount /\ c.by \in Player
    BY <1>1 DEF Accepted, WellFormed, CanOffer
  <2> QED BY <1>1, <2>1 DEF Applied, AfterOffer, Handover, Conceded, Match
<1>2. CASE c.kind \in {"READY", "REVEAL"}
  BY <1>2, ReadyFields, RevealFields DEF Applied, WellFormed, SameBids
<1>3. CASE c.kind \in {"ACCEPT", "WALK_AWAY", "TIMEOUT", "ABORT"}
  BY <1>3, EndedFields
     DEF Applied, AfterAccept, AfterWalkAway, AfterTimeout, AfterAbort, SameBids
<1>4. CASE c.kind = "MESSAGE"
  BY <1>4, MessageFields DEF Applied, SameBids
<1>5. CASE c.kind = "DISCONNECT"
  BY <1>5 DEF Applied, AfterDisconnect, Handover, Match
<1>6. CASE c.kind = "RECONNECT"
  BY <1>6 DEF Applied, AfterReconnect, Resumed, Match
<1> QED BY <1>1, <1>2, <1>3, <1>4, <1>5, <1>6 DEF WellFormed

\* What a command does to the marks of absence, if it does anything.
LEMMA AppliedPresence ==
    ASSUME NEW m \in Match, NEW t, NEW c, WellFormed(c), Accepted(m, c, t)
    PROVE  LET n == Applied(m, c, t) IN
           /\ c.kind \notin {"DISCONNECT", "RECONNECT"} => n.disconnected = m.disconnected
           /\ c.kind \in {"DISCONNECT", "RECONNECT"} =>
                \/ n = m /\ Emitted(m, c, t) = <<>>
                \/ \A p \in Player : n.disconnected[p] =
                     IF p = c.by THEN c.kind = "DISCONNECT" ELSE m.disconnected[p]
<1> DEFINE n == Applied(m, c, t)
<1>1. CASE c.kind = "OFFER"
  <2>1. c.arg \in Amount /\ c.by \in Player
    BY <1>1 DEF Accepted, WellFormed, CanOffer
  <2> QED BY <1>1, <2>1, OfferTurn DEF Applied
<1>2. CASE c.kind = "READY"
  BY <1>2 DEF Applied, AfterReady, Started, Match
<1>3. CASE c.kind = "REVEAL"
  BY <1>3 DEF Applied, AfterReveal, Handover, Match
<1>4. CASE c.kind = "ACCEPT"
  BY <1>4 DEF Applied, AfterAccept, Ended, Handover, Match
<1>5. CASE c.kind \in {"WALK_AWAY", "TIMEOUT"}
  BY <1>5 DEF Applied, AfterWalkAway, AfterTimeout, Ended, Handover, Match
<1>6. CASE c.kind = "ABORT"
  BY <1>6 DEF Applied, AfterAbort, Ended, Handover, Match
<1>7. CASE c.kind = "MESSAGE"
  BY <1>7, MessageFields DEF Applied
<1>8. CASE c.kind = "DISCONNECT"
  <2>1. CASE Terminal(m) \/ m.disconnected[c.by]
    BY <1>8, <2>1 DEF Applied, Emitted, AfterDisconnect, DisconnectEvents
  <2>2. CASE ~(Terminal(m) \/ m.disconnected[c.by])
    <3>1. n.disconnected = [m.disconnected EXCEPT ![c.by] = TRUE]
      BY <1>8, <2>2 DEF Applied, AfterDisconnect, Handover, Match, WellFormed
    <3> QED BY <1>8, <3>1 DEF Match, WellFormed
  <2> QED BY <2>1, <2>2
<1>9. CASE c.kind = "RECONNECT"
  <2>1. CASE Terminal(m) \/ ~m.disconnected[c.by]
    BY <1>9, <2>1 DEF Applied, Emitted, AfterReconnect, ReconnectEvents
  <2>2. CASE ~(Terminal(m) \/ ~m.disconnected[c.by])
    <3>1. n.disconnected = [m.disconnected EXCEPT ![c.by] = FALSE]
      BY <1>9, <2>2 DEF Applied, AfterReconnect, Resumed, Match, WellFormed
    <3> QED BY <1>9, <3>1 DEF Match, WellFormed
  <2> QED BY <2>1, <2>2
<1> QED BY <1>1, <1>2, <1>3, <1>4, <1>5, <1>6, <1>7, <1>8, <1>9 DEF WellFormed

\* The event a command is stored under.
FirstType(kind) ==
    CASE kind = "READY" -> "PLAYER_READY"
      [] kind = "OFFER" -> "OFFER_SUBMITTED"
      [] kind = "ACCEPT" -> "OFFER_ACCEPTED"
      [] kind = "WALK_AWAY" -> "WALKED_AWAY"
      [] kind = "REVEAL" -> "FACT_REVEALED"
      [] kind = "MESSAGE" -> "MESSAGE_SENT"
      [] kind = "DISCONNECT" -> "PLAYER_DISCONNECTED"
      [] kind = "RECONNECT" -> "PLAYER_RECONNECTED"
      [] kind = "ABORT" -> "MATCH_ABORTED"
      [] kind = "TIMEOUT" -> "TIMED_OUT"

FirstEvent(c, t, e) ==
    /\ e.type = FirstType(c.kind) /\ e.at = t
    /\ c.kind # "ABORT" => e.actor = c.by
    /\ c.kind = "OFFER" => e.arg.amount = c.arg
    /\ c.kind = "TIMEOUT" => e.arg = c.by

LaterEvent(c, e) ==
    e.type = CASE c.kind = "READY" -> "MATCH_STARTED"
               [] c.kind \in {"OFFER", "DISCONNECT"} -> "MATCH_PAUSED"
               [] c.kind \in Endings -> "MATCH_COMPLETED"

\* A command emits nothing, its own event, or its own and one that follows.
Emits(c, t, events) ==
    \/ events = <<>> /\ c.kind \notin Endings \cup {"OFFER"}
    \/ c.kind \notin Endings /\ \E e : FirstEvent(c, t, e) /\ events = <<e>>
    \/ /\ c.kind \in Endings \cup {"READY", "OFFER", "DISCONNECT"}
       /\ \E e, f : FirstEvent(c, t, e) /\ LaterEvent(c, f) /\ events = <<e, f>>

\* Two events in a row.
LEMMA TwoEvents ==
    ASSUME NEW e, NEW f PROVE <<e>> \o <<>> = <<e>> /\ <<e>> \o <<f>> = <<e, f>>
<1> DEFINE s == <<e>> \o <<f>>
<1>1. <<e>> \o <<>> = <<e>>
  OBVIOUS
<1>2. <<e>> \in Seq({e, f}) /\ <<f>> \in Seq({e, f})
  OBVIOUS
<1>3. s \in Seq({e, f}) /\ Len(s) = 2 /\ s[1] = e /\ s[2] = f
  BY <1>2
<1>4. /\ <<e, f>> \in Seq({e, f}) /\ Len(<<e, f>>) = 2
      /\ <<e, f>>[1] = e /\ <<e, f>>[2] = f
  OBVIOUS
<1> HIDE DEF s
<1>5. s = <<e, f>>
  BY <1>3, <1>4, SeqEqual
<1> QED BY <1>1, <1>5 DEF s

\* So does every command of the dispatcher.
LEMMA EmittedForm ==
    ASSUME NEW m, NEW t, NEW c, WellFormed(c) PROVE Emits(c, t, Emitted(m, c, t))
<1>1. CASE c.kind = "READY"
  <2> DEFINE e == Event("PLAYER_READY", c.by, t, None)
             f == Event("MATCH_STARTED", None, t, m.first)
  <2>1. FirstEvent(c, t, e) /\ LaterEvent(c, f)
    BY <1>1 DEF FirstEvent, FirstType, LaterEvent, Event, Endings
  <2>2. Emitted(m, c, t) = <<>> \/ Emitted(m, c, t) = <<e>> \o <<>> \/ Emitted(m, c, t) = <<e>> \o <<f>>
    BY <1>1 DEF Emitted, ReadyEvents
  <2>3. <<e>> \o <<>> = <<e>> /\ <<e>> \o <<f>> = <<e, f>>
    BY TwoEvents
  <2> HIDE DEF e, f
  <2>4. Emitted(m, c, t) = <<>> \/ Emitted(m, c, t) = <<e>> \/ Emitted(m, c, t) = <<e, f>>
    BY <2>2, <2>3
  <2>5. c.kind \notin Endings
    BY <1>1 DEF Endings
  <2> QED BY <1>1, <2>1, <2>4, <2>5, Zenon DEF Emits
<1>2. CASE c.kind = "OFFER"
  <2> DEFINE e == Event("OFFER_SUBMITTED", c.by, t, [id |-> c.id, amount |-> c.arg])
             f == Event("MATCH_PAUSED", None, t, Other(c.by))
  <2>1. FirstEvent(c, t, e) /\ LaterEvent(c, f)
    BY <1>2 DEF FirstEvent, FirstType, LaterEvent, Event, Endings
  <2>2. Emitted(m, c, t) = <<e>> \o <<>> \/ Emitted(m, c, t) = <<e>> \o <<f>>
    BY <1>2 DEF Emitted, OfferEvents
  <2>3. <<e>> \o <<>> = <<e>> /\ <<e>> \o <<f>> = <<e, f>>
    BY TwoEvents
  <2> HIDE DEF e, f
  <2>4. Emitted(m, c, t) = <<e>> \/ Emitted(m, c, t) = <<e, f>>
    BY <2>2, <2>3
  <2>5. c.kind \notin Endings
    BY <1>2 DEF Endings
  <2> QED BY <1>2, <2>1, <2>4, <2>5, Zenon DEF Emits
<1>3. CASE c.kind = "ACCEPT"
  <2>1. FirstEvent(c, t, Event("OFFER_ACCEPTED", c.by, t,
                               [id |-> c.arg, amount |-> m.latest[Other(c.by)]]))
        /\ LaterEvent(c, Event("MATCH_COMPLETED", None, t, "ACCEPTED"))
    BY <1>3 DEF FirstEvent, FirstType, LaterEvent, Event, Endings
  <2> QED BY <1>3, <2>1 DEF Emitted, AcceptEvents, Emits, Endings
<1>4. CASE c.kind = "WALK_AWAY"
  <2>1. FirstEvent(c, t, Event("WALKED_AWAY", c.by, t, None))
        /\ LaterEvent(c, Event("MATCH_COMPLETED", None, t, "WALKED_AWAY"))
    BY <1>4 DEF FirstEvent, FirstType, LaterEvent, Event, Endings
  <2> QED BY <1>4, <2>1 DEF Emitted, WalkAwayEvents, Emits, Endings
<1>5. CASE c.kind = "TIMEOUT"
  <2>1. FirstEvent(c, t, Event("TIMED_OUT", c.by, t, c.by))
        /\ LaterEvent(c, Event("MATCH_COMPLETED", None, t, "TIMED_OUT"))
    BY <1>5 DEF FirstEvent, FirstType, LaterEvent, Event, Endings
  <2> QED BY <1>5, <2>1 DEF Emitted, TimeoutEvents, Emits, Endings
<1>6. CASE c.kind = "REVEAL"
  <2>1. FirstEvent(c, t, Event("FACT_REVEALED", c.by, t, c.arg))
    BY <1>6 DEF FirstEvent, FirstType, Event
  <2> QED BY <1>6, <2>1 DEF Emitted, RevealEvents, Emits, Endings
<1>7. CASE c.kind = "MESSAGE"
  <2>1. FirstEvent(c, t, Event("MESSAGE_SENT", c.by, t, c.arg))
    BY <1>7 DEF FirstEvent, FirstType, Event
  <2> QED BY <1>7, <2>1 DEF Emitted, MessageEvents, Emits, Endings
<1>8. CASE c.kind = "DISCONNECT"
  <2> DEFINE e == Event("PLAYER_DISCONNECTED", c.by, t, None)
             f == Event("MATCH_PAUSED", None, t, c.by)
  <2>1. FirstEvent(c, t, e) /\ LaterEvent(c, f)
    BY <1>8 DEF FirstEvent, FirstType, LaterEvent, Event, Endings
  <2>2. Emitted(m, c, t) = <<>> \/ Emitted(m, c, t) = <<e>> \o <<>> \/ Emitted(m, c, t) = <<e>> \o <<f>>
    BY <1>8 DEF Emitted, DisconnectEvents
  <2>3. <<e>> \o <<>> = <<e>> /\ <<e>> \o <<f>> = <<e, f>>
    BY TwoEvents
  <2> HIDE DEF e, f
  <2>4. Emitted(m, c, t) = <<>> \/ Emitted(m, c, t) = <<e>> \/ Emitted(m, c, t) = <<e, f>>
    BY <2>2, <2>3
  <2>5. c.kind \notin Endings
    BY <1>8 DEF Endings
  <2> QED BY <1>8, <2>1, <2>4, <2>5, Zenon DEF Emits
<1>9. CASE c.kind = "RECONNECT"
  <2>1. FirstEvent(c, t, Event("PLAYER_RECONNECTED", c.by, t, None))
    BY <1>9 DEF FirstEvent, FirstType, Event
  <2> QED BY <1>9, <2>1 DEF Emitted, ReconnectEvents, Emits, Endings
<1>10. CASE c.kind = "ABORT"
  <2>1. FirstEvent(c, t, Event("MATCH_ABORTED", None, t, None))
    BY <1>10 DEF FirstEvent, FirstType, Event
  <2> QED BY <1>10, <2>1 DEF Emitted, AbortEvents, Emits, Endings
<1> QED BY <1>1, <1>2, <1>3, <1>4, <1>5, <1>6, <1>7, <1>8, <1>9, <1>10 DEF WellFormed

-----------------------------------------------------------------------------
(* Replay                                                                  *)

\* A set of natural numbers has a least one.
LEMMA LeastMember ==
    ASSUME NEW T, T \subseteq Nat, T # {}
    PROVE  \E x \in T : \A y \in T : x <= y
<1>1. \E x \in T : \A y \in T : ~(<<y, x>> \in OpToRel(<, Nat))
  BY NatLessThanWellFounded, WFMin
<1>2. PICK x \in T : \A y \in T : ~(<<y, x>> \in OpToRel(<, Nat))
  BY <1>1
<1>3. ASSUME NEW y \in T PROVE ~(y < x)
  BY <1>2 DEF OpToRel
<1>4. ASSUME NEW y \in T PROVE x <= y
  BY <1>3
<1> QED BY <1>4

\* Where the first i events of a stream lead, for each i.
Chain(m, events, r) ==
    r = [i \in 0 .. Len(events) |->
            IF i = 0 THEN Replaying(m, <<>>, FALSE) ELSE ReplayStep(r[i - 1], events[i])]

\* They lead to one place only: the first event at which two chains part would
\* be replayed from the same place.
LEMMA ChainUnique ==
    ASSUME NEW m, NEW events, Len(events) \in Nat, NEW r, NEW q,
           Chain(m, events, r), Chain(m, events, q)
    PROVE  r = q
<1> DEFINE differ == {i \in 0 .. Len(events) : r[i] # q[i]}
<1>1. CASE differ = {}
  BY <1>1 DEF Chain
<1>2. CASE differ # {}
  <2>0. differ \subseteq Nat
    OBVIOUS
  <2>1. PICK i \in differ : \A j \in differ : i <= j
    <3> HIDE DEF differ
    <3> QED BY <1>2, <2>0, LeastMember
  <2>2. CASE i = 0
    BY <2>2, <2>1 DEF Chain
  <2>3. CASE i # 0
    <3>1. i - 1 \in 0 .. Len(events) /\ i - 1 \notin differ
      BY <2>1, <2>3
    <3>2. r[i - 1] = q[i - 1]
      BY <3>1
    <3>3. r[i] = ReplayStep(r[i - 1], events[i]) /\ q[i] = ReplayStep(q[i - 1], events[i])
      BY <2>1, <2>3 DEF Chain
    <3> QED BY <2>1, <3>2, <3>3
  <2> QED BY <2>2, <2>3
<1> QED BY <1>1, <1>2

\* So a stream is replayed to where its chain ends.
LEMMA ReplayIsChain ==
    ASSUME NEW m, NEW events, Len(events) \in Nat, NEW r, Chain(m, events, r)
    PROVE  Replay(m, events) = r[Len(events)]
<1> DEFINE after == CHOOSE f : Chain(m, events, f)
<1>1. Chain(m, events, after)
  OBVIOUS
<1>2. after = r
  BY <1>1, ChainUnique
<1>3. Replay(m, events) = after[Len(events)]
  BY DEF Replay, Chain
<1> QED BY <1>2, <1>3

\* What an event stream keeps of a command: all that its effect depends on.
Retold(m, c, t) ==
    LET e == Emitted(m, c, t)[1]
        k == CommandForEvent(e) IN
    /\ ~Derived(e)
    /\ e.at = t
    /\ Accepted(m, k, t)
    /\ Applied(m, k, t) = Applied(m, c, t)
    /\ Emitted(m, k, t) = Emitted(m, c, t)

\* A command is its kind and those of its fields that the kind looks at.
LEMMA SameEffect ==
    ASSUME NEW m, NEW t, NEW c, NEW k, k.kind = c.kind,
           c.kind # "ABORT" => k.by = c.by,
           c.kind \in {"OFFER", "ACCEPT", "REVEAL", "MESSAGE"} => k.arg = c.arg,
           c.kind = "OFFER" => k.id = c.id,
           Accepted(m, c, t)
    PROVE  /\ Accepted(m, k, t)
           /\ Applied(m, k, t) = Applied(m, c, t)
           /\ Emitted(m, k, t) = Emitted(m, c, t)
<1>1. Accepted(m, k, t)
  BY DEF Accepted
<1>2. c.kind \in {"READY", "OFFER", "ACCEPT", "WALK_AWAY", "REVEAL", "MESSAGE", "DISCONNECT",
                  "RECONNECT", "ABORT", "TIMEOUT"}
  BY DEF Accepted
<1>3. Applied(m, k, t) = Applied(m, c, t)
  BY <1>2 DEF Applied
<1>4. Emitted(m, k, t) = Emitted(m, c, t)
  BY <1>2 DEF Emitted
<1> QED BY <1>1, <1>3, <1>4

\* The first event of an accepted command tells it in full.
LEMMA CommandRetold ==
    ASSUME NEW m, NEW t, NEW c, WellFormed(c), Accepted(m, c, t), Emitted(m, c, t) # <<>>
    PROVE  Retold(m, c, t)
<1> DEFINE e == Emitted(m, c, t)[1]
           k == CommandForEvent(e)
<1>1. CASE c.kind = "READY"
  <2>1. e = Event("PLAYER_READY", c.by, t, None)
    BY <1>1 DEF Emitted, ReadyEvents
  <2>2. k = Command("READY", c.by, None)
    BY <2>1 DEF CommandForEvent, Event
  <2> QED BY <1>1, <2>1, <2>2, SameEffect DEF Retold, Derived, Event, Command
<1>2. CASE c.kind = "OFFER"
  <2>1. e = Event("OFFER_SUBMITTED", c.by, t, [id |-> c.id, amount |-> c.arg])
    BY <1>2 DEF Emitted, OfferEvents
  <2>2. k = OfferCommand(c.by, c.id, c.arg)
    BY <2>1 DEF CommandForEvent, Event
  <2> QED BY <1>2, <2>1, <2>2, SameEffect DEF Retold, Derived, Event, OfferCommand
<1>3. CASE c.kind = "ACCEPT"
  <2>1. e = Event("OFFER_ACCEPTED", c.by, t, [id |-> c.arg, amount |-> m.latest[Other(c.by)]])
    BY <1>3 DEF Emitted, AcceptEvents
  <2>2. k = Command("ACCEPT", c.by, c.arg)
    BY <2>1 DEF CommandForEvent, Event
  <2>3. k.kind = "ACCEPT" /\ k.by = c.by /\ k.arg = c.arg
    BY <2>2 DEF Command
  <2>4. ~Derived(e) /\ e.at = t
    BY <2>1 DEF Derived, Event
  <2> HIDE DEF k
  <2>5. /\ Accepted(m, k, t)
        /\ Applied(m, k, t) = Applied(m, c, t) /\ Emitted(m, k, t) = Emitted(m, c, t)
    BY <1>3, <2>3, SameEffect
  <2> QED BY <2>4, <2>5 DEF Retold, k
<1>4. CASE c.kind = "WALK_AWAY"
  <2>1. e = Event("WALKED_AWAY", c.by, t, None)
    BY <1>4 DEF Emitted, WalkAwayEvents
  <2>2. k = Command("WALK_AWAY", c.by, None)
    BY <2>1 DEF CommandForEvent, Event
  <2>3. k.kind = "WALK_AWAY" /\ k.by = c.by
    BY <2>2 DEF Command
  <2>4. ~Derived(e) /\ e.at = t
    BY <2>1 DEF Derived, Event
  <2> HIDE DEF k
  <2>5. /\ Accepted(m, k, t)
        /\ Applied(m, k, t) = Applied(m, c, t) /\ Emitted(m, k, t) = Emitted(m, c, t)
    BY <1>4, <2>3, SameEffect
  <2> QED BY <2>4, <2>5 DEF Retold, k
<1>5. CASE c.kind = "REVEAL"
  <2>1. e = Event("FACT_REVEALED", c.by, t, c.arg)
    BY <1>5 DEF Emitted, RevealEvents
  <2>2. k = Command("REVEAL", c.by, c.arg)
    BY <2>1 DEF CommandForEvent, Event
  <2> QED BY <1>5, <2>1, <2>2, SameEffect DEF Retold, Derived, Event, Command
<1>6. CASE c.kind = "MESSAGE"
  <2>1. e = Event("MESSAGE_SENT", c.by, t, c.arg)
    BY <1>6 DEF Emitted, MessageEvents
  <2>2. k = Command("MESSAGE", c.by, c.arg)
    BY <2>1 DEF CommandForEvent, Event
  <2> QED BY <1>6, <2>1, <2>2, SameEffect DEF Retold, Derived, Event, Command
<1>7. CASE c.kind = "DISCONNECT"
  <2>1. e = Event("PLAYER_DISCONNECTED", c.by, t, None)
    BY <1>7 DEF Emitted, DisconnectEvents
  <2>2. k = Command("DISCONNECT", c.by, None)
    BY <2>1 DEF CommandForEvent, Event
  <2> QED BY <1>7, <2>1, <2>2, SameEffect DEF Retold, Derived, Event, Command
<1>8. CASE c.kind = "RECONNECT"
  <2>1. e = Event("PLAYER_RECONNECTED", c.by, t, None)
    BY <1>8 DEF Emitted, ReconnectEvents
  <2>2. k = Command("RECONNECT", c.by, None)
    BY <2>1 DEF CommandForEvent, Event
  <2> QED BY <1>8, <2>1, <2>2, SameEffect DEF Retold, Derived, Event, Command
<1>9. CASE c.kind = "TIMEOUT"
  <2>1. e = Event("TIMED_OUT", c.by, t, c.by)
    BY <1>9 DEF Emitted, TimeoutEvents
  <2>2. k = Command("TIMEOUT", c.by, None)
    BY <2>1 DEF CommandForEvent, Event
  <2> QED BY <1>9, <2>1, <2>2, SameEffect DEF Retold, Derived, Event, Command
<1>10. CASE c.kind = "ABORT"
  <2>1. e = Event("MATCH_ABORTED", None, t, None)
    BY <1>10 DEF Emitted, AbortEvents
  <2>2. k = Command("ABORT", None, None)
    BY <2>1 DEF CommandForEvent, Event
  <2> QED BY <1>10, <2>1, <2>2, SameEffect DEF Retold, Derived, Event, Command
<1> QED BY <1>1, <1>2, <1>3, <1>4, <1>5, <1>6, <1>7, <1>8, <1>9, <1>10 DEF WellFormed

\* Replaying the first event of a command from the match it was applied to does
\* what the command did.
LEMMA FirstReplayed ==
    ASSUME NEW m, NEW t, NEW c, WellFormed(c), Accepted(m, c, t), Emitted(m, c, t) # <<>>,
           NEW before
    PROVE  ReplayStep(Replaying(m, before, FALSE), Emitted(m, c, t)[1]) =
               Replaying(Applied(m, c, t), before \o Emitted(m, c, t), FALSE)
<1> DEFINE e == Emitted(m, c, t)[1]
           k == CommandForEvent(e)
           from == Replaying(m, before, FALSE)
<1>1. /\ ~Derived(e) /\ e.at = t /\ Accepted(m, k, t)
      /\ Applied(m, k, t) = Applied(m, c, t) /\ Emitted(m, k, t) = Emitted(m, c, t)
  BY CommandRetold DEF Retold
<1>2. from.match = m /\ from.events = before /\ ~from.refused
  BY DEF Replaying
<1>3. ReplayStep(from, e) =
        IF from.refused \/ Derived(e) THEN from
        ELSE IF Accepted(from.match, k, e.at)
             THEN Replaying(Applied(from.match, k, e.at),
                            from.events \o Emitted(from.match, k, e.at), FALSE)
             ELSE [from EXCEPT !.refused = TRUE]
  BY DEF ReplayStep
<1> HIDE DEF e, k, from
<1>4. ReplayStep(from, e) = Replaying(Applied(m, c, t), before \o Emitted(m, c, t), FALSE)
  BY <1>1, <1>2, <1>3
<1> QED BY <1>4 DEF from, e

\* An event that follows from it adds nothing.
LEMMA LaterReplayed ==
    ASSUME NEW c, c.kind \in Endings \cup {"READY", "OFFER", "DISCONNECT"}, NEW e,
           LaterEvent(c, e), NEW replay
    PROVE  ReplayStep(replay, e) = replay
BY DEF LaterEvent, Endings, ReplayStep, Derived
=============================================================================
