---------------------------- MODULE AiTurnProofs ----------------------------
(***************************************************************************)
(* The AI turn engine (apps/api/src/ai/engine.ts), for any decision-time   *)
(* limit, any number of overlapping calls, timers, requests, failures and  *)
(* restarts: a match is left on the bot's turn only by decision of its     *)
(* agent, or when two calls have played one turn.  And its agents          *)
(* (apps/api/src/ai/personas.ts): what a persona decides is legal as long  *)
(* as it has time, and one that has opened gives up only when nothing is   *)
(* left to offer.                                                          *)
(***************************************************************************)
EXTENDS AiTurn, Personas, MatchDomainProofs, FiniteSetTheorems

-----------------------------------------------------------------------------
(* The invariant                                                           *)

\* What an agent may decide.
Decision ==
    [kind : {"OFFER"}, amount : Amount] \cup [kind : {"ACCEPT"}, id : Nat] \cup {WalkAwayIntent}

PlayingCall ==
    [pc : {"talking", "moving"}, seen : Nat \cup {None}, decision : Decision, at : Nat]

\* What a call carries from one await to the next.
CallState ==
    [pc : {"idle", "scheduling", "reading row", "arming", "loading", "leaving"}]
    \cup PlayingCall
    \cup [pc : {"falling back"}, seen : Nat \cup {None}]

EngineTypes == match \in Match /\ now \in Nat /\ tasks \in [Task -> CallState]

WalkedIsOver == match.reason = "WALKED_AWAY" => Terminal(match)

\* A decision the domain allows as long as there is time.
Timely(m, d) == d = WalkAwayIntent \/ LegalIntent(m, Bot, d, m.turnStartedAt)

\* A call that plays alone: until its move is refused it carries one that only the
\* clock can take from it, and afterwards there is no time left for any other.
OnCourse(t) ==
    /\ BotTurn \/ Terminal(match)
    /\ tasks[t].pc \in {"talking", "moving"} =>
         tasks[t].at <= now /\ (BotTurn => Timely(match, tasks[t].decision))
    /\ tasks[t].pc \in {"falling back", "leaving"} => (BotTurn => Exhausted(match, now))
    /\ \A u \in Task \ {t} : ~Playing(u)

Undisturbed == \A t \in Task : Playing(t) => OnCourse(t)

EngineInv == EngineTypes /\ WalkedIsOver /\ (twins \/ Undisturbed)

-----------------------------------------------------------------------------
(* Decisions and the match                                                 *)

\* Every decision an agent may take is well formed and timely.
LEMMA DecisionTypes ==
    ASSUME match \in Match, NEW d \in Offers(match) \cup Accepts(match) \cup {WalkAwayIntent}
    PROVE  d \in Decision /\ Timely(match, d)
<1>0. match.standing[Human] \in Nat \cup {None}
  BY AiAssumption, OtherIsPlayer DEF Match, Human
<1>1. CASE d \in Offers(match)
  BY <1>1 DEF Offers, OfferIntent, Decision, Timely, LegalIntent
<1>2. CASE d \in Accepts(match)
  BY <1>0, <1>2 DEF Accepts, AcceptIntent, Decision, Timely, LegalIntent
<1>3. CASE d = WalkAwayIntent
  BY <1>3 DEF Decision, Timely
<1> QED BY <1>1, <1>2, <1>3

\* The command an intent is committed as.
IntentCommand(m, p, d) ==
    CASE d.kind = "OFFER" -> OfferCommand(p, m.seq + 1, d.amount)
      [] d.kind = "ACCEPT" -> Command("ACCEPT", p, d.id)
      [] d.kind = "WALK_AWAY" -> Command("WALK_AWAY", p, None)

\* It is one of the commands of the domain, and of the kind of the intent.
LEMMA IntentsAreCommands ==
    ASSUME NEW m \in Match, NEW p \in Player, NEW d, NEW at, LegalIntent(m, p, d, at)
    PROVE  LET c == IntentCommand(m, p, d) IN
           /\ WellFormed(c) /\ c.kind = d.kind /\ c.by = p
           /\ Accepted(m, c, at) /\ Carried(m, p, d, at) = Applied(m, c, at)
<1>0. m.seq + 1 \in Nat
  BY DEF Match
<1>1. CASE d.kind = "OFFER" /\ CanOffer(m, p, d.amount, at)
  BY <1>0, <1>1 DEF IntentCommand, OfferCommand, WellFormed, Accepted, Applied, Carried
<1>2. CASE d.kind = "ACCEPT" /\ CanAccept(m, p, d.id, at)
  BY <1>2 DEF IntentCommand, Command, WellFormed, Accepted, Applied, Carried
<1>3. CASE d.kind = "WALK_AWAY" /\ CanWalkAway(m, p, at)
  BY <1>3 DEF IntentCommand, Command, WellFormed, Accepted, Applied, Carried
<1> QED BY <1>1, <1>2, <1>3 DEF LegalIntent

\* A legal intent is one of a player on turn, in time.
LEMMA LegalHasTurn ==
    ASSUME NEW m, NEW p, NEW d, NEW at, LegalIntent(m, p, d, at)
    PROVE  OwnsTurn(m, p) /\ ~Exhausted(m, at)
BY DEF LegalIntent, CanOffer, CanAccept, CanWalkAway, HasTurn, OwnsTurn

\* And the clock is all that can take it away: a timely decision that is refused
\* on the bot's turn came too late.
LEMMA RefusedIsLate ==
    ASSUME NEW m \in Match, NEW d, NEW at, OwnsTurn(m, Bot), Timely(m, d),
           ~LegalIntent(m, Bot, d, at)
    PROVE  Exhausted(m, at)
<1> SUFFICES ASSUME ~Exhausted(m, at) PROVE FALSE
  OBVIOUS
<1>1. HasTurn(m, Bot, at)
  BY DEF HasTurn, OwnsTurn
<1>2. CASE d = WalkAwayIntent
  BY <1>1, <1>2 DEF LegalIntent, WalkAwayIntent, CanWalkAway
<1>3. CASE LegalIntent(m, Bot, d, m.turnStartedAt)
  BY <1>1, <1>3 DEF LegalIntent, CanOffer, CanAccept, CanWalkAway
<1> QED BY <1>2, <1>3 DEF Timely

\* Time that is used up stays used up.
LEMMA LaterIsLate ==
    ASSUME NEW m \in Match, NEW s \in Nat, NEW t \in Nat, s <= t, Exhausted(m, s)
    PROVE  Exhausted(m, t)
<1>1. m.active \in Player /\ m.cumulative[m.active] \in Nat /\ m.turnStartedAt \in Nat \cup {None}
  BY DEF Match, Exhausted
<1>2. Limit \in Nat
  BY ConfigAssumption DEF Exhausted
<1>3. m.turnStartedAt # None => SinceTurn(m, s) <= SinceTurn(m, t)
                                /\ SinceTurn(m, s) \in Nat /\ SinceTurn(m, t) \in Nat
  BY <1>1 DEF SinceTurn
<1>4. ElapsedActive(m, m.active, s) <= ElapsedActive(m, m.active, t)
      /\ ElapsedActive(m, m.active, s) \in Nat /\ ElapsedActive(m, m.active, t) \in Nat
  BY <1>1, <1>3 DEF ElapsedActive
<1> QED BY <1>2, <1>4 DEF Exhausted

\* The fields the legality of a move is judged by.
SameMoves(m, n) ==
    /\ n.status = m.status /\ n.active = m.active
    /\ n.turnStartedAt = m.turnStartedAt /\ n.cumulative = m.cumulative
    /\ n.rv = m.rv /\ n.latest = m.latest /\ n.standing = m.standing
    /\ n.chipsSpent = m.chipsSpent

\* Nothing else counts.
LEMMA MovesKept ==
    ASSUME NEW m, NEW n, SameMoves(m, n)
    PROVE  /\ \A p : OwnsTurn(n, p) <=> OwnsTurn(m, p)
           /\ Terminal(n) <=> Terminal(m)
           /\ \A t : Exhausted(n, t) <=> Exhausted(m, t)
           /\ \A d : Timely(m, d) => Timely(n, d)
<1>1. \A t : Exhausted(n, t) <=> Exhausted(m, t)
  BY DEF SameMoves, Exhausted, ElapsedActive, SinceTurn
<1>2. \A p, t : HasTurn(m, p, t) => HasTurn(n, p, t)
  BY <1>1 DEF SameMoves, HasTurn
<1>3. \A d : Timely(m, d) => Timely(n, d)
  BY <1>2 DEF SameMoves, Timely, LegalIntent, CanOffer, CanAccept, CanWalkAway,
              WithinReservation, OfferCost
<1> QED BY <1>1, <1>3 DEF SameMoves, OwnsTurn, Terminal

\* Chat leaves the bot's move alone, and so do the absence and the return of a
\* human who is not on turn.
LEMMA BystanderMoves ==
    ASSUME NEW m \in Match, NEW p \in Player, ~OwnsTurn(m, p),
           ~(m.status = "PAUSED" /\ m.active = p), NEW t
    PROVE  /\ SameMoves(m, AfterMessage(m))
           /\ SameMoves(m, AfterDisconnect(m, p, t))
           /\ SameMoves(m, AfterReconnect(m, p, t))
<1>1. SameMoves(m, AfterMessage(m))
  BY DEF AfterMessage, SameMoves, Match
<1>2. SameMoves(m, AfterDisconnect(m, p, t))
  BY DEF AfterDisconnect, SameMoves, Match
<1>3. SameMoves(m, AfterReconnect(m, p, t))
  BY DEF AfterReconnect, SameMoves, Match
<1> QED BY <1>1, <1>2, <1>3

\* What a command of the domain makes of the match.
Advance(kind) ==
    \E c : \E at \in Nat : /\ WellFormed(c) /\ c.kind = kind /\ Accepted(match, c, at)
                            /\ match' = Applied(match, c, at)

\* It is a match again; a walk-away ends it, and only that is one.
LEMMA Advanced ==
    ASSUME match \in Match, WalkedIsOver, NEW kind, Advance(kind)
    PROVE  /\ match' \in Match /\ WalkedIsOver'
           /\ Terminal(match) => match' = match
           /\ match'.reason = "WALKED_AWAY" => kind = "WALK_AWAY" \/ Terminal(match)
           /\ kind = "TIMEOUT" => Terminal(match')
<1>1. PICK c : \E at \in Nat : /\ WellFormed(c) /\ c.kind = kind /\ Accepted(match, c, at)
                               /\ match' = Applied(match, c, at)
  BY DEF Advance
<1>2. match' \in Match /\ GoesOnOrEnds(match, c, match')
  BY <1>1, AppliedType, AppliedEnds
<1>3. \/ kind \notin Endings \cup {"ABORT"} \/ kind = "ACCEPT" \/ kind = "WALK_AWAY"
      \/ kind = "TIMEOUT" \/ kind = "ABORT"
  BY DEF Endings
<1> QED BY <1>1, <1>2, <1>3 DEF GoesOnOrEnds, WalkedIsOver, Terminal

-----------------------------------------------------------------------------
(* Steps                                                                   *)

\* What a request of the human does to the match: it commits a command of the
\* human, or it only looks.
Requested ==
    /\ match' = match \/ \E kind : Advance(kind) /\ (BotTurn => kind # "WALK_AWAY")
    /\ BotTurn => SameMoves(match, match')
    /\ HasFreeTask
    /\ tasks' = [tasks EXCEPT ![FreeTask] = Scheduling]
    /\ UNCHANGED <<now, twins>>

\* A command sent by the human, who is not on turn when the bot is.
LEMMA SendsKinds ==
    ASSUME EngineTypes, NEW c, WellFormed(c), c.by = Human, Sends(c),
           c.kind \in {"OFFER", "ACCEPT", "WALK_AWAY", "REVEAL", "MESSAGE", "DISCONNECT",
                       "RECONNECT"}
    PROVE  Requested
<1>0. Human \in Player /\ Human # Bot /\ match \in Match /\ now \in Nat
  BY AiAssumption, OtherIsPlayer DEF EngineTypes, Human
<1>1. Accepted(match, c, now) /\ Request(Applied(match, c, now))
  BY DEF Sends
<1>2. BotTurn => ~OwnsTurn(match, Human) /\ ~(match.status = "PAUSED" /\ match.active = Human)
  BY <1>0 DEF BotTurn, OwnsTurn
<1>3. BotTurn => c.kind \in {"MESSAGE", "DISCONNECT", "RECONNECT"}
  BY <1>1, <1>2 DEF Accepted, CanOffer, CanAccept, CanWalkAway, CanReveal, HasTurn, OwnsTurn
<1>4. BotTurn => SameMoves(match, Applied(match, c, now))
  BY <1>0, <1>2, <1>3, BystanderMoves DEF Applied
<1>5. Advance(c.kind)
  BY <1>0, <1>1 DEF Advance, Request
<1> QED BY <1>1, <1>3, <1>4, <1>5 DEF Request, Requested

\* Every request of the human is one of these.
LEMMA RequestKinds ==
    ASSUME EngineTypes
    PROVE  /\ \A a \in Amount : HumanOffer(a) => Requested
           /\ \A fact \in Fact : HumanReveal(fact) => Requested
           /\ HumanAccept \/ HumanWalksAway \/ HumanSays => Requested
           /\ HumanLeaves \/ HumanReturns \/ HumanLooks => Requested
<1>0. Human \in Player /\ match.seq + 1 \in Nat
  BY AiAssumption, OtherIsPlayer DEF EngineTypes, Human, Match
<1>1. ASSUME NEW a \in Amount, HumanOffer(a) PROVE Requested
  <2> DEFINE c == OfferCommand(Human, match.seq + 1, a)
  <2>1. WellFormed(c) /\ c.by = Human /\ c.kind = "OFFER"
    BY <1>0 DEF OfferCommand, WellFormed
  <2> QED BY <1>1, <2>1, SendsKinds DEF HumanOffer
<1>2. ASSUME NEW kind, NEW arg, Sends(Command(kind, Human, arg)),
             kind \in {"ACCEPT", "WALK_AWAY", "REVEAL", "MESSAGE", "DISCONNECT", "RECONNECT"}
      PROVE  Requested
  <2> DEFINE c == Command(kind, Human, arg)
  <2>1. WellFormed(c) /\ c.by = Human /\ c.kind = kind
    BY <1>0, <1>2 DEF Command, WellFormed
  <2> HIDE DEF c
  <2> QED BY <1>2, <2>1, SendsKinds DEF c
<1>3. HumanLooks => Requested
  BY DEF HumanLooks, Request, Requested, SameMoves
<1> QED BY <1>1, <1>2, <1>3
        DEF HumanReveal, HumanAccept, HumanWalksAway, HumanSays, HumanLeaves, HumanReturns

\* The free slot is one of the slots, and idle.
LEMMA FreeSlot == HasFreeTask => FreeTask \in Task /\ tasks[FreeTask] = Idle
BY DEF HasFreeTask, FreeTask

\* Calls that do not play are of the simple kind.
LEMMA SimpleCalls ==
    /\ Idle \in CallState /\ Scheduling \in CallState
    /\ [pc |-> "reading row"] \in CallState
    /\ [pc |-> "arming"] \in CallState
    /\ [pc |-> "loading"] \in CallState
    /\ Leaving \in CallState
BY DEF CallState, Idle, Scheduling, Leaving

\* Calls that play carry a decision, and go on with it.
LEMMA PlayingCalls ==
    ASSUME NEW s \in CallState
    PROVE  /\ s.pc \in {"talking", "moving"} =>
                /\ s \in PlayingCall
                /\ s.decision \in Decision /\ s.at \in Nat /\ s.seen \in Nat \cup {None}
                /\ [s EXCEPT !.pc = "moving"] \in PlayingCall
                /\ [s EXCEPT !.pc = "moving"].pc = "moving"
                /\ [s EXCEPT !.pc = "moving"].decision = s.decision
                /\ [s EXCEPT !.pc = "moving"].at = s.at
                /\ FallingBack(s.seen) \in CallState
           /\ s.pc = "falling back" => s.seen \in Nat \cup {None}
<1>1. ASSUME s.pc \in {"talking", "moving"} PROVE s \in PlayingCall
  BY <1>1 DEF CallState, PlayingCall
<1>2. ASSUME s.pc = "falling back" PROVE s.seen \in Nat \cup {None}
  BY <1>2 DEF CallState, PlayingCall
<1>3. ASSUME s \in PlayingCall PROVE FallingBack(s.seen) \in CallState
  BY <1>3 DEF FallingBack, CallState, PlayingCall
<1> QED BY <1>1, <1>2, <1>3 DEF PlayingCall

-----------------------------------------------------------------------------
(* Types                                                                   *)

\* The human's READY starts a match like any other.
LEMMA BegunType ==
    ASSUME NEW mode \in Mode, NEW rv \in [Player -> Amount], NEW first \in Player
    PROVE  LET b == Begun(CreatedMatch(mode, rv, first)) IN b \in Match /\ b.reason = None
<1> DEFINE created == CreatedMatch(mode, rv, first)
           ready == [created EXCEPT !.ready = [p \in Player |-> TRUE]]
<1>1. created \in Match
  BY CreatedType
<1>2. ready \in Match
  BY <1>1 DEF Match
<1>3. Started(ready, 0) \in Match
  BY <1>2, StartedType
<1>4. Started(ready, 0).reason = None
  BY DEF Started, CreatedMatch
<1> QED BY <1>3, <1>4 DEF Begun

\* With it the invariant holds: no call plays yet.
LEMMA InitEngine == Init => EngineInv
<1> SUFFICES ASSUME Init PROVE EngineInv
  OBVIOUS
<1>1. match \in Match /\ match.reason = None
  BY AiAssumption, BegunType DEF Init
<1>2. tasks \in [Task -> CallState] /\ \A t \in Task : ~Playing(t)
  BY SimpleCalls DEF Init, Playing, Idle, Scheduling
<1>3. None # "WALKED_AWAY"
  BY NoneAssumption DEF Reason
<1> QED BY <1>1, <1>2, <1>3 DEF Init, EngineInv, EngineTypes, WalkedIsOver, Undisturbed

\* A committed move is a command, and leaves the call waiting for its next turn.
LEMMA CommittedStep ==
    ASSUME EngineTypes, NEW t \in Task, NEW d, NEW at \in Nat, Legal(d, at),
           Committed(t, d, at)
    PROVE  Advance(d.kind) /\ tasks' \in [Task -> CallState]
<1>1. match \in Match /\ Bot \in Player
  BY AiAssumption DEF EngineTypes
<1>2. Advance(d.kind)
  BY <1>1, IntentsAreCommands DEF Advance, Committed, Legal
<1> QED BY <1>2, SimpleCalls DEF EngineTypes, Committed

\* A timeout is a command of the domain too.
LEMMA TimeoutStep == EngineTypes /\ Timeout => Advance("TIMEOUT")
<1> SUFFICES ASSUME EngineTypes, Timeout PROVE Advance("TIMEOUT")
  OBVIOUS
<1>1. PICK p \in Player : CanTimeout(match, p, now)
  BY DEF Timeout, TimesOut
<1> DEFINE c == Command("TIMEOUT", p, None)
<1>2. /\ WellFormed(c) /\ c.kind = "TIMEOUT" /\ Accepted(match, c, now)
      /\ Applied(match, c, now) = AfterTimeout(match, now)
  BY <1>1 DEF Command, WellFormed, Accepted, Applied
<1> HIDE DEF c
<1> QED BY <1>2 DEF Advance, EngineTypes, Timeout, TimesOut

\* Every step keeps the types, moves the clock forward only and leaves the match
\* alone or takes a command to it.
LEMMA MatchStep ==
    ASSUME EngineTypes, [Next]_vars
    PROVE  /\ match' = match \/ \E kind : Advance(kind)
           /\ now' \in Nat /\ now <= now'
           /\ tasks' \in [Task -> CallState]
<1>0. match \in Match /\ now \in Nat /\ tasks \in [Task -> CallState] /\ Bot \in Player
  BY AiAssumption DEF EngineTypes
<1> DEFINE Goal == /\ match' = match \/ \E kind : Advance(kind)
                   /\ now' \in Nat /\ now <= now'
                   /\ tasks' \in [Task -> CallState]
<1>a. \A s \in CallState, t \in Task : [tasks EXCEPT ![t] = s] \in [Task -> CallState]
  BY <1>0
<1>b. ASSUME match' = match, now' = now, tasks' \in [Task -> CallState] PROVE Goal
  BY <1>0, <1>b
<1>1. ASSUME NEW t \in Task, MaybeSchedule(t) \/ ReadRow(t) \/ Arm(t) \/ Fail(t) PROVE Goal
  <2>1. match' = match /\ now' = now
    BY <1>1 DEF MaybeSchedule, ReadRow, Arm, Fail
  <2>2. \E s \in CallState : tasks' = [tasks EXCEPT ![t] = s]
    BY <1>1, SimpleCalls DEF MaybeSchedule, ReadRow, Arm, Fail
  <2> QED BY <1>a, <1>b, <2>1, <2>2
<1>2. CASE Fire
  BY <1>2, <1>a, <1>b, FreeSlot, SimpleCalls DEF Fire
<1>3. ASSUME NEW t \in Task, Decide(t) PROVE Goal
  <2>1. match.standing[Human] \in Nat \cup {None}
    BY <1>0, OtherIsPlayer DEF Match, Human
  <2>2. \A d \in Decision : Talking(match.standing[Human], d, now) \in CallState
    BY <1>0, <2>1 DEF Talking, CallState, PlayingCall
  <2>3. tasks' \in [Task -> CallState]
    BY <1>0, <1>3, <2>2, SimpleCalls, DecisionTypes DEF Decide
  <2> QED BY <1>0, <1>3, <2>3 DEF Decide
<1>4. ASSUME NEW t \in Task, Talk(t) PROVE Goal
  <2>1. ASSUME CanMessage(match, "talk") PROVE Advance("MESSAGE") /\ match' = AfterMessage(match)
    <3> DEFINE c == Command("MESSAGE", Bot, "talk")
    <3>1. /\ WellFormed(c) /\ c.kind = "MESSAGE" /\ Accepted(match, c, now)
          /\ Applied(match, c, now) = AfterMessage(match)
      BY <1>0, <2>1 DEF Command, WellFormed, Accepted, Applied
    <3> HIDE DEF c
    <3> QED BY <1>0, <1>4, <2>1, <3>1 DEF Talk, Advance
  <2>2. [tasks[t] EXCEPT !.pc = "moving"] \in CallState
    BY <1>0, <1>4, PlayingCalls DEF Talk, CallState
  <2>3. tasks' = [tasks EXCEPT ![t] = [tasks[t] EXCEPT !.pc = "moving"]]
        \/ tasks' = [tasks EXCEPT ![t] = Idle]
    BY <1>0, <1>4 DEF Talk
  <2>4. tasks' \in [Task -> CallState]
    <3>1. Idle \in CallState
      BY SimpleCalls
    <3> DEFINE next == [tasks[t] EXCEPT !.pc = "moving"]
    <3> HIDE DEF next
    <3> QED BY <1>a, <2>2, <2>3, <3>1 DEF next
  <2>5. now' = now /\ (match' = match \/ Advance("MESSAGE"))
    BY <1>4, <2>1 DEF Talk
  <2> QED BY <1>0, <2>4, <2>5
<1>5. ASSUME NEW t \in Task, Move(t) PROVE Goal
  <2>1. tasks[t].at \in Nat /\ FallingBack(tasks[t].seen) \in CallState
    BY <1>0, <1>5, PlayingCalls DEF Move
  <2> QED BY <1>0, <1>5, <2>1, CommittedStep DEF Move
<1>6. ASSUME NEW t \in Task, FallbackAccept(t) \/ FallbackWalkAway(t) PROVE Goal
  <2>1. now' = now
    BY <1>6 DEF FallbackAccept, FallbackWalkAway
  <2>2. \/ \E d : Legal(d, now) /\ Committed(t, d, now)
        \/ match' = match /\ \E s \in {Idle, Leaving} : tasks' = [tasks EXCEPT ![t] = s]
    BY <1>6 DEF FallbackAccept, FallbackWalkAway
  <2>3. ASSUME NEW d, Legal(d, now), Committed(t, d, now) PROVE Goal
    <3>1. Advance(d.kind) /\ tasks' \in [Task -> CallState]
      BY <1>0, <2>3, CommittedStep
    <3> QED BY <1>0, <2>1, <3>1
  <2>4. ASSUME match' = match, NEW s \in {Idle, Leaving}, tasks' = [tasks EXCEPT ![t] = s]
        PROVE  Goal
    <3>1. s \in CallState
      BY SimpleCalls
    <3>2. tasks' \in [Task -> CallState]
      BY <1>a, <2>4, <3>1
    <3> QED BY <1>b, <2>1, <2>4, <3>2
  <2> HIDE DEF Goal
  <2> QED BY <2>2, <2>3, <2>4
<1>7. CASE Requested
  <2>1. tasks' \in [Task -> CallState]
    BY <1>7, <1>a, FreeSlot, SimpleCalls DEF Requested
  <2>2. now' = now /\ (match' = match \/ \E kind : Advance(kind))
    BY <1>7 DEF Requested
  <2> QED BY <1>0, <2>1, <2>2
<1>8. CASE Tick
  BY <1>0, <1>8 DEF Tick, TimePasses
<1>9. CASE Timeout
  <2>1. Advance("TIMEOUT")
    BY <1>9, TimeoutStep
  <2> QED BY <1>0, <1>9, <2>1 DEF Timeout, TimesOut
<1>10. CASE Restart
  BY <1>10, <1>b, SimpleCalls DEF Restart
<1>11. CASE UNCHANGED vars
  BY <1>0, <1>11 DEF vars
<1> QED BY <1>1, <1>2, <1>3, <1>4, <1>5, <1>6, <1>7, <1>8, <1>9, <1>10, <1>11, RequestKinds
        DEF Next, Engine

-----------------------------------------------------------------------------
(* Who leaves                                                              *)

\* A step that lets the calls that play go on undisturbed: the match is over, or
\* the one they decided on.
LEMMA Aside ==
    ASSUME EngineTypes, EngineTypes', Undisturbed, now <= now',
           Terminal(match') \/ SameMoves(match, match'),
           \A u \in Task : Playing(u)' => tasks'[u] = tasks[u]
    PROVE  Undisturbed'
<1> SUFFICES ASSUME NEW t \in Task, Playing(t)' PROVE OnCourse(t)'
  BY DEF Undisturbed
<1>1. tasks'[t] = tasks[t] /\ Playing(t) /\ OnCourse(t)
  BY DEF Undisturbed, Playing
<1>2. \A u \in Task \ {t} : ~Playing(u)'
  BY <1>1 DEF OnCourse, Playing
<1>3. now \in Nat /\ now' \in Nat /\ match \in Match /\ match' \in Match
  BY DEF EngineTypes
<1>4. tasks[t].pc \in {"talking", "moving"} => tasks[t].at \in Nat
  BY PlayingCalls DEF EngineTypes
<1>5. BotTurn' => BotTurn /\ SameMoves(match, match')
  BY MovesKept DEF BotTurn, OwnsTurn, Terminal
<1>6. BotTurn' \/ Terminal(match')
  BY <1>1, MovesKept DEF OnCourse, BotTurn
<1>7. ASSUME tasks[t].pc \in {"talking", "moving"}
      PROVE  tasks[t].at <= now' /\ (BotTurn' => Timely(match', tasks[t].decision))
  <2>1. tasks[t].at <= now /\ tasks[t].at \in Nat
    BY <1>1, <1>4, <1>7 DEF OnCourse
  <2>2. tasks[t].at <= now'
    BY <1>3, <2>1
  <2>3. ASSUME BotTurn' PROVE Timely(match', tasks[t].decision)
    <3>1. Timely(match, tasks[t].decision) /\ SameMoves(match, match')
      BY <1>1, <1>5, <1>7, <2>3 DEF OnCourse
    <3> QED BY <3>1, MovesKept
  <2> QED BY <2>2, <2>3
<1>8. ASSUME tasks[t].pc \in {"falling back", "leaving"}, BotTurn' PROVE Exhausted(match', now')
  <2>1. Exhausted(match, now) /\ SameMoves(match, match')
    BY <1>1, <1>5, <1>8 DEF OnCourse
  <2>2. Exhausted(match', now)
    BY <2>1, MovesKept
  <2> QED BY <1>3, <2>2, LaterIsLate
<1>9. Timely(match', tasks[t].decision) => Timely(match, tasks[t].decision)'
  BY <1>1 DEF Timely
<1> QED BY <1>1, <1>2, <1>6, <1>7, <1>8, <1>9 DEF OnCourse

\* Nor does one after which nobody plays.
LEMMA NobodyPlays == ASSUME \A u \in Task : ~Playing(u)' PROVE Undisturbed'
BY DEF Undisturbed

\* Only the bot's turn, with time left, makes a move of the bot legal.
LEMMA LegalInTime ==
    ASSUME NEW d, NEW at, Legal(d, at) PROVE BotTurn /\ ~Exhausted(match, at)
BY LegalHasTurn DEF Legal, BotTurn

\* Every step that does not play a turn twice leaves the bot undisturbed.
LEMMA UndisturbedStep ==
    ASSUME EngineTypes, EngineTypes', WalkedIsOver, Undisturbed, [Next]_vars
    PROVE  twins' \/ Undisturbed'
<1>0. /\ tasks \in [Task -> CallState] /\ match \in Match
      /\ now \in Nat /\ now' \in Nat /\ now <= now'
  BY MatchStep DEF EngineTypes
<1> DEFINE simple == {"idle", "scheduling", "reading row", "arming", "loading"}
<1>a. ASSUME NEW t \in Task, NEW s, tasks' = [tasks EXCEPT ![t] = s], s.pc \in simple,
             match' = match
      PROVE  Undisturbed'
  <2>1. SameMoves(match, match')
    BY <1>a DEF SameMoves
  <2>2. \A u \in Task : Playing(u)' => tasks'[u] = tasks[u]
    BY <1>0, <1>a DEF Playing
  <2> QED BY <1>0, <2>1, <2>2, Aside
<1>1. ASSUME NEW t \in Task, MaybeSchedule(t) \/ ReadRow(t) \/ Arm(t) \/ Fail(t)
      PROVE  Undisturbed'
  <2>1. PICK s \in {Idle, [pc |-> "reading row"], [pc |-> "arming"]} :
          tasks' = [tasks EXCEPT ![t] = s] /\ match' = match
    BY <1>1 DEF MaybeSchedule, ReadRow, Arm, Fail
  <2>2. Idle.pc = "idle"
    BY DEF Idle
  <2>3. s.pc \in simple
    <3>1. CASE s = Idle
      BY <2>2, <3>1
    <3>2. CASE s = [pc |-> "reading row"]
      BY <3>2
    <3>3. CASE s = [pc |-> "arming"]
      BY <3>3
    <3> QED BY <2>1, <3>1, <3>2, <3>3
  <2> HIDE DEF simple
  <2> QED BY <1>a, <2>1, <2>3
<1>2. ASSUME Fire PROVE Undisturbed'
  <2>1. PICK t \in Task : tasks' = [tasks EXCEPT ![t] = [pc |-> "loading"]] /\ match' = match
    BY <1>2, FreeSlot DEF Fire
  <2> QED BY <1>a, <2>1
<1>3. ASSUME NEW t \in Task, Decide(t) PROVE twins' \/ Undisturbed'
  <2>0. match' = match /\ now' = now
    BY <1>3 DEF Decide
  <2>1. CASE ~BotTurn
    <3>1. tasks' = [tasks EXCEPT ![t] = Idle] /\ Idle.pc \in simple
      BY <1>3, <2>1 DEF Decide, Idle
    <3> HIDE DEF simple
    <3> QED BY <1>a, <2>0, <3>1
  <2>2. CASE BotTurn /\ \E u \in Task \ {t} : Playing(u)
    BY <1>3, <2>2 DEF Decide
  <2>3. CASE BotTurn /\ \A u \in Task \ {t} : ~Playing(u)
    <3>1. PICK d \in Offers(match) \cup Accepts(match) \cup {WalkAwayIntent} :
            tasks' = [tasks EXCEPT ![t] = Talking(match.standing[Human], d, now)]
      BY <1>3, <2>3 DEF Decide
    <3>2. Timely(match', d)
      BY <1>0, <2>0, DecisionTypes
    <3>3. /\ tasks'[t].pc = "talking" /\ tasks'[t].decision = d
          /\ tasks'[t].at <= now'
      BY <1>0, <2>0, <3>1 DEF Talking
    <3>4. \A u \in Task \ {t} : ~Playing(u)'
      BY <1>0, <2>3, <3>1 DEF Playing
    <3>5. Timely(match, tasks[t].decision)'
      BY <3>2, <3>3 DEF Timely
    <3>6. BotTurn'
      BY <2>0, <2>3 DEF BotTurn
    <3>7. OnCourse(t)'
      BY <3>3, <3>4, <3>5, <3>6 DEF OnCourse
    <3> QED BY <3>4, <3>7 DEF Undisturbed
  <2> QED BY <2>1, <2>2, <2>3
<1>4. ASSUME NEW t \in Task, Talk(t) PROVE Undisturbed'
  <2>1. tasks[t].pc = "talking" /\ OnCourse(t) /\ now' = now
    BY <1>4 DEF Talk, Undisturbed, Playing
  <2>2. CASE CanMessage(match, "talk")
    <3>1. match' = AfterMessage(match) /\ tasks' = [tasks EXCEPT ![t].pc = "moving"]
      BY <1>4, <2>2 DEF Talk
    <3>2. SameMoves(match, match')
      BY <1>0, <3>1 DEF AfterMessage, SameMoves, Match
    <3>3. /\ tasks'[t].pc = "moving" /\ tasks'[t].decision = tasks[t].decision
          /\ tasks'[t].at = tasks[t].at
      BY <1>0, <2>1, <3>1, PlayingCalls
    <3>4. \A u \in Task \ {t} : ~Playing(u)'
      BY <1>0, <2>1, <3>1 DEF OnCourse, Playing
    <3>5. (BotTurn' => BotTurn) /\ (BotTurn => BotTurn') /\ (Terminal(match) => Terminal(match'))
      BY <3>2, MovesKept DEF BotTurn
    <3>6. BotTurn => Timely(match', tasks[t].decision)
      BY <2>1, <3>2, MovesKept DEF OnCourse
    <3>7. BotTurn' => Timely(match, tasks[t].decision)'
      BY <3>3, <3>5, <3>6 DEF Timely
    <3>8. OnCourse(t)'
      BY <2>1, <3>3, <3>4, <3>5, <3>7 DEF OnCourse
    <3> QED BY <3>4, <3>8 DEF Undisturbed
  <2>3. CASE ~CanMessage(match, "talk")
    <3>1. match' = match /\ tasks' = [tasks EXCEPT ![t] = Idle] /\ Idle.pc \in simple
      BY <1>4, <2>3 DEF Talk, Idle
    <3> HIDE DEF simple
    <3> QED BY <1>a, <3>1
  <2> QED BY <2>2, <2>3
<1>5. ASSUME NEW t \in Task, Move(t) PROVE Undisturbed'
  <2> DEFINE d == tasks[t].decision
             at == tasks[t].at
  <2>1. tasks[t].pc = "moving" /\ OnCourse(t) /\ now' = now
    BY <1>5 DEF Move, Undisturbed, Playing
  <2>2. \A u \in Task \ {t} : tasks'[u] = tasks[u] /\ ~Playing(u)'
    BY <1>0, <1>5, <2>1 DEF OnCourse, Playing, Move, Committed
  <2>3. CASE Legal(d, at)
    <3>1. tasks' = [tasks EXCEPT ![t] = Scheduling]
      BY <1>5, <2>3 DEF Move, Committed
    <3>2. ~Playing(t)'
      BY <1>0, <3>1 DEF Playing, Scheduling
    <3> QED BY <2>2, <3>2, NobodyPlays
  <2>4. CASE ~Legal(d, at)
    <3>1. tasks' = [tasks EXCEPT ![t] = FallingBack(tasks[t].seen)] /\ match' = match
      BY <1>0, <1>5, <2>4 DEF Move
    <3>2. tasks'[t].pc = "falling back"
      BY <1>0, <3>1 DEF FallingBack
    <3>3. at \in Nat /\ at <= now
      BY <1>0, <2>1, PlayingCalls DEF OnCourse
    <3>4. BotTurn => Exhausted(match, at)
      BY <1>0, <2>1, <2>4, RefusedIsLate DEF OnCourse, BotTurn, Legal
    <3>5. BotTurn => Exhausted(match, now)
      <4> HIDE DEF at
      <4> QED BY <1>0, <3>3, <3>4, LaterIsLate
    <3>6. BotTurn' => Exhausted(match', now')
      BY <2>1, <3>1, <3>5 DEF BotTurn
    <3>7. BotTurn' \/ Terminal(match')
      BY <2>1, <3>1 DEF OnCourse, BotTurn
    <3>8. OnCourse(t)'
      BY <2>2, <3>2, <3>6, <3>7 DEF OnCourse
    <3> QED BY <2>2, <3>8 DEF Undisturbed
  <2> QED BY <2>3, <2>4
<1>6. ASSUME NEW t \in Task, FallbackAccept(t) PROVE Undisturbed'
  <2>1. tasks[t].pc = "falling back" /\ OnCourse(t) /\ now' = now
    BY <1>6 DEF FallbackAccept, Undisturbed, Playing
  <2>2. \A d : ~Legal(d, now)
    <3> SUFFICES ASSUME NEW d, Legal(d, now) PROVE FALSE
      OBVIOUS
    <3>1. BotTurn /\ ~Exhausted(match, now)
      BY LegalInTime
    <3> QED BY <2>1, <3>1 DEF OnCourse
  <2>3. tasks' = [tasks EXCEPT ![t] = Leaving] /\ match' = match
    BY <1>6, <2>2 DEF FallbackAccept
  <2>4. tasks'[t].pc = "leaving" /\ \A u \in Task \ {t} : tasks'[u] = tasks[u]
    BY <1>0, <2>3 DEF Leaving
  <2>5. \A u \in Task \ {t} : ~Playing(u)'
    BY <2>1, <2>4 DEF OnCourse, Playing
  <2>6. (BotTurn' \/ Terminal(match')) /\ (BotTurn' => Exhausted(match', now'))
    BY <2>1, <2>3 DEF OnCourse, BotTurn
  <2>7. OnCourse(t)'
    BY <2>4, <2>5, <2>6 DEF OnCourse
  <2> QED BY <2>5, <2>7 DEF Undisturbed
<1>7. ASSUME NEW t \in Task, FallbackWalkAway(t) PROVE Undisturbed'
  <2>1. tasks[t].pc = "leaving" /\ OnCourse(t)
    BY <1>7 DEF FallbackWalkAway, Undisturbed, Playing
  <2>2. \A d : ~Legal(d, now)
    <3> SUFFICES ASSUME NEW d, Legal(d, now) PROVE FALSE
      OBVIOUS
    <3>1. BotTurn /\ ~Exhausted(match, now)
      BY LegalInTime
    <3> QED BY <2>1, <3>1 DEF OnCourse
  <2>3. tasks' = [tasks EXCEPT ![t] = Idle] /\ match' = match /\ Idle.pc \in simple
    BY <1>7, <2>2 DEF FallbackWalkAway, Idle
  <2> HIDE DEF simple
  <2> QED BY <1>a, <2>3
<1>8. ASSUME Requested PROVE Undisturbed'
  <2>1. PICK t \in Task : tasks' = [tasks EXCEPT ![t] = Scheduling]
    BY <1>8, FreeSlot DEF Requested
  <2>2. \A u \in Task : Playing(u)' => tasks'[u] = tasks[u]
    BY <1>0, <2>1 DEF Playing, Scheduling
  <2>3. CASE BotTurn
    BY <1>0, <1>8, <2>2, <2>3, Aside DEF Requested
  <2>4. CASE Terminal(match)
    <3>1. match' = match
      BY <1>0, <1>8, <2>4, Advanced DEF Requested
    <3> QED BY <1>0, <2>2, <2>4, <3>1, Aside
  <2>5. CASE ~BotTurn /\ ~Terminal(match)
    <3>1. \A u \in Task : ~Playing(u)
      BY <2>5 DEF Undisturbed, OnCourse
    <3>2. \A u \in Task : ~Playing(u)'
      BY <2>2, <3>1 DEF Playing
    <3> QED BY <3>2, NobodyPlays
  <2> QED BY <2>3, <2>4, <2>5
<1>9. ASSUME Tick PROVE Undisturbed'
  <2>1. match' = match /\ tasks' = tasks
    BY <1>9 DEF Tick, TimePasses
  <2> QED BY <1>0, <2>1, Aside DEF SameMoves
<1>10. ASSUME Timeout PROVE Undisturbed'
  <2>1. tasks' = tasks /\ Terminal(match')
    BY <1>0, <1>10, TimeoutStep, Advanced DEF Timeout
  <2> QED BY <1>0, <2>1, Aside
<1>11. ASSUME Restart PROVE Undisturbed'
  <2>1. \A u \in Task : tasks'[u] \in {Idle, Scheduling}
    BY <1>11 DEF Restart
  <2>2. Idle.pc = "idle" /\ Scheduling.pc = "scheduling"
    BY DEF Idle, Scheduling
  <2>3. \A u \in Task : ~Playing(u)'
    BY <2>1, <2>2 DEF Playing
  <2> QED BY <2>3, NobodyPlays
<1>12. ASSUME UNCHANGED vars PROVE Undisturbed'
  BY <1>0, <1>12, Aside DEF vars, SameMoves
<1> QED BY <1>1, <1>2, <1>3, <1>4, <1>5, <1>6, <1>7, <1>8, <1>9, <1>10, <1>11, <1>12,
           RequestKinds DEF Next, Engine

\* The playing of one turn twice is never undone.
LEMMA TwinsStay == [Next]_vars => (twins => twins')
<1>1. ASSUME NEW t \in Task, Engine(t) \/ Fail(t) PROVE twins => twins'
  <2>1. Decide(t) => (twins => twins')
    BY Zenon DEF Decide
  <2>2. MaybeSchedule(t) \/ ReadRow(t) \/ Arm(t) \/ Talk(t) \/ Fail(t) => UNCHANGED twins
    BY DEF MaybeSchedule, ReadRow, Arm, Talk, Fail
  <2>3. Move(t) \/ FallbackAccept(t) \/ FallbackWalkAway(t) => UNCHANGED twins
    BY DEF Move, FallbackAccept, FallbackWalkAway
  <2>4. UNCHANGED twins => (twins => twins')
    OBVIOUS
  <2> QED BY <1>1, <2>1, <2>2, <2>3, <2>4 DEF Engine
<1>2. ASSUME Fire \/ Restart \/ Tick \/ Timeout PROVE twins => twins'
  BY <1>2 DEF Fire, Restart, Tick, Timeout
<1>3. ASSUME \/ \E a \in Amount : HumanOffer(a)
             \/ \E fact \in Fact : HumanReveal(fact)
             \/ HumanAccept \/ HumanWalksAway \/ HumanSays
             \/ HumanLeaves \/ HumanReturns \/ HumanLooks
      PROVE  twins => twins'
  BY <1>3 DEF HumanOffer, HumanReveal, HumanAccept, HumanWalksAway, HumanSays, HumanLeaves,
              HumanReturns, HumanLooks, Sends, Request
<1> QED BY <1>1, <1>2, <1>3 DEF Next, vars

\* The invariant is inductive.
LEMMA EngineStep == EngineInv /\ [Next]_vars => EngineInv'
<1> SUFFICES ASSUME EngineInv, [Next]_vars PROVE EngineInv'
  OBVIOUS
<1>1. EngineTypes /\ WalkedIsOver /\ (twins \/ Undisturbed)
  BY DEF EngineInv
<1>2. match' \in Match /\ WalkedIsOver'
  <2>1. CASE match' = match
    BY <1>1, <2>1 DEF EngineTypes, WalkedIsOver
  <2>2. CASE \E kind : Advance(kind)
    BY <1>1, <2>2, Advanced DEF EngineTypes
  <2> QED BY <1>1, <2>1, <2>2, MatchStep
<1>3. EngineTypes'
  BY <1>1, <1>2, MatchStep DEF EngineTypes
<1> QED BY <1>1, <1>2, <1>3, UndisturbedStep, TwinsStay DEF EngineInv

\* What a step that leaves on the bot's turn must have been.
LEMMA LeavingStep ==
    ASSUME EngineInv, [Next]_vars, BotTurn, match'.reason = "WALKED_AWAY", ~twins
    PROVE  \E t \in Task : Decided(t)
<1>0. EngineTypes /\ WalkedIsOver /\ Undisturbed /\ match \in Match /\ ~Terminal(match)
      /\ match.reason # "WALKED_AWAY"
  BY DEF EngineInv, EngineTypes, WalkedIsOver, BotTurn, OwnsTurn, Terminal
<1>1. match' # match
  BY <1>0
<1>2. \A kind : Advance(kind) => kind = "WALK_AWAY"
  BY <1>0, Advanced
<1>3. ~Requested
  BY <1>1, <1>2 DEF Requested
<1>4. ~Timeout
  BY <1>0, <1>2, TimeoutStep
<1>5. \A t \in Task : ~FallbackAccept(t) /\ ~FallbackWalkAway(t)
  <2> SUFFICES ASSUME NEW t \in Task, FallbackAccept(t) \/ FallbackWalkAway(t) PROVE FALSE
    OBVIOUS
  <2>1. tasks[t].pc \in {"falling back", "leaving"} /\ OnCourse(t)
    BY <1>0 DEF FallbackAccept, FallbackWalkAway, Undisturbed, Playing
  <2>2. \A d : ~Legal(d, now)
    <3> SUFFICES ASSUME NEW d, Legal(d, now) PROVE FALSE
      OBVIOUS
    <3>1. BotTurn /\ ~Exhausted(match, now)
      BY LegalInTime
    <3> QED BY <2>1, <3>1 DEF OnCourse
  <2> QED BY <1>1, <2>2 DEF FallbackAccept, FallbackWalkAway
<1>6. ASSUME NEW t \in Task, Talk(t) PROVE FALSE
  <2>1. match' = AfterMessage(match)
    BY <1>1, <1>6 DEF Talk
  <2>2. match'.reason = match.reason
    BY <1>0, <2>1 DEF AfterMessage, Match
  <2> QED BY <1>0, <2>2
<1>7. \A t \in Task : ~MaybeSchedule(t) /\ ~ReadRow(t) /\ ~Arm(t) /\ ~Decide(t) /\ ~Fail(t)
  BY <1>1 DEF MaybeSchedule, ReadRow, Arm, Decide, Fail
<1>8. ~Fire /\ ~Tick /\ ~Restart /\ ~(UNCHANGED vars)
  BY <1>1 DEF Fire, Tick, TimePasses, Restart, vars
<1>9. PICK t \in Task : Move(t)
  BY <1>0, <1>3, <1>4, <1>5, <1>6, <1>7, <1>8, RequestKinds DEF Next, Engine
<1> DEFINE d == tasks[t].decision
           at == tasks[t].at
<1>10. tasks[t].pc = "moving" /\ d \in Decision /\ at \in Nat
  BY <1>0, <1>9, PlayingCalls DEF Move, EngineTypes
<1>11. Legal(d, at) /\ Committed(t, d, at)
  BY <1>1, <1>9 DEF Move
<1>12. d.kind = "WALK_AWAY"
  BY <1>0, <1>2, <1>10, <1>11, CommittedStep
<1>13. d = WalkAwayIntent
  BY <1>10, <1>12 DEF Decision
<1> QED BY <1>10, <1>13 DEF Decided

\* For any limit, however calls, requests, failures and restarts interleave and
\* whatever the clock does meanwhile: a match is left on the bot's turn only by a
\* call whose agent has decided to leave, unless two calls have played one turn
\* (engine.ts:222).
THEOREM BotsStay == Spec => LeavesOnlyByDecision
<1>1. EngineInv /\ [Next]_vars
        => [BotTurn /\ match'.reason = "WALKED_AWAY" => twins \/ \E t \in Task : Decided(t)]_vars
  BY LeavingStep
<1> QED BY <1>1, InitEngine, EngineStep, PTL DEF Spec, LeavesOnlyByDecision

-----------------------------------------------------------------------------
(* The agents                                                              *)

\* A power of two is a positive number: it counts the subsets of a set.
LEMMA PowersOfTwo == ASSUME NEW k \in Nat PROVE 2^k \in Nat \ {0}
<1>1. IsFiniteSet(1 .. k) /\ Cardinality(1 .. k) = k
  BY FS_Interval
<1>2. IsFiniteSet(SUBSET (1 .. k)) /\ Cardinality(SUBSET (1 .. k)) = 2^k
  BY <1>1, FS_SUBSET
<1>3. {} \in SUBSET (1 .. k)
  OBVIOUS
<1> QED BY <1>2, <1>3, FS_EmptySet, FS_CardinalityType

\* What the registry says of thresholds and opening ratios.
LEMMA Registry ==
    ASSUME NEW key \in DOMAIN AI_PERSONAS
    PROVE  LET s == AI_PERSONAS[key] IN
           /\ s.opens \in [Player -> Nat] /\ s.takes \in [Player -> Nat]
           /\ s.takes["BUYER"] <= 100 /\ s.takes["SELLER"] >= 100
           /\ s.pace \in 0 .. 350 \cup {None}
<1>1. key \in {"anchor", "grinder", "closer", "wall", "mirror"}
  BY SMTT(30) DEF AI_PERSONAS
<1>2. CASE key = "anchor"
  BY <1>2, SMTT(30) DEF AI_PERSONAS, Strategy, Player
<1>3. CASE key = "grinder"
  BY <1>3, SMTT(30) DEF AI_PERSONAS, Strategy, Player
<1>4. CASE key = "closer"
  BY <1>4, SMTT(30) DEF AI_PERSONAS, Strategy, Player
<1>5. CASE key = "wall"
  BY <1>5, SMTT(30) DEF AI_PERSONAS, Strategy, Player
<1>6. CASE key = "mirror"
  BY <1>6, SMTT(30) DEF AI_PERSONAS, Strategy, Player
<1> QED BY <1>1, <1>2, <1>3, <1>4, <1>5, <1>6

\* Rounding gives an integer.
LEMMA Rounded ==
    ASSUME NEW num \in Int, NEW den \in Nat \ {0}
    PROVE  Round(num, den) \in Int
BY DEF Round

\* Least and Greatest pick one of two numbers.
LEMMA Bounds ==
    ASSUME NEW a \in Int, NEW b \in Int
    PROVE  /\ Least(a, b) \in {a, b} /\ Least(a, b) <= a /\ Least(a, b) <= b
           /\ Greatest(a, b) \in {a, b} /\ Greatest(a, b) >= a /\ Greatest(a, b) >= b
BY DEF Least, Greatest

\* An opening offer is inside the reservation value.
LEMMA OpeningInside ==
    ASSUME NEW m \in Match, NEW p \in Player, NEW s, s.opens \in [Player -> Nat]
    PROVE  /\ OpeningAmount(m, p, s) \in Amount
           /\ WithinReservation(m, p, OpeningAmount(m, p, s))
<1> DEFINE raw == Greatest(1, Round(m.rv[p] * s.opens[p], 100))
           inside == IF p = "BUYER" THEN Least(raw, m.rv[p]) ELSE Greatest(raw, m.rv[p])
<1>1. m.rv[p] \in Nat /\ m.rv[p] >= 1 /\ m.rv[p] <= MaxAmount /\ MaxAmount \in Nat
  BY ConfigAssumption DEF Match, Amount
<1>2. m.rv[p] * s.opens[p] \in Int
  BY <1>1
<1>3. Round(m.rv[p] * s.opens[p], 100) \in Int
  BY <1>2, Rounded
<1>4. raw \in Int /\ raw >= 1
  BY <1>3, Bounds
<1> HIDE DEF raw
<1>5. /\ inside \in Int /\ inside >= 1
      /\ IF p = "BUYER" THEN inside <= m.rv[p] ELSE inside >= m.rv[p]
  <2>1. /\ Least(raw, m.rv[p]) \in {raw, m.rv[p]} /\ Least(raw, m.rv[p]) <= m.rv[p]
        /\ Greatest(raw, m.rv[p]) \in {raw, m.rv[p]} /\ Greatest(raw, m.rv[p]) >= m.rv[p]
    BY <1>1, <1>4, Bounds
  <2> QED BY <1>1, <1>4, <2>1
<1> HIDE DEF inside
<1>6. /\ Least(inside, MaxAmount) \in {inside, MaxAmount}
      /\ Least(inside, MaxAmount) <= inside /\ Least(inside, MaxAmount) <= MaxAmount
  BY <1>1, <1>5, Bounds
<1>7. OpeningAmount(m, p, s) = Least(inside, MaxAmount)
  BY DEF OpeningAmount, inside, raw
<1> QED BY <1>1, <1>5, <1>6, <1>7 DEF Amount, WithinReservation

\* The pace of a persona is a number, also when it answers the opponent's.
LEMMA PaceType ==
    ASSUME NEW m \in Match, NEW p \in Player, NEW s, s.pace \in Nat \cup {None}
    PROVE  Pace(m, p, s) \in Int
<1>1. Other(p) \in Player
  BY OtherIsPlayer
<1> DEFINE moved == OpponentMovement(m.opening[Other(p)], m.latest[Other(p)])
<1>2. /\ m.opening[Other(p)] \in Amount \cup {None}
      /\ m.latest[Other(p)] \in Amount \cup {None}
  BY <1>1 DEF Match
<1>3. moved \in Int
  BY <1>2, PersonasAssumption DEF OpponentMovement
<1> HIDE DEF moved
<1>4. MirrorFraction(moved) \in Int
  <2>1. moved \div 6 \in Int
    BY <1>3
  <2>2. Greatest(40, moved \div 6) \in Int
    BY <2>1, Bounds
  <2> QED BY <2>2, Bounds DEF MirrorFraction
<1> QED BY <1>4 DEF Pace, moved

\* A concession that is tried is a step towards the opponent, inside the
\* reservation value.
LEMMA StepInside ==
    ASSUME NEW m \in Match, NEW p \in Player, NEW s,
           s.pace \in Nat \cup {None}, m.latest[p] # None, ~AtMandate(m, p), NEW k \in Nat
    PROVE  /\ Step(m, p, s, k) \in Amount
           /\ WithinReservation(m, p, Step(m, p, s, k))
           /\ TowardOpponent(p, m.latest[p], Step(m, p, s, k))
<1>0. /\ m.rv[p] \in Nat /\ m.rv[p] >= 1 /\ m.rv[p] <= MaxAmount
      /\ m.latest[p] \in Nat /\ m.latest[p] >= 1 /\ m.latest[p] <= MaxAmount
      /\ MaxAmount \in Nat
  <2>1. m.rv[p] \in Amount /\ m.latest[p] \in Amount
    BY DEF Match
  <2>2. MaxAmount \in Nat
    BY ConfigAssumption
  <2> QED BY <2>1, <2>2 DEF Amount
<1> DEFINE den == 1000 * 2^k
           moved == Pace(m, p, s) * Gap(m, p)
           here == m.latest[p]
           rv == m.rv[p]
           up == Round(here * den + moved, den)
           down == Round(here * den - moved, den)
<1>1. /\ rv \in Nat /\ rv >= 1 /\ rv <= MaxAmount
      /\ here \in Nat /\ here >= 1 /\ here <= MaxAmount /\ MaxAmount \in Nat
  BY <1>0
<1>2. Gap(m, p) \in Int
  <2>1. Other(p) \in Player
    BY OtherIsPlayer
  <2>2. m.latest[Other(p)] \in Amount \cup {None}
    BY <2>1 DEF Match
  <2> QED BY <1>1, <2>2 DEF Gap, Amount
<1>3. Pace(m, p, s) \in Int
  BY PaceType
<1>4. moved \in Int
  BY <1>2, <1>3
<1>5. den \in Nat \ {0}
  BY PowersOfTwo
<1> HIDE DEF moved, den
<1>6. here * den \in Int
  BY <1>1, <1>5
<1>7. here * den + moved \in Int /\ here * den - moved \in Int
  BY <1>4, <1>6
<1>8. up \in Int /\ down \in Int
  BY <1>5, <1>7, Rounded
<1>9. Step(m, p, s, k) = IF p = "BUYER" THEN Greatest(here + 1, Least(up, rv))
                           ELSE Least(here - 1, Greatest(down, rv))
  BY DEF Step, den, moved
<1>10. IF p = "BUYER" THEN ~(here >= rv) ELSE ~(here <= rv)
  BY DEF AtMandate
<1> HIDE DEF here, rv, up, down
<1>11. CASE p = "BUYER"
  <2>1. Least(up, rv) \in Int /\ Least(up, rv) <= rv
    BY <1>1, <1>8, Bounds
  <2> DEFINE next == Greatest(here + 1, Least(up, rv))
  <2>2. next \in {here + 1, Least(up, rv)} /\ next >= here + 1
    BY <1>1, <2>1, Bounds
  <2> HIDE DEF next
  <2>3. next \in Int /\ next >= here + 1 /\ next <= rv
    BY <1>1, <1>10, <1>11, <2>1, <2>2
  <2>4. next \in Amount /\ next > here
    BY <1>1, <2>3 DEF Amount
  <2>5. Step(m, p, s, k) = next
    BY <1>9, <1>11 DEF next
  <2> QED BY <1>11, <2>3, <2>4, <2>5 DEF WithinReservation, TowardOpponent, here, rv
<1>12. CASE p # "BUYER"
  <2>1. Greatest(down, rv) \in Int /\ Greatest(down, rv) >= rv
    BY <1>1, <1>8, Bounds
  <2> DEFINE next == Least(here - 1, Greatest(down, rv))
  <2>2. next \in {here - 1, Greatest(down, rv)} /\ next <= here - 1
    BY <1>1, <2>1, Bounds
  <2> HIDE DEF next
  <2>3. next \in Int /\ next <= here - 1 /\ next >= rv
    BY <1>1, <1>10, <1>12, <2>1, <2>2
  <2>4. next \in Amount /\ next < here
    BY <1>1, <2>3 DEF Amount
  <2>5. Step(m, p, s, k) = next
    BY <1>9, <1>12 DEF next
  <2> QED BY <1>12, <2>3, <2>4, <2>5 DEF WithinReservation, TowardOpponent, here, rv
<1> QED BY <1>11, <1>12

\* A concession, when there is one, is a step that was tried and can be paid.
LEMMA ConcessionTried ==
    ASSUME NEW m, NEW p, NEW s, ConcessionAmount(m, p, s) # None
    PROVE  /\ ~AtMandate(m, p)
           /\ \E k \in Nat : /\ ConcessionAmount(m, p, s) = Step(m, p, s, k)
                           /\ Affordable(m, p, Step(m, p, s, k))
<1> DEFINE good == {k \in Tries(m, p, s) : Affordable(m, p, Step(m, p, s, k))}
<1>1. ~AtMandate(m, p) /\ good # {}
  BY DEF ConcessionAmount
<1>2. good \subseteq Nat
  BY ConfigAssumption DEF Tries
<1>3. \E k \in good : \A l \in good : k <= l
  <2> HIDE DEF good
  <2> QED BY <1>1, <1>2, LeastMember
<1> DEFINE k == CHOOSE k \in good : \A l \in good : k <= l
<1>4. k \in good
  BY <1>3
<1>5. ConcessionAmount(m, p, s) = Step(m, p, s, k)
  BY DEF ConcessionAmount
<1> QED BY <1>1, <1>2, <1>4, <1>5

\* A price within the threshold is inside the reservation value.
LEMMA AcceptableInside ==
    ASSUME NEW m \in Match, NEW p \in Player, NEW s, s.takes \in [Player -> Nat],
           s.takes["BUYER"] <= 100, s.takes["SELLER"] >= 100, Acceptable(m, p, s)
    PROVE  /\ m.standing[Other(p)] # None /\ m.latest[Other(p)] # None
           /\ WithinReservation(m, p, m.latest[Other(p)])
<1>1. Other(p) \in Player
  BY OtherIsPlayer
<1> DEFINE a == m.latest[Other(p)]
           rv == m.rv[p]
           t == s.takes[p]
<1>2. /\ m.standing[Other(p)] # None /\ a # None
      /\ IF p = "BUYER" THEN 100 * a <= rv * t ELSE 100 * a >= rv * t
  BY <1>1 DEF Acceptable
<1>3. a \in Nat /\ rv \in Nat /\ t \in Nat
  BY <1>1, <1>2 DEF Match, Amount
<1>4. IF p = "BUYER" THEN t <= 100 ELSE t >= 100
  BY DEF Player
<1> HIDE DEF a, rv, t
<1>5. \A x, y, z \in Nat : y <= z => x * y <= x * z
  OBVIOUS
<1>6. IF p = "BUYER" THEN rv * t <= rv * 100 ELSE rv * t >= rv * 100
  BY <1>3, <1>4, <1>5
<1>7. rv * t \in Nat
  BY <1>3
<1>8. IF p = "BUYER" THEN a <= rv ELSE a >= rv
  BY <1>2, <1>3, <1>6, <1>7
<1> QED BY <1>2, <1>8 DEF WithinReservation, a, rv

\* Whatever the dice say, what a persona decides on its turn is legal while there is
\* time.
LEMMA DecisionsLegal ==
    ASSUME NEW m \in Match, NEW p \in Player, NEW at, OwnsTurn(m, p), ~Exhausted(m, at),
           NEW key \in DOMAIN AI_PERSONAS,
           NEW d \in Decisions(m, p, AI_PERSONAS[key])
    PROVE  LegalIntent(m, p, d, at)
<1> DEFINE s == AI_PERSONAS[key]
<1>1. /\ s.opens \in [Player -> Nat] /\ s.takes \in [Player -> Nat]
      /\ s.takes["BUYER"] <= 100 /\ s.takes["SELLER"] >= 100
      /\ s.pace \in Nat \cup {None}
  BY Registry
<1> HIDE DEF s
<1>2. HasTurn(m, p, at)
  BY DEF HasTurn, OwnsTurn
<1>3. /\ m.chipsSpent[p] \in Nat /\ Budget \in Nat
      /\ \A a, b \in Amount : Cost[a][b] \in Nat
      /\ m.latest[p] \in Amount \cup {None}
  BY ConfigAssumption DEF Match
<1>4. ASSUME d = WalkAwayIntent PROVE LegalIntent(m, p, d, at)
  BY <1>2, <1>4 DEF LegalIntent, WalkAwayIntent, CanWalkAway
<1>5. ASSUME Acceptable(m, p, s), d = AcceptIntent(m.standing[Other(p)])
      PROVE  LegalIntent(m, p, d, at)
  <2>1. /\ m.standing[Other(p)] # None /\ m.latest[Other(p)] # None
        /\ WithinReservation(m, p, m.latest[Other(p)])
    BY <1>1, <1>5, AcceptableInside
  <2>2. d.kind = "ACCEPT" /\ d.id = m.standing[Other(p)]
    BY <1>5 DEF AcceptIntent
  <2>3. CanAccept(m, p, d.id, at)
    BY <1>2, <2>1, <2>2 DEF CanAccept
  <2> QED BY <2>2, <2>3 DEF LegalIntent
<1>6. ASSUME NEW a \in Amount, WithinReservation(m, p, a), d = OfferIntent(a),
             m.latest[p] # None => /\ TowardOpponent(p, m.latest[p], a)
                                   /\ Affordable(m, p, a)
      PROVE  LegalIntent(m, p, d, at)
  <2>1. m.latest[p] # None => m.chipsSpent[p] + OfferCost(m, p, a) <= Budget
    <3>1. ASSUME m.latest[p] # None PROVE m.chipsSpent[p] + OfferCost(m, p, a) <= Budget
      <4>1. OfferCost(m, p, a) = Cost[m.latest[p]][a] /\ Cost[m.latest[p]][a] \in Nat
        BY <1>3, <3>1 DEF OfferCost
      <4>2. Cost[m.latest[p]][a] <= Budget - m.chipsSpent[p]
        BY <1>6, <3>1 DEF Affordable
      <4> QED BY <1>3, <4>1, <4>2
    <3> QED BY <3>1
  <2>2. CanOffer(m, p, a, at)
    BY <1>2, <1>6, <2>1 DEF CanOffer
  <2>3. d.kind = "OFFER" /\ d.amount = a
    BY <1>6 DEF OfferIntent
  <2> QED BY <2>2, <2>3 DEF LegalIntent
<1>7. CASE m.latest[p] = None /\ d = OfferIntent(OpeningAmount(m, p, s))
  <2>1. /\ OpeningAmount(m, p, s) \in Amount
        /\ WithinReservation(m, p, OpeningAmount(m, p, s))
    BY <1>1, OpeningInside
  <2> QED BY <1>6, <1>7, <2>1
<1>8. CASE /\ m.latest[p] # None /\ ConcessionAmount(m, p, s) # None
           /\ d = OfferIntent(ConcessionAmount(m, p, s))
  <2>1. ~AtMandate(m, p)
    BY <1>8, ConcessionTried
  <2>2. PICK k \in Nat : /\ ConcessionAmount(m, p, s) = Step(m, p, s, k)
                         /\ Affordable(m, p, Step(m, p, s, k))
    BY <1>8, ConcessionTried
  <2>3. /\ Step(m, p, s, k) \in Amount
        /\ WithinReservation(m, p, Step(m, p, s, k))
        /\ TowardOpponent(p, m.latest[p], Step(m, p, s, k))
    BY <1>1, <1>8, <2>1, StepInside
  <2> QED BY <1>6, <1>8, <2>2, <2>3
<1>9. \/ Acceptable(m, p, s) /\ d = AcceptIntent(m.standing[Other(p)])
      \/ d = Play(m, p, s)
      \/ d = WalkAwayIntent
  BY DEF Decisions, s
<1>10. \/ Play(m, p, s) = WalkAwayIntent
       \/ m.latest[p] = None /\ Play(m, p, s) = OfferIntent(OpeningAmount(m, p, s))
       \/ /\ m.latest[p] # None /\ ConcessionAmount(m, p, s) # None
          /\ Play(m, p, s) = OfferIntent(ConcessionAmount(m, p, s))
  BY DEF Play
<1> QED BY <1>4, <1>5, <1>7, <1>8, <1>9, <1>10

\* The match is well formed, and who plays it stays.
PersonasInv ==
    match \in Match /\ now \in Nat /\ bot \in Player /\ persona \in DOMAIN AI_PERSONAS

\* It holds at the start,
LEMMA PersonasInit == GameInit => PersonasInv
BY BegunType, PersonasAssumption DEF GameInit, PersonasInv, Mode

\* and every step keeps it.
LEMMA PersonasKept == PersonasInv /\ [GameNext]_gameVars => PersonasInv'
<1> SUFFICES ASSUME PersonasInv, [GameNext]_gameVars PROVE PersonasInv'
  OBVIOUS
<1>1. bot \in Player /\ Counterpart \in Player /\ match \in Match /\ now \in Nat
  BY OtherIsPlayer DEF PersonasInv, Counterpart
<1>2. ASSUME NEW p \in Player, NEW d, Moves(p, d) PROVE PersonasInv'
  <2>1. LegalIntent(match, p, d, now) /\ match' = Carried(match, p, d, now)
    BY <1>2 DEF Moves
  <2>2. PICK c : WellFormed(c) /\ Accepted(match, c, now) /\ match' = Applied(match, c, now)
    BY <1>1, <2>1, IntentsAreCommands
  <2>3. match' \in Match
    BY <1>1, <2>2, AppliedType
  <2> QED BY <1>2, <2>3 DEF Moves, PersonasInv
<1>3. ASSUME NEW fact \in Fact, HumanReveals(fact) PROVE PersonasInv'
  <2>1. AfterReveal(match, Counterpart, fact, now) \in Match
    BY <1>1, <1>3, RevealType
  <2> QED BY <1>3, <2>1 DEF HumanReveals, PersonasInv
<1>4. CASE GameTick
  BY <1>4 DEF GameTick, TimePasses, PersonasInv
<1>5. CASE GameTimeout
  <2>1. AfterTimeout(match, now) \in Match
    BY <1>1, EndingsType
  <2> QED BY <1>5, <2>1 DEF GameTimeout, TimesOut, PersonasInv
<1>6. CASE UNCHANGED gameVars
  BY <1>6 DEF gameVars, PersonasInv
<1> QED BY <1>1, <1>2, <1>3, <1>4, <1>5, <1>6 DEF GameNext, BotMoves, HumanMoves

\* For every price table, range of amounts, budget, limit and pair of reservation
\* values: what any persona decides is refused exactly when its decision time is
\* used up (personas.ts:1-7).
THEOREM PersonasPlayLegally == GameSpec => []IntentsAreLegal
<1>1. GameInit => PersonasInv
  BY PersonasInit
<1>2. PersonasInv => IntentsAreLegal
  <2> SUFFICES ASSUME PersonasInv, OwnsTurn(match, bot),
                      NEW d \in Decisions(match, bot, Agent)
               PROVE  LegalIntent(match, bot, d, now) <=> ~Exhausted(match, now)
    BY DEF IntentsAreLegal
  <2>1. match \in Match /\ bot \in Player /\ persona \in DOMAIN AI_PERSONAS
        /\ OwnsTurn(match, bot)
    BY DEF PersonasInv
  <2>2. ASSUME ~Exhausted(match, now) PROVE LegalIntent(match, bot, d, now)
    BY <2>1, <2>2, DecisionsLegal DEF Agent
  <2>3. ASSUME LegalIntent(match, bot, d, now) PROVE ~Exhausted(match, now)
    BY <2>3, LegalHasTurn
  <2> QED BY <2>2, <2>3
<1> QED BY <1>1, <1>2, PersonasKept, PTL DEF GameSpec

-----------------------------------------------------------------------------
(* Giving up                                                               *)

\* concessionMagnitude grows with the distance, and so does its price.
CostGrows ==
    \A a, b, c \in Amount :
        (a < b /\ b <= c) \/ (a > b /\ b >= c) => Cost[a][b] <= Cost[a][c]

\* A number is no larger than its power of two, and the next power is the double.
LEMMA PowersGrow ==
    ASSUME NEW n \in Nat
    PROVE  n <= 2^n /\ 2^(n + 1) = 2 * 2^n
<1> DEFINE S == SUBSET (1 .. n)
           T == {X \cup {n + 1} : X \in S}
<1>1. IsFiniteSet(1 .. n) /\ Cardinality(1 .. n) = n
  BY FS_Interval
<1>2. IsFiniteSet(1 .. n + 1) /\ Cardinality(1 .. n + 1) = n + 1
  BY FS_Interval
<1>3. IsFiniteSet(S) /\ Cardinality(S) = 2^n
  BY <1>1, FS_SUBSET
<1>4. IsFiniteSet(SUBSET (1 .. n + 1)) /\ Cardinality(SUBSET (1 .. n + 1)) = 2^(n + 1)
  BY <1>2, FS_SUBSET
<1>5. n <= 2^n
  <2> DEFINE f == [x \in 1 .. n |-> {x}]
  <2>1. f \in Injection(1 .. n, S)
    BY DEF Injection, IsInjective
  <2> HIDE DEF f, S
  <2> QED BY <1>1, <1>3, <2>1, FS_Injection
<1>6. IsFiniteSet(T) /\ Cardinality(T) = 2^n
  <2> DEFINE f == [X \in S |-> X \cup {n + 1}]
  <2>1. \A X \in S : n + 1 \notin X
    OBVIOUS
  <2>2. f \in [S -> T]
    OBVIOUS
  <2>3. \A X, Y \in S : f[X] = f[Y] => X = Y
    BY <2>1
  <2>4. \A Z \in T : \E X \in S : f[X] = Z
    OBVIOUS
  <2> HIDE DEF f, S, T
  <2>5. f \in Bijection(S, T)
    BY <2>2, <2>3, <2>4 DEF Bijection, Injection, Surjection, IsInjective
  <2>6. ExistsBijection(S, T)
    BY <2>5 DEF ExistsBijection
  <2> QED BY <1>3, <2>6, FS_Bijection
<1>7. S \cup T = SUBSET (1 .. n + 1)
  <2>1. 1 .. n + 1 = (1 .. n) \cup {n + 1}
    OBVIOUS
  <2>2. \A Z \in S : Z \in SUBSET (1 .. n + 1)
    BY <2>1
  <2>3. \A Z \in T : Z \in SUBSET (1 .. n + 1)
    BY <2>1
  <2>4. ASSUME NEW Z \in SUBSET (1 .. n + 1) PROVE Z \in S \cup T
    <3>1. CASE n + 1 \notin Z
      BY <2>1, <3>1
    <3>2. CASE n + 1 \in Z
      <4>1. Z \ {n + 1} \in S
        BY <2>1
      <4>2. Z = (Z \ {n + 1}) \cup {n + 1}
        BY <3>2
      <4> QED BY <4>1, <4>2
    <3> QED BY <3>1, <3>2
  <2> HIDE DEF S, T
  <2> QED BY <2>2, <2>3, <2>4
<1>8. S \cap T = {}
  OBVIOUS
<1>9. Cardinality(S \cup T) = 2^n + 2^n
  <2> HIDE DEF S, T
  <2>1. Cardinality(S \cup T) = Cardinality(S) + Cardinality(T) - Cardinality(S \cap T)
    BY <1>3, <1>6, FS_Union
  <2>2. Cardinality(S \cap T) = 0
    BY <1>8, FS_EmptySet
  <2>3. 2^n \in Nat
    BY PowersOfTwo
  <2> QED BY <1>3, <1>6, <2>1, <2>2, <2>3
<1>10. 2^n \in Nat
  BY PowersOfTwo
<1> HIDE DEF S, T
<1>11. 2^(n + 1) = 2^n + 2^n
  BY <1>4, <1>7, <1>9
<1> QED BY <1>5, <1>10, <1>11

\* The first halving whose share of the gap is below a tenth.
SmallTry(need, k) == need < 1000 * 2^k /\ (k = 0 \/ 2 * need >= 1000 * 2^k)

\* There is always one among the halvings that are tried.
LEMMA SmallestTry ==
    ASSUME NEW need \in Nat, need <= 350 * MaxAmount
    PROVE  \E k \in 0 .. MaxAmount : SmallTry(need, k)
<1>0. MaxAmount \in Nat
  BY ConfigAssumption
<1> DEFINE enough == {k \in Nat : need < 1000 * 2^k}
<1>1. MaxAmount \in enough
  <2>1. MaxAmount <= 2^MaxAmount /\ 2^MaxAmount \in Nat \ {0}
    BY <1>0, PowersGrow, PowersOfTwo
  <2>2. need < 1000 * 2^MaxAmount
    BY <1>0, <2>1
  <2> QED BY <1>0, <2>2
<1>2. PICK k \in enough : \A l \in enough : k <= l
  <2>1. enough \subseteq Nat /\ enough # {}
    BY <1>1
  <2> HIDE DEF enough
  <2> QED BY <2>1, LeastMember
<1>3. k \in Nat /\ k <= MaxAmount /\ need < 1000 * 2^k
  BY <1>1, <1>2
<1>4. ASSUME k # 0 PROVE 2 * need >= 1000 * 2^k
  <2>1. k - 1 \in Nat /\ ~(k <= k - 1)
    BY <1>3, <1>4
  <2>2. ~(need < 1000 * 2^(k - 1))
    BY <1>2, <2>1
  <2>3. 2^((k - 1) + 1) = 2 * 2^(k - 1) /\ 2^(k - 1) \in Nat
    BY <2>1, PowersGrow, PowersOfTwo
  <2>4. (k - 1) + 1 = k
    BY <1>3
  <2> QED BY <2>2, <2>3, <2>4
<1> QED BY <1>0, <1>3, <1>4 DEF SmallTry

\* Rounding a number plus, or minus, less than one goes no further than one.
LEMMA RoundedNear ==
    ASSUME NEW here \in Nat, NEW den \in Nat \ {0}, NEW moved \in Nat, moved < den
    PROVE  /\ Round(here * den + moved, den) <= here + 1
           /\ Round(here * den - moved, den) >= here - 1
<1> DEFINE base == here * den
<1>1. base \in Nat
  OBVIOUS
<1>2. /\ (here + 1) * (2 * den) = 2 * base + 2 * den
      /\ (here - 1) * (2 * den) = 2 * base - 2 * den
      /\ 2 * den \in Nat \ {0}
  OBVIOUS
<1>3. \A x \in Int, w \in Nat \ {0} :
         /\ x \div w \in Int
         /\ (x \div w) * w <= x /\ x < (x \div w) * w + w
  OBVIOUS
<1>4. \A q, h \in Int, w \in Nat \ {0} :
         /\ q * w < h * w + w => q <= h
         /\ q * w + w > h * w => q >= h
  OBVIOUS
<1> DEFINE x == 2 * (base + moved) + den
           y == 2 * (base - moved) + den
           w == 2 * den
<1>5. x \in Int /\ y \in Int /\ w \in Nat \ {0}
  BY <1>1
<1>6. x < 2 * base + 2 * den + w /\ y >= 2 * base - 2 * den
  BY <1>1
<1>7. Round(base + moved, den) = x \div w /\ Round(base - moved, den) = y \div w
  BY DEF Round
<1> HIDE DEF x, y, w, base
<1> DEFINE xs == (x \div w) * w
           ys == (y \div w) * w
           above == (here + 1) * w
           below == (here - 1) * w
<1>8. /\ xs \in Int /\ ys \in Int /\ xs <= x /\ y < ys + w
      /\ above = 2 * base + 2 * den /\ below = 2 * base - 2 * den
  <2>1. above = 2 * base + 2 * den /\ below = 2 * base - 2 * den
    BY <1>2 DEF w
  <2>2. \A a \in Int, b \in Nat \ {0} : a * b \in Int
    OBVIOUS
  <2>3. x \div w \in Int /\ y \div w \in Int
    BY <1>3, <1>5
  <2>4. xs \in Int /\ ys \in Int
    BY <1>5, <2>2, <2>3
  <2>5. xs <= x /\ y < ys + w
    BY <1>3, <1>5
  <2> HIDE DEF xs, ys, above, below
  <2> QED BY <2>1, <2>4, <2>5
<1>9. xs < above + w /\ ys + w > below
  <2> HIDE DEF xs, ys, above, below
  <2> QED BY <1>1, <1>5, <1>6, <1>8
<1>10. x \div w \in Int /\ y \div w \in Int /\ here + 1 \in Int /\ here - 1 \in Int
  BY <1>3, <1>5
<1>11. x \div w <= here + 1 /\ y \div w >= here - 1
  BY <1>4, <1>5, <1>9, <1>10
<1> QED BY <1>7, <1>11 DEF base

\* The pace lies between nothing and a good third of the gap.
LEMMA PaceBounds ==
    ASSUME NEW m \in Match, NEW p \in Player, NEW s,
           s.pace \in 0 .. 350 \cup {None}
    PROVE  Pace(m, p, s) \in Nat /\ Pace(m, p, s) <= 350
<1>1. Other(p) \in Player
  BY OtherIsPlayer
<1> DEFINE moved == OpponentMovement(m.opening[Other(p)], m.latest[Other(p)])
<1>2. /\ m.opening[Other(p)] \in Amount \cup {None}
      /\ m.latest[Other(p)] \in Amount \cup {None}
  BY <1>1 DEF Match
<1>3. moved \in Int
  BY <1>2, PersonasAssumption DEF OpponentMovement
<1> HIDE DEF moved
<1>4. MirrorFraction(moved) \in Nat /\ MirrorFraction(moved) <= 350
  <2>1. moved \div 6 \in Int
    BY <1>3
  <2> DEFINE g == Greatest(40, moved \div 6)
  <2>2. g \in Int /\ g >= 40
    BY <2>1, Bounds
  <2> HIDE DEF g
  <2>3. Least(250, g) \in {250, g} /\ Least(250, g) <= 250
    BY <2>2, Bounds
  <2>4. MirrorFraction(moved) = Least(250, g)
    BY DEF MirrorFraction, g
  <2> QED BY <2>2, <2>3, <2>4
<1> QED BY <1>4 DEF Pace, moved

\* Below a tenth of the gap a step is one tenth.
LEMMA SmallestStep ==
    ASSUME NEW m \in Match, NEW p \in Player, NEW s, m.latest[p] # None, ~AtMandate(m, p),
           NEW k \in Nat, Pace(m, p, s) * Gap(m, p) \in Nat,
           Pace(m, p, s) * Gap(m, p) < 1000 * 2^k
    PROVE  Step(m, p, s, k) = IF p = "BUYER" THEN m.latest[p] + 1 ELSE m.latest[p] - 1
<1> DEFINE den == 1000 * 2^k
           moved == Pace(m, p, s) * Gap(m, p)
           here == m.latest[p]
           rv == m.rv[p]
           up == Round(here * den + moved, den)
           down == Round(here * den - moved, den)
<1>1. here \in Nat /\ rv \in Nat
  BY DEF Match, Amount
<1>2. den \in Nat \ {0} /\ moved \in Nat /\ moved < den
  BY PowersOfTwo
<1>3. Step(m, p, s, k) = IF p = "BUYER" THEN Greatest(here + 1, Least(up, rv))
                           ELSE Least(here - 1, Greatest(down, rv))
  BY DEF Step
<1>4. IF p = "BUYER" THEN ~(here >= rv) ELSE ~(here <= rv)
  BY DEF AtMandate
<1> HIDE DEF here, rv, den, moved
<1>5. here * den + moved \in Int /\ here * den - moved \in Int
  <2>1. here * den \in Int
    BY <1>1, <1>2
  <2> QED BY <1>2, <2>1
<1>6. up \in Int /\ down \in Int
  BY <1>2, <1>5, Rounded
<1>7. up <= here + 1 /\ down >= here - 1
  BY <1>1, <1>2, RoundedNear
<1> HIDE DEF up, down
<1>8. Greatest(here + 1, Least(up, rv)) = here + 1
  BY <1>1, <1>6, <1>7 DEF Greatest, Least
<1>9. Least(here - 1, Greatest(down, rv)) = here - 1
  BY <1>1, <1>6, <1>7 DEF Greatest, Least
<1> QED BY <1>3, <1>8, <1>9 DEF here

\* Whoever has nothing to offer, though the offers have not crossed, can offer nothing.
LEMMA NothingLeft ==
    ASSUME CostGrows, NEW m \in Match, NEW p \in Player, NEW s,
           s.pace \in 0 .. 350 \cup {None}, m.latest[p] # None,
           m.latest[Other(p)] = None => p # "BUYER",
           m.latest[Other(p)] # None => ~(Gap(m, p) <= 0),
           ConcessionAmount(m, p, s) = None,
           NEW a \in Amount, NEW at, CanOffer(m, p, a, at)
    PROVE  FALSE
<1> DEFINE here == m.latest[p]
           rv == m.rv[p]
           gap == Gap(m, p)
           pace == Pace(m, p, s)
<1>1. /\ here \in Amount /\ rv \in Amount
      /\ m.latest[Other(p)] \in Amount \cup {None}
      /\ m.chipsSpent[p] \in Nat /\ Budget \in Nat /\ MaxAmount \in Nat
  BY ConfigAssumption, OtherIsPlayer DEF Match
<1>2. p \in {"BUYER", "SELLER"}
  BY DEF Player
<1>3. /\ TowardOpponent(p, here, a) /\ WithinReservation(m, p, a)
      /\ m.chipsSpent[p] + OfferCost(m, p, a) <= Budget
  BY DEF CanOffer
<1>4. ~AtMandate(m, p)
  BY <1>1, <1>3 DEF AtMandate, TowardOpponent, WithinReservation, Amount
<1>5. gap \in Nat \ {0} /\ gap <= MaxAmount
  BY <1>1, <1>2 DEF Gap, Amount
<1>6. pace \in Nat /\ pace <= 350
  BY PaceBounds
<1>7. Pace(m, p, s) * Gap(m, p) \in Nat /\ Pace(m, p, s) * Gap(m, p) <= 350 * MaxAmount
  <2>1. \A x, y, z, u \in Nat : x <= z /\ y <= u => x * y \in Nat /\ x * y <= z * u
    OBVIOUS
  <2> HIDE DEF gap, pace
  <2>2. pace * gap \in Nat /\ pace * gap <= 350 * MaxAmount
    BY <1>1, <1>5, <1>6, <2>1
  <2> QED BY <2>2 DEF gap, pace
<1>8. PICK k \in 0 .. MaxAmount :
        /\ Pace(m, p, s) * Gap(m, p) < 1000 * 2^k
        /\ k = 0 \/ 2 * (Pace(m, p, s) * Gap(m, p)) >= 1000 * 2^k
  <2> DEFINE need == Pace(m, p, s) * Gap(m, p)
  <2>1. need \in Nat /\ need <= 350 * MaxAmount
    BY <1>7
  <2> HIDE DEF need
  <2>2. \E k \in 0 .. MaxAmount : SmallTry(need, k)
    BY <2>1, SmallestTry
  <2> QED BY <2>2 DEF need, SmallTry
<1> DEFINE step == Step(m, p, s, k)
<1>9. step = IF p = "BUYER" THEN here + 1 ELSE here - 1
  BY <1>1, <1>4, <1>7, <1>8, SmallestStep
<1>10. k \in Tries(m, p, s)
  <2>1. \A x, y \in Int : 2 * x * y = 2 * (x * y)
    OBVIOUS
  <2>2. 2 * Pace(m, p, s) * Gap(m, p) = 2 * (Pace(m, p, s) * Gap(m, p))
    BY <1>5, <1>6, <2>1
  <2> QED BY <1>8, <2>2 DEF Tries
<1>11. ~Affordable(m, p, step)
  <2> DEFINE good == {l \in Tries(m, p, s) : Affordable(m, p, Step(m, p, s, l))}
             first == CHOOSE l \in good : \A j \in good : l <= j
  <2>1. ASSUME Affordable(m, p, step) PROVE FALSE
    <3>1. good # {}
      BY <1>10, <2>1
    <3>2. good \subseteq Nat
      BY <1>1 DEF Tries
    <3>3. \E l \in good : \A j \in good : l <= j
      <4> HIDE DEF good
      <4> QED BY <3>1, <3>2, LeastMember
    <3>4. first \in Nat
      BY <3>2, <3>3
    <3>5. ~(gap <= 0)
      BY <1>5
    <3>6. ConcessionAmount(m, p, s) = Step(m, p, s, first)
      BY <1>4, <3>1, <3>5 DEF ConcessionAmount
    <3> HIDE DEF first
    <3>7. Step(m, p, s, first) \in Amount
      BY <1>4, <3>4, StepInside
    <3> QED BY <3>6, <3>7, NoneAssumption DEF Amount
  <2> QED BY <2>1
<1>12. /\ step \in Amount
       /\ (here < step /\ step <= a) \/ (here > step /\ step >= a)
  BY <1>1, <1>2, <1>3, <1>9 DEF TowardOpponent, Amount
<1> HIDE DEF step, here
<1>13. Cost[here][step] <= Cost[here][a] /\ Cost[here][step] \in Nat /\ Cost[here][a] \in Nat
  BY <1>1, <1>12, ConfigAssumption DEF CostGrows
<1>14. OfferCost(m, p, a) = Cost[here][a]
  BY DEF OfferCost, here
<1>15. ~(Cost[here][step] <= Budget - m.chipsSpent[p])
  BY <1>11 DEF Affordable, here
<1> QED BY <1>1, <1>3, <1>13, <1>14, <1>15

\* For every range of amounts, budget and price that grows with the distance: a
\* persona that has opened gives up only when no offer is left to it, or in the two
\* cases that RetreatsOnlyWhenStuck names (personas.ts:51).
THEOREM PersonasRetreatLast == CostGrows => (GameSpec => []RetreatsOnlyWhenStuck)
<1> SUFFICES ASSUME CostGrows PROVE GameSpec => []RetreatsOnlyWhenStuck
  OBVIOUS
<1>1. GameInit => PersonasInv
  BY PersonasInit
<1>2. PersonasInv => RetreatsOnlyWhenStuck
  <2> SUFFICES ASSUME PersonasInv, match.latest[bot] # None,
                      ConcessionAmount(match, bot, Agent) = None, ~Crossed,
                      ~(bot = "BUYER" /\ match.latest[Counterpart] = None),
                      NEW a \in Amount, CanOffer(match, bot, a, match.turnStartedAt)
               PROVE  FALSE
    BY DEF RetreatsOnlyWhenStuck
  <2>1. match \in Match /\ bot \in Player /\ persona \in DOMAIN AI_PERSONAS
    BY DEF PersonasInv
  <2>2. Agent.pace \in 0 .. 350 \cup {None}
    BY <2>1, Registry DEF Agent
  <2>3. Counterpart = Other(bot) /\ a \in Amount /\ CanOffer(match, bot, a, match.turnStartedAt)
    BY DEF Counterpart
  <2>4. /\ match.latest[Other(bot)] = None => bot # "BUYER"
        /\ match.latest[Other(bot)] # None => ~(Gap(match, bot) <= 0)
    BY <2>3 DEF Crossed
  <2> QED BY <2>1, <2>2, <2>3, <2>4, NothingLeft
<1> QED BY <1>1, <1>2, PersonasKept, PTL DEF GameSpec
=============================================================================
