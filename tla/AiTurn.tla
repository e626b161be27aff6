------------------------------- MODULE AiTurn -------------------------------
(***************************************************************************)
(* The AI turn engine (apps/api/src/ai/engine.ts) on one match between a   *)
(* human and a bot.  maybeSchedule() looks at its map of timers, waits for *)
(* the row, and arms a timer; the timer's callback reads the snapshot,     *)
(* decides, and then commits a chat message, the decided move and, if that *)
(* was refused, the fallback ladder, each in a transaction of its own.     *)
(* Every request of the human calls maybeSchedule() again.  Any call of    *)
(* the engine may throw, and then gives up its turn.                       *)
(*                                                                         *)
(* Time passes while the engine waits.  The message and the decided move   *)
(* are committed with one reading of the clock, taken when the agent       *)
(* decides; the fallback reads it again.                                   *)
(***************************************************************************)
EXTENDS AiMatch, FiniteSets

CONSTANTS
    Bot,         \* the role the bot plays
    Created,     \* the match as it was created
    MaxRequests, \* bound on the requests of the human
    MaxMishaps,  \* bound on calls of the engine that throw and on restarts
    Task,        \* asynchronous calls that may run at once
    MaxTimers    \* think timers that may be armed at once

ASSUME AiAssumption ==
    /\ Bot \in Player
    /\ \E mode \in Mode, rv \in [Player -> Amount], first \in Player :
         Created = CreatedMatch(mode, rv, first)

VARIABLES
    tasks,    \* the calls of maybeSchedule() and playAiTurn() in progress
    timers,   \* how many think timers are armed
    mapped,   \* whether this.timers has an entry for the match
    requests,
    mishaps,
    lost,     \* history: a call has thrown since the last request or restart
    twins     \* history: two calls have played one turn side by side

book == <<requests, mishaps, lost>>
vars == <<match, now, tasks, timers, mapped, book, twins>>

Human == Other(Bot)
BotTurn == OwnsTurn(match, Bot)

Idle == [pc |-> "idle"]
Scheduling == [pc |-> "scheduling"]
HasFreeTask == \E t \in Task : tasks[t] = Idle
FreeTask == CHOOSE t \in Task : tasks[t] = Idle

Init ==
    /\ match = Begun(Created)
    /\ now = 0
    /\ tasks = [t \in Task |-> IF t = CHOOSE u \in Task : TRUE THEN Scheduling ELSE Idle]
    /\ timers = 0
    /\ mapped = FALSE
    /\ requests = 0
    /\ mishaps = 0
    /\ lost = FALSE
    /\ twins = FALSE

-----------------------------------------------------------------------------
(* maybeSchedule()                                                         *)

\* Bug: the entry is made before the row is read, and stays when it is not the
\* bot's turn.
MaybeSchedule_MapsEarly(t) ==
    /\ tasks[t] = Scheduling
    /\ tasks' = [tasks EXCEPT ![t] = IF mapped THEN Idle ELSE [pc |-> "reading row"]]
    /\ mapped' = TRUE
    /\ UNCHANGED <<match, now, timers, book, twins>>

\* Returns at once when the map has an entry; else asks for the row.
MaybeSchedule(t) ==
    /\ tasks[t] = Scheduling
    /\ tasks' = [tasks EXCEPT ![t] = IF mapped THEN Idle ELSE [pc |-> "reading row"]]
    /\ UNCHANGED <<match, now, timers, mapped, book, twins>>

ReadRow(t) ==
    /\ tasks[t].pc = "reading row"
    /\ tasks' = [tasks EXCEPT ![t] = IF BotTurn THEN [pc |-> "arming"] ELSE Idle]
    /\ UNCHANGED <<match, now, timers, mapped, book, twins>>

\* The map may have got an entry since it was looked at; it is overwritten.
Arm(t) ==
    /\ tasks[t].pc = "arming"
    /\ timers < MaxTimers
    /\ timers' = timers + 1
    /\ mapped' = TRUE
    /\ tasks' = [tasks EXCEPT ![t] = Idle]
    /\ UNCHANGED <<match, now, book, twins>>

-----------------------------------------------------------------------------
(* playAiTurn()                                                            *)

Fire ==
    /\ timers > 0
    /\ HasFreeTask
    /\ timers' = timers - 1
    /\ mapped' = FALSE
    /\ tasks' = [tasks EXCEPT ![FreeTask] = [pc |-> "loading"]]
    /\ UNCHANGED <<match, now, book, twins>>

\* Bug: an amount is proposed without asking what the domain allows.
Offers_Unchecked(m) == {OfferIntent(a) : a \in Amount}

\* What an agent may decide on a snapshot: a legal offer, a legal acceptance or
\* to walk away.  It does not look at the clock: legal is what was legal when
\* the turn began.
Offers(m) == {OfferIntent(a) : a \in {x \in Amount : CanOffer(m, Bot, x, m.turnStartedAt)}}
Accepts(m) ==
    {AcceptIntent(oid) :
        oid \in {x \in {m.standing[Human]} \ {None} : CanAccept(m, Bot, x, m.turnStartedAt)}}

Talking(seen, d, at) == [pc |-> "talking", seen |-> seen, decision |-> d, at |-> at]
FallingBack(seen) == [pc |-> "falling back", seen |-> seen]
Leaving == [pc |-> "leaving"]

Playing(t) == tasks[t].pc \in {"talking", "moving", "falling back", "leaving"}

\* Loads the snapshot and decides on it.
Decide(t) ==
    /\ tasks[t].pc = "loading"
    /\ IF BotTurn
       THEN \E d \in Offers(match) \cup Accepts(match) \cup {WalkAwayIntent} :
                tasks' = [tasks EXCEPT ![t] = Talking(match.standing[Human], d, now)]
       ELSE tasks' = [tasks EXCEPT ![t] = Idle]
    /\ twins' = (twins \/ \E u \in Task \ {t} : BotTurn /\ Playing(u))
    /\ UNCHANGED <<match, now, timers, mapped, book>>

\* commitMessages(): the turn is given up when the message is refused.  Chat does
\* not look at the clock.
Talk(t) ==
    /\ tasks[t].pc = "talking"
    /\ IF CanMessage(match, "talk")
       THEN /\ match' = AfterMessage(match)
            /\ tasks' = [tasks EXCEPT ![t].pc = "moving"]
       ELSE tasks' = [tasks EXCEPT ![t] = Idle] /\ UNCHANGED match
    /\ UNCHANGED <<now, timers, mapped, book, twins>>

Legal(d, at) == LegalIntent(match, Bot, d, at)

\* A committed move ends with another maybeSchedule().
Committed(t, d, at) ==
    /\ match' = Carried(match, Bot, d, at)
    /\ tasks' = [tasks EXCEPT ![t] = Scheduling]

\* commitMove(): a refused move falls through to the ladder.
Move(t) ==
    LET d == tasks[t].decision
        at == tasks[t].at
    IN  /\ tasks[t].pc = "moving"
        /\ IF Legal(d, at) THEN Committed(t, d, at)
           ELSE tasks' = [tasks EXCEPT ![t] = FallingBack(@.seen)] /\ UNCHANGED match
        /\ UNCHANGED <<now, timers, mapped, book, twins>>

\* fallbackMove(), first rung: accept the offer that stood when the snapshot
\* was read, if the domain still allows it; the view of that snapshot is older
\* than the move that was refused.
FallbackAccept(t) ==
    LET d == AcceptIntent(tasks[t].seen) IN
    /\ tasks[t].pc = "falling back"
    /\ IF tasks[t].seen # None /\ Legal(d, now) THEN Committed(t, d, now)
       ELSE tasks' = [tasks EXCEPT ![t] = Leaving] /\ UNCHANGED match
    /\ UNCHANGED <<now, timers, mapped, book, twins>>

\* Last rung: walk away, if the domain allows that.
FallbackWalkAway(t) ==
    /\ tasks[t].pc = "leaving"
    /\ IF Legal(WalkAwayIntent, now) THEN Committed(t, WalkAwayIntent, now)
       ELSE tasks' = [tasks EXCEPT ![t] = Idle] /\ UNCHANGED match
    /\ UNCHANGED <<now, timers, mapped, book, twins>>

\* A call throws (playAiTurn() catches it) and changes nothing; one that had
\* committed already is as good as a move followed by a failing maybeSchedule().
Fail(t) ==
    /\ tasks[t] # Idle
    /\ mishaps < MaxMishaps
    /\ mishaps' = mishaps + 1
    /\ lost' = TRUE
    /\ tasks' = [tasks EXCEPT ![t] = Idle]
    /\ UNCHANGED <<match, now, timers, mapped, requests, twins>>

-----------------------------------------------------------------------------
(* The human, time, and restarts                                           *)

\* A request commits (or only reads) and calls maybeSchedule().
Request(m) ==
    /\ requests < MaxRequests
    /\ requests' = requests + 1
    /\ lost' = FALSE
    /\ HasFreeTask
    /\ match' = m
    /\ tasks' = [tasks EXCEPT ![FreeTask] = Scheduling]
    /\ UNCHANGED <<now, timers, mapped, mishaps, twins>>

\* A refused request does not get as far as maybeSchedule().
Sends(c) == Accepted(match, c, now) /\ Request(Applied(match, c, now))

HumanOffer(a) == Sends(OfferCommand(Human, match.seq + 1, a))
HumanAccept == Sends(Command("ACCEPT", Human, match.standing[Bot]))
HumanWalksAway == Sends(Command("WALK_AWAY", Human, None))
HumanReveal(fact) == Sends(Command("REVEAL", Human, fact))
HumanSays == Sends(Command("MESSAGE", Human, "text"))
HumanLeaves == ~match.disconnected[Human] /\ Sends(Command("DISCONNECT", Human, None))
HumanReturns == match.disconnected[Human] /\ Sends(Command("RECONNECT", Human, None))
\* Opening the match page, joining its room.
HumanLooks == Request(match)

Tick == TimePasses /\ UNCHANGED <<tasks, timers, mapped, book, twins>>
Timeout == TimesOut /\ UNCHANGED <<tasks, timers, mapped, book, twins>>

\* The process dies; bootScan() schedules the matches waiting for a bot.
Restart ==
    /\ mishaps < MaxMishaps
    /\ mishaps' = mishaps + 1
    /\ lost' = FALSE
    /\ timers' = 0
    /\ mapped' = FALSE
    /\ tasks' = [t \in Task |-> IF BotTurn /\ t = CHOOSE u \in Task : TRUE
                                THEN Scheduling ELSE Idle]
    /\ UNCHANGED <<match, now, requests, twins>>

Engine(t) ==
    \/ MaybeSchedule(t) \/ ReadRow(t) \/ Arm(t)
    \/ Decide(t) \/ Talk(t) \/ Move(t) \/ FallbackAccept(t) \/ FallbackWalkAway(t)

Next ==
    \/ \E t \in Task : Engine(t) \/ Fail(t)
    \/ Fire
    \/ \E a \in Amount : HumanOffer(a)
    \/ \E fact \in Fact : HumanReveal(fact)
    \/ HumanAccept \/ HumanWalksAway \/ HumanSays
    \/ HumanLeaves \/ HumanReturns \/ HumanLooks
    \/ Tick \/ Timeout
    \/ Restart

\* Calls in progress go on and timers fire; the human owes nothing, and no
\* deadline need strike.
Fairness == (\A t \in Task : WF_vars(Engine(t))) /\ WF_vars(Fire)

Spec == Init /\ [][Next]_vars /\ Fairness

-----------------------------------------------------------------------------
(* Properties                                                              *)

\* engine.ts:222-226, "A live match can never wedge on the AI": the bot's turn
\* ends although the human never comes back, and whatever calls overlap, unless
\* its decision time runs out first, which is the timeout's business.  A turn
\* whose call throws waits for the next request or restart (engine.ts:100-101).
BotTurnEnds == BotTurn ~> (~BotTurn \/ Exhausted(match, now) \/ lost)

Decided(t) == tasks[t].pc = "moving" /\ tasks[t].decision = WalkAwayIntent

\* engine.ts:222, "Safety net (personas must never need it)": a match is left on
\* the bot's turn only by a call whose agent has decided so, never by the ladder
\* because a legal move came late or time ran out; except that of two calls that
\* play one turn the slower may be refused and walk down to the last rung.
LeavesOnlyByDecision ==
    [][BotTurn /\ match'.reason = "WALKED_AWAY" => twins \/ \E t \in Task : Decided(t)]_vars
=============================================================================
