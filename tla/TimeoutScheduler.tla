-------------------------- MODULE TimeoutScheduler --------------------------
(***************************************************************************)
(* The timeout scheduler (apps/api/src/timeout-scheduler.ts) beside the    *)
(* commands that call it (match-routes.ts, realtime.ts, ai/engine.ts), on  *)
(* one match with a decision-time limit.                                   *)
(*                                                                         *)
(* The API is one Node process: what happens between two awaits is one     *)
(* step.  refresh() takes three (cancel the mapped timer and ask for the   *)
(* snapshot; the database reads it; arm a timer from what was read), and   *)
(* so does fireTimeout().  Any number of them overlap, up to Tasks.        *)
(*                                                                         *)
(* Times are exact here: a command commits at the clock it carries.        *)
(***************************************************************************)
EXTENDS MatchDomain, FiniteSets

CONSTANTS
    Opponents,   \* who may play: the role of a bot, or None for two humans
    Created,     \* the match as it was created
    MaxTime,     \* bound on the clock
    MaxRequests, \* bound on what humans and sockets ask for
    MaxCrashes,  \* bound on restarts of the API process
    Skew,        \* how early a timer may fire
    Task,        \* handlers of the process that may run at once
    TimerId      \* timers that may be armed at once

\* What refresh() uses of a snapshot in which a clock runs, and an armed timer.
Snapshot == [active : Player, turnStartedAt : Nat, cumulative : [Player -> Nat]]
Timer == [due : Nat, expected : Player]

\* The match is one createMatch built, under a configuration with a limit.
ASSUME SchedulerAssumption ==
    /\ \E mode \in Mode, rv \in [Player -> Amount], first \in Player :
         Created = CreatedMatch(mode, rv, first)
    /\ Limit # None
    /\ Opponents \subseteq Player \cup {None}
    /\ Task # {}
    /\ None \notin Snapshot \cup Timer
    /\ {MaxTime, MaxRequests, MaxCrashes, Skew} \subseteq Nat

VARIABLES
    ai,       \* the role a bot plays, None between two humans; never changes
    match,    \* the authoritative snapshot in the database
    clock,
    tasks,    \* the asynchronous calls in progress
    timers,   \* the armed timers: setTimeout callbacks that will run
    mapped,   \* the timer this.timers holds for the match, None if none
    requests, \* what humans and sockets have asked for
    crashes

vars == <<ai, match, clock, tasks, timers, mapped, requests, crashes>>

Idle == [pc |-> "idle"]
Calling(pc, seen) == [pc |-> pc, seen |-> seen]

\* What refresh() uses of a snapshot: None when no clock runs in it.
Seen(m) ==
    IF m.status # "ACTIVE" THEN None
    ELSE [active |-> m.active, turnStartedAt |-> m.turnStartedAt, cumulative |-> m.cumulative]

Init ==
    /\ ai \in Opponents
    /\ match = Started([Created EXCEPT !.ready = [p \in Player |-> TRUE],
                                   !.mode = IF ai = None THEN @ ELSE "AI"], 0)
    /\ clock = 0
    /\ tasks = [t \in Task |-> IF t = CHOOSE u \in Task : TRUE
                               THEN Calling("refresh", None) ELSE Idle]
    /\ timers = [t \in TimerId |-> None]
    /\ mapped = None
    /\ requests = 0
    /\ crashes = 0

FreeTask == CHOOSE t \in Task : tasks[t] = Idle
HasFreeTask == \E t \in Task : tasks[t] = Idle

-----------------------------------------------------------------------------
(* Commands: a commit, and for all but the bot's the call of refresh()     *)
(* that follows it once the handler has read the new snapshot back         *)

Commit(m) == match' = m /\ UNCHANGED <<ai, clock, timers, mapped, crashes>>

CommitAndRefresh(m) ==
    /\ requests < MaxRequests
    /\ requests' = requests + 1
    /\ HasFreeTask
    /\ tasks' = [tasks EXCEPT ![FreeTask] = Calling("refresh", None)]
    /\ Commit(m)

Human(p) == p # ai

\* commitAndBroadcast.
Offer(p, a) ==
    /\ Human(p)
    /\ CanOffer(match, p, a, clock)
    /\ CommitAndRefresh(AfterOffer(match, p, match.seq + 1, a, clock))

Reveal(p, fact) ==
    /\ Human(p)
    /\ CanReveal(match, p, fact, clock)
    /\ CommitAndRefresh(AfterReveal(match, p, fact, clock))

Accept(p) ==
    /\ Human(p)
    /\ CanAccept(match, p, match.standing[Other(p)], clock)
    /\ CommitAndRefresh(AfterAccept(match, p, clock))

WalkAway(p) ==
    /\ Human(p)
    /\ CanWalkAway(match, p, clock)
    /\ CommitAndRefresh(AfterWalkAway(match, clock))

\* The socket handlers: a disconnect always refreshes, a join refreshes before
\* it reconnects and again when there was something to resume.
Disconnect(p) == Human(p) /\ CommitAndRefresh(AfterDisconnect(match, p, clock))
Reconnect(p) ==
    /\ Human(p)
    /\ match.disconnected[p]
    /\ CommitAndRefresh(AfterReconnect(match, p, clock))

\* GET /v1/matches/:id and match:join.
View == CommitAndRefresh(match)

\* performAiTurn commits the bot's move, and nobody calls refresh().
AiOffer(a) ==
    /\ ai # None
    /\ CanOffer(match, ai, a, clock)
    /\ Commit(AfterOffer(match, ai, match.seq + 1, a, clock))
    /\ UNCHANGED <<tasks, requests>>

AiEnds ==
    /\ ai # None
    /\ \/ /\ CanAccept(match, ai, match.standing[Other(ai)], clock)
          /\ Commit(AfterAccept(match, ai, clock))
       \/ CanWalkAway(match, ai, clock) /\ Commit(AfterWalkAway(match, clock))
    /\ UNCHANGED <<tasks, requests>>

-----------------------------------------------------------------------------
(* refresh()                                                               *)

Cancelled == IF mapped = None THEN timers ELSE [timers EXCEPT ![mapped] = None]

\* Synchronous part: cancel the mapped timer, ask for the snapshot.
Refresh(t) ==
    /\ tasks[t].pc = "refresh"
    /\ timers' = Cancelled
    /\ mapped' = None
    /\ tasks' = [tasks EXCEPT ![t] = Calling("reading", None)]
    /\ UNCHANGED <<ai, match, clock, requests, crashes>>

Read(t) ==
    /\ tasks[t].pc = "reading"
    /\ tasks' = [tasks EXCEPT ![t] = Calling("arming", Seen(match))]
    /\ UNCHANGED <<ai, match, clock, timers, mapped, requests, crashes>>

Remaining(s) ==
    LET spent == ElapsedActive(s, s.active, clock)
    IN  IF spent >= Limit THEN 0 ELSE Limit - spent

FreeTimer == CHOOSE i \in TimerId : timers[i] = None

\* Bug: the new timer is armed only when no other took its place meanwhile.
Arm_UnlessMapped(t) ==
    /\ tasks[t].pc = "arming"
    /\ tasks' = [tasks EXCEPT ![t] = Idle]
    /\ LET s == tasks[t].seen IN
       IF s # None /\ Limit # None /\ mapped = None
       THEN /\ \E i \in TimerId : timers[i] = None
            /\ timers' = [timers EXCEPT ![FreeTimer] =
                   [due |-> clock + Remaining(s), expected |-> s.active]]
            /\ mapped' = FreeTimer
       ELSE UNCHANGED <<timers, mapped>>
    /\ UNCHANGED <<ai, match, clock, requests, crashes>>

\* The snapshot may be stale by now; a timer another refresh mapped meanwhile
\* is overwritten in the map and goes on uncancelled.
Arm(t) ==
    /\ tasks[t].pc = "arming"
    /\ tasks' = [tasks EXCEPT ![t] = Idle]
    /\ LET s == tasks[t].seen IN
       IF s # None /\ Limit # None
       THEN /\ \E i \in TimerId : timers[i] = None
            /\ timers' = [timers EXCEPT ![FreeTimer] =
                   [due |-> clock + Remaining(s), expected |-> s.active]]
            /\ mapped' = FreeTimer
       ELSE UNCHANGED <<timers, mapped>>
    /\ UNCHANGED <<ai, match, clock, requests, crashes>>

-----------------------------------------------------------------------------
(* fireTimeout()                                                           *)

\* The callback drops whatever timer is mapped, its own or not.
Fire(i) ==
    /\ timers[i] # None
    /\ clock + Skew >= timers[i].due
    /\ HasFreeTask
    /\ timers' = [timers EXCEPT ![i] = None]
    /\ mapped' = None
    /\ tasks' = [tasks EXCEPT ![FreeTask] = Calling("checking", timers[i].expected)]
    /\ UNCHANGED <<ai, match, clock, requests, crashes>>

\* The check under no lock: the turn may have passed, the match have ended.
Check(t) ==
    /\ tasks[t].pc = "checking"
    /\ tasks' = [tasks EXCEPT ![t] =
           IF OwnsTurn(match, tasks[t].seen)
           THEN Calling("timing out", tasks[t].seen) ELSE Idle]
    /\ UNCHANGED <<ai, match, clock, timers, mapped, requests, crashes>>

\* service.timeout(): the domain checks again under the lock.  TIMEOUT_NOT_DUE,
\* the answer to the right player's early timer, refreshes.
TimeOut(t) ==
    LET p == tasks[t].seen IN
    /\ tasks[t].pc = "timing out"
    /\ match' = IF CanTimeout(match, p, clock) THEN AfterTimeout(match, clock) ELSE match
    /\ tasks' = [tasks EXCEPT ![t] =
           IF OwnsTurn(match, p) /\ ~CanTimeout(match, p, clock)
           THEN Calling("refresh", None) ELSE Idle]
    /\ UNCHANGED <<ai, clock, timers, mapped, requests, crashes>>

-----------------------------------------------------------------------------
(* Restart and time                                                        *)

\* Bug: the boot scan looks for PAUSED matches.
Restart_WrongScan ==
    /\ crashes < MaxCrashes
    /\ crashes' = crashes + 1
    /\ timers' = [i \in TimerId |-> None]
    /\ mapped' = None
    /\ tasks' = [t \in Task |-> IF t = CHOOSE u \in Task : TRUE
                                THEN IF match.status = "PAUSED"
                                     THEN Calling("refresh", None) ELSE Idle
                                ELSE Idle]
    /\ UNCHANGED <<ai, match, clock, requests>>

\* The process dies with its timers and calls; bootScan refreshes every match
\* that is ACTIVE.
Restart ==
    /\ crashes < MaxCrashes
    /\ crashes' = crashes + 1
    /\ timers' = [i \in TimerId |-> None]
    /\ mapped' = None
    /\ tasks' = [t \in Task |-> IF t = CHOOSE u \in Task : TRUE
                                THEN IF match.status = "ACTIVE"
                                     THEN Calling("refresh", None) ELSE Idle
                                ELSE Idle]
    /\ UNCHANGED <<ai, match, clock, requests>>

Tick ==
    /\ clock < MaxTime
    /\ clock' = clock + 1
    /\ UNCHANGED <<ai, match, tasks, timers, mapped, requests, crashes>>

Next ==
    \/ \E p \in Player :
         \/ \E a \in Amount : Offer(p, a)
         \/ \E fact \in Fact : Reveal(p, fact)
         \/ Accept(p)
         \/ WalkAway(p)
         \/ Disconnect(p)
         \/ Reconnect(p)
    \/ View
    \/ \E a \in Amount : AiOffer(a)
    \/ AiEnds
    \/ \E t \in Task : Refresh(t) \/ Read(t) \/ Arm(t) \/ Check(t) \/ TimeOut(t)
    \/ \E i \in TimerId : Fire(i)
    \/ Restart
    \/ Tick

\* What the event loop and the database guarantee: calls in progress go on,
\* due timers run, time passes.  Nobody has to move, come back or look.
Fairness ==
    /\ \A t \in Task : WF_vars(Refresh(t) \/ Read(t) \/ Arm(t) \/ Check(t) \/ TimeOut(t))
    /\ \A i \in TimerId : WF_vars(Fire(i))
    /\ WF_vars(Tick)

Spec == Init /\ [][Next]_vars /\ Fairness

-----------------------------------------------------------------------------
(* Properties                                                              *)

Overdue == Exhausted(match, clock)

\* GR-024, SI-009: whatever timers survive, a timeout ends the match only for a
\* player who owned the turn and had used the whole limit, and is charged for.
TimeoutNeverFabricated ==
    match.reason = "TIMED_OUT" =>
        \E p \in Player : match.cumulative[p] >= Limit /\ match.cumulative[Other(p)] < Limit

Quiet == \A t \in Task : tasks[t] = Idle

\* The human turns of a match against a bot: the bot's moves hand them over.
FacesBot == ai # None /\ match.active = Other(ai)

\* With no call in progress, the player whose clock runs has a timer that is due
\* already or no later than the limit, whatever stale and orphaned timers there
\* are; except a human whom a bot handed the turn.
DeadlineArmed ==
    Quiet /\ match.status = "ACTIVE" /\ ~FacesBot =>
        \E i \in TimerId :
            /\ timers[i] # None
            /\ timers[i].expected = match.active
            /\ \/ timers[i].due <= clock
               \/ timers[i].due <= match.turnStartedAt + Limit - match.cumulative[match.active]

\* GR-023, GR-024: a match whose active player is over the limit does not stay
\* so, though nobody looks at it; with the same exception.
DeadlineEnforced == (Overdue /\ ~FacesBot) ~> ~Overdue

-----------------------------------------------------------------------------
(* What a comment claims, and the code does not do                         *)

\* timeout-scheduler.ts:4, "Drives the hard personal decision-time budget for
\* every ACTIVE match (human and AI turns alike)": without the exception.
EveryDeadlineEnforced == Overdue ~> ~Overdue
=============================================================================
