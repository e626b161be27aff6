--------------------------- MODULE SchedulerProofs ---------------------------
(***************************************************************************)
(* Deadlines (apps/api/src/timeout-scheduler.ts), for any number of calls, *)
(* timers, requests and restarts, any limit and any skew of the timers: no *)
(* timer fabricates a timeout, and while a clock runs some timer, or some  *)
(* call that will arm one, watches it.                                     *)
(***************************************************************************)
EXTENDS TimeoutScheduler, MatchDomainProofs

-----------------------------------------------------------------------------
(* The invariant                                                           *)

\* What a call of refresh() or fireTimeout() carries from one await to the next.
TaskState ==
    {Idle}
    \cup [pc : {"refresh", "reading"}, seen : {None}]
    \cup [pc : {"arming"}, seen : Snapshot \cup {None}]
    \cup [pc : {"checking", "timing out"}, seen : Player]

SchedulerTypes ==
    /\ ai \in Player \cup {None}
    /\ clock \in Nat
    /\ tasks \in [Task -> TaskState]
    /\ timers \in [TimerId -> Timer \cup {None}]

\* A call that will arm a timer for the turn that runs now, or end the match: it
\* has not read the snapshot, has read the one that is still true, or checks the
\* player who is still on turn.
Pending(t) ==
    \/ tasks[t].pc \in {"refresh", "reading"}
    \/ tasks[t].pc = "arming" /\ tasks[t].seen = Seen(match)
    \/ tasks[t].pc \in {"checking", "timing out"} /\ tasks[t].seen = match.active

\* A timer for the turn that runs now, due no later than its player's limit.
Armed(i) ==
    /\ timers[i] # None
    /\ timers[i].expected = match.active
    /\ \/ timers[i].due <= clock
       \/ timers[i].due <= match.turnStartedAt + Limit - match.cumulative[match.active]

Watched == (\E t \in Task : Pending(t)) \/ (\E i \in TimerId : Armed(i))

Covered == match.status = "ACTIVE" /\ ~FacesBot => Watched

MatchInv == SchedulerTypes /\ InOrder(match, clock)

SchedulerInv == MatchInv /\ Covered

-----------------------------------------------------------------------------
(* Slots, snapshots and steps                                              *)

\* A slot that is free is one of the slots, and idle.
LEMMA FreeSlots ==
    /\ HasFreeTask => FreeTask \in Task /\ tasks[FreeTask] = Idle
    /\ (\E i \in TimerId : timers[i] = None) =>
         FreeTimer \in TimerId /\ timers[FreeTimer] = None
BY DEF HasFreeTask, FreeTask, FreeTimer

\* refresh() keeps a snapshot exactly of a match in which a clock runs.
LEMMA SeenType ==
    ASSUME MatchInv
    PROVE  /\ match.status = "ACTIVE" => Seen(match) \in Snapshot
           /\ match.status # "ACTIVE" => Seen(match) = None
<1>1. match.cumulative \in [Player -> Nat]
  BY DEF MatchInv, InOrder, Match
<1>2. match.status = "ACTIVE" => match.active \in Player /\ match.turnStartedAt \in Nat
  BY DEF MatchInv, InOrder
<1> QED BY <1>1, <1>2 DEF Seen, Snapshot

\* A timer is armed for now, or for the moment the limit is reached.
LEMMA RemainingTime ==
    ASSUME NEW s \in Snapshot, clock \in Nat
    PROVE  /\ Remaining(s) \in Nat
           /\ \/ clock + Remaining(s) <= clock
              \/ /\ s.turnStartedAt <= clock
                 /\ clock + Remaining(s) <= s.turnStartedAt + Limit - s.cumulative[s.active]
              \/ s.turnStartedAt > clock
<1>1. /\ s.active \in Player /\ s.turnStartedAt \in Nat
      /\ s.cumulative[s.active] \in Nat /\ Limit \in Nat /\ s.turnStartedAt # None
  BY ConfigAssumption, SchedulerAssumption, NoneAssumption DEF Snapshot
<1>2. CASE clock > s.turnStartedAt
  <2> DEFINE spent == s.cumulative[s.active] + (clock - s.turnStartedAt)
  <2>1. ElapsedActive(s, s.active, clock) = spent /\ spent \in Nat
    BY <1>1, <1>2 DEF ElapsedActive, SinceTurn
  <2>2. Remaining(s) = IF spent >= Limit THEN 0 ELSE Limit - spent
    BY <2>1 DEF Remaining
  <2> QED BY <1>1, <1>2, <2>1, <2>2
<1>3. CASE ~(clock > s.turnStartedAt)
  <2> DEFINE spent == s.cumulative[s.active]
  <2>1. ElapsedActive(s, s.active, clock) = spent
    BY <1>1, <1>3 DEF ElapsedActive, SinceTurn
  <2>2. Remaining(s) = IF spent >= Limit THEN 0 ELSE Limit - spent
    BY <2>1 DEF Remaining
  <2> QED BY <1>1, <1>3, <2>2
<1> QED BY <1>2, <1>3

\* A call that arms, checks or times out carries a snapshot or a player.
LEMMA TaskCarries ==
    ASSUME NEW s \in TaskState
    PROVE  /\ s.pc = "arming" => s.seen \in Snapshot \cup {None}
           /\ s.pc \in {"checking", "timing out"} => s.seen \in Player
<1>1. CASE s = Idle
  BY <1>1 DEF Idle
<1>2. CASE s \in [pc : {"refresh", "reading"}, seen : {None}]
  BY <1>2
<1>3. CASE s \in [pc : {"arming"}, seen : Snapshot \cup {None}]
  BY <1>3
<1>4. CASE s \in [pc : {"checking", "timing out"}, seen : Player]
  BY <1>4
<1> QED BY <1>1, <1>2, <1>3, <1>4 DEF TaskState

\* A human command commits a match in good order and calls refresh(),
Commanded ==
    /\ InOrder(match', clock)
    /\ HasFreeTask
    /\ tasks' = [tasks EXCEPT ![FreeTask] = Calling("refresh", None)]
    /\ UNCHANGED <<ai, clock, timers>>

\* and the bot's move commits one in which the human is on turn, if anybody.
BotMoved ==
    /\ InOrder(match', clock)
    /\ match'.status = "ACTIVE" => ai \in Player /\ match'.active = Other(ai)
    /\ UNCHANGED <<ai, clock, timers, tasks>>

\* Nothing else touches the match, but a timeout that is due.
LEMMA CommandKinds ==
    ASSUME MatchInv
    PROVE  /\ \A p \in Player :
                \/ \E a \in Amount : Offer(p, a)
                \/ \E fact \in Fact : Reveal(p, fact)
                \/ Accept(p) \/ WalkAway(p) \/ Disconnect(p) \/ Reconnect(p)
                => Commanded
           /\ View => Commanded
           /\ (\E a \in Amount : AiOffer(a)) \/ AiEnds => BotMoved
<1> USE DEF MatchInv
<1>0. /\ match \in Match /\ clock \in Nat /\ match.seq + 1 \in Nat
      /\ ai \in Player \cup {None}
  BY DEF InOrder, SchedulerTypes, Match
<1>1. ASSUME NEW m, InOrder(m, clock), CommitAndRefresh(m) PROVE Commanded
  BY <1>1 DEF CommitAndRefresh, Commit, Commanded
<1>2. ASSUME NEW p \in Player, NEW a \in Amount, Offer(p, a) PROVE Commanded
  BY <1>0, <1>1, <1>2, MoveInOrder DEF Offer
<1>3. ASSUME NEW p \in Player, NEW fact \in Fact, Reveal(p, fact) PROVE Commanded
  BY <1>0, <1>1, <1>3, MoveInOrder DEF Reveal
<1>4. ASSUME NEW p \in Player, Accept(p) PROVE Commanded
  BY <1>0, <1>1, <1>4, EndingsInOrder DEF Accept, CanAccept
<1>5. ASSUME NEW p \in Player, WalkAway(p) PROVE Commanded
  BY <1>0, <1>1, <1>5, EndingsInOrder DEF WalkAway
<1>6. ASSUME NEW p \in Player, Disconnect(p) \/ Reconnect(p) PROVE Commanded
  BY <1>0, <1>1, <1>6, PresenceInOrder DEF Disconnect, Reconnect
<1>7. ASSUME View PROVE Commanded
  BY <1>1, <1>7 DEF View
<1>8. ASSUME NEW a \in Amount, AiOffer(a) PROVE BotMoved
  <2>1. ai \in Player /\ match' = AfterOffer(match, ai, match.seq + 1, a, clock)
    BY <1>0, <1>8 DEF AiOffer, Commit
  <2>2. match'.active = Other(ai)
    BY <1>0, <2>1, OfferTurn
  <2>3. InOrder(match', clock)
    BY <1>0, <1>8, <2>1, MoveInOrder DEF AiOffer
  <2> QED BY <1>8, <2>1, <2>2, <2>3 DEF AiOffer, Commit, BotMoved
<1>9. ASSUME AiEnds PROVE BotMoved
  <2>1. /\ ai \in Player
        /\ \/ CanAccept(match, ai, match.standing[Other(ai)], clock)
              /\ match' = AfterAccept(match, ai, clock)
           \/ match' = AfterWalkAway(match, clock)
        /\ UNCHANGED <<ai, clock, timers, tasks>>
    BY <1>0, <1>9 DEF AiEnds, Commit
  <2>2. InOrder(match', clock)
    BY <1>0, <2>1, EndingsInOrder DEF CanAccept
  <2>3. match'.status # "ACTIVE"
    BY <1>0, <2>1, EndedFields DEF AfterAccept, AfterWalkAway
  <2> QED BY <2>1, <2>2, <2>3 DEF BotMoved
<1> QED BY <1>2, <1>3, <1>4, <1>5, <1>6, <1>7, <1>8, <1>9

-----------------------------------------------------------------------------
(* Types, and the match                                                    *)

\* The match starts in good order, with a call that will arm its deadline.
LEMMA InitScheduler == Init => SchedulerInv
<1> SUFFICES ASSUME Init PROVE SchedulerInv
  OBVIOUS
<1> DEFINE r == [Created EXCEPT !.ready = [p \in Player |-> TRUE],
                                !.mode = IF ai = None THEN @ ELSE "AI"]
<1>1. InOrder(Created, 0) /\ Created.status = "CREATED"
  <2>1. PICK mode \in Mode, rv \in [Player -> Amount], first \in Player :
          Created = CreatedMatch(mode, rv, first)
    BY SchedulerAssumption
  <2> QED BY <2>1, CreatedInOrder DEF CreatedMatch
<1>2. InOrder(r, 0) /\ r.status = "CREATED"
  <2>1. Created \in Match /\ [p \in Player |-> TRUE] \in [Player -> BOOLEAN]
    BY <1>1 DEF InOrder
  <2>2. r \in Match
    <3> DEFINE mode == IF ai = None THEN Created.mode ELSE "AI"
               ready == [p \in Player |-> TRUE]
    <3>1. mode \in Mode
      BY <2>1 DEF Match, Mode
    <3>2. r = [Created EXCEPT !.ready = ready, !.mode = mode]
      BY <2>1 DEF Match
    <3> HIDE DEF mode, ready, r
    <3>3. [Created EXCEPT !.ready = ready, !.mode = mode] \in Match
      BY <2>1, <3>1 DEF Match, ready
    <3> QED BY <3>2, <3>3
  <2>3. /\ r.status = Created.status /\ r.reason = Created.reason
        /\ r.cumulative = Created.cumulative
    BY <2>1 DEF Match
  <2> HIDE DEF r
  <2>4. r.reason = None /\ None # "TIMED_OUT"
    BY <1>1, <2>3, NoneAssumption DEF InOrder, Terminal, Reason
  <2> QED BY <1>1, <2>2, <2>3, <2>4 DEF InOrder
<1>3. match = Started(r, 0) /\ clock = 0
  BY DEF Init
<1> HIDE DEF r
<1>4. InOrder(match, clock)
  BY <1>2, <1>3, StartedInOrder
<1>5. SchedulerTypes
  BY SchedulerAssumption DEF Init, SchedulerTypes, TaskState, Calling
<1>6. Covered
  <2>1. (CHOOSE u \in Task : TRUE) \in Task
    BY SchedulerAssumption
  <2>2. tasks[CHOOSE u \in Task : TRUE] = Calling("refresh", None)
    BY <2>1 DEF Init
  <2>3. Pending(CHOOSE u \in Task : TRUE)
    BY <2>2 DEF Pending, Calling
  <2> QED BY <2>1, <2>3 DEF Covered, Watched
<1> QED BY <1>4, <1>5, <1>6 DEF SchedulerInv, MatchInv

\* Every step keeps the types and the order of the match.
LEMMA MatchInvStep == MatchInv /\ [Next]_vars => MatchInv'
<1> SUFFICES ASSUME MatchInv, [Next]_vars PROVE MatchInv'
  OBVIOUS
<1>0. /\ SchedulerTypes /\ InOrder(match, clock) /\ clock \in Nat
      /\ tasks \in [Task -> TaskState]
      /\ timers \in [TimerId -> Timer \cup {None}]
      /\ Calling("refresh", None) \in TaskState /\ Idle \in TaskState
      /\ Calling("reading", None) \in TaskState
  BY DEF MatchInv, SchedulerTypes, TaskState, Calling
<1>1. CASE Commanded
  BY <1>0, <1>1 DEF Commanded, MatchInv, SchedulerTypes
<1>2. CASE BotMoved
  BY <1>0, <1>2 DEF BotMoved, MatchInv, SchedulerTypes
<1>3. ASSUME NEW t \in Task, Refresh(t) PROVE MatchInv'
  <2>1. timers' \in [TimerId -> Timer \cup {None}]
    BY <1>0, <1>3 DEF Refresh, Cancelled
  <2> QED BY <1>0, <1>3, <2>1 DEF Refresh, MatchInv, SchedulerTypes
<1>4. ASSUME NEW t \in Task, Read(t) PROVE MatchInv'
  <2>1. Seen(match) \in Snapshot \cup {None}
    BY SeenType
  <2>2. Calling("arming", Seen(match)) \in TaskState
    BY <2>1 DEF Calling, TaskState
  <2> QED BY <1>0, <1>4, <2>2 DEF Read, MatchInv, SchedulerTypes
<1>5. ASSUME NEW t \in Task, Arm(t) PROVE MatchInv'
  <2> DEFINE s == tasks[t].seen
  <2>1. s \in Snapshot \cup {None}
    BY <1>0, <1>5, TaskCarries DEF Arm
  <2>2. s # None => [due |-> clock + Remaining(s), expected |-> s.active] \in Timer
    BY <1>0, <2>1, RemainingTime DEF Timer, Snapshot
  <2> HIDE DEF s
  <2>3. timers' \in [TimerId -> Timer \cup {None}]
    BY <1>0, <1>5, <2>2 DEF Arm, s
  <2> QED BY <1>0, <1>5, <2>3 DEF Arm, MatchInv, SchedulerTypes
<1>6. ASSUME NEW i \in TimerId, Fire(i) PROVE MatchInv'
  <2>1. timers[i] \in Timer
    BY <1>0, <1>6 DEF Fire
  <2>2. Calling("checking", timers[i].expected) \in TaskState
    BY <2>1 DEF Timer, Calling, TaskState
  <2> QED BY <1>0, <1>6, <2>2 DEF Fire, MatchInv, SchedulerTypes
<1>7. ASSUME NEW t \in Task, Check(t) PROVE MatchInv'
  <2>1. tasks[t].seen \in Player
    BY <1>0, <1>7, TaskCarries DEF Check
  <2>2. Calling("timing out", tasks[t].seen) \in TaskState
    BY <2>1 DEF Calling, TaskState
  <2> QED BY <1>0, <1>7, <2>2 DEF Check, MatchInv, SchedulerTypes
<1>8. ASSUME NEW t \in Task, TimeOut(t) PROVE MatchInv'
  <2>1. tasks[t].seen \in Player
    BY <1>0, <1>8, TaskCarries DEF TimeOut
  <2>2. InOrder(match', clock)
    BY <1>0, <1>8, <2>1, EndingsInOrder DEF TimeOut
  <2> QED BY <1>0, <1>8, <2>2 DEF TimeOut, MatchInv, SchedulerTypes
<1>9. CASE Restart
  <2>1. tasks' \in [Task -> TaskState] /\ timers' \in [TimerId -> Timer \cup {None}]
    BY <1>0, <1>9 DEF Restart
  <2> QED BY <1>0, <1>9, <2>1 DEF Restart, MatchInv, SchedulerTypes
<1>10. CASE Tick
  <2>1. clock + 1 \in Nat /\ clock <= clock + 1
    BY <1>0
  <2>2. InOrder(match, clock + 1)
    BY <1>0, <2>1, LaterInOrder
  <2> QED BY <1>0, <1>10, <2>1, <2>2 DEF Tick, MatchInv, SchedulerTypes
<1>11. CASE UNCHANGED vars
  BY <1>11 DEF vars, MatchInv, SchedulerTypes
<1> QED BY <1>1, <1>2, <1>3, <1>4, <1>5, <1>6, <1>7, <1>8, <1>9, <1>10, <1>11,
           CommandKinds DEF Next

-----------------------------------------------------------------------------
(* The deadline                                                            *)

\* While the match stays as it is, calls and timers that a step leaves alone go
\* on watching it,
LEMMA WatchKept ==
    ASSUME UNCHANGED <<ai, match>>, clock' = clock
    PROVE  /\ \A t \in Task : tasks'[t] = tasks[t] /\ Pending(t) => Watched'
           /\ \A i \in TimerId : timers'[i] = timers[i] /\ Armed(i) => Watched'
<1>1. ASSUME NEW t \in Task, tasks'[t] = tasks[t], Pending(t) PROVE Watched'
  <2>1. Pending(t)'
    BY <1>1 DEF Pending, Seen
  <2> QED BY <2>1 DEF Watched
<1>2. ASSUME NEW i \in TimerId, timers'[i] = timers[i], Armed(i) PROVE Watched'
  <2>1. Armed(i)'
    BY <1>2 DEF Armed
  <2> QED BY <2>1 DEF Watched
<1> QED BY <1>1, <1>2

\* so that only the call or the timer that takes the step is in doubt.
LEMMA CoverKept ==
    ASSUME Covered, UNCHANGED <<ai, match>>,
           match.status = "ACTIVE" => \A t \in Task : Pending(t) => Watched',
           match.status = "ACTIVE" => \A i \in TimerId : Armed(i) => Watched'
    PROVE  Covered'
BY DEF Covered, Watched, FacesBot

\* Every step leaves a deadline armed, or a call that will arm it.
LEMMA CoverStep == SchedulerInv /\ [Next]_vars => Covered'
<1> SUFFICES ASSUME MatchInv, Covered, [Next]_vars PROVE Covered'
  BY DEF SchedulerInv
<1>0. /\ InOrder(match, clock) /\ clock \in Nat
      /\ tasks \in [Task -> TaskState]
      /\ timers \in [TimerId -> Timer \cup {None}]
  BY DEF MatchInv, SchedulerTypes
<1>1. CASE Commanded
  <2>1. FreeTask \in Task /\ tasks'[FreeTask].pc = "refresh"
    BY <1>0, <1>1, FreeSlots DEF Commanded, Calling
  <2> QED BY <2>1 DEF Covered, Watched, Pending
<1>2. CASE BotMoved
  BY <1>2, NoneAssumption DEF BotMoved, Covered, FacesBot
<1>3. ASSUME NEW t \in Task, Refresh(t) PROVE Covered'
  <2>1. tasks'[t].pc = "reading"
    BY <1>0, <1>3 DEF Refresh, Calling
  <2> QED BY <2>1 DEF Covered, Watched, Pending
<1>4. ASSUME NEW t \in Task, Read(t) PROVE Covered'
  <2>1. tasks'[t].pc = "arming" /\ tasks'[t].seen = Seen(match) /\ match' = match
    BY <1>0, <1>4 DEF Read, Calling
  <2>2. Pending(t)'
    BY <2>1 DEF Pending, Seen
  <2> QED BY <2>2 DEF Covered, Watched
<1>5. ASSUME NEW t \in Task, Arm(t) PROVE Covered'
  <2> DEFINE s == tasks[t].seen
  <2>1. /\ UNCHANGED <<ai, match>> /\ clock' = clock /\ tasks[t].pc = "arming"
        /\ \A u \in Task \ {t} : tasks'[u] = tasks[u]
    BY <1>0, <1>5 DEF Arm
  <2>2. \A i \in TimerId : timers[i] # None => timers'[i] = timers[i]
    BY <1>0, <1>5, FreeSlots DEF Arm
  <2>3. ASSUME match.status = "ACTIVE", Pending(t) PROVE \E i \in TimerId : Armed(i)'
    <3>1. s = Seen(match) /\ s \in Snapshot /\ s # None
      BY <2>1, <2>3, SeenType, SchedulerAssumption DEF Pending
    <3>2. /\ s.active = match.active /\ s.turnStartedAt = match.turnStartedAt
          /\ s.cumulative = match.cumulative /\ match.turnStartedAt <= clock
      BY <1>0, <2>3, <3>1 DEF Seen, InOrder
    <3>3. /\ FreeTimer \in TimerId
          /\ timers'[FreeTimer] = [due |-> clock + Remaining(s), expected |-> s.active]
      BY <1>0, <1>5, <3>1, FreeSlots, SchedulerAssumption DEF Arm
    <3>4. timers'[FreeTimer] # None
      <4>1. timers'[FreeTimer] \in Timer
        BY <1>0, <3>1, <3>3, RemainingTime DEF Timer, Snapshot
      <4> QED BY <4>1, SchedulerAssumption
    <3>5. \/ clock + Remaining(s) <= clock
          \/ clock + Remaining(s) <= match.turnStartedAt + Limit - match.cumulative[match.active]
      <4>1. s.turnStartedAt \in Nat /\ ~(s.turnStartedAt > clock)
        BY <1>0, <3>1, <3>2 DEF Snapshot
      <4> QED BY <1>0, <3>1, <3>2, <4>1, RemainingTime
    <3> QED BY <2>1, <3>2, <3>3, <3>4, <3>5 DEF Armed
  <2>4. \A i \in TimerId : Armed(i) => timers'[i] = timers[i]
    BY <2>2 DEF Armed
  <2>5. ASSUME match.status = "ACTIVE" PROVE \A u \in Task : Pending(u) => Watched'
    BY <2>1, <2>3, <2>5, WatchKept DEF Watched
  <2>6. \A i \in TimerId : Armed(i) => Watched'
    BY <2>1, <2>4, WatchKept
  <2> QED BY <2>1, <2>5, <2>6, CoverKept
<1>6. ASSUME NEW i \in TimerId, Fire(i) PROVE Covered'
  <2>0. PICK f \in Task : f = FreeTask /\ tasks[f] = Idle
    BY <1>6, FreeSlots DEF Fire
  <2>1. /\ UNCHANGED <<ai, match>> /\ clock' = clock
        /\ tasks' = [tasks EXCEPT ![f] = Calling("checking", timers[i].expected)]
        /\ \A j \in TimerId \ {i} : timers'[j] = timers[j]
    BY <1>0, <1>6, <2>0 DEF Fire
  <2>2. ~Pending(f)
    BY <2>0 DEF Pending, Idle
  <2>3. \A u \in Task : Pending(u) => tasks'[u] = tasks[u]
    BY <1>0, <2>1, <2>2
  <2>4. Armed(i) => Pending(f)'
    <3>1. tasks'[f].pc = "checking" /\ tasks'[f].seen = timers[i].expected
      BY <1>0, <2>1 DEF Calling
    <3>2. tasks'[f].pc \in {"checking", "timing out"}
      BY <3>1
    <3>3. Armed(i) => tasks'[f].seen = match'.active
      BY <2>1, <3>1 DEF Armed
    <3> QED BY <3>2, <3>3 DEF Pending
  <2>5. \A u \in Task : Pending(u) => Watched'
    BY <2>1, <2>3, WatchKept
  <2>6. \A j \in TimerId : Armed(j) => Watched'
    BY <2>1, <2>4, WatchKept DEF Watched
  <2> QED BY <2>1, <2>5, <2>6, CoverKept
<1>7. ASSUME NEW t \in Task, Check(t) PROVE Covered'
  <2>1. /\ UNCHANGED <<ai, match, timers>> /\ clock' = clock /\ tasks[t].pc = "checking"
        /\ \A u \in Task \ {t} : tasks'[u] = tasks[u]
    BY <1>0, <1>7 DEF Check
  <2>2. ASSUME match.status = "ACTIVE", Pending(t) PROVE Pending(t)'
    <3>1. OwnsTurn(match, tasks[t].seen) /\ tasks[t].seen = match.active
      BY <2>1, <2>2 DEF Pending, OwnsTurn
    <3>2. tasks'[t].pc = "timing out" /\ tasks'[t].seen = match.active
      BY <1>0, <1>7, <3>1 DEF Check, Calling
    <3> QED BY <2>1, <3>2 DEF Pending
  <2>3. ASSUME match.status = "ACTIVE" PROVE \A u \in Task : Pending(u) => Watched'
    BY <2>1, <2>2, <2>3, WatchKept DEF Watched
  <2>4. \A i \in TimerId : Armed(i) => Watched'
    BY <2>1, WatchKept
  <2> QED BY <2>1, <2>3, <2>4, CoverKept
<1>8. ASSUME NEW t \in Task, TimeOut(t) PROVE Covered'
  <2> DEFINE p == tasks[t].seen
  <2>1. /\ UNCHANGED <<ai, timers>> /\ clock' = clock /\ tasks[t].pc = "timing out"
        /\ \A u \in Task \ {t} : tasks'[u] = tasks[u]
    BY <1>0, <1>8 DEF TimeOut
  <2>2. CASE CanTimeout(match, p, clock)
    <3>1. match' = AfterTimeout(match, clock) /\ match \in Match
      BY <1>0, <1>8, <2>2 DEF TimeOut, InOrder
    <3>2. match'.status = "NO_DEAL"
      BY <3>1, EndedFields DEF AfterTimeout
    <3> QED BY <3>2 DEF Covered
  <2>3. CASE ~CanTimeout(match, p, clock)
    <3>1. match' = match
      BY <1>8, <2>3 DEF TimeOut
    <3>2. ASSUME match.status = "ACTIVE", Pending(t) PROVE Pending(t)'
      <4>1. OwnsTurn(match, p)
        BY <2>1, <3>2 DEF Pending, OwnsTurn
      <4>2. tasks'[t].pc = "refresh"
        BY <1>0, <1>8, <2>3, <4>1 DEF TimeOut, Calling
      <4> QED BY <4>2 DEF Pending
    <3>3. ASSUME match.status = "ACTIVE" PROVE \A u \in Task : Pending(u) => Watched'
      BY <2>1, <3>1, <3>2, <3>3, WatchKept DEF Watched
    <3>4. \A i \in TimerId : Armed(i) => Watched'
      BY <2>1, <3>1, WatchKept
    <3> QED BY <2>1, <3>1, <3>3, <3>4, CoverKept
  <2> QED BY <2>2, <2>3
<1>9. CASE Restart
  <2>1. (CHOOSE u \in Task : TRUE) \in Task
    BY SchedulerAssumption
  <2>2. match' = match
    BY <1>9 DEF Restart
  <2>3. match.status = "ACTIVE" => tasks'[CHOOSE u \in Task : TRUE].pc = "refresh"
    BY <1>9, <2>1 DEF Restart, Calling
  <2> QED BY <2>1, <2>2, <2>3 DEF Covered, Watched, Pending
<1>10. CASE Tick
  <2>1. clock' = clock + 1 /\ UNCHANGED <<ai, match, tasks, timers>>
    BY <1>10 DEF Tick
  <2>2. \A u \in Task : Pending(u) => Pending(u)'
    BY <2>1 DEF Pending, Seen
  <2>3. \A i \in TimerId : Armed(i) => Armed(i)'
    <3>1. ASSUME NEW i \in TimerId, Armed(i) PROVE Armed(i)'
      <4>1. timers[i] \in Timer
        BY <1>0, <3>1 DEF Armed
      <4>2. timers[i].due \in Nat
        BY <4>1 DEF Timer
      <4>3. timers[i].due <= clock => timers[i].due <= clock + 1
        BY <1>0, <4>2
      <4> QED BY <2>1, <3>1, <4>3 DEF Armed
    <3> QED BY <3>1
  <2> QED BY <2>1, <2>2, <2>3 DEF Covered, Watched, FacesBot
<1>11. CASE UNCHANGED vars
  BY <1>11 DEF vars, Covered, Watched, FacesBot, Pending, Armed, Seen
<1> QED BY <1>1, <1>2, <1>3, <1>4, <1>5, <1>6, <1>7, <1>8, <1>9, <1>10, <1>11,
           CommandKinds DEF Next

\* Types, order and cover hold in every state.
LEMMA SchedulerHolds == Spec => []SchedulerInv
<1>1. SchedulerInv /\ [Next]_vars => SchedulerInv'
  BY MatchInvStep, CoverStep DEF SchedulerInv
<1> QED BY <1>1, InitScheduler, PTL DEF Spec

-----------------------------------------------------------------------------
(* The theorems                                                            *)

\* For any number of stale, orphaned and early timers, a match times out only
\* for a player who owned the turn and had used the whole limit.
THEOREM NoTimerFabricates == Spec => []TimeoutNeverFabricated
<1>1. SchedulerInv => TimeoutNeverFabricated
  BY SchedulerAssumption DEF SchedulerInv, MatchInv, InOrder, TimeoutNeverFabricated
<1> QED BY <1>1, SchedulerHolds, PTL

\* However refreshes, timers, moves, absences and restarts interleave, when the
\* calls are done the player whose clock runs has a timer for his own deadline,
\* except a human whom a bot handed the turn.
THEOREM DeadlineIsArmed == Spec => []DeadlineArmed
<1>1. SchedulerInv => DeadlineArmed
  <2>1. ASSUME Quiet, NEW t \in Task PROVE ~Pending(t)
    <3>1. tasks[t].pc = "idle"
      BY <2>1 DEF Quiet, Idle
    <3> QED BY <3>1 DEF Pending
  <2> QED BY <2>1 DEF SchedulerInv, Covered, Watched, DeadlineArmed, Armed
<1> QED BY <1>1, SchedulerHolds, PTL
=============================================================================
