# Bounty Bay: a verification project

Bounty Bay is a two-player negotiation game. A buyer and a seller with private
reservation values exchange offers that may only move towards the other, pay
chips for every move, lose decision time while it is their turn, and end in a
deal, a walk-away, a timeout or an abort. The repository is a TypeScript
monorepo: a pure rules engine (`packages/domain`), a Fastify/Socket.IO API
(`apps/api`) over PostgreSQL (`packages/db`), scripted opponents (`packages/ai`),
an analysis of finished matches (`packages/intelligence`) and a web client
(`apps/web`). Paths below are relative to the repository; GR-, GE-, SI- and PDR-
numbers are the rules of `docs/02_GAME_RULES.md`, `docs/03_GAME_ECONOMY.md`,
`docs/10_SECURITY_INTEGRITY.md` and `docs/12_DECISION_LOG.md`.

Contents: [1 the system](#1-the-system) · [2 modules](#2-modules-and-the-code-they-model) ·
[3 runs](#3-what-the-runs-check) · [4 fairness](#4-fairness) ·
[5 proofs](#5-what-is-proved) · [6 disagreements](#6-where-code-and-documents-disagree) ·
[7 not modelled](#7-what-is-not-modelled) · [8 plan](#8-plan)

## 1. The system

### 1.1 Components

| component | state | operations | what makes it correct |
|---|---|---|---|
| Match aggregate `packages/domain/src/match.ts`, `clock.ts`, `economy.ts`, `concession.ts` | one immutable match value: status, turn, turn start, per player ready / away / chips / charged time / opening, latest and standing offer / revealed facts, settlement, reason, economy | `createMatch`, `applyCommand` with READY, OFFER, ACCEPT, WALK_AWAY, MESSAGE, REVEAL, DISCONNECT, RECONNECT, TIMEOUT, ABORT | deals inside both reservation values; offers only concede and are paid for; one clock runs or none; decision time is conserved; nothing commits past the limit; the economy is final |
| Replay `replay.ts` | none | re-applies a stored event stream | stream and snapshot are interchangeable |
| Projection `projection.ts` | none | `viewMatchFor(state, viewer, now)` | hides the opponent's reservation value; agrees with what the server would accept |
| Command service `packages/db/src/command-service.ts` | per match: snapshot row, copied columns, participant, offer, event, result and analysis rows | `execute` under a row lock, `persistCommand`, challenge and rematch transactions | exactly once per command id; all rows tell the same story; an analysis covers its stream |
| Timeout scheduler `apps/api/src/timeout-scheduler.ts` | in memory: match → timer | `refresh`, `fireTimeout`, `bootScan` | the running clock always has a deadline; no timeout is made up |
| AI turn engine `apps/api/src/ai/engine.ts` | in memory: match → think timer | `maybeSchedule`, `playAiTurn`, fallback ladder, `bootScan` | a bot's turn always ends, and ends as its agent decided |
| Realtime layer `apps/api/src/realtime.ts` | in memory: sockets per match and player, pending freezes, heartbeats | `user:register`, `match:join`, disconnect, debounced freeze, broadcast, heartbeat | absence freezes, return resumes, no socket is leaked, a page catches up |
| Match and rematch routes `match-routes.ts`, `rematch-routes.ts`, `app.ts` | none | read, check, call the service, then read again, broadcast, refresh scheduler and engine | each link or proposal is answered once; a live match is offered for resumption |
| AI match route `ai/ai-routes.ts` | none | create the match, then ready the bot | nobody waits for a bot |
| Users `packages/db/src/user-repository.ts`, insights, analytics | rows | sign-in, handles, queries | handles are unique |
| AI personas `packages/ai` | none | view → intent | an intent is legal in its view |
| Negotiation intelligence `packages/intelligence` | none (analysis rows are stored by the service) | features, observations, curation, timeline, progress; profile, coaching | the review agrees with the match it is made of; a history only gains |
| Web client `apps/web` | last pushed view | renders, posts commands with a fresh id | comes to show what the server has |

`PROJECT.json` lists them one by one, with sources and status.

### 1.2 How they interact

    browser ──HTTP──► routes ──► command service ──► domain.applyCommand
       ▲                │              │ one transaction per command, row lock
       │                │              ▼
       │                │        PostgreSQL: snapshot, events, columns, results
       │                ├──► timeout scheduler ──(timer)──► service.timeout
       │                └──► AI engine ──(timer)──► persona ──► service.*
       └──socket── realtime layer ──(debounce)──► service.disconnect / reconnect

* Commands are serialised per match by the row lock, but every caller reads
  `Date.now()` before it waits for the lock.
* The API is one Node process. Handlers interleave at every `await`; scheduler,
  engine and realtime layer keep maps of timers in memory, look at them before an
  `await` and write them after it. A restart empties them; scheduler and engine
  have a boot scan, presence and heartbeats have none.
* The routes call `refresh` and `maybeSchedule` without waiting for them. The
  engine's own commits call `maybeSchedule` but not `refresh`.
* After a commit the handler reads the snapshot a second time and pushes a view
  of it to each player's room; the page shows whatever arrives last.
* Clients repeat a command under the same id when the reply is lost.

### 1.3 What is hard

Thirty-nine places are listed under `hazards` in `PROJECT.json`, each at its line with
the properties that watch it. They fall into seven groups:

1. bookkeeping of decision time by hand over handovers, pauses, returns and
   endings (`match.ts`), and working it out again from the stream (`features.ts`);
2. reading state, awaiting, and acting on it: timers, presence, the fallback
   ladder, route checks before transactions;
3. in-memory timers that are orphaned, stale, early, late, or lost in a restart;
4. one command written to half a dozen tables, resent after a lost reply,
   committed with a stale clock;
5. two transactions for one request, the second of which may never run;
6. snapshots pushed in another order than they were committed;
7. liveness that rests on a timer being armed by somebody: timeouts, bot turns
   and pictures must follow though nobody looks at the match.

## 2. Modules and the code they model

| module | models | variables ↔ code |
|---|---|---|
| `MatchDomain` | `match.ts`, `clock.ts`, `economy.ts`: for each command its guard `Can…`, state `After…` and events `…Events` as operators on a match value | the record `CreatedMatch` ↔ `MatchState`; a player is named by its role |
| `Bargain` | abstract specification: bids that only improve inside one's own value, one irrevocable outcome | `rv`, `bid`, `outcome` |
| `MatchMachine` | one match driven by every command under a clock that moves forward | `match` ↔ the state passed to `applyCommand`; `now` ↔ its `serverNow`; `frozen` is a history of time PAUSED |
| `MatchView` | `viewMatchFor` as an operator on state, viewer and time | none |
| `MatchSecrecy` | two matches that differ in one reservation value, under the same commands: views, refusals and the events `realtime.ts:187` broadcasts | `worlds` ↔ the two match values; `viewer` ↔ the player who must not be able to tell them apart; `time` ↔ `serverNow` |
| `MatchCommands` | `applyCommand` as a dispatcher on command records, `commandForEvent`, `replayMatch` | none |
| `CommandService` | `execute` and `persistCommand` on one match | `db` ↔ all rows of the match; `clock` ↔ `Date.now()`; `created` for the replay |
| `TimeoutScheduler` | scheduler beside the commands that do or do not call it | `timers` ↔ armed `setTimeout`s; `mapped` ↔ `this.timers.get(id)`; `tasks` ↔ async calls, one program counter per segment between awaits |
| `AiMatch` | the intents of `types.ts` and `commitMove`: what a bot and a human may decide, and where it leads; the clock and the timeout | `match` ↔ `MatchState`, `now` ↔ `Date.now()`, shared by the next two |
| `AiTurn` | engine, split at its awaits, any of which may throw, against a human whose requests overlap it | `timers`, `mapped`, `tasks` likewise, a task carrying the decision and the `now` it was made at; `twins` and `lost` are history |
| `Personas` | `decide()` and the registry's five strategies, against a human and the clock (`GameSpec`) | `bot` ↔ the bot's role; `persona` ↔ the key of the row |
| `Presence` | `match:join`, disconnect and the debounced freeze | `presence`, `pendingFreeze` ↔ the maps of that name; `join` ↔ how far each handler is; `smooth` is history |
| `Rooms` | broadcast, heartbeat and the page: `realtime.ts` from line 182, `match-routes.ts` from 166, `match-screen.tsx` | `call` ↔ a handler between commit and broadcast; `heartbeat`, `beat` ↔ the interval and the tick's read; `page`, `answer`, `screen` ↔ the page; `newest`, `last`, `reached` are history |
| `MatchLifecycle` | challenges, rematches and AI matches: each route's read, then the service's transactions | `rows` ↔ table `matches` with its participants; `calls` ↔ requests in between; `resolved`, `orphaned` are history |
| `GameReview` | `features.ts`, `observations.ts`, `curate.ts`, `timeline.ts` as operators on a match and its events, over every match that can be played | `match` ↔ `MatchState`; `events` ↔ the stored stream, the index being the sequence number |
| `Progress` | `post-match-progress.ts`: records and streaks when the match of `GameReview` is added to a history | none of its own |
| `MatchDomainProofs` | lemmas about the operators of `MatchDomain` and `MatchCommands`: types, what each command leaves alone, histories that only grow, replay | |
| `MatchMachineProofs`, `ServiceProofs`, `SchedulerProofs`, `AiTurnProofs`, `RoomsProofs`, `PresenceProofs`, `LifecycleProofs` | theorems about `MatchMachine` and `MatchView`, `CommandService` with `GameReview` and `Progress`, `TimeoutScheduler`, `AiTurn` and `Personas`, `Rooms` and `MatchSecrecy`, `Presence`, `MatchLifecycle` | |
| `MC*` | small instances for TLC | |

How they compose: `MatchMachine`, `CommandService`, `TimeoutScheduler`, `AiTurn`,
`Personas`, `Presence`, `Rooms`, `MatchSecrecy` and `GameReview` all call the operators of
`MatchDomain`, so there is one definition of each rule and every surrounding component is checked against the
full behaviour of the command it sends. `MatchMachine` and `CommandService` each
refine `Bargain`; the second one does so from the durable columns, not from the
snapshot.

Conventions:

* One action is one command, or one stretch of code between two awaits, with
  everything that stretch writes. A refused command is a false guard; an accepted
  command without effect (a second DISCONNECT, an ABORT after the end) is a true
  guard and an unchanged state, because the service still persists it.
* Amounts are tenths from 1 to `MaxAmount`. The price of a concession is
  `ceil(k·|ln(b/a)|^α)` in the code; here it is the constant table `Cost`, of
  which the specification assumes only what the rules engine guarantees: a real
  move costs at least one chip. TLC gets the code's own values for 0.1 to 0.4, and
  for 0.1 to 1.6 in `Personas`.
* A persona's ratios are percentages, its pace and the magnitude of a move
  thousandths; `Math.round` and the halving of the pace are computed exactly on
  them. Every roll of its dice is a choice.
* A magnitude `|ln(b/a)|` of the review is the pair of its larger and smaller
  amount; two magnitudes are compared by cross-multiplication.
* A snapshot in `Rooms` is the number of its last event and its status: the two
  things that decide which of two pictures is newer and whether a heartbeat runs.
* Rewards are products of fractions. They are kept as integers over the common
  denominator `Zopa · 100 · ClockFloor`; the floating-point rounding of the
  result is left out.
* Operators whose comment begins with "Bug:" are deliberately wrong variants that
  the mutation runs put in place of the definition after them. No specification
  uses them.

## 3. What the runs check

Bounds are set so that the interesting cases happen; each passing run fires every
action of its specification, and for every property a seeded bug is found in the
same instance.

| run | question | instance, and why it is enough |
|---|---|---|
| `match_machine` | Do all interleavings of the ten commands keep the rules of the game, refine the bargain, and tell a player honestly whether a move is in time? | Amounts 1–4 allow a second and a third concession in both directions; a budget of 11 lets some second moves through and refuses others; reservation pairs (3,1) and (2,2) are a positive and a zero bargaining range; limit 2 within time 3 lets a player reach, hit and miss it; `MaxSeq` 7 bounds chat and presence commands (moves are bounded by the rules themselves). About 819 000 states. |
| `command_service` | Do retries, stale clock readings and crashes leave the rows consistent and replayable? | Readings one tick old in either order, six events, all ten kinds, both ways a match is created. A resend may follow any number of other commands. About 952 000 states. |
| `timeout_scheduler` | Does the player whose clock runs always have a deadline, and does it strike? | Two calls in progress, two armed timers (a third arm waits), two requests, an early timer, one restart, humans and a bot. Two of each is what the race needs: one refresh overtaking another, one orphan beside the mapped timer. |
| `secrecy` | Can a player tell from views, refusals or broadcast events which reservation value the opponent has? | Two worlds with different values played side by side; hands (3,1), (3,2) and (2,2) pair a wide, a narrow and an empty bargaining range; amounts 1–3, one chip each, limit 2 within time 2, one fact per player; chat and presence up to five events. Either player may be the one who wonders. About 174 000 states. |
| `ai_turn` | Does a bot's turn always end, and only as its agent decided, though calls overlap or throw, the human leaves the match, time runs out and the process restarts? | Two requests of the human, two calls, two think timers, one call that throws or one restart; a limit of one unit, which is reached between any two steps of the engine. About 730 000 states. |
| `personas` | Is every intent of every persona legal until its decision time is used up, and does an agent give up only when it has to? | Each of the five personas in each role, first or second to move, against every legal reply. Amounts 1–16 make gaps in which the fastest pace must be halved; a tenth of the default chips makes the first concession of a fast persona too dear and budgets run out; the pairs (14,3) and (9,7) are a wide and a narrow bargaining range, and offers can cross; limit 2 within time 3 is reached, hit and missed. About 182 000 states. |
| `presence` | Do joins, drops and freezes of one player end right, over a restart? | Three sockets: the dropped one, the returning one, and one more that overlaps both. The opponent moves over HTTP. One restart. About 246 000 states. |
| `match_lifecycle` | Are challenges and proposals answered once, between the right people, and is nobody left waiting for a bot? | Three users (two players and an outsider) and a bot, two requests between read and transaction, three rows (a match, its rematch, a second proposal or a rematch of the rematch). Users and request slots are symmetric; there is no liveness in this run. About 939 000 states. |
| `game_review` | Does the review agree with the match it is made of, and does a match only add to a history? | Amounts 1–3 allow an opening and two concessions of a player, equal and unequal magnitudes, and a crossing; nine events (six commands after the start), times 0–3 and gaps of up to one unit put every threshold on both sides; a match has up to two reveals, or one message, or one absence: they are not mixed, to keep the streams enumerable. The histories have a tie in time, an aborted match, a broken streak, and a match later than the new one. About 76 500 states. |
| `rooms` | Does a page come to show the match, and does the heartbeat follow its status? | Two overlapping handlers, a heartbeat tick in progress beside them, one page that opens, asks, loses its socket and is loaded again, one restart; five events are a start, a pause, a return, a move and an end. |

The two runs named in section 6 each check one statement that a document or a
comment makes and the code does not keep.

What the properties say:

* **Game** (`match_machine`). `DealInsideBothReservations` (a deal settles at the
  standing offer of the player who did not accept, inside both values, at the
  moment it is struck), `ChipsWithinBudget`,
  `OneClock`, `ClockAccounting` (charged + running + frozen = age of the match),
  `TimeoutAttribution`, `NothingCommitsPastLimit`, `TurnPassesByMoveOnly`,
  `AbsenceStopsClock` (an absent player's clock begins to run in two ways only),
  `RewardsWithinBounty`, `EconomyIsFinal`, `ImplementsBargain`, and
  `ViewPredictsServer` (own turn with time left exactly when the server would
  commit).
* **Secrecy** (`secrecy`). `ViewsAlike` compares whole views of two matches that
  were played alike, so any field that has come to depend on the opponent's value
  breaks it, however it got there; `AnswersAlike` says the same of what the server
  refuses and of the events it broadcasts. The opponent's offers and acceptances
  are those its value allows in both matches: what it plays may of course hint at
  its value. The end, after which values are shown, comes in both at once.
* **Service.** `ReplayReproducesSnapshot`, `ExactlyOnce`, `RowsMirrorSnapshot`
  (columns, participants, offers, result and analysis), `TimedOutPlayerKept`
  (section 6), `ChargesOnlyGrow`. `MatchMachine` reads the
  clock in commit order; `CommandService` is where readings come out of order, and
  what it checks of time is what survives that: charges never shrink and the
  replay agrees. Exact conservation does not survive it: two players' charges may
  overlap by the wait.
* **Scheduler.** `TimeoutNeverFabricated`, `DeadlineArmed`, `DeadlineEnforced`,
  for two humans and for the bot's own turns. The human's turns opposite a bot
  are excluded and are the subject of run `ai_deadline`.
* **Engine.** `BotTurnEnds`, unless the decision time of the turn is used up,
  which is the scheduler's business, or the call that played it threw
  (`ai/engine.ts:100` leaves that turn to the next request or restart);
  `LeavesOnlyByDecision`: a match left on the bot's turn was left by a call that
  carries its agent's decision, with one exception it names (section 6). The human
  may walk away, on turn; the guard of WALK_AWAY keeps that off the bot's turn.
  The agent may decide anything that was legal when its turn began.
* **Personas.** `IntentsAreLegal` (refused exactly when the decision time is used
  up) is what the engine relies on: the decisions
  `AiTurn` chooses from include every persona's. `RetreatsOnlyWhenStuck` compares the
  procedure's "no move" with the domain's guard over all amounts, with two
  exceptions it names (section 6).
* **Presence.** `NoGhostPresence` without conditions; `PresenceMirrored` (marked
  away exactly when no socket is left) and `ReturnResumes`, unless a
  drop or freeze of a player overlaps a join of the same player: then they hold
  again from the player's next join that begins when all has settled (history
  `smooth`). What the overlaps do is in section 6.
* **Rooms.** `HeartbeatFollowsMatch`, `ScreensCatchUp`, unless an older snapshot
  was broadcast last (`Overtaken`, `Stuck`, section 6).
* **Lifecycle.** `OneOpenProposal`, `SamePlayersSameRoles`, `ResolvedOnce`,
  `BotGetsReady`.
* **Review.** `DecisionTimesAddUp`: the decision times rebuilt from the stream sum
  to the clock the domain charged, with two exceptions (`Orderly`, section 6).
  `UnreciprocatedMeansHeld`, `ForegoneWasAcceptable` (told of a standing offer
  exactly when ACCEPT would have been taken), `LargestConcessionNamed`,
  `ProgressOnlyAdds`.

Two more, `RowsImplementBargain` and `MomentsPointAtTimeline`, are proved (section
5) and have no run: `ImplementsBargain` and `LargestConcessionNamed` explore the
same commands and reports.

## 4. Fairness

Safety specifications have none. `TimeoutScheduler`, `AiTurn`, `Presence` and
`Rooms` have weak fairness of exactly what the event loop, the database and the
wall clock guarantee: an asynchronous call in progress takes its next step, a due
timer fires, an interval ticks, an answer under way arrives, time passes. Nothing
is assumed of people: nobody has to move, look, return or load a page, and a
restart need not happen. Weak fairness suffices
because no other action disables a call in progress or a due timer for good: a
restart removes it and a throwing call gives up, but both are bounded, and a cancelled timer is cancelled
by a call that is itself fair. A heartbeat that is stopped and started again
without end would need infinitely many broadcasts, and commits are bounded.

## 5. What is proved

Every theorem holds for every value of the constants that the named assumptions
admit; the bounds (`MaxTime`, `MaxSeq`, `MaxEvents`, `MaxRestarts`, `MaxStream`, `LastTime`, ...) are arbitrary
naturals, so they restrict nothing.

| assumptions | where | what they say |
|---|---|---|
| `ConfigAssumption`, `NoneAssumption` | all | any amounts, budget, limit or none, fact lists, and **any** price table in which a move between different amounts costs at least one chip |
| `BoundsAssumption` | match | the bounds are naturals |
| `ServiceAssumption` | service | the pairs a match is created with are amounts; the kinds are those of the code |
| `SchedulerAssumption` | scheduler | there is a limit and a slot for a call; the match is one that `createMatch` makes; `None` is no snapshot and no timer |
| `AiAssumption`, `TimeAssumption` | engine | the bot is a player, the match is one that `createMatch` makes, with any decision-time limit or none; the time bound is a natural |
| `SecrecyAssumption`, `WarningsAssumption` | secrecy | modes and pairs of reservation values are those of the types; the bounds are naturals; the warning thresholds are positive |
| `RoomsAssumption`, `PresenceAssumption` | rooms, presence | the match is one that `createMatch` makes; every socket has one owner |
| `LifecycleAssumption` | lifecycle | no user is a bot; `None` is no id and no user |
| `PersonasAssumption` | personas | the table of magnitudes holds naturals, the pairs are amounts |
| `ReviewAssumption` | review | bounds and thresholds are naturals; the pairs are amounts, the buyer's above the seller's, as the role assignment draws them |
| `ProgressAssumption` | progress | a history holds each match once and never the new one, as `buildPostMatchProgress` demands; its numbers are any integers |
| `CostGrows` | `PersonasRetreatLast` only | going further in one direction is no cheaper: `concession.ts` rounds up an increasing function of the distance |

### The match

| theorem | property | argument |
|---|---|---|
| `TypeCorrect` | `TypeOK` | inductive by itself; one typing lemma for each operator that builds a match |
| `ClockIsOne` | `OneClock` | inductive over `TypeOK`: a reconnect needs to know that a PAUSED match waits for an absent player |
| `DealsAreInside` | `DealInsideBothReservations` | strengthened by `BidsAffordable` (whoever owns a standing bid can afford it): the guard of ACCEPT looks at one reservation value only, the other one was looked at when the offer was made |
| `MatchImplementsBargain` | `ImplementsBargain` | `StepKinds` sorts every step into one that goes on, concedes, strikes or breaks; each is a step or a stutter of `Bargain` |
| `BudgetHolds` | `ChipsWithinBudget` | strengthened by `Paid`: who has left the opening offer has moved *towards* the opponent (so never back onto it) and has paid at least one chip |
| `ConcessionsAreMonotone` | `OffersOnlyConcede` | from the same classification and `Paid` |
| `NoTimeIsLost` | `ClockAccounting` | `ClockKinds` sorts steps by what they do to the clocks; `Booked` adds that before the start nothing is charged and that a running turn started in the past |
| `TimeoutIsEarned` | `TimeoutAttribution` | strengthened by `OthersInTime`: only the player on turn can be past the limit, because a move past it is refused |
| `NothingPastLimit` | `NothingCommitsPastLimit` | being at the limit is what the guard at the head of `applyCommand` tests (`PastLimitIsExhausted`), given `OneClock` |
| `TurnsAreMoved` | `TurnPassesByMoveOnly` | from `ClockKinds` and `OneClock` |
| `AbsenceFreezes` | `AbsenceStopsClock` | command by command (`AbsenceStep`), from `OneClock`: a disconnection of the player on turn and an offer to somebody away end in PAUSED, and a return resumes only the turn of whoever returned |
| `EconomyStays` | `EconomyIsFinal` | `PayKinds` sorts every step into one that changes nothing, goes on unpaid, or ends the match and pays; `Books` adds that a match has no economy before its end |
| `RewardsAreBounded` | `RewardsWithinBounty` | `Books` and `DealInsideBothReservations` make the two shares naturals that sum to the bargaining range; a multiplier is a fraction of its unit |
| `ViewsAreHonest` | `ViewPredictsServer` | on the player's own turn the time shown is zero exactly when the guard at the head of `applyCommand` refuses |

`StepKinds` and `ClockKinds` are each one case per command, resting on one lemma per
command about the fields it leaves (`OfferClock`, `DisconnectFields`, ...).

### The service

| theorem | property | argument |
|---|---|---|
| `CommandsTakeEffectOnce` | `ExactlyOnce` | `Recorded`: the stream is numbered from one without gaps, is as long as the snapshot says, and each client id stands in it once |
| `RowsAgree` | `RowsMirrorSnapshot` | `Mirrors`: the columns, and what offer rows, absences, result and analysis have to say, are functions of the snapshot; the newest offer row of a player is found by its number |
| `StreamRebuildsSnapshot` | `ReplayReproducesSnapshot` | `Replayed`, below |
| `ChargesAreKept` | `ChargesOnlyGrow` | an elapsed time is cut off at zero, so a stale reading charges nothing |
| `TimeoutIsKept` | `TimedOutPlayerKept` | `Endings`: what a commit tells decides what it writes to the column |
| `RowsAreABargain` | `RowsImplementBargain` | `Mirrors` turns every transaction into what it does to the snapshot, and that into a step of `Bargain` |

The inductive invariant is `ServiceInv`. Its part `Replayed` says that *some* chain of
replay states leads from the created match over the stored events to the stored
match, refusing nothing and telling the same events. A transaction appends
its events to that chain. The first of them tells the command in full, with the reading
of the clock it used (`CommandRetold`), so replaying it does what the command did
(`FirstReplayed`), whatever the order of the readings; the others are derived from the
first, and replay skips them (`LaterReplayed`). `replayMatch` itself is a recursive
function on the length of the stream; that its value is the end of that chain
(`ChainUnique`) needs an induction, which is had from the least index at which the
two would differ (`LeastMember`).

### Timers, sockets and agents

| theorem | property | argument |
|---|---|---|
| `NoTimerFabricates` | `TimeoutNeverFabricated` | `InOrder` (turn starts in the past, charged times within the limit) and the check under the row lock; what timers and calls carry does not matter |
| `DeadlineIsArmed` | `DeadlineArmed` | `Covered`: for the running turn there is a timer due in time or a call that will arm one: one that is to read, has read what is still true, or checks the player still on turn. A call that replaces a timer has itself read the turn that runs |
| `BotsStay` | `LeavesOnlyByDecision` | `Undisturbed`: as long as no turn was played twice, a call that talks or moves does so alone, on the bot's turn, with a decision that was legal when the turn began, and one that is on the ladder has run out of time (`OnCourse`), so the last rung is refused too |
| `PersonasPlayLegally` | `IntentsAreLegal` | what a concession is computed from is rounded, but the maximum with one tenth and the minimum with the own value make it a step towards the opponent inside that value; thresholds are at most (buyer) or at least (seller) one; the limit is then the only guard left |
| `PersonasRetreatLast` | `RetreatsOnlyWhenStuck` | halving the pace ends, within the bound, at a share of the gap below a tenth, whose step is one tenth; if that one is too dear, so by `CostGrows` is every other offer |
| `HeartbeatFollows` | `HeartbeatFollowsMatch` | `AllSeen` (a snapshot with the match's number has its status) and `OnItsWay` (the latest event was broadcast or a handler is still to bring it) |
| `NothingIsShown` | `ViewsAlike` | `SecrecyInv`: until they end the two matches are `Alike`, equal in every field but the opponent's value, because a command taken in both keeps them so or ends both (`AppliedAlike`); each field of a view is a function of what they share |
| `NothingIsTold` | `AnswersAlike` | from the same invariant: guards (`AcceptedAlike`) and events (`EmittedAlike`) of alike matches agree command by command |
| `NoGhosts` | `NoGhostPresence` | strengthened by `CountedByOwner`: a player's set holds only sockets of that player, so the drop that removes a socket looks in the right set |
| `AbsenceIsMirrored` | `PresenceMirrored` | `Apart`, for each player whose history is smooth: a joining socket is counted; there is one armed freeze, in the map, and no settled socket beside it; a freeze that has fired finds nobody; a player who left is marked or about to be; one whose join is through is not, unless another join is under way. A join that begins when all has settled establishes it anew |

`PersonasRetreatLast` reasons about powers of two. They are counted, not computed: `2^k` is the
number of subsets of `1..k` (`PowersOfTwo`, `PowersGrow`).

### Challenges and rematches

| theorem | property | argument |
|---|---|---|
| `AnsweredOnce` | `ResolvedOnce` | strengthened by `Unanswered`: a row that is open has not been answered |
| `OneProposal` | `OneOpenProposal` | strengthened to rows: two open proposals of one source are the same row |
| `RematchKeepsSides` | `SamePlayersSameRoles` | a request remembers who sat where; seats of a full row never change |
| `BotsGetReady` | `BotGetsReady` | a bot's request goes on, is lost, or has readied the bot, and readiness is not taken back |

They share one argument: `Typed` gives rows
and requests their shape; `RowsMove` says a row only ever evolves (it is not
reopened, its source, opponent and taken seats stay); therefore `Sound`, what a
request has read still holds of its row when the transaction runs, as far as the
transaction relies on it. On top of that each theorem needs one step lemma.

### The review

| theorem | property | argument |
|---|---|---|
| `ForegoneIsWhatAcceptWins` | `ForegoneWasAcceptable` | `BidsKept`: a player's standing bid is the last offer of that player in the stream |
| `UnreciprocatedIsAnsweredByFact` | `UnreciprocatedMeansHeld` | `TurnsAlternate` (between two offers of one player stands a turn of the other) and `FoldWalk`: the longest run counted has a position at which it was counted |
| `LargestConcessionIsLargest` | `LargestConcessionNamed` | `BidsConcede` (a later offer of a player goes further), and the fold over the moves keeps one that no earlier move beats |
| `ReviewPointsAtTimeline` | `MomentsPointAtTimeline` | `EndsOnce` and, observation by observation, that what is referred to is a position of the stream with a type of the timeline; curation only selects |
| `MatchOnlyAdds` | `ProgressOnlyAdds` | sorting by insertion puts the new match somewhere and leaves the others as they were (`Inserted`); the fold that keeps a record is never made worse by one more match (`Improved`); a streak looks at the newest matches only |
| `DecisionTimesAreClocks` | `DecisionTimesAddUp` | `ClocksKept`, below |

The inductive invariant is `PlayInv`: the match with its stream satisfies `StreamInv`
(the parts named above, the types, times in order, and how a stream opens and ends).
The operators of the review are folds over the stream, each with its own accumulator.
Instead of an induction principle, which the provers cannot apply, every fold has
its run: the sequence of its accumulators (`SpansRun`, `PausedRun`,
`MovesRun`, `SortRuns`, `RecordRuns`, ...) whose last member is the value; a fact about each step then holds at every
position, because there is no least position at which it fails (`LeastMember`,
`Climb`). `Filter` is such a fold too: the proof system knows nothing of
`SelectSeq`. `ProgressOnlyAdds` holds for every history the assumption admits.

`DecisionTimesAreClocks` needs a second invariant, `ClockInv`, because the review and
the domain keep time differently: the domain charges a turn piece by piece, at every
handover and every disconnection, while the review waits for the offer and takes off the
absences that overlap the turn. Between them stands a *tally* (`TallyRead`): when the
turn was granted, since when the player is away, the absences of this turn that are over,
the turns before. On one side the tally is the review (`TallyIsReview`): event by event
`Linked` ties it to the reading of the moves and to the list of absences, and where a
running absence is closed does not matter to a turn that ends before (`MissedStays`). On
the other side the tally is the clock (`Clocked`): while the match goes on, the charged
time of a player equals the tally, but for the part of a turn that is running. Every
command keeps that (`CommandIsTallied`), except a reveal, which hands the turn over
without an offer: hence the condition of the property. The act that ends the match is
then charged as the review reads it (`FinalIsThought`), provided the offers came strictly
before it, the property's other condition.

### Only model-checked

* All liveness (`DeadlineEnforced`, `BotTurnEnds`, `ReturnResumes`, `ScreensCatchUp`):
  the proof system handles neither fairness nor ENABLED.

## 6. Where code and documents disagree

Two runs end in a counterexample; the quoted lines are in `PROJECT.json`.

| run | what the code does |
|---|---|
| `ai_deadline` | The bot's own moves never call `refresh`, so nothing times out a human opposite a bot who does not look at the match again (`ai/engine.ts:159`). |
| `rematch_resume` | An accepted rematch keeps the column the active-match query filters on (`app.ts:238`). |

Stated by a passing property as its exact exception:

* `TimedOutPlayerKept`: `persistCommand` derives `timeoutPlayerId` from the events of
  each commit, so a presence command after a timeout, which commits without
  events, erases it (`command-service.ts:693`). Nothing else does.
* `AbsenceStopsClock`: a reveal hands the turn to an absent player with the clock
  running (`match.ts:422`), and so does the start of the match (`:223`), where the
  comment at `:296` says "A disconnected player must never accumulate decision
  time". An offer, a disconnection and a return keep to it.
* `PresenceMirrored`, `ReturnResumes`: a socket that drops in the middle of its own
  join arms a freeze, which the join's continuation cancels (`realtime.ts:130`): the
  player is gone and not marked away, though the comment at `:110` says such a
  disconnect "can never miss the socket". And a freeze that has fired may commit its
  DISCONNECT after the RECONNECT of the join that came in between (`:138`, `:162`),
  as may a pending freeze that a second drop has overwritten (`:174`): the returned
  player stays marked away, and the match paused if on turn, where the comment at
  `:12-13` says reconnection cancels the pending freeze. Either lasts until the
  player's next join.
* `LeavesOnlyByDecision`: two overlapping `maybeSchedule` calls play a turn twice;
  the refused twin walks down the fallback ladder and may leave a healthy match
  (`ai/engine.ts:249`).
* `BotGetsReady`: when the request that creates an AI match is lost between its two
  transactions (`ai/ai-routes.ts:64`, `:82`), nothing readies the bot later; the
  boot scans look at ACTIVE matches.
* `PresenceMirrored`: a player who was connected at a restart and does not return is
  never marked away (`realtime.ts:45`); its turn is ended by the timeout, if there
  is one.
* `ScreensCatchUp`: two handlers may broadcast in the other order than they
  committed (`match-routes.ts:179`), and an HTTP answer may overtake a push
  (`match-screen.tsx:132`). The heartbeat repairs that in an ACTIVE match. After
  the end, or when an old PAUSED snapshot has stopped the heartbeat
  (`realtime.ts:202`), the page keeps the old picture.
* `ScreensCatchUp` again: the page emits `user:register` once, when it loads
  (`match-screen.tsx:110`), so after its socket has reconnected by itself it is in
  no room and hears nothing until it is reloaded; `docs/06_ARCHITECTURE.md:151-156`
  has a client rejoin its rooms and fetch the snapshot on reconnect.
* `HeartbeatFollowsMatch`: after a restart there is no heartbeat before the next
  broadcast.
* `DecisionTimesAddUp`: the review grants turns on OFFER_SUBMITTED only
  (`features.ts:140`), so after a reveal a player's decision time is measured from
  the wrong moment; and the last decision is told from the others by
  `event.at >= terminal.at` (`features.ts:163`), so an ending at the same time as
  the offer it answers is measured from the turn before. `Orderly` excludes both.

Seen while modelling, without a run of their own:

* The review counts a foregone offer for both players of a walk-away or timeout
  (`features.ts:257`); `docs/19_BEHAVIOR_FEATURE_DEFINITIONS.md:92` gives it to the player who walked or timed out.
* An unreciprocated concession arises in no other way than through a reveal of
  the opponent (`UnreciprocatedMeansHeld`), because turns alternate otherwise.
* `GET /v1/matches/:id/progress` passes every other completed match of the player,
  later ones too, where `post-match-progress.ts:58` says "Prior".
* `POST /v1/matches/ai` asks for a `commandId` and never uses it, so a repeated
  request creates a second match (`ai/ai-routes.ts:33`).

* `createMatch` admits a friend match between equal reservation values and its
  comment says no settlement is then legal (`match.ts:56`); a deal at that value
  is, and its surplus shares are 0/0. `RewardsWithinBounty` excludes exactly this
  case. The assignment of reservation values never draws it.
* A turn played twice also talks twice (`ai/engine.ts:66`): each twin commits its
  chat line before its move.
* A bot that has opened as a buyer and is answered by a reveal instead of an offer
  walks away at once: `concessionAmount` reads the human's latest offer, which is
  null, as zero, and a negative gap counts as crossed (`personas.ts:65`). A seller
  in that place concedes towards zero. `RetreatsOnlyWhenStuck` excludes the case.
* A persona whose offers have crossed the human's but that does not like the price
  enough to accept walks away although it has legal offers left, and although the
  human's price is better than its own bid (`personas.ts:66`).
* A match PAUSED for a player who never returns stays PAUSED: no clock runs, so no
  timeout comes, and no route sends ABORT (open question OQ-009 of
  `docs/14_OPEN_QUESTIONS.md`).

## 7. What is not modelled

* **Logarithms and floating point**: the price formula and the rounding of
  rewards (section 2).
* **Random draws**: roles and reservation values; the instances use pairs inside
  the drawn range.
* **Handles and first sign-in** (`user-repository.ts`): two check-then-write races
  on rows of their own, listed as a hazard and planned, section 8.
* **The reported figures of a review** that no decision depends on (surplus shares,
  ratios, confidence), **profile bands** and their weekly windows, and the
  **coaching state**, which no route persists: functions of averages with
  thresholds, which unit tests reach.
* The bot's **table talk**: which line it says; that it talks, and twice when a
  turn is played twice, is part of `AiTurn`.
* **Generated code**: the Prisma client under `packages/db/src/generated`, more than
  half of the implementation's lines.
* **Text and content**: dossiers, chat bodies beyond "blank or not", seeds, drill
  and knowledge content, DTO formatting, rate limits, token verification.
* **Snapshot codec**: the model stores the state itself; a codec that loses a
  field would not be seen.
* **The database** beyond what the code relies on: serialised transactions on one
  row, unique constraints, rollback on failure.
* **Web client** beyond the snapshot it shows: rendering, and forms that post
  commands.

## 8. Plan

Done: the rules engine and its views, the abstract bargain, the service, the
scheduler, the engine, the personas, presence over a restart, broadcast and
heartbeat, challenges, rematches and AI matches, the review and the progress;
and a theorem for every safety property of the passing runs.

Next, in this order:

1. `UserHandles` (`user-repository.ts`): first sign-in and handle changes as check
   and write, with the unique indexes the schema declares; the property is that
   no two users hold handles that differ in case only.
2. `profile.ts` and `coaching-state.ts` over the histories of `Progress`, once a
   route stores the coaching state.
