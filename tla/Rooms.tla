------------------------------- MODULE Rooms -------------------------------
(***************************************************************************)
(* How a committed match reaches a player's screen: the broadcast and the  *)
(* heartbeat of apps/api/src/realtime.ts, the handlers that commit, read   *)
(* the snapshot again and broadcast it (match-routes.ts, timeout-          *)
(* scheduler.ts, ai/engine.ts), and the page that shows what arrives last  *)
(* (apps/web/src/app/play/match-screen.tsx).                               *)
(*                                                                         *)
(* A snapshot, and a role-scoped view of one, is kept as the number of its *)
(* last event and its status.  A push on an open socket is delivered at    *)
(* once and in order; reads of the database and HTTP answers take their    *)
(* time.  The match's own clocks stand still: a TIMEOUT would only be one  *)
(* more way to end it.                                                     *)
(***************************************************************************)
EXTENDS MatchCommands

CONSTANTS
    Call,        \* slots for the handlers in progress
    Watcher,     \* the players whose pages are modelled
    Created,     \* the match as it was created
    MaxSeq,      \* bound on the events after which nobody moves
    MaxRestarts  \* bound on restarts

ASSUME RoomsAssumption ==
    /\ \E mode \in Mode, rv \in [Player -> Amount], first \in Player :
         Created = CreatedMatch(mode, rv, first)
    /\ MaxSeq \in Nat
    /\ MaxRestarts \in Nat

VARIABLES
    match,
    call,       \* what each handler waits for: its snapshot, or its turn to broadcast
    heartbeat,  \* the map holds an interval for the match
    beat,       \* the snapshot a tick of the heartbeat has read
    page,       \* how far the page of each player is
    answer,     \* the snapshot in the HTTP answer the page waits for
    screen,     \* what the page shows
    restarts,
    newest,     \* history: the newest event this process has broadcast
    last,       \* history: the snapshot of its last broadcast
    reached     \* history: the newest event that ever reached the open page

vars == <<match, call, heartbeat, beat, page, answer, screen, restarts, newest, last, reached>>

Snapshot(m) == [seq |-> m.seq, status |-> m.status]

Nothing == [seq |-> 0, status |-> "CREATED"]

Idle == [stage |-> "idle", snapshot |-> Nothing]

Init ==
    /\ match = Started([Created EXCEPT !.ready = [p \in Player |-> TRUE]], 0)
    /\ call = [h \in Call |-> Idle]
    /\ heartbeat = TRUE
    /\ beat = Nothing
    /\ page = [p \in Watcher |-> "closed"]
    /\ answer = [p \in Watcher |-> Nothing]
    /\ screen = [p \in Watcher |-> Nothing]
    /\ restarts = 0
    /\ newest = match.seq
    /\ last = Snapshot(match)
    /\ reached = [p \in Watcher |-> 0]

-----------------------------------------------------------------------------
(* Pushes                                                                  *)

\* Sockets are in the room user:{id} from user:register on.
InRoom(p) == page[p] \in {"registered", "asking", "live"}

\* match:state.  A page that has no snapshot yet drops it.
PushStates(s) ==
    /\ screen' = [p \in Watcher |-> IF page[p] = "live" THEN s ELSE screen[p]]
    /\ reached' = [p \in Watcher |-> IF InRoom(p) /\ s.seq > reached[p] THEN s.seq ELSE reached[p]]

\* Bug: a heartbeat that was stopped is never started again.
ManageHeartbeat_StopsForGood(s) == heartbeat' = (heartbeat /\ s.status = "ACTIVE")

ManageHeartbeat(s) == heartbeat' = (s.status = "ACTIVE")

-----------------------------------------------------------------------------
(* Handlers                                                                *)

Moves ==
    {OfferCommand(p, match.seq + 1, a) : p \in Player, a \in Amount}
    \cup {Command("ACCEPT", p, match.standing[Other(p)]) : p \in Player}
    \cup {Command(kind, p, None) : kind \in {"WALK_AWAY", "RECONNECT"}, p \in Player}

\* A disconnect freeze broadcasts whatever came of it, a RECONNECT only its
\* events.
Presences == {Command("DISCONNECT", p, None) : p \in Player}

Commits(h, c) ==
    /\ call[h].stage = "idle"
    /\ match.seq < MaxSeq
    /\ Accepted(match, c, 0)
    /\ match' = Applied(match, c, 0)
    /\ call' = [call EXCEPT ![h].stage = "reading"]
    /\ UNCHANGED <<heartbeat, beat, page, answer, screen, restarts, newest, last, reached>>

Commit(h) ==
    \/ \E c \in Moves : Emitted(match, c, 0) # <<>> /\ Commits(h, c)
    \/ \E c \in Presences : Commits(h, c)

\* await service.loadSnapshot(matchId)
Load(h) ==
    /\ call[h].stage = "reading"
    /\ call' = [call EXCEPT ![h] = [stage |-> "loaded", snapshot |-> Snapshot(match)]]
    /\ UNCHANGED <<match, heartbeat, beat, page, answer, screen, restarts, newest, last, reached>>

\* The read has come back: the snapshot is pushed, whatever was pushed before.
Broadcast(h) ==
    LET s == call[h].snapshot IN
    /\ call[h].stage = "loaded"
    /\ PushStates(s)
    /\ ManageHeartbeat(s)
    /\ call' = [call EXCEPT ![h] = Idle]
    /\ newest' = IF s.seq > newest THEN s.seq ELSE newest
    /\ last' = s
    /\ UNCHANGED <<match, beat, page, answer, restarts>>

-----------------------------------------------------------------------------
(* The heartbeat                                                           *)

TickLoad ==
    /\ heartbeat
    /\ beat = Nothing
    /\ beat' = Snapshot(match)
    /\ UNCHANGED <<match, call, heartbeat, page, answer, screen, restarts, newest, last, reached>>

\* Bug: a tick only tells the time.
TickPush_ClockOnly ==
    /\ beat # Nothing
    /\ beat' = Nothing
    /\ UNCHANGED <<match, call, heartbeat, page, answer, screen, restarts, newest, last, reached>>

\* An ACTIVE match is pushed; of any other only the server's time, and the
\* interval stays.
TickPush ==
    /\ beat # Nothing
    /\ beat' = Nothing
    /\ IF beat.status = "ACTIVE" THEN PushStates(beat) ELSE UNCHANGED <<screen, reached>>
    /\ UNCHANGED <<match, call, heartbeat, page, answer, restarts, newest, last>>

-----------------------------------------------------------------------------
(* Pages                                                                   *)

\* The page is loaded, and its socket registers.
Open(p) ==
    /\ page[p] \in {"closed", "deaf"}
    /\ page' = [page EXCEPT ![p] = "registered"]
    /\ UNCHANGED <<match, call, heartbeat, beat, answer, screen, restarts, newest, last, reached>>

\* match:joined makes the page ask for the snapshot, which the route reads.
Ask(p) ==
    /\ page[p] = "registered"
    /\ page' = [page EXCEPT ![p] = "asking"]
    /\ answer' = [answer EXCEPT ![p] = Snapshot(match)]
    /\ UNCHANGED <<match, call, heartbeat, beat, screen, restarts, newest, last, reached>>

\* The answer arrives and is shown.
Show(p) ==
    /\ page[p] = "asking"
    /\ page' = [page EXCEPT ![p] = "live"]
    /\ screen' = [screen EXCEPT ![p] = answer[p]]
    /\ answer' = [answer EXCEPT ![p] = Nothing]
    /\ reached' = [reached EXCEPT ![p] = IF answer[p].seq > @ THEN answer[p].seq ELSE @]
    /\ UNCHANGED <<match, call, heartbeat, beat, restarts, newest, last>>

\* The socket breaks.  The client library opens another one, but the page emits
\* user:register once, when it is loaded, so the new socket is in no room and
\* what the page goes on showing is of no account here.
Blip(p) ==
    /\ InRoom(p)
    /\ page' = [page EXCEPT ![p] = "deaf"]
    /\ answer' = [answer EXCEPT ![p] = Nothing]
    /\ screen' = [screen EXCEPT ![p] = Nothing]
    /\ reached' = [reached EXCEPT ![p] = 0]
    /\ UNCHANGED <<match, call, heartbeat, beat, restarts, newest, last>>

\* The process restarts: handlers, intervals and sockets are gone, and nothing
\* starts a heartbeat before the next commit is broadcast.
Restart ==
    /\ restarts < MaxRestarts
    /\ restarts' = restarts + 1
    /\ call' = [h \in Call |-> Idle]
    /\ heartbeat' = FALSE
    /\ beat' = Nothing
    /\ page' = [p \in Watcher |-> IF InRoom(p) THEN "deaf" ELSE page[p]]
    /\ answer' = [p \in Watcher |-> Nothing]
    /\ screen' = [p \in Watcher |-> Nothing]
    /\ reached' = [p \in Watcher |-> 0]
    /\ newest' = 0
    /\ last' = Nothing
    /\ UNCHANGED match

Next ==
    \/ \E h \in Call : Commit(h) \/ Load(h) \/ Broadcast(h)
    \/ TickLoad \/ TickPush
    \/ \E p \in Watcher : Open(p) \/ Ask(p) \/ Show(p) \/ Blip(p)
    \/ Restart

\* Reads come back, intervals tick, answers arrive.  Nobody has to move, and no
\* page has to be opened.
Fairness ==
    /\ \A h \in Call : WF_vars(Load(h)) /\ WF_vars(Broadcast(h))
    /\ WF_vars(TickLoad) /\ WF_vars(TickPush)
    /\ \A p \in Watcher : WF_vars(Show(p))

Spec == Init /\ [][Next]_vars /\ Fairness

-----------------------------------------------------------------------------
(* Properties                                                              *)

Quiet == \A h \in Call : call[h] = Idle

\* The last broadcast carried an older snapshot than one before it.
Overtaken == last.seq < newest

\* realtime.ts:202-226: when every handler is done, the heartbeat runs exactly
\* while the match is ACTIVE; unless the last broadcast was overtaken, or the
\* process has broadcast nothing since it started.
HeartbeatFollowsMatch ==
    Quiet /\ ~Overtaken /\ newest # 0 => (heartbeat <=> match.status = "ACTIVE")

Stale(p) == page[p] = "live" /\ screen[p].seq < match.seq

\* An older picture has replaced a newer one, and no heartbeat comes to put that
\* right: there is none outside an ACTIVE match, nor after an overtaken
\* broadcast of a status that has passed.
Stuck(p) ==
    /\ screen[p].seq < reached[p]
    /\ match.status # "ACTIVE" \/ (Overtaken /\ last.status # "ACTIVE")

\* A page in its room comes to show the latest event: pushes bring it, and what
\* a late read or answer undid the heartbeat repairs as long as the match is
\* ACTIVE (realtime.ts:182-226, match-routes.ts:179-180, match-screen.tsx:73-143).
ScreensCatchUp == \A p \in Watcher : Stale(p) ~> (~Stale(p) \/ Stuck(p))
=============================================================================
