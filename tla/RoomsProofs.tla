---------------------------- MODULE RoomsProofs ----------------------------
(***************************************************************************)
(* The broadcast and the heartbeat (apps/api/src/realtime.ts), for any     *)
(* number of handlers, pages and restarts: when every handler is done, the *)
(* heartbeat follows the status of the match, unless the last broadcast    *)
(* was overtaken.  And two worlds side by side (MatchSecrecy): a player is *)
(* shown and told the same in both until they end.                         *)
(***************************************************************************)
EXTENDS Rooms, MatchSecrecy, MatchDomainProofs

-----------------------------------------------------------------------------
(* The invariant                                                           *)

SnapshotType == [seq : Nat, status : Status]

Reading == [Idle EXCEPT !.stage = "reading"]

RoomsTypes ==
    /\ InOrder(match, 0) /\ match.seq > 0
    /\ call \in [Call -> {Idle, Reading} \cup [stage : {"loaded"}, snapshot : SnapshotType]]
    /\ heartbeat \in BOOLEAN
    /\ newest \in Nat
    /\ last \in SnapshotType

Loaded(h) == call[h].stage = "loaded"

\* A snapshot is of the past, and one of the latest event tells the status.
Seen(s) == s.seq <= match.seq /\ (s.seq = match.seq => s.status = match.status)

AllSeen == Seen(last) /\ \A h \in Call : Loaded(h) => Seen(call[h].snapshot)

\* Whoever has broadcast or is about to: the latest event was broadcast, or a
\* handler is still to bring it.
OnItsWay ==
    \/ newest = match.seq
    \/ \E h \in Call : \/ call[h].stage = "reading"
                       \/ Loaded(h) /\ call[h].snapshot.seq = match.seq

Delivered ==
    /\ last.seq <= newest /\ newest <= match.seq
    /\ newest # 0 => (heartbeat <=> last.status = "ACTIVE")
    /\ newest # 0 \/ (\E h \in Call : Loaded(h)) => OnItsWay

RoomsInv == RoomsTypes /\ AllSeen /\ Delivered

-----------------------------------------------------------------------------
(* Commits                                                                 *)

\* What a snapshot takes from the match.
LEMMA SnapshotOfMatch ==
    ASSUME NEW m \in Match
    PROVE  Snapshot(m) \in SnapshotType /\ Snapshot(m).seq = m.seq /\ Snapshot(m).status = m.status
BY DEF Snapshot, SnapshotType, Match

\* The three things a slot may hold are told apart by its stage.
LEMMA Stages ==
    /\ Idle.stage = "idle" /\ Reading.stage = "reading" /\ Idle # Reading
    /\ \A s : [Idle EXCEPT !.stage = "reading"] = Reading
BY DEF Idle, Reading

\* Every command these handlers issue is well formed.
LEMMA MovesWellFormed ==
    ASSUME RoomsTypes PROVE \A c \in Moves \cup Presences : WellFormed(c)
<1>1. match.seq + 1 \in Nat
  BY DEF RoomsTypes, InOrder, Match
<1>2. \A p \in Player, a \in Amount : WellFormed(OfferCommand(p, match.seq + 1, a))
  BY <1>1 DEF OfferCommand, WellFormed
<1>3. \A p \in Player, kind \in {"ACCEPT", "WALK_AWAY", "RECONNECT", "DISCONNECT"} :
         \A arg : WellFormed(Command(kind, p, arg))
  BY DEF Command, WellFormed
<1>4. ASSUME NEW c \in Moves PROVE WellFormed(c)
  BY <1>2, <1>3, <1>4 DEF Moves
<1>5. ASSUME NEW c \in Presences PROVE WellFormed(c)
  BY <1>3, <1>5 DEF Presences
<1> QED BY <1>4, <1>5

\* A commit leaves the match as it was or gives it a later number, and leaves
\* its handler with a read to do.
Committing(h) ==
    /\ InOrder(match', 0)
    /\ match' = match \/ match'.seq > match.seq
    /\ call[h].stage = "idle"
    /\ call' = [call EXCEPT ![h].stage = "reading"]
    /\ UNCHANGED <<heartbeat, newest, last>>

\* Every commit is one of these.
LEMMA CommitKinds ==
    ASSUME RoomsTypes, NEW h \in Call, Commit(h) PROVE Committing(h)
<1>1. PICK c \in Moves \cup Presences : Commits(h, c)
  BY DEF Commit
<1>2. WellFormed(c) /\ InOrder(match, 0) /\ match \in Match
  BY MovesWellFormed DEF RoomsTypes, InOrder
<1>3. InOrder(Applied(match, c, 0), 0)
  BY <1>1, <1>2, AppliedInOrder DEF Commits
<1>4. Applied(match, c, 0) = match \/ Applied(match, c, 0).seq > match.seq
  BY <1>2, AppliedCounts
<1> QED BY <1>1, <1>3, <1>4 DEF Commits, Committing

-----------------------------------------------------------------------------
(* The invariant holds                                                     *)

\* The match starts with its first event broadcast and a heartbeat.
LEMMA InitRooms == Init => RoomsInv
<1> SUFFICES ASSUME Init PROVE RoomsInv
  OBVIOUS
<1> DEFINE ready == [p \in Player |-> TRUE]
           r == [Created EXCEPT !.ready = ready]
<1>1. InOrder(Created, 0) /\ Created.status = "CREATED" /\ Created.seq = 0
  <2>1. PICK mode \in Mode, rv \in [Player -> Amount], first \in Player :
          Created = CreatedMatch(mode, rv, first)
    BY RoomsAssumption
  <2> QED BY <2>1, CreatedInOrder DEF CreatedMatch
<1>2. Created \in Match /\ Created.reason = None
  BY <1>1 DEF InOrder, Terminal
<1>3. ready \in [Player -> BOOLEAN]
  OBVIOUS
<1>4. match = Started(r, 0)
  BY DEF Init
<1> HIDE DEF ready
<1>5. /\ r \in Match /\ r.status = "CREATED" /\ r.reason = None /\ r.seq = 0
      /\ r.cumulative = Created.cumulative
  BY <1>1, <1>2, <1>3 DEF Match
<1>6. None # "TIMED_OUT"
  BY NoneAssumption DEF Reason
<1> HIDE DEF r
<1>7. InOrder(r, 0)
  BY <1>1, <1>5, <1>6 DEF InOrder
<1>8. InOrder(match, 0) /\ match.seq = 1 /\ match.status = "ACTIVE"
  <2>1. InOrder(match, 0)
    BY <1>4, <1>5, <1>7, StartedInOrder
  <2>2. match.seq = r.seq + 1 /\ match.status = "ACTIVE"
    BY <1>4, <1>5 DEF Started, Match
  <2> QED BY <1>5, <2>1, <2>2
<1>9. Snapshot(match) \in SnapshotType /\ Snapshot(match).seq = 1
      /\ Snapshot(match).status = "ACTIVE"
  BY <1>8, SnapshotOfMatch DEF InOrder
<1>10. RoomsTypes
  BY <1>8, <1>9 DEF Init, RoomsTypes
<1>11. \A h \in Call : ~Loaded(h)
  BY Stages DEF Init, Loaded
<1> QED BY <1>8, <1>9, <1>10, <1>11 DEF Init, RoomsInv, AllSeen, Seen, Delivered, OnItsWay

\* A commit makes every snapshot a past one, or changes nothing; it brings its
\* own event.
LEMMA CommitStep ==
    ASSUME RoomsInv, NEW h \in Call, Committing(h) PROVE RoomsInv'
<1>0. /\ match \in Match /\ match.seq \in Nat /\ match' \in Match /\ match'.seq \in Nat
      /\ last \in SnapshotType /\ newest \in Nat
  BY DEF RoomsInv, RoomsTypes, InOrder, Committing, Match
<1>1. call[h] = Idle
  BY Stages DEF RoomsInv, RoomsTypes, Committing
<1>2. call' = [call EXCEPT ![h] = Reading]
  BY <1>1, Stages DEF Committing, RoomsInv, RoomsTypes, Reading
<1>3. RoomsTypes'
  BY <1>0, <1>2 DEF RoomsInv, RoomsTypes, Committing
<1>4. \A k \in Call : Loaded(k)' => Loaded(k) /\ call'[k] = call[k]
  BY <1>2, Stages DEF RoomsInv, RoomsTypes, Loaded
<1>5. \A s \in SnapshotType : Seen(s) => Seen(s)'
  BY <1>0 DEF Committing, Seen, SnapshotType
<1>6. \A k \in Call : Loaded(k) => call[k].snapshot \in SnapshotType
  BY Stages DEF RoomsInv, RoomsTypes, Loaded
<1>7. AllSeen'
  BY <1>0, <1>4, <1>5, <1>6 DEF RoomsInv, AllSeen, Committing, Seen
<1>8. call'[h].stage = "reading"
  BY <1>2, Stages DEF RoomsInv, RoomsTypes
<1>9. newest <= match'.seq
  BY <1>0 DEF RoomsInv, Delivered, Committing
<1> QED BY <1>3, <1>7, <1>8, <1>9 DEF RoomsInv, Delivered, OnItsWay, Committing

\* A read brings the latest event.
LEMMA LoadStep ==
    ASSUME RoomsInv, NEW h \in Call, Load(h) PROVE RoomsInv'
<1> DEFINE s == Snapshot(match)
           slot == [stage |-> "loaded", snapshot |-> s]
<1>0. /\ match \in Match /\ match.seq \in Nat /\ last \in SnapshotType
      /\ call \in [Call -> {Idle, Reading} \cup [stage : {"loaded"}, snapshot : SnapshotType]]
  BY DEF RoomsInv, RoomsTypes, InOrder, Match
<1>1. s \in SnapshotType /\ s.seq = match.seq /\ s.status = match.status
  BY <1>0, SnapshotOfMatch
<1>2. call' = [call EXCEPT ![h] = slot]
      /\ UNCHANGED <<match, heartbeat, newest, last>>
  BY DEF Load
<1> HIDE DEF s
<1>3. slot \in [stage : {"loaded"}, snapshot : SnapshotType] /\ slot.snapshot = s
      /\ slot.stage = "loaded"
  BY <1>1
<1> HIDE DEF slot
<1>4. RoomsTypes'
  BY <1>0, <1>2, <1>3 DEF RoomsInv, RoomsTypes
<1>5. call'[h] = slot /\ \A k \in Call \ {h} : call'[k] = call[k]
  BY <1>0, <1>2
<1>6. AllSeen'
  <2>1. Seen(last)'
    BY <1>2 DEF RoomsInv, AllSeen, Seen
  <2>2. \A k \in Call \ {h} : Loaded(k)' => Seen(call[k].snapshot)'
    BY <1>2, <1>5 DEF RoomsInv, AllSeen, Seen, Loaded
  <2>3. Seen(call[h].snapshot)'
    BY <1>0, <1>1, <1>2, <1>3, <1>5 DEF Seen
  <2> QED BY <2>1, <2>2, <2>3 DEF AllSeen
<1>7. Loaded(h)' /\ call'[h].snapshot.seq = match'.seq
  BY <1>1, <1>2, <1>3, <1>5 DEF Loaded
<1>8. OnItsWay'
  BY <1>7 DEF OnItsWay
<1> QED BY <1>2, <1>4, <1>6, <1>8 DEF RoomsInv, Delivered

\* A broadcast delivers what its handler brought, and the heartbeat follows it.
LEMMA BroadcastStep ==
    ASSUME RoomsInv, NEW h \in Call, Broadcast(h) PROVE RoomsInv'
<1> DEFINE s == call[h].snapshot
<1>0. /\ match \in Match /\ match.seq \in Nat /\ last \in SnapshotType /\ newest \in Nat
      /\ call \in [Call -> {Idle, Reading} \cup [stage : {"loaded"}, snapshot : SnapshotType]]
  BY DEF RoomsInv, RoomsTypes, InOrder, Match
<1>1. Loaded(h) /\ s \in SnapshotType /\ s.seq \in Nat /\ s.status \in Status
  BY <1>0, Stages DEF Broadcast, Loaded, SnapshotType
<1>2. /\ call' = [call EXCEPT ![h] = Idle] /\ match' = match /\ last' = s
      /\ heartbeat' = (s.status = "ACTIVE")
      /\ newest' = IF s.seq > newest THEN s.seq ELSE newest
  BY DEF Broadcast, ManageHeartbeat
<1>3. Seen(s) /\ OnItsWay
  BY <1>1 DEF RoomsInv, AllSeen, Delivered
<1> HIDE DEF s
<1>4. RoomsTypes'
  BY <1>0, <1>1, <1>2 DEF RoomsInv, RoomsTypes
<1>5. call'[h] = Idle /\ \A k \in Call \ {h} : call'[k] = call[k]
  BY <1>0, <1>2
<1>6. AllSeen'
  BY <1>2, <1>3, <1>5, Stages DEF RoomsInv, AllSeen, Seen, Loaded
<1>7. last'.seq <= newest' /\ newest' <= match'.seq
  BY <1>0, <1>1, <1>2, <1>3 DEF RoomsInv, Delivered, Seen
<1>8. OnItsWay'
  <2>1. CASE s.seq = match.seq
    BY <1>0, <1>2, <1>7, <2>1 DEF OnItsWay
  <2>2. CASE s.seq # match.seq
    <3>1. CASE newest = match.seq
      BY <1>0, <1>1, <1>2, <1>3, <3>1 DEF OnItsWay, Seen
    <3>2. CASE newest # match.seq
      <4>1. PICK k \in Call : \/ call[k].stage = "reading"
                              \/ Loaded(k) /\ call[k].snapshot.seq = match.seq
        BY <1>3, <3>2 DEF OnItsWay
      <4>2. k # h
        BY <1>1, <2>2, <4>1 DEF Loaded, s
      <4> QED BY <1>2, <1>5, <4>1, <4>2 DEF OnItsWay, Loaded
    <3> QED BY <3>1, <3>2
  <2> QED BY <2>1, <2>2
<1> QED BY <1>2, <1>4, <1>6, <1>7, <1>8 DEF RoomsInv, Delivered

\* A restart forgets what was broadcast.
LEMMA RestartStep == ASSUME RoomsInv, Restart PROVE RoomsInv'
<1>1. /\ match' = match /\ newest' = 0 /\ last' = Nothing /\ heartbeat' = FALSE
      /\ call' = [h \in Call |-> Idle]
  BY DEF Restart
<1>2. Nothing \in SnapshotType /\ Nothing.seq = 0
  BY DEF Nothing, SnapshotType, Status
<1>3. \A h \in Call : ~Loaded(h)'
  BY <1>1, Stages DEF Loaded
<1>4. match.seq \in Nat /\ match.seq > 0
  BY DEF RoomsInv, RoomsTypes, InOrder, Match
<1>5. RoomsTypes'
  BY <1>1, <1>2 DEF RoomsInv, RoomsTypes
<1>6. AllSeen'
  BY <1>1, <1>2, <1>3, <1>4 DEF AllSeen, Seen
<1> QED BY <1>1, <1>2, <1>3, <1>4, <1>5, <1>6 DEF RoomsInv, Delivered

\* realtime.ts:182-226: however commits, reads and broadcasts of overlapping
\* handlers interleave, and whenever the process restarts, the heartbeat runs
\* exactly while the match is ACTIVE once all of them are done, unless an older
\* snapshot was broadcast last.
THEOREM HeartbeatFollows == Spec => []HeartbeatFollowsMatch
<1>1. RoomsInv /\ [Next]_vars => RoomsInv'
  <2> SUFFICES ASSUME RoomsInv, [Next]_vars PROVE RoomsInv'
    OBVIOUS
  <2>1. ASSUME NEW h \in Call, Commit(h) \/ Load(h) \/ Broadcast(h) PROVE RoomsInv'
    BY <2>1, CommitKinds, CommitStep, LoadStep, BroadcastStep DEF RoomsInv
  <2>2. CASE UNCHANGED <<match, call, heartbeat, newest, last>>
    BY <2>2 DEF RoomsInv, RoomsTypes, AllSeen, Seen, Loaded, Delivered, OnItsWay
  <2>3. CASE TickLoad \/ TickPush
    BY <2>2, <2>3 DEF TickLoad, TickPush
  <2>4. ASSUME NEW p \in Watcher, Open(p) \/ Ask(p) \/ Show(p) \/ Blip(p) PROVE RoomsInv'
    BY <2>2, <2>4 DEF Open, Ask, Show, Blip
  <2>5. CASE UNCHANGED vars
    BY <2>2, <2>5 DEF vars
  <2> QED BY <2>1, <2>3, <2>4, <2>5, RestartStep DEF Next
<1>2. RoomsInv => HeartbeatFollowsMatch
  <2> SUFFICES ASSUME RoomsInv, Quiet, ~Overtaken, newest # 0
               PROVE  heartbeat <=> match.status = "ACTIVE"
    BY DEF HeartbeatFollowsMatch
  <2>1. last.seq \in Nat /\ newest \in Nat /\ match.seq \in Nat
    BY DEF RoomsInv, RoomsTypes, SnapshotType, InOrder, Match
  <2>2. newest = match.seq
    BY Stages DEF RoomsInv, Delivered, OnItsWay, Quiet, Loaded
  <2>3. last.seq = match.seq
    BY <2>1, <2>2 DEF RoomsInv, Delivered, Overtaken
  <2> QED BY <2>3 DEF RoomsInv, AllSeen, Seen, Delivered
<1> QED BY <1>1, <1>2, InitRooms, PTL DEF Spec
-----------------------------------------------------------------------------
(* Two worlds that a player cannot tell apart                              *)

\* Two matches that differ in the value of the player's rival at most.
Alike(m, n) ==
    /\ n.rv[viewer] = m.rv[viewer]
    /\ n.status = m.status /\ n.active = m.active /\ n.turnStartedAt = m.turnStartedAt
    /\ n.mode = m.mode /\ n.first = m.first /\ n.seq = m.seq /\ n.startedAt = m.startedAt
    /\ n.completedAt = m.completedAt /\ n.settlement = m.settlement
    /\ n.reason = m.reason /\ n.economy = m.economy /\ n.ready = m.ready
    /\ n.disconnected = m.disconnected /\ n.chipsSpent = m.chipsSpent
    /\ n.cumulative = m.cumulative /\ n.opening = m.opening /\ n.latest = m.latest
    /\ n.standing = m.standing /\ n.revealed = m.revealed

SecrecyInv ==
    /\ viewer \in Player /\ time \in Nat
    /\ worlds \in [World -> Match]
    /\ Undecided => Alike(worlds[1], worlds[2])

\* Alike matches have the same clocks.
LEMMA ClocksAlike ==
    ASSUME NEW m, NEW n, Alike(m, n), NEW t
    PROVE  /\ \A p : ElapsedActive(n, p, t) = ElapsedActive(m, p, t)
           /\ FrozenClock(n, t) = FrozenClock(m, t)
           /\ Exhausted(n, t) <=> Exhausted(m, t)
           /\ \A p : HasTurn(n, p, t) <=> HasTurn(m, p, t)
           /\ Terminal(n) <=> Terminal(m)
<1>1. \A p : ElapsedActive(n, p, t) = ElapsedActive(m, p, t)
  BY DEF Alike, ElapsedActive, SinceTurn
<1>2. FrozenClock(n, t) = FrozenClock(m, t)
  BY <1>1 DEF FrozenClock
<1>3. Exhausted(n, t) <=> Exhausted(m, t)
  BY <1>1 DEF Exhausted, Alike
<1>4. \A p : HasTurn(n, p, t) <=> HasTurn(m, p, t)
  BY <1>3 DEF HasTurn, Alike
<1> QED BY <1>1, <1>2, <1>3, <1>4 DEF Terminal, Alike

\* The server answers alike, but for moves judged by the rival's value.
LEMMA AcceptedAlike ==
    ASSUME NEW m, NEW n, Alike(m, n), NEW t, NEW c, WellFormed(c),
           viewer \in Player, ~OnRivalsHand(c)
    PROVE  Accepted(n, c, t) <=> Accepted(m, c, t)
<1>0. \A p : HasTurn(n, p, t) <=> HasTurn(m, p, t)
  BY ClocksAlike
<1>1. c.kind \in {"OFFER", "ACCEPT"} => c.by = viewer
  BY DEF OnRivalsHand, Rival, WellFormed, Player, Other
<1>2. \A a : WithinReservation(n, viewer, a) <=> WithinReservation(m, viewer, a)
  BY DEF WithinReservation, Alike
<1>3. \A a : CanOffer(n, viewer, a, t) <=> CanOffer(m, viewer, a, t)
  BY <1>0, <1>2 DEF CanOffer, OfferCost, Alike
<1>4. \A oid : CanAccept(n, viewer, oid, t) <=> CanAccept(m, viewer, oid, t)
  BY <1>0, <1>2 DEF CanAccept, Alike
<1>5. \A p, f : CanReveal(n, p, f, t) <=> CanReveal(m, p, f, t)
  BY <1>0 DEF CanReveal, Alike
<1>6. \A p : CanWalkAway(n, p, t) <=> CanWalkAway(m, p, t)
  BY <1>0 DEF CanWalkAway
<1>7. \A p : CanTimeout(n, p, t) <=> CanTimeout(m, p, t)
  BY ClocksAlike DEF CanTimeout, Alike
<1>8. (CanReady(n) <=> CanReady(m)) /\ (\A b : CanMessage(n, b) <=> CanMessage(m, b))
  BY DEF CanReady, CanMessage, Alike
<1> QED BY <1>1, <1>3, <1>4, <1>5, <1>6, <1>7, <1>8 DEF Accepted

\* The same events are broadcast.
LEMMA EmittedAlike ==
    ASSUME NEW m, NEW n, Alike(m, n), NEW t, NEW c, WellFormed(c)
    PROVE  Emitted(n, c, t) = Emitted(m, c, t)
<1>1. Terminal(n) <=> Terminal(m)
  BY ClocksAlike
<1>2. \A p : ReadyEvents(n, p, t) = ReadyEvents(m, p, t)
  BY DEF ReadyEvents, Starts, Alike
<1>3. \A p, oid, a : OfferEvents(n, p, oid, a, t) = OfferEvents(m, p, oid, a, t)
  BY DEF OfferEvents, Alike
<1>4. \A p, oid : AcceptEvents(n, p, oid, t) = AcceptEvents(m, p, oid, t)
  BY DEF AcceptEvents, Alike
<1>5. \A p : DisconnectEvents(n, p, t) = DisconnectEvents(m, p, t)
  BY <1>1 DEF DisconnectEvents, OwnsTurn, Alike
<1>6. \A p : ReconnectEvents(n, p, t) = ReconnectEvents(m, p, t)
  BY <1>1 DEF ReconnectEvents, Alike
<1>7. AbortEvents(n, t) = AbortEvents(m, t)
  BY <1>1 DEF AbortEvents
<1>8. /\ \A p : WalkAwayEvents(n, p, t) = WalkAwayEvents(m, p, t)
      /\ \A p, f : RevealEvents(n, p, f, t) = RevealEvents(m, p, f, t)
  BY DEF WalkAwayEvents, RevealEvents
<1> QED BY <1>2, <1>3, <1>4, <1>5, <1>6, <1>7, <1>8 DEF Emitted, WellFormed

\* A turn is handed over alike.
LEMMA HandoverAlike ==
    ASSUME NEW m \in Match, NEW n \in Match, Alike(m, n), viewer \in Player,
           NEW t, NEW status, NEW owner, NEW started, NEW k
    PROVE  Alike(Handover(m, status, owner, started, k, t), Handover(n, status, owner, started, k, t))
<1>1. FrozenClock(n, t) = FrozenClock(m, t)
  BY ClocksAlike
<1> QED BY <1>1 DEF Handover, Alike, Match

\* The first thing a command writes leaves a match.
LEMMA WorkingCopies ==
    ASSUME NEW m \in Match, NEW p \in Player, NEW fact \in Fact \cup {None}
    PROVE  /\ [m EXCEPT !.ready[p] = TRUE, !.status = "READY", !.seq = @ + 1] \in Match
           /\ [m EXCEPT !.disconnected[p] = TRUE] \in Match
           /\ [m EXCEPT !.disconnected[p] = FALSE, !.seq = @ + 1] \in Match
           /\ fact \in Fact => [m EXCEPT !.revealed[p] = @ \cup {fact}] \in Match
<1>1. /\ m.seq + 1 \in Nat
      /\ [m.ready EXCEPT ![p] = TRUE] \in [Player -> BOOLEAN]
      /\ [m.disconnected EXCEPT ![p] = TRUE] \in [Player -> BOOLEAN]
      /\ [m.disconnected EXCEPT ![p] = FALSE] \in [Player -> BOOLEAN]
  BY DEF Match
<1>2. [m EXCEPT !.ready[p] = TRUE, !.status = "READY", !.seq = @ + 1] \in Match
  BY <1>1 DEF Match, Status
<1>3. [m EXCEPT !.disconnected[p] = TRUE] \in Match
  BY <1>1 DEF Match
<1>4. [m EXCEPT !.disconnected[p] = FALSE, !.seq = @ + 1] \in Match
  BY <1>1 DEF Match
<1>5. ASSUME fact \in Fact PROVE [m EXCEPT !.revealed[p] = @ \cup {fact}] \in Match
  <2>1. m.revealed[p] \cup {fact} \in SUBSET Fact
    BY <1>5 DEF Match
  <2> QED BY <2>1 DEF Match
<1> QED BY <1>2, <1>3, <1>4, <1>5

\* A command taken in both worlds keeps them alike, or ends both.
LEMMA AppliedAlike ==
    ASSUME NEW m \in Match, NEW n \in Match, Alike(m, n), viewer \in Player,
           NEW t \in Nat, NEW c, WellFormed(c), Accepted(m, c, t), Accepted(n, c, t)
    PROVE  \/ Alike(Applied(m, c, t), Applied(n, c, t))
           \/ Terminal(Applied(m, c, t)) /\ Terminal(Applied(n, c, t))
<1>0. Terminal(n) <=> Terminal(m)
  BY ClocksAlike
<1>1. CASE c.kind = "READY"
  <2>1. c.by \in Player /\ m.ready = n.ready /\ Starts(m, c.by) = Starts(n, c.by)
    BY <1>1 DEF WellFormed, Alike, Starts
  <2> DEFINE M == [m EXCEPT !.ready[c.by] = TRUE, !.status = "READY", !.seq = @ + 1]
             N == [n EXCEPT !.ready[c.by] = TRUE, !.status = "READY", !.seq = @ + 1]
  <2>2. M \in Match /\ N \in Match
    BY <2>1, WorkingCopies
  <2>21. Alike(M, N)
    BY <2>1 DEF Alike, Match
  <2> HIDE DEF M, N
  <2>3. Alike(Started(M, t), Started(N, t))
    BY <2>2, <2>21 DEF Alike, Started, Match
  <2>4. Alike(AfterReady(m, c.by, t), AfterReady(n, c.by, t))
    BY <2>1, <2>3, <2>21 DEF AfterReady, M, N
  <2> QED BY <1>1, <2>4 DEF Applied
<1>2. CASE c.kind = "OFFER"
  <2>1. c.by \in Player /\ c.arg \in Amount /\ c.id \in Nat
    BY <1>2 DEF WellFormed, Accepted, CanOffer
  <2> DEFINE M == Conceded(m, c.by, c.id, c.arg)
             N == Conceded(n, c.by, c.id, c.arg)
  <2>2. M \in Match /\ N \in Match
    BY <2>1, ConcededType
  <2>3. Alike(M, N)
    BY <2>1 DEF Alike, Conceded, OfferCost, Match
  <2> HIDE DEF M, N
  <2>4. n.disconnected = m.disconnected
    BY DEF Alike
  <2>5. Alike(AfterOffer(m, c.by, c.id, c.arg, t), AfterOffer(n, c.by, c.id, c.arg, t))
    BY <2>2, <2>3, <2>4, HandoverAlike DEF AfterOffer, M, N
  <2> QED BY <1>2, <2>5 DEF Applied
<1>3. CASE c.kind = "REVEAL"
  <2>1. c.by \in Player /\ c.arg \in Fact
    BY <1>3, FactType DEF WellFormed, Accepted, CanReveal
  <2> DEFINE M == [m EXCEPT !.revealed[c.by] = @ \cup {c.arg}]
             N == [n EXCEPT !.revealed[c.by] = @ \cup {c.arg}]
  <2>2. M \in Match /\ N \in Match
    BY <2>1, WorkingCopies
  <2>21. Alike(M, N)
    BY <2>1 DEF Alike, Match
  <2> HIDE DEF M, N
  <2>3. Alike(AfterReveal(m, c.by, c.arg, t), AfterReveal(n, c.by, c.arg, t))
    BY <2>2, <2>21, HandoverAlike DEF AfterReveal, M, N
  <2> QED BY <1>3, <2>3 DEF Applied
<1>4. CASE c.kind = "MESSAGE"
  BY <1>4 DEF Applied, AfterMessage, Alike, Match
<1>5. CASE c.kind = "DISCONNECT"
  <2>1. c.by \in Player
    BY <1>5 DEF WellFormed
  <2>2. CASE Terminal(m) \/ m.disconnected[c.by]
    BY <1>0, <1>5, <2>2 DEF Applied, AfterDisconnect, Alike
  <2>3. CASE ~Terminal(m) /\ ~m.disconnected[c.by]
    <3> DEFINE M == [m EXCEPT !.disconnected[c.by] = TRUE]
               N == [n EXCEPT !.disconnected[c.by] = TRUE]
    <3>1. M \in Match /\ N \in Match
      BY <2>1, WorkingCopies
    <3>11. Alike(M, N)
      BY <2>1 DEF Alike, Match
    <3>2. Alike([m EXCEPT !.disconnected[c.by] = TRUE, !.seq = @ + 1],
                [n EXCEPT !.disconnected[c.by] = TRUE, !.seq = @ + 1])
      BY <2>1 DEF Alike, Match
    <3>3. OwnsTurn(n, c.by) <=> OwnsTurn(m, c.by)
      BY DEF OwnsTurn, Alike
    <3> HIDE DEF M, N
    <3>4. Alike(Handover(M, "PAUSED", c.by, None, 2, t), Handover(N, "PAUSED", c.by, None, 2, t))
      BY <3>1, <3>11, HandoverAlike
    <3>5. ~Terminal(n) /\ ~n.disconnected[c.by]
      BY <1>0, <2>3 DEF Alike
    <3>6. Alike(AfterDisconnect(m, c.by, t), AfterDisconnect(n, c.by, t))
      BY <2>3, <3>2, <3>3, <3>4, <3>5 DEF AfterDisconnect, M, N
    <3> QED BY <1>5, <3>6 DEF Applied
  <2> QED BY <2>2, <2>3
<1>6. CASE c.kind = "RECONNECT"
  <2>1. c.by \in Player
    BY <1>6 DEF WellFormed
  <2>2. CASE Terminal(m) \/ ~m.disconnected[c.by]
    BY <1>0, <1>6, <2>2 DEF Applied, AfterReconnect, Alike
  <2>3. CASE ~Terminal(m) /\ m.disconnected[c.by]
    <3> DEFINE M == [m EXCEPT !.disconnected[c.by] = FALSE, !.seq = @ + 1]
               N == [n EXCEPT !.disconnected[c.by] = FALSE, !.seq = @ + 1]
    <3>1. M \in Match /\ N \in Match
      BY <2>1, WorkingCopies
    <3>11. Alike(M, N)
      BY <2>1 DEF Alike, Match
    <3> HIDE DEF M, N
    <3>2. Alike(Resumed(M, t), Resumed(N, t))
      BY <3>1, <3>11 DEF Resumed, Alike, Match
    <3>3. ~Terminal(n) /\ n.disconnected[c.by] /\ n.status = m.status /\ n.active = m.active
      BY <1>0, <2>3 DEF Alike
    <3>4. Alike(AfterReconnect(m, c.by, t), AfterReconnect(n, c.by, t))
      BY <2>3, <3>11, <3>2, <3>3 DEF AfterReconnect, M, N
    <3> QED BY <1>6, <3>4 DEF Applied
  <2> QED BY <2>2, <2>3
<1>7. CASE c.kind = "ABORT"
  <2>1. CASE Terminal(m)
    BY <1>0, <1>7, <2>1 DEF Applied, AfterAbort
  <2>2. CASE ~Terminal(m)
    BY <1>0, <1>7, <2>2, AppliedEnds DEF GoesOnOrEnds, Terminal
  <2> QED BY <2>1, <2>2
<1>8. CASE c.kind \in Endings
  BY <1>8, AppliedEnds DEF GoesOnOrEnds, Endings, Terminal
<1> QED BY <1>1, <1>2, <1>3, <1>4, <1>5, <1>6, <1>7, <1>8 DEF WellFormed, Endings

\* Every command of the two worlds is well formed.
LEMMA CommandsWellFormed ==
    ASSUME worlds \in [World -> Match] PROVE \A c \in Commands : WellFormed(c)
<1>1. worlds[1].seq + 1 \in Nat
  BY DEF World, Match
<1>2. \A p \in Player, a \in Amount : WellFormed(OfferCommand(p, worlds[1].seq + 1, a))
  BY <1>1 DEF OfferCommand, WellFormed
<1>3. \A p \in Player : \A kind \in {"READY", "WALK_AWAY", "TIMEOUT", "ABORT", "ACCEPT", "REVEAL",
                                     "MESSAGE", "DISCONNECT", "RECONNECT"} :
         \A arg : WellFormed(Command(kind, p, arg))
  BY DEF Command, WellFormed
<1>4. ASSUME NEW c \in GameCommands PROVE WellFormed(c)
  BY <1>2, <1>3, <1>4 DEF GameCommands
<1>5. ASSUME NEW c \in Chatter PROVE WellFormed(c)
  BY <1>3, <1>5 DEF Chatter
<1> QED BY <1>4, <1>5 DEF Commands

LEMMA SecrecyStarts == SecrecyInit => SecrecyInv
<1> SUFFICES ASSUME SecrecyInit PROVE SecrecyInv
  OBVIOUS
<1>1. PICK mode \in Modes, rv \in [World -> Hands], first \in Player :
        /\ rv[1][viewer] = rv[2][viewer]
        /\ worlds = [w \in World |-> CreatedMatch(mode, rv[w], first)]
  BY DEF SecrecyInit
<1>2. mode \in Mode /\ \A w \in World : rv[w] \in [Player -> Amount]
  BY SecrecyAssumption
<1>3. \A w \in World : CreatedMatch(mode, rv[w], first) \in Match
  BY <1>2, CreatedType
<1>4. Alike(worlds[1], worlds[2])
  BY <1>1 DEF World, Alike, CreatedMatch
<1> QED BY <1>1, <1>3, <1>4 DEF SecrecyInit, SecrecyInv

LEMMA SecrecyStep == SecrecyInv /\ [SecrecyNext]_secrecyVars => SecrecyInv'
<1> SUFFICES ASSUME SecrecyInv, [SecrecyNext]_secrecyVars PROVE SecrecyInv'
  OBVIOUS
<1>1. ASSUME NEW c \in Commands, Send(c) PROVE SecrecyInv'
  <2> DEFINE next(w) == IF Allowed(w, c) THEN Applied(worlds[w], c, time) ELSE worlds[w]
  <2>1. /\ viewer \in Player /\ viewer' = viewer /\ time \in Nat /\ time' = time
        /\ worlds[1] \in Match /\ worlds[2] \in Match /\ Alike(worlds[1], worlds[2])
    BY <1>1 DEF Send, SecrecyInv, World
  <2>2. WellFormed(c)
    BY CommandsWellFormed DEF SecrecyInv
  <2>3. \A w \in World : next(w) \in Match
    BY <2>1, <2>2, AppliedType DEF Allowed, World
  <2>4. worlds' = [w \in World |-> next(w)]
    BY <1>1 DEF Send
  <2>5. worlds' \in [World -> Match] /\ worlds'[1] = next(1) /\ worlds'[2] = next(2)
    BY <2>3, <2>4 DEF World
  <2>6. Allowed(1, c) <=> Allowed(2, c)
    BY <1>1, <2>1, <2>2, AcceptedAlike DEF Send, Allowed, World
  <2>7. Alike(next(1), next(2)) \/ (Terminal(next(1)) /\ Terminal(next(2)))
    BY <2>1, <2>2, <2>6, AppliedAlike DEF Allowed
  <2> HIDE DEF next
  <2>8. Undecided' => Alike(worlds'[1], worlds'[2])
    BY <2>5, <2>7 DEF Undecided, World
  <2> QED BY <2>1, <2>5, <2>8 DEF SecrecyInv, Alike
<1>2. CASE Pass
  BY <1>2 DEF Pass, SecrecyInv, Undecided, Alike
<1>3. CASE UNCHANGED secrecyVars
  BY <1>3 DEF secrecyVars, SecrecyInv, Undecided, Alike
<1> QED BY <1>1, <1>2, <1>3 DEF SecrecyNext

\* Alike worlds are shown alike.
LEMMA ViewAlike ==
    ASSUME NEW m, NEW n, Alike(m, n), NEW t, viewer \in Player, ~Terminal(m)
    PROVE  ViewMatchFor(n, viewer, t) = ViewMatchFor(m, viewer, t)
<1>1. /\ \A p : ElapsedActive(n, p, t) = ElapsedActive(m, p, t)
      /\ Terminal(n) <=> Terminal(m)
  BY ClocksAlike
<1>2. \A p : TimeRemaining(n, p, t) = TimeRemaining(m, p, t)
  BY <1>1 DEF TimeRemaining
<1>3. \A p : TimeTier(n, p, t) = TimeTier(m, p, t)
  BY <1>2 DEF TimeTier
<1>4. \A p \in Player : (IF ShowsReservation(n, viewer, p) THEN n.rv[p] ELSE None) =
                        (IF ShowsReservation(m, viewer, p) THEN m.rv[p] ELSE None)
  BY <1>1 DEF ShowsReservation, Alike
<1>5. \A p \in Player : ParticipantView(n, viewer, p, t) = ParticipantView(m, viewer, p, t)
  BY <1>1, <1>2, <1>3, <1>4 DEF ParticipantView, Alike
<1>6. OwnsTurn(n, viewer) = OwnsTurn(m, viewer)
  BY DEF OwnsTurn, Alike
<1> QED BY <1>5, <1>6 DEF ViewMatchFor, Alike

\* While one of them goes on, both do.
LEMMA BothGoOn ==
    ASSUME SecrecyInv, Undecided
    PROVE  /\ Alike(worlds[1], worlds[2]) /\ viewer \in Player
           /\ ~Terminal(worlds[1]) /\ ~Terminal(worlds[2])
<1>1. Alike(worlds[1], worlds[2]) /\ viewer \in Player
  BY DEF SecrecyInv
<1> QED BY <1>1, ClocksAlike DEF Undecided, World

LEMMA SecrecyKept == SecrecySpec => []SecrecyInv
BY SecrecyStarts, SecrecyStep, PTL DEF SecrecySpec

\* For every limit, budget, price and pair of values: two matches that were
\* played alike and differ in the rival's value look the same until they end.
THEOREM NothingIsShown == SecrecySpec => []ViewsAlike
<1>1. SecrecyInv => ViewsAlike
  BY BothGoOn, ViewAlike DEF ViewsAlike
<1> QED BY <1>1, SecrecyKept, PTL

\* And nothing the player tries tells them apart.
THEOREM NothingIsTold == SecrecySpec => []AnswersAlike
<1>1. SecrecyInv => AnswersAlike
  <2> SUFFICES ASSUME SecrecyInv, Undecided, NEW c \in Commands
               PROVE  /\ OnRivalsHand(c) \/ (Allowed(1, c) <=> Allowed(2, c))
                      /\ Emitted(worlds[1], c, time) = Emitted(worlds[2], c, time)
    BY DEF AnswersAlike
  <2>1. Alike(worlds[1], worlds[2]) /\ viewer \in Player
    BY BothGoOn
  <2>2. WellFormed(c)
    BY CommandsWellFormed DEF SecrecyInv
  <2> QED BY <2>1, <2>2, AcceptedAlike, EmittedAlike DEF Allowed
<1> QED BY <1>1, SecrecyKept, PTL
=============================================================================
