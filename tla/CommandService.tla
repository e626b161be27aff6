--------------------------- MODULE CommandService ---------------------------
(***************************************************************************)
(* MatchCommandService (packages/db/src/command-service.ts) on one match:  *)
(* one serialised transaction per command, idempotency keyed by the        *)
(* command id in match_events, and the columns, event rows, result row and *)
(* analysis rows written beside the authoritative snapshot.                *)
(*                                                                         *)
(* Concurrent request handlers read the server clock first and wait for    *)
(* the row lock afterwards, so a transaction may carry any of the last     *)
(* MaxDelay readings, in any order.  A handler keeps nothing else: a crash *)
(* or a lost reply shows as a transaction that never ran, or as one whose  *)
(* client sends the same command again under the same id.                  *)
(***************************************************************************)
EXTENDS MatchCommands

CONSTANTS
    ReservationPairs, \* the reservation values a match may be created with
    Kinds,            \* the commands this instance issues
    MaxTime,          \* bound on the clock
    MaxDelay,         \* bound on the wait for the row lock
    MaxEvents         \* bound on the stored events while commands still come

ASSUME ServiceAssumption ==
    /\ ReservationPairs \subseteq [Player -> Amount]
    /\ Kinds \subseteq {"READY", "OFFER", "ACCEPT", "WALK_AWAY", "REVEAL", "MESSAGE",
                       "DISCONNECT", "RECONNECT", "ABORT", "TIMEOUT"}
    /\ MaxTime \in Nat
    /\ MaxDelay \in Nat
    /\ MaxEvents \in Nat

VARIABLES
    db,       \* the rows of the match
    created,  \* the match as it was created (what a replay starts from)
    clock     \* Date.now()

vars == <<db, created, clock>>

-----------------------------------------------------------------------------
(* The transaction                                                         *)

\* Bug: the state is asked for the turn after it has ended.
TimeoutPlayerOf_Active(m, events) == IF m.reason = "TIMED_OUT" THEN m.active ELSE None

\* timeoutPlayerIdOf: from the events of this command, whatever came before.
TimeoutPlayerOf(m, events) ==
    LET timedOut == {i \in DOMAIN events : events[i].type = "TIMED_OUT"} IN
    IF m.reason # "TIMED_OUT" \/ timedOut = {} THEN None
    ELSE events[CHOOSE i \in timedOut : \A j \in timedOut : i <= j].arg

LogEntry(m, id, events, i) ==
    [seq |-> m.seq + i, commandId |-> IF i = 1 THEN id ELSE None, event |-> events[i]]

\* The columns persistCommand copies from the state.
Columns(m) ==
    [status |-> m.status, active |-> m.active, settlement |-> m.settlement,
     reason |-> m.reason, seq |-> m.seq, startedAt |-> m.startedAt,
     completedAt |-> m.completedAt, chipsSpent |-> m.chipsSpent,
     cumulative |-> m.cumulative, opening |-> m.opening, latest |-> m.latest]

\* Bug: the row of whoever plays the match is updated, not the actor's.
PresenceEvents_Anyones(events, p) ==
    {i \in DOMAIN events : events[i].type \in {"PLAYER_DISCONNECTED", "PLAYER_RECONNECTED"}}

PresenceEvents(events, p) ==
    {i \in DOMAIN events :
        /\ events[i].type \in {"PLAYER_DISCONNECTED", "PLAYER_RECONNECTED"}
        /\ events[i].actor = p}

\* disconnectedAt of each participant after these events: the last of his own
\* tells.
AwaySince(away, events) ==
    [p \in Player |->
        LET own == PresenceEvents(events, p)
            last == events[CHOOSE i \in own : \A j \in own : j <= i]
        IN  IF own = {} THEN away[p]
            ELSE IF last.type = "PLAYER_DISCONNECTED" THEN last.at ELSE None]

OfferRows(m, events) ==
    {[seq |-> m.seq + i, player |-> events[i].actor, amount |-> events[i].arg.amount] :
        i \in {j \in DOMAIN events : events[j].type = "OFFER_SUBMITTED"}}

\* Written with the first MATCH_COMPLETED event; an upsert leaves it alone.
ResultRow(result, m, events) ==
    IF result = None /\ \E i \in DOMAIN events : events[i].type = "MATCH_COMPLETED"
    THEN m.economy ELSE result

\* persistAnalysis reads the whole stored stream (here: its length).
Analysed(analysed, m, log) == IF Terminal(m) THEN Len(log) ELSE analysed

\* Bug: the derived events of a command are not stored.
Persist_FirstEventOnly(d, id, c, at) ==
    LET after == Applied(d.match, c, at)
        events == Emitted(d.match, c, at)
        log == d.log \o [i \in 1 .. (IF events = <<>> THEN 0 ELSE 1) |->
                            LogEntry(d.match, id, events, i)]
    IN  [match |-> after, log |-> log, columns |-> Columns(after),
         timeoutPlayer |-> TimeoutPlayerOf(after, events),
         away |-> AwaySince(d.away, events),
         offers |-> d.offers \cup OfferRows(d.match, events),
         result |-> ResultRow(d.result, after, events),
         analysed |-> Analysed(d.analysed, after, log)]

\* persistCommand.  An accepted command without events still rewrites the
\* columns; a terminal match is analysed again over the stored stream.
Persist(d, id, c, at) ==
    LET after == Applied(d.match, c, at)
        events == Emitted(d.match, c, at)
        log == d.log \o [i \in DOMAIN events |-> LogEntry(d.match, id, events, i)]
    IN  [match |-> after, log |-> log, columns |-> Columns(after),
         timeoutPlayer |-> TimeoutPlayerOf(after, events),
         away |-> AwaySince(d.away, events),
         offers |-> d.offers \cup OfferRows(d.match, events),
         result |-> ResultRow(d.result, after, events),
         analysed |-> Analysed(d.analysed, after, log)]

\* createMatch and joinChallenge: a row and its snapshot, no events.
CreatedRow(m) ==
    [match |-> m, log |-> <<>>, columns |-> Columns(m), timeoutPlayer |-> None,
     away |-> [p \in Player |-> None], offers |-> {}, result |-> None,
     analysed |-> None]

\* acceptRematch: the two READY commands of the same transaction, the proposer's
\* and then the joiner's, under ids no client knows.
AcceptedRematch(m, proposer, at) ==
    Persist(Persist(CreatedRow(m), -1, Command("READY", proposer, None), at),
            -2, Command("READY", Other(proposer), None), at)

-----------------------------------------------------------------------------
(* Commands                                                                *)

KnownOffers ==
    {db.log[i].event.arg.id :
        i \in {j \in DOMAIN db.log : db.log[j].event.type = "OFFER_SUBMITTED"}}

\* What a client, the scheduler, the AI engine or presence may send as id.
Commands(kind, id) ==
    CASE kind = "OFFER" -> {OfferCommand(p, id, a) : p \in Player, a \in Amount}
      [] kind = "ACCEPT" -> {Command(kind, p, oid) : p \in Player, oid \in KnownOffers}
      [] kind = "REVEAL" -> {Command(kind, p, f) : p \in Player, f \in Fact}
      [] kind = "MESSAGE" -> {Command(kind, p, "text") : p \in Player}
      [] kind = "ABORT" -> {Command(kind, None, None)}
      [] OTHER -> {Command(kind, p, None) : p \in Player}

Init ==
    \E rv \in ReservationPairs, first \in Player :
        LET friend == CreatedMatch("FRIEND_LIVE", rv, first) IN
        /\ ValidMatchInput("FRIEND_LIVE", rv)
        /\ created = friend
        /\ db \in {CreatedRow(friend)} \cup {AcceptedRematch(friend, p, 0) : p \in Player}
        /\ clock = 0

\* Readings of the clock a handler that gets the lock now may hold.
Readings == {at \in 0 .. clock : clock - at <= MaxDelay}

\* Bug: only the last command is looked at.
Duplicate_LastOnly(log, id) == log # <<>> /\ log[Len(log)].commandId = id

\* The id already stands on a stored event (SI-004).
Duplicate(log, id) == \E i \in DOMAIN log : log[i].commandId = id

\* execute, from the row lock to the commit.  A refused command leaves no trace.
Execute(id, c, at) ==
    /\ db' = IF ~Duplicate(db.log, id) /\ Accepted(db.match, c, at)
             THEN Persist(db, id, c, at) ELSE db
    /\ UNCHANGED <<created, clock>>

\* A command under an id of its own.
Fresh(kind, at) ==
    /\ db.match.seq < MaxEvents
    /\ \E c \in Commands(kind, db.match.seq + 1) : Execute(db.match.seq + 1, c, at)

\* The client of a command that took effect never saw the reply, and sends it
\* again.
Resent(i, at) ==
    /\ db.match.seq < MaxEvents
    /\ db.log[i].commandId # None
    /\ Execute(db.log[i].commandId, CommandForEvent(db.log[i].event), at)

Tick == clock < MaxTime /\ clock' = clock + 1 /\ UNCHANGED <<db, created>>

Next ==
    \/ \E at \in Readings :
         \/ \E kind \in Kinds : Fresh(kind, at)
         \/ \E i \in DOMAIN db.log : Resent(i, at)
    \/ Tick

Spec == Init /\ [][Next]_vars

-----------------------------------------------------------------------------
(* Safety                                                                  *)

Events == [i \in DOMAIN db.log |-> db.log[i].event]

\* PRD-009: whatever order the commands were received, locked, retried and
\* lost in, the stored event stream alone rebuilds the stored snapshot, and
\* emits itself again, derived events included.
ReplayReproducesSnapshot ==
    Replay(created, Events) = Replaying(db.match, Events, FALSE)

\* SI-004: a command id takes effect at most once, and the stream has no gap:
\* the next event's number is always free.
ExactlyOnce ==
    /\ \A i, j \in DOMAIN db.log :
         db.log[i].commandId = db.log[j].commandId /\ db.log[i].commandId # None => i = j
    /\ \A i \in DOMAIN db.log : db.log[i].seq = i
    /\ db.match.seq = Len(db.log)

LastOffer(p) ==
    LET mine == {o \in db.offers : o.player = p}
    IN  IF mine = {} THEN None
        ELSE (CHOOSE o \in mine : \A other \in mine : other.seq <= o.seq).amount

\* The rows other readers use (profiles, result pages, matchmaking) never
\* disagree with the snapshot: the columns, presence, the latest offer of each
\* player among the offer rows, the economy of an end that was not an abort, and
\* an analysis of exactly the stored stream once the match is over
\* (command-service.ts:655-720, 802-869).
RowsMirrorSnapshot ==
    /\ db.columns = Columns(db.match)
    /\ \A p \in Player : db.away[p] # None <=> db.match.disconnected[p]
    /\ \A p \in Player : LastOffer(p) = db.match.latest[p]
    /\ db.result = IF db.match.status \in {"DEAL", "NO_DEAL"} THEN db.match.economy ELSE None
    /\ db.analysed = IF Terminal(db.match) THEN Len(db.log) ELSE None

-----------------------------------------------------------------------------
(* Action properties                                                       *)

\* GR-023: a command that waited for the lock with an old reading of the clock
\* never gives decision time back; charged time only grows.
ChargesOnlyGrow ==
    [][\A p \in Player : db'.match.cumulative[p] >= db.match.cumulative[p]]_vars

\* GR-024: a timeout stores the player who had the turn, and nothing but a later
\* commit without events, a presence command, erases that player again
\* (command-service.ts:693, timeoutPlayerIdOf).
TimedOutPlayerKept ==
    [][/\ db.match.reason = None /\ db'.match.reason = "TIMED_OUT" =>
             db'.timeoutPlayer = db.match.active
       /\ db.match.reason = "TIMED_OUT" /\ db'.timeoutPlayer # db.timeoutPlayer =>
             db'.timeoutPlayer = None /\ db'.log = db.log]_vars

B == INSTANCE Bargain WITH
        rv <- created.rv,
        bid <- db.columns.latest,
        outcome <- IF db.columns.status = "DEAL" THEN db.columns.settlement
                   ELSE IF db.columns.status \in {"NO_DEAL", "ABORTED"} THEN 0 ELSE None

\* What the durable rows go through, under retries, stale clocks and crashes,
\* is still the abstract bargain.
RowsImplementBargain == B!Spec
=============================================================================
