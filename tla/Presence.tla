------------------------------ MODULE Presence ------------------------------
(***************************************************************************)
(* Presence in the realtime layer (apps/api/src/realtime.ts) on one match: *)
(* sockets of the two players join and drop, match:join runs over several  *)
(* awaits, the last socket of a player to leave starts a debounced freeze, *)
(* and a returning player cancels it or resumes after it.                  *)
(*                                                                         *)
(* One Node process: what happens between two awaits is one step, and a    *)
(* restart empties its maps.  Clients open a new socket after a drop.  The *)
(* debounce is a timer that fires at any later time; clocks are the        *)
(* subject of MatchMachine.                                                *)
(***************************************************************************)
EXTENDS MatchDomain, FiniteSets

CONSTANTS
    Socket,   \* sockets clients open, each once
    Owner,    \* Owner[s]: the player behind the token of socket s
    Created,  \* the match as it was created
    MaxSeq,   \* bound on the events after which players make no move
    MaxRestarts  \* bound on restarts of the API process

ASSUME PresenceAssumption ==
    /\ Owner \in [Socket -> Player]
    /\ None \notin Socket
    /\ \E mode \in Mode, rv \in [Player -> Amount], first \in Player :
         Created = CreatedMatch(mode, rv, first)
    /\ {MaxSeq, MaxRestarts} \subseteq Nat

VARIABLES
    match,
    connected,      \* sockets that are connected and registered
    dropped,        \* sockets that are gone
    join,           \* how far the match:join handler of each socket is
    presence,       \* the sockets that watch the match, per player
    timers,         \* armed freeze timers, named by the socket whose drop armed them
    pendingFreeze,  \* the freeze timer the map holds for each player
    freezing,       \* DISCONNECT calls in progress, by the timer that made them
    smooth,         \* history: the joins, drops and freezes of a player were kept apart
                    \* since the last join he began with none of his in progress
    restarts

vars ==
    <<match, connected, dropped, join, presence, timers, pendingFreeze, freezing, smooth, restarts>>

Init ==
    /\ match = Started([Created EXCEPT !.ready = [p \in Player |-> TRUE]], 0)
    /\ connected = {}
    /\ dropped = {}
    /\ join = [s \in Socket |-> "none"]
    /\ presence = [p \in Player |-> {}]
    /\ timers = {}
    /\ pendingFreeze = [p \in Player |-> None]
    /\ freezing = {}
    /\ smooth = [p \in Player |-> TRUE]
    /\ restarts = 0

Joining(s) == join[s] \in {"checking", "reconnecting"}
JoiningPlayer(p) == \E s \in Socket : Owner[s] = p /\ Joining(s)
Freezing(p) == \E t \in freezing : Owner[t] = p

Settled(p) ==
    /\ ~JoiningPlayer(p)
    /\ ~Freezing(p)
    /\ \A t \in timers : Owner[t] # p

Rough(p, overlap) == smooth' = [smooth EXCEPT ![p] = @ /\ ~overlap]

-----------------------------------------------------------------------------
(* Sockets                                                                 *)

\* A verified token and user:register, on a socket not used before.
Connect(p) ==
    LET unused == {s \in Socket : Owner[s] = p} \ (connected \cup dropped) IN
    /\ unused # {}
    /\ connected' = connected \cup {CHOOSE s \in unused : TRUE}
    /\ UNCHANGED <<match, dropped, join, presence, timers, pendingFreeze, freezing, smooth, restarts>>

\* match:join counts the socket before its first await.
JoinStart(s) ==
    /\ s \in connected
    /\ join[s] = "none"
    /\ presence' = [presence EXCEPT ![Owner[s]] = @ \cup {s}]
    /\ join' = [join EXCEPT ![s] = "checking"]
    /\ smooth' = [smooth EXCEPT ![Owner[s]] =
                    Settled(Owner[s]) \/ (@ /\ ~Freezing(Owner[s]))]
    /\ UNCHANGED <<match, connected, dropped, timers, pendingFreeze, freezing, restarts>>

\* Bug: the socket is counted here, whether it is still connected or not.
JoinChecked_CountsNow(s) ==
    LET p == Owner[s] IN
    /\ join[s] = "checking"
    /\ join' = [join EXCEPT ![s] = "reconnecting"]
    /\ presence' = [presence EXCEPT ![p] = @ \cup {s}]
    /\ timers' = timers \ {pendingFreeze[p]}
    /\ pendingFreeze' = [pendingFreeze EXCEPT ![p] = None]
    /\ UNCHANGED <<match, connected, dropped, freezing, smooth, restarts>>

\* Bug: RECONNECT is sent only when there was a freeze to cancel.
JoinChecked_OnlyPending(s) ==
    LET p == Owner[s] IN
    /\ join[s] = "checking"
    /\ join' = [join EXCEPT ![s] = IF pendingFreeze[p] = None THEN "done" ELSE "reconnecting"]
    /\ timers' = timers \ {pendingFreeze[p]}
    /\ pendingFreeze' = [pendingFreeze EXCEPT ![p] = None]
    /\ UNCHANGED <<match, connected, dropped, presence, freezing, smooth, restarts>>

\* The participant row was found: the freeze the map holds is cancelled and the
\* service called.  The socket may be gone by now; nothing looks.
JoinChecked(s) ==
    LET p == Owner[s] IN
    /\ join[s] = "checking"
    /\ join' = [join EXCEPT ![s] = "reconnecting"]
    /\ timers' = timers \ {pendingFreeze[p]}
    /\ pendingFreeze' = [pendingFreeze EXCEPT ![p] = None]
    /\ UNCHANGED <<match, connected, dropped, presence, freezing, smooth, restarts>>

\* service.reconnect() commits.
JoinReconnected(s) ==
    /\ join[s] = "reconnecting"
    /\ join' = [join EXCEPT ![s] = "done"]
    /\ match' = AfterReconnect(match, Owner[s], 0)
    /\ UNCHANGED <<connected, dropped, presence, timers, pendingFreeze, freezing, smooth, restarts>>

\* Bug: the freeze is armed whenever a socket leaves.
Drop_AnySocket(s) ==
    LET p == Owner[s] IN
    /\ s \in connected
    /\ connected' = connected \ {s}
    /\ dropped' = dropped \cup {s}
    /\ presence' = [presence EXCEPT ![p] = @ \ {s}]
    /\ IF s \in presence[p]
       THEN /\ timers' = timers \cup {s}
            /\ pendingFreeze' = [pendingFreeze EXCEPT ![p] = s]
       ELSE UNCHANGED <<timers, pendingFreeze>>
    /\ Rough(p, Joining(s))
    /\ UNCHANGED <<match, join, freezing, restarts>>

\* The disconnect handler: the player's last watching socket arms a freeze, over
\* whatever the map holds.
Drop(s) ==
    LET p == Owner[s] IN
    /\ s \in connected
    /\ connected' = connected \ {s}
    /\ dropped' = dropped \cup {s}
    /\ presence' = [presence EXCEPT ![p] = @ \ {s}]
    /\ IF presence[p] = {s}
       THEN /\ timers' = timers \cup {s}
            /\ pendingFreeze' = [pendingFreeze EXCEPT ![p] = s]
       ELSE UNCHANGED <<timers, pendingFreeze>>
    /\ Rough(p, Joining(s))
    /\ UNCHANGED <<match, join, freezing, restarts>>

-----------------------------------------------------------------------------
(* The freeze                                                              *)

\* The debounce is over: the map forgets the player, the service is called.
FreezeFires(t) ==
    LET p == Owner[t] IN
    /\ t \in timers
    /\ timers' = timers \ {t}
    /\ pendingFreeze' = [pendingFreeze EXCEPT ![p] = None]
    /\ freezing' = freezing \cup {t}
    /\ Rough(p, JoiningPlayer(p))
    /\ UNCHANGED <<match, connected, dropped, join, presence, restarts>>

\* service.disconnect() commits.
FreezeCommits(t) ==
    /\ t \in freezing
    /\ freezing' = freezing \ {t}
    /\ match' = AfterDisconnect(match, Owner[t], 0)
    /\ UNCHANGED <<connected, dropped, join, presence, timers, pendingFreeze, smooth, restarts>>

\* Moves come over HTTP, from players with or without a socket.
Moves(p) ==
    /\ match.seq < MaxSeq
    /\ \/ \E a \in Amount :
             /\ CanOffer(match, p, a, 0)
             /\ match' = AfterOffer(match, p, match.seq + 1, a, 0)
       \/ CanWalkAway(match, p, 0) /\ match' = AfterWalkAway(match, 0)
    /\ UNCHANGED <<connected, dropped, join, presence, timers, pendingFreeze, freezing, smooth, restarts>>

\* The process restarts: its sockets, maps, timers and calls are gone, and no
\* boot scan looks at who was watching.
Restart ==
    /\ restarts < MaxRestarts
    /\ restarts' = restarts + 1
    /\ connected' = {}
    /\ dropped' = dropped \cup connected
    /\ join' = [s \in Socket |-> "none"]
    /\ presence' = [p \in Player |-> {}]
    /\ timers' = {}
    /\ pendingFreeze' = [p \in Player |-> None]
    /\ freezing' = {}
    /\ smooth' = [p \in Player |-> TRUE]
    /\ UNCHANGED match

Next ==
    \/ \E s \in Socket :
         \/ JoinStart(s) \/ JoinChecked(s) \/ JoinReconnected(s) \/ Drop(s)
         \/ FreezeFires(s) \/ FreezeCommits(s)
    \/ \E p \in Player : Connect(p) \/ Moves(p)
    \/ Restart

\* Handlers go on and timers fire.  Clients owe nothing.
Fairness ==
    \A s \in Socket :
        /\ WF_vars(JoinChecked(s))
        /\ WF_vars(JoinReconnected(s))
        /\ WF_vars(FreezeFires(s))
        /\ WF_vars(FreezeCommits(s))

Spec == Init /\ [][Next]_vars /\ Fairness

-----------------------------------------------------------------------------
(* Properties                                                              *)

\* realtime.ts:110, "a fast disconnect ... can never miss the socket": no
\* socket that is gone is counted as watching, at any await of its join.
NoGhostPresence == \A p \in Player : presence[p] \subseteq connected

Watched(p) == \E s \in Socket : Owner[s] = p /\ join[s] = "done"

\* GR-015: once all calls have settled, a player who has watched a live match
\* since the process started is marked disconnected exactly when no socket of his
\* is left, so that the clock of someone who left stands still and that of someone
\* who is back runs.  A socket of his that drops inside its join, and a freeze
\* that fires or commits inside a join of his, may break it (see README) until his
\* next join that begins when all has settled.
PresenceMirrored ==
    \A p \in Player :
        Settled(p) /\ smooth[p] /\ Watched(p) /\ ~Terminal(match)
            => (match.disconnected[p] <=> presence[p] = {})

\* A paused match waits for a player who is really away; the player everyone
\* waits for resumes it by joining, and nothing else has to happen first.
ReturnResumes ==
    \A p \in Player :
        (match.status = "PAUSED" /\ match.active = p /\ presence[p] # {} /\ smooth[p])
            ~> (match.status # "PAUSED" \/ presence[p] = {} \/ ~smooth[p])
=============================================================================
