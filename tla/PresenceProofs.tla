--------------------------- MODULE PresenceProofs ---------------------------
(***************************************************************************)
(* Machine-checked facts about Presence, for any number of sockets, owners *)
(* and restarts.                                                           *)
(***************************************************************************)
EXTENDS Presence, MatchDomainProofs

\* Presence is counted under the owner of the socket, and only while it lasts.
CountedByOwner ==
    /\ connected \in SUBSET Socket
    /\ presence \in [Player -> SUBSET Socket]
    /\ \A p \in Player : \A s \in presence[p] : s \in connected /\ Owner[s] = p

\* Before the first socket there is nothing to count.
LEMMA CountedInit == Init => CountedByOwner
BY DEF Init, CountedByOwner

\* Joins count a connected socket under its owner; the drop of a socket takes
\* it from the only set it can be in.
LEMMA CountedStep == CountedByOwner /\ [Next]_vars => CountedByOwner'
<1> SUFFICES ASSUME CountedByOwner, [Next]_vars
             PROVE  CountedByOwner'
    OBVIOUS
<1> USE PresenceAssumption DEF CountedByOwner
<1>1. ASSUME NEW s \in Socket, JoinStart(s)
      PROVE  CountedByOwner'
    BY <1>1 DEF JoinStart
<1>2. ASSUME NEW s \in Socket, Drop(s)
      PROVE  CountedByOwner'
    BY <1>2 DEF Drop
<1>3. ASSUME NEW p \in Player, Connect(p)
      PROVE  CountedByOwner'
    <2>1. connected' \in SUBSET Socket /\ connected \subseteq connected'
        BY <1>3 DEF Connect
    <2>2. presence' = presence
        BY <1>3 DEF Connect
    <2> QED
        BY <2>1, <2>2
<1>4. CASE Restart
    BY <1>4 DEF Restart
<1>5. ASSUME NEW s \in Socket,
             JoinChecked(s) \/ JoinReconnected(s) \/ FreezeFires(s) \/ FreezeCommits(s)
      PROVE  CountedByOwner'
    BY <1>5 DEF JoinChecked, JoinReconnected, FreezeFires, FreezeCommits
<1>6. ASSUME NEW p \in Player, Moves(p)
      PROVE  CountedByOwner'
    BY <1>6 DEF Moves
<1>7. CASE UNCHANGED vars
    BY <1>7 DEF vars
<1> QED
    BY <1>1, <1>2, <1>3, <1>4, <1>5, <1>6, <1>7 DEF Next

\* realtime.ts:105-112, 152-158: however many sockets join and drop, and at
\* whatever await of its join a socket is lost, none that is gone is counted.
THEOREM NoGhosts == Spec => []NoGhostPresence
<1>1. CountedByOwner => NoGhostPresence
    BY DEF CountedByOwner, NoGhostPresence
<1> QED
    BY CountedInit, CountedStep, <1>1, PTL DEF Spec

-----------------------------------------------------------------------------
(* Types                                                                   *)

MapsOK ==
    /\ match \in Match
    /\ join \in [Socket -> {"none", "checking", "reconnecting", "done"}]
    /\ timers \in SUBSET Socket
    /\ freezing \in SUBSET Socket
    /\ pendingFreeze \in [Player -> Socket \cup {None}]
    /\ smooth \in [Player -> BOOLEAN]
    /\ \A p \in Player :
         /\ pendingFreeze[p] # None => Owner[pendingFreeze[p]] = p
         /\ \A s \in presence[p] : join[s] # "none"

\* A freeze marks its player and nobody else, and does not end a match.
LEMMA FreezeMarks ==
    ASSUME NEW m \in Match, NEW p \in Player, NEW q \in Player
    PROVE  LET n == AfterDisconnect(m, p, 0) IN
           /\ n \in Match
           /\ Terminal(n) <=> Terminal(m)
           /\ ~Terminal(m) => n.disconnected[p]
           /\ q # p => n.disconnected[q] = m.disconnected[q]
<1>1. AfterDisconnect(m, p, 0) \in Match
    BY PresenceType
<1> QED
    <2> DEFINE n == AfterDisconnect(m, p, 0)
    <2>1. CASE Terminal(m) \/ m.disconnected[p]
        BY <1>1, <2>1 DEF AfterDisconnect
    <2>2. CASE ~(Terminal(m) \/ m.disconnected[p])
        <3>1. n.disconnected = [m.disconnected EXCEPT ![p] = TRUE]
            BY <2>2 DEF AfterDisconnect, Handover, Match
        <3>2. n.status = m.status \/ n.status = "PAUSED"
            BY <2>2 DEF AfterDisconnect, Handover, Match
        <3>3. m.disconnected \in [Player -> BOOLEAN]
            BY DEF Match
        <3> HIDE DEF n
        <3>4. n.disconnected[p] /\ (q # p => n.disconnected[q] = m.disconnected[q])
            BY <3>1, <3>3
        <3> QED
            BY <1>1, <2>2, <3>2, <3>4 DEF Terminal, n
    <2> QED
        BY <2>1, <2>2

\* A return unmarks its player and nobody else, and does not end a match.
LEMMA ReturnUnmarks ==
    ASSUME NEW m \in Match, NEW p \in Player, NEW q \in Player
    PROVE  LET n == AfterReconnect(m, p, 0) IN
           /\ n \in Match
           /\ Terminal(n) <=> Terminal(m)
           /\ ~Terminal(m) => ~n.disconnected[p]
           /\ q # p => n.disconnected[q] = m.disconnected[q]
<1>1. AfterReconnect(m, p, 0) \in Match
    BY PresenceType
<1> QED
    <2> DEFINE n == AfterReconnect(m, p, 0)
    <2>1. CASE Terminal(m) \/ ~m.disconnected[p]
        BY <1>1, <2>1 DEF AfterReconnect
    <2>2. CASE ~(Terminal(m) \/ ~m.disconnected[p])
        <3>1. n.disconnected = [m.disconnected EXCEPT ![p] = FALSE]
            BY <2>2 DEF AfterReconnect, Resumed, Match
        <3>2. n.status = m.status \/ n.status = "ACTIVE"
            BY <2>2 DEF AfterReconnect, Resumed, Match
        <3>3. m.disconnected \in [Player -> BOOLEAN]
            BY DEF Match
        <3> HIDE DEF n
        <3>4. ~n.disconnected[p] /\ (q # p => n.disconnected[q] = m.disconnected[q])
            BY <3>1, <3>3
        <3> QED
            BY <1>1, <2>2, <3>2, <3>4 DEF Terminal, n
    <2> QED
        BY <2>1, <2>2

\* A move marks nobody, and a match that ends stays ended.
LEMMA MoveMarksNobody ==
    ASSUME match \in Match, NEW p \in Player, Moves(p)
    PROVE  /\ match' \in Match
           /\ match'.disconnected = match.disconnected
           /\ Terminal(match) => Terminal(match')
<1>1. ASSUME NEW a \in Amount, CanOffer(match, p, a, 0),
             match' = AfterOffer(match, p, match.seq + 1, a, 0)
      PROVE  /\ match' \in Match
             /\ match'.disconnected = match.disconnected
             /\ Terminal(match) => Terminal(match')
    <2>1. match.seq + 1 \in Nat /\ 0 \in Nat
        BY DEF Match
    <2>2. match' \in Match
        BY <1>1, <2>1, OfferType
    <2>3. match'.disconnected = match.disconnected
        BY <1>1, OfferTurn
    <2>4. ~Terminal(match)
        BY <1>1 DEF CanOffer, HasTurn, Terminal
    <2> QED
        BY <2>2, <2>3, <2>4
<1>2. ASSUME CanWalkAway(match, p, 0), match' = AfterWalkAway(match, 0)
      PROVE  /\ match' \in Match
             /\ match'.disconnected = match.disconnected
             /\ Terminal(match) => Terminal(match')
    <2>1. match' \in Match
        BY <1>2, EndingsType
    <2>2. match'.disconnected = match.disconnected /\ match'.status = "NO_DEAL"
        BY <1>2 DEF AfterWalkAway, Ended, Handover, Match
    <2> QED
        BY <2>1, <2>2 DEF Terminal
<1> QED
    BY <1>1, <1>2 DEF Moves

\* The match of a fresh process has started, and nobody has been marked.
LEMMA MapsInit == Init => MapsOK
<1> SUFFICES ASSUME Init PROVE MapsOK
    OBVIOUS
<1>1. PICK mode \in Mode, rv \in [Player -> Amount], first \in Player :
          Created = CreatedMatch(mode, rv, first)
    BY PresenceAssumption
<1>2. Created \in Match
    BY <1>1, CreatedType
<1> DEFINE readied == [Created EXCEPT !.ready = [p \in Player |-> TRUE]]
<1>3. readied \in Match
    BY <1>2 DEF Match
<1> HIDE DEF readied
<1>4. Started(readied, 0) \in Match
    BY <1>3, StartedType
<1>5. match \in Match
    BY <1>4 DEF Init, readied
<1> QED
    BY <1>5 DEF Init, MapsOK

\* The maps hold sockets, each under its owner.
LEMMA MapsStep == CountedByOwner /\ MapsOK /\ [Next]_vars => MapsOK'
<1> SUFFICES ASSUME CountedByOwner, MapsOK, [Next]_vars PROVE MapsOK'
    OBVIOUS
<1> USE PresenceAssumption DEF MapsOK
<1>1. ASSUME NEW s \in Socket, JoinStart(s) PROVE MapsOK'
    BY <1>1 DEF JoinStart, Rough, CountedByOwner
<1>2. ASSUME NEW s \in Socket, JoinChecked(s) PROVE MapsOK'
    BY <1>2 DEF JoinChecked
<1>3. ASSUME NEW s \in Socket, JoinReconnected(s) PROVE MapsOK'
    <2>1. match' \in Match
        BY <1>3, ReturnUnmarks DEF JoinReconnected
    <2> QED
        BY <1>3, <2>1 DEF JoinReconnected
<1>4. ASSUME NEW s \in Socket, Drop(s) PROVE MapsOK'
    BY <1>4 DEF Drop, Rough, CountedByOwner
<1>5. ASSUME NEW t \in Socket, FreezeFires(t) PROVE MapsOK'
    BY <1>5 DEF FreezeFires, Rough
<1>6. ASSUME NEW t \in Socket, FreezeCommits(t) PROVE MapsOK'
    <2>1. match' \in Match
        BY <1>6, FreezeMarks DEF FreezeCommits
    <2> QED
        BY <1>6, <2>1 DEF FreezeCommits
<1>7. ASSUME NEW p \in Player, Connect(p) PROVE MapsOK'
    BY <1>7 DEF Connect
<1>8. ASSUME NEW p \in Player, Moves(p) PROVE MapsOK'
    BY <1>8, MoveMarksNobody DEF Moves
<1>9. CASE Restart
    BY <1>9 DEF Restart
<1>10. CASE UNCHANGED vars
    BY <1>10 DEF vars
<1> QED
    BY <1>1, <1>2, <1>3, <1>4, <1>5, <1>6, <1>7, <1>8, <1>9, <1>10 DEF Next

-----------------------------------------------------------------------------
(* Joins, drops and freezes of a player kept apart                         *)

\* Every join in progress is of a socket that is counted.
JoinersCounted(p) == \A s \in Socket : Owner[s] = p /\ Joining(s) => s \in presence[p]

\* The only armed freeze is the one the map holds, and whoever came since has
\* yet to cancel it.
OneFreeze(p) ==
    \A t \in timers : Owner[t] = p =>
        pendingFreeze[p] = t /\ \A s \in presence[p] : join[s] = "checking"

FreezesAlone(p) == Freezing(p) => presence[p] = {}

\* A player who left is marked, or about to be.
LeaverMarked(p) ==
    ~Terminal(match) /\ Watched(p) /\ presence[p] = {} =>
        match.disconnected[p] \/ Freezing(p) \/ \E t \in timers : Owner[t] = p

\* A player whose join is through is not marked, unless another is under way.
WatcherUnmarked(p) ==
    ~Terminal(match) /\ (\E s \in presence[p] : join[s] = "done")
        => ~match.disconnected[p] \/ JoiningPlayer(p)

Apart(p) ==
    /\ JoinersCounted(p)
    /\ OneFreeze(p)
    /\ FreezesAlone(p)
    /\ LeaverMarked(p)
    /\ WatcherUnmarked(p)

SmoothApart == \A p \in Player : smooth[p] => Apart(p)

PresenceInv == CountedByOwner /\ MapsOK /\ SmoothApart

\* A step that concerns another player.
Untouched(q) ==
    /\ presence'[q] = presence[q]
    /\ pendingFreeze'[q] = pendingFreeze[q]
    /\ \A s \in Socket : Owner[s] = q =>
         /\ join'[s] = join[s]
         /\ s \in timers' <=> s \in timers
         /\ s \in freezing' <=> s \in freezing
    /\ match'.disconnected[q] = match.disconnected[q]
    /\ Terminal(match) => Terminal(match')

\* It changes nothing of this one.
LEMMA UntouchedApart ==
    ASSUME PresenceInv, CountedByOwner', MapsOK', NEW q \in Player, Apart(q), Untouched(q)
    PROVE  Apart(q)'
<1>1. /\ \A s \in presence[q] : s \in Socket /\ Owner[s] = q
      /\ timers \subseteq Socket /\ freezing \subseteq Socket
      /\ timers' \subseteq Socket /\ freezing' \subseteq Socket
    BY DEF PresenceInv, CountedByOwner, MapsOK
<1>2. JoinersCounted(q)'
    BY DEF Apart, Untouched, JoinersCounted, Joining
<1>3. OneFreeze(q)'
    BY <1>1 DEF Apart, Untouched, OneFreeze
<1>4. FreezesAlone(q)'
    BY <1>1 DEF Apart, Untouched, FreezesAlone, Freezing
<1>5. LeaverMarked(q)'
    <2>1. Watched(q)' => Watched(q)
        BY DEF Untouched, Watched
    <2>2. Freezing(q) => Freezing(q)'
        BY <1>1 DEF Untouched, Freezing
    <2>3. (\E t \in timers : Owner[t] = q) => \E t \in timers' : Owner[t] = q
        BY <1>1 DEF Untouched
    <2> QED
        BY <2>1, <2>2, <2>3 DEF Apart, Untouched, LeaverMarked
<1>6. WatcherUnmarked(q)'
    BY <1>1 DEF Apart, Untouched, WatcherUnmarked, JoiningPlayer, Joining
<1> QED
    BY <1>2, <1>3, <1>4, <1>5, <1>6 DEF Apart

\* A join starts when no freeze is on its way, or when all has settled.
LEMMA JoinStartApart ==
    ASSUME PresenceInv, CountedByOwner', MapsOK', NEW s \in Socket, JoinStart(s),
           NEW q \in Player, smooth'[q]
    PROVE  Apart(q)'
<1>1. Owner[s] \in Player /\ join[s] = "none" /\ s \in connected
    BY PresenceAssumption DEF JoinStart
<1>2. CASE q # Owner[s]
    <2>1. smooth[q]
        BY <1>1, <1>2 DEF PresenceInv, MapsOK, JoinStart
    <2>2. Apart(q)
        BY <2>1 DEF PresenceInv, SmoothApart
    <2>3. Untouched(q)
        BY <1>1, <1>2 DEF JoinStart, Untouched, PresenceInv, CountedByOwner, MapsOK
    <2> QED
        BY <2>2, <2>3, UntouchedApart
<1>3. q = Owner[s] => Settled(q) \/ (smooth[q] /\ ~Freezing(q))
    BY <1>1 DEF PresenceInv, MapsOK, JoinStart
<1>4. q = Owner[s] => Settled(q) \/ (Apart(q) /\ ~Freezing(q))
    BY <1>3 DEF PresenceInv, SmoothApart
<1>5. CASE q = Owner[s]
    <2>0. /\ presence'[q] = presence[q] \cup {s}
          /\ join' = [join EXCEPT ![s] = "checking"]
          /\ UNCHANGED <<match, timers, pendingFreeze, freezing>>
          /\ join \in [Socket -> {"none", "checking", "reconnecting", "done"}]
          /\ presence[q] \subseteq Socket /\ timers \subseteq Socket
        BY <1>1, <1>5 DEF JoinStart, PresenceInv, CountedByOwner, MapsOK
    <2>1. JoinersCounted(q)'
        BY <1>4, <1>5, <2>0 DEF Apart, Settled, JoiningPlayer, JoinersCounted, Joining
    <2>2. OneFreeze(q)'
        BY <1>4, <1>5, <2>0 DEF Apart, Settled, OneFreeze
    <2>3. FreezesAlone(q)'
        BY <1>4, <1>5, <2>0 DEF Settled, FreezesAlone, Freezing
    <2>4. LeaverMarked(q)'
        BY <2>0 DEF LeaverMarked
    <2>5. JoiningPlayer(q)'
        BY <1>5, <2>0 DEF JoiningPlayer, Joining
    <2>6. WatcherUnmarked(q)'
        BY <2>5 DEF WatcherUnmarked
    <2> QED
        BY <2>1, <2>2, <2>3, <2>4, <2>6 DEF Apart
<1> QED
    BY <1>2, <1>5

\* Past its first await a join cancels the one freeze there is.
LEMMA JoinCheckedApart ==
    ASSUME PresenceInv, CountedByOwner', MapsOK', NEW s \in Socket, JoinChecked(s),
           NEW q \in Player, smooth'[q]
    PROVE  Apart(q)'
<1>1. Owner[s] \in Player /\ join[s] = "checking" /\ smooth' = smooth
    BY PresenceAssumption DEF JoinChecked
<1>2. Apart(q)
    BY <1>1 DEF PresenceInv, SmoothApart
<1>3. CASE q # Owner[s]
    <2>1. \A t \in Socket : Owner[t] = q => (t \in timers' <=> t \in timers)
        BY <1>1, <1>3, PresenceAssumption DEF JoinChecked, PresenceInv, MapsOK
    <2>2. Untouched(q)
        BY <1>1, <1>3, <2>1 DEF JoinChecked, Untouched, PresenceInv, MapsOK
    <2> QED
        BY <1>2, <2>2, UntouchedApart
<1>4. CASE q = Owner[s]
    <2>0. /\ join' = [join EXCEPT ![s] = "reconnecting"]
          /\ UNCHANGED <<match, presence, freezing>>
          /\ timers' = timers \ {pendingFreeze[q]}
          /\ join \in [Socket -> {"none", "checking", "reconnecting", "done"}]
          /\ presence[q] \subseteq Socket /\ timers \subseteq Socket
        BY <1>4 DEF JoinChecked, PresenceInv, CountedByOwner, MapsOK
    <2>1. s \in presence[q]
        BY <1>1, <1>2, <1>4 DEF Apart, JoinersCounted, Joining
    <2>2. JoinersCounted(q)'
        BY <1>2, <2>0, <2>1 DEF Apart, JoinersCounted, Joining
    <2>3. OneFreeze(q)'
        BY <1>2, <2>0 DEF Apart, OneFreeze
    <2>4. FreezesAlone(q)'
        BY <1>2, <2>0 DEF Apart, FreezesAlone, Freezing
    <2>5. LeaverMarked(q)'
        BY <2>0, <2>1 DEF LeaverMarked
    <2>6. WatcherUnmarked(q)'
        BY <1>4, <2>0 DEF WatcherUnmarked, JoiningPlayer, Joining
    <2> QED
        BY <2>2, <2>3, <2>4, <2>5, <2>6 DEF Apart
<1> QED
    BY <1>3, <1>4

\* A join that is through has unmarked its player.
LEMMA JoinReconnectedApart ==
    ASSUME PresenceInv, CountedByOwner', MapsOK', NEW s \in Socket, JoinReconnected(s),
           NEW q \in Player, smooth'[q]
    PROVE  Apart(q)'
<1>1. Owner[s] \in Player /\ join[s] = "reconnecting" /\ smooth' = smooth /\ match \in Match
    BY PresenceAssumption DEF JoinReconnected, PresenceInv, MapsOK
<1>2. Apart(q)
    BY <1>1 DEF PresenceInv, SmoothApart
<1>3. /\ Terminal(match') <=> Terminal(match)
      /\ ~Terminal(match) => ~match'.disconnected[Owner[s]]
      /\ q # Owner[s] => match'.disconnected[q] = match.disconnected[q]
    BY <1>1, ReturnUnmarks DEF JoinReconnected
<1>4. CASE q # Owner[s]
    <2>1. Untouched(q)
        BY <1>1, <1>3, <1>4 DEF JoinReconnected, Untouched, PresenceInv, MapsOK
    <2> QED
        BY <1>2, <2>1, UntouchedApart
<1>5. CASE q = Owner[s]
    <2>0. /\ join' = [join EXCEPT ![s] = "done"]
          /\ UNCHANGED <<presence, timers, pendingFreeze, freezing>>
          /\ join \in [Socket -> {"none", "checking", "reconnecting", "done"}]
          /\ presence[q] \subseteq Socket /\ timers \subseteq Socket
        BY DEF JoinReconnected, PresenceInv, CountedByOwner, MapsOK
    <2>1. s \in presence[q]
        BY <1>1, <1>2, <1>5 DEF Apart, JoinersCounted, Joining
    <2>2. JoinersCounted(q)'
        BY <1>2, <2>0, <2>1 DEF Apart, JoinersCounted, Joining
    <2>3. OneFreeze(q)'
        BY <1>1, <1>2, <2>0, <2>1 DEF Apart, OneFreeze
    <2>4. FreezesAlone(q)'
        BY <1>2, <2>0 DEF Apart, FreezesAlone, Freezing
    <2>5. LeaverMarked(q)'
        BY <2>0, <2>1 DEF LeaverMarked
    <2>6. WatcherUnmarked(q)'
        BY <1>3, <1>5 DEF WatcherUnmarked
    <2> QED
        BY <2>2, <2>3, <2>4, <2>5, <2>6 DEF Apart
<1> QED
    BY <1>4, <1>5

\* The last socket to leave, its join through, arms the one freeze.
LEMMA DropApart ==
    ASSUME PresenceInv, CountedByOwner', MapsOK', NEW s \in Socket, Drop(s),
           NEW q \in Player, smooth'[q]
    PROVE  Apart(q)'
<1>1. Owner[s] \in Player /\ s \in connected
    BY PresenceAssumption DEF Drop
<1>2. smooth[q] /\ (q = Owner[s] => ~Joining(s))
    BY <1>1 DEF PresenceInv, MapsOK, Drop, Rough
<1>3. Apart(q)
    BY <1>2 DEF PresenceInv, SmoothApart
<1>4. CASE q # Owner[s]
    <2>1. \A t \in Socket : Owner[t] = q => (t \in timers' <=> t \in timers)
        BY <1>1, <1>4 DEF Drop
    <2>2. Untouched(q)
        BY <1>1, <1>4, <2>1 DEF Drop, Untouched, PresenceInv, CountedByOwner, MapsOK
    <2> QED
        BY <1>3, <2>2, UntouchedApart
<1>5. CASE q = Owner[s]
    <2>0. /\ presence'[q] = presence[q] \ {s}
          /\ UNCHANGED <<match, join, freezing>>
          /\ presence[q] \subseteq Socket /\ timers \subseteq Socket
          /\ join \in [Socket -> {"none", "checking", "reconnecting", "done"}]
        BY <1>1, <1>5 DEF Drop, PresenceInv, CountedByOwner, MapsOK
    <2>1. JoinersCounted(q)'
        BY <1>2, <1>3, <1>5, <2>0 DEF Apart, JoinersCounted, Joining
    <2>2. FreezesAlone(q)'
        BY <1>3, <2>0 DEF Apart, FreezesAlone, Freezing
    <2>3. WatcherUnmarked(q)'
        BY <1>2, <1>3, <1>5, <2>0 DEF Apart, WatcherUnmarked, JoiningPlayer, Joining
    <2>4. CASE presence[q] = {s}
        <3>1. timers' = timers \cup {s} /\ pendingFreeze'[q] = s /\ presence'[q] = {}
            BY <1>5, <2>0, <2>4 DEF Drop, PresenceInv, MapsOK
        <3>2. join[s] # "checking"
            BY <1>2, <1>5 DEF Joining
        <3>3. \A t \in timers : Owner[t] # q
            BY <1>3, <2>4, <3>2 DEF Apart, OneFreeze
        <3>4. OneFreeze(q)'
            BY <3>1, <3>3 DEF OneFreeze
        <3>5. LeaverMarked(q)'
            BY <1>5, <3>1 DEF LeaverMarked
        <3> QED
            BY <2>1, <2>2, <2>3, <3>4, <3>5 DEF Apart
    <2>5. CASE presence[q] # {s}
        <3>1. UNCHANGED <<timers, pendingFreeze>>
            BY <1>5, <2>5 DEF Drop
        <3>2. OneFreeze(q)'
            BY <1>3, <2>0, <3>1 DEF Apart, OneFreeze
        <3>3. presence'[q] = {} => presence[q] = {}
            BY <2>0, <2>5
        <3>4. LeaverMarked(q)'
            BY <1>3, <2>0, <3>1, <3>3 DEF Apart, LeaverMarked, Watched, Freezing
        <3> QED
            BY <2>1, <2>2, <2>3, <3>2, <3>4 DEF Apart
    <2> QED
        BY <2>4, <2>5
<1> QED
    BY <1>4, <1>5

\* A freeze fires when its player joins nothing, and so watches nothing.
LEMMA FreezeFiresApart ==
    ASSUME PresenceInv, CountedByOwner', MapsOK', NEW t \in Socket, FreezeFires(t),
           NEW q \in Player, smooth'[q]
    PROVE  Apart(q)'
<1>1. Owner[t] \in Player /\ t \in timers
    BY PresenceAssumption DEF FreezeFires
<1>2. smooth[q] /\ (q = Owner[t] => ~JoiningPlayer(q))
    BY <1>1 DEF PresenceInv, MapsOK, FreezeFires, Rough
<1>3. Apart(q)
    BY <1>2 DEF PresenceInv, SmoothApart
<1>4. CASE q # Owner[t]
    <2>1. Untouched(q)
        BY <1>1, <1>4 DEF FreezeFires, Untouched, PresenceInv, MapsOK
    <2> QED
        BY <1>3, <2>1, UntouchedApart
<1>5. CASE q = Owner[t]
    <2>0. /\ UNCHANGED <<match, join, presence>>
          /\ timers' = timers \ {t} /\ freezing' = freezing \cup {t}
          /\ \A s \in presence[q] : s \in Socket /\ Owner[s] = q
        BY DEF FreezeFires, PresenceInv, CountedByOwner
    <2>1. presence[q] = {}
        BY <1>1, <1>2, <1>3, <1>5, <2>0 DEF Apart, OneFreeze, JoiningPlayer, Joining
    <2>2. \A u \in timers' : Owner[u] # q
        BY <1>1, <1>3, <1>5, <2>0 DEF Apart, OneFreeze
    <2>3. JoinersCounted(q)'
        BY <1>3, <2>0 DEF Apart, JoinersCounted, Joining
    <2>4. OneFreeze(q)' /\ FreezesAlone(q)' /\ WatcherUnmarked(q)'
        BY <2>0, <2>1, <2>2 DEF OneFreeze, FreezesAlone, WatcherUnmarked
    <2>5. LeaverMarked(q)'
        BY <1>5, <2>0 DEF LeaverMarked, Freezing
    <2> QED
        BY <2>3, <2>4, <2>5 DEF Apart
<1> QED
    BY <1>4, <1>5

\* What it commits is the mark of a player who watches nothing.
LEMMA FreezeCommitsApart ==
    ASSUME PresenceInv, CountedByOwner', MapsOK', NEW t \in Socket, FreezeCommits(t),
           NEW q \in Player, smooth'[q]
    PROVE  Apart(q)'
<1>1. Owner[t] \in Player /\ t \in freezing /\ smooth' = smooth /\ match \in Match
    BY PresenceAssumption DEF FreezeCommits, PresenceInv, MapsOK
<1>2. Apart(q)
    BY <1>1 DEF PresenceInv, SmoothApart
<1>3. /\ Terminal(match') <=> Terminal(match)
      /\ ~Terminal(match) => match'.disconnected[Owner[t]]
      /\ q # Owner[t] => match'.disconnected[q] = match.disconnected[q]
    BY <1>1, FreezeMarks DEF FreezeCommits
<1>4. CASE q # Owner[t]
    <2>1. Untouched(q)
        BY <1>1, <1>3, <1>4 DEF FreezeCommits, Untouched
    <2> QED
        BY <1>2, <2>1, UntouchedApart
<1>5. CASE q = Owner[t]
    <2>0. /\ UNCHANGED <<join, presence, timers, pendingFreeze>>
          /\ freezing' = freezing \ {t}
        BY DEF FreezeCommits
    <2>1. presence[q] = {}
        BY <1>1, <1>2, <1>5 DEF Apart, FreezesAlone, Freezing
    <2>2. JoinersCounted(q)' /\ OneFreeze(q)'
        BY <1>2, <2>0 DEF Apart, JoinersCounted, OneFreeze, Joining
    <2>3. FreezesAlone(q)' /\ WatcherUnmarked(q)'
        BY <2>0, <2>1 DEF FreezesAlone, WatcherUnmarked
    <2>4. LeaverMarked(q)'
        BY <1>3, <1>5 DEF LeaverMarked
    <2> QED
        BY <2>2, <2>3, <2>4 DEF Apart
<1> QED
    BY <1>4, <1>5

\* Nothing is watched, joined or frozen in a fresh process.
LEMMA FreshApart ==
    ASSUME timers = {}, freezing = {}, join = [s \in Socket |-> "none"],
           presence = [p \in Player |-> {}]
    PROVE  SmoothApart
<1> SUFFICES ASSUME NEW p \in Player PROVE Apart(p)
    BY DEF SmoothApart
<1>1. presence[p] = {} /\ ~Watched(p) /\ \A s \in Socket : ~Joining(s)
    BY DEF Watched, Joining
<1> QED
    BY <1>1 DEF Apart, JoinersCounted, OneFreeze, FreezesAlone, Freezing, LeaverMarked,
                WatcherUnmarked

\* It holds at the start.
LEMMA PresenceInit == Init => PresenceInv
BY CountedInit, MapsInit, FreshApart DEF Init, PresenceInv

\* Every step keeps it.
LEMMA PresenceStep == PresenceInv /\ [Next]_vars => PresenceInv'
<1> SUFFICES ASSUME PresenceInv, [Next]_vars PROVE PresenceInv'
    OBVIOUS
<1>0. CountedByOwner' /\ MapsOK'
    BY CountedStep, MapsStep DEF PresenceInv
<1>1. ASSUME NEW s \in Socket,
             JoinStart(s) \/ JoinChecked(s) \/ JoinReconnected(s) \/ Drop(s)
             \/ FreezeFires(s) \/ FreezeCommits(s)
      PROVE  SmoothApart'
    BY <1>0, <1>1, JoinStartApart, JoinCheckedApart, JoinReconnectedApart, DropApart,
       FreezeFiresApart, FreezeCommitsApart DEF SmoothApart
<1>2. ASSUME smooth' = smooth, \A q \in Player : Untouched(q) PROVE SmoothApart'
    <2>1. ASSUME NEW q \in Player, smooth'[q] PROVE Apart(q)'
        BY <1>0, <1>2, <2>1, UntouchedApart DEF PresenceInv, SmoothApart
    <2> QED
        BY <2>1 DEF SmoothApart
<1>3. ASSUME NEW p \in Player, Connect(p) PROVE SmoothApart'
    BY <1>2, <1>3 DEF Connect, Untouched
<1>4. ASSUME NEW p \in Player, Moves(p) PROVE SmoothApart'
    <2>1. /\ match'.disconnected = match.disconnected
          /\ Terminal(match) => Terminal(match')
        BY <1>4, MoveMarksNobody DEF PresenceInv, MapsOK
    <2> QED
        BY <1>2, <1>4, <2>1 DEF Moves, Untouched
<1>5. ASSUME Restart PROVE SmoothApart'
    <2>1. /\ timers' = {} /\ freezing' = {} /\ join' = [s \in Socket |-> "none"]
          /\ presence' = [p \in Player |-> {}]
        BY <1>5 DEF Restart
    <2>2. ASSUME NEW p \in Player PROVE Apart(p)'
        <3>1. presence'[p] = {} /\ ~Watched(p)' /\ \A s \in Socket : ~Joining(s)'
            BY <2>1 DEF Watched, Joining
        <3> QED
            BY <2>1, <3>1 DEF Apart, JoinersCounted, OneFreeze, FreezesAlone, Freezing,
                              LeaverMarked, WatcherUnmarked
    <2> QED
        BY <2>2 DEF SmoothApart
<1>6. ASSUME UNCHANGED vars PROVE SmoothApart'
    BY <1>2, <1>6 DEF vars, Untouched
<1>7. SmoothApart'
    BY <1>1, <1>3, <1>4, <1>5, <1>6 DEF Next
<1> QED
    BY <1>0, <1>7 DEF PresenceInv

\* GR-015 (realtime.ts:90-160), for any number of sockets, players behind them
\* and restarts: once its calls have settled, a live match marks a player away
\* exactly when no socket of his is left, unless one dropped, or a freeze fired or
\* committed, inside a join of his and he began none since with all settled.
THEOREM AbsenceIsMirrored == Spec => []PresenceMirrored
<1>1. PresenceInv => PresenceMirrored
    <2> SUFFICES ASSUME PresenceInv, NEW p \in Player, Settled(p), smooth[p], Watched(p),
                        ~Terminal(match)
                 PROVE  match.disconnected[p] <=> presence[p] = {}
        BY DEF PresenceMirrored
    <2>1. Apart(p) /\ match.disconnected[p] \in BOOLEAN
        BY DEF PresenceInv, SmoothApart, MapsOK, Match
    <2>2. ASSUME presence[p] = {} PROVE match.disconnected[p]
        BY <2>1, <2>2 DEF Apart, LeaverMarked, Settled
    <2>3. ASSUME presence[p] # {} PROVE ~match.disconnected[p]
        <3>1. PICK s \in presence[p] : s \in Socket /\ Owner[s] = p /\ join[s] # "none"
            BY <2>3 DEF PresenceInv, CountedByOwner, MapsOK
        <3>2. join[s] = "done"
            BY <3>1 DEF Settled, JoiningPlayer, Joining, PresenceInv, MapsOK
        <3> QED
            BY <2>1, <3>2 DEF Apart, WatcherUnmarked, Settled
    <2> QED
        BY <2>1, <2>2, <2>3
<1> QED
    BY <1>1, PresenceInit, PresenceStep, PTL DEF Spec
=============================================================================
