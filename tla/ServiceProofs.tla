--------------------------- MODULE ServiceProofs ---------------------------
(***************************************************************************)
(* What is derived of a match stays in step with it.  First, of            *)
(* MatchCommandService (packages/db/src/command-service.ts), for every     *)
(* configuration, any number of commands in any order, stale readings of   *)
(* the clock, lost replies and resends: what a transaction writes beside   *)
(* the snapshot.  Then, of the review of a match (packages/intelligence),  *)
(* for every configuration and streams of any length: what it says of a    *)
(* finished match is what the match was.                                   *)
(***************************************************************************)
EXTENDS CommandService, Progress, MatchDomainProofs, FiniteSetTheorems

-----------------------------------------------------------------------------
(* The events of a command                                                 *)

\* At most two events; the first tells the command, the second what followed.
LEMMA EventsOf ==
    ASSUME NEW c, WellFormed(c), NEW t, NEW emitted, Emits(c, t, emitted)
    PROVE  /\ \E S : emitted \in Seq(S)
           /\ Len(emitted) \in 0 .. 2 /\ DOMAIN emitted = 1 .. Len(emitted)
           /\ 1 \in DOMAIN emitted => FirstEvent(c, t, emitted[1])
           /\ 2 \in DOMAIN emitted =>
                /\ LaterEvent(c, emitted[2])
                /\ c.kind \in Endings \cup {"READY", "OFFER", "DISCONNECT"}
           /\ c.kind \in Endings => Len(emitted) = 2
           /\ c.kind = "OFFER" => Len(emitted) >= 1
           /\ emitted = <<>> <=> Len(emitted) = 0
<1>1. CASE emitted = <<>> /\ c.kind \notin Endings \cup {"OFFER"}
  <2>1. emitted \in Seq({})
    BY <1>1
  <2> QED BY <1>1, <2>1
<1>2. CASE c.kind \notin Endings /\ \E e : FirstEvent(c, t, e) /\ emitted = <<e>>
  <2>1. PICK e : FirstEvent(c, t, e) /\ emitted = <<e>>
    BY <1>2
  <2>2. emitted \in Seq({e}) /\ Len(emitted) = 1 /\ DOMAIN emitted = 1 .. 1 /\ emitted[1] = e
    BY <2>1
  <2>6. <<e>> # <<>> /\ 2 \notin 1 .. 1
    OBVIOUS
  <2>3. emitted # <<>> /\ 2 \notin DOMAIN emitted
    BY <2>1, <2>2, <2>6, Zenon
  <2>4. \E S : emitted \in Seq(S)
    BY <2>2
  <2>5. FirstEvent(c, t, emitted[1])
    BY <2>1, <2>2
  <2> QED BY <1>2, <2>2, <2>3, <2>4, <2>5
<1>3. CASE /\ c.kind \in Endings \cup {"READY", "OFFER", "DISCONNECT"}
           /\ \E e, f : FirstEvent(c, t, e) /\ LaterEvent(c, f) /\ emitted = <<e, f>>
  <2>1. PICK e, f : FirstEvent(c, t, e) /\ LaterEvent(c, f) /\ emitted = <<e, f>>
    BY <1>3
  <2>2. /\ emitted \in Seq({e, f}) /\ Len(emitted) = 2 /\ DOMAIN emitted = 1 .. 2
        /\ emitted[1] = e /\ emitted[2] = f
    BY <2>1
  <2>3. emitted # <<>>
    BY <2>2
  <2>4. \E S : emitted \in Seq(S)
    BY <2>2
  <2>5. FirstEvent(c, t, emitted[1]) /\ LaterEvent(c, emitted[2])
    BY <2>1, <2>2
  <2> QED BY <1>3, <2>2, <2>3, <2>4, <2>5
<1> QED BY <1>1, <1>2, <1>3 DEF Emits

\* The presence of a player is told by his own command only.
LEMMA PresenceOf ==
    ASSUME NEW c, WellFormed(c), NEW t, NEW emitted, Emits(c, t, emitted), NEW p \in Player
    PROVE  IF c.kind \in {"DISCONNECT", "RECONNECT"} /\ p = c.by /\ emitted # <<>>
           THEN /\ PresenceEvents(emitted, p) = {1}
                /\ emitted[1].type = FirstType(c.kind) /\ emitted[1].at = t
           ELSE PresenceEvents(emitted, p) = {}
<1>0. /\ Len(emitted) \in 0 .. 2 /\ DOMAIN emitted = 1 .. Len(emitted)
      /\ 1 \in DOMAIN emitted => FirstEvent(c, t, emitted[1])
      /\ 2 \in DOMAIN emitted => LaterEvent(c, emitted[2])
                                /\ c.kind \in Endings \cup {"READY", "OFFER", "DISCONNECT"}
      /\ emitted = <<>> <=> Len(emitted) = 0
  BY EventsOf
<1>1. 2 \in DOMAIN emitted =>
        emitted[2].type \notin {"PLAYER_DISCONNECTED", "PLAYER_RECONNECTED"}
  BY <1>0 DEF LaterEvent, Endings
<1>2. 1 \in DOMAIN emitted =>
        /\ emitted[1].at = t /\ emitted[1].type = FirstType(c.kind)
        /\ emitted[1].type \in {"PLAYER_DISCONNECTED", "PLAYER_RECONNECTED"} <=>
             c.kind \in {"DISCONNECT", "RECONNECT"}
        /\ c.kind # "ABORT" => emitted[1].actor = c.by
  BY <1>0 DEF FirstEvent, FirstType, WellFormed
<1>3. \A i \in DOMAIN emitted : i = 1 \/ i = 2
  BY <1>0
<1> QED BY <1>0, <1>1, <1>2, <1>3 DEF PresenceEvents

\* An offer is told by an OFFER only, and a completion by an ending.
LEMMA OffersOf ==
    ASSUME NEW m, m.seq \in Nat, NEW c, WellFormed(c), NEW t, NEW emitted, Emits(c, t, emitted)
    PROVE  /\ OfferRows(m, emitted) =
                IF c.kind = "OFFER"
                THEN {[seq |-> m.seq + 1, player |-> c.by, amount |-> c.arg]} ELSE {}
           /\ (\E i \in DOMAIN emitted : emitted[i].type = "MATCH_COMPLETED") <=>
                c.kind \in Endings
<1>0. /\ Len(emitted) \in 0 .. 2 /\ DOMAIN emitted = 1 .. Len(emitted)
      /\ 1 \in DOMAIN emitted => FirstEvent(c, t, emitted[1])
      /\ 2 \in DOMAIN emitted => LaterEvent(c, emitted[2])
                                /\ c.kind \in Endings \cup {"READY", "OFFER", "DISCONNECT"}
      /\ c.kind \in Endings => Len(emitted) = 2
      /\ c.kind = "OFFER" => Len(emitted) >= 1
  BY EventsOf
<1>1. 2 \in DOMAIN emitted =>
        /\ emitted[2].type # "OFFER_SUBMITTED"
        /\ emitted[2].type = "MATCH_COMPLETED" <=> c.kind \in Endings
  BY <1>0 DEF LaterEvent, Endings
<1>2. 1 \in DOMAIN emitted =>
        /\ emitted[1].type = "OFFER_SUBMITTED" <=> c.kind = "OFFER"
        /\ emitted[1].type # "MATCH_COMPLETED"
        /\ c.kind = "OFFER" => emitted[1].actor = c.by /\ emitted[1].arg.amount = c.arg
  BY <1>0 DEF FirstEvent, FirstType, WellFormed
<1>3. \A i \in DOMAIN emitted : i = 1 \/ i = 2
  BY <1>0
<1>4. {j \in DOMAIN emitted : emitted[j].type = "OFFER_SUBMITTED"} =
        IF c.kind = "OFFER" THEN {1} ELSE {}
  BY <1>0, <1>1, <1>2, <1>3
<1>5. OfferRows(m, emitted) =
        IF c.kind = "OFFER"
        THEN {[seq |-> m.seq + 1, player |-> c.by, amount |-> c.arg]} ELSE {}
  <2>1. CASE c.kind = "OFFER"
    BY <1>0, <1>2, <1>4, <2>1 DEF OfferRows
  <2>2. CASE c.kind # "OFFER"
    BY <1>4, <2>2 DEF OfferRows
  <2> QED BY <2>1, <2>2
<1>6. (\E i \in DOMAIN emitted : emitted[i].type = "MATCH_COMPLETED") <=> c.kind \in Endings
  BY <1>0, <1>1, <1>2, <1>3
<1> QED BY <1>5, <1>6

\* The player a timeout is stored for is the one the command named.
LEMMA TimedOutOf ==
    ASSUME NEW m, NEW c, WellFormed(c), NEW t, NEW emitted, Emits(c, t, emitted)
    PROVE  TimeoutPlayerOf(m, emitted) =
             IF c.kind = "TIMEOUT" /\ m.reason = "TIMED_OUT" THEN c.by ELSE None
<1>0. /\ Len(emitted) \in 0 .. 2 /\ DOMAIN emitted = 1 .. Len(emitted)
      /\ 1 \in DOMAIN emitted => FirstEvent(c, t, emitted[1])
      /\ 2 \in DOMAIN emitted => LaterEvent(c, emitted[2])
                                /\ c.kind \in Endings \cup {"READY", "OFFER", "DISCONNECT"}
      /\ c.kind \in Endings => Len(emitted) = 2
  BY EventsOf
<1>1. 2 \in DOMAIN emitted => emitted[2].type # "TIMED_OUT"
  BY <1>0 DEF LaterEvent, Endings
<1>2. 1 \in DOMAIN emitted =>
        /\ emitted[1].type = "TIMED_OUT" <=> c.kind = "TIMEOUT"
        /\ c.kind = "TIMEOUT" => emitted[1].arg = c.by
  BY <1>0 DEF FirstEvent, FirstType, WellFormed
<1>3. \A i \in DOMAIN emitted : i = 1 \/ i = 2
  BY <1>0
<1>4. {i \in DOMAIN emitted : emitted[i].type = "TIMED_OUT"} =
        IF c.kind = "TIMEOUT" THEN {1} ELSE {}
  BY <1>0, <1>1, <1>2, <1>3 DEF Endings
<1>5. c.kind = "TIMEOUT" => emitted[1].arg = c.by
  BY <1>0, <1>2 DEF Endings
<1>6. (CHOOSE i \in {1} : \A j \in {1} : i <= j) = 1
  OBVIOUS
<1> QED BY <1>4, <1>5, <1>6 DEF TimeoutPlayerOf

-----------------------------------------------------------------------------
(* The log                                                                 *)

\* What a stored stream looks like, and the snapshot beside it.
Recorded(d) ==
    /\ d.match \in Match
    /\ ~Terminal(d.match) => d.match.reason = None
    /\ \E S : d.log \in Seq(S)
    /\ d.match.seq = Len(d.log)
    /\ \A i \in DOMAIN d.log :
         /\ d.log[i].seq = i
         /\ d.log[i].commandId # None =>
              d.log[i].commandId \in Int /\ d.log[i].commandId <= Len(d.log)
    /\ \A i, j \in DOMAIN d.log :
         d.log[i].commandId = d.log[j].commandId /\ d.log[i].commandId # None => i = j

\* A command that a transaction may persist.
Admitted(d, id, c, at) ==
    /\ id \in Int /\ id <= d.match.seq + 1 /\ ~Duplicate(d.log, id)
    /\ WellFormed(c) /\ Accepted(d.match, c, at) /\ at \in Nat

\* Entries are put behind those that are there.
LEMMA Appended ==
    ASSUME NEW S, NEW log \in Seq(S), NEW T, NEW new \in Seq(T)
    PROVE  /\ log \o new \in Seq(S \cup T)
           /\ Len(log) \in Nat /\ Len(new) \in Nat
           /\ Len(log \o new) = Len(log) + Len(new)
           /\ DOMAIN (log \o new) = 1 .. Len(log) + Len(new)
           /\ DOMAIN log = 1 .. Len(log)
           /\ \A i \in 1 .. Len(log) : (log \o new)[i] = log[i]
           /\ \A i \in 1 .. Len(new) : (log \o new)[Len(log) + i] = new[i]
<1>3. log \in Seq(S \cup T) /\ new \in Seq(S \cup T)
  OBVIOUS
<1>4. log \o new \in Seq(S \cup T) /\ Len(log \o new) = Len(log) + Len(new)
  BY <1>3
<1>5. /\ \A i \in 1 .. Len(log) : (log \o new)[i] = log[i]
      /\ \A i \in 1 .. Len(new) : (log \o new)[Len(log) + i] = new[i]
  BY <1>3
<1>6. Len(log) \in Nat /\ Len(new) \in Nat /\ DOMAIN log = 1 .. Len(log)
  BY <1>3
<1>7. DOMAIN (log \o new) = 1 .. Len(log) + Len(new)
  BY <1>4
<1> QED BY <1>4, <1>5, <1>6, <1>7

\* The rows a transaction writes for its events.
NewRows(m, id, emitted) == [i \in DOMAIN emitted |-> LogEntry(m, id, emitted, i)]

\* Numbered on from the snapshot, the id on the first of them.
LEMMA NewEntries ==
    ASSUME NEW m, NEW id, NEW c, WellFormed(c), NEW at
    PROVE  LET emitted == Emitted(m, c, at)
               new == NewRows(m, id, emitted) IN
           /\ \E S : new \in Seq(S)
           /\ Len(new) = Len(emitted) /\ Len(emitted) \in 0 .. 2
           /\ \A i \in 1 .. Len(new) :
                new[i].seq = m.seq + i
                /\ new[i].commandId = IF i = 1 THEN id ELSE None
<1> DEFINE emitted == Emitted(m, c, at)
           new == NewRows(m, id, emitted)
<1>1. Emits(c, at, emitted)
  BY EmittedForm
<1> HIDE DEF emitted
<1>2. Len(emitted) \in 0 .. 2 /\ DOMAIN emitted = 1 .. Len(emitted)
  BY <1>1, EventsOf
<1>3. new \in Seq({LogEntry(m, id, emitted, i) : i \in DOMAIN emitted})
  BY <1>2 DEF NewRows
<1>4. Len(new) = Len(emitted)
  <2>1. DOMAIN new = 1 .. Len(emitted)
    BY <1>2 DEF NewRows
  <2> HIDE DEF new
  <2> QED BY <1>2, <1>3, <2>1, LenProperties
<1>5. \A i \in 1 .. Len(new) :
        new[i].seq = m.seq + i /\ new[i].commandId = IF i = 1 THEN id ELSE None
  BY <1>2, <1>4 DEF LogEntry, NewRows
<1>6. \E S : new \in Seq(S)
  BY <1>3
<1> QED BY <1>2, <1>4, <1>5, <1>6 DEF emitted

\* Every transaction leaves a gapless stream in which its id stands once.
LEMMA PersistRecorded ==
    ASSUME NEW d, Recorded(d), NEW id, NEW c, NEW at, Admitted(d, id, c, at)
    PROVE  Recorded(Persist(d, id, c, at))
<1> DEFINE m == d.match
           n == Applied(m, c, at)
           emitted == Emitted(m, c, at)
           new == NewRows(m, id, emitted)
           log == d.log \o new
           r == Persist(d, id, c, at)
<1>0. m \in Match /\ m.seq \in Nat /\ m.seq = Len(d.log) /\ WellFormed(c) /\ at \in Nat
      /\ Accepted(m, c, at) /\ id \in Int /\ id <= m.seq + 1
  BY DEF Recorded, Admitted, Match
<1>1. n \in Match /\ n.seq = m.seq + Len(emitted)
  BY <1>0, AppliedType, AppliedCounts
<1>2. ~Terminal(n) => n.reason = None
  BY <1>0, AppliedEnds DEF GoesOnOrEnds, Recorded, Terminal, Endings
<1>3. /\ \E S : new \in Seq(S)
      /\ Len(new) = Len(emitted) /\ Len(emitted) \in 0 .. 2
      /\ \A i \in 1 .. Len(new) :
           new[i].seq = m.seq + i /\ new[i].commandId = IF i = 1 THEN id ELSE None
  <2>1. WellFormed(c)
    BY <1>0
  <2> HIDE DEF m
  <2> QED BY <2>1, NewEntries
<1>4. r.match = n /\ r.log = log
  BY DEF Persist, NewRows
<1> HIDE DEF n, new, emitted, r
<1>5. PICK S : d.log \in Seq(S)
  BY DEF Recorded
<1>6. PICK T : new \in Seq(T)
  BY <1>3
<1>7. /\ log \in Seq(S \cup T)
      /\ Len(d.log) \in Nat /\ Len(new) \in Nat
      /\ Len(log) = Len(d.log) + Len(new)
      /\ DOMAIN log = 1 .. Len(d.log) + Len(new)
      /\ DOMAIN d.log = 1 .. Len(d.log)
      /\ \A i \in 1 .. Len(d.log) : log[i] = d.log[i]
      /\ \A i \in 1 .. Len(new) : log[Len(d.log) + i] = new[i]
  BY <1>5, <1>6, Appended
<1> HIDE DEF log
<1>8. ASSUME NEW i \in DOMAIN log
      PROVE  \/ i \in DOMAIN d.log /\ log[i] = d.log[i]
             \/ \E k \in 1 .. Len(new) : i = Len(d.log) + k /\ log[i] = new[k]
  <2>1. CASE i <= Len(d.log)
    BY <1>7, <2>1
  <2>2. CASE i > Len(d.log)
    <3>1. i - Len(d.log) \in 1 .. Len(new) /\ i = Len(d.log) + (i - Len(d.log))
      BY <1>7, <2>2
    <3> QED BY <1>7, <3>1
  <2> QED BY <1>7, <2>1, <2>2
<1>9. \A i \in DOMAIN log :
        /\ log[i].seq = i
        /\ log[i].commandId # None =>
             log[i].commandId \in Int /\ log[i].commandId <= Len(log)
  <2> SUFFICES ASSUME NEW i \in DOMAIN log
               PROVE  /\ log[i].seq = i
                      /\ log[i].commandId # None =>
                           log[i].commandId \in Int /\ log[i].commandId <= Len(log)
    OBVIOUS
  <2>1. CASE i \in DOMAIN d.log /\ log[i] = d.log[i]
    BY <1>7, <2>1 DEF Recorded
  <2>2. CASE \E k \in 1 .. Len(new) : i = Len(d.log) + k /\ log[i] = new[k]
    <3>1. PICK k \in 1 .. Len(new) : i = Len(d.log) + k /\ log[i] = new[k]
      BY <2>2
    <3>2. log[i].seq = i /\ (log[i].commandId = id \/ log[i].commandId = None)
      BY <1>0, <1>3, <3>1
    <3>3. id <= Len(log)
      BY <1>0, <1>7, <3>1
    <3> QED BY <1>0, <3>2, <3>3
  <2> QED BY <1>8, <2>1, <2>2
<1>10. \A i, j \in DOMAIN log : log[i].commandId = log[j].commandId /\ log[i].commandId # None => i = j
  <2> SUFFICES ASSUME NEW i \in DOMAIN log, NEW j \in DOMAIN log,
                      log[i].commandId = log[j].commandId, log[i].commandId # None
               PROVE  i = j
    OBVIOUS
  <2>1. \A k \in DOMAIN d.log : d.log[k].commandId # id
    BY DEF Admitted, Duplicate
  <2>2. \A k \in 1 .. Len(new) : new[k].commandId # None => k = 1 /\ new[k].commandId = id
    BY <1>3
  <2>3. CASE i \in DOMAIN d.log /\ log[i] = d.log[i] /\ j \in DOMAIN d.log /\ log[j] = d.log[j]
    BY <2>3 DEF Recorded
  <2>4. CASE /\ i \in DOMAIN d.log /\ log[i] = d.log[i]
             /\ \E k \in 1 .. Len(new) : j = Len(d.log) + k /\ log[j] = new[k]
    BY <2>1, <2>2, <2>4
  <2>5. CASE /\ j \in DOMAIN d.log /\ log[j] = d.log[j]
             /\ \E k \in 1 .. Len(new) : i = Len(d.log) + k /\ log[i] = new[k]
    BY <2>1, <2>2, <2>5
  <2>6. CASE /\ \E k \in 1 .. Len(new) : i = Len(d.log) + k /\ log[i] = new[k]
             /\ \E k \in 1 .. Len(new) : j = Len(d.log) + k /\ log[j] = new[k]
    BY <2>2, <2>6
  <2> QED BY <1>8, <2>3, <2>4, <2>5, <2>6
<1>11. \E U : log \in Seq(U)
  BY <1>7
<1>12. n.seq = Len(log)
  BY <1>0, <1>1, <1>3, <1>7
<1>13. Recorded(r)
  BY <1>1, <1>2, <1>4, <1>9, <1>10, <1>11, <1>12 DEF Recorded
<1> QED BY <1>13 DEF r

-----------------------------------------------------------------------------
(* The rows beside the snapshot                                            *)

BidRows(d, p) == {o \in d.offers : o.player = p}

\* The offer rows carry numbers of their own, and the newest of each player is
\* his standing bid.
OffersMirror(d) ==
    /\ \A o \in d.offers : o.seq \in 1 .. d.match.seq
    /\ \A o1, o2 \in d.offers : o1.seq = o2.seq => o1 = o2
    /\ \A p \in Player :
         IF BidRows(d, p) = {} THEN d.match.latest[p] = None
         ELSE \E o \in BidRows(d, p) :
                o.amount = d.match.latest[p] /\ \A q \in BidRows(d, p) : q.seq <= o.seq

AwayMirrors(d) == \A p \in Player : d.away[p] # None <=> d.match.disconnected[p]

ResultMirrors(d) ==
    /\ d.result = IF d.match.status \in {"DEAL", "NO_DEAL"} THEN d.match.economy ELSE None
    /\ d.analysed = IF Terminal(d.match) THEN Len(d.log) ELSE None

Mirrors(d) ==
    d.columns = Columns(d.match) /\ OffersMirror(d) /\ AwayMirrors(d) /\ ResultMirrors(d)

\* Absence: the row of the player a presence command names follows the snapshot.
LEMMA PersistAway ==
    ASSUME NEW d, Recorded(d), AwayMirrors(d), NEW id, NEW c, NEW at, Admitted(d, id, c, at)
    PROVE  AwayMirrors(Persist(d, id, c, at))
<1> DEFINE m == d.match
           n == Applied(m, c, at)
           emitted == Emitted(m, c, at)
           r == Persist(d, id, c, at)
<1>1. m \in Match /\ WellFormed(c) /\ Accepted(m, c, at) /\ at \in Nat /\ at # None
  BY NoneAssumption DEF Recorded, Admitted
<1>2. Emits(c, at, emitted)
  BY <1>1, EmittedForm
<1>3. /\ c.kind \notin {"DISCONNECT", "RECONNECT"} => n.disconnected = m.disconnected
      /\ c.kind \in {"DISCONNECT", "RECONNECT"} =>
           \/ n = m /\ emitted = <<>>
           \/ \A p \in Player : n.disconnected[p] =
                IF p = c.by THEN c.kind = "DISCONNECT" ELSE m.disconnected[p]
  BY <1>1, AppliedPresence
<1>4. emitted = <<>> => n = m
  BY <1>1, AppliedCounts
<1>5. r.match = n /\ r.away = AwaySince(d.away, emitted)
  BY DEF Persist
<1> HIDE DEF m, n, emitted, r
<1>6. ASSUME NEW p \in Player PROVE r.away[p] # None <=> r.match.disconnected[p]
  <2>1. d.away[p] # None <=> m.disconnected[p]
    BY DEF AwayMirrors, m
  <2>2. CASE c.kind \in {"DISCONNECT", "RECONNECT"} /\ p = c.by /\ emitted # <<>>
    <3>1. PresenceEvents(emitted, p) = {1} /\ emitted[1].type = FirstType(c.kind)
          /\ emitted[1].at = at
      BY <1>1, <1>2, <2>2, PresenceOf
    <3>2. (CHOOSE i \in {1} : \A j \in {1} : j <= i) = 1
      OBVIOUS
    <3>3. r.away[p] = IF c.kind = "DISCONNECT" THEN at ELSE None
      BY <1>5, <2>2, <3>1, <3>2 DEF AwaySince, FirstType
    <3>4. n.disconnected[p] = (c.kind = "DISCONNECT")
      BY <1>3, <2>2
    <3> QED BY <1>1, <1>5, <3>3, <3>4
  <2>3. CASE ~(c.kind \in {"DISCONNECT", "RECONNECT"} /\ p = c.by /\ emitted # <<>>)
    <3>1. PresenceEvents(emitted, p) = {}
      BY <1>1, <1>2, <2>3, PresenceOf
    <3>2. r.away[p] = d.away[p]
      BY <1>5, <3>1 DEF AwaySince
    <3>3. n.disconnected[p] = m.disconnected[p]
      BY <1>3, <1>4, <2>3
    <3> QED BY <1>5, <2>1, <3>2, <3>3
  <2> QED BY <2>2, <2>3
<1> QED BY <1>6 DEF AwayMirrors, r

\* Offers: an accepted offer is the newest row and the new bid.
LEMMA PersistOffers ==
    ASSUME NEW d, Recorded(d), OffersMirror(d), NEW id, NEW c, NEW at, Admitted(d, id, c, at)
    PROVE  OffersMirror(Persist(d, id, c, at))
<1> DEFINE m == d.match
           n == Applied(m, c, at)
           emitted == Emitted(m, c, at)
           r == Persist(d, id, c, at)
           o == [seq |-> m.seq + 1, player |-> c.by, amount |-> c.arg]
<1>1. m \in Match /\ m.seq \in Nat /\ WellFormed(c) /\ Accepted(m, c, at)
  BY DEF Recorded, Admitted, Match
<1>2. Emits(c, at, emitted)
  BY <1>1, EmittedForm
<1>3. BidsFollow(m, c, n)
  BY <1>1, AppliedBids
<1>4. Len(emitted) \in 0 .. 2 /\ n.seq = m.seq + Len(emitted)
      /\ (c.kind = "OFFER" => Len(emitted) >= 1)
  BY <1>1, <1>2, AppliedCounts, EventsOf
<1>5. OfferRows(m, emitted) = IF c.kind = "OFFER" THEN {o} ELSE {}
  BY <1>1, <1>2, OffersOf
<1>6. r.match = n /\ r.offers = d.offers \cup OfferRows(m, emitted)
  BY DEF Persist
<1>7. m.latest \in [Player -> Amount \cup {None}]
  BY <1>1 DEF Match
<1> HIDE DEF n, emitted, r
<1>8. CASE c.kind # "OFFER"
  <2>1. r.offers = d.offers /\ r.match.latest = m.latest /\ r.match.seq >= m.seq
        /\ r.match.seq \in Nat
    BY <1>1, <1>3, <1>4, <1>5, <1>6, <1>8 DEF BidsFollow
  <2>2. \A p \in Player : BidRows(r, p) = BidRows(d, p)
    BY <2>1 DEF BidRows
  <2>3. \A q \in r.offers : q.seq \in 1 .. r.match.seq
    BY <1>1, <2>1 DEF OffersMirror
  <2> QED BY <2>1, <2>2, <2>3 DEF OffersMirror, r
<1>9. CASE c.kind = "OFFER"
  <2>1. /\ r.offers = d.offers \cup {o} /\ r.match.seq >= m.seq + 1 /\ r.match.seq \in Nat
        /\ r.match.latest = [m.latest EXCEPT ![c.by] = c.arg] /\ c.by \in Player
    BY <1>1, <1>3, <1>4, <1>5, <1>6, <1>9 DEF WellFormed, BidsFollow
  <2>2. o.seq = m.seq + 1 /\ o.player = c.by /\ o.amount = c.arg
    OBVIOUS
  <2> HIDE DEF o
  <2>3. \A q \in d.offers : q.seq \in Nat /\ q.seq >= 1 /\ q.seq <= m.seq
    BY <1>1 DEF OffersMirror
  <2>4. \A q \in r.offers : q.seq \in 1 .. r.match.seq
    BY <1>1, <2>1, <2>2, <2>3
  <2>5. \A o1, o2 \in r.offers : o1.seq = o2.seq => o1 = o2
    BY <1>1, <2>1, <2>2, <2>3 DEF OffersMirror
  <2>6. ASSUME NEW p \in Player, p # c.by
        PROVE  BidRows(r, p) = BidRows(d, p) /\ r.match.latest[p] = m.latest[p]
    BY <1>7, <2>1, <2>2, <2>6 DEF BidRows
  <2>7. /\ o \in BidRows(r, c.by) /\ o.amount = r.match.latest[c.by]
        /\ \A q \in BidRows(r, c.by) : q.seq <= o.seq
    <3>1. o \in BidRows(r, c.by) /\ BidRows(r, c.by) \subseteq d.offers \cup {o}
      BY <2>1, <2>2 DEF BidRows
    <3>2. o.amount = r.match.latest[c.by]
      BY <1>7, <2>1, <2>2
    <3>3. \A q \in BidRows(r, c.by) : q.seq <= o.seq
      BY <1>1, <2>2, <2>3, <3>1
    <3> QED BY <3>1, <3>2, <3>3
  <2>8. \A p \in Player :
         IF BidRows(r, p) = {} THEN r.match.latest[p] = None
         ELSE \E b \in BidRows(r, p) :
                b.amount = r.match.latest[p] /\ \A q \in BidRows(r, p) : q.seq <= b.seq
    <3> SUFFICES ASSUME NEW p \in Player
                 PROVE  IF BidRows(r, p) = {} THEN r.match.latest[p] = None
                        ELSE \E b \in BidRows(r, p) :
                               /\ b.amount = r.match.latest[p]
                               /\ \A q \in BidRows(r, p) : q.seq <= b.seq
      OBVIOUS
    <3>1. CASE p = c.by
      BY <2>7, <3>1
    <3>2. CASE p # c.by
      BY <2>6, <3>2 DEF OffersMirror
    <3> QED BY <3>1, <3>2
  <2>9. OffersMirror(r)
    BY <2>4, <2>5, <2>8 DEF OffersMirror
  <2> QED BY <2>9 DEF r
<1> QED BY <1>8, <1>9

\* The result is stored with the completion, the analysis with every commit after.
LEMMA PersistResult ==
    ASSUME NEW d, Recorded(d), ResultMirrors(d), NEW id, NEW c, NEW at, Admitted(d, id, c, at)
    PROVE  ResultMirrors(Persist(d, id, c, at))
<1> DEFINE m == d.match
           n == Applied(m, c, at)
           emitted == Emitted(m, c, at)
           r == Persist(d, id, c, at)
<1>1. m \in Match /\ m.seq \in Nat /\ WellFormed(c) /\ Accepted(m, c, at) /\ at \in Nat
  BY DEF Recorded, Admitted, Match
<1>2. GoesOnOrEnds(m, c, n)
  BY <1>1, AppliedEnds
<1>3. (\E i \in DOMAIN emitted : emitted[i].type = "MATCH_COMPLETED") <=> c.kind \in Endings
  BY <1>1, EmittedForm, OffersOf, ZenonT(30)
<1>4. /\ r.match = n
      /\ r.result = IF d.result = None /\ c.kind \in Endings THEN n.economy ELSE d.result
      /\ r.analysed = IF Terminal(n) THEN Len(r.log) ELSE d.analysed
  BY <1>3 DEF Persist, ResultRow, Analysed
<1>5. m.status \notin {"DEAL", "NO_DEAL"} => d.result = None
  BY DEF ResultMirrors
<1> HIDE DEF m, n, emitted, r
<1>6. CASE Terminal(m)
  BY <1>2, <1>4, <1>6 DEF GoesOnOrEnds, ResultMirrors, r, m
<1>7. CASE ~Terminal(m)
  <2>1. d.result = None /\ d.analysed = None
    BY <1>5, <1>7 DEF ResultMirrors, Terminal, m
  <2>2. n.status \in {"DEAL", "NO_DEAL"} <=> c.kind \in Endings
    BY <1>2, <1>7 DEF GoesOnOrEnds, Terminal, Endings
  <2>3. ResultMirrors(r)
    BY <1>4, <2>1, <2>2 DEF ResultMirrors
  <2> QED BY <2>3 DEF r
<1> QED BY <1>6, <1>7

\* Every transaction leaves rows that mirror the snapshot.
LEMMA PersistMirrors ==
    ASSUME NEW d, Recorded(d), Mirrors(d), NEW id, NEW c, NEW at, Admitted(d, id, c, at)
    PROVE  Mirrors(Persist(d, id, c, at))
<1>1. Persist(d, id, c, at).columns = Columns(Persist(d, id, c, at).match)
  BY DEF Persist
<1> QED BY <1>1, PersistAway, PersistOffers, PersistResult DEF Mirrors

-----------------------------------------------------------------------------
(* The stream replays to the snapshot                                      *)

StreamOf(d) == [i \in DOMAIN d.log |-> d.log[i].event]

\* Replaying the stored events from the created match leads to the stored match,
\* and tells the same events.
Replayed(m0, d) ==
    \E r : /\ Chain(m0, StreamOf(d), r)
           /\ r[Len(StreamOf(d))] = Replaying(d.match, StreamOf(d), FALSE)

\* A stream as long as its log.
LEMMA StreamLength ==
    ASSUME NEW d, \E S : d.log \in Seq(S)
    PROVE  /\ \E S : StreamOf(d) \in Seq(S)
           /\ Len(StreamOf(d)) = Len(d.log) /\ Len(d.log) \in Nat
           /\ DOMAIN StreamOf(d) = 1 .. Len(d.log) /\ DOMAIN d.log = 1 .. Len(d.log)
<1>1. Len(d.log) \in Nat /\ DOMAIN d.log = 1 .. Len(d.log)
  OBVIOUS
<1>2. StreamOf(d) \in Seq({d.log[i].event : i \in DOMAIN d.log})
  BY <1>1 DEF StreamOf
<1>3. DOMAIN StreamOf(d) = 1 .. Len(d.log)
  BY <1>1 DEF StreamOf
<1> QED BY <1>1, <1>2, <1>3, LenProperties

\* A transaction puts the events of its command behind those that are there.
LEMMA PersistStream ==
    ASSUME NEW d, Recorded(d), NEW id, NEW c, WellFormed(c), NEW at
    PROVE  StreamOf(Persist(d, id, c, at)) = StreamOf(d) \o Emitted(d.match, c, at)
<1> DEFINE m == d.match
           emitted == Emitted(m, c, at)
           new == NewRows(m, id, emitted)
           r == Persist(d, id, c, at)
           old == StreamOf(d)
<1>1. /\ \E S : new \in Seq(S)
      /\ Len(new) = Len(emitted) /\ Len(emitted) \in 0 .. 2
  BY NewEntries
<1>2. /\ \E S : emitted \in Seq(S)
      /\ DOMAIN emitted = 1 .. Len(emitted)
  BY EmittedForm, EventsOf
<1>3. \A i \in 1 .. Len(emitted) : new[i].event = emitted[i]
  BY <1>2 DEF NewRows, LogEntry
<1>4. r.log = d.log \o new
  BY DEF Persist, NewRows
<1> HIDE DEF emitted, new, r
<1>5. PICK S : d.log \in Seq(S)
  BY DEF Recorded
<1>6. PICK T : new \in Seq(T)
  BY <1>1
<1>7. PICK U : emitted \in Seq(U)
  BY <1>2
<1>8. /\ r.log \in Seq(S \cup T) /\ Len(d.log) \in Nat
      /\ Len(r.log) = Len(d.log) + Len(new)
      /\ \A i \in 1 .. Len(d.log) : r.log[i] = d.log[i]
      /\ \A i \in 1 .. Len(new) : r.log[Len(d.log) + i] = new[i]
  BY <1>4, <1>5, <1>6, Appended, SMTT(30)
<1>9. /\ \E V : StreamOf(r) \in Seq(V)
      /\ Len(StreamOf(r)) = Len(r.log) /\ DOMAIN r.log = 1 .. Len(r.log)
  BY <1>8, StreamLength
<1>10. /\ \E V : old \in Seq(V)
       /\ Len(old) = Len(d.log) /\ DOMAIN d.log = 1 .. Len(d.log)
  BY <1>5, StreamLength
<1>11. \A i \in 1 .. Len(d.log) : StreamOf(r)[i] = old[i]
  BY <1>1, <1>8, <1>9, <1>10 DEF StreamOf
<1>12. \A i \in 1 .. Len(emitted) : StreamOf(r)[Len(d.log) + i] = emitted[i]
  BY <1>1, <1>3, <1>8, <1>9 DEF StreamOf
<1> HIDE DEF old
<1>13. PICK V : StreamOf(r) \in Seq(V)
  BY <1>9
<1>14. PICK W : old \in Seq(W)
  BY <1>10
<1>15. /\ old \o emitted \in Seq(W \cup U)
       /\ Len(old \o emitted) = Len(old) + Len(emitted)
       /\ \A i \in 1 .. Len(old) : (old \o emitted)[i] = old[i]
       /\ \A i \in 1 .. Len(emitted) : (old \o emitted)[Len(old) + i] = emitted[i]
  BY <1>7, <1>14, Appended
<1>16. Len(StreamOf(r)) = Len(old \o emitted)
  BY <1>1, <1>8, <1>9, <1>10, <1>15
<1>17. ASSUME NEW i \in 1 .. Len(StreamOf(r)) PROVE StreamOf(r)[i] = (old \o emitted)[i]
  <2>0. i \in Nat /\ Len(d.log) \in Nat
    BY <1>1, <1>8, <1>9
  <2>1. CASE i <= Len(d.log)
    BY <1>8, <1>10, <1>11, <1>15, <2>1
  <2>2. CASE i > Len(d.log)
    <3>1. i - Len(d.log) \in 1 .. Len(emitted) /\ i = Len(d.log) + (i - Len(d.log))
      BY <1>1, <1>8, <1>9, <2>2
    <3> QED BY <1>10, <1>12, <1>15, <3>1
  <2>3. \A a, b \in Nat : a <= b \/ a > b
    OBVIOUS
  <2> QED BY <2>0, <2>1, <2>2, <2>3
<1>18. StreamOf(r) \in Seq(V \cup W \cup U) /\ old \o emitted \in Seq(V \cup W \cup U)
  BY <1>13, <1>15
<1>19. StreamOf(r) = old \o emitted
  BY <1>16, <1>17, <1>18, SeqEqual
<1> QED BY <1>19 DEF r, old, emitted

\* And so leads a replay on from the match before it to the match after it.
LEMMA PersistReplayed ==
    ASSUME NEW d, Recorded(d), NEW m0, Replayed(m0, d),
           NEW id, NEW c, NEW at, Admitted(d, id, c, at)
    PROVE  Replayed(m0, Persist(d, id, c, at))
<1> DEFINE m == d.match
           n == Applied(m, c, at)
           emitted == Emitted(m, c, at)
           r == Persist(d, id, c, at)
           old == StreamOf(d)
           stream == StreamOf(r)
           L == Len(old)
           there == Replaying(n, stream, FALSE)
<1>1. m \in Match /\ WellFormed(c) /\ Accepted(m, c, at) /\ r.match = n
  BY DEF Recorded, Admitted, Persist
<1>2. stream = old \o emitted
  BY <1>1, PersistStream
<1>3. /\ \E S : emitted \in Seq(S)
      /\ Len(emitted) \in 0 .. 2 /\ DOMAIN emitted = 1 .. Len(emitted)
      /\ 2 \in DOMAIN emitted => /\ LaterEvent(c, emitted[2])
                                /\ c.kind \in Endings \cup {"READY", "OFFER", "DISCONNECT"}
      /\ emitted = <<>> <=> Len(emitted) = 0
  BY <1>1, EmittedForm, EventsOf
<1>4. \E S : old \in Seq(S)
  BY StreamLength DEF Recorded
<1>5. emitted = <<>> => n = m
  BY <1>1, AppliedCounts
<1>6. emitted # <<>> => ReplayStep(Replaying(m, old, FALSE), emitted[1]) = there
  BY <1>1, <1>2, FirstReplayed
<1>7. 2 \in DOMAIN emitted => ReplayStep(there, emitted[2]) = there
  BY <1>3, LaterReplayed
<1>8. PICK q : Chain(m0, old, q) /\ q[L] = Replaying(m, old, FALSE)
  BY DEF Replayed
<1> HIDE DEF m, n, emitted, r, stream, old
<1>9. PICK S : old \in Seq(S)
  BY <1>4
<1>10. PICK T : emitted \in Seq(T)
  BY <1>3
<1>11. /\ L \in Nat /\ Len(stream) = L + Len(emitted) /\ stream \in Seq(S \cup T)
       /\ \A i \in 1 .. L : stream[i] = old[i]
       /\ \A i \in 1 .. Len(emitted) : stream[L + i] = emitted[i]
  BY <1>2, <1>9, <1>10, Appended
<1> DEFINE on == [i \in 0 .. Len(stream) |-> IF i <= L THEN q[i] ELSE there]
<1>12. \A i \in 0 .. Len(stream) : on[i] = IF i <= L THEN q[i] ELSE there
  OBVIOUS
<1>13. on = [i \in 0 .. Len(stream) |-> on[i]]
  OBVIOUS
<1>14. \A i \in 0 .. L :
         q[i] = IF i = 0 THEN Replaying(m0, <<>>, FALSE) ELSE ReplayStep(q[i - 1], old[i])
  <2> DEFINE steps == [i \in 0 .. L |-> IF i = 0 THEN Replaying(m0, <<>>, FALSE)
                                         ELSE ReplayStep(q[i - 1], old[i])]
  <2>1. q = steps
    BY <1>8 DEF Chain
  <2>2. \A i \in 0 .. L :
          steps[i] = IF i = 0 THEN Replaying(m0, <<>>, FALSE) ELSE ReplayStep(q[i - 1], old[i])
    OBVIOUS
  <2> HIDE DEF steps
  <2> QED BY <2>1, <2>2
<1> HIDE DEF on, L, there
<1>15. ASSUME NEW i \in 0 .. Len(stream)
       PROVE  on[i] = IF i = 0 THEN Replaying(m0, <<>>, FALSE)
                      ELSE ReplayStep(on[i - 1], stream[i])
  <2>0. i \in Nat /\ i <= L + Len(emitted) /\ Len(emitted) \in 0 .. 2 /\ L \in Nat
    BY <1>3, <1>11
  <2>1. CASE i <= L
    <3>1. q[i] = IF i = 0 THEN Replaying(m0, <<>>, FALSE) ELSE ReplayStep(q[i - 1], old[i])
      <4>1. i \in 0 .. L
        BY <2>0, <2>1
      <4> QED BY <1>14, <4>1
    <3>2. on[i] = q[i]
      BY <1>12, <2>1
    <3>3. ASSUME i # 0 PROVE on[i - 1] = q[i - 1] /\ stream[i] = old[i]
      <4>1. i - 1 \in 0 .. Len(stream) /\ i - 1 <= L /\ i \in 1 .. L
        BY <1>11, <2>0, <2>1, <3>3
      <4> QED BY <1>11, <1>12, <4>1
    <3> QED BY <3>1, <3>2, <3>3
  <2>2. CASE i = L + 1
    <3>1. /\ i - 1 \in 0 .. Len(stream) /\ i - 1 = L /\ ~(i <= L) /\ L <= L /\ i # 0
          /\ Len(emitted) >= 1
      BY <1>11, <2>0, <2>2
    <3>2. on[i] = there /\ on[i - 1] = q[L]
      BY <1>12, <3>1
    <3>3. stream[i] = emitted[1] /\ emitted # <<>>
      BY <1>3, <1>11, <2>0, <2>2, <3>1
    <3> QED BY <1>6, <1>8, <3>1, <3>2, <3>3
  <2>3. CASE i = L + 2
    <3>1. /\ i - 1 \in 0 .. Len(stream) /\ ~(i - 1 <= L) /\ ~(i <= L) /\ i # 0
          /\ Len(emitted) = 2
      BY <1>11, <2>0, <2>3
    <3>2. on[i] = there /\ on[i - 1] = there
      BY <1>12, <3>1
    <3>3. 2 \in DOMAIN emitted /\ stream[i] = emitted[2]
      BY <1>3, <1>11, <2>3, <3>1
    <3> QED BY <1>7, <3>1, <3>2, <3>3
  <2>4. \A a, b \in Nat, k \in 0 .. 2 : a <= b + k => a <= b \/ a = b + 1 \/ a = b + 2
    OBVIOUS
  <2>5. i <= L \/ i = L + 1 \/ i = L + 2
    BY <2>0, <2>4
  <2> QED BY <2>1, <2>2, <2>3, <2>5
<1>16. Chain(m0, stream, on)
  <2> DEFINE same == [i \in 0 .. Len(stream) |->
                         IF i = 0 THEN Replaying(m0, <<>>, FALSE)
                         ELSE ReplayStep(on[i - 1], stream[i])]
  <2>1. \A i \in 0 .. Len(stream) : on[i] = same[i]
    BY <1>15
  <2>2. on = same
    BY <1>13, <2>1
  <2> QED BY <2>2 DEF Chain
<1>17. on[Len(stream)] = Replaying(n, stream, FALSE)
  <2>0. /\ Len(stream) \in Nat /\ Len(stream) \in 0 .. Len(stream)
        /\ Len(stream) <= L <=> Len(emitted) = 0
    BY <1>3, <1>11
  <2>1. CASE emitted = <<>>
    <3>1. Len(stream) = L /\ n = m
      BY <1>3, <1>5, <1>11, <2>1
    <3>2. stream = old
      BY <1>2, <1>9, <2>1
    <3>3. on[Len(stream)] = q[L]
      BY <1>3, <1>12, <2>0, <2>1, <3>1
    <3> QED BY <1>8, <3>1, <3>2, <3>3
  <2>2. CASE emitted # <<>>
    BY <1>3, <1>12, <2>0, <2>2 DEF there
  <2> QED BY <2>1, <2>2
<1>18. \E s : Chain(m0, stream, s) /\ s[Len(stream)] = Replaying(n, stream, FALSE)
  BY <1>16, <1>17
<1> QED BY <1>1, <1>18 DEF Replayed, stream, r

-----------------------------------------------------------------------------
(* The rows of a new match                                                 *)

\* An empty stream replays to the match it starts from.
LEMMA NothingReplayed ==
    ASSUME NEW d, d.log = <<>>
    PROVE  Replayed(d.match, d)
<1> DEFINE q == [i \in 0 .. 0 |-> Replaying(d.match, <<>>, FALSE)]
<1>1. StreamOf(d) = <<>>
  BY DEF StreamOf
<1>2. q = [i \in 0 .. Len(<<>>) |-> IF i = 0 THEN Replaying(d.match, <<>>, FALSE)
                                   ELSE ReplayStep(q[i - 1], <<>>[i])]
  OBVIOUS
<1>3. Chain(d.match, <<>>, q) /\ q[Len(<<>>)] = Replaying(d.match, <<>>, FALSE)
  BY <1>2 DEF Chain
<1> HIDE DEF q
<1> QED BY <1>1, <1>3 DEF Replayed

\* A created row is in order, and nobody has used an id on it.
LEMMA CreatedRows ==
    ASSUME NEW m \in Match, m.seq = 0, m.status = "CREATED", m.reason = None,
           m.latest = [p \in Player |-> None], m.disconnected = [p \in Player |-> FALSE]
    PROVE  Recorded(CreatedRow(m)) /\ Mirrors(CreatedRow(m)) /\ Replayed(m, CreatedRow(m))
<1> DEFINE r == CreatedRow(m)
<1>1. /\ r.match = m /\ r.log = <<>> /\ r.columns = Columns(m) /\ r.offers = {}
      /\ r.away = [p \in Player |-> None] /\ r.result = None /\ r.analysed = None
  BY DEF CreatedRow
<1>2. ~Terminal(m)
  BY DEF Terminal
<1> HIDE DEF r
<1>3. r.log \in Seq({}) /\ Len(r.log) = 0 /\ DOMAIN r.log = {}
  BY <1>1
<1>4. Recorded(r)
  BY <1>1, <1>3 DEF Recorded
<1>5. \A p \in Player : BidRows(r, p) = {}
  BY <1>1 DEF BidRows
<1>6. OffersMirror(r)
  BY <1>1, <1>5 DEF OffersMirror
<1>7. AwayMirrors(r)
  BY <1>1 DEF AwayMirrors
<1>8. ResultMirrors(r)
  BY <1>1, <1>2 DEF ResultMirrors
<1>9. Replayed(m, r)
  BY <1>1, NothingReplayed
<1> QED BY <1>1, <1>4, <1>6, <1>7, <1>8, <1>9 DEF Mirrors, r

\* The match a new row starts from.
LEMMA CreatedMatchType ==
    ASSUME NEW rv \in [Player -> Amount], NEW first \in Player
    PROVE  LET m == CreatedMatch("FRIEND_LIVE", rv, first) IN
           /\ m \in Match /\ m.seq = 0 /\ m.status = "CREATED" /\ m.reason = None /\ m.rv = rv
           /\ m.latest = [p \in Player |-> None]
           /\ m.disconnected = [p \in Player |-> FALSE]
           /\ m.ready = [p \in Player |-> FALSE]
<1>1. CreatedMatch("FRIEND_LIVE", rv, first) \in Match
  BY CreatedType DEF Mode
<1> QED BY <1>1 DEF CreatedMatch

\* What a READY admitted to a row leaves: no bid, no end.
LEMMA ReadyPersisted ==
    ASSUME NEW d, Recorded(d), Mirrors(d), ~Terminal(d.match), NEW id, NEW p \in Player,
           Admitted(d, id, Command("READY", p, None), 0)
    PROVE  LET r == Persist(d, id, Command("READY", p, None), 0) IN
           /\ Recorded(r) /\ Mirrors(r) /\ ~Terminal(r.match)
           /\ r.match.rv = d.match.rv /\ r.match.latest = d.match.latest
           /\ \A m0 : Replayed(m0, d) => Replayed(m0, r)
<1> DEFINE c == Command("READY", p, None)
           r == Persist(d, id, c, 0)
<1>1. Recorded(r) /\ Mirrors(r)
  BY PersistRecorded, PersistMirrors
<1>2. r.match = Applied(d.match, c, 0)
  BY DEF Persist
<1>3. d.match \in Match /\ WellFormed(c) /\ Accepted(d.match, c, 0) /\ 0 \in Nat
  BY DEF Recorded, Admitted
<1>4. c.kind = "READY"
  BY DEF Command
<1> HIDE DEF c, r
<1>5. BidsFollow(d.match, c, r.match)
  BY <1>2, <1>3, AppliedBids
<1>6. GoesOnOrEnds(d.match, c, r.match)
  BY <1>2, <1>3, AppliedEnds
<1>7. ~Terminal(r.match)
  BY <1>4, <1>6 DEF GoesOnOrEnds, Endings
<1>8. r.match.rv = d.match.rv /\ r.match.latest = d.match.latest
  BY <1>4, <1>5 DEF BidsFollow
<1>9. \A m0 : Replayed(m0, d) => Replayed(m0, r)
  BY PersistReplayed DEF c, r
<1> QED BY <1>1, <1>7, <1>8, <1>9 DEF r, c

\* The first of two READY commands waits for the second.
LEMMA FirstReady ==
    ASSUME NEW m \in Match, NEW p \in Player, NEW t, ~m.ready[p], ~m.ready[Other(p)]
    PROVE  AfterReady(m, p, t).status = "READY" /\ AfterReady(m, p, t).seq = m.seq + 1
<1>1. AfterReady(m, p, t) = [m EXCEPT !.ready[p] = TRUE, !.status = "READY", !.seq = @ + 1]
  BY DEF AfterReady, Starts
<1> QED BY <1>1 DEF Match

\* The rows of an accepted rematch: both READY commands take effect.
LEMMA RematchRows ==
    ASSUME NEW rv \in [Player -> Amount], NEW first \in Player, NEW p \in Player
    PROVE  LET m == CreatedMatch("FRIEND_LIVE", rv, first)
               d == AcceptedRematch(m, p, 0) IN
           /\ Recorded(d) /\ Mirrors(d) /\ ~Terminal(d.match)
           /\ d.match.rv = m.rv /\ d.match.latest = m.latest
           /\ Replayed(m, d)
<1> DEFINE m == CreatedMatch("FRIEND_LIVE", rv, first)
           row == CreatedRow(m)
           mine == Command("READY", p, None)
           yours == Command("READY", Other(p), None)
           one == Persist(row, -1, mine, 0)
           new == NewRows(m, -1, Emitted(m, mine, 0))
<1>1. /\ m \in Match /\ m.seq = 0 /\ m.status = "CREATED" /\ m.reason = None
      /\ m.latest = [q \in Player |-> None] /\ m.disconnected = [q \in Player |-> FALSE]
      /\ m.ready = [q \in Player |-> FALSE]
  BY CreatedMatchType
<1> HIDE DEF m
<1>2. Recorded(row) /\ Mirrors(row) /\ Replayed(m, row)
  BY <1>1, CreatedRows
<1>3. row.match = m /\ row.log = <<>> /\ ~Terminal(m)
  BY <1>1 DEF CreatedRow, Terminal
<1> HIDE DEF row
<1>4. p \in Player /\ Other(p) \in Player /\ 0 \in Nat
  BY OtherIsPlayer
<1>5. WellFormed(mine) /\ WellFormed(yours) /\ Accepted(m, mine, 0)
  BY <1>1, <1>4 DEF WellFormed, Command, Accepted, CanReady
<1>6. ~Duplicate(row.log, -1)
  BY <1>3 DEF Duplicate
<1>7. Admitted(row, -1, mine, 0)
  BY <1>1, <1>3, <1>4, <1>5, <1>6 DEF Admitted
<1>8. /\ Recorded(one) /\ Mirrors(one) /\ ~Terminal(one.match)
      /\ one.match.rv = row.match.rv /\ one.match.latest = row.match.latest
      /\ Replayed(m, one)
  BY <1>2, <1>3, <1>4, <1>7, ReadyPersisted
<1>9. one.match.status = "READY" /\ one.match.seq = 1
  <2>1. one.match = AfterReady(m, p, 0)
    BY <1>3 DEF Persist, Applied, Command
  <2>2. ~m.ready[p] /\ ~m.ready[Other(p)]
    BY <1>1, <1>4
  <2> QED BY <1>1, <1>4, <2>1, <2>2, FirstReady
<1>10. one.log = <<>> \o new
  BY <1>3 DEF Persist, NewRows
<1>11. /\ \E T : new \in Seq(T)
       /\ \A i \in 1 .. Len(new) : new[i].commandId = IF i = 1 THEN -1 ELSE None
  <2> DEFINE emitted == Emitted(m, mine, 0)
  <2>1. /\ \E S : NewRows(m, -1, emitted) \in Seq(S)
        /\ Len(NewRows(m, -1, emitted)) = Len(emitted) /\ Len(emitted) \in 0 .. 2
        /\ \A i \in 1 .. Len(NewRows(m, -1, emitted)) :
             NewRows(m, -1, emitted)[i].seq = m.seq + i
             /\ NewRows(m, -1, emitted)[i].commandId = IF i = 1 THEN -1 ELSE None
    BY <1>5, NewEntries
  <2> QED BY <2>1
<1> HIDE DEF one, new, mine, yours
<1>12. ~Duplicate(one.log, -2)
  <2>1. PICK T : new \in Seq(T)
    BY <1>11
  <2>2. one.log = new /\ DOMAIN new = 1 .. Len(new)
    BY <1>10, <2>1
  <2>3. -2 # None /\ -2 # -1
    BY NoneAssumption
  <2> QED BY <1>11, <2>2, <2>3 DEF Duplicate
<1>13. Admitted(one, -2, yours, 0)
  <2>1. Accepted(one.match, yours, 0)
    BY <1>9 DEF Accepted, yours, Command, CanReady
  <2> QED BY <1>4, <1>5, <1>9, <1>12, <2>1 DEF Admitted
<1> DEFINE two == Persist(one, -2, yours, 0)
<1>14. /\ Recorded(two) /\ Mirrors(two) /\ ~Terminal(two.match)
       /\ two.match.rv = one.match.rv /\ two.match.latest = one.match.latest
       /\ Replayed(m, two)
  BY <1>4, <1>8, <1>13, ReadyPersisted DEF yours
<1>15. AcceptedRematch(m, p, 0) = two
  BY DEF AcceptedRematch, two, one, row, mine, yours
<1> HIDE DEF two
<1> QED BY <1>3, <1>8, <1>14, <1>15 DEF m

-----------------------------------------------------------------------------
(* The inductive invariant                                                 *)

ServiceInv ==
    /\ Recorded(db) /\ Mirrors(db) /\ Replayed(created, db)
    /\ clock \in Nat /\ db.match.rv = created.rv

\* A transaction that committed a command.
Committed(id, c, at) ==
    /\ Admitted(db, id, c, at)
    /\ db' = Persist(db, id, c, at)
    /\ created' = created /\ clock' = clock

\* What a client, the scheduler, the AI engine or presence sends is a command.
LEMMA SentIsWellFormed ==
    ASSUME NEW kind \in Kinds, NEW id \in Nat, NEW c \in Commands(kind, id)
    PROVE  WellFormed(c)
<1>1. kind \in {"READY", "OFFER", "ACCEPT", "WALK_AWAY", "REVEAL", "MESSAGE", "DISCONNECT",
                "RECONNECT", "ABORT", "TIMEOUT"}
  BY ServiceAssumption
<1>2. c.kind = kind /\ (kind # "ABORT" => c.by \in Player) /\ (kind = "OFFER" => c.id = id)
  <2>1. CASE kind = "OFFER"
    BY <2>1 DEF Commands, OfferCommand
  <2>2. CASE kind = "ACCEPT"
    BY <2>2 DEF Commands, Command
  <2>3. CASE kind = "REVEAL"
    BY <2>3 DEF Commands, Command
  <2>4. CASE kind = "MESSAGE"
    BY <2>4 DEF Commands, Command
  <2>5. CASE kind = "ABORT"
    BY <2>5 DEF Commands, Command
  <2>6. CASE kind \notin {"OFFER", "ACCEPT", "REVEAL", "MESSAGE", "ABORT"}
    <3>1. Commands(kind, id) = {Command(kind, p, None) : p \in Player}
      BY <2>6 DEF Commands
    <3> QED BY <2>6, <3>1 DEF Command
  <2> QED BY <2>1, <2>2, <2>3, <2>4, <2>5, <2>6
<1> QED BY <1>1, <1>2 DEF WellFormed

\* A step commits a command under an id that is free, or leaves the rows alone;
\* a command sent again is never one of the former.
LEMMA ServiceSteps ==
    ASSUME ServiceInv, [Next]_vars
    PROVE  \/ db' = db /\ created' = created /\ clock' \in Nat
           \/ \E id, c, at : Committed(id, c, at)
<1>1. db.match.seq = Len(db.log) /\ db.match.seq \in Nat /\ clock \in Nat
  BY DEF ServiceInv, Recorded, Match
<1>2. ASSUME NEW at \in Readings, NEW kind \in Kinds, Fresh(kind, at)
      PROVE  \/ db' = db /\ created' = created /\ clock' \in Nat
             \/ \E id, c, t : Committed(id, c, t)
  <2> DEFINE id == db.match.seq + 1
  <2>1. PICK c \in Commands(kind, id) : Execute(id, c, at)
    BY <1>2 DEF Fresh
  <2>2. at \in Nat /\ id \in Nat /\ id \in Int /\ id <= db.match.seq + 1
    BY <1>1 DEF Readings
  <2>3. WellFormed(c)
    BY <2>2, SentIsWellFormed
  <2> HIDE DEF id
  <2>4. CASE ~Duplicate(db.log, id) /\ Accepted(db.match, c, at)
    <3>1. Admitted(db, id, c, at)
      BY <2>2, <2>3, <2>4 DEF Admitted
    <3>2. Committed(id, c, at)
      BY <2>1, <2>4, <3>1 DEF Execute, Committed
    <3> QED BY <3>2
  <2>5. CASE ~(~Duplicate(db.log, id) /\ Accepted(db.match, c, at))
    BY <1>1, <2>1, <2>5 DEF Execute
  <2> QED BY <2>4, <2>5
<1>3. ASSUME NEW at, NEW i \in DOMAIN db.log, Resent(i, at)
      PROVE  db' = db /\ created' = created /\ clock' \in Nat
  <2>1. Duplicate(db.log, db.log[i].commandId)
    BY DEF Duplicate
  <2> QED BY <1>1, <1>3, <2>1 DEF Resent, Execute
<1>4. CASE Tick
  BY <1>1, <1>4 DEF Tick
<1>5. CASE UNCHANGED vars
  BY <1>1, <1>5 DEF vars
<1> QED BY <1>2, <1>3, <1>4, <1>5 DEF Next

\* A committed command: what it does to the match, and that it is in order again.
LEMMA CommittedStep ==
    ASSUME ServiceInv, NEW id, NEW c, NEW at, Committed(id, c, at)
    PROVE  /\ WellFormed(c) /\ Accepted(db.match, c, at) /\ at \in Nat
           /\ db.match \in Match
           /\ db'.match = Applied(db.match, c, at)
           /\ Recorded(db') /\ Mirrors(db') /\ Replayed(created', db')
           /\ GoesOnOrEnds(db.match, c, db'.match)
           /\ BidsFollow(db.match, c, db'.match)
<1>1. /\ WellFormed(c) /\ Accepted(db.match, c, at) /\ at \in Nat /\ db.match \in Match
      /\ Admitted(db, id, c, at) /\ Recorded(db) /\ Mirrors(db) /\ Replayed(created, db)
  BY DEF Committed, Admitted, ServiceInv, Recorded
<1>2. db'.match = Applied(db.match, c, at)
  BY DEF Committed, Persist
<1>3. Recorded(db') /\ Mirrors(db')
  BY <1>1, PersistRecorded, PersistMirrors DEF Committed
<1>6. Replayed(created', db')
  BY <1>1, PersistReplayed DEF Committed
<1>4. GoesOnOrEnds(db.match, c, db'.match)
  BY <1>1, <1>2, AppliedEnds
<1>5. BidsFollow(db.match, c, db'.match)
  BY <1>1, <1>2, AppliedBids
<1> QED BY <1>1, <1>2, <1>3, <1>4, <1>5, <1>6

\* What holds of the rows when the service first sees them.
LEMMA ServiceInit ==
    Init => ServiceInv /\ created.rv \in ReservationPairs /\ ~Terminal(db.match)
            /\ db.match.latest = [p \in Player |-> None]
<1> SUFFICES ASSUME Init
             PROVE  ServiceInv /\ created.rv \in ReservationPairs /\ ~Terminal(db.match)
                    /\ db.match.latest = [p \in Player |-> None]
  OBVIOUS
<1>1. PICK rv \in ReservationPairs, first \in Player :
        /\ created = CreatedMatch("FRIEND_LIVE", rv, first)
        /\ db \in {CreatedRow(created)} \cup {AcceptedRematch(created, p, 0) : p \in Player}
        /\ clock = 0
  BY DEF Init
<1>2. rv \in [Player -> Amount]
  BY ServiceAssumption
<1>3. /\ created \in Match /\ created.seq = 0 /\ created.status = "CREATED"
      /\ created.reason = None /\ created.rv = rv
      /\ created.latest = [p \in Player |-> None]
      /\ created.disconnected = [p \in Player |-> FALSE]
  BY <1>1, <1>2, CreatedMatchType
<1>4. CASE db = CreatedRow(created)
  <2>1. Recorded(db) /\ Mirrors(db) /\ Replayed(created, db)
    BY <1>3, <1>4, CreatedRows
  <2>2. db.match = created
    BY <1>4 DEF CreatedRow
  <2> QED BY <1>1, <1>3, <2>1, <2>2 DEF ServiceInv, Terminal
<1>5. ASSUME NEW p \in Player, db = AcceptedRematch(created, p, 0)
      PROVE  ServiceInv /\ created.rv \in ReservationPairs /\ ~Terminal(db.match)
             /\ db.match.latest = [q \in Player |-> None]
  <2>1. /\ Recorded(db) /\ Mirrors(db) /\ ~Terminal(db.match)
        /\ db.match.rv = created.rv /\ db.match.latest = created.latest
        /\ Replayed(created, db)
    BY <1>1, <1>2, <1>5, RematchRows
  <2> QED BY <1>1, <1>3, <2>1 DEF ServiceInv
<1> QED BY <1>1, <1>4, <1>5

\* Every step keeps it.
LEMMA ServiceKept == ServiceInv /\ [Next]_vars => ServiceInv'
<1> SUFFICES ASSUME ServiceInv, [Next]_vars PROVE ServiceInv'
  OBVIOUS
<1>1. CASE db' = db /\ created' = created /\ clock' \in Nat
  BY <1>1 DEF ServiceInv
<1>2. CASE \E id, c, at : Committed(id, c, at)
  <2>1. PICK id, c, at : Committed(id, c, at)
    BY <1>2
  <2>2. Recorded(db') /\ Mirrors(db') /\ Replayed(created', db') /\ BidsFollow(db.match, c, db'.match)
    BY <2>1, CommittedStep
  <2>3. clock' \in Nat /\ db'.match.rv = created'.rv
    BY <2>1, <2>2 DEF ServiceInv, BidsFollow, Committed
  <2> QED BY <2>2, <2>3 DEF ServiceInv
<1> QED BY <1>1, <1>2, ServiceSteps

\* It holds throughout.
LEMMA ServiceInvariant == Spec => []ServiceInv
<1>1. Init => ServiceInv
  BY ServiceInit
<1> QED BY <1>1, ServiceKept, PTL DEF Spec

-----------------------------------------------------------------------------
(* What follows                                                            *)

\* For every configuration and any sequence of sends, resends and stale clock
\* readings: a command id stands on one stored event at most, and the stream is
\* gapless and as long as the snapshot says (SI-004).
THEOREM CommandsTakeEffectOnce == Spec => []ExactlyOnce
<1>1. ServiceInv => ExactlyOnce
  BY DEF ServiceInv, Recorded, ExactlyOnce
<1> QED BY <1>1, ServiceInvariant, PTL

\* For every configuration: columns, absence, offer rows, result and analysis
\* agree with the snapshot they were written beside.
THEOREM RowsAgree == Spec => []RowsMirrorSnapshot
<1>1. ServiceInv => RowsMirrorSnapshot
  <2> SUFFICES ASSUME ServiceInv PROVE RowsMirrorSnapshot
    OBVIOUS
  <2>0. Mirrors(db) /\ OffersMirror(db) /\ AwayMirrors(db) /\ ResultMirrors(db)
        /\ db.match.seq \in Nat
    BY DEF ServiceInv, Mirrors, Recorded, Match
  <2>1. ASSUME NEW p \in Player PROVE LastOffer(p) = db.match.latest[p]
    <3> DEFINE mine == BidRows(db, p)
    <3>1. CASE mine = {}
      BY <2>0, <3>1 DEF LastOffer, BidRows, OffersMirror
    <3>2. CASE mine # {}
      <4>1. PICK o \in mine : o.amount = db.match.latest[p] /\ \A q \in mine : q.seq <= o.seq
        BY <2>0, <3>2 DEF OffersMirror
      <4>2. \A q \in mine : q \in db.offers /\ q.seq \in Nat
        BY <2>0 DEF OffersMirror, BidRows
      <4>3. ASSUME NEW x \in mine, \A q \in mine : q.seq <= x.seq PROVE x = o
        <5>1. x.seq = o.seq
          BY <4>1, <4>2, <4>3
        <5> QED BY <2>0, <4>2, <5>1 DEF OffersMirror
      <4> DEFINE last == CHOOSE x \in mine : \A q \in mine : q.seq <= x.seq
      <4>4. last \in mine /\ \A q \in mine : q.seq <= last.seq
        BY <4>1
      <4>5. last = o
        BY <4>3, <4>4
      <4>6. LastOffer(p) = last.amount
        BY <3>2 DEF LastOffer, BidRows
      <4> QED BY <4>1, <4>5, <4>6
    <3> QED BY <3>1, <3>2
  <2> QED BY <2>0, <2>1 DEF RowsMirrorSnapshot, Mirrors, AwayMirrors, ResultMirrors
<1> QED BY <1>1, ServiceInvariant, PTL

\* For every configuration: replaying the stored events from the created match
\* gives the stored match and tells the same events, at every point of its life
\* (replayMatch, PRD-009).
THEOREM StreamRebuildsSnapshot == Spec => []ReplayReproducesSnapshot
<1>1. ServiceInv => ReplayReproducesSnapshot
  <2> SUFFICES ASSUME ServiceInv PROVE ReplayReproducesSnapshot
    OBVIOUS
  <2>1. Len(StreamOf(db)) \in Nat
    BY StreamLength DEF ServiceInv, Recorded
  <2>2. PICK r : /\ Chain(created, StreamOf(db), r)
                 /\ r[Len(StreamOf(db))] = Replaying(db.match, StreamOf(db), FALSE)
    BY DEF ServiceInv, Replayed
  <2>3. Replay(created, StreamOf(db)) = Replaying(db.match, StreamOf(db), FALSE)
    BY <2>1, <2>2, ReplayIsChain
  <2>4. Events = StreamOf(db)
    BY DEF Events, StreamOf
  <2> QED BY <2>3, <2>4 DEF ReplayReproducesSnapshot
<1> QED BY <1>1, ServiceInvariant, PTL

\* Whatever reading of the clock a waiting transaction carries, no charged time
\* is given back (GR-023).
THEOREM ChargesAreKept == Spec => ChargesOnlyGrow
<1>1. ServiceInv /\ [Next]_vars =>
        [\A p \in Player : db'.match.cumulative[p] >= db.match.cumulative[p]]_vars
  <2> SUFFICES ASSUME ServiceInv, [Next]_vars, NEW p \in Player
               PROVE  db'.match.cumulative[p] >= db.match.cumulative[p]
    OBVIOUS
  <2>1. CASE db' = db
    <3>1. db.match.cumulative[p] \in Nat
      BY DEF ServiceInv, Recorded, Match
    <3> QED BY <2>1, <3>1
  <2>2. CASE \E id, c, at : Committed(id, c, at)
    <3>1. PICK id, c, at : Committed(id, c, at)
      BY <2>2
    <3> QED BY <3>1, CommittedStep, AppliedCharges
  <2> QED BY <2>1, <2>2, ServiceSteps
<1> QED BY <1>1, ServiceInvariant, PTL DEF Spec, ChargesOnlyGrow

\* A timeout is stored for the player on turn; what erases him again is a commit
\* that tells nothing (GR-024).
TimeoutStored ==
    /\ db.match.reason = None /\ db'.match.reason = "TIMED_OUT" =>
         db'.timeoutPlayer = db.match.active
    /\ db.match.reason = "TIMED_OUT" /\ db'.timeoutPlayer # db.timeoutPlayer =>
         db'.timeoutPlayer = None /\ db'.log = db.log

\* A committed command does just that.
LEMMA CommittedTimeout ==
    ASSUME ServiceInv, NEW id, NEW c, NEW at, Committed(id, c, at)
    PROVE  TimeoutStored
<1> DEFINE m == db.match
           n == Applied(m, c, at)
           emitted == Emitted(m, c, at)
<1>1. /\ WellFormed(c) /\ Accepted(m, c, at) /\ m \in Match /\ db'.match = n
      /\ GoesOnOrEnds(m, c, n)
  BY CommittedStep
<1>2. Emits(c, at, emitted)
  BY <1>1, EmittedForm
<1>3. /\ n.seq = m.seq + Len(emitted) /\ m.seq \in Nat
      /\ IF emitted = <<>> THEN n = m ELSE n.seq > m.seq
  BY <1>1, AppliedCounts DEF Match
<1>4. db'.timeoutPlayer = IF c.kind = "TIMEOUT" /\ n.reason = "TIMED_OUT" THEN c.by ELSE None
  BY <1>1, <1>2, TimedOutOf DEF Committed, Persist
<1>5. db'.log = db.log \o NewRows(m, id, emitted)
  BY DEF Committed, Persist, NewRows
<1>6. /\ ~Terminal(m) => m.reason = None
      /\ \E S : db.log \in Seq(S)
  BY DEF ServiceInv, Recorded
<1>7. c.kind = "TIMEOUT" => m.active = c.by
  BY <1>1 DEF Accepted, CanTimeout
<1> HIDE DEF n, emitted
<1>8. ASSUME m.reason = None, n.reason = "TIMED_OUT" PROVE db'.timeoutPlayer = m.active
  <2>1. "TIMED_OUT" # None
    BY NoneAssumption DEF Reason
  <2>2. c.kind = "TIMEOUT"
    BY <1>1, <1>8, <2>1 DEF GoesOnOrEnds, Endings
  <2> QED BY <1>4, <1>7, <1>8, <2>2
<1>9. ASSUME m.reason = "TIMED_OUT" PROVE db'.timeoutPlayer = None /\ db'.log = db.log
  <2>1. Terminal(m)
    BY <1>6, <1>9, NoneAssumption DEF Reason
  <2>2. n = m /\ c.kind \notin Endings
    BY <1>1, <2>1 DEF GoesOnOrEnds
  <2>3. emitted = <<>>
    BY <1>3, <2>2
  <2>4. NewRows(m, id, emitted) = <<>>
    BY <2>3 DEF NewRows
  <2>5. db.log \o <<>> = db.log
    BY <1>6
  <2> QED BY <1>4, <1>5, <2>2, <2>4, <2>5 DEF Endings
<1> QED BY <1>1, <1>8, <1>9 DEF TimeoutStored

\* Whatever is sent, resent or lost after it.
THEOREM TimeoutIsKept == Spec => TimedOutPlayerKept
<1>1. ServiceInv /\ [Next]_vars => [TimeoutStored]_vars
  <2> SUFFICES ASSUME ServiceInv, [Next]_vars PROVE TimeoutStored
    OBVIOUS
  <2>1. CASE db' = db
    BY <2>1, NoneAssumption DEF TimeoutStored, Reason
  <2>2. CASE \E id, c, at : Committed(id, c, at)
    BY <2>2, CommittedTimeout
  <2> QED BY <2>1, <2>2, ServiceSteps
<1>2. [TimeoutStored]_vars <=>
        [/\ db.match.reason = None /\ db'.match.reason = "TIMED_OUT" =>
              db'.timeoutPlayer = db.match.active
         /\ db.match.reason = "TIMED_OUT" /\ db'.timeoutPlayer # db.timeoutPlayer =>
              db'.timeoutPlayer = None /\ db'.log = db.log]_vars
  BY DEF TimeoutStored
<1> QED BY <1>1, <1>2, ServiceInvariant, PTL DEF Spec, TimedOutPlayerKept

-----------------------------------------------------------------------------
(* The rows implement the abstract bargain                                 *)

\* The outcome the rows show.
RowOutcome ==
    IF db.columns.status = "DEAL" THEN db.columns.settlement
    ELSE IF db.columns.status \in {"NO_DEAL", "ABORTED"} THEN 0 ELSE None

\* The rows the bargain reads are the snapshot's.
LEMMA RowsOfSnapshot ==
    ASSUME NEW d, Mirrors(d)
    PROVE  /\ d.columns.latest = d.match.latest
           /\ d.columns.status = d.match.status
           /\ d.columns.settlement = d.match.settlement
BY DEF Mirrors, Columns

\* A committed offer is a bid, an acceptance strikes, an end without a deal
\* breaks; nothing else shows.
LEMMA CommittedBargain ==
    ASSUME ServiceInv, NEW id, NEW c, NEW at, Committed(id, c, at)
    PROVE  [B!Next]_(B!bargainVars)
<1> DEFINE m == db.match
           n == db'.match
<1>1. /\ WellFormed(c) /\ Accepted(m, c, at) /\ m \in Match
      /\ GoesOnOrEnds(m, c, n) /\ BidsFollow(m, c, n)
  BY CommittedStep
<1>2. /\ db.columns.latest = m.latest /\ db.columns.status = m.status
      /\ db.columns.settlement = m.settlement
  BY RowsOfSnapshot DEF ServiceInv
<1>3. /\ db'.columns.latest = n.latest /\ db'.columns.status = n.status
      /\ db'.columns.settlement = n.settlement
  BY CommittedStep, RowsOfSnapshot
<1>4. created'.rv = created.rv /\ m.rv = created.rv
  BY DEF Committed, ServiceInv
<1>5. Player = B!Side /\ Amount = 1 .. MaxAmount
  BY DEF Player, B!Side, Amount
<1>6. CASE Terminal(m)
  <2>1. n = m
    BY <1>1, <1>6 DEF GoesOnOrEnds
  <2>2. RowOutcome' = RowOutcome /\ db'.columns.latest = db.columns.latest
    BY <1>2, <1>3, <2>1 DEF RowOutcome
  <2> QED BY <1>4, <2>2 DEF B!bargainVars, RowOutcome
<1> SUFFICES ASSUME ~Terminal(m) PROVE [B!Next]_(B!bargainVars)
  BY <1>6
<1>7. RowOutcome = None
  BY <1>2 DEF RowOutcome, Terminal
<1>8. CASE c.kind = "OFFER"
  <2>1. CanOffer(m, c.by, c.arg, at) /\ c.by \in Player /\ c.arg \in Amount
    BY <1>1, <1>8 DEF Accepted, WellFormed, CanOffer
  <2>2. ~Terminal(n)
    BY <1>1, <1>8 DEF GoesOnOrEnds, Endings
  <2>3. RowOutcome' = None
    BY <1>3, <2>2 DEF RowOutcome, Terminal
  <2>4. B!Affordable(c.by, c.arg)
    BY <1>4, <2>1 DEF CanOffer, WithinReservation, B!Affordable
  <2>5. db.columns.latest[c.by] # None => B!Improves(c.by, db.columns.latest[c.by], c.arg)
    BY <1>2, <2>1 DEF CanOffer, TowardOpponent, B!Improves
  <2>6. db'.columns.latest = [db.columns.latest EXCEPT ![c.by] = c.arg]
    BY <1>1, <1>2, <1>3, <1>8 DEF BidsFollow
  <2>7. B!Bid(c.by, c.arg)
    BY <1>4, <1>7, <2>3, <2>4, <2>5, <2>6 DEF B!Bid, RowOutcome
  <2> QED BY <1>5, <2>1, <2>7 DEF B!Next
<1>9. CASE c.kind = "ACCEPT"
  <2>1. CanAccept(m, c.by, c.arg, at) /\ c.by \in Player
    BY <1>1, <1>9 DEF Accepted, WellFormed
  <2>2. n.status = "DEAL" /\ n.settlement = m.latest[Other(c.by)] /\ n.latest = m.latest
    BY <1>1, <1>9 DEF GoesOnOrEnds, BidsFollow
  <2>3. RowOutcome' = m.latest[Other(c.by)] /\ db'.columns.latest = db.columns.latest
    BY <1>2, <1>3, <2>2 DEF RowOutcome
  <2>4. B!Opposite(c.by) = Other(c.by)
    BY DEF B!Opposite, Other
  <2>5. B!Affordable(c.by, m.latest[Other(c.by)]) /\ m.latest[Other(c.by)] # None
    BY <1>4, <2>1 DEF CanAccept, WithinReservation, B!Affordable
  <2>6. B!Strike(c.by)
    BY <1>2, <1>4, <1>7, <2>3, <2>4, <2>5 DEF B!Strike, RowOutcome
  <2> QED BY <1>5, <2>1, <2>6 DEF B!Next
<1>10. CASE c.kind \in {"WALK_AWAY", "TIMEOUT", "ABORT"}
  <2>1. n.status \in {"NO_DEAL", "ABORTED"} /\ n.latest = m.latest
    BY <1>1, <1>10 DEF GoesOnOrEnds, BidsFollow
  <2>2. RowOutcome' = 0 /\ db'.columns.latest = db.columns.latest
    BY <1>2, <1>3, <2>1 DEF RowOutcome
  <2>3. B!Break
    BY <1>4, <1>7, <2>2 DEF B!Break, B!Broken, RowOutcome
  <2> QED BY <2>3 DEF B!Next
<1>11. CASE c.kind \notin {"OFFER", "ACCEPT", "WALK_AWAY", "TIMEOUT", "ABORT"}
  <2>1. ~Terminal(n) /\ n.latest = m.latest
    BY <1>1, <1>11 DEF GoesOnOrEnds, Endings, BidsFollow
  <2>2. RowOutcome' = None /\ db'.columns.latest = db.columns.latest
    BY <1>2, <1>3, <2>1 DEF RowOutcome, Terminal
  <2> QED BY <1>4, <1>7, <2>2 DEF B!bargainVars, RowOutcome
<1> QED BY <1>8, <1>9, <1>10, <1>11

\* For every configuration: under retries, stale clocks and crashes, what the
\* durable rows go through is the abstract bargain.
THEOREM RowsAreABargain == Spec => RowsImplementBargain
<1>1. Init => B!Init
  <2> SUFFICES ASSUME Init PROVE B!Init
    OBVIOUS
  <2>1. /\ Mirrors(db) /\ created.rv \in ReservationPairs /\ ~Terminal(db.match)
        /\ db.match.latest = [p \in Player |-> None]
    BY ServiceInit DEF ServiceInv
  <2>2. RowOutcome = None /\ db.columns.latest = [p \in Player |-> None]
    BY <2>1, RowsOfSnapshot DEF RowOutcome, Terminal
  <2> QED BY <2>1, <2>2 DEF B!Init, B!Side, Player, RowOutcome
<1>2. ServiceInv /\ [Next]_vars => [B!Next]_(B!bargainVars)
  <2> SUFFICES ASSUME ServiceInv, [Next]_vars PROVE [B!Next]_(B!bargainVars)
    OBVIOUS
  <2>1. CASE db' = db /\ created' = created
    BY <2>1 DEF B!bargainVars
  <2>2. CASE \E id, c, at : Committed(id, c, at)
    BY <2>2, CommittedBargain
  <2> QED BY <2>1, <2>2, ServiceSteps
<1> QED BY <1>1, <1>2, ServiceInvariant, PTL DEF Spec, RowsImplementBargain, B!Spec

-----------------------------------------------------------------------------
(* The review: folds and filters                                           *)

\* Induction up to n, over the set of the numbers a fact holds of.
LEMMA Climb ==
    ASSUME NEW n \in Nat, NEW T, 0 \in T, \A i \in 1 .. n : i - 1 \in T => i \in T
    PROVE  0 .. n \subseteq T
<1> DEFINE missing == (0 .. n) \ T
<1>1. SUFFICES ASSUME missing # {} PROVE FALSE
  OBVIOUS
<1>2. missing \subseteq Nat
  OBVIOUS
<1>3. PICK k \in missing : \A j \in missing : k <= j
  <2> HIDE DEF missing
  <2> QED BY <1>1, <1>2, LeastMember
<1>4. k \in 1 .. n /\ k - 1 \in 0 .. n /\ k - 1 \notin missing
  BY <1>3
<1> QED BY <1>3, <1>4

\* A set of positions has a first and a last.
LEMMA Extremes ==
    ASSUME NEW n \in Nat, NEW T, T \subseteq 1 .. n, T # {}
    PROVE  /\ Max(T) \in T /\ \A y \in T : y <= Max(T)
           /\ Min(T) \in T /\ \A y \in T : Min(T) <= y
<1>0. T \subseteq Nat
  OBVIOUS
<1>1. \E x \in T : \A y \in T : x <= y
  BY <1>0, LeastMember
<1>2. Min(T) \in T /\ \A y \in T : Min(T) <= y
  BY <1>1 DEF Min
<1> DEFINE R == {n - x : x \in T}
<1>3. R \subseteq Nat
  <2>1. ASSUME NEW x \in T PROVE n - x \in Nat
    OBVIOUS
  <2> QED BY <2>1
<1>4. PICK z \in R : \A y \in R : z <= y
  <2>1. R # {}
    OBVIOUS
  <2> HIDE DEF R
  <2> QED BY <1>3, <2>1, LeastMember
<1>5. PICK x \in T : z = n - x
  OBVIOUS
<1>6. ASSUME NEW y \in T PROVE x >= y
  <2>1. n - y \in R
    OBVIOUS
  <2> QED BY <2>1, <1>4, <1>5
<1>7. Max(T) \in T /\ \A y \in T : Max(T) >= y
  BY <1>6 DEF Max
<1> QED BY <1>2, <1>7

\* The last of the first n numbers.
LEMMA LastOfSegment ==
    ASSUME NEW n \in Nat, NEW i \in 1 .. n
    PROVE  Max(1 .. i) = i /\ (1 .. i) \ {i} = 1 .. (i - 1)
<1>1. i \in Nat /\ 1 .. i \subseteq 1 .. i /\ 1 .. i # {}
  OBVIOUS
<1>2. Max(1 .. i) \in 1 .. i /\ \A y \in 1 .. i : y <= Max(1 .. i)
  BY <1>1, Extremes
<1>3. Max(1 .. i) = i
  BY <1>2
<1> QED BY <1>3

\* The recursion behind FoldLeft over n elements, each step given as a function.
FoldSolution(n, S, b, F, g) ==
    /\ g \in [SUBSET (1 .. n) -> S]
    /\ \A t \in SUBSET (1 .. n) : g[t] = IF t = {} THEN b ELSE F[Max(t)][g[t \ {Max(t)}]]

\* It has a solution.
LEMMA FoldExists ==
    ASSUME NEW n \in Nat, NEW S, NEW b \in S, NEW F \in [1 .. n -> [S -> S]]
    PROVE  \E g : FoldSolution(n, S, b, F, g)
<1> DEFINE Solves(g, k) == \A t \in SUBSET (1 .. k) :
               g[t] = IF t = {} THEN b ELSE F[Max(t)][g[t \ {Max(t)}]]
           T == {k \in 0 .. n : \E g \in [SUBSET (1 .. k) -> S] : Solves(g, k)}
<1>1. 0 \in T
  <2> DEFINE g == [t \in SUBSET (1 .. 0) |-> b]
  <2>1. g \in [SUBSET (1 .. 0) -> S]
    OBVIOUS
  <2>2. Solves(g, 0)
    OBVIOUS
  <2>3. 0 \in 0 .. n
    OBVIOUS
  <2> HIDE DEF g, Solves
  <2> QED BY <2>1, <2>2, <2>3
<1>2. ASSUME NEW k \in 1 .. n, k - 1 \in T PROVE k \in T
  <2>1. PICK h \in [SUBSET (1 .. (k - 1)) -> S] : Solves(h, k - 1)
    BY <1>2
  <2> DEFINE g == [t \in SUBSET (1 .. k) |->
                      IF k \in t THEN F[k][h[t \ {k}]] ELSE h[t]]
  <2>2. \A t \in SUBSET (1 .. k) :
            IF k \in t THEN t \ {k} \in SUBSET (1 .. (k - 1))
                       ELSE t \in SUBSET (1 .. (k - 1))
    OBVIOUS
  <2>3. g \in [SUBSET (1 .. k) -> S]
    BY <2>2
  <2>4. ASSUME NEW t \in SUBSET (1 .. k)
        PROVE  g[t] = IF t = {} THEN b ELSE F[Max(t)][g[t \ {Max(t)}]]
    <3>1. CASE k \in t
      <4>1. Max(t) = k
        <5>1. k \in Nat /\ t \subseteq 1 .. k /\ t # {}
          BY <3>1
        <5>2. Max(t) \in t /\ \A y \in t : y <= Max(t)
          BY <5>1, Extremes
        <5>3. Max(t) \in 1 .. k /\ k <= Max(t)
          BY <5>1, <5>2, <3>1
        <5> QED BY <5>3
      <4>2. t \ {k} \in SUBSET (1 .. k) /\ k \notin t \ {k}
        OBVIOUS
      <4>3. g[t \ {k}] = h[t \ {k}]
        BY <4>2
      <4> QED BY <3>1, <4>1, <4>3
    <3>2. CASE k \notin t
      <4>1. t \in SUBSET (1 .. (k - 1)) /\ g[t] = h[t]
        BY <3>2
      <4>2. CASE t = {}
        BY <4>1, <4>2, <2>1
      <4>3. CASE t # {}
        <5>1. t \ {Max(t)} \in SUBSET (1 .. k) /\ k \notin t \ {Max(t)}
          BY <3>2
        <5>2. g[t \ {Max(t)}] = h[t \ {Max(t)}]
          BY <5>1
        <5>3. h[t] = F[Max(t)][h[t \ {Max(t)}]]
          BY <4>1, <4>3, <2>1
        <5> QED BY <4>1, <4>3, <5>2, <5>3
      <4> QED BY <4>2, <4>3
    <3> QED BY <3>1, <3>2
  <2> HIDE DEF g
  <2>5. Solves(g, k)
    BY <2>4
  <2>6. k \in 0 .. n
    OBVIOUS
  <2> HIDE DEF Solves
  <2> QED BY <2>3, <2>5, <2>6
<1> HIDE DEF T
<1>3. 0 .. n \subseteq T
  BY <1>1, <1>2, Climb
<1>4. n \in T
  BY <1>3
<1> QED BY <1>4 DEF T, FoldSolution

\* Among goes along the sequence and keeps what belongs to T.
LEMMA AmongRuns ==
    ASSUME NEW X, NEW s \in Seq(X), NEW T
    PROVE  \E q : /\ q[0] = <<>> /\ Among(s, T) = q[Len(s)]
                  /\ \A i \in 1 .. Len(s) :
                       q[i] = IF s[i] \in T THEN Append(q[i - 1], s[i]) ELSE q[i - 1]
<1> DEFINE n == Len(s)
           S == Seq(X)
           F == [i \in 1 .. n |-> [x \in S |-> IF s[i] \in T THEN Append(x, s[i]) ELSE x]]
           it == CHOOSE g : g = [t \in SUBSET (DOMAIN s) |->
                     IF t = {} THEN <<>>
                     ELSE IF s[Max(t)] \in T THEN Append(g[t \ {Max(t)}], s[Max(t)])
                          ELSE g[t \ {Max(t)}]]
<1>1. n \in Nat /\ DOMAIN s = 1 .. n /\ <<>> \in S /\ \A i \in 1 .. n : s[i] \in X
  OBVIOUS
<1>2. F \in [1 .. n -> [S -> S]]
  <2>1. ASSUME NEW i \in 1 .. n, NEW x \in S PROVE Append(x, s[i]) \in S
    BY <1>1
  <2> QED BY <2>1
<1>3. PICK g \in [SUBSET (1 .. n) -> S] : \A t \in SUBSET (1 .. n) :
          g[t] = IF t = {} THEN <<>> ELSE F[Max(t)][g[t \ {Max(t)}]]
  <2> DEFINE b == <<>>
  <2>1. n \in Nat /\ b \in S
    BY <1>1
  <2> HIDE DEF F, S, n, it, b
  <2>2. \E g : FoldSolution(n, S, b, F, g)
    BY <2>1, <1>2, FoldExists
  <2> QED BY <2>2 DEF b, FoldSolution
<1>4. ASSUME NEW t \in SUBSET (1 .. n), t # {}
      PROVE  F[Max(t)][g[t \ {Max(t)}]] = IF s[Max(t)] \in T THEN Append(g[t \ {Max(t)}], s[Max(t)])
                                          ELSE g[t \ {Max(t)}]
  <2>1. Max(t) \in 1 .. n
    BY <1>1, <1>4, Extremes
  <2>2. g[t \ {Max(t)}] \in S
    OBVIOUS
  <2> QED BY <2>1, <2>2
<1>5. g = [t \in SUBSET (DOMAIN s) |->
              IF t = {} THEN <<>>
              ELSE IF s[Max(t)] \in T THEN Append(g[t \ {Max(t)}], s[Max(t)])
                   ELSE g[t \ {Max(t)}]]
  BY <1>1, <1>3, <1>4
<1>6. it = [t \in SUBSET (DOMAIN s) |->
              IF t = {} THEN <<>>
              ELSE IF s[Max(t)] \in T THEN Append(it[t \ {Max(t)}], s[Max(t)])
                   ELSE it[t \ {Max(t)}]]
  BY <1>5
<1>7. Among(s, T) = it[DOMAIN s]
  BY DEF Among, FoldLeft, MapThenFoldSet
<1> HIDE DEF it
<1> DEFINE q == [i \in 0 .. n |-> it[1 .. i]]
<1>8. q[0] = <<>> /\ Among(s, T) = q[n]
  BY <1>1, <1>6, <1>7
<1>9. ASSUME NEW i \in 1 .. n
      PROVE  q[i] = IF s[i] \in T THEN Append(q[i - 1], s[i]) ELSE q[i - 1]
  <2>1. Max(1 .. i) = i /\ (1 .. i) \ {i} = 1 .. (i - 1) /\ 1 .. i # {}
    BY <1>1, LastOfSegment
  <2>2. 1 .. i \in SUBSET (DOMAIN s)
    BY <1>1
  <2>3. it[1 .. i] = IF s[i] \in T THEN Append(it[1 .. (i - 1)], s[i]) ELSE it[1 .. (i - 1)]
    BY <1>6, <2>1, <2>2
  <2>4. i - 1 \in 0 .. n /\ i \in 0 .. n
    BY <1>1
  <2> QED BY <2>3, <2>4
<1> QED BY <1>8, <1>9

\* a is what the first n elements of s have in T: f tells where each was found.
Picked(s, T, n, a, f) ==
    /\ f \in [1 .. Len(a) -> 1 .. n]
    /\ \A k \in 1 .. Len(a) : a[k] = s[f[k]] /\ s[f[k]] \in T
    /\ \A j, k \in 1 .. Len(a) : j < k => f[j] < f[k]
    /\ \A i \in 1 .. n : s[i] \in T => \E k \in 1 .. Len(a) : f[k] = i

\* So it is with Among: an order-preserving enumeration of what it keeps.
LEMMA AmongPicks ==
    ASSUME NEW X, NEW s \in Seq(X), NEW T
    PROVE  /\ Among(s, T) \in Seq(X) /\ Len(Among(s, T)) <= Len(s)
           /\ \E f : Picked(s, T, Len(s), Among(s, T), f)
<1> DEFINE n == Len(s)
<1>1. PICK q : /\ q[0] = <<>> /\ Among(s, T) = q[n]
               /\ \A i \in 1 .. n : q[i] = IF s[i] \in T THEN Append(q[i - 1], s[i]) ELSE q[i - 1]
  BY AmongRuns
<1>2. n \in Nat /\ \A i \in 1 .. n : s[i] \in X
  OBVIOUS
<1> DEFINE Good(i) == q[i] \in Seq(X) /\ Len(q[i]) <= i /\ \E f : Picked(s, T, i, q[i], f)
           R == {i \in 0 .. n : Good(i)}
<1>3. 0 \in R
  <2>1. q[0] \in Seq(X) /\ Len(q[0]) = 0
    BY <1>1
  <2>2. Picked(s, T, 0, q[0], [k \in 1 .. 0 |-> 0])
    BY <2>1 DEF Picked
  <2>3. 0 \in 0 .. n
    BY <1>2
  <2> QED BY <2>1, <2>2, <2>3
<1>4. ASSUME NEW i \in 1 .. n, i - 1 \in R PROVE i \in R
  <2> DEFINE a == q[i - 1]
             b == q[i]
  <2>1. i - 1 \in Nat /\ i \in Nat /\ i \in 0 .. n /\ s[i] \in X
    BY <1>2
  <2>2. a \in Seq(X) /\ Len(a) <= i - 1 /\ \E f : Picked(s, T, i - 1, a, f)
    BY <1>4
  <2>3. PICK f : Picked(s, T, i - 1, a, f)
    BY <2>2
  <2>4. b = IF s[i] \in T THEN Append(a, s[i]) ELSE a
    BY <1>1
  <2> HIDE DEF a, b
  <2>5. CASE s[i] \in T
    <3> DEFINE l == Len(a)
               g == [k \in 1 .. (l + 1) |-> IF k = l + 1 THEN i ELSE f[k]]
    <3>1. /\ l \in Nat /\ b \in Seq(X) /\ Len(b) = l + 1 /\ b[l + 1] = s[i]
          /\ \A k \in 1 .. l : b[k] = a[k]
      BY <2>1, <2>2, <2>4, <2>5
    <3>2. /\ f \in [1 .. l -> 1 .. (i - 1)]
          /\ \A k \in 1 .. l : a[k] = s[f[k]] /\ s[f[k]] \in T
          /\ \A j, k \in 1 .. l : j < k => f[j] < f[k]
          /\ \A h \in 1 .. (i - 1) : s[h] \in T => \E k \in 1 .. l : f[k] = h
      BY <2>3 DEF Picked
    <3> HIDE DEF l
    <3>3. g \in [1 .. (l + 1) -> 1 .. i]
      BY <2>1, <3>1, <3>2
    <3>4. \A k \in 1 .. (l + 1) : b[k] = s[g[k]] /\ s[g[k]] \in T
      <4> SUFFICES ASSUME NEW k \in 1 .. (l + 1) PROVE b[k] = s[g[k]] /\ s[g[k]] \in T
        OBVIOUS
      <4>1. CASE k = l + 1
        BY <4>1, <3>1, <2>5
      <4>2. CASE k \in 1 .. l
        BY <4>2, <3>1, <3>2
      <4> QED BY <4>1, <4>2, <3>1
    <3>5. ASSUME NEW j \in 1 .. (l + 1), NEW k \in 1 .. (l + 1), j < k PROVE g[j] < g[k]
      <4>1. j \in 1 .. l /\ f[j] \in 1 .. (i - 1)
        BY <3>1, <3>2, <3>5
      <4>2. CASE k = l + 1
        BY <4>1, <4>2, <2>1, <3>1
      <4>3. CASE k \in 1 .. l
        BY <4>1, <4>3, <3>1, <3>2, <3>5
      <4> QED BY <4>2, <4>3, <3>1
    <3>6. ASSUME NEW h \in 1 .. i, s[h] \in T PROVE \E k \in 1 .. (l + 1) : g[k] = h
      <4>1. CASE h = i
        BY <4>1, <3>1
      <4>2. CASE h \in 1 .. (i - 1)
        <5>1. PICK k \in 1 .. l : f[k] = h
          BY <4>2, <3>2, <3>6
        <5>2. k \in 1 .. (l + 1) /\ g[k] = h
          BY <5>1, <3>1
        <5> QED BY <5>2
      <4> QED BY <4>1, <4>2, <2>1
    <3> HIDE DEF g
    <3>7. Picked(s, T, i, b, g)
      BY <3>1, <3>3, <3>4, <3>5, <3>6 DEF Picked
    <3> QED BY <2>1, <2>2, <3>1, <3>7 DEF b, l
  <2>6. CASE s[i] \notin T
    <3>1. \A h \in 1 .. i : s[h] \in T => h \in 1 .. (i - 1)
      BY <2>6, <2>1
    <3>2. \A k \in 1 .. (i - 1) : k \in 1 .. i
      BY <2>1
    <3>3. Picked(s, T, i, a, f)
      BY <2>3, <3>1, <3>2 DEF Picked
    <3> QED BY <2>1, <2>2, <2>4, <2>6, <3>3 DEF b
  <2> QED BY <2>5, <2>6
<1> HIDE DEF R
<1>5. 0 .. n \subseteq R
  BY <1>2, <1>3, <1>4, Climb
<1>6. Good(n)
  BY <1>2, <1>5 DEF R
<1> QED BY <1>1, <1>6

\* What follows of a filter for the sets of its elements.
LEMMA FilterKeeps ==
    ASSUME NEW X, NEW s \in Seq(X), NEW T
    PROVE  /\ Among(s, T) \in Seq(X) /\ Len(Among(s, T)) \in 0 .. Len(s)
           /\ DOMAIN Among(s, T) = 1 .. Len(Among(s, T))
           /\ \A k \in DOMAIN Among(s, T) :
                Among(s, T)[k] \in T /\ \E i \in DOMAIN s : Among(s, T)[k] = s[i]
           /\ \A i \in DOMAIN s :
                s[i] \in T => \E k \in DOMAIN Among(s, T) : Among(s, T)[k] = s[i]
<1> DEFINE a == Among(s, T)
<1>1. a \in Seq(X) /\ Len(a) <= Len(s) /\ \E f : Picked(s, T, Len(s), a, f)
  BY AmongPicks
<1> HIDE DEF a
<1>2. PICK f : Picked(s, T, Len(s), a, f)
  BY <1>1
<1>3. DOMAIN s = 1 .. Len(s) /\ DOMAIN a = 1 .. Len(a) /\ Len(a) \in 0 .. Len(s)
  BY <1>1
<1>4. ASSUME NEW k \in DOMAIN a PROVE a[k] \in T /\ \E i \in DOMAIN s : a[k] = s[i]
  BY <1>2, <1>3 DEF Picked
<1>5. ASSUME NEW i \in DOMAIN s, s[i] \in T PROVE \E k \in DOMAIN a : a[k] = s[i]
  BY <1>2, <1>3, <1>5 DEF Picked
<1> QED BY <1>1, <1>3, <1>4, <1>5 DEF a

\* The numbers from 1 to n that are in T, in order.
LEMMA FilterCounts ==
    ASSUME NEW n \in Nat, NEW T
    PROVE  LET a == Among([i \in 1 .. n |-> i], T) IN
           /\ a \in Seq(1 .. n) /\ Len(a) \in 0 .. n /\ DOMAIN a = 1 .. Len(a)
           /\ \A k \in DOMAIN a : a[k] \in T
           /\ \A j, k \in DOMAIN a : j < k => a[j] < a[k]
           /\ \A i \in 1 .. n : i \in T => \E k \in DOMAIN a : a[k] = i
<1> DEFINE s == [i \in 1 .. n |-> i]
           a == Among(s, T)
<1>1. s \in Seq(1 .. n) /\ Len(s) = n
  OBVIOUS
<1>2. a \in Seq(1 .. n) /\ Len(a) <= n /\ \E f : Picked(s, T, n, a, f)
  <2> HIDE DEF s
  <2> QED BY <1>1, AmongPicks
<1> HIDE DEF a
<1>3. PICK f : Picked(s, T, n, a, f)
  BY <1>2
<1>4. \A k \in 1 .. Len(a) : f[k] \in 1 .. n /\ a[k] = f[k] /\ f[k] \in T
  BY <1>3 DEF Picked
<1>5. DOMAIN a = 1 .. Len(a) /\ Len(a) \in 0 .. n
  BY <1>2
<1>6. \A j, k \in DOMAIN a : j < k => a[j] < a[k]
  BY <1>3, <1>4, <1>5 DEF Picked
<1>7. \A i \in 1 .. n : i \in T => \E k \in DOMAIN a : a[k] = i
  BY <1>3, <1>4, <1>5 DEF Picked
<1> QED BY <1>2, <1>4, <1>5, <1>6, <1>7 DEF a

-----------------------------------------------------------------------------
(* The review: the streams it reads                                        *)

AllAt(s, t) == \A i \in DOMAIN s : s[i].at = t

\* Whatever a command emits carries its instant.
LEMMA EmittedAt ==
    ASSUME NEW m, NEW t, NEW c, WellFormed(c)
    PROVE  AllAt(Emitted(m, c, t), t)
<1>1. ASSUME NEW e, NEW f, e.at = t, f.at = t
      PROVE  /\ AllAt(<<>>, t) /\ AllAt(<<e>>, t) /\ AllAt(<<e>> \o <<>>, t)
             /\ AllAt(<<e, f>>, t) /\ AllAt(<<e>> \o <<f>>, t)
  <2>1. AllAt(<<>>, t) /\ AllAt(<<e>>, t) /\ AllAt(<<e, f>>, t)
    BY <1>1 DEF AllAt
  <2>2. <<e>> \o <<>> = <<e>> /\ <<e>> \o <<f>> = <<e, f>>
    BY TwoEvents
  <2> QED BY <2>1, <2>2
<1>2. \A type, actor, arg : Event(type, actor, t, arg).at = t
  BY DEF Event
<1>3. CASE c.kind = "READY"
  BY <1>1, <1>2, <1>3 DEF Emitted, ReadyEvents
<1>4. CASE c.kind = "OFFER"
  BY <1>1, <1>2, <1>4 DEF Emitted, OfferEvents
<1>5. CASE c.kind \in Endings
  BY <1>1, <1>2, <1>5 DEF Emitted, Endings, AcceptEvents, WalkAwayEvents, TimeoutEvents
<1>6. CASE c.kind \in {"REVEAL", "MESSAGE"}
  BY <1>1, <1>2, <1>6 DEF Emitted, RevealEvents, MessageEvents
<1>7. CASE c.kind = "DISCONNECT"
  BY <1>1, <1>2, <1>7 DEF Emitted, DisconnectEvents
<1>8. CASE c.kind \in {"RECONNECT", "ABORT"}
  BY <1>1, <1>2, <1>8 DEF Emitted, ReconnectEvents, AbortEvents
<1> QED BY <1>3, <1>4, <1>5, <1>6, <1>7, <1>8 DEF WellFormed, Endings

\* A finished match emits nothing more.
LEMMA FinishedIsSilent ==
    ASSUME NEW m \in Match, NEW t \in Nat, NEW c, WellFormed(c), Accepted(m, c, t), Terminal(m)
    PROVE  Emitted(m, c, t) = <<>>
<1>1. c.kind \notin Endings \cup {"READY", "OFFER", "REVEAL", "MESSAGE"}
  BY DEF Accepted, Endings, Terminal, CanReady, CanOffer, CanReveal, CanMessage, CanAccept,
         CanWalkAway, CanTimeout, HasTurn
<1>2. c.kind \in {"DISCONNECT", "RECONNECT", "ABORT"}
  BY <1>1 DEF WellFormed, Endings
<1> QED BY <1>2 DEF Emitted, DisconnectEvents, ReconnectEvents, AbortEvents

\* The stream nv is ev and what command c adds to it at t.
Grown(ev, nv, c, t) ==
    /\ \E S : nv \in Seq(S)
    /\ Len(nv) \in {Len(ev) + 1, Len(ev) + 2}
    /\ \A k \in 1 .. Len(ev) : nv[k] = ev[k]
    /\ FirstEvent(c, t, nv[Len(ev) + 1])
    /\ Len(nv) = Len(ev) + 2 =>
         /\ LaterEvent(c, nv[Len(nv)]) /\ nv[Len(nv)].at = t
         /\ c.kind \in Endings \cup {"READY", "OFFER", "DISCONNECT"}
    /\ c.kind \in Endings => Len(nv) = Len(ev) + 2

LEMMA StreamGrows ==
    ASSUME NEW m \in Match, NEW t \in Nat, NEW c, WellFormed(c), Accepted(m, c, t),
           Emitted(m, c, t) # <<>>, NEW S, NEW ev \in Seq(S)
    PROVE  ~Terminal(m) /\ Grown(ev, ev \o Emitted(m, c, t), c, t)
<1> DEFINE emitted == Emitted(m, c, t)
           nv == ev \o emitted
<1>1. Emits(c, t, emitted)
  BY EmittedForm
<1>2. \A i \in DOMAIN emitted : emitted[i].at = t
  BY EmittedAt DEF AllAt
<1>3. ~Terminal(m) /\ emitted # <<>>
  BY FinishedIsSilent
<1> HIDE DEF emitted
<1>4. /\ \E R : emitted \in Seq(R)
      /\ Len(emitted) \in 0 .. 2 /\ DOMAIN emitted = 1 .. Len(emitted)
      /\ 1 \in DOMAIN emitted => FirstEvent(c, t, emitted[1])
      /\ 2 \in DOMAIN emitted =>
           /\ LaterEvent(c, emitted[2])
           /\ c.kind \in Endings \cup {"READY", "OFFER", "DISCONNECT"}
      /\ c.kind \in Endings => Len(emitted) = 2
      /\ emitted = <<>> <=> Len(emitted) = 0
  BY <1>1, EventsOf
<1>5. PICK R : emitted \in Seq(R)
  BY <1>4
<1>6. Len(emitted) \in 1 .. 2
  BY <1>3, <1>4
<1>7. /\ nv \in Seq(S \cup R) /\ Len(ev) \in Nat /\ Len(nv) = Len(ev) + Len(emitted)
      /\ \A i \in 1 .. Len(ev) : nv[i] = ev[i]
      /\ \A i \in 1 .. Len(emitted) : nv[Len(ev) + i] = emitted[i]
  BY <1>5, Appended
<1>8. nv[Len(ev) + 1] = emitted[1] /\ FirstEvent(c, t, emitted[1])
  BY <1>4, <1>6, <1>7
<1>9. Len(nv) = Len(ev) + 2 => Len(emitted) = 2 /\ nv[Len(nv)] = emitted[2]
  BY <1>6, <1>7
<1> HIDE DEF nv
<1>17. Len(nv) = Len(ev) + Len(emitted)
  BY <1>7
<1>18. \E Q : nv \in Seq(Q)
  BY <1>7, Zenon
<1>11. (\E Q : nv \in Seq(Q)) /\ Len(nv) \in {Len(ev) + 1, Len(ev) + 2}
  <2>1. ASSUME NEW a \in Nat, NEW b \in 1 .. 2 PROVE a + b \in {a + 1, a + 2}
    OBVIOUS
  <2>2. Len(nv) \in {Len(ev) + 1, Len(ev) + 2}
    BY <1>6, <1>7, <1>17, <2>1, Zenon
  <2> QED BY <1>18, <2>2, Zenon
<1>14. DOMAIN emitted = 1 .. Len(emitted)
  BY <1>4
<1>15. 2 \in DOMAIN emitted =>
         LaterEvent(c, emitted[2]) /\ c.kind \in Endings \cup {"READY", "OFFER", "DISCONNECT"}
  BY <1>4
<1>16. c.kind \in Endings => Len(emitted) = 2
  BY <1>4
<1>12. ASSUME Len(nv) = Len(ev) + 2
       PROVE  /\ LaterEvent(c, nv[Len(nv)]) /\ nv[Len(nv)].at = t
              /\ c.kind \in Endings \cup {"READY", "OFFER", "DISCONNECT"}
  <2>1. Len(emitted) = 2 /\ nv[Len(nv)] = emitted[2]
    BY <1>9, <1>12
  <2>2. 2 \in 1 .. 2
    OBVIOUS
  <2>3. 2 \in DOMAIN emitted
    BY <1>14, <2>1, <2>2, Zenon
  <2>4. emitted[2].at = t
    BY <1>2, <2>3
  <2> QED BY <1>15, <2>1, <2>3, <2>4, Zenon
<1>13. c.kind \in Endings => Len(nv) = Len(ev) + 2
  BY <1>16, <1>17, Zenon
<1>10. Grown(ev, nv, c, t)
  BY <1>7, <1>8, <1>11, <1>12, <1>13 DEF Grown
<1> QED BY <1>3, <1>10 DEF nv, emitted

\* Event k is an offer of p; it hands p's turn on.
BidAt(ev, p, k) == ev[k].type = "OFFER_SUBMITTED" /\ ev[k].actor = p
TurnAt(ev, p, k) == ev[k].type \in {"OFFER_SUBMITTED", "FACT_REVEALED"} /\ ev[k].actor = p

\* Event k ends the match.
EndAt(ev, k) == ev[k].type \in Decisive \cup {"MATCH_ABORTED"}

TypedStream(ev) ==
    /\ \E S : ev \in Seq(S)
    /\ Len(ev) >= 1
    /\ \A k \in DOMAIN ev :
         /\ ev[k].at \in Nat
         /\ ev[k].type = "OFFER_SUBMITTED" => ev[k].actor \in Player /\ ev[k].arg.amount \in Amount

\* The match holds the last offer of each player.
BidsKept(m, ev) ==
    \A p \in Player :
        /\ m.latest[p] = None <=> m.standing[p] = None
        /\ IF m.latest[p] = None THEN \A k \in DOMAIN ev : ~BidAt(ev, p, k)
           ELSE \E k \in DOMAIN ev :
                    /\ BidAt(ev, p, k) /\ ev[k].arg.amount = m.latest[p]
                    /\ \A j \in DOMAIN ev : BidAt(ev, p, j) => j <= k

\* A player's offers move toward the opponent, each from all that came before.
BidsConcede(ev) ==
    \A p \in Player : \A j, k \in DOMAIN ev :
        j < k /\ BidAt(ev, p, j) /\ BidAt(ev, p, k)
            => TowardOpponent(p, ev[j].arg.amount, ev[k].arg.amount)

\* Between two turns of a player lies one of the other, and while the match goes
\* on the player on turn has moved before the other did.
TurnsAlternate(m, ev) ==
    /\ \A p \in Player : \A j, k \in DOMAIN ev :
         j < k /\ TurnAt(ev, p, j) /\ TurnAt(ev, p, k)
             => \E i \in j + 1 .. k - 1 : TurnAt(ev, Other(p), i)
    /\ ~Terminal(m) => \A p \in Player : \A j \in DOMAIN ev :
         p = m.active /\ TurnAt(ev, p, j)
             => \E i \in j + 1 .. Len(ev) : TurnAt(ev, Other(p), i)

\* A finished match has one event that ended it, and only MATCH_COMPLETED after it.
EndsOnce(m, ev) ==
    IF Terminal(m)
    THEN \E k \in DOMAIN ev :
            /\ EndAt(ev, k)
            /\ \A i \in DOMAIN ev : i < k => ~EndAt(ev, i)
            /\ \A i \in DOMAIN ev : i > k => ev[i].type = "MATCH_COMPLETED"
    ELSE \A k \in DOMAIN ev : ~EndAt(ev, k)

\* One command, taken and told.
Told(m, ev, n, nv, c, t) ==
    /\ m \in Match /\ ~Terminal(m) /\ t \in Nat
    /\ WellFormed(c) /\ c.kind # "READY" /\ Accepted(m, c, t) /\ Emitted(m, c, t) # <<>>
    /\ n = Applied(m, c, t) /\ Grown(ev, nv, c, t) /\ TypedStream(ev)

\* Where the new events of a stream are, and what they are.
LEMMA NewEvents ==
    ASSUME NEW m, NEW ev, NEW n, NEW nv, NEW c, NEW t, Told(m, ev, n, nv, c, t)
    PROVE  /\ \E S : ev \in Seq(S)
           /\ \E S : nv \in Seq(S)
           /\ Len(nv) = Len(ev) + 1 \/ Len(nv) = Len(ev) + 2
           /\ \A k \in DOMAIN ev : k \in DOMAIN nv /\ nv[k] = ev[k] /\ k <= Len(ev)
           /\ FirstEvent(c, t, nv[Len(ev) + 1])
           /\ \A k \in DOMAIN nv :
                k \in DOMAIN ev \/ k = Len(ev) + 1
                \/ /\ k = Len(ev) + 2 /\ nv[k].at = t
                   /\ nv[k].type = IF c.kind \in Endings THEN "MATCH_COMPLETED" ELSE "MATCH_PAUSED"
<1>1. PICK S, R : ev \in Seq(S) /\ nv \in Seq(R)
  BY DEF Told, TypedStream, Grown
<1>3. /\ Len(nv) = Len(ev) + 1 \/ Len(nv) = Len(ev) + 2
      /\ \A k \in 1 .. Len(ev) : nv[k] = ev[k]
      /\ FirstEvent(c, t, nv[Len(ev) + 1])
      /\ Len(nv) = Len(ev) + 2 =>
           /\ LaterEvent(c, nv[Len(nv)]) /\ nv[Len(nv)].at = t
           /\ c.kind \in Endings \cup {"OFFER", "DISCONNECT"}
  BY DEF Told, Grown
<1>4. ASSUME Len(nv) = Len(ev) + 2
      PROVE  nv[Len(nv)].type = IF c.kind \in Endings THEN "MATCH_COMPLETED" ELSE "MATCH_PAUSED"
  BY <1>3, <1>4 DEF LaterEvent, Endings
<1> QED BY <1>1, <1>3, <1>4

\* The new offer, turn or end, if there is one, is the first new event.
LEMMA NewEvent ==
    ASSUME NEW m, NEW ev, NEW n, NEW nv, NEW c, NEW t, Told(m, ev, n, nv, c, t),
           NEW k \in DOMAIN nv
    PROVE  /\ EndAt(nv, k) <=> IF k \in DOMAIN ev THEN EndAt(ev, k)
                               ELSE k = Len(ev) + 1 /\ c.kind \in Endings \cup {"ABORT"}
           /\ \A p \in Player :
                /\ BidAt(nv, p, k) <=> IF k \in DOMAIN ev THEN BidAt(ev, p, k)
                                       ELSE k = Len(ev) + 1 /\ c.kind = "OFFER" /\ c.by = p
                /\ TurnAt(nv, p, k) <=>
                     IF k \in DOMAIN ev THEN TurnAt(ev, p, k)
                     ELSE k = Len(ev) + 1 /\ c.kind \in {"OFFER", "REVEAL"} /\ c.by = p
<1>0. PICK S, R : ev \in Seq(S) /\ nv \in Seq(R)
  BY NewEvents
<1>1. CASE k \in DOMAIN ev
  BY <1>1, NewEvents DEF EndAt, BidAt, TurnAt
<1>2. CASE k = Len(ev) + 1
  <2>1. k \notin DOMAIN ev /\ nv[k].type = FirstType(c.kind)
        /\ (c.kind # "ABORT" => nv[k].actor = c.by)
    BY <1>0, <1>2, NewEvents DEF FirstEvent
  <2>2. WellFormed(c)
    BY DEF Told
  <2>3. /\ nv[k].type = "OFFER_SUBMITTED" <=> c.kind = "OFFER"
        /\ nv[k].type = "FACT_REVEALED" <=> c.kind = "REVEAL"
        /\ nv[k].type \in Decisive \cup {"MATCH_ABORTED"} <=> c.kind \in Endings \cup {"ABORT"}
    BY <2>1, <2>2 DEF WellFormed, FirstType, Decisive, Endings
  <2> QED BY <1>2, <2>1, <2>3 DEF EndAt, BidAt, TurnAt
<1>3. CASE k = Len(ev) + 2
  <2>1. k \notin DOMAIN ev /\ k # Len(ev) + 1
        /\ nv[k].type \in {"MATCH_COMPLETED", "MATCH_PAUSED"}
    BY <1>0, <1>3, NewEvents
  <2> QED BY <2>1 DEF EndAt, BidAt, TurnAt, Decisive
<1> QED BY <1>1, <1>2, <1>3, NewEvents

LEMMA StreamTyped ==
    ASSUME NEW m, NEW ev, NEW n, NEW nv, NEW c, NEW t, Told(m, ev, n, nv, c, t)
    PROVE  TypedStream(nv)
<1>0. PICK Q, R : ev \in Seq(Q) /\ nv \in Seq(R)
  BY NewEvents
<1>1. (\E S : nv \in Seq(S)) /\ Len(nv) >= 1
  BY <1>0, NewEvents
<1>2. ASSUME NEW k \in DOMAIN nv PROVE nv[k].at \in Nat
  BY NewEvents DEF Told, TypedStream, FirstEvent
<1>3. ASSUME NEW k \in DOMAIN nv, nv[k].type = "OFFER_SUBMITTED"
      PROVE  nv[k].actor \in Player /\ nv[k].arg.amount \in Amount
  <2>1. CASE k \in DOMAIN ev
    BY <1>3, <2>1, NewEvents DEF Told, TypedStream
  <2>2. CASE k = Len(ev) + 1
    <3>1. c.kind = "OFFER"
      BY <1>3, <2>2, NewEvents DEF FirstEvent, FirstType, Told, WellFormed
    <3>2. c.by \in Player /\ c.arg \in Amount
      BY <3>1 DEF Told, WellFormed, Accepted, CanOffer
    <3> QED BY <2>2, <3>1, <3>2, NewEvents DEF FirstEvent
  <2> QED BY <1>3, <2>1, <2>2, NewEvents
<1> QED BY <1>1, <1>2, <1>3 DEF TypedStream

LEMMA StreamEndsOnce ==
    ASSUME NEW m, NEW ev, NEW n, NEW nv, NEW c, NEW t, Told(m, ev, n, nv, c, t),
           EndsOnce(m, ev)
    PROVE  EndsOnce(n, nv)
<1>0. PICK S, R : ev \in Seq(S) /\ nv \in Seq(R)
  BY NewEvents
<1>1. GoesOnOrEnds(m, c, n)
  BY AppliedEnds DEF Told
<1>2. ~Terminal(m) /\ \A k \in DOMAIN ev : ~EndAt(ev, k)
  BY DEF Told, EndsOnce
<1>3. CASE c.kind \in Endings \cup {"ABORT"}
  <2>1. Terminal(n)
    BY <1>1, <1>2, <1>3 DEF GoesOnOrEnds, Terminal, Endings
  <2> DEFINE k == Len(ev) + 1
  <2>2. k \in DOMAIN nv /\ k \notin DOMAIN ev
    BY <1>0, NewEvents
  <2>3. EndAt(nv, k)
    BY <1>3, <2>2, NewEvent
  <2>4. ASSUME NEW i \in DOMAIN nv, i < k PROVE ~EndAt(nv, i)
    <3>1. i \in DOMAIN ev
      BY <1>0, <2>4, NewEvents
    <3> QED BY <3>1, <1>2, NewEvent
  <2>5. c.kind = "ABORT" => Len(nv) = Len(ev) + 1
    BY DEF Told, Grown, Endings
  <2>6. ASSUME NEW i \in DOMAIN nv, i > k PROVE nv[i].type = "MATCH_COMPLETED"
    BY <1>0, <1>3, <2>5, <2>6, NewEvents
  <2> QED BY <2>1, <2>2, <2>3, <2>4, <2>6 DEF EndsOnce
<1>4. CASE c.kind \notin Endings \cup {"ABORT"}
  <2>1. ~Terminal(n)
    BY <1>1, <1>2, <1>4 DEF GoesOnOrEnds
  <2> QED BY <1>2, <1>4, <2>1, NewEvent DEF EndsOnce
<1> QED BY <1>3, <1>4

\* Who is on turn after a command that does not end the match.
LEMMA AppliedTurn ==
    ASSUME NEW m \in Match, NEW t, NEW c, WellFormed(c), Accepted(m, c, t)
    PROVE  LET n == Applied(m, c, t) IN
           /\ c.kind \in {"OFFER", "REVEAL"} => m.active = c.by /\ n.active = Other(c.by)
           /\ c.kind \in {"MESSAGE", "DISCONNECT", "RECONNECT"} => n.active = m.active
<1> DEFINE n == Applied(m, c, t)
<1>1. CASE c.kind = "OFFER"
  <2>1. c.arg \in Amount /\ c.by \in Player /\ m.active = c.by
    BY <1>1 DEF Accepted, WellFormed, CanOffer, HasTurn
  <2> QED BY <1>1, <2>1, OfferTurn DEF Applied
<1>2. CASE c.kind = "REVEAL"
  BY <1>2, RevealFields DEF Accepted, Applied, WellFormed, CanReveal, HasTurn
<1>3. CASE c.kind = "MESSAGE"
  BY <1>3, MessageFields DEF Applied
<1>4. CASE c.kind = "DISCONNECT"
  <2>1. AfterDisconnect(m, c.by, t).active = m.active
    BY <1>4, DisconnectFields DEF WellFormed
  <2> QED BY <1>4, <2>1 DEF Applied
<1>5. CASE c.kind = "RECONNECT"
  <2>1. AfterReconnect(m, c.by, t).active = m.active
    BY DEF AfterReconnect, Resumed, Match
  <2> QED BY <1>5, <2>1 DEF Applied
<1> QED BY <1>1, <1>2, <1>3, <1>4, <1>5

LEMMA StreamAlternates ==
    ASSUME NEW m, NEW ev, NEW n, NEW nv, NEW c, NEW t, Told(m, ev, n, nv, c, t),
           TurnsAlternate(m, ev)
    PROVE  TurnsAlternate(n, nv)
<1> DEFINE l == Len(ev)
           L == Len(nv)
           turn == c.kind \in {"OFFER", "REVEAL"}
<1>0. PICK S, R : ev \in Seq(S) /\ nv \in Seq(R)
  BY NewEvents
<1>1. /\ l \in Nat /\ DOMAIN ev = 1 .. l
      /\ L \in Nat /\ DOMAIN nv = 1 .. L /\ (L = l + 1 \/ L = l + 2)
  BY <1>0, NewEvents
<1>2. \A p \in Player, k \in DOMAIN nv : TurnAt(nv, p, k) <=>
          IF k \in DOMAIN ev THEN TurnAt(ev, p, k) ELSE k = l + 1 /\ turn /\ c.by = p
  BY NewEvent
<1>3. ~Terminal(m) /\ \A p \in Player : Other(p) \in Player /\ Other(Other(p)) = p
  BY DEF Told, Other, Player
<1>4. /\ turn => m.active = c.by /\ n.active = Other(c.by)
      /\ c.kind \in {"MESSAGE", "DISCONNECT", "RECONNECT"} => n.active = m.active
  BY AppliedTurn DEF Told
<1>5. turn => c.by \in Player
  BY DEF Told, WellFormed
<1>6. ~Terminal(n) => c.kind \in {"OFFER", "REVEAL", "MESSAGE", "DISCONNECT", "RECONNECT"}
  <2>1. GoesOnOrEnds(m, c, n)
    BY AppliedEnds DEF Told
  <2> QED BY <2>1 DEF GoesOnOrEnds, Terminal, Endings, Told, WellFormed
<1>9. \A p \in Player : \A j, k \in DOMAIN ev :
         j < k /\ TurnAt(ev, p, j) /\ TurnAt(ev, p, k)
             => \E i \in j + 1 .. k - 1 : TurnAt(ev, Other(p), i)
  BY DEF TurnsAlternate
<1>10. \A p \in Player : \A j \in DOMAIN ev :
         p = m.active /\ TurnAt(ev, p, j) => \E i \in j + 1 .. l : TurnAt(ev, Other(p), i)
  BY <1>3 DEF TurnsAlternate
<1> HIDE DEF l, L, turn
<1>7. ASSUME NEW p \in Player, NEW j \in DOMAIN nv, NEW k \in DOMAIN nv,
             j < k, TurnAt(nv, p, j), TurnAt(nv, p, k)
      PROVE  \E i \in j + 1 .. k - 1 : TurnAt(nv, Other(p), i)
  <2>1. CASE k \in 1 .. l
    <3>1. j \in 1 .. l /\ TurnAt(ev, p, j) /\ TurnAt(ev, p, k)
      BY <1>1, <1>2, <1>7, <2>1
    <3>2. PICK i \in j + 1 .. k - 1 : TurnAt(ev, Other(p), i)
      BY <1>1, <1>7, <1>9, <2>1, <3>1
    <3>3. i \in 1 .. l /\ i \in DOMAIN nv
      BY <1>1, <2>1, <3>1
    <3> QED BY <1>1, <1>2, <1>3, <3>2, <3>3
  <2>2. CASE k \notin 1 .. l
    <3>1. k = l + 1 /\ turn /\ c.by = p
      BY <1>1, <1>2, <1>7, <2>2
    <3>2. j \in 1 .. l /\ TurnAt(ev, p, j)
      BY <1>1, <1>2, <1>7, <3>1
    <3>3. PICK i \in j + 1 .. l : TurnAt(ev, Other(p), i)
      BY <1>1, <1>4, <1>10, <3>1, <3>2
    <3>4. i \in 1 .. l /\ i \in DOMAIN nv /\ i \in j + 1 .. k - 1
      BY <1>1, <3>1, <3>2
    <3> QED BY <1>1, <1>2, <1>3, <3>3, <3>4
  <2> QED BY <2>1, <2>2
<1>8. ASSUME ~Terminal(n), NEW p \in Player, NEW j \in DOMAIN nv, p = n.active,
             TurnAt(nv, p, j)
      PROVE  \E i \in j + 1 .. L : TurnAt(nv, Other(p), i)
  <2>1. CASE turn
    <3>1. Other(p) = c.by /\ c.by # p
      BY <1>4, <1>5, <1>8, <2>1 DEF Other, Player
    <3>2. j \in 1 .. l
      BY <1>1, <1>2, <1>8, <3>1
    <3>3. l + 1 \in j + 1 .. L /\ l + 1 \in DOMAIN nv /\ l + 1 \notin 1 .. l
      BY <1>1, <3>2
    <3>4. TurnAt(nv, Other(p), l + 1)
      BY <1>1, <1>2, <1>3, <2>1, <3>1, <3>3
    <3> QED BY <3>3, <3>4
  <2>2. CASE ~turn
    <3>1. p = m.active
      BY <1>4, <1>6, <1>8, <2>2 DEF turn
    <3>2. j \in 1 .. l /\ TurnAt(ev, p, j)
      BY <1>1, <1>2, <1>8, <2>2
    <3>3. PICK i \in j + 1 .. l : TurnAt(ev, Other(p), i)
      BY <1>1, <1>10, <3>1, <3>2
    <3>4. i \in 1 .. l /\ i \in DOMAIN nv /\ i \in j + 1 .. L
      BY <1>1, <3>2
    <3> QED BY <1>1, <1>2, <1>3, <3>3, <3>4
  <2> QED BY <2>1, <2>2
<1> QED BY <1>7, <1>8 DEF TurnsAlternate, L

\* An offer is the new one on its player's side of the table.
LEMMA AppliedStanding ==
    ASSUME NEW m \in Match, NEW t, NEW c, WellFormed(c)
    PROVE  Applied(m, c, t).standing =
               IF c.kind = "OFFER" THEN [m.standing EXCEPT ![c.by] = c.id] ELSE m.standing
<1>1. CASE c.kind = "OFFER"
  BY <1>1 DEF Applied, AfterOffer, Handover, Conceded, Match
<1>2. CASE c.kind \in {"READY", "REVEAL", "MESSAGE"}
  BY <1>2 DEF Applied, AfterReady, Started, AfterReveal, AfterMessage, Handover, Match
<1>3. CASE c.kind \in {"ACCEPT", "WALK_AWAY", "TIMEOUT", "ABORT"}
  BY <1>3 DEF Applied, AfterAccept, AfterWalkAway, AfterTimeout, AfterAbort, Ended, Handover, Match
<1>4. CASE c.kind \in {"DISCONNECT", "RECONNECT"}
  BY <1>4 DEF Applied, AfterDisconnect, AfterReconnect, Resumed, Handover, Match
<1> QED BY <1>1, <1>2, <1>3, <1>4 DEF WellFormed

LEMMA StreamKeepsBids ==
    ASSUME NEW m, NEW ev, NEW n, NEW nv, NEW c, NEW t, Told(m, ev, n, nv, c, t),
           BidsKept(m, ev)
    PROVE  BidsKept(n, nv)
<1> DEFINE l == Len(ev)
           L == Len(nv)
<1>0. PICK S, R : ev \in Seq(S) /\ nv \in Seq(R)
  BY NewEvents
<1>1. /\ l \in Nat /\ DOMAIN ev = 1 .. l
      /\ L \in Nat /\ DOMAIN nv = 1 .. L /\ (L = l + 1 \/ L = l + 2)
  BY <1>0, NewEvents
<1>8. /\ \A k \in DOMAIN ev : k \in DOMAIN nv /\ nv[k] = ev[k]
      /\ c.kind = "OFFER" => nv[l + 1].arg.amount = c.arg
  BY NewEvents DEF FirstEvent
<1>2. \A p \in Player, k \in DOMAIN nv : BidAt(nv, p, k) <=>
          IF k \in DOMAIN ev THEN BidAt(ev, p, k) ELSE k = l + 1 /\ c.kind = "OFFER" /\ c.by = p
  BY NewEvent
<1>3. BidsFollow(m, c, n)
  BY AppliedBids DEF Told
<1>4. n.standing = IF c.kind = "OFFER" THEN [m.standing EXCEPT ![c.by] = c.id] ELSE m.standing
  BY AppliedStanding DEF Told
<1>5. m.latest \in [Player -> Amount \cup {None}] /\ m.standing \in [Player -> Nat \cup {None}]
  BY DEF Told, Match
<1> HIDE DEF l, L
<1> SUFFICES ASSUME NEW p \in Player
             PROVE  /\ n.latest[p] = None <=> n.standing[p] = None
                    /\ IF n.latest[p] = None THEN \A k \in DOMAIN nv : ~BidAt(nv, p, k)
                       ELSE \E k \in DOMAIN nv :
                                /\ BidAt(nv, p, k) /\ nv[k].arg.amount = n.latest[p]
                                /\ \A j \in DOMAIN nv : BidAt(nv, p, j) => j <= k
  BY DEF BidsKept
<1>6. CASE c.kind = "OFFER" /\ c.by = p
  <2>1. n.latest[p] = c.arg /\ c.arg \in Amount /\ n.standing[p] = c.id /\ c.id \in Nat
    BY <1>3, <1>4, <1>5, <1>6 DEF BidsFollow, Told, WellFormed, Accepted, CanOffer
  <2>2. n.latest[p] # None /\ n.standing[p] # None
    BY <2>1, AmountsAreIntegers, NoneAssumption
  <2>3. l + 1 \in DOMAIN nv /\ BidAt(nv, p, l + 1) /\ nv[l + 1].arg.amount = n.latest[p]
    BY <1>1, <1>2, <1>6, <1>8, <2>1
  <2>4. \A j \in DOMAIN nv : BidAt(nv, p, j) => j <= l + 1
    BY <1>1, <1>2
  <2> QED BY <2>2, <2>3, <2>4
<1>7. CASE ~(c.kind = "OFFER" /\ c.by = p)
  <2>1. n.latest[p] = m.latest[p] /\ n.standing[p] = m.standing[p]
    BY <1>3, <1>4, <1>5, <1>7 DEF BidsFollow
  <2>2. \A k \in DOMAIN nv : BidAt(nv, p, k) <=> k \in 1 .. l /\ BidAt(ev, p, k)
    BY <1>1, <1>2, <1>7
  <2>3. /\ m.latest[p] = None <=> m.standing[p] = None
        /\ IF m.latest[p] = None THEN \A k \in DOMAIN ev : ~BidAt(ev, p, k)
           ELSE \E k \in DOMAIN ev :
                    /\ BidAt(ev, p, k) /\ ev[k].arg.amount = m.latest[p]
                    /\ \A j \in DOMAIN ev : BidAt(ev, p, j) => j <= k
    BY DEF BidsKept
  <2>4. CASE m.latest[p] = None
    BY <1>1, <2>1, <2>2, <2>3, <2>4
  <2>5. CASE m.latest[p] # None
    <3>1. PICK k \in DOMAIN ev :
              /\ BidAt(ev, p, k) /\ ev[k].arg.amount = m.latest[p]
              /\ \A j \in DOMAIN ev : BidAt(ev, p, j) => j <= k
      BY <2>3, <2>5
    <3>2. k \in DOMAIN nv /\ BidAt(nv, p, k) /\ nv[k].arg.amount = n.latest[p]
      BY <1>1, <1>8, <2>1, <2>2, <3>1
    <3>3. \A j \in DOMAIN nv : BidAt(nv, p, j) => j <= k
      BY <1>1, <2>2, <3>1
    <3> QED BY <2>1, <2>3, <2>5, <3>2, <3>3
  <2> QED BY <2>4, <2>5
<1> QED BY <1>6, <1>7

LEMMA StreamConcedes ==
    ASSUME NEW m, NEW ev, NEW n, NEW nv, NEW c, NEW t, Told(m, ev, n, nv, c, t),
           BidsKept(m, ev), BidsConcede(ev)
    PROVE  BidsConcede(nv)
<1> SUFFICES ASSUME NEW p \in Player, NEW j \in DOMAIN nv, NEW k \in DOMAIN nv,
                    j < k, BidAt(nv, p, j), BidAt(nv, p, k)
             PROVE  TowardOpponent(p, nv[j].arg.amount, nv[k].arg.amount)
  BY DEF BidsConcede
<1>0. PICK S, R : ev \in Seq(S) /\ nv \in Seq(R)
  BY NewEvents
<1>1. \A i \in DOMAIN ev : nv[i] = ev[i]
  BY NewEvents
<1>2. \A i \in DOMAIN nv : BidAt(nv, p, i) <=>
          IF i \in DOMAIN ev THEN BidAt(ev, p, i)
          ELSE i = Len(ev) + 1 /\ c.kind = "OFFER" /\ c.by = p
  BY NewEvent
<1>3. CASE k \in DOMAIN ev
  <2>1. j \in DOMAIN ev
    BY <1>0, <1>3
  <2> QED BY <1>1, <1>2, <1>3, <2>1 DEF BidsConcede
<1>4. CASE k \notin DOMAIN ev
  <2>1. k = Len(ev) + 1 /\ c.kind = "OFFER" /\ c.by = p
    BY <1>2, <1>4
  <2>2. j \in DOMAIN ev /\ BidAt(ev, p, j) /\ nv[j] = ev[j]
    BY <1>0, <1>1, <1>2, <2>1
  <2>3. nv[k].arg.amount = c.arg
    BY <2>1, NewEvents DEF FirstEvent
  <2>4. m.latest[p] # None
    BY <2>2 DEF BidsKept
  <2>5. TowardOpponent(p, m.latest[p], c.arg) /\ c.arg \in Amount
    BY <2>1, <2>4 DEF Told, Accepted, CanOffer
  <2>6. m.latest[p] \in Amount
    BY <2>4 DEF Told, Match
  <2>7. PICK i \in DOMAIN ev : /\ BidAt(ev, p, i) /\ ev[i].arg.amount = m.latest[p]
                               /\ \A h \in DOMAIN ev : BidAt(ev, p, h) => h <= i
    BY <2>4 DEF BidsKept
  <2>8. ev[j].arg.amount \in Amount
    BY <2>2 DEF BidAt, Told, TypedStream
  <2>9. j = i \/ TowardOpponent(p, ev[j].arg.amount, m.latest[p])
    BY <1>0, <2>2, <2>7 DEF BidsConcede
  <2> QED BY <2>2, <2>3, <2>5, <2>6, <2>7, <2>8, <2>9, MovementOrders
<1> QED BY <1>3, <1>4

\* What holds of a match that is played and of its stream.
StreamInv(m, ev) ==
    /\ TypedStream(ev)
    /\ InOrder(m, Last(ev).at)
    /\ BidsKept(m, ev)
    /\ BidsConcede(ev)
    /\ TurnsAlternate(m, ev)
    /\ EndsOnce(m, ev)

PlayInv == StreamInv(match, events)

LEMMA StreamKept ==
    ASSUME NEW m, NEW ev, StreamInv(m, ev), NEW c, WellFormed(c), c.kind # "READY",
           NEW t \in Nat, Last(ev).at <= t, Accepted(m, c, t), Emitted(m, c, t) # <<>>
    PROVE  LET n == Applied(m, c, t)
               nv == ev \o Emitted(m, c, t)
           IN  Told(m, ev, n, nv, c, t) /\ StreamInv(n, nv)
<1> DEFINE n == Applied(m, c, t)
           nv == ev \o Emitted(m, c, t)
<1>1. PICK S : ev \in Seq(S) /\ Len(ev) >= 1
  BY DEF StreamInv, TypedStream
<1>2. Last(ev).at \in Nat
  BY <1>1 DEF StreamInv, TypedStream, Last
<1>3. m \in Match /\ InOrder(m, t)
  BY <1>2, LaterInOrder DEF StreamInv, InOrder
<1>4. ~Terminal(m) /\ Grown(ev, nv, c, t)
  BY <1>1, <1>3, StreamGrows
<1> HIDE DEF nv
<1>5. Told(m, ev, n, nv, c, t)
  BY <1>3, <1>4 DEF Told, StreamInv
<1>6. InOrder(n, t)
  BY <1>3, AppliedInOrder
<1> HIDE DEF n
<1>7. Last(nv).at = t
  <2>1. PICK R : nv \in Seq(R)
    BY <1>5, NewEvents
  <2>2. Len(nv) \in DOMAIN nv /\ (Len(nv) = Len(ev) + 1 \/ Len(nv) = Len(ev) + 2)
    BY <1>1, <1>5, <2>1, NewEvents
  <2>3. Len(nv) \notin DOMAIN ev
    BY <1>1, <2>2
  <2> QED BY <1>1, <1>5, <2>2, <2>3, NewEvents DEF FirstEvent, Last
<1>8. TypedStream(nv) /\ EndsOnce(n, nv) /\ TurnsAlternate(n, nv) /\ BidsKept(n, nv)
      /\ BidsConcede(nv)
  BY <1>5, StreamTyped, StreamEndsOnce, StreamAlternates, StreamKeepsBids, StreamConcedes
     DEF StreamInv
<1> QED BY <1>5, <1>6, <1>7, <1>8 DEF StreamInv, n, nv

\* The stream a match is opened with.
LEMMA OpeningStream ==
    ASSUME NEW rv \in [Player -> Amount], NEW first \in Player
    PROVE  LET o == Opening(rv, first) IN
           /\ StreamInv(o.match, o.events)
           /\ o.match.rv = rv /\ o.match.status = "ACTIVE"
           /\ \E k \in DOMAIN o.events : o.events[k].type = "MATCH_STARTED"
           /\ \A k \in DOMAIN o.events :
                o.events[k].type \in {"PLAYER_READY", "MATCH_STARTED"} /\ o.events[k].at = 0
           /\ o.match.active \in Player /\ o.match.turnStartedAt = 0
           /\ \A p \in Player : o.match.cumulative[p] = 0 /\ ~o.match.disconnected[p]
<1> DEFINE fresh == CreatedMatch("FRIEND_LIVE", rv, first)
           readied == AfterReady(fresh, "BUYER", 0)
           started == AfterReady(readied, "SELLER", 0)
           e == Event("PLAYER_READY", "BUYER", 0, None)
           f == Event("PLAYER_READY", "SELLER", 0, None)
           g == Event("MATCH_STARTED", None, 0, readied.first)
           ev == Opening(rv, first).events
<1>1. fresh \in Match /\ InOrder(fresh, 0)
  BY CreatedInOrder DEF Mode, InOrder
<1>2. /\ fresh.status = "CREATED" /\ fresh.ready = [p \in Player |-> FALSE]
      /\ fresh.latest = [p \in Player |-> None] /\ fresh.standing = [p \in Player |-> None]
  BY DEF CreatedMatch
<1> HIDE DEF fresh
<1>3. ~fresh.ready["BUYER"] /\ ~Starts(fresh, "BUYER")
  BY <1>2 DEF Starts, Other, Player
<1>4. readied = [fresh EXCEPT !.ready["BUYER"] = TRUE, !.status = "READY", !.seq = @ + 1]
  BY <1>3 DEF AfterReady
<1> HIDE DEF readied, started, g
<1>5. /\ InOrder(readied, 0) /\ readied \in Match
      /\ readied.status = "READY" /\ readied.latest = fresh.latest
      /\ readied.standing = fresh.standing
      /\ readied.ready["BUYER"] /\ ~readied.ready["SELLER"]
  <2>1. InOrder(readied, 0)
    BY <1>1, <1>2, ReadyInOrder DEF Player, CanReady, readied
  <2>2. /\ readied.status = "READY" /\ readied.latest = fresh.latest
        /\ readied.standing = fresh.standing
    BY <1>1, <1>4 DEF Match
  <2>3. readied.ready["BUYER"] /\ ~readied.ready["SELLER"]
    BY <1>1, <1>2, <1>4 DEF Match, Player
  <2> QED BY <2>1, <2>2, <2>3 DEF InOrder
<1>6. Starts(readied, "SELLER")
  BY <1>5 DEF Starts, Other
<1>7. /\ InOrder(started, 0) /\ started.status = "ACTIVE"
      /\ started.latest = fresh.latest /\ started.standing = fresh.standing
  <2>1. InOrder(started, 0)
    BY <1>5, ReadyInOrder DEF Player, CanReady, started
  <2> QED BY <1>5, <1>6, <2>1 DEF AfterReady, Started, Match, started
<1>8. Opening(rv, first).match = started
  BY DEF Opening, fresh, readied, started
<1>9. ReadyEvents(fresh, "BUYER", 0) = <<e>> /\ ReadyEvents(readied, "SELLER", 0) = <<f, g>>
  BY <1>3, <1>5, <1>6, TwoEvents DEF ReadyEvents, g
<1>10. ev = <<e>> \o <<f, g>>
  BY <1>9 DEF Opening, fresh, readied
<1>11. /\ e.type = "PLAYER_READY" /\ f.type = "PLAYER_READY" /\ g.type = "MATCH_STARTED"
       /\ e.at = 0 /\ f.at = 0 /\ g.at = 0
  BY DEF Event, g
<1> HIDE DEF e, f, ev
<1>12. ev \in Seq({e, f, g}) /\ Len(ev) = 3 /\ ev[1] = e /\ ev[2] = f /\ ev[3] = g
  <2>1. <<e>> \in Seq({e, f, g}) /\ <<f, g>> \in Seq({e, f, g})
    OBVIOUS
  <2> QED BY <1>10, <2>1
<1>13. \A k \in DOMAIN ev : ev[k].type \in {"PLAYER_READY", "MATCH_STARTED"} /\ ev[k].at = 0
  BY <1>11, <1>12
<1>14. TypedStream(ev) /\ Last(ev).at = 0
  BY <1>11, <1>12, <1>13 DEF TypedStream, Last
<1>15. \A k \in DOMAIN ev : ~EndAt(ev, k) /\ \A p : ~BidAt(ev, p, k) /\ ~TurnAt(ev, p, k)
  BY <1>13 DEF EndAt, BidAt, TurnAt, Decisive
<1>16. BidsKept(started, ev)
  BY <1>2, <1>7, <1>15 DEF BidsKept
<1>17. EndsOnce(started, ev)
  BY <1>7, <1>15 DEF EndsOnce, Terminal
<1>18. TurnsAlternate(started, ev) /\ BidsConcede(ev)
  BY <1>15 DEF TurnsAlternate, BidsConcede
<1>19. started.rv = rv
  <2>1. fresh.rv = rv
    BY DEF CreatedMatch, fresh
  <2>2. readied.rv = fresh.rv
    BY <1>1, <1>4 DEF Match
  <2> QED BY <1>5, <1>6, <2>1, <2>2 DEF AfterReady, Started, Match, started
<1>20. 3 \in DOMAIN ev /\ ev[3].type = "MATCH_STARTED"
  BY <1>11, <1>12
<1>21. /\ started.active \in Player /\ started.turnStartedAt = 0
       /\ \A p \in Player : started.cumulative[p] = 0 /\ ~started.disconnected[p]
  <2>1. \A p \in Player : fresh.cumulative[p] = 0 /\ ~fresh.disconnected[p]
    BY DEF CreatedMatch, fresh
  <2>2. readied.cumulative = fresh.cumulative /\ readied.disconnected = fresh.disconnected
    BY <1>1, <1>4 DEF Match
  <2>3. /\ started.cumulative = readied.cumulative /\ started.disconnected = readied.disconnected
        /\ started.active = readied.first /\ started.turnStartedAt = 0
    BY <1>5, <1>6 DEF AfterReady, Started, Match, started
  <2>4. readied.first \in Player
    BY <1>5 DEF Match
  <2> QED BY <2>1, <2>2, <2>3, <2>4
<1> QED BY <1>7, <1>8, <1>13, <1>14, <1>16, <1>17, <1>18, <1>19, <1>20, <1>21 DEF StreamInv, ev

LEMMA PlayInitInv == PlayInit => PlayInv
BY ReviewAssumption, OpeningStream DEF PlayInit, PlayInv

\* Every step commits one command, no earlier than all before it.
LEMMA PlaySteps ==
    ASSUME PlayNext, Len(events) \in Nat
    PROVE  \E c, at : /\ WellFormed(c) /\ c.kind # "READY"
                      /\ at \in Instants /\ Commit(c, at)
<1>1. ASSUME NEW p \in Player, NEW a \in Amount, Offer(p, a)
      PROVE  \E c, at : WellFormed(c) /\ c.kind # "READY" /\ at \in Instants /\ Commit(c, at)
  BY <1>1 DEF Offer, OfferCommand, WellFormed
<1>2. ASSUME NEW p \in Player, Accept(p) \/ WalkAway(p) \/ Message(p) \/ Disconnect(p)
                               \/ Reconnect(p) \/ TimeOut(p) \/ \E f \in Fact : Reveal(p, f)
      PROVE  \E c, at : WellFormed(c) /\ c.kind # "READY" /\ at \in Instants /\ Commit(c, at)
  <2>1. \A kind, arg : kind \in {"ACCEPT", "WALK_AWAY", "MESSAGE", "DISCONNECT", "RECONNECT",
                                 "TIMEOUT", "REVEAL"}
            => WellFormed(Command(kind, p, arg)) /\ Command(kind, p, arg).kind = kind
    BY DEF WellFormed, Command
  <2> QED BY <1>2, <2>1
          DEF Accept, WalkAway, Message, Disconnect, Reconnect, TimeOut, Reveal
<1>3. ASSUME Abort
      PROVE  \E c, at : WellFormed(c) /\ c.kind # "READY" /\ at \in Instants /\ Commit(c, at)
  BY <1>3 DEF Abort, Command, WellFormed
<1> QED BY <1>1, <1>2, <1>3 DEF PlayNext

LEMMA PlayTold ==
    ASSUME PlayInv, PlayNext
    PROVE  /\ PlayInv'
           /\ \E c, at : Told(match, events, match', events', c, at) /\ Last(events).at <= at
<1>1. PICK S : events \in Seq(S) /\ Len(events) >= 1
  BY DEF PlayInv, StreamInv, TypedStream
<1>2. PICK c, at : WellFormed(c) /\ c.kind # "READY" /\ at \in Instants /\ Commit(c, at)
  BY <1>1, PlaySteps
<1>3. at \in Nat /\ Last(events).at <= at
  BY <1>2, ReviewAssumption DEF Instants
<1>4. /\ Accepted(match, c, at) /\ Emitted(match, c, at) # <<>>
      /\ match' = Applied(match, c, at) /\ events' = events \o Emitted(match, c, at)
  BY <1>2 DEF Commit
<1>5. Told(match, events, match', events', c, at) /\ StreamInv(match', events')
  BY <1>2, <1>3, <1>4, StreamKept DEF PlayInv
<1> QED BY <1>3, <1>5 DEF PlayInv

LEMMA PlayKept == PlayInv /\ [PlayNext]_playVars => PlayInv'
<1> SUFFICES ASSUME PlayInv, [PlayNext]_playVars PROVE PlayInv'
  OBVIOUS
<1>1. CASE PlayNext
  BY <1>1, PlayTold
<1>2. CASE UNCHANGED playVars
  BY <1>2 DEF PlayInv, playVars
<1> QED BY <1>1, <1>2

LEMMA PlayInvariant == PlaySpec => []PlayInv
<1>1. PlayInit => PlayInv
  BY PlayInitInv
<1>2. PlayInv /\ [PlayNext]_playVars => PlayInv'
  BY PlayKept
<1> QED BY <1>1, <1>2, PTL DEF PlaySpec

\* The last offer of p among the first n events.
LEMMA LatestOfferIs ==
    ASSUME NEW ev, NEW p, NEW n \in Nat
    PROVE  \/ (\A i \in 1 .. n : ~BidAt(ev, p, i)) /\ LatestOffer(ev, p, n) = None
           \/ \E k \in 1 .. n : /\ BidAt(ev, p, k) /\ LatestOffer(ev, p, n) = ev[k].arg.amount
                                /\ \A i \in 1 .. n : BidAt(ev, p, i) => i <= k
<1> DEFINE I == {i \in 1 .. n : BidAt(ev, p, i)}
<1>1. LatestOffer(ev, p, n) =
          IF (IF I # {} THEN Max(I) ELSE 0) = 0 THEN None
          ELSE ev[IF I # {} THEN Max(I) ELSE 0].arg.amount
  BY DEF LatestOffer, SelectLastInSubSeq, BidAt
<1>2. CASE I = {}
  BY <1>1, <1>2
<1>3. CASE I # {}
  <2>1. I \subseteq 1 .. n
    OBVIOUS
  <2>2. Max(I) \in I /\ \A i \in I : i <= Max(I)
    <3> HIDE DEF I
    <3> QED BY <1>3, <2>1, Extremes
  <2>3. Max(I) \in 1 .. n /\ Max(I) # 0
    BY <2>1, <2>2
  <2> QED BY <1>1, <1>3, <2>2, <2>3
<1> QED BY <1>2, <1>3

\* At the end of the stream it is the one the match holds.
LEMMA LatestIsKept ==
    ASSUME NEW m, NEW ev, TypedStream(ev), BidsKept(m, ev), NEW p \in Player
    PROVE  LatestOffer(ev, p, Len(ev)) = m.latest[p]
<1>1. PICK S : ev \in Seq(S)
  BY DEF TypedStream
<1>2. Len(ev) \in Nat /\ \A i : i \in DOMAIN ev <=> i \in 1 .. Len(ev)
  BY <1>1
<1>3. CASE m.latest[p] = None
  <2>1. \A k \in DOMAIN ev : ~BidAt(ev, p, k)
    BY <1>3 DEF BidsKept
  <2> QED BY <1>2, <1>3, <2>1, LatestOfferIs
<1>4. CASE m.latest[p] # None
  <2>1. PICK k \in DOMAIN ev : /\ BidAt(ev, p, k) /\ ev[k].arg.amount = m.latest[p]
                               /\ \A j \in DOMAIN ev : BidAt(ev, p, j) => j <= k
    BY <1>4 DEF BidsKept
  <2>2. PICK i \in 1 .. Len(ev) :
            /\ BidAt(ev, p, i) /\ LatestOffer(ev, p, Len(ev)) = ev[i].arg.amount
            /\ \A j \in 1 .. Len(ev) : BidAt(ev, p, j) => j <= i
    BY <1>2, <2>1, LatestOfferIs
  <2>3. i = k
    BY <1>2, <2>1, <2>2
  <2> QED BY <2>1, <2>2, <2>3
<1> QED BY <1>3, <1>4

\* The number the RESULT of a walk-away states.
LEMMA WalkedAwayResult ==
    ASSUME NEW m, NEW ev, NEW p, m.status = "NO_DEAL", m.reason = "WALKED_AWAY"
    PROVE  ResultMoment(m, ev, p).n =
               LET a == LatestOffer(ev, Other(p), Len(ev)) IN
               IF a # None /\ WithinReservation(m, p, a) THEN SurplusShare(m, p, a) ELSE None
<1>1. Outcome(m) = "NO_DEAL_WALKED"
  BY DEF Outcome
<1>2. ResultMoment(m, ev, p).n = Foregone(m, ev, p)
  BY <1>1 DEF ResultMoment, Obs
<1> QED BY <1>1, <1>2 DEF Foregone, Broken

\* What a player who walks away is told he left is what ACCEPT would have won
\* him at that moment, and nothing when ACCEPT would have been refused
\* (features.ts:257-261, curate.ts:125-133, match.ts acceptOffer).
THEOREM ForegoneIsWhatAcceptWins == PlaySpec => ForegoneWasAcceptable
<1> DEFINE Promised == \A p \in Player :
          match.active = p /\ match.reason = None /\ match'.reason = "WALKED_AWAY" =>
              LET at == match'.completedAt
                  deal == AfterAccept(match, p, at)
              IN  ResultMoment(match', events', p).n =
                      IF CanAccept(match, p, match.standing[Other(p)], at)
                      THEN SurplusShare(deal, p, deal.settlement) ELSE None
<1>1. ASSUME PlayInv, [PlayNext]_playVars, PlayInv' PROVE [Promised]_playVars
  <2> SUFFICES ASSUME PlayNext, NEW p \in Player, match.active = p, match.reason = None,
                      match'.reason = "WALKED_AWAY"
               PROVE  LET at == match'.completedAt
                          deal == AfterAccept(match, p, at)
                      IN  ResultMoment(match', events', p).n =
                              IF CanAccept(match, p, match.standing[Other(p)], at)
                              THEN SurplusShare(deal, p, deal.settlement) ELSE None
    BY <1>1
  <2>1. PICK c, at : Told(match, events, match', events', c, at)
    BY <1>1, PlayTold
  <2>2. /\ match \in Match /\ ~Terminal(match) /\ WellFormed(c) /\ Accepted(match, c, at)
        /\ match' = Applied(match, c, at) /\ at \in Nat
    BY <2>1 DEF Told
  <2>3. c.kind = "WALK_AWAY" /\ match'.status = "NO_DEAL"
    <3>1. GoesOnOrEnds(match, c, match')
      BY <2>2, AppliedEnds
    <3>2. "WALKED_AWAY" # None
      BY NoneAssumption DEF Reason
    <3> QED BY <2>2, <3>1, <3>2 DEF GoesOnOrEnds, Endings
  <2>4. HasTurn(match, p, at)
    BY <2>2, <2>3 DEF Accepted, CanWalkAway, HasTurn
  <2>5. match'.completedAt = at
    BY <2>2, <2>3 DEF Applied, AfterWalkAway, Ended, Handover, Match
  <2>6. match'.rv = match.rv /\ match'.latest = match.latest
    <3>1. BidsFollow(match, c, match')
      BY <2>2, AppliedBids
    <3> QED BY <2>3, <3>1 DEF BidsFollow
  <2>7. Other(p) \in Player
    BY OtherIsPlayer
  <2> DEFINE a == match.latest[Other(p)]
             deal == AfterAccept(match, p, at)
  <2>8. ResultMoment(match', events', p).n =
            IF a # None /\ WithinReservation(match, p, a) THEN SurplusShare(match, p, a) ELSE None
    <3>1. TypedStream(events') /\ BidsKept(match', events')
      BY <1>1 DEF PlayInv, StreamInv
    <3>2. LatestOffer(events', Other(p), Len(events')) = a
      BY <2>6, <2>7, <3>1, LatestIsKept
    <3> QED BY <2>3, <2>6, <3>2, WalkedAwayResult DEF WithinReservation, SurplusShare
  <2>9. CanAccept(match, p, match.standing[Other(p)], at)
            <=> a # None /\ WithinReservation(match, p, a)
    BY <1>1, <2>4, <2>7 DEF CanAccept, PlayInv, StreamInv, BidsKept
  <2>10. deal.settlement = a /\ deal.rv = match.rv
    BY <2>2, EndedFields DEF AfterAccept, SameBids
  <2> QED BY <2>5, <2>8, <2>9, <2>10 DEF SurplusShare
<1>2. PlayInv /\ PlayInv' /\ [PlayNext]_playVars => [Promised]_playVars
  BY <1>1
<1>3. PlaySpec => [][Promised]_playVars
  <2> HIDE DEF Promised
  <2> QED BY <1>2, PlayInvariant, PTL DEF PlaySpec
<1> QED BY <1>3 DEF ForegoneWasAcceptable

-----------------------------------------------------------------------------
(* The review: the moves it finds                                          *)

\* One step of classifyMoves: the move event i is, and what reading it leaves.
MoveRead(ev, p, s, i) ==
    [seq |-> i, at |-> ev[i].at, amount |-> ev[i].arg.amount,
     previous |-> IF s.moves = <<>> THEN None ELSE Last(s.moves).amount,
     active |-> ActiveTime(ev, p, s.grant, ev[i].at),
     unreciprocated |-> s.moves # <<>> /\ s.opponent = s.heldAt,
     pitched |-> s.message # None /\ ev[i].at - s.message <= PitchWindow]

EventRead(ev, p, s, i) ==
    IF ev[i].type = "MESSAGE_SENT" /\ ev[i].actor = p
    THEN [s EXCEPT !.message = ev[i].at]
    ELSE IF ev[i].type # "OFFER_SUBMITTED" THEN s
    ELSE IF ev[i].actor = p THEN AfterOwnOffer(s, MoveRead(ev, p, s, i))
    ELSE [s EXCEPT !.opponent = ev[i].arg.amount, !.grant = ev[i].at]

NothingRead(ev) ==
    [moves |-> <<>>, grant |-> StartTime(ev), opponent |-> None, heldAt |-> None, message |-> None]

\* The values the reading can take.
TimesIn(ev) == {None, StartTime(ev)} \cup {ev[i].at : i \in 1 .. Len(ev)}
AmountsIn(ev) == {None} \cup {ev[i].arg.amount : i \in 1 .. Len(ev)}
MovesIn(ev, p) ==
    [seq : 1 .. Len(ev), at : TimesIn(ev), amount : AmountsIn(ev), previous : AmountsIn(ev),
     active : {ActiveTime(ev, p, from, to) : from \in TimesIn(ev), to \in TimesIn(ev)},
     unreciprocated : BOOLEAN, pitched : BOOLEAN]
ReadingsIn(ev, p) ==
    [moves : Seq(MovesIn(ev, p)), grant : TimesIn(ev), opponent : AmountsIn(ev),
     heldAt : AmountsIn(ev), message : TimesIn(ev)]

LEMMA ReadingType ==
    ASSUME NEW ev, NEW p, Len(ev) \in Nat, NEW i \in 1 .. Len(ev), NEW s \in ReadingsIn(ev, p)
    PROVE  EventRead(ev, p, s, i) \in ReadingsIn(ev, p)
<1>1. ev[i].at \in TimesIn(ev) /\ ev[i].arg.amount \in AmountsIn(ev) /\ None \in AmountsIn(ev)
  BY DEF TimesIn, AmountsIn
<1>2. MoveRead(ev, p, s, i) \in MovesIn(ev, p)
  <2>1. /\ s.moves \in Seq(MovesIn(ev, p)) /\ s.grant \in TimesIn(ev)
    BY DEF ReadingsIn
  <2>2. (IF s.moves = <<>> THEN None ELSE Last(s.moves).amount) \in AmountsIn(ev)
    <3>1. s.moves # <<>> => Last(s.moves) \in MovesIn(ev, p)
      BY <2>1 DEF Last
    <3> QED BY <1>1, <3>1 DEF MovesIn
  <2>3. ActiveTime(ev, p, s.grant, ev[i].at)
            \in {ActiveTime(ev, p, from, to) : from \in TimesIn(ev), to \in TimesIn(ev)}
    BY <1>1, <2>1
  <2> QED BY <1>1, <2>2, <2>3 DEF MoveRead, MovesIn
<1>3. AfterOwnOffer(s, MoveRead(ev, p, s, i)) \in ReadingsIn(ev, p)
  <2>1. Append(s.moves, MoveRead(ev, p, s, i)) \in Seq(MovesIn(ev, p))
    BY <1>2 DEF ReadingsIn
  <2>2. None \in TimesIn(ev)
    BY DEF TimesIn
  <2> QED BY <1>1, <2>1, <2>2 DEF AfterOwnOffer, ReadingsIn
<1> QED BY <1>1, <1>3 DEF EventRead, ReadingsIn

\* classifyMoves goes along the stream, one event at a time.
LEMMA MovesRun ==
    ASSUME NEW X, NEW ev \in Seq(X), NEW p
    PROVE  \E q : /\ q[0] = NothingRead(ev) /\ ClassifyMoves(ev, p) = q[Len(ev)].moves
                  /\ \A i \in 0 .. Len(ev) : q[i] \in ReadingsIn(ev, p)
                  /\ \A i \in 1 .. Len(ev) : q[i] = EventRead(ev, p, q[i - 1], i)
<1> DEFINE n == Len(ev)
           S == ReadingsIn(ev, p)
           b == NothingRead(ev)
           F == [i \in 1 .. n |-> [x \in S |-> EventRead(ev, p, x, i)]]
           it == CHOOSE g : g = [t \in SUBSET (DOMAIN [i \in DOMAIN ev |-> i]) |->
                     IF t = {} THEN b
                     ELSE EventRead(ev, p, g[t \ {Max(t)}], [i \in DOMAIN ev |-> i][Max(t)])]
<1>1. n \in Nat /\ DOMAIN ev = 1 .. n /\ DOMAIN [i \in DOMAIN ev |-> i] = 1 .. n
  OBVIOUS
<1>2. b \in S
  <2>1. None \in TimesIn(ev) /\ StartTime(ev) \in TimesIn(ev) /\ None \in AmountsIn(ev)
    BY DEF TimesIn, AmountsIn
  <2> QED BY <2>1 DEF NothingRead, ReadingsIn
<1>3. F \in [1 .. n -> [S -> S]]
  <2>1. ASSUME NEW i \in 1 .. n, NEW x \in S PROVE EventRead(ev, p, x, i) \in S
    BY <1>1, ReadingType
  <2> HIDE DEF S
  <2> QED BY <2>1
<1>4. PICK g \in [SUBSET (1 .. n) -> S] : \A t \in SUBSET (1 .. n) :
          g[t] = IF t = {} THEN b ELSE F[Max(t)][g[t \ {Max(t)}]]
  <2> HIDE DEF F, S, n, it, b
  <2>2. \E g : FoldSolution(n, S, b, F, g)
    BY <1>1, <1>2, <1>3, FoldExists
  <2> QED BY <2>2 DEF FoldSolution
<1> HIDE DEF S, b
<1>5. ASSUME NEW t \in SUBSET (1 .. n), t # {}
      PROVE  /\ F[Max(t)][g[t \ {Max(t)}]] = EventRead(ev, p, g[t \ {Max(t)}], Max(t))
             /\ Max(t) \in 1 .. n
  <2>1. Max(t) \in 1 .. n
    BY <1>1, <1>5, Extremes
  <2>2. g[t \ {Max(t)}] \in S
    OBVIOUS
  <2> QED BY <2>1, <2>2
<1> HIDE DEF F, n
<1>6. g = [t \in SUBSET (DOMAIN [i \in DOMAIN ev |-> i]) |->
              IF t = {} THEN b
              ELSE EventRead(ev, p, g[t \ {Max(t)}], [i \in DOMAIN ev |-> i][Max(t)])]
  <2>1. \A t \in SUBSET (1 .. n) : t # {} => [i \in DOMAIN ev |-> i][Max(t)] = Max(t)
    BY <1>1, <1>5
  <2> QED BY <1>1, <1>4, <1>5, <2>1
<1>7. it = [t \in SUBSET (DOMAIN [i \in DOMAIN ev |-> i]) |->
              IF t = {} THEN b
              ELSE EventRead(ev, p, it[t \ {Max(t)}], [i \in DOMAIN ev |-> i][Max(t)])]
  BY <1>6
<1>8. ClassifyMoves(ev, p) = it[DOMAIN [i \in DOMAIN ev |-> i]].moves
  BY DEF ClassifyMoves, FoldLeftDomain, FoldLeft, MapThenFoldSet, EventRead, MoveRead,
         NothingRead, b
<1> HIDE DEF it
<1> DEFINE q == [i \in 0 .. n |-> it[1 .. i]]
<1>9. q[0] = b /\ ClassifyMoves(ev, p) = q[n].moves
  BY <1>1, <1>7, <1>8
<1>10. ASSUME NEW i \in 1 .. n PROVE q[i] = EventRead(ev, p, q[i - 1], i)
  <2>5. n \in Nat
    BY <1>1
  <2>6. i \in 1 .. i
    BY <2>5
  <2>0. i \in 1 .. n /\ 1 .. i # {}
    BY <2>6
  <2>1. Max(1 .. i) = i /\ (1 .. i) \ {i} = 1 .. (i - 1)
    BY <2>5, <2>0, LastOfSegment
  <2>2. 1 .. i \in SUBSET (DOMAIN [j \in DOMAIN ev |-> j]) /\ [j \in DOMAIN ev |-> j][i] = i
    BY <1>1
  <2>3. it[1 .. i] = EventRead(ev, p, it[1 .. (i - 1)], i)
    BY <1>7, <2>0, <2>1, <2>2
  <2>4. i - 1 \in 0 .. n /\ i \in 0 .. n
    BY <1>1
  <2> QED BY <2>3, <2>4
<1> HIDE DEF q
<1> DEFINE R == {i \in 0 .. n : q[i] \in S}
<1>11. 0 \in R
  BY <1>1, <1>2, <1>9
<1>12. ASSUME NEW i \in 1 .. n, i - 1 \in R PROVE i \in R
  <2>1. EventRead(ev, p, q[i - 1], i) \in S
    BY <1>1, <1>12, ReadingType DEF S, n
  <2> QED BY <1>1, <1>10, <2>1
<1> HIDE DEF R
<1>13. 0 .. n \subseteq R
  BY <1>1, <1>11, <1>12, Climb
<1>14. \A i \in 0 .. n : q[i] \in S
  BY <1>13 DEF R
<1> QED BY <1>9, <1>10, <1>14 DEF S, b, n

\* The last offer of r changes with an offer of r, and with nothing else.
LEMMA LatestOfferMoves ==
    ASSUME NEW ev, NEW r, NEW i \in Nat, i >= 1
    PROVE  LatestOffer(ev, r, i) =
               IF BidAt(ev, r, i) THEN ev[i].arg.amount ELSE LatestOffer(ev, r, i - 1)
<1>1. i - 1 \in Nat /\ i \in 1 .. i
  OBVIOUS
<1>2. \A j \in 1 .. i : j = i \/ j \in 1 .. (i - 1)
  OBVIOUS
<1>3. CASE BidAt(ev, r, i)
  <2>1. PICK k \in 1 .. i : /\ LatestOffer(ev, r, i) = ev[k].arg.amount
                            /\ \A j \in 1 .. i : BidAt(ev, r, j) => j <= k
    BY <1>1, <1>3, LatestOfferIs
  <2>2. k = i
    BY <1>1, <1>3, <2>1
  <2> QED BY <1>3, <2>1, <2>2
<1>4. CASE ~BidAt(ev, r, i) /\ \A j \in 1 .. i : ~BidAt(ev, r, j)
  <2>1. \A j \in 1 .. (i - 1) : j \in 1 .. i
    OBVIOUS
  <2> QED BY <1>1, <1>4, <2>1, LatestOfferIs
<1>5. CASE ~BidAt(ev, r, i) /\ \E j \in 1 .. i : BidAt(ev, r, j)
  <2>1. PICK k \in 1 .. i : /\ BidAt(ev, r, k) /\ LatestOffer(ev, r, i) = ev[k].arg.amount
                            /\ \A j \in 1 .. i : BidAt(ev, r, j) => j <= k
    BY <1>1, <1>5, LatestOfferIs
  <2>2. k \in 1 .. (i - 1)
    BY <1>2, <1>5, <2>1
  <2>3. PICK h \in 1 .. (i - 1) :
            /\ BidAt(ev, r, h) /\ LatestOffer(ev, r, i - 1) = ev[h].arg.amount
            /\ \A j \in 1 .. (i - 1) : BidAt(ev, r, j) => j <= h
    BY <1>1, <2>1, <2>2, LatestOfferIs
  <2>4. h = k
    <3>1. h \in 1 .. i
      OBVIOUS
    <3> QED BY <2>1, <2>2, <2>3, <3>1
  <2> QED BY <1>5, <2>1, <2>3, <2>4
<1> QED BY <1>3, <1>4, <1>5

\* The moves a are the offers of p among the first n events, in their order, each
\* with the one before it; it is unreciprocated when the opponent's last offer
\* was the same at both.
OffersOfPlayer(ev, p, n, a) ==
    /\ \A k \in 1 .. Len(a) :
         /\ a[k].seq \in 1 .. n /\ BidAt(ev, p, a[k].seq)
         /\ a[k].amount = ev[a[k].seq].arg.amount
         /\ a[k].previous = IF k = 1 THEN None ELSE a[k - 1].amount
         /\ a[k].unreciprocated <=>
              k > 1 /\ LatestOffer(ev, Other(p), a[k].seq) = LatestOffer(ev, Other(p), a[k - 1].seq)
    /\ \A j, k \in 1 .. Len(a) : j < k => a[j].seq < a[k].seq
    /\ \A i \in 1 .. n : BidAt(ev, p, i) => \E k \in 1 .. Len(a) : a[k].seq = i

\* What is remembered after n events.
ReadSoFar(ev, p, n, s) ==
    /\ s \in ReadingsIn(ev, p)
    /\ OffersOfPlayer(ev, p, n, s.moves)
    /\ s.opponent = LatestOffer(ev, Other(p), n)
    /\ s.moves # <<>> => s.heldAt = LatestOffer(ev, Other(p), Last(s.moves).seq)

LEMMA EventIsRead ==
    ASSUME NEW ev, TypedStream(ev), NEW p \in Player, NEW i \in 1 .. Len(ev),
           NEW s, ReadSoFar(ev, p, i - 1, s)
    PROVE  ReadSoFar(ev, p, i, EventRead(ev, p, s, i))
<1> DEFINE r == EventRead(ev, p, s, i)
           a == s.moves
           l == Len(a)
<1>1. i \in Nat /\ i >= 1 /\ i - 1 \in Nat /\ Len(ev) \in Nat /\ i \in DOMAIN ev
  BY DEF TypedStream
<1>2. r \in ReadingsIn(ev, p) /\ s \in ReadingsIn(ev, p)
  BY <1>1, ReadingType DEF ReadSoFar
<1>3. a \in Seq(MovesIn(ev, p))
  BY <1>2 DEF ReadingsIn
<1>4. ev[i].type = "OFFER_SUBMITTED" => ev[i].actor \in {p, Other(p)}
  BY <1>1 DEF TypedStream, Other, Player
<1>5. Other(p) # p
  BY DEF Other, Player
<1>6. /\ OffersOfPlayer(ev, p, i - 1, a)
      /\ s.opponent = LatestOffer(ev, Other(p), i - 1)
      /\ a # <<>> => s.heldAt = LatestOffer(ev, Other(p), Last(a).seq)
  BY DEF ReadSoFar
<1>7. LatestOffer(ev, Other(p), i) =
          IF BidAt(ev, Other(p), i) THEN ev[i].arg.amount ELSE LatestOffer(ev, Other(p), i - 1)
  BY <1>1, LatestOfferMoves
<1>8. CASE ~BidAt(ev, p, i)
  <2>1. r.moves = a /\ r.heldAt = s.heldAt
    BY <1>2, <1>8 DEF EventRead, ReadingsIn, BidAt
  <2>2. r.opponent = LatestOffer(ev, Other(p), i)
    <3>1. CASE BidAt(ev, Other(p), i)
      <4>1. r.opponent = ev[i].arg.amount
        BY <1>2, <1>5, <3>1 DEF EventRead, ReadingsIn, BidAt
      <4> QED BY <1>7, <3>1, <4>1
    <3>2. CASE ~BidAt(ev, Other(p), i)
      <4>1. ev[i].type # "OFFER_SUBMITTED"
        BY <1>4, <1>8, <3>2 DEF BidAt
      <4>2. r.opponent = s.opponent
        BY <1>2, <4>1 DEF EventRead, ReadingsIn
      <4> QED BY <1>6, <1>7, <3>2, <4>2
    <3> QED BY <3>1, <3>2
  <2>3. OffersOfPlayer(ev, p, i, a)
    <3>1. \A j \in 1 .. (i - 1) : j \in 1 .. i
      BY <1>1
    <3>2. \A j \in 1 .. i : BidAt(ev, p, j) => j \in 1 .. (i - 1)
      BY <1>1, <1>8
    <3> QED BY <1>6, <3>1, <3>2 DEF OffersOfPlayer
  <2> HIDE DEF r, a
  <2> QED BY <1>2, <1>6, <2>1, <2>2, <2>3 DEF ReadSoFar, r, a
<1>9. CASE BidAt(ev, p, i)
  <2> DEFINE new == MoveRead(ev, p, s, i)
             b == Append(a, new)
  <2>1. ev[i].type = "OFFER_SUBMITTED" /\ ev[i].actor = p
    BY <1>9 DEF BidAt
  <2>2. r = AfterOwnOffer(s, new)
    BY <2>1 DEF EventRead
  <2>3. r.moves = b /\ r.heldAt = s.opponent /\ r.opponent = s.opponent
    BY <1>2, <2>2 DEF AfterOwnOffer, ReadingsIn
  <2>4. LatestOffer(ev, Other(p), i) = s.opponent
    BY <1>5, <1>6, <1>7, <2>1 DEF BidAt
  <2>5. /\ new.seq = i /\ new.amount = ev[i].arg.amount
        /\ new.previous = IF a = <<>> THEN None ELSE Last(a).amount
        /\ new.unreciprocated <=> a # <<>> /\ s.opponent = s.heldAt
    BY DEF MoveRead
  <2>6. new \in MovesIn(ev, p)
    <3>1. r.moves \in Seq(MovesIn(ev, p))
      BY <1>2 DEF ReadingsIn
    <3>2. b[Len(b)] = new /\ b # <<>>
      BY <1>3
    <3> QED BY <2>3, <3>1, <3>2
  <2> HIDE DEF new, a
  <2>7. /\ l \in Nat /\ b \in Seq(MovesIn(ev, p)) /\ Len(b) = l + 1 /\ b[l + 1] = new
        /\ \A k \in 1 .. l : b[k] = a[k]
        /\ a = <<>> <=> l = 0
        /\ l > 0 => Last(a) = a[l] /\ l \in 1 .. l
        /\ b # <<>>
    BY <1>3, <2>6 DEF Last
  <2> HIDE DEF b, l
  <2>8. /\ \A k \in 1 .. l :
             /\ a[k].seq \in 1 .. (i - 1) /\ BidAt(ev, p, a[k].seq)
             /\ a[k].amount = ev[a[k].seq].arg.amount
             /\ a[k].previous = IF k = 1 THEN None ELSE a[k - 1].amount
             /\ a[k].unreciprocated <=>
                  k > 1 /\ LatestOffer(ev, Other(p), a[k].seq)
                               = LatestOffer(ev, Other(p), a[k - 1].seq)
        /\ \A j, k \in 1 .. l : j < k => a[j].seq < a[k].seq
        /\ \A h \in 1 .. (i - 1) : BidAt(ev, p, h) => \E k \in 1 .. l : a[k].seq = h
    BY <1>6 DEF OffersOfPlayer, l
  <2>9. ASSUME NEW k \in 1 .. (l + 1)
        PROVE  /\ b[k].seq \in 1 .. i /\ BidAt(ev, p, b[k].seq)
               /\ b[k].amount = ev[b[k].seq].arg.amount
               /\ b[k].previous = IF k = 1 THEN None ELSE b[k - 1].amount
               /\ b[k].unreciprocated <=>
                    k > 1 /\ LatestOffer(ev, Other(p), b[k].seq)
                                 = LatestOffer(ev, Other(p), b[k - 1].seq)
    <3>1. CASE k \in 1 .. l
      <4>1. k = 1 \/ k - 1 \in 1 .. l
        BY <3>1, <2>7
      <4>2. b[k] = a[k] /\ (k # 1 => b[k - 1] = a[k - 1])
        BY <3>1, <4>1, <2>7
      <4>3. a[k].seq \in 1 .. i
        BY <1>1, <2>8, <3>1
      <4> QED BY <2>8, <3>1, <4>1, <4>2, <4>3
    <3>2. CASE k = l + 1
      <4>1. b[k] = new /\ (k # 1 => k > 1 /\ b[k - 1] = Last(a) /\ a # <<>>) /\ (k = 1 => a = <<>>)
        BY <2>7, <3>2
      <4>2. i \in 1 .. i
        BY <1>1
      <4>3. /\ b[k].seq = i /\ b[k].amount = ev[i].arg.amount
            /\ b[k].previous = IF k = 1 THEN None ELSE b[k - 1].amount
        BY <2>5, <4>1
      <4>4. b[k].unreciprocated <=>
                k > 1 /\ LatestOffer(ev, Other(p), i) = LatestOffer(ev, Other(p), b[k - 1].seq)
        BY <1>6, <2>4, <2>5, <4>1
      <4> QED BY <1>9, <4>2, <4>3, <4>4
    <3> QED BY <2>7, <3>1, <3>2
  <2>10. ASSUME NEW j \in 1 .. (l + 1), NEW k \in 1 .. (l + 1), j < k
         PROVE  b[j].seq < b[k].seq
    <3>1. j \in 1 .. l /\ b[j] = a[j] /\ a[j].seq \in 1 .. (i - 1)
      BY <2>7, <2>8, <2>10
    <3>2. CASE k \in 1 .. l
      BY <2>7, <2>8, <2>10, <3>1, <3>2
    <3>3. CASE k = l + 1
      BY <1>1, <2>5, <2>7, <3>1, <3>3
    <3> QED BY <2>7, <3>2, <3>3
  <2>11. ASSUME NEW h \in 1 .. i, BidAt(ev, p, h) PROVE \E k \in 1 .. (l + 1) : b[k].seq = h
    <3>1. CASE h = i
      BY <2>5, <2>7, <3>1
    <3>2. CASE h \in 1 .. (i - 1)
      <4>1. PICK k \in 1 .. l : a[k].seq = h
        BY <2>8, <2>11, <3>2
      <4>2. k \in 1 .. (l + 1) /\ b[k].seq = h
        BY <2>7, <4>1
      <4> QED BY <4>2
    <3> QED BY <1>1, <3>1, <3>2
  <2>12. OffersOfPlayer(ev, p, i, b)
    BY <2>7, <2>9, <2>10, <2>11 DEF OffersOfPlayer
  <2>13. Last(b).seq = i
    BY <2>5, <2>7 DEF Last
  <2> HIDE DEF r
  <2> QED BY <1>2, <2>3, <2>4, <2>12, <2>13 DEF ReadSoFar, r
<1> QED BY <1>8, <1>9

\* So the moves of a review are the player's offers.
LEMMA MovesAreOffers ==
    ASSUME NEW ev, TypedStream(ev), NEW p \in Player
    PROVE  /\ ClassifyMoves(ev, p) \in Seq(MovesIn(ev, p))
           /\ OffersOfPlayer(ev, p, Len(ev), ClassifyMoves(ev, p))
<1> DEFINE n == Len(ev)
<1>1. PICK S : ev \in Seq(S)
  BY DEF TypedStream
<1>2. n \in Nat
  BY <1>1
<1>3. PICK q : /\ q[0] = NothingRead(ev) /\ ClassifyMoves(ev, p) = q[n].moves
               /\ \A i \in 0 .. n : q[i] \in ReadingsIn(ev, p)
               /\ \A i \in 1 .. n : q[i] = EventRead(ev, p, q[i - 1], i)
  BY <1>1, MovesRun
<1> DEFINE R == {i \in 0 .. n : ReadSoFar(ev, p, i, q[i])}
<1>4. 0 \in R
  <2>1. LatestOffer(ev, Other(p), 0) = None
    BY LatestOfferIs
  <2>2. q[0].moves = <<>> /\ q[0].opponent = None /\ q[0] \in ReadingsIn(ev, p) /\ Len(<<>>) = 0
    BY <1>2, <1>3 DEF NothingRead
  <2>3. OffersOfPlayer(ev, p, 0, <<>>)
    BY DEF OffersOfPlayer
  <2>4. ReadSoFar(ev, p, 0, q[0])
    BY <2>1, <2>2, <2>3 DEF ReadSoFar
  <2> QED BY <1>2, <2>4
<1>5. ASSUME NEW i \in 1 .. n, i - 1 \in R PROVE i \in R
  BY <1>2, <1>3, <1>5, EventIsRead
<1> HIDE DEF R
<1>6. 0 .. n \subseteq R
  BY <1>2, <1>4, <1>5, Climb
<1>7. ReadSoFar(ev, p, n, q[n])
  BY <1>2, <1>6 DEF R
<1> QED BY <1>3, <1>7 DEF ReadSoFar, ReadingsIn

\* Between two own offers the opponent's last offer changes exactly when he makes
\* one: his offers never repeat an amount.
LEMMA HeldBetween ==
    ASSUME NEW ev, TypedStream(ev), BidsConcede(ev), NEW r \in Player,
           NEW h \in 1 .. Len(ev), NEW j \in 1 .. Len(ev), j < h, ~BidAt(ev, r, h)
    PROVE  LatestOffer(ev, r, h) = LatestOffer(ev, r, j)
               <=> ~\E k \in j + 1 .. h - 1 : BidAt(ev, r, k)
<1>0. PICK S : ev \in Seq(S)
  BY DEF TypedStream
<1>1. /\ j \in Nat /\ h \in Nat /\ h <= Len(ev)
      /\ \A i : i \in 1 .. h => i \in DOMAIN ev
      /\ \A i \in 1 .. j : i \in 1 .. h
  BY <1>0
<1>2. ASSUME ~\E k \in j + 1 .. h - 1 : BidAt(ev, r, k)
      PROVE  LatestOffer(ev, r, h) = LatestOffer(ev, r, j)
  <2>1. \A i \in 1 .. h : BidAt(ev, r, i) => i \in 1 .. j
    BY <1>1, <1>2
  <2>2. CASE \A i \in 1 .. j : ~BidAt(ev, r, i)
    BY <1>1, <2>1, <2>2, LatestOfferIs
  <2>3. CASE \E i \in 1 .. j : BidAt(ev, r, i)
    <3>1. PICK k \in 1 .. j : /\ BidAt(ev, r, k) /\ LatestOffer(ev, r, j) = ev[k].arg.amount
                              /\ \A i \in 1 .. j : BidAt(ev, r, i) => i <= k
      BY <1>1, <2>3, LatestOfferIs
    <3>2. PICK l \in 1 .. h : /\ BidAt(ev, r, l) /\ LatestOffer(ev, r, h) = ev[l].arg.amount
                              /\ \A i \in 1 .. h : BidAt(ev, r, i) => i <= l
      BY <1>1, <2>3, LatestOfferIs
    <3>3. l = k
      BY <1>1, <2>1, <3>1, <3>2
    <3> QED BY <3>1, <3>2, <3>3
  <2> QED BY <2>2, <2>3
<1>3. ASSUME NEW k \in j + 1 .. h - 1, BidAt(ev, r, k)
      PROVE  LatestOffer(ev, r, h) # LatestOffer(ev, r, j)
  <2>0. k \in 1 .. h
    BY <1>1
  <2>1. PICK l \in 1 .. h : /\ BidAt(ev, r, l) /\ LatestOffer(ev, r, h) = ev[l].arg.amount
                            /\ \A i \in 1 .. h : BidAt(ev, r, i) => i <= l
    BY <1>1, <1>3, <2>0, LatestOfferIs
  <2>2. l \in DOMAIN ev /\ l > j /\ ev[l].arg.amount \in Amount
    BY <1>1, <1>3, <2>0, <2>1 DEF TypedStream, BidAt
  <2>3. CASE LatestOffer(ev, r, j) = None
    BY <2>1, <2>2, <2>3, AmountsAreIntegers
  <2>4. ASSUME NEW i \in 1 .. j, BidAt(ev, r, i), LatestOffer(ev, r, j) = ev[i].arg.amount
        PROVE  LatestOffer(ev, r, h) # LatestOffer(ev, r, j)
    <3>1. i \in DOMAIN ev /\ i < l
      BY <1>1, <2>2
    <3>2. TowardOpponent(r, ev[i].arg.amount, ev[l].arg.amount)
      BY <2>1, <2>2, <2>4, <3>1 DEF BidsConcede
    <3> QED BY <2>1, <2>2, <2>4, <3>2, MovementOrders
  <2> QED BY <1>1, <2>3, <2>4, LatestOfferIs
<1> QED BY <1>2, <1>3

\* A concession is unreciprocated when the opponent has only revealed since.
LEMMA UnreciprocatedIsHeld ==
    ASSUME NEW m, NEW ev, StreamInv(m, ev), NEW p \in Player,
           NEW i \in 2 .. Len(ClassifyMoves(ev, p))
    PROVE  LET moves == ClassifyMoves(ev, p)
               between == moves[i - 1].seq + 1 .. moves[i].seq - 1
           IN  /\ moves[i].unreciprocated <=> ~\E k \in between : BidAt(ev, Other(p), k)
               /\ moves[i].unreciprocated =>
                    \E k \in between : ev[k].type = "FACT_REVEALED" /\ ev[k].actor = Other(p)
<1> DEFINE moves == ClassifyMoves(ev, p)
           j == moves[i - 1].seq
           h == moves[i].seq
<1>1. TypedStream(ev) /\ BidsConcede(ev) /\ TurnsAlternate(m, ev) /\ \E S : ev \in Seq(S)
  BY DEF StreamInv, TypedStream
<1>2. moves \in Seq(MovesIn(ev, p)) /\ OffersOfPlayer(ev, p, Len(ev), moves)
  BY <1>1, MovesAreOffers
<1> HIDE DEF moves
<1>3. i \in 1 .. Len(moves) /\ i - 1 \in 1 .. Len(moves) /\ i - 1 < i /\ i > 1
  BY <1>2 DEF moves
<1>4. /\ j \in 1 .. Len(ev) /\ h \in 1 .. Len(ev) /\ j < h
      /\ BidAt(ev, p, j) /\ BidAt(ev, p, h)
      /\ moves[i].unreciprocated <=>
           LatestOffer(ev, Other(p), h) = LatestOffer(ev, Other(p), j)
  BY <1>2, <1>3 DEF OffersOfPlayer
<1> HIDE DEF j, h
<1>5. Other(p) \in Player /\ ~BidAt(ev, Other(p), h)
  BY <1>4 DEF BidAt, Other, Player
<1>6. moves[i].unreciprocated <=> ~\E k \in j + 1 .. h - 1 : BidAt(ev, Other(p), k)
  BY <1>1, <1>4, <1>5, HeldBetween
<1>7. PICK k \in j + 1 .. h - 1 : TurnAt(ev, Other(p), k)
  <2>1. j \in DOMAIN ev /\ h \in DOMAIN ev
    BY <1>1, <1>4
  <2>2. TurnAt(ev, p, j) /\ TurnAt(ev, p, h)
    BY <1>4 DEF BidAt, TurnAt
  <2> QED BY <1>1, <1>4, <2>1, <2>2 DEF TurnsAlternate
<1>8. moves[i].unreciprocated =>
          \E l \in j + 1 .. h - 1 : ev[l].type = "FACT_REVEALED" /\ ev[l].actor = Other(p)
  BY <1>6, <1>7 DEF BidAt, TurnAt
<1> QED BY <1>6, <1>8 DEF moves, j, h

\* A concession is called unreciprocated exactly when the opponent made no offer
\* since the player's last one, and then he answered it with a fact
\* (features.ts:128-136, match.ts revealFact).
THEOREM UnreciprocatedIsAnsweredByFact == PlaySpec => []UnreciprocatedMeansHeld
<1>1. PlayInv => UnreciprocatedMeansHeld
  BY UnreciprocatedIsHeld DEF PlayInv, UnreciprocatedMeansHeld, OfferBy, BidAt
<1> QED BY <1>1, PlayInvariant, PTL

-----------------------------------------------------------------------------
(* The review: the concessions and the largest of them                     *)

\* f lists n numbers, each larger than the one before.
Increasing(f, n) == f \in [1 .. n -> Int] /\ \A j, k \in 1 .. n : j < k => f[j] < f[k]

\* Every one of the n numbers f lists is among the m that g lists.
Covered(f, n, g, m) == \A k \in 1 .. n : \E j \in 1 .. m : f[k] = g[j]

\* A set of numbers has one increasing enumeration: a prefix of one is a prefix
\* of the other ...
LEMMA EnumerationsAgree ==
    ASSUME NEW l \in Nat, NEW n \in Nat, NEW f \in [1 .. l -> Int], NEW g \in [1 .. n -> Int],
           \A j, k \in 1 .. l : j < k => f[j] < f[k],
           \A j, k \in 1 .. n : j < k => g[j] < g[k],
           \A k \in 1 .. l : \E j \in 1 .. n : f[k] = g[j],
           \A k \in 1 .. n : \E j \in 1 .. l : g[k] = f[j]
    PROVE  l <= n /\ \A k \in 1 .. l : f[k] = g[k]
<1> DEFINE T == {k \in 0 .. l : k <= n /\ \A i \in 1 .. k : f[i] = g[i]}
<1>1. 0 \in T
  OBVIOUS
<1>2. ASSUME NEW k \in 1 .. l, k - 1 \in T PROVE k \in T
  <2>1. k - 1 <= n /\ \A i \in 1 .. (k - 1) : f[i] = g[i]
    BY <1>2
  <2>2. PICK j \in 1 .. n : f[k] = g[j]
    OBVIOUS
  <2>3. j \notin 1 .. (k - 1)
    <3>1. SUFFICES ASSUME j \in 1 .. (k - 1) PROVE FALSE
      OBVIOUS
    <3>2. j \in 1 .. l /\ j < k /\ f[j] = g[j]
      BY <2>1, <3>1
    <3>3. f[j] < f[k] /\ f[j] \in Int /\ f[k] \in Int
      BY <3>2
    <3> QED BY <2>2, <3>2, <3>3
  <2>4. k <= j /\ k <= n /\ k \in 1 .. n
    BY <2>3
  <2>5. g[k] <= f[k]
    <3>1. g[k] \in Int /\ g[j] \in Int
      BY <2>4
    <3>2. k = j \/ k < j
      BY <2>4
    <3>3. g[k] <= g[j]
      <4>1. CASE k = j
        BY <3>1, <4>1
      <4>2. CASE k < j
        BY <2>4, <3>1, <4>2
      <4> QED BY <3>2, <4>1, <4>2
    <3> QED BY <2>2, <3>3
  <2>6. PICK i \in 1 .. l : g[k] = f[i]
    BY <2>4
  <2>7. i \notin 1 .. (k - 1)
    <3>1. SUFFICES ASSUME i \in 1 .. (k - 1) PROVE FALSE
      OBVIOUS
    <3>2. i \in 1 .. n /\ i < k /\ f[i] = g[i]
      BY <2>1, <2>4, <3>1
    <3>3. g[i] < g[k] /\ g[i] \in Int /\ g[k] \in Int
      BY <2>4, <3>2
    <3> QED BY <2>6, <3>2, <3>3
  <2>8. f[k] <= g[k]
    <3>1. f[k] \in Int /\ f[i] \in Int
      OBVIOUS
    <3>2. k = i \/ k < i
      BY <2>7
    <3>3. f[k] <= f[i]
      <4>1. CASE k = i
        BY <3>1, <4>1
      <4>2. CASE k < i
        BY <3>1, <4>2
      <4> QED BY <3>2, <4>1, <4>2
    <3> QED BY <2>6, <3>3
  <2>9. f[k] = g[k]
    <3>1. f[k] \in Int /\ g[k] \in Int
      BY <2>4
    <3> QED BY <2>5, <2>8, <3>1
  <2>10. \A h \in 1 .. k : h = k \/ h \in 1 .. (k - 1)
    OBVIOUS
  <2>11. \A h \in 1 .. k : f[h] = g[h]
    BY <2>1, <2>9, <2>10
  <2>12. k \in 0 .. l
    OBVIOUS
  <2> QED BY <2>4, <2>11, <2>12
<1> HIDE DEF T
<1>3. 0 .. l \subseteq T
  BY <1>1, <1>2, Climb
<1>4. l \in T
  BY <1>3
<1> QED BY <1>4 DEF T

\* ... and so they are one.
LEMMA OneEnumeration ==
    ASSUME NEW l \in Nat, NEW n \in Nat, NEW f, NEW g,
           Increasing(f, l), Increasing(g, n), Covered(f, l, g, n), Covered(g, n, f, l)
    PROVE  l = n /\ \A k \in 1 .. l : f[k] = g[k]
<1>1. l <= n /\ \A k \in 1 .. l : f[k] = g[k]
  BY EnumerationsAgree DEF Increasing, Covered
<1>2. n <= l
  BY EnumerationsAgree DEF Increasing, Covered
<1> QED BY <1>1, <1>2

\* Every move but the first is a concession.
LEMMA ConcessionsAreLater ==
    ASSUME NEW ev, TypedStream(ev), NEW p \in Player
    PROVE  LET moves == ClassifyMoves(ev, p)
               given == Concessions(moves)
           IN  /\ given \in Seq(MovesIn(ev, p))
               /\ Len(given) = IF Len(moves) = 0 THEN 0 ELSE Len(moves) - 1
               /\ \A k \in 1 .. Len(given) : given[k] = moves[k + 1]
<1> DEFINE moves == ClassifyMoves(ev, p)
           given == Concessions(moves)
           T == {x \in ToSet(moves) : x.previous # None}
           n == Len(moves)
           l == Len(given)
           d == IF n = 0 THEN 0 ELSE n - 1
           g == [k \in 1 .. d |-> k + 1]
<1>1. moves \in Seq(MovesIn(ev, p)) /\ OffersOfPlayer(ev, p, Len(ev), moves)
  BY MovesAreOffers
<1>2. given = Among(moves, T)
  BY DEF Concessions, Filter
<1> HIDE DEF moves, given, T
<1>3. given \in Seq(MovesIn(ev, p)) /\ \E f : Picked(moves, T, n, given, f)
  BY <1>1, <1>2, AmongPicks
<1>4. n \in Nat /\ DOMAIN moves = 1 .. n
  BY <1>1
<1>5. \A k \in 1 .. n : moves[k] \in T <=> k # 1
  <2>1. ASSUME NEW k \in 1 .. n PROVE moves[k].amount # None
    <3>0. Len(ev) \in Nat /\ \A i : i \in 1 .. Len(ev) => i \in DOMAIN ev
      BY DEF TypedStream
    <3>1. moves[k].amount = ev[moves[k].seq].arg.amount /\ BidAt(ev, p, moves[k].seq)
          /\ moves[k].seq \in 1 .. Len(ev)
      BY <1>1 DEF OffersOfPlayer
    <3>2. ev[moves[k].seq].arg.amount \in Amount
      BY <3>0, <3>1 DEF TypedStream, BidAt
    <3> QED BY <3>1, <3>2, AmountsAreIntegers
  <2>2. \A k \in 1 .. n : moves[k].previous = IF k = 1 THEN None ELSE moves[k - 1].amount
    BY <1>1 DEF OffersOfPlayer
  <2>3. ASSUME NEW k \in 1 .. n PROVE moves[k].previous # None <=> k # 1
    <3>1. k # 1 => k - 1 \in 1 .. n
      BY <1>4
    <3> QED BY <2>1, <2>2, <3>1
  <2>4. \A k \in 1 .. n : moves[k] \in ToSet(moves)
    BY <1>4 DEF ToSet
  <2> QED BY <2>3, <2>4 DEF T
<1>6. l \in Nat
  BY <1>3
<1>7. PICK f : Picked(moves, T, n, given, f)
  BY <1>3
<1>8. /\ f \in [1 .. l -> 1 .. n]
      /\ \A k \in 1 .. l : given[k] = moves[f[k]] /\ moves[f[k]] \in T
      /\ \A j, k \in 1 .. l : j < k => f[j] < f[k]
      /\ \A i \in 1 .. n : moves[i] \in T => \E k \in 1 .. l : f[k] = i
  BY <1>7 DEF Picked
<1>9. n \in Nat
  BY <1>4
<1> HIDE DEF n, l
<1>10. d \in Nat /\ g \in [1 .. d -> Int] /\ f \in [1 .. l -> Int]
  BY <1>8, <1>9
<1>11. \A j, k \in 1 .. d : j < k => g[j] < g[k]
  BY <1>10
<1>12. ASSUME NEW k \in 1 .. l PROVE \E j \in 1 .. d : f[k] = g[j]
  <2>1. f[k] \in 1 .. n /\ f[k] # 1
    BY <1>5, <1>8
  <2>2. f[k] - 1 \in 1 .. d /\ g[f[k] - 1] = f[k]
    BY <1>9, <2>1
  <2> QED BY <2>2
<1>13. ASSUME NEW k \in 1 .. d PROVE \E j \in 1 .. l : g[k] = f[j]
  <2>1. k + 1 \in 1 .. n /\ k + 1 # 1 /\ g[k] = k + 1
    BY <1>9
  <2> QED BY <1>5, <1>8, <2>1
<1> HIDE DEF d, g
<1>14. l = d /\ \A k \in 1 .. l : f[k] = g[k]
  <2>1. l \in Nat
    BY <1>6
  <2>2. d \in Nat
    BY <1>10
  <2>3. Increasing(g, d) /\ Increasing(f, l)
    BY <1>8, <1>10, <1>11 DEF Increasing
  <2>4. Covered(f, l, g, d) /\ Covered(g, d, f, l)
    BY <1>12, <1>13 DEF Covered
  <2> QED BY <2>1, <2>2, <2>3, <2>4, OneEnumeration
<1>15. \A k \in 1 .. l : given[k] = moves[k + 1]
  BY <1>8, <1>14 DEF g
<1> QED BY <1>3, <1>14, <1>15 DEF moves, given, n, l, d

\* The player's offers, listed from the events, are the moves.
LEMMA OffersAreMoves ==
    ASSUME NEW ev, TypedStream(ev), NEW p \in Player,
           NEW T, \A i \in 1 .. Len(ev) : i \in T <=> BidAt(ev, p, i)
    PROVE  LET moves == ClassifyMoves(ev, p)
               mine == Among([i \in 1 .. Len(ev) |-> i], T)
           IN  /\ Len(mine) = Len(moves) /\ Len(mine) \in Nat
               /\ \A k \in 1 .. Len(mine) : mine[k] = moves[k].seq
<1> DEFINE moves == ClassifyMoves(ev, p)
           mine == Among([i \in 1 .. Len(ev) |-> i], T)
           n == Len(moves)
           l == Len(mine)
           g == [k \in 1 .. n |-> moves[k].seq]
           N == Len(ev)
<1>1. moves \in Seq(MovesIn(ev, p)) /\ OffersOfPlayer(ev, p, N, moves)
  BY MovesAreOffers
<1>2. N \in Nat
  BY DEF TypedStream
<1>3. /\ mine \in Seq(1 .. N) /\ l \in 0 .. N /\ DOMAIN mine = 1 .. l
      /\ \A k \in DOMAIN mine : mine[k] \in T
      /\ \A j, k \in DOMAIN mine : j < k => mine[j] < mine[k]
      /\ \A i \in 1 .. N : i \in T => \E k \in DOMAIN mine : mine[k] = i
  BY <1>2, FilterCounts
<1> HIDE DEF moves, mine
<1>4. n \in Nat /\ l \in Nat
  BY <1>1, <1>3
<1>5. /\ \A k \in 1 .. n : moves[k].seq \in 1 .. N /\ BidAt(ev, p, moves[k].seq)
      /\ \A j, k \in 1 .. n : j < k => moves[j].seq < moves[k].seq
      /\ \A i \in 1 .. N : BidAt(ev, p, i) => \E k \in 1 .. n : moves[k].seq = i
  BY <1>1 DEF OffersOfPlayer
<1>6. /\ mine \in [1 .. l -> Int] /\ \A k \in 1 .. l : mine[k] \in 1 .. N
  BY <1>3
<1> HIDE DEF n, l
<1>7. g \in [1 .. n -> Int] /\ \A k \in 1 .. n : g[k] = moves[k].seq
  BY <1>5
<1> HIDE DEF g, N
<1>8. ASSUME NEW k \in 1 .. l PROVE \E j \in 1 .. n : mine[k] = g[j]
  <2>1. k \in DOMAIN mine
    BY <1>3
  <2>2. mine[k] \in 1 .. N /\ mine[k] \in T
    BY <1>3, <1>6, <2>1
  <2>3. BidAt(ev, p, mine[k])
    BY <2>2 DEF N
  <2> QED BY <1>5, <1>7, <2>2, <2>3
<1>9. \A k \in 1 .. n : \E j \in 1 .. l : g[k] = mine[j]
  BY <1>3, <1>5, <1>7 DEF N
<1>10. /\ \A j, k \in 1 .. n : j < k => g[j] < g[k]
       /\ \A j, k \in 1 .. l : j < k => mine[j] < mine[k]
  BY <1>3, <1>5, <1>7
<1>11. l = n /\ \A k \in 1 .. l : mine[k] = g[k]
  <2>1. l \in Nat
    BY <1>4
  <2>2. n \in Nat
    BY <1>4
  <2>3. Increasing(g, n) /\ Increasing(mine, l)
    BY <1>6, <1>7, <1>10 DEF Increasing
  <2>4. Covered(mine, l, g, n) /\ Covered(g, n, mine, l)
    BY <1>8, <1>9 DEF Covered
  <2> QED BY <2>1, <2>2, <2>3, <2>4, OneEnumeration
<1> QED BY <1>4, <1>7, <1>11 DEF moves, mine, n, l

\* A magnitude is a pair of positive numbers.
Positive == Nat \ {0}

LEMMA ProductRises ==
    ASSUME NEW a \in Positive, NEW b \in Nat, NEW c \in Nat
    PROVE  a * b < a * c <=> b < c
<1>1. a \in Nat /\ a > 0
  BY DEF Positive
<1>2. ASSUME b < c PROVE a * b < a * c
  <2>1. b + 1 \in Nat /\ b + 1 <= c
    BY <1>2
  <2>2. a * (b + 1) <= a * c
    BY <1>1, <2>1, ProductGrows
  <2>3. a * (b + 1) = a * b + a
    BY <1>1
  <2>4. a * b \in Nat /\ a * c \in Nat
    BY <1>1
  <2> QED BY <1>1, <2>2, <2>3, <2>4
<1>3. ASSUME c <= b PROVE a * c <= a * b
  BY <1>1, <1>3, ProductGrows
<1>4. a * b \in Nat /\ a * c \in Nat
  BY <1>1
<1> QED BY <1>2, <1>3, <1>4

\* What is larger than x is larger than all that x is at least as large as.
LEMMA SmallerPasses ==
    ASSUME NEW x \in Positive \X Positive, NEW y \in Positive \X Positive,
           NEW z \in Positive \X Positive, ~Smaller(x, y), Smaller(x, z)
    PROVE  Smaller(y, z)
<1>1. PICK a \in Positive, b \in Positive : x = <<a, b>>
  OBVIOUS
<1>2. PICK c \in Positive, d \in Positive : y = <<c, d>>
  OBVIOUS
<1>3. PICK e \in Positive, f \in Positive : z = <<e, f>>
  OBVIOUS
<1>4. c * b <= a * d /\ a * f < e * b
  BY <1>1, <1>2, <1>3 DEF Smaller, Positive
<1>5. /\ a \in Nat /\ b \in Nat /\ c \in Nat /\ d \in Nat /\ e \in Nat /\ f \in Nat
      /\ c * b \in Nat /\ a * d \in Nat /\ a * f \in Nat /\ e * b \in Nat
      /\ c * f \in Nat /\ e * d \in Nat
  BY DEF Positive
<1>6. f * (c * b) <= f * (a * d)
  BY <1>4, <1>5, ProductGrows
<1>7. d * (a * f) < d * (e * b)
  BY <1>4, <1>5, ProductRises
<1>8. f * (c * b) = b * (c * f) /\ f * (a * d) = d * (a * f) /\ d * (e * b) = b * (e * d)
  BY <1>5
<1>9. b * (c * f) \in Nat /\ d * (a * f) \in Nat /\ b * (e * d) \in Nat
  BY <1>5
<1>10. b * (c * f) < b * (e * d)
  BY <1>6, <1>7, <1>8, <1>9
<1>11. c * f < e * d
  BY <1>5, <1>10, ProductRises
<1> QED BY <1>2, <1>3, <1>11 DEF Smaller

LEMMA SmallerIsStrict ==
    ASSUME NEW x \in Positive \X Positive, NEW y \in Positive \X Positive
    PROVE  ~Smaller(x, x) /\ (Smaller(x, y) => ~Smaller(y, x))
<1>1. PICK a \in Positive, b \in Positive : x = <<a, b>>
  OBVIOUS
<1>2. PICK c \in Positive, d \in Positive : y = <<c, d>>
  OBVIOUS
<1>3. a * d \in Nat /\ c * b \in Nat /\ a * b \in Nat
  BY DEF Positive
<1> QED BY <1>1, <1>2, <1>3 DEF Smaller

\* Place i holds the first of the largest of the first k magnitudes.
FirstLargest(M, k, i) ==
    /\ i \in 1 .. k
    /\ \A j \in 1 .. k : ~Smaller(M[i], M[j])
    /\ \A j \in 1 .. i - 1 : Smaller(M[j], M[i])

\* A list of magnitudes has a first largest.
LEMMA LargestExists ==
    ASSUME NEW n \in Positive, NEW M \in [1 .. n -> Positive \X Positive]
    PROVE  \E i : FirstLargest(M, n, i)
<1> DEFINE T == {k \in 0 .. n : k = 0 \/ \E i : FirstLargest(M, k, i)}
<1>0. n \in Nat /\ n >= 1
  BY DEF Positive
<1>1. 0 \in T
  BY <1>0
<1>2. ASSUME NEW k \in 1 .. n, k - 1 \in T PROVE k \in T
  <2>1. \A x \in Positive \X Positive : ~Smaller(x, x)
    BY SmallerIsStrict
  <2>2. CASE k = 1
    <3>1. FirstLargest(M, k, 1)
      BY <2>1, <2>2 DEF FirstLargest
    <3> QED BY <1>0, <3>1
  <2>3. CASE k # 1
    <3>1. PICK i : FirstLargest(M, k - 1, i)
      BY <1>2, <2>3
    <3>2. i \in 1 .. (k - 1) /\ i \in 1 .. n /\ k - 1 \in Nat
      BY <1>0, <3>1 DEF FirstLargest
    <3>3. CASE Smaller(M[i], M[k])
      <4>1. ASSUME NEW j \in 1 .. (k - 1) PROVE Smaller(M[j], M[k])
        <5>1. ~Smaller(M[i], M[j]) /\ j \in 1 .. n
          BY <1>0, <3>1, <3>2 DEF FirstLargest
        <5> QED BY <3>2, <3>3, <5>1, SmallerPasses
      <4>2. \A j \in 1 .. k : ~Smaller(M[k], M[j])
        <5>1. \A j \in 1 .. k : j = k \/ j \in 1 .. (k - 1)
          BY <1>0
        <5>2. \A j \in 1 .. (k - 1) : j \in 1 .. n
          BY <1>0
        <5> QED BY <2>1, <4>1, <5>1, <5>2, SmallerIsStrict
      <4>3. FirstLargest(M, k, k)
        BY <4>1, <4>2 DEF FirstLargest
      <4> QED BY <1>0, <4>3
    <3>4. CASE ~Smaller(M[i], M[k])
      <4>1. \A j \in 1 .. k : j = k \/ j \in 1 .. (k - 1)
        BY <1>0
      <4>2. i \in 1 .. k
        BY <3>2
      <4>3. FirstLargest(M, k, i)
        BY <3>1, <3>4, <4>1, <4>2 DEF FirstLargest
      <4> QED BY <1>0, <4>3
    <3> QED BY <3>3, <3>4
  <2> QED BY <2>2, <2>3
<1> HIDE DEF T
<1>3. 0 .. n \subseteq T
  BY <1>0, <1>1, <1>2, Climb
<1>4. n \in T
  BY <1>0, <1>3
<1> QED BY <1>0, <1>4 DEF T

\* The largest concession is one, and none is larger.
LEMMA LargestIsLargest ==
    ASSUME NEW given, NEW n \in Positive, DOMAIN given = 1 .. n,
           \A k \in 1 .. n : given[k].amount \in Positive /\ given[k].previous \in Positive
    PROVE  /\ Largest(given) \in 1 .. n
           /\ \A k \in 1 .. n :
                ~Smaller(Magnitude(given[Largest(given)]), Magnitude(given[k]))
<1> DEFINE M == [k \in 1 .. n |-> Magnitude(given[k])]
<1>1. M \in [1 .. n -> Positive \X Positive]
  BY DEF Magnitude
<1>2. PICK i : FirstLargest(M, n, i)
  <2> HIDE DEF M
  <2> QED BY <1>1, LargestExists
<1>3. i \in 1 .. n /\ n \in Nat
  BY <1>2 DEF FirstLargest, Positive
<1>4. /\ \A j \in DOMAIN given : ~Smaller(Magnitude(given[i]), Magnitude(given[j]))
      /\ \A j \in 1 .. i - 1 : Smaller(Magnitude(given[j]), Magnitude(given[i]))
  <2>1. \A j \in 1 .. i - 1 : j \in 1 .. n
    BY <1>3
  <2> QED BY <1>2, <1>3, <2>1 DEF FirstLargest
<1>5. i \in DOMAIN given
  BY <1>3
<1>6. /\ Largest(given) \in DOMAIN given
      /\ \A j \in DOMAIN given :
           ~Smaller(Magnitude(given[Largest(given)]), Magnitude(given[j]))
  BY <1>4, <1>5 DEF Largest
<1> QED BY <1>6

-----------------------------------------------------------------------------
(* The review: what its observations point at                              *)

\* The events shown on the timeline.
Steps(ev) == {i \in 1 .. Len(ev) : ev[i].type \in TimelineTypes}

\* The list refs names only events in R; so does observation o; the moves are
\* offers in R.
Names(refs, R) == \A k \in DOMAIN refs : refs[k] \in R
Grounded(o, R) == Names(o.refs, R)
MovesAmong(moves, R) == (\E X : moves \in Seq(X)) /\ \A k \in 1 .. Len(moves) : moves[k].seq \in R

LEMMA WhenIs ==
    ASSUME NEW condition, NEW x, NEW o \in When(condition, x)
    PROVE  condition /\ o = x
BY DEF When

\* The first event of the given types.
LEMMA FirstAtIs ==
    ASSUME NEW ev, Len(ev) \in Nat, NEW types
    PROVE  \/ FirstAt(ev, types) = 0 /\ \A i \in 1 .. Len(ev) : ev[i].type \notin types
           \/ /\ FirstAt(ev, types) \in 1 .. Len(ev) /\ ev[FirstAt(ev, types)].type \in types
              /\ \A i \in 1 .. Len(ev) : ev[i].type \in types => FirstAt(ev, types) <= i
<1> DEFINE I == {i \in 1 .. Len(ev) : ev[i].type \in types}
<1>1. FirstAt(ev, types) = IF I # {} THEN Min(I) ELSE 0
  BY DEF FirstAt, SelectInSeq
<1>2. CASE I = {}
  BY <1>1, <1>2
<1>3. CASE I # {}
  <2>1. I \subseteq 1 .. Len(ev)
    OBVIOUS
  <2>2. Min(I) \in I /\ \A i \in I : Min(I) <= i
    <3> HIDE DEF I
    <3> QED BY <1>3, <2>1, Extremes
  <2> QED BY <1>1, <1>3, <2>2
<1> QED BY <1>2, <1>3

\* The events that end a match are on the timeline.
LEMMA TerminalRefsNamed ==
    ASSUME NEW ev, Len(ev) \in Nat
    PROVE  Names(TerminalRefs(ev), Steps(ev))
<1> DEFINE k == FirstAt(ev, Decisive)
<1>1. Decisive \subseteq TimelineTypes
  BY DEF Decisive, TimelineTypes
<1>2. k = 0 \/ k \in Steps(ev)
  BY <1>1, FirstAtIs DEF Steps
<1> QED BY <1>2 DEF TerminalRefs, Names

LEMMA RefsNamed ==
    ASSUME NEW moves, NEW R, MovesAmong(moves, R)
    PROVE  Names(Refs(moves), R)
<1>1. DOMAIN moves = 1 .. Len(moves)
  BY DEF MovesAmong
<1> QED BY <1>1 DEF MovesAmong, Refs, Names

LEMMA FilteredAmong ==
    ASSUME NEW moves, NEW R, MovesAmong(moves, R), NEW T
    PROVE  MovesAmong(Among(moves, T), R)
<1> DEFINE a == Among(moves, T)
<1>1. PICK X : moves \in Seq(X)
  BY DEF MovesAmong
<1>2. a \in Seq(X) /\ DOMAIN a = 1 .. Len(a)
      /\ \A k \in DOMAIN a : \E i \in DOMAIN moves : a[k] = moves[i]
  BY <1>1, FilterKeeps
<1>3. DOMAIN moves = 1 .. Len(moves)
  BY <1>1
<1> HIDE DEF a
<1>4. \A k \in 1 .. Len(a) : a[k].seq \in R
  BY <1>2, <1>3 DEF MovesAmong
<1> QED BY <1>2, <1>4 DEF MovesAmong, a

\* The quick concessions are concessions.
LEMMA FastNamed ==
    ASSUME NEW given, NEW R, MovesAmong(given, R)
    PROVE  Names(FastAfterResistance(given), R)
<1> DEFINE n == Len(given)
           T == {i \in ToSet([i \in 1 .. n |-> i]) :
                   /\ i > 1 /\ given[i].unreciprocated /\ given[i - 1].unreciprocated
                   /\ given[i].active <= FastResistance}
           hits == Among([i \in 1 .. n |-> i], T)
<1>1. n \in Nat /\ DOMAIN given = 1 .. n
  BY DEF MovesAmong
<1>2. FastAfterResistance(given) = [k \in DOMAIN hits |-> given[hits[k]].seq]
  BY <1>1 DEF FastAfterResistance, Filter
<1> HIDE DEF T, n
<1>3. hits \in Seq(1 .. n) /\ DOMAIN hits = 1 .. Len(hits)
  BY <1>1, FilterCounts
<1> DEFINE P == 1 .. n
<1> HIDE DEF hits, P
<1>4. \A k \in DOMAIN hits : hits[k] \in P
  <2>1. hits \in Seq(P)
    BY <1>3 DEF P
  <2> QED BY <2>1
<1> QED BY <1>2, <1>4 DEF MovesAmong, Names, n, P

\* One step of longestUnilateralRun.
RunRead(s, c) ==
    LET run == IF c.unreciprocated THEN Append(s.run, c.seq) ELSE <<>>
    IN  [run |-> run, best |-> IF Len(run) > Len(s.best) THEN run ELSE s.best]

\* The longest run is one of concessions: by the same recursion as Among.
LEMMA RunNamed ==
    ASSUME NEW given, NEW R, MovesAmong(given, R)
    PROVE  Names(LongestUnilateralRun(given), R)
<1> DEFINE n == Len(given)
           S == [run : Seq(R), best : Seq(R)]
           b == [run |-> <<>>, best |-> <<>>]
           F == [i \in 1 .. n |-> [x \in S |-> RunRead(x, given[i])]]
           it == CHOOSE g : g = [t \in SUBSET (DOMAIN given) |->
                     IF t = {} THEN b ELSE RunRead(g[t \ {Max(t)}], given[Max(t)])]
<1>1. n \in Nat /\ DOMAIN given = 1 .. n
  BY DEF MovesAmong
<1>2. b \in S
  OBVIOUS
<1>3. F \in [1 .. n -> [S -> S]]
  <2>1. ASSUME NEW i \in 1 .. n, NEW x \in S PROVE RunRead(x, given[i]) \in S
    <3>1. given[i].seq \in R /\ x.run \in Seq(R) /\ x.best \in Seq(R)
      BY DEF MovesAmong
    <3>2. Append(x.run, given[i].seq) \in Seq(R) /\ <<>> \in Seq(R)
      BY <3>1
    <3> QED BY <3>1, <3>2 DEF RunRead
  <2> HIDE DEF S
  <2> QED BY <2>1
<1>4. PICK g \in [SUBSET (1 .. n) -> S] : \A t \in SUBSET (1 .. n) :
          g[t] = IF t = {} THEN b ELSE F[Max(t)][g[t \ {Max(t)}]]
  <2> HIDE DEF F, S, n, it, b
  <2>1. \E g : FoldSolution(n, S, b, F, g)
    BY <1>1, <1>2, <1>3, FoldExists
  <2> QED BY <2>1 DEF FoldSolution
<1> HIDE DEF S, b
<1>5. ASSUME NEW t \in SUBSET (1 .. n), t # {}
      PROVE  F[Max(t)][g[t \ {Max(t)}]] = RunRead(g[t \ {Max(t)}], given[Max(t)])
  <2>1. Max(t) \in 1 .. n
    BY <1>1, <1>5, Extremes
  <2>2. g[t \ {Max(t)}] \in S
    OBVIOUS
  <2> QED BY <2>1, <2>2
<1> HIDE DEF F, n
<1>6. g = [t \in SUBSET (DOMAIN given) |->
              IF t = {} THEN b ELSE RunRead(g[t \ {Max(t)}], given[Max(t)])]
  BY <1>1, <1>4, <1>5
<1>7. it = [t \in SUBSET (DOMAIN given) |->
               IF t = {} THEN b ELSE RunRead(it[t \ {Max(t)}], given[Max(t)])]
  BY <1>6
<1>8. LongestUnilateralRun(given) = it[DOMAIN given].best
  BY DEF LongestUnilateralRun, FoldLeft, MapThenFoldSet, RunRead, b
<1> HIDE DEF it
<1> DEFINE T == {i \in 0 .. n : it[1 .. i] \in S}
<1>9. 0 \in T
  BY <1>1, <1>2, <1>7
<1>10. ASSUME NEW i \in 1 .. n, i - 1 \in T PROVE i \in T
  <2>0. n \in Nat /\ i \in 1 .. i
    BY <1>1
  <2>1. 1 .. i # {}
    BY <2>0
  <2>2. Max(1 .. i) = i /\ (1 .. i) \ {i} = 1 .. (i - 1)
    BY <2>0, LastOfSegment
  <2>3. 1 .. i \in SUBSET (DOMAIN given)
    BY <1>1
  <2>4. it[1 .. i] = RunRead(it[1 .. (i - 1)], given[i])
    BY <1>7, <2>1, <2>2, <2>3
  <2> DEFINE x == it[1 .. (i - 1)]
  <2>5. x \in S
    BY <1>10
  <2> HIDE DEF x
  <2>6. given[i].seq \in R /\ x.run \in Seq(R) /\ x.best \in Seq(R)
    BY <2>5 DEF MovesAmong, S, n
  <2>7. RunRead(x, given[i]) \in S
    <3>1. Append(x.run, given[i].seq) \in Seq(R) /\ <<>> \in Seq(R)
      BY <2>6
    <3> QED BY <2>6, <3>1 DEF RunRead, S
  <2>8. i \in 0 .. n
    BY <2>0
  <2> QED BY <2>4, <2>7, <2>8 DEF x
<1> HIDE DEF T
<1>11. 0 .. n \subseteq T
  BY <1>1, <1>9, <1>10, Climb
<1>12. it[1 .. n] \in S
  <2>1. n \in 0 .. n
    BY <1>1
  <2> QED BY <1>11, <2>1 DEF T
<1>13. LongestUnilateralRun(given) \in Seq(R)
  BY <1>1, <1>8, <1>12 DEF S
<1> QED BY <1>13 DEF Names

\* The moves are offers on the timeline, for positive amounts.
LEMMA MovesGrounded ==
    ASSUME NEW ev, TypedStream(ev), NEW p \in Player
    PROVE  LET moves == ClassifyMoves(ev, p)
               given == Concessions(moves)
           IN  /\ MovesAmong(moves, Steps(ev)) /\ MovesAmong(given, Steps(ev))
               /\ \A k \in 1 .. Len(moves) : moves[k].amount \in Positive
<1> DEFINE moves == ClassifyMoves(ev, p)
           given == Concessions(moves)
<1>1. moves \in Seq(MovesIn(ev, p)) /\ OffersOfPlayer(ev, p, Len(ev), moves)
  BY MovesAreOffers
<1>2. \E T : given = Among(moves, T)
  BY DEF Concessions, Filter
<1>3. Len(ev) \in Nat /\ \A i : i \in 1 .. Len(ev) => i \in DOMAIN ev
  BY DEF TypedStream
<1> HIDE DEF moves, given
<1>4. ASSUME NEW k \in 1 .. Len(moves)
      PROVE  moves[k].seq \in Steps(ev) /\ moves[k].amount \in Positive
  <2>1. /\ moves[k].seq \in 1 .. Len(ev) /\ BidAt(ev, p, moves[k].seq)
        /\ moves[k].amount = ev[moves[k].seq].arg.amount
    BY <1>1 DEF OffersOfPlayer
  <2>2. moves[k].amount \in Amount
    BY <1>3, <2>1 DEF TypedStream, BidAt
  <2>3. Amount \subseteq Positive
    BY ConfigAssumption DEF Amount, Positive
  <2> QED BY <2>1, <2>2, <2>3 DEF BidAt, Steps, TimelineTypes
<1>5. MovesAmong(moves, Steps(ev))
  BY <1>1, <1>4 DEF MovesAmong
<1> QED BY <1>2, <1>4, <1>5, FilteredAmong DEF moves, given

\* When there are concessions, one of them is the largest.
LEMMA LargestGiven ==
    ASSUME NEW ev, TypedStream(ev), NEW p \in Player
    PROVE  LET moves == ClassifyMoves(ev, p)
               given == Concessions(moves)
               i == Largest(given)
           IN  given # <<>> =>
                   /\ i \in 1 .. Len(given)
                   /\ \A k \in 1 .. Len(given) :
                        /\ ~Smaller(Magnitude(given[i]), Magnitude(given[k]))
                        /\ given[k].amount = moves[k + 1].amount
                        /\ given[k].previous = moves[k].amount
                        /\ k \in 1 .. Len(moves) /\ k + 1 \in 1 .. Len(moves)
<1> DEFINE moves == ClassifyMoves(ev, p)
           given == Concessions(moves)
           n == Len(given)
<1>1. moves \in Seq(MovesIn(ev, p)) /\ OffersOfPlayer(ev, p, Len(ev), moves)
  BY MovesAreOffers
<1>2. /\ given \in Seq(MovesIn(ev, p))
      /\ n = IF Len(moves) = 0 THEN 0 ELSE Len(moves) - 1
      /\ \A k \in 1 .. n : given[k] = moves[k + 1]
  BY ConcessionsAreLater
<1>3. \A k \in 1 .. Len(moves) : moves[k].amount \in Positive
  BY MovesGrounded
<1> HIDE DEF moves, given
<1> SUFFICES ASSUME given # <<>>
             PROVE  /\ Largest(given) \in 1 .. n
                    /\ \A k \in 1 .. n :
                         /\ ~Smaller(Magnitude(given[Largest(given)]), Magnitude(given[k]))
                         /\ given[k].amount = moves[k + 1].amount
                         /\ given[k].previous = moves[k].amount
                         /\ k \in 1 .. Len(moves) /\ k + 1 \in 1 .. Len(moves)
  BY DEF moves, given
<1>4. n \in Positive /\ DOMAIN given = 1 .. n
  BY <1>2 DEF Positive
<1>5. Len(moves) \in Nat
  BY <1>1
<1> HIDE DEF n
<1>6. ASSUME NEW k \in 1 .. n
      PROVE  /\ given[k].amount = moves[k + 1].amount /\ given[k].previous = moves[k].amount
             /\ k \in 1 .. Len(moves) /\ k + 1 \in 1 .. Len(moves)
  <2>1. k \in 1 .. Len(moves) /\ k + 1 \in 1 .. Len(moves) /\ k + 1 # 1 /\ (k + 1) - 1 = k
    BY <1>2, <1>4, <1>5 DEF Positive
  <2>2. moves[k + 1].previous = moves[k].amount
    BY <1>1, <2>1 DEF OffersOfPlayer
  <2> QED BY <1>2, <2>1, <2>2
<1>7. \A k \in 1 .. n : given[k].amount \in Positive /\ given[k].previous \in Positive
  BY <1>3, <1>6
<1> QED BY <1>4, <1>6, <1>7, LargestIsLargest

\* What is said of concessions names concessions, and the largest is the move it
\* points at.
LEMMA ConcessionsGrounded ==
    ASSUME NEW ev, TypedStream(ev), NEW p \in Player,
           NEW o \in ConcessionObservations(ClassifyMoves(ev, p))
    PROVE  LET given == Concessions(ClassifyMoves(ev, p)) IN
           /\ Grounded(o, Steps(ev))
           /\ o.type = "LARGEST_CONCESSION" =>
                /\ given # <<>>
                /\ o.n = Largest(given) + 1 /\ o.refs = <<given[Largest(given)].seq>>
<1> DEFINE moves == ClassifyMoves(ev, p)
           given == Concessions(moves)
           R == Steps(ev)
           T == {c \in ToSet(given) : c.unreciprocated}
           held == Among(given, T)
           run == LongestUnilateralRun(given)
           fast == FastAfterResistance(given)
           largest == <<given[Largest(given)].seq>>
           turn == LargestConcessionTurn(given)
           Good(x) == /\ Grounded(x, R)
                      /\ x.type = "LARGEST_CONCESSION" =>
                           given # <<>> /\ x.n = Largest(given) + 1 /\ x.refs = largest
<1>1. MovesAmong(moves, R) /\ MovesAmong(given, R)
  BY MovesGrounded
<1>2. given # <<>> => Names(largest, R)
  <2>1. given # <<>> => Largest(given) \in 1 .. Len(given)
    BY LargestGiven
  <2> HIDE DEF given, R
  <2> QED BY <1>1, <2>1 DEF MovesAmong, Names
<1>3. turn = Largest(given) + 1
  BY DEF LargestConcessionTurn
<1>4. \/ o = Obs("UNRECIPROCATED_CONCESSION", Len(held), Refs(held))
      \/ o = Obs("CONSECUTIVE_UNILATERAL_CONCESSIONS", Len(run), run)
      \/ given # <<>> /\ o = Obs("LARGEST_CONCESSION", turn, largest)
      \/ Len(given) >= 2 /\ o = Obs("LATE_LARGE_CONCESSION", turn, largest)
      \/ o = Obs("DECLINING_CONCESSIONS", None, Refs(moves))
      \/ o = Obs("INCREASING_CONCESSIONS", None, Refs(moves))
      \/ o = Obs("FAST_CONCESSION_AFTER_RESISTANCE", Len(fast), fast)
  BY DEF ConcessionObservations, Filter, When
<1>5. Names(Refs(held), R) /\ Names(Refs(moves), R) /\ Names(run, R) /\ Names(fast, R)
  <2> HIDE DEF moves, given, R, T, held, run, fast
  <2>1. MovesAmong(held, R)
    BY <1>1, FilteredAmong DEF held
  <2> QED BY <1>1, <2>1, RefsNamed, RunNamed, FastNamed DEF run, fast
<1>6. Len(given) >= 2 => given # <<>>
  OBVIOUS
<1> HIDE DEF moves, given, R, T, held, run, fast, largest, turn
<1>7. Good(o)
  BY <1>2, <1>3, <1>4, <1>5, <1>6 DEF Obs, Grounded
<1> QED BY <1>7 DEF moves, given, R, largest

\* The rest of what is said names steps of the timeline, and is not of the
\* largest concession.
Plain(o, R) == Grounded(o, R) /\ o.type # "LARGEST_CONCESSION"

LEMMA OpeningGrounded ==
    ASSUME NEW m, NEW moves, NEW R, MovesAmong(moves, R), NEW p,
           NEW o \in OpeningObservations(m, moves, p)
    PROVE  Plain(o, R)
<1>1. moves # <<>>
  BY DEF OpeningObservations
<1>2. 1 \in 1 .. Len(moves)
  BY <1>1 DEF MovesAmong
<1>3. Names(<<moves[1].seq>>, R)
  BY <1>2 DEF MovesAmong, Names
<1> DEFINE refs == <<moves[1].seq>>
<1>4. \E c : \/ o \in When(c, Obs("STRONG_OPENING_POSITION", None, refs))
             \/ o \in When(c, Obs("CONSERVATIVE_OPENING", None, refs))
             \/ o \in When(c, Obs("LARGE_OPENING", None, refs))
  BY <1>1 DEF OpeningObservations
<1> HIDE DEF refs
<1> QED BY <1>3, <1>4, WhenIs DEF Obs, Grounded, Plain, refs

LEMMA TimesGrounded ==
    ASSUME NEW m, NEW ev, NEW moves, NEW R, MovesAmong(moves, R), NEW p,
           NEW o \in TimeObservations(m, ev, p, moves)
    PROVE  Plain(o, R)
<1> DEFINE holds == Filter(moves, LAMBDA c : c.active >= LongHold)
<1>1. Names(Refs(holds), R) /\ Names(<<>>, R)
  BY FilteredAmong, RefsNamed DEF Filter, Names
<1>2. \E c : \/ o \in When(c, Obs("LONG_HOLD", Len(holds), Refs(holds)))
             \/ o \in When(c, Obs("TIME_PRESSURE_EXPOSURE", None, <<>>))
  BY DEF TimeObservations
<1> HIDE DEF holds
<1> QED BY <1>1, <1>2, WhenIs DEF Obs, Grounded, Plain

LEMMA ChipsGrounded ==
    ASSUME NEW m, NEW moves, NEW R, MovesAmong(moves, R), NEW p,
           NEW o \in ChipObservations(m, p, moves)
    PROVE  Plain(o, R)
<1>1. Names(Refs(moves), R)
  BY RefsNamed
<1>2. \E c, n : \/ o \in When(c, Obs("HIGH_CHIP_SPEND", n, Refs(moves)))
                \/ o \in When(c, Obs("LOW_CHIP_SPEND", n, Refs(moves)))
  BY DEF ChipObservations
<1> QED BY <1>1, <1>2, WhenIs DEF Obs, Grounded, Plain

LEMMA TalkGrounded ==
    ASSUME NEW ev, NEW moves, NEW R, MovesAmong(moves, R), NEW p,
           NEW o \in TalkObservations(ev, p, moves)
    PROVE  Plain(o, R)
<1> DEFINE pitched == Filter(moves, LAMBDA c : c.pitched)
<1>1. Names(Refs(moves), R) /\ Names(Refs(pitched), R)
  BY FilteredAmong, RefsNamed DEF Filter
<1>2. \E c : \/ o \in When(c, Obs("SILENT_NEGOTIATION", Len(moves), Refs(moves)))
             \/ o \in When(c, Obs("OFFER_WITH_PITCH", Len(pitched), Refs(pitched)))
  BY DEF TalkObservations
<1> HIDE DEF pitched
<1> QED BY <1>1, <1>2, WhenIs DEF Obs, Grounded, Plain

LEMMA DealGrounded ==
    ASSUME NEW m, NEW ev, Len(ev) \in Nat, NEW moves, NEW p,
           NEW o \in DealObservations(m, ev, p, moves)
    PROVE  Plain(o, Steps(ev))
<1> DEFINE refs == TerminalRefs(ev)
<1>1. Names(refs, Steps(ev))
  BY TerminalRefsNamed
<1>2. \E c, n : \/ o \in When(c, Obs("EFFICIENT_CLOSE", n, refs))
                \/ o \in When(c, Obs("DEAL_NEAR_OWN_LIMIT", n, refs))
                \/ o \in When(c, Obs("DEAL_NEAR_OPPONENT_LIMIT", n, refs))
                \/ o \in When(c, Obs("STRONG_SURPLUS_CAPTURE", n, refs))
                \/ o \in When(c, Obs("LOW_SURPLUS_CAPTURE", n, refs))
                \/ o \in When(c, Obs("FAST_CLOSE", n, refs))
  BY DEF DealObservations
<1> HIDE DEF refs
<1> QED BY <1>1, <1>2, WhenIs DEF Obs, Grounded, Plain

LEMMA NoDealGrounded ==
    ASSUME NEW m, NEW ev, NEW X, ev \in Seq(X), NEW p,
           NEW o \in NoDealObservations(m, ev, p)
    PROVE  Plain(o, Steps(ev))
<1> DEFINE refs == TerminalRefs(ev)
           N == Len(ev)
           T == {i \in ToSet([i \in 1 .. N |-> i]) : ev[i].type = "OFFER_SUBMITTED"}
           offers == Among([i \in 1 .. N |-> i], T)
           l == Len(offers)
           tail == SubSeq(offers, l - 1, l)
<1>0. N \in Nat /\ DOMAIN ev = 1 .. N
  OBVIOUS
<1>1. refs \in Seq(Steps(ev))
  <2>1. Decisive \subseteq TimelineTypes
    BY DEF Decisive, TimelineTypes
  <2>2. FirstAt(ev, Decisive) = 0 \/ FirstAt(ev, Decisive) \in Steps(ev)
    BY <1>0, <2>1, FirstAtIs DEF Steps
  <2> QED BY <2>2 DEF TerminalRefs
<1>2. /\ offers \in Seq(1 .. N) /\ l \in Nat
      /\ \A k \in 1 .. l : offers[k] \in 1 .. N /\ offers[k] \in T
  <2> HIDE DEF T, N
  <2>1. /\ offers \in Seq(1 .. N) /\ l \in Nat /\ DOMAIN offers = 1 .. l
        /\ \A k \in DOMAIN offers : offers[k] \in T
    BY <1>0, FilterCounts
  <2> DEFINE P == 1 .. N
  <2> HIDE DEF P, offers
  <2>2. \A k \in 1 .. l : offers[k] \in P
    <3>1. offers \in Seq(P)
      BY <2>1 DEF P
    <3> QED BY <3>1
  <2> QED BY <2>1, <2>2 DEF P
<1>3. \A k \in 1 .. l : offers[k] \in Steps(ev)
  BY <1>2 DEF Steps, TimelineTypes
<1>4. PICK n :
          \/ o = Obs("MISSED_STANDING_OFFER", n, refs)
          \/ o = Obs("FAILED_POSITIVE_ZOPA", n, refs)
          \/ l >= 4 /\ o = Obs("DEADLOCK", n, tail \o refs)
          \/ o = Obs("TIMEOUT", n, refs)
  <2>1. offers = Filter([i \in DOMAIN ev |-> i], LAMBDA i : ev[i].type = "OFFER_SUBMITTED")
    BY <1>0 DEF Filter
  <2> HIDE DEF offers, l
  <2> QED BY <2>1 DEF NoDealObservations, When, l
<1> HIDE DEF refs, T, N, offers
<1>5. l >= 4 => tail \o refs \in Seq(Steps(ev))
  <2> HIDE DEF l
  <2>1. ASSUME l >= 4 PROVE tail \in Seq(Steps(ev))
    <3>1. l - 1 \in Int /\ l \in Int /\ \A k \in l - 1 .. l : offers[k] \in Steps(ev)
      BY <1>2, <1>3, <2>1
    <3> QED BY <3>1, SubSeqProperties
  <2> HIDE DEF tail
  <2> QED BY <1>1, <2>1
<1> DEFINE both == tail \o refs
<1> HIDE DEF l, tail
<1>6. Names(refs, Steps(ev)) /\ (l >= 4 => Names(both, Steps(ev)))
  BY <1>1, <1>5 DEF Names
<1>7. \/ o = Obs("MISSED_STANDING_OFFER", n, refs)
      \/ o = Obs("FAILED_POSITIVE_ZOPA", n, refs)
      \/ l >= 4 /\ o = Obs("DEADLOCK", n, both)
      \/ o = Obs("TIMEOUT", n, refs)
  BY <1>4
<1> HIDE DEF both
<1> QED BY <1>6, <1>7 DEF Obs, Grounded, Plain

\* So it is with every observation.
LEMMA ObservationsGrounded ==
    ASSUME NEW m, NEW ev, TypedStream(ev), NEW p \in Player,
           NEW o \in DetectObservations(m, ev, p)
    PROVE  LET given == Concessions(ClassifyMoves(ev, p)) IN
           /\ Grounded(o, Steps(ev))
           /\ o.type = "LARGEST_CONCESSION" =>
                /\ given # <<>>
                /\ o.n = Largest(given) + 1 /\ o.refs = <<given[Largest(given)].seq>>
<1> DEFINE moves == ClassifyMoves(ev, p)
<1>1. MovesAmong(moves, Steps(ev))
  BY MovesGrounded
<1>2. PICK X : ev \in Seq(X)
  BY DEF TypedStream
<1>3. Len(ev) \in Nat
  BY <1>2
<1>4. \/ o \in OpeningObservations(m, moves, p)
      \/ o \in ConcessionObservations(moves)
      \/ o \in TimeObservations(m, ev, p, moves)
      \/ o \in ChipObservations(m, p, moves)
      \/ o \in DealObservations(m, ev, p, moves)
      \/ o \in NoDealObservations(m, ev, p)
      \/ o \in TalkObservations(ev, p, moves)
  BY DEF DetectObservations
<1>5. CASE o \in ConcessionObservations(moves)
  BY <1>5, ConcessionsGrounded
<1>6. CASE o \notin ConcessionObservations(moves)
  <2> HIDE DEF moves
  <2>1. Plain(o, Steps(ev))
    BY <1>1, <1>2, <1>3, <1>4, <1>6, OpeningGrounded, TimesGrounded, ChipsGrounded,
       DealGrounded, NoDealGrounded, TalkGrounded
  <2> QED BY <2>1 DEF Plain
<1> QED BY <1>5, <1>6

\* An offer of the buyer is higher than the one before it, of the seller lower.
LEMMA MovesConcede ==
    ASSUME NEW ev, TypedStream(ev), BidsConcede(ev), NEW p \in Player,
           NEW k \in 1 .. Len(ClassifyMoves(ev, p)), k + 1 \in 1 .. Len(ClassifyMoves(ev, p))
    PROVE  LET moves == ClassifyMoves(ev, p) IN
           IF p = "BUYER" THEN moves[k + 1].amount > moves[k].amount
           ELSE moves[k + 1].amount < moves[k].amount
<1> DEFINE moves == ClassifyMoves(ev, p)
           i == moves[k].seq
           j == moves[k + 1].seq
<1>1. moves \in Seq(MovesIn(ev, p)) /\ OffersOfPlayer(ev, p, Len(ev), moves)
  BY MovesAreOffers
<1> HIDE DEF moves
<1>2. k \in 1 .. Len(moves) /\ k + 1 \in 1 .. Len(moves) /\ k < k + 1
  BY DEF moves
<1>3. /\ i \in 1 .. Len(ev) /\ j \in 1 .. Len(ev) /\ i < j /\ BidAt(ev, p, i) /\ BidAt(ev, p, j)
      /\ moves[k].amount = ev[i].arg.amount /\ moves[k + 1].amount = ev[j].arg.amount
  BY <1>1, <1>2 DEF OffersOfPlayer
<1> HIDE DEF i, j
<1>4. i \in DOMAIN ev /\ j \in DOMAIN ev
  BY <1>3 DEF TypedStream
<1>5. TowardOpponent(p, ev[i].arg.amount, ev[j].arg.amount)
      /\ ev[i].arg.amount \in Int /\ ev[j].arg.amount \in Int
  BY <1>3, <1>4, AmountsAreIntegers DEF BidsConcede, TypedStream, BidAt
<1>6. IF p = "BUYER" THEN moves[k + 1].amount > moves[k].amount
      ELSE moves[k + 1].amount < moves[k].amount
  BY <1>3, <1>5 DEF TowardOpponent
<1> QED BY <1>6 DEF moves

\* Of two concessions of a player the one that is not smaller is the larger in ratio.
LEMMA RatiosCompare ==
    ASSUME NEW a \in Positive, NEW b \in Positive, NEW c \in Positive, NEW d \in Positive,
           NEW x, NEW y, NEW up \in BOOLEAN,
           x.amount = a, x.previous = b, y.amount = c, y.previous = d,
           IF up THEN a > b /\ c > d ELSE a < b /\ c < d,
           ~Smaller(Magnitude(x), Magnitude(y))
    PROVE  IF up THEN c * b <= a * d ELSE c * b >= a * d
<1>1. /\ a \in Nat /\ b \in Nat /\ c \in Nat /\ d \in Nat
      /\ c * b \in Nat /\ a * d \in Nat /\ b * c = c * b /\ d * a = a * d
  BY DEF Positive
<1>2. CASE up
  <2>1. Magnitude(x) = <<a, b>> /\ Magnitude(y) = <<c, d>>
    BY <1>1, <1>2 DEF Magnitude
  <2>2. ~(a * d < c * b)
    BY <2>1 DEF Smaller
  <2> QED BY <1>1, <1>2, <2>2
<1>3. CASE ~up
  <2>1. Magnitude(x) = <<b, a>> /\ Magnitude(y) = <<d, c>>
    BY <1>1, <1>3 DEF Magnitude
  <2>2. ~(b * c < d * a)
    BY <2>1 DEF Smaller
  <2> QED BY <1>1, <1>3, <2>2
<1> QED BY <1>2, <1>3

LEMMA LargestIsNamed ==
    ASSUME NEW m, NEW ev, TypedStream(ev), BidsConcede(ev), NEW p \in Player,
           NEW T, \A i \in 1 .. Len(ev) : i \in T <=> BidAt(ev, p, i),
           NEW o \in DetectObservations(m, ev, p), o.type = "LARGEST_CONCESSION"
    PROVE  LET mine == Among([k \in 1 .. Len(ev) |-> k], T)
               Amt(i) == ev[mine[i]].arg.amount
           IN  /\ mine[o.n] = o.refs[1]
               /\ \A i \in 2 .. Len(mine) :
                    IF p = "BUYER" THEN Amt(i) * Amt(o.n - 1) <= Amt(o.n) * Amt(i - 1)
                    ELSE Amt(i) * Amt(o.n - 1) >= Amt(o.n) * Amt(i - 1)
<1> DEFINE mine == Among([k \in 1 .. Len(ev) |-> k], T)
           Amt(i) == ev[mine[i]].arg.amount
           moves == ClassifyMoves(ev, p)
           given == Concessions(moves)
           l == Largest(given)
           n == Len(moves)
<1>1. /\ Len(mine) = n /\ n \in Nat /\ \A k \in 1 .. n : mine[k] = moves[k].seq
  BY OffersAreMoves
<1>2. given # <<>> /\ o.n = l + 1 /\ o.refs = <<given[l].seq>>
  BY ObservationsGrounded
<1>3. /\ l \in 1 .. Len(given)
      /\ \A k \in 1 .. Len(given) :
           /\ ~Smaller(Magnitude(given[l]), Magnitude(given[k]))
           /\ given[k].amount = moves[k + 1].amount /\ given[k].previous = moves[k].amount
           /\ k \in 1 .. n /\ k + 1 \in 1 .. n
  BY <1>2, LargestGiven
<1>4. /\ Len(given) = IF n = 0 THEN 0 ELSE n - 1
      /\ \A k \in 1 .. Len(given) : given[k] = moves[k + 1]
  BY ConcessionsAreLater
<1>5. \A k \in 1 .. n : moves[k].amount \in Positive
  BY MovesGrounded
<1>6. OffersOfPlayer(ev, p, Len(ev), moves)
  BY MovesAreOffers
<1>7. ASSUME NEW k \in 1 .. n, k + 1 \in 1 .. n
      PROVE  IF p = "BUYER" THEN moves[k + 1].amount > moves[k].amount
             ELSE moves[k + 1].amount < moves[k].amount
  BY <1>7, MovesConcede
<1> HIDE DEF mine, moves, given, l
<1>8. \A k \in 1 .. n : Amt(k) = moves[k].amount
  BY <1>1, <1>6 DEF OffersOfPlayer
<1> HIDE DEF n
<1>9. mine[o.n] = o.refs[1]
  BY <1>1, <1>2, <1>3, <1>4
<1>10. ASSUME NEW i \in 2 .. n
       PROVE  IF p = "BUYER" THEN Amt(i) * Amt(o.n - 1) <= Amt(o.n) * Amt(i - 1)
              ELSE Amt(i) * Amt(o.n - 1) >= Amt(o.n) * Amt(i - 1)
  <2> DEFINE k == i - 1
  <2>1. k \in 1 .. Len(given) /\ k + 1 = i /\ i - 1 = k /\ k \in 1 .. n /\ k + 1 \in 1 .. n
    BY <1>1, <1>4
  <2>2. o.n = l + 1 /\ o.n - 1 = l /\ l \in 1 .. n /\ l + 1 \in 1 .. n
    BY <1>2, <1>3, <1>1, <1>4
  <2> HIDE DEF k
  <2> DEFINE a == moves[l + 1].amount
             b == moves[l].amount
             c == moves[k + 1].amount
             d == moves[k].amount
             up == p = "BUYER"
  <2>3. a \in Positive /\ b \in Positive /\ c \in Positive /\ d \in Positive
    BY <1>5, <2>1, <2>2
  <2>4. /\ given[l].amount = a /\ given[l].previous = b
        /\ given[k].amount = c /\ given[k].previous = d
        /\ ~Smaller(Magnitude(given[l]), Magnitude(given[k]))
    BY <1>3, <2>1
  <2>5. IF up THEN a > b /\ c > d ELSE a < b /\ c < d
    BY <1>7, <2>1, <2>2
  <2>6. Amt(i) = c /\ Amt(i - 1) = d /\ Amt(o.n) = a /\ Amt(o.n - 1) = b
    BY <1>8, <2>1, <2>2
  <2>7. up \in BOOLEAN
    OBVIOUS
  <2> HIDE DEF a, b, c, d, up, Amt
  <2>8. IF up THEN c * b <= a * d ELSE c * b >= a * d
    BY <2>3, <2>4, <2>5, <2>7, RatiosCompare
  <2> QED BY <2>6, <2>8 DEF up
<1> QED BY <1>1, <1>9, <1>10 DEF mine

\* The move the review calls the largest concession is the offer it points at,
\* counted among the player's offers from 1, and no other concession of the
\* player is larger in ratio (features.ts:335, 355-356, observations.ts:94-104).
THEOREM LargestConcessionIsLargest == PlaySpec => []LargestConcessionNamed
<1>1. ASSUME PlayInv PROVE LargestConcessionNamed
  <2> SUFFICES ASSUME NEW p \in Player, NEW o \in DetectObservations(match, events, p),
                      o.type = "LARGEST_CONCESSION"
               PROVE  LET mine == Filter([k \in DOMAIN events |-> k], LAMBDA k : OfferBy(p, k))
                          Amt(i) == events[mine[i]].arg.amount
                      IN  /\ mine[o.n] = o.refs[1]
                          /\ \A i \in 2 .. Len(mine) :
                               IF p = "BUYER" THEN Amt(i) * Amt(o.n - 1) <= Amt(o.n) * Amt(i - 1)
                               ELSE Amt(i) * Amt(o.n - 1) >= Amt(o.n) * Amt(i - 1)
    BY DEF LargestConcessionNamed
  <2> DEFINE T == {k \in ToSet([k \in 1 .. Len(events) |-> k]) : OfferBy(p, k)}
             mine == Among([k \in 1 .. Len(events) |-> k], T)
             Amt(i) == events[mine[i]].arg.amount
  <2>1. TypedStream(events) /\ BidsConcede(events)
    BY <1>1 DEF PlayInv, StreamInv
  <2>2. DOMAIN events = 1 .. Len(events)
    BY <2>1 DEF TypedStream
  <2>3. \A i \in 1 .. Len(events) : i \in T <=> BidAt(events, p, i)
    <3>1. ToSet([k \in 1 .. Len(events) |-> k]) = 1 .. Len(events)
      BY DEF ToSet
    <3> QED BY <3>1 DEF OfferBy, BidAt
  <2>4. Filter([k \in DOMAIN events |-> k], LAMBDA k : OfferBy(p, k)) = mine
    BY <2>2 DEF Filter
  <2> HIDE DEF T
  <2>5. /\ mine[o.n] = o.refs[1]
        /\ \A i \in 2 .. Len(mine) :
             IF p = "BUYER" THEN Amt(i) * Amt(o.n - 1) <= Amt(o.n) * Amt(i - 1)
             ELSE Amt(i) * Amt(o.n - 1) >= Amt(o.n) * Amt(i - 1)
    BY <2>1, <2>3, LargestIsNamed
  <2> HIDE DEF mine
  <2> QED BY <2>4, <2>5
<1>2. PlayInv => LargestConcessionNamed
  BY <1>1
<1> QED BY <1>2, PlayInvariant, PTL

-----------------------------------------------------------------------------
(* The review: its moments and the timeline                                *)

\* A finished match has a last step: the act that ended it.
LEMMA LastStep ==
    ASSUME NEW m, NEW ev, TypedStream(ev), EndsOnce(m, ev), Terminal(m)
    PROVE  LET k == FirstAt(ev, Decisive \cup {"MATCH_ABORTED"}) IN
           k # 0 /\ k \in Steps(ev) /\ \A i \in Steps(ev) : i <= k
<1> DEFINE k == FirstAt(ev, Decisive \cup {"MATCH_ABORTED"})
<1>1. Len(ev) \in Nat /\ \A i : i \in DOMAIN ev <=> i \in 1 .. Len(ev)
  BY DEF TypedStream
<1>2. PICK e \in 1 .. Len(ev) :
          /\ EndAt(ev, e)
          /\ \A i \in 1 .. Len(ev) : i < e => ~EndAt(ev, i)
          /\ \A i \in 1 .. Len(ev) : i > e => ev[i].type = "MATCH_COMPLETED"
  BY <1>1 DEF EndsOnce
<1>3. /\ k \in 1 .. Len(ev) /\ EndAt(ev, k)
      /\ \A i \in 1 .. Len(ev) : EndAt(ev, i) => k <= i
  BY <1>1, <1>2, FirstAtIs DEF EndAt
<1> HIDE DEF k
<1>4. k = e
  BY <1>1, <1>2, <1>3
<1>5. k \in Steps(ev)
  BY <1>3 DEF Steps, EndAt, Decisive, TimelineTypes
<1>6. \A i \in Steps(ev) : i <= k
  BY <1>1, <1>2, <1>4 DEF Steps, TimelineTypes
<1>7. k # 0
  BY <1>1, <1>3
<1> QED BY <1>5, <1>6, <1>7 DEF k

\* The timeline lists the steps, and the last of them last.
LEMMA TimelineIs ==
    ASSUME NEW ev, TypedStream(ev), NEW k \in Steps(ev), \A i \in Steps(ev) : i <= k
    PROVE  /\ BuildTimeline(ev) # <<>> /\ Last(BuildTimeline(ev)) = k
           /\ \A i \in Steps(ev) : i \in ToSet(BuildTimeline(ev))
<1> DEFINE N == Len(ev)
           T == {i \in ToSet([i \in 1 .. N |-> i]) : ev[i].type \in TimelineTypes}
           steps == Among([i \in 1 .. N |-> i], T)
           l == Len(steps)
<1>1. N \in Nat /\ DOMAIN ev = 1 .. N
  BY DEF TypedStream
<1>2. BuildTimeline(ev) = steps
  BY <1>1 DEF BuildTimeline, Filter
<1>3. T = Steps(ev) /\ T \subseteq 1 .. N
  <2>1. ToSet([i \in 1 .. N |-> i]) = 1 .. N
    BY DEF ToSet
  <2> QED BY <2>1 DEF Steps
<1> HIDE DEF T, N
<1>4. /\ steps \in Seq(1 .. N) /\ l \in 0 .. N /\ DOMAIN steps = 1 .. l
      /\ \A h \in DOMAIN steps : steps[h] \in T
      /\ \A h, j \in DOMAIN steps : h < j => steps[h] < steps[j]
      /\ \A i \in 1 .. N : i \in T => \E h \in DOMAIN steps : steps[h] = i
  BY <1>1, FilterCounts
<1> HIDE DEF steps
<1>5. PICK h \in 1 .. l : steps[h] = k
  BY <1>3, <1>4
<1>6. l \in Nat
  BY <1>1, <1>4
<1>7. h = l
  <2>1. SUFFICES ASSUME h # l PROVE FALSE
    OBVIOUS
  <2>2. l \in 1 .. l /\ h < l
    BY <1>5, <1>6, <2>1
  <2>3. steps[h] < steps[l] /\ steps[l] <= k /\ k \in Int /\ steps[l] \in Int
    BY <1>3, <1>4, <1>5, <2>2
  <2> QED BY <1>5, <2>3
<1>8. steps # <<>> /\ Last(steps) = k
  BY <1>4, <1>5, <1>6, <1>7 DEF Last
<1>9. \A i \in Steps(ev) : i \in ToSet(steps)
  BY <1>3, <1>4 DEF ToSet
<1> QED BY <1>2, <1>8, <1>9

\* The moments beside the RESULT are at most four observations.
LEMMA CuratedAreSeen ==
    ASSUME NEW seen, NEW stated
    PROVE  LET shown == Curated(seen, stated) IN
           /\ \E X : shown \in Seq(X)
           /\ Len(shown) \in 0 .. 4
           /\ \A i \in 1 .. Len(shown) : shown[i] \in seen
<1> DEFINE T == {t \in ToSet(PRIORITY) : t \notin stated /\ \E o \in seen : o.type = t}
           kinds == MomentKinds(seen, stated)
           first == FirstOf(kinds, MOMENT_CAP)
           n == IF Len(kinds) < 5 THEN Len(kinds) ELSE 4
           Shown(i) == CHOOSE o \in seen : o.type = first[i]
           X == {PRIORITY[k] : k \in 1 .. 26}
<1>1. PRIORITY \in Seq(X)
  <2>1. PRIORITY = [k \in 1 .. 26 |-> PRIORITY[k]]
    BY DEF PRIORITY
  <2>2. [k \in 1 .. 26 |-> PRIORITY[k]] \in Seq(X)
    OBVIOUS
  <2> QED BY <2>1, <2>2
<1>2. kinds = Among(PRIORITY, T)
  BY DEF MomentKinds, Filter
<1> HIDE DEF T, kinds, X
<1>3. /\ kinds \in Seq(X) /\ DOMAIN kinds = 1 .. Len(kinds)
      /\ \A k \in DOMAIN kinds : kinds[k] \in T
  BY <1>1, <1>2, FilterKeeps
<1>4. Len(kinds) \in Nat /\ n \in 0 .. 4 /\ n <= Len(kinds)
  BY <1>3
<1>5. first = SubSeq(kinds, 1, n)
  BY DEF FirstOf, MOMENT_CAP
<1> HIDE DEF n, first
<1>6. DOMAIN first = 1 .. n /\ \A i \in 1 .. n : first[i] \in T
  BY <1>3, <1>4, <1>5
<1>7. Curated(seen, stated) = [i \in 1 .. n |-> Shown(i)]
  BY <1>6 DEF Curated, Moments, kinds, first
<1>8. ASSUME NEW i \in 1 .. n PROVE Shown(i) \in seen
  <2>1. \E o \in seen : o.type = first[i]
    BY <1>6 DEF T
  <2> QED BY <2>1
<1> HIDE DEF Shown
<1> DEFINE shown == [i \in 1 .. n |-> Shown(i)]
<1>9. shown \in Seq(seen) /\ Len(shown) = n /\ \A i \in 1 .. n : shown[i] \in seen
  BY <1>4, <1>8
<1> QED BY <1>4, <1>7, <1>9

LEMMA ReviewPoints ==
    ASSUME NEW m, NEW ev, TypedStream(ev), EndsOnce(m, ev), Terminal(m), NEW p \in Player
    PROVE  PointsAt(CurateReview(m, ev, p), BuildTimeline(ev))
<1> DEFINE k == FirstAt(ev, Decisive \cup {"MATCH_ABORTED"})
           steps == BuildTimeline(ev)
           result == ResultMoment(m, ev, p)
           seen == DetectObservations(m, ev, p)
           shown == Curated(seen, Stated(m, ev, p))
           moments == CurateReview(m, ev, p)
<1>1. k # 0 /\ k \in Steps(ev) /\ \A i \in Steps(ev) : i <= k
  BY LastStep
<1>2. result.refs = <<k>>
  BY <1>1 DEF ResultMoment, Obs
<1>3. moments = <<result>> \o shown
  BY DEF CurateReview
<1>4. /\ \E X : shown \in Seq(X)
      /\ Len(shown) \in 0 .. 4
      /\ \A i \in 1 .. Len(shown) : shown[i] \in seen
  BY CuratedAreSeen
<1>5. \A o \in seen : Grounded(o, Steps(ev))
  BY ObservationsGrounded
<1> HIDE DEF k, result, seen, shown, moments, steps
<1>6. /\ steps # <<>> /\ Last(steps) = k /\ \A i \in Steps(ev) : i \in ToSet(steps)
  BY <1>1, TimelineIs DEF steps
<1>7. /\ Len(moments) = Len(shown) + 1 /\ moments[1] = result
      /\ DOMAIN moments = 1 .. Len(moments)
      /\ \A i \in 2 .. Len(moments) : moments[i] = shown[i - 1] /\ i - 1 \in 1 .. Len(shown)
  BY <1>3, <1>4
<1>8. ASSUME NEW i \in DOMAIN moments PROVE Names(moments[i].refs, Steps(ev))
  <2>1. CASE i = 1
    BY <1>1, <1>2, <1>7, <2>1 DEF Names
  <2>2. CASE i # 1
    <3>1. i \in 2 .. Len(moments)
      BY <1>4, <1>7, <2>2
    <3> QED BY <1>4, <1>5, <1>7, <3>1 DEF Grounded
  <2> QED BY <2>1, <2>2
<1>9. \A i \in DOMAIN moments : ToSet(moments[i].refs) \subseteq ToSet(steps)
  BY <1>6, <1>8 DEF Names, ToSet
<1>10. Len(moments) \in 1 .. MOMENT_CAP
  BY <1>4, <1>7 DEF MOMENT_CAP
<1>11. moments[1].refs = <<Last(steps)>>
  BY <1>2, <1>6, <1>7
<1> QED BY <1>6, <1>9, <1>10, <1>11 DEF PointsAt, steps, moments

\* Every moment of a review, and there are one to five, points at steps of the
\* timeline, and the RESULT at its last step (curate.ts:60-90, review.ts:54-68,
\* timeline.ts).
THEOREM ReviewPointsAtTimeline == PlaySpec => []MomentsPointAtTimeline
<1>1. PlayInv => MomentsPointAtTimeline
  BY ReviewPoints DEF PlayInv, StreamInv, MomentsPointAtTimeline
<1> QED BY <1>1, PlayInvariant, PTL

-----------------------------------------------------------------------------
(* Progress: sequences into which one element is put                       *)

\* t is s with x after its first j elements.
Inserted(s, j, x, t) ==
    /\ j \in 0 .. Len(s) /\ Len(t) = Len(s) + 1
    /\ \A i \in 1 .. j : t[i] = s[i]
    /\ t[j + 1] = x
    /\ \A i \in j + 1 .. Len(s) : t[i + 1] = s[i]

LEMMA AppendInserts ==
    ASSUME NEW X, NEW s \in Seq(X), NEW x, NEW t, t \in Seq(X \cup {x})
    PROVE  Inserted(s, Len(s), x, t) <=> t = Append(s, x)
<1>1. s \in Seq(X \cup {x}) /\ Append(s, x) \in Seq(X \cup {x})
  OBVIOUS
<1>2. /\ Len(s) \in Nat /\ Len(Append(s, x)) = Len(s) + 1
      /\ \A i \in 1 .. Len(s) : Append(s, x)[i] = s[i]
      /\ Append(s, x)[Len(s) + 1] = x
  OBVIOUS
<1>3. Inserted(s, Len(s), x, Append(s, x))
  BY <1>2 DEF Inserted
<1>4. ASSUME Inserted(s, Len(s), x, t) PROVE t = Append(s, x)
  <2> DEFINE a == Append(s, x)
  <2>1. Len(t) = Len(s) + 1 /\ \A i \in 1 .. Len(s) + 1 : t[i] = a[i]
    <3>1. /\ Len(t) = Len(s) + 1 /\ t[Len(s) + 1] = x /\ \A i \in 1 .. Len(s) : t[i] = s[i]
      BY <1>4 DEF Inserted
    <3> QED BY <1>2, <3>1
  <2>2. a \in Seq(X \cup {x}) /\ Len(a) = Len(s) + 1
    BY <1>1, <1>2
  <2> HIDE DEF a
  <2>3. t = a
    BY <2>1, <2>2
  <2> QED BY <2>3 DEF a
<1> QED BY <1>3, <1>4

LEMMA InsertAtInserts ==
    ASSUME NEW X, NEW s \in Seq(X), NEW x, NEW j \in 0 .. Len(s)
    PROVE  InsertAt(s, j + 1, x) \in Seq(X \cup {x}) /\ Inserted(s, j, x, InsertAt(s, j + 1, x))
<1> DEFINE Y == X \cup {x}
           a == SubSeq(s, 1, j)
           b == SubSeq(s, j + 1, Len(s))
           c == a \o <<x>>
           t == c \o b
<1>0. Len(s) \in Nat /\ j \in Nat
  OBVIOUS
<1>1. InsertAt(s, j + 1, x) = t
  <2>1. (j + 1) - 1 = j
    BY <1>0
  <2>2. InsertAt(s, j + 1, x) = SubSeq(s, 1, (j + 1) - 1) \o <<x>> \o b
    BY DEF InsertAt
  <2> QED BY <2>1, <2>2
<1>2. s \in Seq(Y)
  OBVIOUS
<1>3. a \in Seq(Y) /\ Len(a) = j /\ \A i \in 1 .. j : a[i] = s[i]
  BY <1>0, <1>2
<1>4. b \in Seq(Y) /\ Len(b) = Len(s) - j /\ \A i \in 1 .. Len(s) - j : b[i] = s[j + i]
  <2>1. \A i \in j + 1 .. Len(s) : s[i] \in Y
    BY <1>0, <1>2
  <2> QED BY <1>0, <1>2, <2>1
<1> HIDE DEF a, b
<1>5. c \in Seq(Y) /\ Len(c) = j + 1 /\ c[j + 1] = x /\ \A i \in 1 .. j : c[i] = s[i]
  BY <1>0, <1>3
<1> HIDE DEF c
<1>6. /\ t \in Seq(Y) /\ Len(t) = Len(s) + 1
      /\ \A i \in 1 .. j + 1 : t[i] = c[i]
      /\ \A i \in j + 2 .. Len(s) + 1 : t[i] = b[i - (j + 1)]
  BY <1>0, <1>4, <1>5
<1> HIDE DEF t
<1>7. ASSUME NEW i \in j + 1 .. Len(s) PROVE t[i + 1] = s[i]
  <2>1. i + 1 \in j + 2 .. Len(s) + 1 /\ i - j \in 1 .. Len(s) - j
    BY <1>0
  <2>2. t[i + 1] = b[i - j] /\ b[i - j] = s[j + (i - j)]
    BY <1>0, <1>4, <1>6, <2>1
  <2> QED BY <1>0, <2>2
<1>8. t[j + 1] = x /\ \A i \in 1 .. j : t[i] = s[i]
  BY <1>0, <1>5, <1>6
<1> QED BY <1>1, <1>6, <1>7, <1>8 DEF Inserted

\* A filter of t keeps what it keeps of s, and x in its place.
LEMMA AmongInserted ==
    ASSUME NEW X, NEW s \in Seq(X), NEW x, NEW j, NEW t \in Seq(X \cup {x}), Inserted(s, j, x, t),
           NEW T, NEW U, \A i \in 1 .. Len(s) : s[i] \in T <=> s[i] \in U
    PROVE  /\ x \notin T => Among(t, T) = Among(s, U)
           /\ x \in T => \E l : /\ Inserted(Among(s, U), l, x, Among(t, T))
                                /\ j = Len(s) => l = Len(Among(s, U))
<1> DEFINE n == Len(s)
           Y == X \cup {x}
<1>0. n \in Nat /\ j \in 0 .. n /\ j \in Nat /\ Len(t) = n + 1
  BY DEF Inserted
<1>1. PICK q : /\ q[0] = <<>> /\ Among(s, U) = q[n]
               /\ \A i \in 1 .. n : q[i] = IF s[i] \in U THEN Append(q[i - 1], s[i]) ELSE q[i - 1]
  BY AmongRuns
<1>2. PICK r : /\ r[0] = <<>> /\ Among(t, T) = r[n + 1]
               /\ \A i \in 1 .. n + 1 : r[i] = IF t[i] \in T THEN Append(r[i - 1], t[i]) ELSE r[i - 1]
  <2>1. \E r : /\ r[0] = <<>> /\ Among(t, T) = r[Len(t)]
               /\ \A i \in 1 .. Len(t) : r[i] = IF t[i] \in T THEN Append(r[i - 1], t[i]) ELSE r[i - 1]
    BY AmongRuns
  <2> QED BY <1>0, <2>1
<1>3. \A i \in 1 .. n : s[i] \in X
  OBVIOUS
<1>4. /\ \A i \in 1 .. j : t[i] = s[i]
      /\ t[j + 1] = x
      /\ \A i \in j + 1 .. n : t[i + 1] = s[i]
  BY DEF Inserted
<1>5. \A i \in 1 .. n : s[i] \in T <=> s[i] \in U
  OBVIOUS
<1> HIDE DEF n
<1> DEFINE A == {i \in 0 .. n : q[i] \in Seq(X) /\ (i <= j => r[i] = q[i])}
<1>6. 0 .. n \subseteq A
  <2>1. 0 \in A
    <3>1. q[0] \in Seq(X) /\ r[0] = q[0] /\ 0 \in 0 .. n
      BY <1>0, <1>1, <1>2
    <3> QED BY <3>1
  <2>2. ASSUME NEW i \in 1 .. n, i - 1 \in A PROVE i \in A
    <3>1. i \in 0 .. n /\ i \in Nat /\ i \in 1 .. n + 1 /\ (i <= j => i - 1 <= j /\ i \in 1 .. j)
      BY <1>0
    <3>2. q[i - 1] \in Seq(X) /\ (i - 1 <= j => r[i - 1] = q[i - 1])
      BY <2>2
    <3>3. q[i] \in Seq(X)
      <4>1. s[i] \in X
        BY <1>3
      <4>2. Append(q[i - 1], s[i]) \in Seq(X)
        BY <3>2, <4>1
      <4> QED BY <1>1, <3>2, <4>2
    <3>4. ASSUME i <= j PROVE r[i] = q[i]
      <4>1. t[i] = s[i] /\ r[i - 1] = q[i - 1]
        BY <1>4, <3>1, <3>2, <3>4
      <4> QED BY <1>1, <1>2, <1>5, <3>1, <4>1
    <3> QED BY <3>1, <3>3, <3>4
  <2> HIDE DEF A
  <2> QED BY <1>0, <2>1, <2>2, Climb
<1>7. \A i \in 0 .. n : q[i] \in Seq(X)
  BY <1>6
<1>8. r[j] = q[j]
  BY <1>0, <1>6
<1> HIDE DEF A
<1>9. r[j + 1] = IF x \in T THEN Append(q[j], x) ELSE q[j]
  <2>1. j + 1 \in 1 .. n + 1 /\ (j + 1) - 1 = j
    BY <1>0
  <2> QED BY <1>2, <1>4, <1>8, <2>1
<1> DEFINE Like(i) == /\ x \notin T => r[i + 1] = q[i]
                      /\ x \in T => /\ r[i + 1] \in Seq(Y)
                                    /\ Inserted(q[i], Len(q[j]), x, r[i + 1])
           After == {i \in 0 .. n : i >= j => Like(i)}
<1>10. Like(j)
  <2>1. CASE x \notin T
    BY <1>9, <2>1
  <2>2. CASE x \in T
    <3>1. q[j] \in Seq(X) /\ r[j + 1] = Append(q[j], x)
      BY <1>0, <1>7, <1>9, <2>2
    <3>2. r[j + 1] \in Seq(Y)
      BY <3>1
    <3>3. Inserted(q[j], Len(q[j]), x, r[j + 1])
      <4> DEFINE a == q[j]
                 b == r[j + 1]
      <4>1. a \in Seq(X) /\ b = Append(a, x) /\ b \in Seq(X \cup {x})
        BY <3>1, <3>2
      <4> HIDE DEF a, b
      <4>2. Inserted(a, Len(a), x, b)
        BY <4>1, AppendInserts
      <4> QED BY <4>2 DEF a, b
    <3> QED BY <2>2, <3>2, <3>3
  <2> QED BY <2>1, <2>2
<1>11. ASSUME NEW i \in 1 .. n, i > j, Like(i - 1) PROVE Like(i)
  <2>1. i \in Nat /\ i + 1 \in 1 .. n + 1 /\ i \in j + 1 .. n /\ (i - 1) + 1 = i /\ (i + 1) - 1 = i
    BY <1>0, <1>11
  <2>2. t[i + 1] = s[i] /\ s[i] \in X
    BY <1>3, <1>4, <2>1
  <2>3. r[i + 1] = IF s[i] \in T THEN Append(r[i], s[i]) ELSE r[i]
    BY <1>2, <2>1, <2>2
  <2>4. q[i] = IF s[i] \in T THEN Append(q[i - 1], s[i]) ELSE q[i - 1]
    BY <1>1, <1>5
  <2>5. CASE x \notin T
    BY <1>11, <2>1, <2>3, <2>4, <2>5
  <2>6. CASE x \in T
    <3>1. r[i] \in Seq(Y) /\ Inserted(q[i - 1], Len(q[j]), x, r[i])
      BY <1>11, <2>1, <2>6
    <3>2. q[i - 1] \in Seq(X)
      BY <1>0, <1>7, <2>1
    <3>3. CASE s[i] \notin T
      BY <2>3, <2>4, <2>6, <3>1, <3>3
    <3>4. CASE s[i] \in T
      <4> DEFINE a == q[i - 1]
                 b == r[i]
                 c == q[i]
                 d == r[i + 1]
                 k == Len(q[j])
                 l == Len(a)
                 y == s[i]
      <4>0. a \in Seq(X) /\ b \in Seq(Y) /\ y \in X /\ y \in Y
        BY <2>2, <3>1, <3>2
      <4>11. c = Append(a, y) /\ d = Append(b, y)
        BY <2>3, <2>4, <3>4
      <4>12. l \in Nat
        <5> HIDE DEF a
        <5> QED BY <4>0
      <4>1. /\ a \in Seq(X) /\ b \in Seq(Y) /\ y \in X /\ y \in Y
            /\ c = Append(a, y) /\ d = Append(b, y) /\ l \in Nat
        BY <4>0, <4>11, <4>12
      <4>2. /\ k \in 0 .. l /\ Len(b) = l + 1
            /\ \A h \in 1 .. k : b[h] = a[h]
            /\ b[k + 1] = x
            /\ \A h \in k + 1 .. l : b[h + 1] = a[h]
        BY <3>1 DEF Inserted
      <4> HIDE DEF a, b, c, d, k, l, y
      <4>3. Len(a) = l
        BY DEF l
      <4>4. Len(c) = l + 1 /\ c[l + 1] = y /\ \A h \in 1 .. l : c[h] = a[h]
        BY <4>1, <4>3
      <4>5. Len(d) = l + 2 /\ d[l + 2] = y /\ (\A h \in 1 .. l + 1 : d[h] = b[h]) /\ d \in Seq(Y)
        BY <4>1, <4>2
      <4>6. \A h \in 1 .. k : d[h] = c[h]
        BY <4>1, <4>2, <4>4, <4>5
      <4>7. d[k + 1] = x
        BY <4>1, <4>2, <4>5
      <4>8. ASSUME NEW h \in k + 1 .. l + 1 PROVE d[h + 1] = c[h]
        <5>1. CASE h = l + 1
          <6>1. h + 1 = l + 2
            BY <4>1, <5>1
          <6> QED BY <4>4, <4>5, <5>1, <6>1
        <5>2. CASE h # l + 1
          <6>1. h \in k + 1 .. l /\ h \in 1 .. l /\ h + 1 \in 1 .. l + 1
            BY <4>1, <4>2, <5>2
          <6> QED BY <4>2, <4>4, <4>5, <6>1
        <5> QED BY <5>1, <5>2
      <4>9. k \in 0 .. Len(c) /\ Len(d) = Len(c) + 1
        BY <4>1, <4>2, <4>4, <4>5
      <4>10. Inserted(c, k, x, d)
        BY <4>4, <4>6, <4>7, <4>8, <4>9 DEF Inserted
      <4> QED BY <2>6, <4>5, <4>10 DEF c, d, k
    <3> QED BY <3>3, <3>4
  <2> QED BY <2>5, <2>6
<1>12. 0 .. n \subseteq After
  <2>1. 0 \in After
    <3>1. 0 >= j => j = 0
      BY <1>0
    <3> HIDE DEF Like
    <3> QED BY <1>0, <1>10, <3>1
  <2>2. ASSUME NEW i \in 1 .. n, i - 1 \in After PROVE i \in After
    <3> HIDE DEF Like
    <3>1. i \in 0 .. n /\ (i > j => i - 1 >= j) /\ (i >= j /\ ~(i > j) => i = j)
      BY <1>0
    <3> QED BY <1>10, <1>11, <2>2, <3>1
  <2> HIDE DEF After
  <2> QED BY <1>0, <2>1, <2>2, Climb
<1>13. Like(n)
  <2> HIDE DEF Like
  <2>1. n \in 0 .. n /\ n >= j
    BY <1>0
  <2> QED BY <1>12, <2>1
<1> HIDE DEF After
<1>14. CASE x \notin T
  BY <1>1, <1>2, <1>13, <1>14
<1>15. CASE x \in T
  BY <1>1, <1>2, <1>13, <1>15 DEF n
<1> QED BY <1>14, <1>15

-----------------------------------------------------------------------------
(* Progress: sorting and records                                           *)

Walks(n, S, F, it) ==
    \A i \in 1 .. n : it[1 .. (i - 1)] \in S => it[1 .. i] = F[i][it[1 .. (i - 1)]]

\* A fold, once it is known to go along the segments 1 .. i, stays in its type.
LEMMA FoldWalk ==
    ASSUME NEW n \in Nat, NEW S, NEW b \in S, NEW F \in [1 .. n -> [S -> S]], NEW it,
           it[1 .. 0] = b, Walks(n, S, F, it)
    PROVE  \A i \in 0 .. n : it[1 .. i] \in S
<1> DEFINE T == {i \in 0 .. n : it[1 .. i] \in S}
<1>1. 0 \in T
  BY DEF T
<1>2. ASSUME NEW i \in 1 .. n, i - 1 \in T PROVE i \in T
  <2>1. it[1 .. i] = F[i][it[1 .. (i - 1)]] /\ it[1 .. (i - 1)] \in S
    BY <1>2 DEF Walks
  <2>2. i \in 0 .. n
    OBVIOUS
  <2> QED BY <2>1, <2>2
<1> HIDE DEF T
<1>3. 0 .. n \subseteq T
  BY <1>1, <1>2, Climb
<1> QED BY <1>3 DEF T

LEMMA PutInserts ==
    ASSUME NEW X, NEW s \in Seq(X), NEW x
    PROVE  /\ PutIn(s, x) \in Seq(X \cup {x})
           /\ \E j : Inserted(s, j, x, PutIn(s, x))
<1> DEFINE I == {i \in 1 .. Len(s) : Earlier(s[i], x)}
           j == IF I # {} THEN Max(I) ELSE 0
<1>1. Len(s) \in Nat /\ I \subseteq 1 .. Len(s)
  OBVIOUS
<1>2. PutIn(s, x) = InsertAt(s, j + 1, x)
  BY DEF PutIn, SelectLastInSeq
<1>3. j \in 0 .. Len(s)
  <2>1. CASE I = {}
    BY <1>1, <2>1
  <2>2. CASE I # {}
    <3>1. Max(I) \in I
      <4> HIDE DEF I
      <4> QED BY <1>1, <2>2, Extremes
    <3> QED BY <1>1, <2>2, <3>1
  <2> QED BY <2>1, <2>2
<1> HIDE DEF j
<1>4. InsertAt(s, j + 1, x) \in Seq(X \cup {x}) /\ Inserted(s, j, x, InsertAt(s, j + 1, x))
  BY <1>3, InsertAtInserts
<1> QED BY <1>2, <1>4

\* sortByEnd puts in one row after the other.
LEMMA SortRuns ==
    ASSUME NEW X, NEW s \in Seq(X)
    PROVE  \E q : /\ q[0] = <<>> /\ SortByEnd(s) = q[Len(s)]
                  /\ \A i \in 0 .. Len(s) : q[i] \in Seq(X)
                  /\ \A i \in 1 .. Len(s) : q[i] = PutIn(q[i - 1], s[i])
<1> DEFINE n == Len(s)
           S == Seq(X)
           b == <<>>
           F == [i \in 1 .. n |-> [x \in S |-> PutIn(x, s[i])]]
           it == CHOOSE g : g = [t \in SUBSET (DOMAIN s) |->
                     IF t = {} THEN b ELSE PutIn(g[t \ {Max(t)}], s[Max(t)])]
<1>1. n \in Nat /\ DOMAIN s = 1 .. n /\ b \in S /\ \A i \in 1 .. n : s[i] \in X
  OBVIOUS
<1>2. F \in [1 .. n -> [S -> S]]
  <2>1. ASSUME NEW i \in 1 .. n, NEW x \in S PROVE PutIn(x, s[i]) \in S
    <3>1. X \cup {s[i]} = X
      BY <1>1
    <3> QED BY <3>1, PutInserts
  <2> HIDE DEF S
  <2> QED BY <2>1
<1>3. PICK g \in [SUBSET (1 .. n) -> S] : \A t \in SUBSET (1 .. n) :
          g[t] = IF t = {} THEN b ELSE F[Max(t)][g[t \ {Max(t)}]]
  <2> HIDE DEF F, S, n, it, b
  <2>1. \E g : FoldSolution(n, S, b, F, g)
    BY <1>1, <1>2, FoldExists
  <2> QED BY <2>1 DEF FoldSolution
<1> HIDE DEF S, b
<1>4. ASSUME NEW t \in SUBSET (1 .. n), t # {}
      PROVE  F[Max(t)][g[t \ {Max(t)}]] = PutIn(g[t \ {Max(t)}], s[Max(t)])
  <2>1. Max(t) \in 1 .. n
    BY <1>1, <1>4, Extremes
  <2>2. g[t \ {Max(t)}] \in S
    OBVIOUS
  <2> QED BY <2>1, <2>2
<1>5. g = [t \in SUBSET (DOMAIN s) |->
              IF t = {} THEN b ELSE PutIn(g[t \ {Max(t)}], s[Max(t)])]
  <2> HIDE DEF F, n
  <2> QED BY <1>1, <1>3, <1>4
<1>6. it = [t \in SUBSET (DOMAIN s) |->
               IF t = {} THEN b ELSE PutIn(it[t \ {Max(t)}], s[Max(t)])]
  BY <1>5
<1>7. SortByEnd(s) = it[DOMAIN s]
  BY DEF SortByEnd, FoldLeft, MapThenFoldSet, b
<1> HIDE DEF it
<1>8. it[1 .. 0] = b
  BY <1>1, <1>6
<1>9. ASSUME NEW i \in 1 .. n PROVE it[1 .. i] = PutIn(it[1 .. (i - 1)], s[i])
  <2>1. Max(1 .. i) = i /\ (1 .. i) \ {i} = 1 .. (i - 1) /\ 1 .. i # {}
    BY <1>1, LastOfSegment
  <2>2. 1 .. i \in SUBSET (DOMAIN s)
    BY <1>1
  <2> QED BY <1>6, <2>1, <2>2
<1>10. ASSUME NEW i \in 1 .. n, it[1 .. (i - 1)] \in S
       PROVE  it[1 .. i] = F[i][it[1 .. (i - 1)]]
  BY <1>9, <1>10
<1>11. \A i \in 0 .. n : it[1 .. i] \in S
  <2>1. Walks(n, S, F, it)
    BY <1>10 DEF Walks
  <2>2. n \in Nat /\ b \in S
    BY <1>1
  <2> HIDE DEF F, n
  <2> QED BY <1>2, <1>8, <2>1, <2>2, FoldWalk
<1> DEFINE q == [i \in 0 .. n |-> it[1 .. i]]
<1>12. q[0] = b /\ SortByEnd(s) = q[n] /\ \A i \in 0 .. n : q[i] \in S
  BY <1>1, <1>7, <1>8, <1>11
<1>13. ASSUME NEW i \in 1 .. n PROVE q[i] = PutIn(q[i - 1], s[i])
  <2>1. i - 1 \in 0 .. n /\ i \in 0 .. n
    BY <1>1
  <2> QED BY <1>9, <2>1
<1> QED BY <1>12, <1>13 DEF S, b

\* So a row that comes last is put in last.
LEMMA SortAppend ==
    ASSUME NEW X, NEW s \in Seq(X), NEW x
    PROVE  SortByEnd(s) \in Seq(X) /\ SortByEnd(Append(s, x)) = PutIn(SortByEnd(s), x)
<1> DEFINE n == Len(s)
           t == Append(s, x)
<1>0. n \in Nat
  OBVIOUS
<1>1. t \in Seq(X \cup {x}) /\ Len(t) = n + 1 /\ t[n + 1] = x /\ \A i \in 1 .. n : t[i] = s[i]
  OBVIOUS
<1>2. PICK q : /\ q[0] = <<>> /\ SortByEnd(s) = q[n]
               /\ \A i \in 0 .. n : q[i] \in Seq(X)
               /\ \A i \in 1 .. n : q[i] = PutIn(q[i - 1], s[i])
  BY SortRuns
<1> HIDE DEF n, t
<1>3. PICK r : /\ r[0] = <<>> /\ SortByEnd(t) = r[n + 1]
               /\ \A i \in 1 .. n + 1 : r[i] = PutIn(r[i - 1], t[i])
  <2>1. \E r : /\ r[0] = <<>> /\ SortByEnd(t) = r[Len(t)]
               /\ \A i \in 0 .. Len(t) : r[i] \in Seq(X \cup {x})
               /\ \A i \in 1 .. Len(t) : r[i] = PutIn(r[i - 1], t[i])
    BY <1>1, SortRuns
  <2> QED BY <1>1, <2>1
<1> DEFINE T == {i \in 0 .. n : r[i] = q[i]}
<1>4. 0 \in T
  BY <1>0, <1>2, <1>3
<1>5. ASSUME NEW i \in 1 .. n, i - 1 \in T PROVE i \in T
  <2>1. i \in 0 .. n /\ i \in 1 .. n + 1
    BY <1>0
  <2> QED BY <1>1, <1>2, <1>3, <1>5, <2>1
<1>6. 0 .. n \subseteq T
  <2> HIDE DEF T
  <2> QED BY <1>0, <1>4, <1>5, Climb
<1>7. n \in 0 .. n /\ n + 1 \in 1 .. n + 1 /\ (n + 1) - 1 = n
  BY <1>0
<1>8. r[n + 1] = PutIn(q[n], x)
  BY <1>1, <1>3, <1>6, <1>7
<1> QED BY <1>2, <1>3, <1>7, <1>8 DEF t, n

\* A match that was not aborted appears among the playable ones, in its place.
LEMMA PlayableInserted ==
    ASSUME NEW X, NEW h \in Seq(X), NEW row, row.outcome # "ABORTED"
    PROVE  /\ Playable(h) \in Seq(X) /\ Playable(Append(h, row)) \in Seq(X \cup {row})
           /\ \E j : Inserted(Playable(h), j, row, Playable(Append(h, row)))
<1> DEFINE s == SortByEnd(h)
           t == SortByEnd(Append(h, row))
           U == {x \in ToSet(s) : x.outcome # "ABORTED"}
           T == {x \in ToSet(t) : x.outcome # "ABORTED"}
<1>1. s \in Seq(X) /\ t = PutIn(s, row)
  BY SortAppend
<1>2. Playable(h) = Among(s, U) /\ Playable(Append(h, row)) = Among(t, T)
  BY DEF Playable, Filter
<1> HIDE DEF s, t
<1>3. t \in Seq(X \cup {row}) /\ \E j : Inserted(s, j, row, t)
  BY <1>1, PutInserts
<1>4. PICK j : Inserted(s, j, row, t)
  BY <1>3
<1>5. /\ row \in T
      /\ \A i \in 1 .. Len(s) : s[i] \in T <=> s[i] \in U
  <2> DEFINE n == Len(s)
  <2>1. n \in Nat /\ DOMAIN s = 1 .. n /\ Len(t) = n + 1 /\ j \in 0 .. n
    BY <1>1, <1>4 DEF Inserted
  <2>2. DOMAIN t = 1 .. n + 1
    BY <1>3, <2>1
  <2>3. /\ \A i \in 1 .. j : t[i] = s[i]
        /\ t[j + 1] = row
        /\ \A i \in j + 1 .. n : t[i + 1] = s[i]
    BY <1>4 DEF Inserted
  <2> HIDE DEF n
  <2>4. row \in ToSet(t)
    BY <2>1, <2>2, <2>3 DEF ToSet
  <2>5. ASSUME NEW i \in 1 .. n PROVE s[i] \in ToSet(s) /\ s[i] \in ToSet(t)
    <3>1. CASE i \in 1 .. j
      BY <2>1, <2>2, <2>3, <3>1 DEF ToSet
    <3>2. CASE i \in j + 1 .. n
      <4>1. i + 1 \in 1 .. n + 1
        BY <2>1
      <4> QED BY <2>1, <2>2, <2>3, <3>2, <4>1 DEF ToSet
    <3> QED BY <2>1, <3>1, <3>2
  <2> QED BY <2>4, <2>5 DEF n
<1> HIDE DEF T, U
<1>6. Among(s, U) \in Seq(X) /\ Among(t, T) \in Seq(X \cup {row})
  BY <1>1, <1>3, FilterKeeps
<1>7. \E l : Inserted(Among(s, U), l, row, Among(t, T))
  BY <1>1, <1>3, <1>4, <1>5, AmongInserted
<1> QED BY <1>2, <1>6, <1>7

\* One step of personalRecordsOf.
Better(key, best, r) ==
    IF Beats(key, r[key], best.value) THEN [value |-> r[key], id |-> r.id] ELSE best

NoRecord == [value |-> None, id |-> None]

LEMMA RecordRuns ==
    ASSUME NEW X, NEW s \in Seq(X), NEW key
    PROVE  \E q : /\ q[0] = NoRecord /\ PersonalRecord(s, key) = q[Len(s)]
                  /\ \A i \in 1 .. Len(s) : q[i] = Better(key, q[i - 1], s[i])
<1> DEFINE n == Len(s)
           S == {NoRecord} \cup {[value |-> s[i][key], id |-> s[i].id] : i \in 1 .. n}
           b == NoRecord
           F == [i \in 1 .. n |-> [x \in S |-> Better(key, x, s[i])]]
           it == CHOOSE g : g = [t \in SUBSET (DOMAIN s) |->
                     IF t = {} THEN b ELSE Better(key, g[t \ {Max(t)}], s[Max(t)])]
<1>1. n \in Nat /\ DOMAIN s = 1 .. n /\ b \in S
  OBVIOUS
<1>2. F \in [1 .. n -> [S -> S]]
  <2>1. ASSUME NEW i \in 1 .. n, NEW x \in S PROVE Better(key, x, s[i]) \in S
    <3>1. [value |-> s[i][key], id |-> s[i].id] \in S
      OBVIOUS
    <3> HIDE DEF S
    <3> QED BY <3>1 DEF Better
  <2> HIDE DEF S
  <2> QED BY <2>1
<1>3. PICK g \in [SUBSET (1 .. n) -> S] : \A t \in SUBSET (1 .. n) :
          g[t] = IF t = {} THEN b ELSE F[Max(t)][g[t \ {Max(t)}]]
  <2> HIDE DEF F, S, n, it, b
  <2>1. \E g : FoldSolution(n, S, b, F, g)
    BY <1>1, <1>2, FoldExists
  <2> QED BY <2>1 DEF FoldSolution
<1> HIDE DEF S, b
<1>4. ASSUME NEW t \in SUBSET (1 .. n), t # {}
      PROVE  F[Max(t)][g[t \ {Max(t)}]] = Better(key, g[t \ {Max(t)}], s[Max(t)])
  <2>1. Max(t) \in 1 .. n
    BY <1>1, <1>4, Extremes
  <2>2. g[t \ {Max(t)}] \in S
    OBVIOUS
  <2> QED BY <2>1, <2>2
<1>5. g = [t \in SUBSET (DOMAIN s) |->
              IF t = {} THEN b ELSE Better(key, g[t \ {Max(t)}], s[Max(t)])]
  <2> HIDE DEF F, n
  <2> QED BY <1>1, <1>3, <1>4
<1>6. it = [t \in SUBSET (DOMAIN s) |->
               IF t = {} THEN b ELSE Better(key, it[t \ {Max(t)}], s[Max(t)])]
  BY <1>5
<1>7. PersonalRecord(s, key) = it[DOMAIN s]
  BY DEF PersonalRecord, FoldLeft, MapThenFoldSet, Better, b, NoRecord
<1> HIDE DEF it
<1>8. it[1 .. 0] = b
  BY <1>1, <1>6
<1>9. ASSUME NEW i \in 1 .. n PROVE it[1 .. i] = Better(key, it[1 .. (i - 1)], s[i])
  <2>1. Max(1 .. i) = i /\ (1 .. i) \ {i} = 1 .. (i - 1) /\ 1 .. i # {}
    BY <1>1, LastOfSegment
  <2>2. 1 .. i \in SUBSET (DOMAIN s)
    BY <1>1
  <2> QED BY <1>6, <2>1, <2>2
<1> DEFINE q == [i \in 0 .. n |-> it[1 .. i]]
<1>12. q[0] = b /\ PersonalRecord(s, key) = q[n]
  BY <1>1, <1>7, <1>8
<1>13. ASSUME NEW i \in 1 .. n PROVE q[i] = Better(key, q[i - 1], s[i])
  <2>1. i - 1 \in 0 .. n /\ i \in 0 .. n
    BY <1>1
  <2> QED BY <1>9, <2>1
<1> QED BY <1>12, <1>13 DEF b

AsGood(key, v, w) == IF key = "close" THEN v <= w ELSE v >= w

\* How the record stands with a row x among the rows, and without it.
Improved(key, x, old, new) ==
    /\ old.value \in Int \cup {None} /\ new.value \in Int \cup {None}
    /\ \/ new = old
       \/ /\ new = [value |-> x[key], id |-> x.id] /\ x[key] # None
          /\ old.value # None => AsGood(key, x[key], old.value)
    /\ new.value = None <=> old.value = None /\ x[key] = None

LEMMA RecordSetOrKept ==
    ASSUME NEW key, NEW x, NEW old, x[key] \in Int \cup {None}, old.value \in Int \cup {None}
    PROVE  Improved(key, x, old, Better(key, old, x))
<1>1. CASE Beats(key, x[key], old.value)
  BY <1>1 DEF Beats, Better, Improved, AsGood
<1>2. CASE ~Beats(key, x[key], old.value)
  <2>1. x[key] # None => old.value # None
    BY <1>2 DEF Beats
  <2> QED BY <1>2, <2>1 DEF Better, Improved
<1> QED BY <1>1, <1>2

LEMMA ImprovedStays ==
    ASSUME NEW key, NEW x, NEW old, NEW new, NEW y, x[key] \in Int \cup {None},
           y[key] \in Int \cup {None}, Improved(key, x, old, new)
    PROVE  Improved(key, x, Better(key, old, y), Better(key, new, y))
<1> DEFINE o == Better(key, old, y)
           w == Better(key, new, y)
<1>1. old.value \in Int \cup {None} /\ new.value \in Int \cup {None} /\ None \notin Int
  BY NoneAssumption DEF Improved
<1>2. CASE new = old
  <2>1. o = w /\ o.value \in Int \cup {None}
    BY <1>1, <1>2 DEF Better
  <2>2. (o.value = None) = (old.value = None /\ y[key] = None)
    BY <1>1 DEF Better, Beats
  <2>3. old.value = None => x[key] = None
    BY <1>2 DEF Improved
  <2> QED BY <2>1, <2>2, <2>3 DEF Improved
<1>3. CASE new # old
  <2>1. /\ new.value = x[key] /\ x[key] \in Int /\ new = [value |-> x[key], id |-> x.id]
        /\ old.value # None => AsGood(key, x[key], old.value)
    BY <1>1, <1>3 DEF Improved
  <2>2. CASE Beats(key, y[key], new.value)
    <3>1. Beats(key, y[key], old.value) /\ y[key] \in Int
      BY <1>1, <2>1, <2>2 DEF Beats, AsGood
    <3>2. o = w /\ o.value = y[key]
      BY <2>2, <3>1 DEF Better
    <3> QED BY <1>1, <3>1, <3>2 DEF Improved
  <2>3. CASE ~Beats(key, y[key], new.value)
    <3>1. w = new
      BY <2>3 DEF Better
    <3>2. o.value \in Int \cup {None} /\ (o.value # None => AsGood(key, x[key], o.value))
      <4>1. CASE Beats(key, y[key], old.value)
        <5>1. o.value = y[key] /\ y[key] \in Int
          BY <4>1 DEF Better, Beats
        <5> QED BY <2>1, <2>3, <5>1, <1>1 DEF Beats, AsGood
      <4>2. CASE ~Beats(key, y[key], old.value)
        BY <1>1, <2>1, <4>2 DEF Better
      <4> QED BY <4>1, <4>2
    <3>3. w.value # None /\ x[key] # None
      BY <1>1, <2>1, <3>1
    <3> QED BY <1>1, <2>1, <3>1, <3>2, <3>3 DEF Improved
  <2> QED BY <2>2, <2>3
<1> QED BY <1>2, <1>3

RecordOf(key, s) == \A i \in 1 .. Len(s) : s[i][key] \in Int \cup {None}

\* A row among the others only improves the record, wherever it stands.
LEMMA RecordImproves ==
    ASSUME NEW X, NEW s \in Seq(X), NEW x, NEW j, NEW t \in Seq(X \cup {x}), Inserted(s, j, x, t),
           NEW key, RecordOf(key, s), x[key] \in Int \cup {None}
    PROVE  RecordOnlyImproves(key, PersonalRecord(s, key), PersonalRecord(t, key), x)
<1> DEFINE n == Len(s)
<1>0. n \in Nat /\ j \in 0 .. n /\ j \in Nat /\ Len(t) = n + 1
  BY DEF Inserted
<1>1. PICK q : /\ q[0] = NoRecord /\ PersonalRecord(s, key) = q[n]
               /\ \A i \in 1 .. n : q[i] = Better(key, q[i - 1], s[i])
  BY RecordRuns
<1>2. PICK r : /\ r[0] = NoRecord /\ PersonalRecord(t, key) = r[n + 1]
               /\ \A i \in 1 .. n + 1 : r[i] = Better(key, r[i - 1], t[i])
  <2>1. \E r : /\ r[0] = NoRecord /\ PersonalRecord(t, key) = r[Len(t)]
               /\ \A i \in 1 .. Len(t) : r[i] = Better(key, r[i - 1], t[i])
    BY RecordRuns
  <2> QED BY <1>0, <2>1
<1>3. \A i \in 1 .. n : s[i][key] \in Int \cup {None}
  BY DEF RecordOf
<1>4. /\ \A i \in 1 .. j : t[i] = s[i]
      /\ t[j + 1] = x
      /\ \A i \in j + 1 .. n : t[i + 1] = s[i]
  BY DEF Inserted
<1> HIDE DEF n
<1> DEFINE A == {i \in 0 .. n : q[i].value \in Int \cup {None} /\ (i <= j => r[i] = q[i])}
<1>5. 0 .. n \subseteq A
  <2>1. 0 \in A
    <3>1. q[0].value = None /\ r[0] = q[0] /\ 0 \in 0 .. n
      BY <1>0, <1>1, <1>2 DEF NoRecord
    <3> QED BY <3>1
  <2>2. ASSUME NEW i \in 1 .. n, i - 1 \in A PROVE i \in A
    <3>1. i \in 0 .. n /\ i \in Nat /\ i \in 1 .. n + 1 /\ (i <= j => i - 1 <= j /\ i \in 1 .. j)
      BY <1>0
    <3>2. q[i - 1].value \in Int \cup {None} /\ (i - 1 <= j => r[i - 1] = q[i - 1])
      BY <2>2
    <3>3. q[i].value \in Int \cup {None}
      <4>1. s[i][key] \in Int \cup {None}
        BY <1>3
      <4>2. q[i] = Better(key, q[i - 1], s[i])
        BY <1>1
      <4> QED BY <3>2, <4>1, <4>2 DEF Better
    <3>4. ASSUME i <= j PROVE r[i] = q[i]
      <4>1. t[i] = s[i] /\ r[i - 1] = q[i - 1]
        BY <1>4, <3>1, <3>2, <3>4
      <4> QED BY <1>1, <1>2, <3>1, <4>1
    <3> QED BY <3>1, <3>3, <3>4
  <2> HIDE DEF A
  <2> QED BY <1>0, <2>1, <2>2, Climb
<1>6. q[j].value \in Int \cup {None} /\ r[j] = q[j]
  BY <1>0, <1>5
<1> HIDE DEF A
<1> DEFINE After == {i \in 0 .. n : i >= j => Improved(key, x, q[i], r[i + 1])}
<1>7. Improved(key, x, q[j], r[j + 1])
  <2>1. j + 1 \in 1 .. n + 1 /\ (j + 1) - 1 = j
    BY <1>0
  <2>2. r[j + 1] = Better(key, q[j], x)
    BY <1>2, <1>4, <1>6, <2>1
  <2> QED BY <1>6, <2>2, RecordSetOrKept
<1>8. ASSUME NEW i \in 1 .. n, i > j, Improved(key, x, q[i - 1], r[(i - 1) + 1])
      PROVE  Improved(key, x, q[i], r[i + 1])
  <2>1. i \in Nat /\ i + 1 \in 1 .. n + 1 /\ i \in j + 1 .. n /\ (i - 1) + 1 = i /\ (i + 1) - 1 = i
    BY <1>0, <1>8
  <2>2. q[i] = Better(key, q[i - 1], s[i]) /\ r[i + 1] = Better(key, r[i], s[i])
    BY <1>1, <1>2, <1>4, <2>1
  <2>3. s[i][key] \in Int \cup {None}
    BY <1>3
  <2>4. Improved(key, x, q[i - 1], r[i])
    BY <1>8, <2>1
  <2> QED BY <2>2, <2>3, <2>4, ImprovedStays
<1>9. 0 .. n \subseteq After
  <2>1. 0 \in After
    <3>1. 0 >= j => j = 0
      BY <1>0
    <3> QED BY <1>0, <1>7, <3>1
  <2>2. ASSUME NEW i \in 1 .. n, i - 1 \in After PROVE i \in After
    <3>1. i \in 0 .. n /\ (i > j => i - 1 >= j) /\ (i >= j /\ ~(i > j) => i = j)
      BY <1>0
    <3> QED BY <1>7, <1>8, <2>2, <3>1
  <2> HIDE DEF After
  <2> QED BY <1>0, <2>1, <2>2, Climb
<1>10. Improved(key, x, q[n], r[n + 1])
  <2>1. n \in 0 .. n /\ n >= j
    BY <1>0
  <2> QED BY <1>9, <2>1
<1>11. None \notin Int
  BY NoneAssumption
<1> HIDE DEF After
<1> DEFINE old == q[n]
           new == r[n + 1]
<1>12. Improved(key, x, old, new)
  BY <1>10
<1>13. PersonalRecord(s, key) = old /\ PersonalRecord(t, key) = new
  BY <1>1, <1>2 DEF n
<1> HIDE DEF old, new
<1>14. RecordOnlyImproves(key, old, new, x)
  <2>1. CASE new = old
    BY <1>11, <1>12, <2>1 DEF Improved, RecordOnlyImproves
  <2>2. CASE new # old
    BY <1>11, <1>12, <2>2 DEF Improved, RecordOnlyImproves, AsGood
  <2> QED BY <2>1, <2>2
<1> QED BY <1>13, <1>14

\* One more match at the end: the streak goes on or is over.
LEMMA StreakOfNewest ==
    ASSUME NEW X, NEW s \in Seq(X), NEW x
    PROVE  DealStreak(Append(s, x)) = IF Deal(x) THEN DealStreak(s) + 1 ELSE 0
<1> DEFINE n == Len(s)
           t == Append(s, x)
           I == {i \in 1 .. Len(s) : ~Deal(s[i])}
           J == {i \in 1 .. Len(t) : ~Deal(t[i])}
<1>1. n \in Nat /\ Len(t) = n + 1 /\ t[n + 1] = x /\ \A i \in 1 .. n : t[i] = s[i]
  OBVIOUS
<1>2. /\ DealStreak(s) = Len(s) - (IF I # {} THEN Max(I) ELSE 0)
      /\ DealStreak(t) = Len(t) - (IF J # {} THEN Max(J) ELSE 0)
  BY DEF DealStreak, SelectLastInSeq
<1> HIDE DEF t, n
<1>3. I \subseteq 1 .. n /\ J \subseteq 1 .. n + 1
  BY <1>1 DEF n
<1>4. I # {} => Max(I) \in I /\ \A y \in I : y <= Max(I)
  <2> HIDE DEF I
  <2> QED BY <1>1, <1>3, Extremes
<1>5. J # {} => Max(J) \in J /\ \A y \in J : y <= Max(J)
  <2>1. n + 1 \in Nat
    BY <1>1
  <2> HIDE DEF J
  <2> QED BY <1>3, <2>1, Extremes
<1>6. \A i : i \in J <=> i \in I \/ (i = n + 1 /\ ~Deal(x))
  BY <1>1 DEF n
<1> HIDE DEF I, J
<1>7. CASE ~Deal(x)
  <2>1. n + 1 \in J /\ J # {} /\ n + 1 <= Max(J) /\ Max(J) \in 1 .. n + 1
    BY <1>3, <1>5, <1>6, <1>7
  <2>2. Max(J) = n + 1
    BY <1>1, <2>1
  <2> QED BY <1>1, <1>2, <1>7, <2>1, <2>2 DEF t
<1>8. CASE Deal(x)
  <2>1. J = I
    BY <1>6, <1>8
  <2>2. CASE I = {}
    BY <1>1, <1>2, <1>8, <2>1, <2>2 DEF n, t
  <2>3. CASE I # {}
    <3>1. Max(I) \in 1 .. n
      BY <1>3, <1>4, <2>3
    <3> QED BY <1>1, <1>2, <1>8, <2>1, <2>3, <3>1 DEF n, t
  <2> QED BY <2>2, <2>3
<1> QED BY <1>7, <1>8

\* A new match against one persona touches the streak against that one only.
LEMMA StreaksAlone ==
    ASSUME NEW X, NEW s \in Seq(X), NEW x, x \notin X, NEW j, NEW t \in Seq(X \cup {x}),
           Inserted(s, j, x, t)
    PROVE  StreaksMoveAlone(s, t, x)
<1> SUFFICES ASSUME NEW k
             PROVE  IF k = x.persona
                    THEN StreakGrowsOrEnds(DealStreak(AgainstPersona(s, k)),
                                           AgainstPersona(t, k), x)
                    ELSE DealStreak(AgainstPersona(t, k)) = DealStreak(AgainstPersona(s, k))
  BY DEF StreaksMoveAlone
<1> DEFINE U == {y \in ToSet(s) : y.persona = k}
           T == {y \in ToSet(t) : y.persona = k}
           a == Among(s, U)
           b == Among(t, T)
<1>1. AgainstPersona(s, k) = a /\ AgainstPersona(t, k) = b
  BY DEF AgainstPersona, Filter
<1>2. /\ x \in T <=> x.persona = k
      /\ \A i \in 1 .. Len(s) : s[i] \in T <=> s[i] \in U
  <2>1. /\ DOMAIN s = 1 .. Len(s) /\ DOMAIN t = 1 .. Len(s) + 1 /\ Len(s) \in Nat
        /\ j \in 0 .. Len(s)
        /\ t[j + 1] = x /\ (\A i \in 1 .. j : t[i] = s[i])
        /\ \A i \in j + 1 .. Len(s) : t[i + 1] = s[i]
    BY DEF Inserted
  <2>2. x \in ToSet(t)
    <3>1. j + 1 \in 1 .. Len(s) + 1
      BY <2>1
    <3> QED BY <2>1, <3>1 DEF ToSet
  <2>3. ASSUME NEW i \in 1 .. Len(s) PROVE s[i] \in ToSet(s) /\ s[i] \in ToSet(t)
    <3>1. i \in 1 .. Len(s) + 1 /\ i + 1 \in 1 .. Len(s) + 1 /\ (i \in 1 .. j \/ i \in j + 1 .. Len(s))
      BY <2>1
    <3> QED BY <2>1, <3>1 DEF ToSet
  <2> QED BY <2>2, <2>3
<1> HIDE DEF U, T
<1>3. /\ x \notin T => b = a
      /\ x \in T => \E l : Inserted(a, l, x, b)
  BY <1>2, AmongInserted
<1>4. a \in Seq(X) /\ b \in Seq(X \cup {x})
  BY FilterKeeps
<1> HIDE DEF a, b
<1>5. CASE k # x.persona
  BY <1>1, <1>2, <1>3, <1>5
<1>6. CASE k = x.persona
  <2>1. ASSUME Last(b) = x PROVE DealStreak(b) = IF Deal(x) THEN DealStreak(a) + 1 ELSE 0
    <3>1. PICK l : Inserted(a, l, x, b)
      BY <1>2, <1>3, <1>6
    <3>2. l = Len(a)
      <4>1. SUFFICES ASSUME l # Len(a) PROVE FALSE
        OBVIOUS
      <4>2. /\ Len(a) \in Nat /\ l \in 0 .. Len(a) /\ Len(b) = Len(a) + 1
            /\ \A i \in l + 1 .. Len(a) : b[i + 1] = a[i]
        BY <1>4, <3>1 DEF Inserted
      <4>3. Len(a) \in l + 1 .. Len(a) /\ Len(a) \in 1 .. Len(a)
        BY <4>1, <4>2
      <4>4. a[Len(a)] = x
        BY <2>1, <4>2, <4>3 DEF Last
      <4>5. a[Len(a)] \in X
        BY <1>4, <4>3
      <4> QED BY <4>4, <4>5
    <3>3. b = Append(a, x)
      BY <1>4, <3>1, <3>2, AppendInserts
    <3> QED BY <1>4, <3>3, StreakOfNewest
  <2> QED BY <1>1, <1>6, <2>1 DEF StreakGrowsOrEnds
<1> QED BY <1>5, <1>6

\* A sequence of integers has a largest.
LEMMA LargestOfType ==
    ASSUME NEW s \in Seq(Int)
    PROVE  LargestOf(s) \in Int \cup {None}
<1> DEFINE n == Len(s)
           Top(i, k) == k \in 1 .. i /\ \A h \in 1 .. i : s[h] <= s[k]
<1>1. n \in Nat /\ DOMAIN s = 1 .. n /\ \A i \in 1 .. n : s[i] \in Int
  OBVIOUS
<1>2. CASE s = <<>>
  BY <1>2 DEF LargestOf
<1>3. CASE s # <<>>
  <2>1. n >= 1
    BY <1>1, <1>3
  <2> HIDE DEF n
  <2> DEFINE T == {i \in 0 .. n : i >= 1 => \E k : Top(i, k)}
  <2>2. 0 \in T
    BY <1>1
  <2>3. ASSUME NEW i \in 1 .. n, i - 1 \in T PROVE i \in T
    <3>1. i \in 0 .. n /\ i \in Nat
      BY <1>1
    <3>2. CASE i = 1
      <4>1. Top(1, 1)
        BY <1>1, <2>1
      <4> QED BY <3>1, <3>2, <4>1
    <3>3. CASE i # 1
      <4>1. PICK k : Top(i - 1, k)
        BY <2>3, <3>1, <3>3
      <4>0. k \in 1 .. (i - 1) /\ \A h \in 1 .. (i - 1) : s[h] <= s[k]
        BY <4>1
      <4>2. k \in 1 .. i /\ k \in 1 .. n
        BY <1>1, <3>1, <4>0
      <4>3. \A h \in 1 .. i : h = i \/ h \in 1 .. (i - 1)
        BY <3>1
      <4>4. s[i] \in Int /\ s[k] \in Int /\ \A h \in 1 .. i : s[h] \in Int
        BY <1>1, <4>2
      <4>5. CASE s[i] <= s[k]
        BY <3>1, <4>0, <4>2, <4>3, <4>5
      <4>6. CASE s[k] < s[i]
        <5>1. Top(i, i)
          BY <3>1, <4>0, <4>2, <4>3, <4>4, <4>6
        <5> QED BY <3>1, <5>1
      <4> QED BY <4>4, <4>5, <4>6
    <3> QED BY <3>2, <3>3
  <2> HIDE DEF T
  <2>4. 0 .. n \subseteq T
    BY <1>1, <2>2, <2>3, Climb
  <2>5. \E k : Top(n, k)
    <3>1. n \in 0 .. n
      BY <1>1
    <3> QED BY <2>1, <2>4, <3>1 DEF T
  <2>6. PICK k : Top(n, k)
    BY <2>5
  <2>7. s[k] \in ToSet(s) /\ \A y \in ToSet(s) : s[k] >= y
    BY <1>1, <2>6 DEF ToSet
  <2>8. Max(ToSet(s)) \in ToSet(s)
    BY <2>7 DEF Max
  <2>9. \A y \in ToSet(s) : y \in Int
    BY <1>1 DEF ToSet
  <2> QED BY <1>3, <2>8, <2>9 DEF LargestOf
<1> QED BY <1>2, <1>3

-----------------------------------------------------------------------------
(* The review: the time a player was away                                  *)

\* One step of ownDisconnectSpans.
SpanRead(p, s, e) ==
    IF e.actor # p THEN s
    ELSE IF e.type = "PLAYER_DISCONNECTED" /\ s.open = None
    THEN [s EXCEPT !.open = e.at]
    ELSE IF e.type = "PLAYER_RECONNECTED" /\ s.open # None
    THEN [spans |-> Append(s.spans, [from |-> s.open, to |-> e.at]), open |-> None]
    ELSE s

NeverAway == [spans |-> <<>>, open |-> None]

Span == [from : Nat, to : Nat]
Absence == [spans : Seq(Span), open : Nat \cup {None}]

\* r goes along the stream.
Spanned(ev, p, r) ==
    /\ r[0] = NeverAway
    /\ \A i \in 0 .. Len(ev) : r[i] \in Absence
    /\ \A i \in 1 .. Len(ev) : r[i] = SpanRead(p, r[i - 1], ev[i])

ClosedSpans(s, at) == IF s.open = None THEN s.spans ELSE Append(s.spans, [from |-> s.open, to |-> at])

LEMMA SpanType ==
    ASSUME NEW s \in Absence, NEW p, NEW e, e.at \in Nat
    PROVE  SpanRead(p, s, e) \in Absence
<1>1. s.spans \in Seq(Span) /\ s.open \in Nat \cup {None}
  BY DEF Absence
<1>2. s.open # None => Append(s.spans, [from |-> s.open, to |-> e.at]) \in Seq(Span)
  <2>1. s.open # None => [from |-> s.open, to |-> e.at] \in Span
    BY <1>1 DEF Span
  <2> HIDE DEF Span
  <2> QED BY <1>1, <2>1
<1> QED BY <1>1, <1>2 DEF SpanRead, Absence

LEMMA SpansRun ==
    ASSUME NEW ev, TypedStream(ev), NEW p
    PROVE  \E r : Spanned(ev, p, r) /\ OwnDisconnectSpans(ev, p) = ClosedSpans(r[Len(ev)], Last(ev).at)
<1> DEFINE n == Len(ev)
           S == Absence
           b == NeverAway
           F == [i \in 1 .. n |-> [x \in S |-> SpanRead(p, x, ev[i])]]
           it == CHOOSE g : g = [t \in SUBSET (DOMAIN ev) |->
                     IF t = {} THEN b ELSE SpanRead(p, g[t \ {Max(t)}], ev[Max(t)])]
<1>0. PICK X : ev \in Seq(X)
  BY DEF TypedStream
<1>1. n \in Nat /\ DOMAIN ev = 1 .. n /\ b \in S /\ \A i \in 1 .. n : ev[i].at \in Nat
  <2>1. b \in S
    BY DEF NeverAway, Absence
  <2> QED BY <1>0, <2>1 DEF TypedStream
<1>2. F \in [1 .. n -> [S -> S]]
  <2>1. ASSUME NEW i \in 1 .. n, NEW x \in S PROVE SpanRead(p, x, ev[i]) \in S
    BY <1>1, SpanType
  <2> HIDE DEF S
  <2> QED BY <2>1
<1>3. PICK g \in [SUBSET (1 .. n) -> S] : \A t \in SUBSET (1 .. n) :
          g[t] = IF t = {} THEN b ELSE F[Max(t)][g[t \ {Max(t)}]]
  <2> HIDE DEF F, S, n, it, b
  <2>1. \E g : FoldSolution(n, S, b, F, g)
    BY <1>1, <1>2, FoldExists
  <2> QED BY <2>1 DEF FoldSolution
<1> HIDE DEF S, b
<1>4. ASSUME NEW t \in SUBSET (1 .. n), t # {}
      PROVE  F[Max(t)][g[t \ {Max(t)}]] = SpanRead(p, g[t \ {Max(t)}], ev[Max(t)])
  <2>1. Max(t) \in 1 .. n
    BY <1>1, <1>4, Extremes
  <2>2. g[t \ {Max(t)}] \in S
    OBVIOUS
  <2> QED BY <2>1, <2>2
<1>5. g = [t \in SUBSET (DOMAIN ev) |->
              IF t = {} THEN b ELSE SpanRead(p, g[t \ {Max(t)}], ev[Max(t)])]
  <2> HIDE DEF F, n
  <2> QED BY <1>1, <1>3, <1>4
<1>6. it = [t \in SUBSET (DOMAIN ev) |->
               IF t = {} THEN b ELSE SpanRead(p, it[t \ {Max(t)}], ev[Max(t)])]
  BY <1>5
<1>7. OwnDisconnectSpans(ev, p) = ClosedSpans(it[DOMAIN ev], Last(ev).at)
  BY DEF OwnDisconnectSpans, FoldLeft, MapThenFoldSet, SpanRead, b, NeverAway, ClosedSpans
<1> HIDE DEF it
<1>8. it[1 .. 0] = b
  BY <1>1, <1>6
<1>9. ASSUME NEW i \in 1 .. n PROVE it[1 .. i] = SpanRead(p, it[1 .. (i - 1)], ev[i])
  <2>0. n \in Nat /\ i \in 1 .. i
    BY <1>1
  <2>1. Max(1 .. i) = i /\ (1 .. i) \ {i} = 1 .. (i - 1) /\ 1 .. i # {}
    BY <2>0, LastOfSegment
  <2>2. 1 .. i \in SUBSET (DOMAIN ev)
    BY <1>1
  <2> QED BY <1>6, <2>1, <2>2
<1>10. ASSUME NEW i \in 1 .. n, it[1 .. (i - 1)] \in S
       PROVE  it[1 .. i] = F[i][it[1 .. (i - 1)]]
  BY <1>9, <1>10
<1>11. \A i \in 0 .. n : it[1 .. i] \in S
  <2>1. Walks(n, S, F, it)
    BY <1>10 DEF Walks
  <2>2. n \in Nat /\ b \in S
    BY <1>1
  <2> HIDE DEF F, n
  <2> QED BY <1>2, <1>8, <2>1, <2>2, FoldWalk
<1> DEFINE r == [i \in 0 .. n |-> it[1 .. i]]
<1>12. r[0] = b /\ OwnDisconnectSpans(ev, p) = ClosedSpans(r[n], Last(ev).at)
       /\ \A i \in 0 .. n : r[i] \in S
  BY <1>1, <1>7, <1>8, <1>11
<1>13. ASSUME NEW i \in 1 .. n PROVE r[i] = SpanRead(p, r[i - 1], ev[i])
  <2>1. i - 1 \in 0 .. n /\ i \in 0 .. n
    BY <1>1
  <2> QED BY <1>9, <2>1
<1>14. Spanned(ev, p, r)
  BY <1>12, <1>13 DEF Spanned, S, b
<1> QED BY <1>12, <1>14

\* One step of pausedWithin, and what a span contributes to it.
Overlap(s, from, to) == (IF to < s.to THEN to ELSE s.to) - (IF from > s.from THEN from ELSE s.from)
Clip(s, from, to) == IF Overlap(s, from, to) > 0 THEN Overlap(s, from, to) ELSE 0
PauseRead(sum, s, from, to) == IF Overlap(s, from, to) > 0 THEN sum + Overlap(s, from, to) ELSE sum

LEMMA ClipType ==
    ASSUME NEW s \in Span, NEW from \in Nat, NEW to \in Nat
    PROVE  /\ Clip(s, from, to) \in Nat
           /\ \A sum \in Nat : PauseRead(sum, s, from, to) = sum + Clip(s, from, to)
<1>1. s.from \in Nat /\ s.to \in Nat
  BY DEF Span
<1> QED BY <1>1 DEF Clip, PauseRead, Overlap

LEMMA PausedRun ==
    ASSUME NEW s \in Seq(Span), NEW from \in Nat, NEW to \in Nat
    PROVE  \E q : /\ q[0] = 0 /\ PausedWithin(s, from, to) = q[Len(s)]
                  /\ \A i \in 0 .. Len(s) : q[i] \in Nat
                  /\ \A i \in 1 .. Len(s) : q[i] = q[i - 1] + Clip(s[i], from, to)
<1> DEFINE n == Len(s)
           S == Nat
           b == 0
           F == [i \in 1 .. n |-> [x \in S |-> PauseRead(x, s[i], from, to)]]
           it == CHOOSE g : g = [t \in SUBSET (DOMAIN s) |->
                     IF t = {} THEN b ELSE PauseRead(g[t \ {Max(t)}], s[Max(t)], from, to)]
<1>1. n \in Nat /\ DOMAIN s = 1 .. n /\ b \in S /\ \A i \in 1 .. n : s[i] \in Span
  OBVIOUS
<1>2. F \in [1 .. n -> [S -> S]]
  <2>1. ASSUME NEW i \in 1 .. n, NEW x \in S PROVE PauseRead(x, s[i], from, to) \in S
    <3>1. s[i] \in Span
      BY <1>1
    <3>2. Clip(s[i], from, to) \in Nat /\ PauseRead(x, s[i], from, to) = x + Clip(s[i], from, to)
      BY <3>1, ClipType
    <3> QED BY <3>2
  <2> HIDE DEF S
  <2> QED BY <2>1
<1>3. PICK g \in [SUBSET (1 .. n) -> S] : \A t \in SUBSET (1 .. n) :
          g[t] = IF t = {} THEN b ELSE F[Max(t)][g[t \ {Max(t)}]]
  <2> HIDE DEF F, S, n, it, b
  <2>1. \E g : FoldSolution(n, S, b, F, g)
    BY <1>1, <1>2, FoldExists
  <2> QED BY <2>1 DEF FoldSolution
<1> HIDE DEF S, b
<1>4. ASSUME NEW t \in SUBSET (1 .. n), t # {}
      PROVE  F[Max(t)][g[t \ {Max(t)}]] = PauseRead(g[t \ {Max(t)}], s[Max(t)], from, to)
  <2>1. Max(t) \in 1 .. n
    BY <1>1, <1>4, Extremes
  <2>2. g[t \ {Max(t)}] \in S
    OBVIOUS
  <2> QED BY <2>1, <2>2
<1>5. g = [t \in SUBSET (DOMAIN s) |->
              IF t = {} THEN b ELSE PauseRead(g[t \ {Max(t)}], s[Max(t)], from, to)]
  <2> HIDE DEF F, n
  <2> QED BY <1>1, <1>3, <1>4
<1>6. it = [t \in SUBSET (DOMAIN s) |->
               IF t = {} THEN b ELSE PauseRead(it[t \ {Max(t)}], s[Max(t)], from, to)]
  BY <1>5
<1>7. PausedWithin(s, from, to) = it[DOMAIN s]
  BY DEF PausedWithin, FoldLeft, MapThenFoldSet, PauseRead, Overlap, b
<1> HIDE DEF it
<1>8. it[1 .. 0] = b
  BY <1>1, <1>6
<1>9. ASSUME NEW i \in 1 .. n PROVE it[1 .. i] = PauseRead(it[1 .. (i - 1)], s[i], from, to)
  <2>1. Max(1 .. i) = i /\ (1 .. i) \ {i} = 1 .. (i - 1) /\ 1 .. i # {}
    BY <1>1, LastOfSegment
  <2>2. 1 .. i \in SUBSET (DOMAIN s)
    BY <1>1
  <2> QED BY <1>6, <2>1, <2>2
<1>10. ASSUME NEW i \in 1 .. n, it[1 .. (i - 1)] \in S
       PROVE  it[1 .. i] = F[i][it[1 .. (i - 1)]]
  BY <1>9, <1>10
<1>11. \A i \in 0 .. n : it[1 .. i] \in S
  <2>1. Walks(n, S, F, it)
    BY <1>10 DEF Walks
  <2>2. n \in Nat /\ b \in S
    BY <1>1
  <2> HIDE DEF F, n
  <2> QED BY <1>2, <1>8, <2>1, <2>2, FoldWalk
<1> DEFINE q == [i \in 0 .. n |-> it[1 .. i]]
<1>12. q[0] = 0 /\ PausedWithin(s, from, to) = q[n] /\ \A i \in 0 .. n : q[i] \in Nat
  BY <1>1, <1>7, <1>8, <1>11 DEF S, b
<1>13. ASSUME NEW i \in 1 .. n PROVE q[i] = q[i - 1] + Clip(s[i], from, to)
  <2>1. i - 1 \in 0 .. n /\ i \in 0 .. n /\ s[i] \in Span
    BY <1>1
  <2>2. q[i] = PauseRead(q[i - 1], s[i], from, to) /\ q[i - 1] \in Nat
    BY <1>9, <1>12, <2>1
  <2> HIDE DEF q
  <2> QED BY <2>1, <2>2, ClipType
<1> QED BY <1>12, <1>13

LEMMA PausedType ==
    ASSUME NEW s \in Seq(Span), NEW from \in Nat, NEW to \in Nat
    PROVE  PausedWithin(s, from, to) \in Nat
<1>1. PICK q : /\ q[0] = 0 /\ PausedWithin(s, from, to) = q[Len(s)]
               /\ \A i \in 0 .. Len(s) : q[i] \in Nat
               /\ \A i \in 1 .. Len(s) : q[i] = q[i - 1] + Clip(s[i], from, to)
  BY PausedRun
<1>2. Len(s) \in Nat
  OBVIOUS
<1>3. Len(s) \in 0 .. Len(s)
  BY <1>2
<1> QED BY <1>1, <1>3

\* One more span adds what it contributes.
LEMMA PausedAppend ==
    ASSUME NEW s \in Seq(Span), NEW x \in Span, NEW from \in Nat, NEW to \in Nat
    PROVE  PausedWithin(Append(s, x), from, to) = PausedWithin(s, from, to) + Clip(x, from, to)
<1> DEFINE n == Len(s)
           t == Append(s, x)
<1>0. n \in Nat
  OBVIOUS
<1>1. t \in Seq(Span) /\ Len(t) = n + 1 /\ t[n + 1] = x /\ \A i \in 1 .. n : t[i] = s[i]
  <2> HIDE DEF Span
  <2> QED OBVIOUS
<1>2. PICK q : /\ q[0] = 0 /\ PausedWithin(s, from, to) = q[n]
               /\ \A i \in 0 .. n : q[i] \in Nat
               /\ \A i \in 1 .. n : q[i] = q[i - 1] + Clip(s[i], from, to)
  BY PausedRun
<1> HIDE DEF n, t
<1>3. PICK r : /\ r[0] = 0 /\ PausedWithin(t, from, to) = r[n + 1]
               /\ \A i \in 1 .. n + 1 : r[i] = r[i - 1] + Clip(t[i], from, to)
  <2>1. \E r : /\ r[0] = 0 /\ PausedWithin(t, from, to) = r[Len(t)]
               /\ \A i \in 0 .. Len(t) : r[i] \in Nat
               /\ \A i \in 1 .. Len(t) : r[i] = r[i - 1] + Clip(t[i], from, to)
    BY <1>1, PausedRun
  <2> QED BY <1>1, <2>1
<1> DEFINE T == {i \in 0 .. n : r[i] = q[i]}
<1>4. 0 \in T
  BY <1>0, <1>2, <1>3
<1>5. ASSUME NEW i \in 1 .. n, i - 1 \in T PROVE i \in T
  <2>1. i \in 0 .. n /\ i \in 1 .. n + 1
    BY <1>0
  <2> QED BY <1>1, <1>2, <1>3, <1>5, <2>1
<1>6. 0 .. n \subseteq T
  <2> HIDE DEF T
  <2> QED BY <1>0, <1>4, <1>5, Climb
<1>7. n \in 0 .. n /\ n + 1 \in 1 .. n + 1 /\ (n + 1) - 1 = n
  BY <1>0
<1>8. r[n + 1] = q[n] + Clip(x, from, to)
  BY <1>1, <1>3, <1>6, <1>7
<1> QED BY <1>2, <1>3, <1>8 DEF t, n

LEMMA NothingPaused == \A from, to \in Nat : PausedWithin(<<>>, from, to) = 0
<1> SUFFICES ASSUME NEW from \in Nat, NEW to \in Nat PROVE PausedWithin(<<>>, from, to) = 0
  OBVIOUS
<1>1. <<>> \in Seq(Span) /\ Len(<<>>) = 0
  OBVIOUS
<1>2. \E q : /\ q[0] = 0 /\ PausedWithin(<<>>, from, to) = q[Len(<<>>)]
             /\ \A i \in 0 .. Len(<<>>) : q[i] \in Nat
             /\ \A i \in 1 .. Len(<<>>) : q[i] = q[i - 1] + Clip(<<>>[i], from, to)
  BY <1>1, PausedRun
<1> QED BY <1>1, <1>2

\* The thinking time of the review is a time.
LEMMA ActiveTimeType ==
    ASSUME NEW ev, TypedStream(ev), NEW p, NEW from \in Nat, NEW to \in Nat
    PROVE  ActiveTime(ev, p, from, to) \in Nat
<1>1. PICK r : Spanned(ev, p, r) /\ OwnDisconnectSpans(ev, p) = ClosedSpans(r[Len(ev)], Last(ev).at)
  BY SpansRun
<1>2. PICK X : ev \in Seq(X)
  BY DEF TypedStream
<1>3. Len(ev) \in Nat /\ Last(ev).at \in Nat /\ Len(ev) \in 0 .. Len(ev)
  BY <1>2 DEF TypedStream, Last
<1>4. r[Len(ev)] \in Absence
  BY <1>1, <1>3 DEF Spanned
<1> DEFINE s == r[Len(ev)]
           at == Last(ev).at
<1>5. s \in Absence /\ at \in Nat /\ OwnDisconnectSpans(ev, p) = ClosedSpans(s, at)
  BY <1>1, <1>3, <1>4
<1> HIDE DEF s, at
<1>6. ClosedSpans(s, at) \in Seq(Span)
  <2>1. s.spans \in Seq(Span) /\ s.open \in Nat \cup {None}
    BY <1>5 DEF Absence
  <2>2. s.open # None => [from |-> s.open, to |-> at] \in Span
    BY <1>5, <2>1 DEF Span
  <2> QED BY <2>1, <2>2 DEF ClosedSpans
<1>7. PausedWithin(OwnDisconnectSpans(ev, p), from, to) \in Nat
  BY <1>5, <1>6, PausedType
<1> QED BY <1>7 DEF ActiveTime

-----------------------------------------------------------------------------
(* Progress: a match that has begun                                        *)

\* The match has been started, on terms that leave room for a deal, and a deal
\* has a price and an end.
Begun(m, ev) ==
    /\ m.rv["BUYER"] > m.rv["SELLER"]
    /\ m.status = "DEAL" => m.settlement \in Amount /\ m.completedAt \in Nat
    /\ \E k \in DOMAIN ev : ev[k].type = "MATCH_STARTED"

LEMMA BegunStays ==
    ASSUME NEW m, NEW ev, NEW n, NEW nv, NEW c, NEW t, Told(m, ev, n, nv, c, t), Begun(m, ev)
    PROVE  Begun(n, nv)
<1>1. /\ m \in Match /\ ~Terminal(m) /\ t \in Nat /\ WellFormed(c) /\ Accepted(m, c, t)
      /\ n = Applied(m, c, t)
  BY DEF Told
<1>2. BidsFollow(m, c, n) /\ GoesOnOrEnds(m, c, n)
  BY <1>1, AppliedBids, AppliedEnds
<1>3. n.rv["BUYER"] > n.rv["SELLER"]
  BY <1>2 DEF BidsFollow, Begun
<1>4. \E k \in DOMAIN nv : nv[k].type = "MATCH_STARTED"
  BY NewEvents DEF Begun
<1>5. ASSUME n.status = "DEAL" PROVE n.settlement \in Amount /\ n.completedAt \in Nat
  <2>1. c.kind = "ACCEPT"
    BY <1>1, <1>2, <1>5 DEF GoesOnOrEnds, Terminal, Endings
  <2>2. n = AfterAccept(m, c.by, t) /\ c.by \in Player
    BY <1>1, <2>1 DEF Applied, WellFormed
  <2>3. m.latest[Other(c.by)] \in Amount
    BY <1>1, <2>1, <2>2, OtherIsPlayer DEF Accepted, CanAccept, Match
  <2>4. n.settlement = m.latest[Other(c.by)]
    BY <1>2, <2>1 DEF BidsFollow
  <2>5. n.completedAt = t
    BY <1>1, <2>2 DEF AfterAccept, Ended, Handover, Match
  <2> QED BY <1>1, <2>3, <2>4, <2>5
<1> QED BY <1>3, <1>4, <1>5 DEF Begun

LEMMA PlayBegun == PlaySpec => [](PlayInv /\ Begun(match, events))
<1>1. PlayInit => Begun(match, events)
  <2> SUFFICES ASSUME PlayInit PROVE Begun(match, events)
    OBVIOUS
  <2>1. PICK rv \in Reservations, first \in Player :
            match = Opening(rv, first).match /\ events = Opening(rv, first).events
    BY DEF PlayInit
  <2>2. rv \in [Player -> Amount] /\ rv["BUYER"] > rv["SELLER"]
    BY ReviewAssumption
  <2> QED BY <2>1, <2>2, OpeningStream DEF Begun
<1>2. PlayInv /\ Begun(match, events) /\ [PlayNext]_playVars => Begun(match, events)'
  <2> SUFFICES ASSUME PlayInv, Begun(match, events), [PlayNext]_playVars
               PROVE  Begun(match', events')
    OBVIOUS
  <2>1. CASE PlayNext
    BY <2>1, PlayTold, BegunStays
  <2>2. CASE UNCHANGED playVars
    BY <2>2 DEF playVars
  <2> QED BY <2>1, <2>2
<1> QED BY <1>1, <1>2, PlayInvariant, PTL DEF PlaySpec

-----------------------------------------------------------------------------
(* Progress: the row a finished match adds                                 *)

LEMMA StartTimeType ==
    ASSUME NEW m, NEW ev, TypedStream(ev), Begun(m, ev)
    PROVE  StartTime(ev) \in Nat
<1>1. PICK S : ev \in Seq(S)
  BY DEF TypedStream
<1>2. Len(ev) \in Nat /\ \A k : k \in DOMAIN ev <=> k \in 1 .. Len(ev)
  BY <1>1
<1>3. FirstAt(ev, {"MATCH_STARTED"}) \in 1 .. Len(ev)
  BY <1>2, FirstAtIs DEF Begun
<1> QED BY <1>2, <1>3 DEF StartTime, TypedStream

\* What the reading has found takes a time.
Timed(s) == s.grant \in Nat /\ \A k \in 1 .. Len(s.moves) : s.moves[k].active \in Nat

LEMMA MovesTimed ==
    ASSUME NEW ev, TypedStream(ev), NEW p, StartTime(ev) \in Nat
    PROVE  LET moves == ClassifyMoves(ev, p) IN
           /\ Len(moves) \in Nat /\ \A k \in 1 .. Len(moves) : moves[k].active \in Nat
<1> DEFINE n == Len(ev)
<1>1. PICK S : ev \in Seq(S)
  BY DEF TypedStream
<1>2. n \in Nat /\ \A i \in 1 .. n : i \in DOMAIN ev
  BY <1>1
<1>3. PICK q : /\ q[0] = NothingRead(ev) /\ ClassifyMoves(ev, p) = q[n].moves
               /\ \A i \in 0 .. n : q[i] \in ReadingsIn(ev, p)
               /\ \A i \in 1 .. n : q[i] = EventRead(ev, p, q[i - 1], i)
  BY <1>1, MovesRun
<1> DEFINE R == {i \in 0 .. n : Timed(q[i])}
<1>4. 0 \in R
  <2>1. Len(<<>>) = 0 /\ 0 \in 0 .. n
    BY <1>2
  <2> QED BY <1>3, <2>1 DEF NothingRead, Timed
<1>5. ASSUME NEW i \in 1 .. n, i - 1 \in R PROVE i \in R
  <2> DEFINE s == q[i - 1]
  <2>1. s \in ReadingsIn(ev, p) /\ Timed(s) /\ ev[i].at \in Nat /\ i \in 0 .. n
    BY <1>2, <1>3, <1>5 DEF TypedStream
  <2>2. q[i] = EventRead(ev, p, s, i)
    BY <1>3
  <2> HIDE DEF s
  <2>3. MoveRead(ev, p, s, i).active \in Nat
    <3>1. ActiveTime(ev, p, s.grant, ev[i].at) \in Nat
      BY <2>1, ActiveTimeType DEF Timed
    <3> QED BY <3>1 DEF MoveRead
  <2>4. \A x : Append(s.moves, x)[Len(s.moves) + 1] = x /\ Len(Append(s.moves, x)) = Len(s.moves) + 1
        /\ \A k \in 1 .. Len(s.moves) : Append(s.moves, x)[k] = s.moves[k]
    BY <2>1 DEF ReadingsIn
  <2>5. Len(s.moves) \in Nat
    BY <2>1 DEF ReadingsIn
  <2> DEFINE x == MoveRead(ev, p, s, i)
             w == AfterOwnOffer(s, x)
  <2>6. w.moves = Append(s.moves, x) /\ w.grant = s.grant
    BY <2>1 DEF AfterOwnOffer, ReadingsIn
  <2> HIDE DEF x, w
  <2>7. Timed(w)
    BY <2>1, <2>3, <2>4, <2>5, <2>6 DEF Timed, x
  <2>8. Timed(EventRead(ev, p, s, i))
    BY <2>1, <2>7 DEF EventRead, Timed, ReadingsIn, w, x
  <2> QED BY <2>1, <2>2, <2>8
<1> HIDE DEF R
<1>6. 0 .. n \subseteq R
  BY <1>2, <1>4, <1>5, Climb
<1>7. Timed(q[n]) /\ q[n] \in ReadingsIn(ev, p)
  BY <1>2, <1>3, <1>6 DEF R
<1>8. Len(q[n].moves) \in Nat
  BY <1>7 DEF ReadingsIn
<1> QED BY <1>3, <1>7, <1>8 DEF Timed

LEMMA FinalDecisionType ==
    ASSUME NEW ev, TypedStream(ev), NEW p, StartTime(ev) \in Nat
    PROVE  FinalDecisionMs(ev, p) \in Nat \cup {None}
<1> DEFINE k == FirstAt(ev, Decisive)
           late == SelectInSeq(ev, LAMBDA e : e.at >= ev[k].at)
           Answers(e) == e.type = "OFFER_SUBMITTED" /\ e.actor = Other(p)
           offer == SelectLastInSubSeq(ev, 1, late - 1, Answers)
           from == IF offer = 0 THEN StartTime(ev) ELSE ev[offer].at
<1>1. FinalDecisionMs(ev, p) = IF k = 0 \/ ev[k].actor # p THEN None
                               ELSE ActiveTime(ev, p, from, ev[k].at)
  BY DEF FinalDecisionMs
<1>2. PICK S : ev \in Seq(S)
  BY DEF TypedStream
<1>3. Len(ev) \in Nat /\ \A i \in 1 .. Len(ev) : i \in DOMAIN ev
  BY <1>2
<1>4. k \in 0 .. Len(ev)
  BY <1>3, FirstAtIs
<1>5. CASE k = 0
  BY <1>1, <1>5
<1>6. CASE k \in 1 .. Len(ev)
  <2> DEFINE J == {i \in 1 .. Len(ev) : ev[i].at >= ev[k].at}
  <2>1. k \in J /\ J \subseteq 1 .. Len(ev) /\ ev[k].at \in Nat
    BY <1>3, <1>6 DEF TypedStream
  <2>2. late = Min(J)
    BY <2>1 DEF SelectInSeq
  <2>3. late \in 1 .. Len(ev)
    <3> HIDE DEF J
    <3> QED BY <1>3, <2>1, <2>2, Extremes
  <2> HIDE DEF late, J
  <2> DEFINE I == {i \in 1 .. (late - 1) : Answers(ev[i])}
  <2>4. offer = IF I # {} THEN Max(I) ELSE 0
    BY DEF SelectLastInSubSeq
  <2>5. I \subseteq 1 .. (late - 1) /\ late - 1 \in Nat
    BY <2>3
  <2> HIDE DEF I, offer
  <2>6. offer = 0 \/ offer \in 1 .. (late - 1)
    BY <2>4, <2>5, Extremes
  <2>7. from \in Nat
    BY <1>3, <2>3, <2>6 DEF TypedStream
  <2> HIDE DEF from
  <2>8. ActiveTime(ev, p, from, ev[k].at) \in Nat
    BY <2>1, <2>7, ActiveTimeType
  <2> QED BY <1>1, <2>8
<1> QED BY <1>4, <1>5, <1>6

LEMMA DecisionTimesType ==
    ASSUME NEW ev, TypedStream(ev), NEW p, StartTime(ev) \in Nat
    PROVE  DecisionTimes(ev, p, ClassifyMoves(ev, p)) \in Seq(Int)
<1> DEFINE moves == ClassifyMoves(ev, p)
           final == FinalDecisionMs(ev, p)
           n == Len(moves)
           s == [i \in 1 .. n |-> moves[i].active]
           f == IF final = None THEN <<>> ELSE <<final>>
<1>1. n \in Nat /\ \A k \in 1 .. n : moves[k].active \in Nat
  BY MovesTimed
<1>2. PICK S : ev \in Seq(S)
  BY DEF TypedStream
<1>3. PICK q : /\ moves = q[Len(ev)].moves
               /\ \A i \in 0 .. Len(ev) : q[i] \in ReadingsIn(ev, p)
  BY <1>2, MovesRun
<1>4. moves \in Seq(MovesIn(ev, p))
  <2>1. Len(ev) \in 0 .. Len(ev)
    BY <1>2
  <2> QED BY <1>3, <2>1 DEF ReadingsIn
<1>5. DOMAIN moves = 1 .. n
  BY <1>4
<1> HIDE DEF moves, n
<1>6. s \in Seq(Int)
  BY <1>1
<1>7. f \in Seq(Int)
  BY FinalDecisionType
<1>8. DecisionTimes(ev, p, moves) = s \o f
  BY <1>5 DEF DecisionTimes
<1> HIDE DEF s, f
<1>9. s \o f \in Seq(Int)
  BY <1>6, <1>7
<1> QED BY <1>8, <1>9 DEF moves

\* How far each concession goes.
LEMMA StepsType ==
    ASSUME NEW ev, TypedStream(ev), NEW p \in Player
    PROVE  LET given == Concessions(ClassifyMoves(ev, p)) IN
           [i \in DOMAIN given |-> Gap(given[i].amount, given[i].previous)] \in Seq(Int)
<1> DEFINE moves == ClassifyMoves(ev, p)
           given == Concessions(moves)
           M == MovesIn(ev, p)
<1>1. moves \in Seq(M) /\ OffersOfPlayer(ev, p, Len(ev), moves)
  BY MovesAreOffers
<1>2. /\ given \in Seq(M) /\ Len(given) = IF Len(moves) = 0 THEN 0 ELSE Len(moves) - 1
      /\ \A k \in 1 .. Len(given) : given[k] = moves[k + 1]
  BY ConcessionsAreLater
<1> HIDE DEF moves, given, M
<1>3. Len(given) \in Nat /\ DOMAIN given = 1 .. Len(given)
  BY <1>2
<1> DEFINE l == Len(given)
<1> HIDE DEF l
<1>4. ASSUME NEW i \in 1 .. l PROVE Gap(given[i].amount, given[i].previous) \in Int
  <2>1. /\ i + 1 \in 1 .. Len(moves) /\ i + 1 >= 2 /\ given[i] = moves[i + 1]
        /\ i \in 1 .. Len(moves) /\ i + 1 - 1 = i
    BY <1>1, <1>2, <1>3, <1>4 DEF l
  <2>2. ASSUME NEW k \in 1 .. Len(moves) PROVE moves[k].amount \in Amount
    <3>1. /\ moves[k].seq \in 1 .. Len(ev) /\ BidAt(ev, p, moves[k].seq)
          /\ moves[k].amount = ev[moves[k].seq].arg.amount
      BY <1>1 DEF OffersOfPlayer
    <3>2. \A h \in 1 .. Len(ev) : h \in DOMAIN ev
      BY DEF TypedStream
    <3> QED BY <3>1, <3>2 DEF BidAt, TypedStream
  <2>3. moves[i + 1].previous = moves[i].amount
    <3>1. i + 1 # 1
      BY <1>3, <1>4 DEF l
    <3> QED BY <1>1, <2>1, <3>1 DEF OffersOfPlayer
  <2>4. given[i].amount \in Int /\ given[i].previous \in Int
    BY <2>1, <2>2, <2>3, AmountsAreIntegers
  <2> QED BY <2>4 DEF Gap
<1> QED BY <1>3, <1>4 DEF given, moves, l

\* When the offers crossed, if they did, some event came.
LEMMA CrossType ==
    ASSUME NEW ev, TypedStream(ev)
    PROVE  FirstCrossAt(ev) \in Nat \cup {None}
<1> DEFINE met == {n \in DOMAIN ev : LET b == LatestOffer(ev, "BUYER", n)
                                         s == LatestOffer(ev, "SELLER", n)
                                     IN  b # None /\ s # None /\ b >= s}
           first == CHOOSE n \in met : \A k \in met : n <= k
<1>1. FirstCrossAt(ev) = IF met = {} THEN None ELSE ev[first].at
  BY DEF FirstCrossAt
<1>2. PICK S : ev \in Seq(S)
  BY DEF TypedStream
<1>3. met \subseteq Nat /\ met \subseteq DOMAIN ev
  BY <1>2
<1> HIDE DEF met
<1>4. met # {} => \E n \in met : \A k \in met : n <= k
  BY <1>3, LeastMember
<1>5. met # {} => first \in met
  BY <1>4
<1> HIDE DEF first
<1> QED BY <1>1, <1>3, <1>5 DEF TypedStream

LEMMA ShareType ==
    ASSUME NEW m \in Match, m.rv["BUYER"] > m.rv["SELLER"], NEW p \in Player, NEW a \in Amount
    PROVE  (100 * SurplusShare(m, p, a)) \div Zopa(m) \in Int
<1>1. m.rv["BUYER"] \in Int /\ m.rv["SELLER"] \in Int /\ m.rv[p] \in Int /\ a \in Int
  BY AmountsAreIntegers DEF Match, Player
<1>2. Zopa(m) \in Int /\ Zopa(m) > 0
  BY <1>1 DEF Zopa
<1>3. SurplusShare(m, p, a) \in Int
  BY <1>1 DEF SurplusShare
<1> HIDE DEF Zopa, SurplusShare
<1> DEFINE x == 100 * SurplusShare(m, p, a)
           y == Zopa(m)
<1>4. x \in Int /\ y \in Int /\ y > 0
  BY <1>2, <1>3
<1> HIDE DEF x, y
<1>5. x \div y \in Int
  BY <1>4
<1> QED BY <1>5 DEF x, y

\* The row a finished match adds is one records are kept of.
LEMMA RowType ==
    ASSUME NEW m \in Match, NEW ev, TypedStream(ev), Begun(m, ev), NEW p \in Player
    PROVE  LET row == RowOf(m, ev, p) IN
           /\ row.id = MatchId /\ row.outcome = Outcome(m)
           /\ \A key \in Records : row[key] \in Int \cup {None}
           /\ \A k \in Personas : LET r == [row EXCEPT !.persona = k] IN
                                  r.id = MatchId /\ r.outcome = Outcome(m)
<1> DEFINE row == RowOf(m, ev, p)
           moves == ClassifyMoves(ev, p)
           given == Concessions(moves)
           cross == FirstCrossAt(ev)
           share == IF m.status = "DEAL" THEN (100 * SurplusShare(m, p, m.settlement)) \div Zopa(m)
                    ELSE None
           close == IF m.status = "DEAL" /\ cross # None THEN m.completedAt - cross ELSE None
           times == DecisionTimes(ev, p, moves)
           steps == [i \in DOMAIN given |-> Gap(given[i].amount, given[i].previous)]
<1>1. row = [id |-> MatchId, endedAt |-> m.completedAt, outcome |-> Outcome(m), persona |-> None,
             share |-> share, close |-> close, hold |-> LargestOf(times), step |-> LargestOf(steps)]
  BY DEF RowOf
<1>2. StartTime(ev) \in Nat
  BY StartTimeType
<1>3. share \in Int \cup {None}
  BY ShareType DEF Begun
<1>4. close \in Int \cup {None}
  BY CrossType DEF Begun
<1>5. LargestOf(times) \in Int \cup {None}
  BY <1>2, DecisionTimesType, LargestOfType
<1>6. LargestOf(steps) \in Int \cup {None}
  BY StepsType, LargestOfType
<1> HIDE DEF share, close, times, steps, row
<1>7. \A key \in Records : row[key] \in Int \cup {None}
  BY <1>1, <1>3, <1>4, <1>5, <1>6 DEF Records
<1>8. row.id = MatchId /\ row.outcome = Outcome(m)
  BY <1>1
<1>9. \A k \in Personas : [row EXCEPT !.persona = k].id = MatchId
                          /\ [row EXCEPT !.persona = k].outcome = Outcome(m)
  BY <1>1
<1> QED BY <1>7, <1>8, <1>9 DEF row

\* The other matches of the player.
OtherRows == {r \in Row : r.id # MatchId}

LEMMA HistoryType == ASSUME NEW h \in Histories PROVE h \in Seq(OtherRows)
<1>1. h \in Seq(Row) /\ \A i \in DOMAIN h : h[i].id # MatchId
  BY ProgressAssumption
<1>2. Len(h) \in Nat /\ DOMAIN h = 1 .. Len(h) /\ \A i \in 1 .. Len(h) : h[i] \in Row
  BY <1>1
<1>3. \A i \in 1 .. Len(h) : h[i] \in OtherRows
  BY <1>1, <1>2 DEF OtherRows
<1> DEFINE n == Len(h)
<1> HIDE DEF n
<1>4. h = [i \in 1 .. n |-> h[i]]
  BY <1>1, <1>2 DEF n
<1> QED BY <1>2, <1>3, <1>4 DEF n

LEMMA RowOnlyAdds ==
    ASSUME NEW m \in Match, NEW ev, TypedStream(ev), Begun(m, ev), NEW p \in Player,
           Outcome(m) # "ABORTED", NEW h \in Histories
    PROVE  OnlyAdds(h, RowOf(m, ev, p))
<1> DEFINE row == RowOf(m, ev, p)
           X == OtherRows
           s == Playable(h)
<1>1. /\ row.id = MatchId /\ row.outcome = Outcome(m)
      /\ \A key \in Records : row[key] \in Int \cup {None}
      /\ \A k \in Personas : LET r == [row EXCEPT !.persona = k] IN
                             r.id = MatchId /\ r.outcome = Outcome(m)
  BY RowType
<1> HIDE DEF row
<1>2. h \in Seq(X)
  BY HistoryType
<1>3. ASSUME NEW r, r.id = MatchId, r.outcome = Outcome(m)
      PROVE  /\ r \notin X /\ s \in Seq(X) /\ Playable(Append(h, r)) \in Seq(X \cup {r})
             /\ \E j : Inserted(s, j, r, Playable(Append(h, r)))
  <2>1. r \notin X
    BY <1>3 DEF OtherRows
  <2> HIDE DEF X, s
  <2>2. r.outcome # "ABORTED"
    BY <1>3
  <2> QED BY <2>1, <2>2, <1>2, PlayableInserted DEF s
<1>4. RecordsOnlyImprove(s, Playable(Append(h, row)), row)
  <2> DEFINE t == Playable(Append(h, row))
  <2>1. s \in Seq(X) /\ t \in Seq(X \cup {row}) /\ \E j : Inserted(s, j, row, t)
    BY <1>1, <1>3
  <2>2. PICK j : Inserted(s, j, row, t)
    BY <2>1
  <2> HIDE DEF s, t
  <2> SUFFICES ASSUME NEW key \in Records
               PROVE  RecordOnlyImproves(key, PersonalRecord(s, key), PersonalRecord(t, key), row)
    BY DEF RecordsOnlyImprove, t
  <2>3. RecordOf(key, s)
    <3>1. \A i \in 1 .. Len(s) : s[i] \in Row
      BY <2>1 DEF OtherRows
    <3>2. \A r \in Row : r[key] \in Int \cup {None}
      <4>1. CASE key = "share"
        BY <4>1 DEF Row
      <4>2. CASE key = "close"
        BY <4>2 DEF Row
      <4>3. CASE key = "hold"
        BY <4>3 DEF Row
      <4>4. CASE key = "step"
        BY <4>4 DEF Row
      <4> QED BY <4>1, <4>2, <4>3, <4>4 DEF Records
    <3> QED BY <3>1, <3>2 DEF RecordOf
  <2>4. row[key] \in Int \cup {None}
    BY <1>1
  <2> HIDE DEF X
  <2> QED BY <2>1, <2>2, <2>3, <2>4, RecordImproves
<1>5. ASSUME NEW k \in Personas
      PROVE  StreaksMoveAlone(s, Playable(Append(h, [row EXCEPT !.persona = k])),
                              [row EXCEPT !.persona = k])
  <2> DEFINE r == [row EXCEPT !.persona = k]
             t == Playable(Append(h, r))
  <2>1. r.id = MatchId /\ r.outcome = Outcome(m)
    BY <1>1
  <2> HIDE DEF r
  <2>2. r \notin X /\ s \in Seq(X) /\ t \in Seq(X \cup {r}) /\ \E j : Inserted(s, j, r, t)
    BY <1>3, <2>1
  <2> HIDE DEF X, s, t
  <2>3. PICK j : Inserted(s, j, r, t)
    BY <2>2
  <2>4. StreaksMoveAlone(s, t, r)
    BY <2>2, <2>3, StreaksAlone
  <2> QED BY <2>4 DEF r, t
<1> QED BY <1>4, <1>5 DEF OnlyAdds, row

\* A match that is added to a history, at its end or in the middle of it,
\* changes a record only by setting it, and never for the worse; against a
\* persona it extends the streak of deals by one or ends it, and it leaves the
\* streaks against the others alone (post-match-progress.ts:136-184, 208-209, 237-238).
THEOREM MatchOnlyAdds == PlaySpec => []ProgressOnlyAdds
<1>1. PlayInv /\ Begun(match, events) => ProgressOnlyAdds
  <2> SUFFICES ASSUME PlayInv, Begun(match, events), Outcome(match) # "ABORTED",
                      NEW p \in Player, NEW h \in Histories
               PROVE  OnlyAdds(h, RowOf(match, events, p))
    BY DEF ProgressOnlyAdds
  <2>1. match \in Match /\ TypedStream(events)
    BY DEF PlayInv, StreamInv, InOrder
  <2> QED BY <2>1, RowOnlyAdds
<1> QED BY <1>1, PlayBegun, PTL

-----------------------------------------------------------------------------
(* The review: sums                                                        *)

Total(s) == FoldLeft(LAMBDA t, d : t + d, 0, s)

LEMMA TotalRun ==
    ASSUME NEW s \in Seq(Int)
    PROVE  \E q : /\ q[0] = 0 /\ Total(s) = q[Len(s)]
                  /\ \A i \in 0 .. Len(s) : q[i] \in Int
                  /\ \A i \in 1 .. Len(s) : q[i] = q[i - 1] + s[i]
<1> DEFINE n == Len(s)
           S == Int
           b == 0
           F == [i \in 1 .. n |-> [x \in S |-> x + s[i]]]
           it == CHOOSE g : g = [t \in SUBSET (DOMAIN s) |->
                     IF t = {} THEN b ELSE g[t \ {Max(t)}] + s[Max(t)]]
<1>1. n \in Nat /\ DOMAIN s = 1 .. n /\ b \in S /\ \A i \in 1 .. n : s[i] \in Int
  OBVIOUS
<1>2. F \in [1 .. n -> [S -> S]]
  <2>1. ASSUME NEW i \in 1 .. n, NEW x \in S PROVE x + s[i] \in S
    BY <1>1
  <2> HIDE DEF S
  <2> QED BY <2>1
<1>3. PICK g \in [SUBSET (1 .. n) -> S] : \A t \in SUBSET (1 .. n) :
          g[t] = IF t = {} THEN b ELSE F[Max(t)][g[t \ {Max(t)}]]
  <2> HIDE DEF F, S, n, it, b
  <2>1. \E g : FoldSolution(n, S, b, F, g)
    BY <1>1, <1>2, FoldExists
  <2> QED BY <2>1 DEF FoldSolution
<1> HIDE DEF S, b
<1>4. ASSUME NEW t \in SUBSET (1 .. n), t # {}
      PROVE  F[Max(t)][g[t \ {Max(t)}]] = g[t \ {Max(t)}] + s[Max(t)]
  <2>1. Max(t) \in 1 .. n
    BY <1>1, <1>4, Extremes
  <2>2. g[t \ {Max(t)}] \in S
    OBVIOUS
  <2> QED BY <2>1, <2>2
<1>5. g = [t \in SUBSET (DOMAIN s) |->
              IF t = {} THEN b ELSE g[t \ {Max(t)}] + s[Max(t)]]
  <2> HIDE DEF F, n
  <2> QED BY <1>1, <1>3, <1>4
<1>6. it = [t \in SUBSET (DOMAIN s) |->
               IF t = {} THEN b ELSE it[t \ {Max(t)}] + s[Max(t)]]
  BY <1>5
<1>7. Total(s) = it[DOMAIN s]
  BY DEF Total, FoldLeft, MapThenFoldSet, b
<1> HIDE DEF it
<1>8. it[1 .. 0] = b
  BY <1>1, <1>6
<1>9. ASSUME NEW i \in 1 .. n PROVE it[1 .. i] = it[1 .. (i - 1)] + s[i]
  <2>3. i \in Nat /\ i \in 1 .. i
    BY <1>1
  <2>1. Max(1 .. i) = i /\ (1 .. i) \ {i} = 1 .. (i - 1) /\ 1 .. i # {}
    BY <2>3, LastOfSegment
  <2>2. 1 .. i \in SUBSET (DOMAIN s)
    BY <1>1
  <2> QED BY <1>6, <2>1, <2>2
<1>10. ASSUME NEW i \in 1 .. n, it[1 .. (i - 1)] \in S
       PROVE  it[1 .. i] = F[i][it[1 .. (i - 1)]]
  BY <1>9, <1>10
<1>11. \A i \in 0 .. n : it[1 .. i] \in S
  <2>1. Walks(n, S, F, it)
    BY <1>10 DEF Walks
  <2>2. n \in Nat /\ b \in S
    BY <1>1
  <2> HIDE DEF F, n
  <2> QED BY <1>2, <1>8, <2>1, <2>2, FoldWalk
<1> DEFINE q == [i \in 0 .. n |-> it[1 .. i]]
<1>12. q[0] = 0 /\ Total(s) = q[n] /\ \A i \in 0 .. n : q[i] \in Int
  BY <1>1, <1>7, <1>8, <1>11 DEF S, b
<1>13. ASSUME NEW i \in 1 .. n PROVE q[i] = q[i - 1] + s[i]
  <2>1. i - 1 \in 0 .. n /\ i \in 0 .. n
    BY <1>1
  <2> QED BY <1>9, <2>1
<1> QED BY <1>12, <1>13

LEMMA TotalEmpty == Total(<<>>) = 0
<1>1. <<>> \in Seq(Int) /\ Len(<<>>) = 0
  OBVIOUS
<1>2. \E q : /\ q[0] = 0 /\ Total(<<>>) = q[Len(<<>>)]
             /\ \A i \in 0 .. Len(<<>>) : q[i] \in Int
             /\ \A i \in 1 .. Len(<<>>) : q[i] = q[i - 1] + <<>>[i]
  BY <1>1, TotalRun
<1> QED BY <1>1, <1>2

LEMMA TotalAppend ==
    ASSUME NEW s \in Seq(Int), NEW x \in Int
    PROVE  Total(Append(s, x)) = Total(s) + x
<1> DEFINE n == Len(s)
           t == Append(s, x)
<1>0. n \in Nat
  OBVIOUS
<1>1. t \in Seq(Int) /\ Len(t) = n + 1 /\ t[n + 1] = x /\ \A i \in 1 .. n : t[i] = s[i]
  OBVIOUS
<1>2. PICK q : /\ q[0] = 0 /\ Total(s) = q[n]
               /\ \A i \in 0 .. n : q[i] \in Int
               /\ \A i \in 1 .. n : q[i] = q[i - 1] + s[i]
  BY TotalRun
<1> HIDE DEF n, t
<1>3. PICK r : /\ r[0] = 0 /\ Total(t) = r[n + 1]
               /\ \A i \in 1 .. n + 1 : r[i] = r[i - 1] + t[i]
  <2>1. \E r : /\ r[0] = 0 /\ Total(t) = r[Len(t)]
               /\ \A i \in 0 .. Len(t) : r[i] \in Int
               /\ \A i \in 1 .. Len(t) : r[i] = r[i - 1] + t[i]
    BY <1>1, TotalRun
  <2> QED BY <1>1, <2>1
<1> DEFINE T == {i \in 0 .. n : r[i] = q[i]}
<1>4. 0 \in T
  BY <1>0, <1>2, <1>3
<1>5. ASSUME NEW i \in 1 .. n, i - 1 \in T PROVE i \in T
  <2>1. i \in 0 .. n /\ i \in 1 .. n + 1
    BY <1>0
  <2> QED BY <1>1, <1>2, <1>3, <1>5, <2>1
<1>6. 0 .. n \subseteq T
  <2> HIDE DEF T
  <2> QED BY <1>0, <1>4, <1>5, Climb
<1>7. n \in 0 .. n /\ n + 1 \in 1 .. n + 1 /\ (n + 1) - 1 = n
  BY <1>0
<1>8. r[n + 1] = q[n] + x
  BY <1>1, <1>3, <1>6, <1>7
<1> QED BY <1>2, <1>3, <1>8 DEF t, n

-----------------------------------------------------------------------------
(* The review: what an absence takes off the time of a turn                *)

Later(a, b) == IF a > b THEN a ELSE b

\* The time of the absence A between from and to, a running one up to `to'.
Missed(A, from, to) ==
    PausedWithin(A.spans, from, to)
    + (IF A.open = None \/ to <= Later(A.open, from) THEN 0 ELSE to - Later(A.open, from))

\* Where a running absence is closed does not matter, if it is not before `to'.
LEMMA ClosedIsMissed ==
    ASSUME NEW A \in Absence, NEW from \in Nat, NEW to \in Nat, NEW at \in Nat, to <= at
    PROVE  PausedWithin(ClosedSpans(A, at), from, to) = Missed(A, from, to)
<1>1. A.spans \in Seq(Span) /\ A.open \in Nat \cup {None}
  BY DEF Absence
<1>2. PausedWithin(A.spans, from, to) \in Nat
  BY <1>1, PausedType
<1>3. CASE A.open = None
  BY <1>2, <1>3 DEF ClosedSpans, Missed
<1>4. CASE A.open # None
  <2> DEFINE x == [from |-> A.open, to |-> at]
  <2>1. x \in Span /\ x.from = A.open /\ x.to = at /\ A.open \in Nat
    BY <1>1, <1>4 DEF Span
  <2>2. ClosedSpans(A, at) = Append(A.spans, x)
    BY <1>4 DEF ClosedSpans
  <2> HIDE DEF x
  <2>3. PausedWithin(ClosedSpans(A, at), from, to) = PausedWithin(A.spans, from, to) + Clip(x, from, to)
    BY <1>1, <2>1, <2>2, PausedAppend
  <2>4. Clip(x, from, to) = IF to <= Later(A.open, from) THEN 0 ELSE to - Later(A.open, from)
    BY <2>1 DEF Clip, Overlap, Later
  <2> QED BY <1>4, <2>3, <2>4 DEF Missed
<1> QED BY <1>3, <1>4

\* Neither do later events.
LEMMA MissedStays ==
    ASSUME NEW A \in Absence, NEW from \in Nat, NEW to \in Nat, NEW p, NEW e, e.at \in Nat, to <= e.at
    PROVE  Missed(SpanRead(p, A, e), from, to) = Missed(A, from, to)
<1> DEFINE B1 == SpanRead(p, A, e)
<1>1. A.spans \in Seq(Span) /\ A.open \in Nat \cup {None}
  BY DEF Absence
<1>2. CASE B1 = A
  BY <1>2
<1>3. CASE A.open = None /\ B1 = [A EXCEPT !.open = e.at]
  <2>1. B1.spans = A.spans /\ B1.open = e.at
    BY <1>3 DEF Absence
  <2>2. e.at # None
    BY NoneAssumption
  <2>3. to <= Later(e.at, from)
    BY DEF Later
  <2>4. Missed(A, from, to) = PausedWithin(A.spans, from, to) + 0
    BY <1>3 DEF Missed
  <2> HIDE DEF B1
  <2>5. Missed(B1, from, to) = PausedWithin(A.spans, from, to) + 0
    BY <2>1, <2>3 DEF Missed
  <2> QED BY <2>4, <2>5 DEF B1
<1>4. CASE A.open # None /\ B1 = [spans |-> Append(A.spans, [from |-> A.open, to |-> e.at]), open |-> None]
  <2>1. B1.spans = ClosedSpans(A, e.at) /\ B1.open = None
    BY <1>4 DEF ClosedSpans
  <2>2. PausedWithin(ClosedSpans(A, e.at), from, to) = Missed(A, from, to)
    BY ClosedIsMissed
  <2>3. PausedWithin(ClosedSpans(A, e.at), from, to) \in Nat
    <3>1. [from |-> A.open, to |-> e.at] \in Span
      BY <1>1, <1>4 DEF Span
    <3>2. ClosedSpans(A, e.at) \in Seq(Span)
      <4> HIDE DEF Span
      <4> QED BY <1>1, <1>4, <3>1 DEF ClosedSpans
    <3> QED BY <3>2, PausedType
  <2> HIDE DEF B1
  <2>4. Missed(B1, from, to) = PausedWithin(B1.spans, from, to) + 0
    BY <2>1 DEF Missed
  <2>5. PausedWithin(B1.spans, from, to) + 0 = PausedWithin(B1.spans, from, to)
    BY <2>1, <2>3
  <2>6. Missed(B1, from, to) = Missed(A, from, to)
    BY <2>1, <2>2, <2>4, <2>5
  <2> QED BY <2>6 DEF B1
<1>5. B1 = A \/ (A.open = None /\ B1 = [A EXCEPT !.open = e.at])
      \/ (A.open # None /\ B1 = [spans |-> Append(A.spans, [from |-> A.open, to |-> e.at]), open |-> None])
  BY DEF SpanRead
<1> QED BY <1>2, <1>3, <1>4, <1>5

\* Absences that have ended before `from' take nothing off.
LEMMA PastIsNotMissed ==
    ASSUME NEW s \in Seq(Span), NEW from \in Nat, NEW to \in Nat,
           \A i \in 1 .. Len(s) : s[i].to <= from
    PROVE  PausedWithin(s, from, to) = 0
<1> DEFINE n == Len(s)
<1>0. n \in Nat /\ \A i \in 1 .. n : s[i] \in Span
  OBVIOUS
<1>1. PICK q : /\ q[0] = 0 /\ PausedWithin(s, from, to) = q[n]
               /\ \A i \in 0 .. n : q[i] \in Nat
               /\ \A i \in 1 .. n : q[i] = q[i - 1] + Clip(s[i], from, to)
  BY PausedRun
<1>2. ASSUME NEW i \in 1 .. n PROVE Clip(s[i], from, to) = 0
  <2>1. s[i].from \in Nat /\ s[i].to \in Nat /\ s[i].to <= from
    BY <1>0 DEF Span
  <2> QED BY <2>1 DEF Clip, Overlap
<1> DEFINE T == {i \in 0 .. n : q[i] = 0}
<1> HIDE DEF n
<1>3. 0 \in T
  BY <1>0, <1>1
<1>4. ASSUME NEW i \in 1 .. n, i - 1 \in T PROVE i \in T
  <2>1. i \in 0 .. n
    BY <1>0
  <2>2. q[i - 1] = 0 /\ q[i] = q[i - 1] + Clip(s[i], from, to)
    BY <1>1, <1>4
  <2>3. q[i] = 0
    BY <1>2, <2>2
  <2> QED BY <2>1, <2>3
<1>5. 0 .. n \subseteq T
  <2> HIDE DEF T
  <2> QED BY <1>0, <1>3, <1>4, Climb
<1>6. n \in 0 .. n
  BY <1>0
<1> QED BY <1>1, <1>5, <1>6

-----------------------------------------------------------------------------
(* The review: the tally of a player                                       *)

\* What an absence that still lasts takes off the turn so far.
Absent(t, at) ==
    IF t.open = None \/ at <= Later(t.open, t.grant) THEN 0 ELSE at - Later(t.open, t.grant)

\* What the turn has taken so far.
Thought(t, at) ==
    LET x == at - t.grant - (t.paused + Absent(t, at)) IN IF x > 0 THEN x ELSE 0

\* One player's decisions event by event: since when the player is away, when the
\* turn was granted, the absences of this turn that are over, the turns before.
TallyRead(p, t, e) ==
    IF e.type = "OFFER_SUBMITTED"
    THEN IF e.actor = p THEN [t EXCEPT !.total = @ + Thought(t, e.at)]
         ELSE [t EXCEPT !.grant = e.at, !.paused = 0]
    ELSE IF e.actor # p THEN t
    ELSE IF e.type = "PLAYER_DISCONNECTED" /\ t.open = None THEN [t EXCEPT !.open = e.at]
    ELSE IF e.type = "PLAYER_RECONNECTED" /\ t.open # None
    THEN [t EXCEPT !.paused = @ + Absent(t, e.at), !.open = None]
    ELSE t

NoTally == [open |-> None, grant |-> 0, paused |-> 0, total |-> 0]
Tally == [open : Nat \cup {None}, grant : Nat, paused : Nat, total : Nat]

\* z goes along the stream.
Tallied(ev, p, z) ==
    /\ z[0] = NoTally
    /\ \A i \in 1 .. Len(ev) : z[i] = TallyRead(p, z[i - 1], ev[i])

LEMMA TallyType ==
    ASSUME NEW t \in Tally, NEW p, NEW e, e.at \in Nat
    PROVE  TallyRead(p, t, e) \in Tally /\ Absent(t, e.at) \in Nat /\ Thought(t, e.at) \in Nat
<1>1. /\ t.open \in Nat \cup {None} /\ t.grant \in Nat /\ t.paused \in Nat /\ t.total \in Nat
  BY DEF Tally
<1>2. Absent(t, e.at) \in Nat
  BY <1>1 DEF Absent, Later
<1>3. Thought(t, e.at) \in Nat
  <2> DEFINE a == Absent(t, e.at)
  <2>1. a \in Nat
    BY <1>2
  <2> HIDE DEF a
  <2> QED BY <1>1, <2>1 DEF Thought, a
<1>4. t.total + Thought(t, e.at) \in Nat /\ t.paused + Absent(t, e.at) \in Nat
  BY <1>1, <1>2, <1>3
<1> QED BY <1>1, <1>2, <1>3, <1>4 DEF TallyRead, Tally

\* Times never go back.
InTime(ev) == \A i, j \in DOMAIN ev : i <= j => ev[i].at <= ev[j].at

\* The thinking time of the review at event i depends on what came before.
LEMMA ActiveIs ==
    ASSUME NEW ev, TypedStream(ev), InTime(ev), NEW p, NEW r, Spanned(ev, p, r),
           OwnDisconnectSpans(ev, p) = ClosedSpans(r[Len(ev)], Last(ev).at),
           NEW i \in 1 .. Len(ev), NEW from \in Nat
    PROVE  LET x == ev[i].at - from - Missed(r[i - 1], from, ev[i].at)
           IN  ActiveTime(ev, p, from, ev[i].at) = IF x > 0 THEN x ELSE 0
<1> DEFINE n == Len(ev)
           to == ev[i].at
<1>1. PICK S : ev \in Seq(S)
  BY DEF TypedStream
<1>2. /\ n \in Nat /\ n >= 1 /\ i \in DOMAIN ev /\ \A j \in 1 .. n : j \in DOMAIN ev /\ ev[j].at \in Nat
      /\ to \in Nat /\ Last(ev).at = ev[n].at
  BY <1>1 DEF TypedStream, Last
<1>3. /\ \A j \in 0 .. n : r[j] \in Absence
      /\ \A j \in 1 .. n : r[j] = SpanRead(p, r[j - 1], ev[j])
  BY DEF Spanned
<1>4. \A j \in 1 .. n : i <= j => to <= ev[j].at
  BY <1>2 DEF InTime
<1> DEFINE at == ev[n].at
<1>5. at \in Nat /\ to <= at
  BY <1>2, <1>4
<1>6. OwnDisconnectSpans(ev, p) = ClosedSpans(r[n], at)
  BY <1>2
<1> HIDE DEF n, to, at
<1> DEFINE T == {j \in 0 .. n : j >= i - 1 => Missed(r[j], from, to) = Missed(r[i - 1], from, to)}
<1>7. 0 \in T
  <2>1. 0 >= i - 1 => i - 1 = 0
    BY <1>2 DEF n
  <2> QED BY <1>2, <2>1
<1>8. ASSUME NEW j \in 1 .. n, j - 1 \in T PROVE j \in T
  <2>1. j \in 0 .. n /\ j - 1 \in 0 .. n /\ i \in Nat
    BY <1>2 DEF n
  <2>2. CASE j <= i - 1
    <3>1. j >= i - 1 => j = i - 1
      BY <2>1, <2>2
    <3> QED BY <2>1, <3>1
  <2>3. CASE j > i - 1
    <3>1. j - 1 >= i - 1 /\ i <= j
      BY <2>1, <2>3
    <3>2. Missed(r[j - 1], from, to) = Missed(r[i - 1], from, to)
      BY <1>8, <3>1
    <3>3. r[j - 1] \in Absence /\ r[j] = SpanRead(p, r[j - 1], ev[j]) /\ ev[j].at \in Nat /\ to <= ev[j].at
      BY <1>2, <1>3, <1>4, <2>1, <3>1
    <3>4. Missed(SpanRead(p, r[j - 1], ev[j]), from, to) = Missed(r[j - 1], from, to)
      BY <1>2, <3>3, MissedStays
    <3> QED BY <2>1, <3>2, <3>3, <3>4
  <2> QED BY <2>1, <2>2, <2>3
<1>9. 0 .. n \subseteq T
  <2> HIDE DEF T
  <2> QED BY <1>2, <1>7, <1>8, Climb
<1>10. n \in 0 .. n /\ n >= i - 1
  BY <1>2 DEF n
<1>11. Missed(r[n], from, to) = Missed(r[i - 1], from, to)
  BY <1>9, <1>10
<1>12. PausedWithin(ClosedSpans(r[n], at), from, to) = Missed(r[n], from, to)
  BY <1>2, <1>3, <1>5, <1>10, ClosedIsMissed
<1>13. PausedWithin(OwnDisconnectSpans(ev, p), from, to) = Missed(r[i - 1], from, to)
  BY <1>6, <1>11, <1>12
<1> QED BY <1>13 DEF ActiveTime, to

Times(moves) == [k \in DOMAIN moves |-> moves[k].active]

\* The absences A, the reading s and the tally t of one player say the same at `at'.
Linked(A, s, t, at) ==
    /\ A \in Absence /\ t \in Tally /\ at \in Nat
    /\ s.grant = t.grant /\ A.open = t.open
    /\ t.grant <= at /\ (t.open # None => t.open <= at)
    /\ \A k \in 1 .. Len(A.spans) : A.spans[k].to <= at
    /\ \A to \in Nat : at <= to => PausedWithin(A.spans, t.grant, to) = t.paused
    /\ Times(s.moves) \in Seq(Int) /\ Total(Times(s.moves)) = t.total

LEMMA LinkedLater ==
    ASSUME NEW A, NEW s, NEW t, NEW at, Linked(A, s, t, at), NEW to \in Nat, at <= to
    PROVE  Linked(A, s, t, to)
<1>1. at \in Nat /\ A \in Absence /\ t \in Tally
  BY DEF Linked
<1>2. t.grant \in Nat /\ t.open \in Nat \cup {None} /\ A.spans \in Seq(Span)
  BY <1>1 DEF Tally, Absence
<1>3. t.grant <= to /\ (t.open # None => t.open <= to)
  BY <1>1, <1>2 DEF Linked
<1>4. ASSUME NEW k \in 1 .. Len(A.spans) PROVE A.spans[k].to <= to
  <2>1. A.spans[k].to \in Nat /\ A.spans[k].to <= at
    <3>1. A.spans[k] \in Span
      BY <1>2
    <3> QED BY <3>1 DEF Linked, Span
  <2> QED BY <1>1, <2>1
<1>5. ASSUME NEW u \in Nat, to <= u PROVE PausedWithin(A.spans, t.grant, u) = t.paused
  <2>1. at <= u
    BY <1>1, <1>5
  <2> QED BY <2>1 DEF Linked
<1> QED BY <1>1, <1>3, <1>4, <1>5 DEF Linked

\* At a later instant the time off is what the tally says.
LEMMA LinkedMisses ==
    ASSUME NEW A, NEW s, NEW t, NEW at, Linked(A, s, t, at), NEW to \in Nat, at <= to
    PROVE  Missed(A, t.grant, to) = t.paused + Absent(t, to)
<1>1. PausedWithin(A.spans, t.grant, to) = t.paused /\ A.open = t.open
  BY DEF Linked
<1> QED BY <1>1 DEF Missed, Absent

\* The decisions of one more move.
LEMMA TimesAppend ==
    ASSUME NEW M, NEW moves \in Seq(M), NEW x, Times(moves) \in Seq(Int), x.active \in Int
    PROVE  /\ Times(Append(moves, x)) \in Seq(Int)
           /\ Total(Times(Append(moves, x))) = Total(Times(moves)) + x.active
<1> DEFINE n == Len(moves)
           a == Append(moves, x)
           s == Times(moves)
<1>1. n \in Nat /\ DOMAIN moves = 1 .. n
  OBVIOUS
<1>2. DOMAIN a = 1 .. n + 1 /\ a[n + 1] = x /\ \A k \in 1 .. n : a[k] = moves[k]
  <2>1. moves \in Seq(M \cup {x}) /\ x \in M \cup {x}
    OBVIOUS
  <2> QED BY <2>1
<1> HIDE DEF a, n
<1>3. s = [k \in 1 .. n |-> moves[k].active]
  BY <1>1 DEF Times
<1>4. Times(a) = [k \in 1 .. n + 1 |-> IF k = n + 1 THEN x.active ELSE moves[k].active]
  <2>1. Times(a) = [k \in 1 .. n + 1 |-> a[k].active]
    BY <1>2 DEF Times
  <2>2. \A k \in 1 .. n + 1 : a[k].active = IF k = n + 1 THEN x.active ELSE moves[k].active
    BY <1>1, <1>2
  <2> QED BY <2>1, <2>2
<1>5. s \in Seq(Int)
  OBVIOUS
<1>6. Len(s) = n /\ \A k \in 1 .. n : s[k] = moves[k].active
  BY <1>1, <1>3, <1>5
<1> HIDE DEF s
<1>7. Append(s, x.active) = [k \in 1 .. n + 1 |-> IF k = n + 1 THEN x.active ELSE s[k]]
  BY <1>5, <1>6
<1>8. Times(a) = Append(s, x.active)
  <2>1. \A k \in 1 .. n + 1 : k # n + 1 => k \in 1 .. n
    BY <1>1
  <2> QED BY <1>4, <1>6, <1>7, <2>1
<1>9. Append(s, x.active) \in Seq(Int) /\ Total(Append(s, x.active)) = Total(s) + x.active
  BY <1>5, TotalAppend
<1> QED BY <1>8, <1>9 DEF a, s

\* Absences, reading and tally go along the stream together.
LEMMA LinkStep ==
    ASSUME NEW ev, NEW p, NEW i, NEW A, NEW s, NEW t, NEW M,
           Linked(A, s, t, ev[i].at), s.moves \in Seq(M),
           s = [s EXCEPT !.moves = @],
           DOMAIN s = {"moves", "grant", "opponent", "heldAt", "message"},
           ActiveTime(ev, p, s.grant, ev[i].at) = Thought(t, ev[i].at)
    PROVE  Linked(SpanRead(p, A, ev[i]), EventRead(ev, p, s, i), TallyRead(p, t, ev[i]), ev[i].at)
<1> DEFINE e == ev[i]
           A2 == SpanRead(p, A, e)
           s2 == EventRead(ev, p, s, i)
           t2 == TallyRead(p, t, e)
<1>1. /\ A \in Absence /\ t \in Tally /\ e.at \in Nat
      /\ s.grant = t.grant /\ A.open = t.open
      /\ t.grant <= e.at /\ (t.open # None => t.open <= e.at)
      /\ \A k \in 1 .. Len(A.spans) : A.spans[k].to <= e.at
      /\ \A to \in Nat : e.at <= to => PausedWithin(A.spans, t.grant, to) = t.paused
      /\ Times(s.moves) \in Seq(Int) /\ Total(Times(s.moves)) = t.total
  BY DEF Linked
<1>2. /\ A.spans \in Seq(Span) /\ A.open \in Nat \cup {None}
      /\ t.open \in Nat \cup {None} /\ t.grant \in Nat /\ t.paused \in Nat /\ t.total \in Nat
  BY <1>1 DEF Absence, Tally
<1>3. A2 \in Absence /\ t2 \in Tally /\ Thought(t, e.at) \in Nat
  BY <1>1, SpanType, TallyType
<1>4. CASE e.type = "OFFER_SUBMITTED" /\ e.actor = p
  <2> DEFINE x == MoveRead(ev, p, s, i)
  <2>1. A2 = A
    BY <1>4 DEF SpanRead
  <2>2. t2 = [t EXCEPT !.total = @ + Thought(t, e.at)]
    BY <1>4 DEF TallyRead
  <2>3. /\ t2.grant = t.grant /\ t2.open = t.open /\ t2.paused = t.paused
        /\ t2.total = t.total + Thought(t, e.at)
    BY <1>1, <2>2 DEF Tally
  <2>4. s2 = AfterOwnOffer(s, x)
    BY <1>4 DEF EventRead
  <2>5. x.active = Thought(t, e.at)
    BY DEF MoveRead
  <2> HIDE DEF x
  <2>6. s2.grant = s.grant /\ s2.moves = Append(s.moves, x)
    BY <2>4 DEF AfterOwnOffer
  <2>7. /\ Times(Append(s.moves, x)) \in Seq(Int)
        /\ Total(Times(Append(s.moves, x))) = Total(Times(s.moves)) + x.active
    BY <1>1, <1>3, <2>5, TimesAppend
  <2> HIDE DEF A2, s2, t2
  <2> QED BY <1>1, <1>3, <2>1, <2>3, <2>5, <2>6, <2>7 DEF Linked, A2, s2, t2, e
<1>5. CASE e.type = "OFFER_SUBMITTED" /\ e.actor # p
  <2>1. A2 = A
    BY <1>5 DEF SpanRead
  <2>2. t2 = [t EXCEPT !.grant = e.at, !.paused = 0]
    BY <1>5 DEF TallyRead
  <2>3. t2.grant = e.at /\ t2.open = t.open /\ t2.paused = 0 /\ t2.total = t.total
    BY <1>1, <2>2 DEF Tally
  <2>4. s2 = [s EXCEPT !.opponent = e.arg.amount, !.grant = e.at]
    BY <1>5 DEF EventRead
  <2>5. s2.grant = e.at /\ s2.moves = s.moves
    BY <2>4
  <2>6. \A to \in Nat : PausedWithin(A.spans, e.at, to) = 0
    BY <1>1, <1>2, PastIsNotMissed
  <2> HIDE DEF A2, s2, t2
  <2> QED BY <1>1, <1>3, <2>1, <2>3, <2>5, <2>6 DEF Linked, A2, s2, t2, e
<1>6. CASE e.type # "OFFER_SUBMITTED"
  <2>1. s2.grant = s.grant /\ s2.moves = s.moves
    BY <1>6 DEF EventRead
  <2>2. CASE e.actor = p /\ e.type = "PLAYER_DISCONNECTED" /\ t.open = None
    <3>1. A2 = [A EXCEPT !.open = e.at] /\ t2 = [t EXCEPT !.open = e.at]
      BY <1>1, <2>2 DEF SpanRead, TallyRead
    <3>2. /\ A2.spans = A.spans /\ A2.open = e.at
          /\ t2.grant = t.grant /\ t2.open = e.at /\ t2.paused = t.paused /\ t2.total = t.total
      BY <1>1, <3>1 DEF Tally, Absence
    <3> HIDE DEF A2, s2, t2
    <3> QED BY <1>1, <1>3, <2>1, <3>2 DEF Linked, A2, s2, t2, e
  <2>3. CASE e.actor = p /\ e.type = "PLAYER_RECONNECTED" /\ t.open # None
    <3> DEFINE x == [from |-> t.open, to |-> e.at]
               a == Absent(t, e.at)
    <3>1. A2 = [spans |-> Append(A.spans, x), open |-> None]
      BY <1>1, <2>3 DEF SpanRead
    <3>2. t2 = [t EXCEPT !.paused = @ + a, !.open = None]
      BY <2>3 DEF TallyRead
    <3>3. x \in Span /\ x.from = t.open /\ x.to = e.at
      BY <1>1, <1>2, <2>3 DEF Span
    <3> HIDE DEF x, a
    <3>4. /\ A2.spans = Append(A.spans, x) /\ A2.open = None
          /\ t2.grant = t.grant /\ t2.open = None /\ t2.paused = t.paused + a /\ t2.total = t.total
      BY <1>1, <3>1, <3>2 DEF Tally
    <3>5. ASSUME NEW to \in Nat, e.at <= to
          PROVE  PausedWithin(A2.spans, t.grant, to) = t.paused + a
      <4>1. PausedWithin(Append(A.spans, x), t.grant, to)
                = PausedWithin(A.spans, t.grant, to) + Clip(x, t.grant, to)
        BY <1>2, <3>3, PausedAppend
      <4>2. Clip(x, t.grant, to) = a
        BY <1>1, <1>2, <2>3, <3>3, <3>5 DEF Clip, Overlap, Absent, Later, a
      <4>3. PausedWithin(A.spans, t.grant, to) = t.paused
        BY <1>1, <3>5
      <4> QED BY <3>4, <4>1, <4>2, <4>3
    <3>6. ASSUME NEW k \in 1 .. Len(A2.spans) PROVE A2.spans[k].to <= e.at
      <4>1. /\ Len(A.spans) \in Nat /\ Len(A2.spans) = Len(A.spans) + 1
            /\ A2.spans[Len(A.spans) + 1] = x
            /\ \A j \in 1 .. Len(A.spans) : A2.spans[j] = A.spans[j]
        <5> HIDE DEF Span
        <5> QED BY <1>2, <3>3, <3>4
      <4>2. k \in 1 .. Len(A.spans) \/ k = Len(A.spans) + 1
        BY <4>1
      <4>3. CASE k \in 1 .. Len(A.spans)
        <5>1. A2.spans[k] = A.spans[k]
          BY <4>1, <4>3
        <5> QED BY <1>1, <4>3, <5>1
      <4>4. CASE k = Len(A.spans) + 1
        <5>1. A2.spans[k] = x
          BY <4>1, <4>4
        <5> QED BY <1>1, <3>3, <5>1
      <4> QED BY <4>2, <4>3, <4>4
    <3> HIDE DEF A2, s2, t2
    <3> QED BY <1>1, <1>3, <2>1, <3>4, <3>5, <3>6 DEF Linked, A2, s2, t2, e
  <2>4. CASE ~(e.actor = p /\ e.type = "PLAYER_DISCONNECTED" /\ t.open = None)
             /\ ~(e.actor = p /\ e.type = "PLAYER_RECONNECTED" /\ t.open # None)
    <3>1. A2 = A /\ t2 = t
      BY <1>1, <1>6, <2>4 DEF SpanRead, TallyRead
    <3> HIDE DEF A2, s2, t2
    <3> QED BY <1>1, <2>1, <3>1 DEF Linked, A2, s2, t2, e
  <2> QED BY <2>2, <2>3, <2>4
<1> QED BY <1>4, <1>5, <1>6

\* So the review's decision times, of all moves or of any event, are the tally's.
LEMMA TallyIsReview ==
    ASSUME NEW ev, TypedStream(ev), InTime(ev), StartTime(ev) = 0, NEW p, NEW z, Tallied(ev, p, z)
    PROVE  /\ Times(ClassifyMoves(ev, p)) \in Seq(Int)
           /\ Total(Times(ClassifyMoves(ev, p))) = z[Len(ev)].total
           /\ \A i \in 1 .. Len(ev) :
                ActiveTime(ev, p, z[i - 1].grant, ev[i].at) = Thought(z[i - 1], ev[i].at)
<1> DEFINE n == Len(ev)
           at(i) == IF i = 0 THEN 0 ELSE ev[i].at
<1>1. PICK S : ev \in Seq(S)
  BY DEF TypedStream
<1>2. n \in Nat /\ \A i \in 1 .. n : i \in DOMAIN ev /\ ev[i].at \in Nat
  BY <1>1 DEF TypedStream
<1>3. PICK q : /\ q[0] = NothingRead(ev) /\ ClassifyMoves(ev, p) = q[n].moves
               /\ \A i \in 0 .. n : q[i] \in ReadingsIn(ev, p)
               /\ \A i \in 1 .. n : q[i] = EventRead(ev, p, q[i - 1], i)
  BY <1>1, MovesRun
<1>4. PICK r : Spanned(ev, p, r) /\ OwnDisconnectSpans(ev, p) = ClosedSpans(r[n], Last(ev).at)
  BY SpansRun
<1>5. ASSUME NEW i \in 1 .. n PROVE at(i - 1) \in Nat /\ at(i) = ev[i].at /\ at(i - 1) <= ev[i].at
  <2>1. i = 1 \/ i - 1 \in 1 .. n
    BY <1>2
  <2>2. ev[i].at \in Nat /\ i # 0 /\ i - 1 <= i
    BY <1>2
  <2>3. CASE i = 1
    BY <2>2, <2>3
  <2>4. CASE i - 1 \in 1 .. n
    BY <1>2, <2>2, <2>4 DEF InTime
  <2> QED BY <2>1, <2>3, <2>4
<1> HIDE DEF at
<1>6. ASSUME NEW i \in 1 .. n, Linked(r[i - 1], q[i - 1], z[i - 1], at(i - 1))
      PROVE  ActiveTime(ev, p, z[i - 1].grant, ev[i].at) = Thought(z[i - 1], ev[i].at)
  <2> DEFINE t == z[i - 1]
             to == ev[i].at
  <2>1. t.grant \in Nat
    BY <1>6 DEF Linked, Tally
  <2>2. LET x == ev[i].at - t.grant - Missed(r[i - 1], t.grant, ev[i].at)
        IN  ActiveTime(ev, p, t.grant, ev[i].at) = IF x > 0 THEN x ELSE 0
    BY <1>4, <2>1, ActiveIs DEF n
  <2>3. Missed(r[i - 1], t.grant, to) = t.paused + Absent(t, to)
    BY <1>2, <1>5, <1>6, LinkedMisses
  <2> QED BY <2>2, <2>3 DEF Thought
<1> DEFINE T == {i \in 0 .. n : Linked(r[i], q[i], z[i], at(i))}
<1>7. 0 \in T
  <2>1. r[0] = NeverAway /\ q[0] = NothingRead(ev) /\ z[0] = NoTally /\ at(0) = 0
    BY <1>3, <1>4 DEF Spanned, Tallied, at
  <2>2. NeverAway \in Absence /\ NoTally \in Tally
    BY DEF NeverAway, Absence, NoTally, Tally
  <2>3. /\ NeverAway.spans = <<>> /\ NeverAway.open = None /\ Len(<<>>) = 0
        /\ NoTally.open = None /\ NoTally.grant = 0 /\ NoTally.paused = 0 /\ NoTally.total = 0
        /\ NothingRead(ev).grant = 0 /\ NothingRead(ev).moves = <<>>
    BY DEF NeverAway, NoTally, NothingRead
  <2>4. Times(<<>>) = <<>> /\ <<>> \in Seq(Int) /\ \A k \in 1 .. 0 : FALSE
    BY DEF Times
  <2>5. \A to \in Nat : PausedWithin(<<>>, 0, to) = 0
    BY NothingPaused
  <2>6. Linked(NeverAway, NothingRead(ev), NoTally, 0)
    <3> HIDE DEF T
    <3>1. 0 \in Nat /\ 0 <= 0
      OBVIOUS
    <3>2. \A k \in 1 .. Len(NeverAway.spans) : NeverAway.spans[k].to <= 0
      BY <2>3, <2>4
    <3>3. /\ Times(NothingRead(ev).moves) \in Seq(Int)
          /\ Total(Times(NothingRead(ev).moves)) = NoTally.total
      BY <2>3, <2>4, TotalEmpty
    <3>4. \A to \in Nat : 0 <= to => PausedWithin(NeverAway.spans, NoTally.grant, to) = NoTally.paused
      BY <2>3, <2>5
    <3> QED BY <2>2, <2>3, <3>1, <3>2, <3>3, <3>4, Zenon DEF Linked
  <2> QED BY <1>2, <2>1, <2>6
<1>8. ASSUME NEW i \in 1 .. n, i - 1 \in T PROVE i \in T
  <2> DEFINE A == r[i - 1]
             s == q[i - 1]
             t == z[i - 1]
             M == MovesIn(ev, p)
  <2>1. Linked(A, s, t, at(i - 1)) /\ i \in 0 .. n /\ i - 1 \in 0 .. n
    BY <1>2, <1>8
  <2>2. Linked(A, s, t, ev[i].at)
    BY <1>2, <1>5, <2>1, LinkedLater
  <2>3. s \in ReadingsIn(ev, p)
    BY <1>3, <2>1
  <2>4. /\ s.moves \in Seq(M) /\ s = [s EXCEPT !.moves = @]
        /\ DOMAIN s = {"moves", "grant", "opponent", "heldAt", "message"}
    <3> HIDE DEF s, M
    <3> QED BY <2>3 DEF ReadingsIn, M
  <2>5. ActiveTime(ev, p, s.grant, ev[i].at) = Thought(t, ev[i].at)
    <3>1. s.grant = t.grant
      BY <2>1 DEF Linked
    <3> QED BY <1>6, <2>1, <3>1
  <2>6. /\ r[i] = SpanRead(p, A, ev[i]) /\ q[i] = EventRead(ev, p, s, i)
        /\ z[i] = TallyRead(p, t, ev[i]) /\ at(i) = ev[i].at
    BY <1>3, <1>4, <1>5 DEF Spanned, Tallied, n
  <2> HIDE DEF A, s, t, M
  <2>7. Linked(SpanRead(p, A, ev[i]), EventRead(ev, p, s, i), TallyRead(p, t, ev[i]), ev[i].at)
    BY <2>2, <2>4, <2>5, LinkStep
  <2> QED BY <2>1, <2>6, <2>7
<1>9. 0 .. n \subseteq T
  <2> HIDE DEF T
  <2> QED BY <1>2, <1>7, <1>8, Climb
<1>10. Linked(r[n], q[n], z[n], at(n))
  <2>1. n \in 0 .. n
    BY <1>2
  <2> QED BY <1>9, <2>1
<1>11. ASSUME NEW i \in 1 .. n
       PROVE  ActiveTime(ev, p, z[i - 1].grant, ev[i].at) = Thought(z[i - 1], ev[i].at)
  <2>1. i - 1 \in 0 .. n
    BY <1>2
  <2> QED BY <1>6, <1>9, <2>1
<1> QED BY <1>3, <1>10, <1>11 DEF Linked, n

-----------------------------------------------------------------------------
(* The review: the tally is the clock                                      *)

\* While m goes on, the tally t of p's events up to the instant now agrees with p's
\* clock: exactly, but for the part of a running turn not charged yet.
Clocked(m, p, t, now) ==
    /\ m.status \in {"ACTIVE", "PAUSED"} /\ m.active \in Player
    /\ t \in Tally /\ now \in Nat
    /\ t.grant <= now /\ (t.open # None => t.open <= now)
    /\ m.disconnected[p] <=> t.open # None
    /\ t.total <= m.cumulative[p]
    /\ m.active # p => m.cumulative[p] = t.total
    /\ m.active = p /\ m.status = "ACTIVE" =>
         t.open = None /\ m.cumulative[p] + t.grant + t.paused = t.total + m.turnStartedAt
    /\ m.active = p /\ m.status = "PAUSED" =>
         /\ t.open # None
         /\ m.cumulative[p] + t.grant + t.paused = t.total + Later(t.open, t.grant)

\* The numbers Clocked is about.
LEMMA ClockedNumbers ==
    ASSUME NEW m \in Match, NEW p \in Player, NEW t, NEW now, Clocked(m, p, t, now)
    PROVE  /\ t.grant \in Nat /\ t.paused \in Nat /\ t.total \in Nat /\ now \in Nat
           /\ t.open \in Nat \cup {None} /\ m.cumulative[p] \in Nat
           /\ m.turnStartedAt \in Nat \cup {None}
<1>1. t \in Tally /\ now \in Nat
  BY DEF Clocked
<1> QED BY <1>1 DEF Tally, Match

\* A tally does not age.
LEMMA ClockedLater ==
    ASSUME NEW m \in Match, NEW p \in Player, NEW t, NEW now, Clocked(m, p, t, now),
           NEW at \in Nat, now <= at
    PROVE  Clocked(m, p, t, at)
<1>1. t.grant \in Nat /\ t.open \in Nat \cup {None} /\ now \in Nat
  BY ClockedNumbers
<1>2. t.grant <= at /\ (t.open # None => t.open <= at)
  BY <1>1 DEF Clocked
<1> QED BY <1>2 DEF Clocked

\* What a running turn has taken is what would be charged for it now.
LEMMA ThoughtIsCharged ==
    ASSUME NEW m, NEW p \in Player, NEW t, NEW at \in Nat, InOrder(m, at), OwnsTurn(m, p),
           Clocked(m, p, t, at)
    PROVE  /\ FrozenClock(m, at)[p] = t.total + Thought(t, at)
           /\ FrozenClock(m, at)[Other(p)] = m.cumulative[Other(p)]
<1> DEFINE c == m.cumulative[p]
           s == m.turnStartedAt
           g == t.grant
           o == t.paused
           w == t.total
<1>1. m \in Match /\ s \in 0 .. at
  BY DEF InOrder, OwnsTurn
<1>2. g \in Nat /\ o \in Nat /\ w \in Nat /\ c \in Nat
  BY <1>1, ClockedNumbers
<1>3. /\ FrozenClock(m, at)[p] = c + (at - s)
      /\ FrozenClock(m, at)[Other(p)] = m.cumulative[Other(p)]
  <2>1. /\ FrozenClock(m, at)[p] = ElapsedActive(m, p, at)
        /\ ElapsedActive(m, p, at) = m.cumulative[p] + (at - m.turnStartedAt)
        /\ FrozenClock(m, at)[Other(p)] = m.cumulative[Other(p)]
    BY OnTurnClock
  <2> QED BY <2>1
<1>4. t.open = None /\ c + g + o = w + s /\ w <= c
  BY DEF Clocked, OwnsTurn
<1>5. Absent(t, at) = 0
  BY <1>4 DEF Absent
<1> HIDE DEF c, s
<1>6. s \in Nat /\ s <= at
  BY <1>1
<1>7. at - g - (o + 0) = c + (at - s) - w /\ c + (at - s) - w >= 0
  BY <1>2, <1>4, <1>6
<1>8. Thought(t, at) = IF at - g - (o + 0) > 0 THEN at - g - (o + 0) ELSE 0
  BY <1>5 DEF Thought
<1> HIDE DEF g, o, w
<1>9. Thought(t, at) = c + (at - s) - w
  BY <1>2, <1>6, <1>7, <1>8
<1>10. FrozenClock(m, at)[p] = w + Thought(t, at)
  BY <1>2, <1>3, <1>6, <1>9
<1> QED BY <1>3, <1>10 DEF w

\* An offer of the player on turn.
LEMMA OfferHands ==
    ASSUME NEW m, NEW t \in Nat, InOrder(m, t), NEW q \in Player, OwnsTurn(m, q),
           NEW oid \in Nat, NEW a \in Amount
    PROVE  LET n == AfterOffer(m, q, oid, a, t) IN
           /\ n.active = Other(q) /\ n.disconnected = m.disconnected
           /\ n.cumulative = FrozenClock(m, t)
           /\ IF m.disconnected[Other(q)] THEN n.status = "PAUSED"
              ELSE n.status = "ACTIVE" /\ n.turnStartedAt = t
<1>1. m \in Match
  BY DEF InOrder
<1> DEFINE n == AfterOffer(m, q, oid, a, t)
<1>2. n.active = Other(q) /\ n.disconnected = m.disconnected
  BY <1>1, OfferTurn
<1>3. n.cumulative = FrozenClock(m, t)
  BY <1>1, OfferClock
<1>4. IF m.disconnected[Other(q)] THEN n.status = "PAUSED"
      ELSE n.status = "ACTIVE" /\ n.turnStartedAt = t
  BY <1>1 DEF AfterOffer, Handover, Conceded, Match
<1> QED BY <1>2, <1>3, <1>4

\* After an offer of either player the tally is the clock again.
LEMMA OfferIsTallied ==
    ASSUME NEW m, NEW at \in Nat, InOrder(m, at), NEW q \in Player, OwnsTurn(m, q),
           NEW oid \in Nat, NEW a \in Amount, NEW p \in Player, NEW t, Clocked(m, p, t, at),
           NEW e, e.type = "OFFER_SUBMITTED", e.actor = q, e.at = at
    PROVE  Clocked(AfterOffer(m, q, oid, a, at), p, TallyRead(p, t, e), at)
<1> DEFINE n == AfterOffer(m, q, oid, a, at)
           u == TallyRead(p, t, e)
<1> SUFFICES Clocked(n, p, u, at)
  OBVIOUS
<1>0. m \in Match /\ n \in Match
  BY OfferType DEF InOrder
<1>1. /\ n.active = Other(q) /\ n.disconnected = m.disconnected
      /\ n.cumulative = FrozenClock(m, at)
      /\ IF m.disconnected[Other(q)] THEN n.status = "PAUSED"
         ELSE n.status = "ACTIVE" /\ n.turnStartedAt = at
  BY OfferHands
<1>2. Other(q) \in Player /\ Other(q) # q /\ (p = q \/ p = Other(q)) /\ at # None
  BY OtherIsPlayer, NoneAssumption DEF Player, Other
<1>3. /\ t.grant \in Nat /\ t.paused \in Nat /\ t.total \in Nat
      /\ t.open \in Nat \cup {None} /\ m.cumulative[p] \in Nat
      /\ t.grant <= at /\ (t.open # None => t.open <= at)
      /\ m.disconnected[p] <=> t.open # None
  BY <1>0, ClockedNumbers DEF Clocked
<1>4. u \in Tally
  BY TallyType DEF Clocked
<1> HIDE DEF n
<1>5. CASE p = q
  <2>1. u = [t EXCEPT !.total = @ + Thought(t, at)]
    BY <1>5 DEF TallyRead
  <2>2. /\ u.grant = t.grant /\ u.open = t.open /\ u.paused = t.paused
        /\ u.total = t.total + Thought(t, at)
    BY <2>1 DEF Clocked, Tally
  <2>3. n.cumulative[p] = t.total + Thought(t, at)
    BY <1>1, <1>5, ThoughtIsCharged
  <2>4. n.cumulative[p] = u.total /\ u.total \in Nat
    BY <1>4, <2>2, <2>3 DEF Tally
  <2>5. n.active # p /\ n.active \in Player /\ n.status \in {"ACTIVE", "PAUSED"}
    BY <1>1, <1>2, <1>5
  <2> HIDE DEF u
  <2>6. u.total <= n.cumulative[p]
    BY <2>4
  <2> QED BY <1>1, <1>3, <1>4, <2>2, <2>4, <2>5, <2>6 DEF Clocked
<1>6. CASE p = Other(q)
  <2>1. u = [t EXCEPT !.grant = at, !.paused = 0]
    BY <1>2, <1>6 DEF TallyRead
  <2>2. u.grant = at /\ u.open = t.open /\ u.paused = 0 /\ u.total = t.total
    BY <2>1 DEF Clocked, Tally
  <2>3. FrozenClock(m, at)[Other(q)] = m.cumulative[Other(q)]
    BY OnTurnClock
  <2>4. n.cumulative[p] = u.total
    BY <1>1, <1>2, <1>6, <2>2, <2>3 DEF Clocked, OwnsTurn
  <2>5. n.active = p /\ n.active \in Player /\ n.status \in {"ACTIVE", "PAUSED"}
    BY <1>1, <1>2, <1>6
  <2> HIDE DEF u
  <2>6. CASE m.disconnected[p]
    <3>1. n.status = "PAUSED" /\ u.open # None /\ u.open \in Nat /\ u.open <= at
      BY <1>1, <1>3, <1>6, <2>2, <2>6
    <3>2. Later(u.open, u.grant) = at
      BY <2>2, <3>1 DEF Later
    <3>3. n.cumulative[p] + u.grant + u.paused = u.total + Later(u.open, u.grant)
      BY <1>3, <2>2, <2>4, <3>2
    <3>4. u.total <= n.cumulative[p] /\ u.grant <= at
      BY <1>3, <2>2, <2>4
    <3>5. n.disconnected[p]
      BY <1>1, <2>6
    <3> QED BY <1>4, <2>5, <3>1, <3>3, <3>4, <3>5 DEF Clocked
  <2>7. CASE ~m.disconnected[p]
    <3>1. n.status = "ACTIVE" /\ n.turnStartedAt = at /\ u.open = None
      BY <1>1, <1>3, <1>6, <2>2, <2>7
    <3>3. n.cumulative[p] + u.grant + u.paused = u.total + n.turnStartedAt
      BY <1>3, <2>2, <2>4, <3>1
    <3>4. u.total <= n.cumulative[p] /\ u.grant <= at
      BY <1>3, <2>2, <2>4
    <3>5. ~n.disconnected[p]
      BY <1>1, <2>7
    <3> QED BY <1>4, <2>5, <3>1, <3>3, <3>4, <3>5 DEF Clocked
  <2> QED BY <2>6, <2>7
<1> QED BY <1>2, <1>5, <1>6

\* The clock of a player depends on few fields of the match.
LEMMA ClockedFrame ==
    ASSUME NEW m, NEW n, NEW p, NEW t, NEW at, Clocked(m, p, t, at),
           n.active = m.active, n.status \in {"ACTIVE", "PAUSED"},
           n.disconnected[p] = m.disconnected[p], n.cumulative[p] = m.cumulative[p],
           m.active = p => n.status = m.status /\ n.turnStartedAt = m.turnStartedAt
    PROVE  Clocked(n, p, t, at)
BY DEF Clocked

\* A player leaves.
LEMMA DisconnectStops ==
    ASSUME NEW m \in Match, NEW q \in Player, NEW t, ~Terminal(m), ~m.disconnected[q]
    PROVE  LET n == AfterDisconnect(m, q, t) IN
           /\ n.active = m.active
           /\ n.disconnected[q] /\ n.disconnected[Other(q)] = m.disconnected[Other(q)]
           /\ IF OwnsTurn(m, q) THEN n.status = "PAUSED" /\ n.cumulative = FrozenClock(m, t)
              ELSE n.status = m.status /\ n.turnStartedAt = m.turnStartedAt /\ n.cumulative = m.cumulative
<1> DEFINE n == AfterDisconnect(m, q, t)
           d == [m EXCEPT !.disconnected[q] = TRUE]
<1>1. Other(q) \in Player /\ Other(q) # q
  BY OtherIsPlayer
<1>2. /\ d \in Match /\ SameClock(m, d) /\ d.disconnected[q]
      /\ d.disconnected[Other(q)] = m.disconnected[Other(q)]
      /\ d.status = m.status
  BY <1>1, ZenonT(30) DEF Match, SameClock
<1>3. FrozenClock(d, t) = FrozenClock(m, t)
  BY <1>2, FrozenClockFrame
<1>4. CASE OwnsTurn(m, q)
  <2>1. n = Handover(d, "PAUSED", q, None, 2, t)
    BY <1>4 DEF AfterDisconnect
  <2>2. m.active = q
    BY <1>4 DEF OwnsTurn
  <2> HIDE DEF d
  <2>3. /\ n.active = q /\ n.disconnected = d.disconnected /\ n.status = "PAUSED"
        /\ n.cumulative = FrozenClock(d, t)
    BY <1>2, <2>1 DEF Handover, Match
  <2> QED BY <1>2, <1>3, <1>4, <2>2, <2>3
<1>5. CASE ~OwnsTurn(m, q)
  <2>1. n = [m EXCEPT !.disconnected[q] = TRUE, !.seq = @ + 1]
    BY <1>5 DEF AfterDisconnect
  <2>2. /\ n.active = m.active /\ n.status = m.status /\ n.turnStartedAt = m.turnStartedAt
        /\ n.cumulative = m.cumulative /\ n.disconnected = [m.disconnected EXCEPT ![q] = TRUE]
    BY <2>1 DEF Match
  <2>3. m.disconnected \in [Player -> BOOLEAN]
    BY DEF Match
  <2> HIDE DEF n, d
  <2> QED BY <1>1, <1>5, <2>2, <2>3 DEF n
<1> QED BY <1>4, <1>5

\* A player comes back.
LEMMA ReconnectResumes ==
    ASSUME NEW m \in Match, NEW q \in Player, NEW t, ~Terminal(m), m.disconnected[q]
    PROVE  LET n == AfterReconnect(m, q, t) IN
           /\ n.active = m.active /\ n.cumulative = m.cumulative
           /\ ~n.disconnected[q] /\ n.disconnected[Other(q)] = m.disconnected[Other(q)]
           /\ IF m.status = "PAUSED" /\ m.active = q
              THEN n.status = "ACTIVE" /\ n.turnStartedAt = t
              ELSE n.status = m.status /\ n.turnStartedAt = m.turnStartedAt
<1> DEFINE n == AfterReconnect(m, q, t)
           d == [m EXCEPT !.disconnected[q] = FALSE, !.seq = @ + 1]
<1>1. Other(q) \in Player /\ Other(q) # q
  BY OtherIsPlayer
<1>2. m.disconnected \in [Player -> BOOLEAN]
  BY DEF Match
<1>3. /\ d.active = m.active /\ d.cumulative = m.cumulative /\ d.status = m.status
      /\ d.turnStartedAt = m.turnStartedAt /\ d.disconnected = [m.disconnected EXCEPT ![q] = FALSE]
      /\ \A x : [d EXCEPT !.status = "ACTIVE", !.turnStartedAt = x].active = d.active
      /\ \A x : [d EXCEPT !.status = "ACTIVE", !.turnStartedAt = x].cumulative = d.cumulative
      /\ \A x : [d EXCEPT !.status = "ACTIVE", !.turnStartedAt = x].status = "ACTIVE"
      /\ \A x : [d EXCEPT !.status = "ACTIVE", !.turnStartedAt = x].turnStartedAt = x
      /\ \A x : [d EXCEPT !.status = "ACTIVE", !.turnStartedAt = x].disconnected = d.disconnected
  BY DEF Match
<1>4. n = IF m.status = "PAUSED" /\ m.active = q THEN Resumed(d, t) ELSE d
  BY DEF AfterReconnect
<1> HIDE DEF d
<1>5. /\ n.active = m.active /\ n.cumulative = m.cumulative
      /\ n.disconnected = [m.disconnected EXCEPT ![q] = FALSE]
      /\ IF m.status = "PAUSED" /\ m.active = q
         THEN n.status = "ACTIVE" /\ n.turnStartedAt = t
         ELSE n.status = m.status /\ n.turnStartedAt = m.turnStartedAt
  BY <1>3, <1>4 DEF Resumed
<1>6. ~n.disconnected[q] /\ n.disconnected[Other(q)] = m.disconnected[Other(q)]
  <2> HIDE DEF n
  <2> QED BY <1>1, <1>2, <1>5
<1> QED BY <1>5, <1>6

LEMMA DisconnectIsTallied ==
    ASSUME NEW m, NEW at \in Nat, InOrder(m, at), NEW q \in Player, ~Terminal(m), ~m.disconnected[q],
           NEW p \in Player, NEW t, Clocked(m, p, t, at),
           NEW e, e.type = "PLAYER_DISCONNECTED", e.actor = q, e.at = at
    PROVE  Clocked(AfterDisconnect(m, q, at), p, TallyRead(p, t, e), at)
<1> DEFINE n == AfterDisconnect(m, q, at)
           u == TallyRead(p, t, e)
<1> SUFFICES Clocked(n, p, u, at)
  OBVIOUS
<1>0. m \in Match
  BY DEF InOrder
<1>1. /\ n.active = m.active
      /\ n.disconnected[q] /\ n.disconnected[Other(q)] = m.disconnected[Other(q)]
      /\ IF OwnsTurn(m, q) THEN n.status = "PAUSED" /\ n.cumulative = FrozenClock(m, at)
         ELSE n.status = m.status /\ n.turnStartedAt = m.turnStartedAt /\ n.cumulative = m.cumulative
  BY <1>0, DisconnectStops
<1>2. Other(q) # q /\ (p = q \/ p = Other(q)) /\ at # None
  BY OtherIsPlayer, NoneAssumption DEF Player, Other
<1>3. /\ t.grant \in Nat /\ t.paused \in Nat /\ t.total \in Nat /\ m.cumulative[p] \in Nat
      /\ t.grant <= at /\ m.status \in {"ACTIVE", "PAUSED"} /\ m.active \in Player
  BY <1>0, ClockedNumbers DEF Clocked
<1>4. u \in Tally
  BY TallyType DEF Clocked
<1> HIDE DEF n
<1>5. n.status \in {"ACTIVE", "PAUSED"}
  BY <1>1, <1>3
<1>6. CASE p = q
  <2>1. t.open = None
    BY <1>6 DEF Clocked
  <2>2. u = [t EXCEPT !.open = at]
    BY <1>6, <2>1 DEF TallyRead
  <2>3. u.open = at /\ u.grant = t.grant /\ u.paused = t.paused /\ u.total = t.total
    BY <2>2 DEF Clocked, Tally
  <2> HIDE DEF u
  <2>4. CASE OwnsTurn(m, q)
    <3>1. /\ m.active = p /\ m.cumulative[p] + t.grant + t.paused = t.total + m.turnStartedAt
          /\ t.total <= m.cumulative[p]
      BY <1>6, <2>4 DEF Clocked, OwnsTurn
    <3>2. n.cumulative[p] = m.cumulative[p] + (at - m.turnStartedAt)
      BY <1>1, <1>6, <2>4, OnTurnClock
    <3>3. m.turnStartedAt \in Nat /\ m.turnStartedAt <= at
      BY <2>4 DEF InOrder, OwnsTurn
    <3> DEFINE s == m.turnStartedAt
               c == m.cumulative[p]
    <3>4. s \in Nat /\ s <= at /\ c \in Nat /\ n.cumulative[p] = c + (at - s)
          /\ c + t.grant + t.paused = t.total + s /\ t.total <= c
      BY <1>3, <3>1, <3>2, <3>3
    <3> HIDE DEF s, c
    <3>5. n.cumulative[p] + t.grant + t.paused = t.total + at /\ t.total <= n.cumulative[p]
      BY <1>3, <3>4
    <3>6. Later(at, t.grant) = at
      BY <1>3 DEF Later
    <3>7. /\ n.cumulative[p] + u.grant + u.paused = u.total + Later(u.open, u.grant)
          /\ u.total <= n.cumulative[p]
      BY <2>3, <3>5, <3>6
    <3>8. n.active = p /\ n.status = "PAUSED" /\ n.disconnected[p] /\ u.open # None /\ u.open <= at
      BY <1>1, <1>2, <1>6, <2>3, <2>4, <3>1
    <3> QED BY <1>3, <1>4, <2>3, <3>7, <3>8 DEF Clocked
  <2>5. CASE ~OwnsTurn(m, q)
    <3>1. m.active # p
      BY <1>3, <1>6, <2>1, <2>5 DEF Clocked, OwnsTurn
    <3>2. n.cumulative[p] = u.total /\ u.total <= n.cumulative[p]
      BY <1>1, <1>3, <2>3, <2>5, <3>1 DEF Clocked
    <3>3. n.disconnected[p] /\ u.open # None /\ u.open <= at
      BY <1>1, <1>2, <1>6, <2>3
    <3> QED BY <1>1, <1>3, <1>4, <1>5, <2>3, <3>1, <3>2, <3>3 DEF Clocked
  <2> QED BY <2>4, <2>5
<1>7. CASE p = Other(q)
  <2>1. u = t
    BY <1>2, <1>7 DEF TallyRead
  <2> HIDE DEF u
  <2>2. n.cumulative[p] = m.cumulative[p]
    BY <1>1, <1>7, OnTurnClock
  <2>3. m.active = p => n.status = m.status /\ n.turnStartedAt = m.turnStartedAt
    BY <1>1, <1>2, <1>7 DEF OwnsTurn
  <2>4. n.disconnected[p] = m.disconnected[p]
    BY <1>1, <1>7
  <2> QED BY <1>1, <1>5, <2>1, <2>2, <2>3, <2>4, ClockedFrame
<1> QED BY <1>2, <1>6, <1>7

LEMMA ReconnectIsTallied ==
    ASSUME NEW m, NEW at \in Nat, InOrder(m, at), NEW q \in Player, ~Terminal(m), m.disconnected[q],
           NEW p \in Player, NEW t, Clocked(m, p, t, at),
           NEW e, e.type = "PLAYER_RECONNECTED", e.actor = q, e.at = at
    PROVE  Clocked(AfterReconnect(m, q, at), p, TallyRead(p, t, e), at)
<1> DEFINE n == AfterReconnect(m, q, at)
           u == TallyRead(p, t, e)
<1> SUFFICES Clocked(n, p, u, at)
  OBVIOUS
<1>0. m \in Match
  BY DEF InOrder
<1>1. /\ n.active = m.active /\ n.cumulative = m.cumulative
      /\ ~n.disconnected[q] /\ n.disconnected[Other(q)] = m.disconnected[Other(q)]
      /\ IF m.status = "PAUSED" /\ m.active = q
         THEN n.status = "ACTIVE" /\ n.turnStartedAt = at
         ELSE n.status = m.status /\ n.turnStartedAt = m.turnStartedAt
  BY <1>0, ReconnectResumes
<1>2. Other(q) # q /\ (p = q \/ p = Other(q)) /\ at # None
  BY OtherIsPlayer, NoneAssumption DEF Player, Other
<1>3. /\ t.grant \in Nat /\ t.paused \in Nat /\ t.total \in Nat /\ m.cumulative[p] \in Nat
      /\ t.grant <= at /\ m.status \in {"ACTIVE", "PAUSED"} /\ m.active \in Player
  BY <1>0, ClockedNumbers DEF Clocked
<1>4. u \in Tally
  BY TallyType DEF Clocked
<1> HIDE DEF n
<1>5. n.status \in {"ACTIVE", "PAUSED"}
  BY <1>1, <1>3
<1>6. CASE p = q
  <2>1. t.open # None /\ t.open \in Nat /\ t.open <= at
    BY <1>0, <1>6, ClockedNumbers DEF Clocked
  <2>2. u = [t EXCEPT !.paused = @ + Absent(t, at), !.open = None]
    BY <1>6, <2>1 DEF TallyRead
  <2>3. u.open = None /\ u.grant = t.grant /\ u.paused = t.paused + Absent(t, at) /\ u.total = t.total
    BY <2>2 DEF Clocked, Tally
  <2>4. t.total <= n.cumulative[p] /\ ~n.disconnected[p]
    BY <1>1, <1>6 DEF Clocked
  <2> HIDE DEF u
  <2>5. CASE m.status = "PAUSED" /\ m.active = q
    <3> DEFINE l == Later(t.open, t.grant)
    <3>1. m.cumulative[p] + t.grant + t.paused = t.total + l
      BY <1>6, <2>5 DEF Clocked
    <3>2. l \in Nat /\ l <= at
      BY <1>3, <2>1 DEF Later
    <3>3. Absent(t, at) = IF at <= l THEN 0 ELSE at - l
      BY <2>1 DEF Absent
    <3> HIDE DEF l
    <3>4. Absent(t, at) = at - l
      BY <3>2, <3>3
    <3>5. m.cumulative[p] + t.grant + (t.paused + (at - l)) = t.total + at
      BY <1>3, <3>1, <3>2
    <3>6. n.cumulative[p] + u.grant + u.paused = u.total + n.turnStartedAt
      BY <1>1, <2>3, <2>5, <3>4, <3>5
    <3>7. n.active = p /\ n.status = "ACTIVE"
      BY <1>1, <1>6, <2>5
    <3> QED BY <1>3, <1>4, <2>3, <2>4, <3>6, <3>7 DEF Clocked
  <2>6. CASE ~(m.status = "PAUSED" /\ m.active = q)
    <3>1. m.active # p
      BY <1>3, <1>6, <2>1, <2>6 DEF Clocked
    <3>2. n.cumulative[p] = u.total
      BY <1>1, <2>3, <3>1 DEF Clocked
    <3> QED BY <1>1, <1>3, <1>4, <1>5, <2>3, <2>4, <3>1, <3>2 DEF Clocked
  <2> QED BY <2>5, <2>6
<1>7. CASE p = Other(q)
  <2>1. u = t
    BY <1>2, <1>7 DEF TallyRead
  <2> HIDE DEF u
  <2>3. m.active = p => n.status = m.status /\ n.turnStartedAt = m.turnStartedAt
    BY <1>1, <1>2, <1>7
  <2>4. n.disconnected[p] = m.disconnected[p] /\ n.cumulative[p] = m.cumulative[p]
    BY <1>1, <1>7
  <2> QED BY <1>1, <1>5, <2>1, <2>3, <2>4, ClockedFrame
<1> QED BY <1>2, <1>6, <1>7

\* A command that goes on and takes no turn by a reveal leaves the tally on the clock.
LEMMA CommandIsTallied ==
    ASSUME NEW m, NEW at \in Nat, InOrder(m, at), NEW c, WellFormed(c), Accepted(m, c, at),
           Emitted(m, c, at) # <<>>, c.kind \in {"OFFER", "MESSAGE", "DISCONNECT", "RECONNECT"},
           NEW p \in Player, NEW t, Clocked(m, p, t, at), NEW e, FirstEvent(c, at, e)
    PROVE  Clocked(Applied(m, c, at), p, TallyRead(p, t, e), at)
<1>0. m \in Match /\ c.by \in Player /\ e.at = at /\ e.actor = c.by /\ e.type = FirstType(c.kind)
  BY DEF InOrder, WellFormed, FirstEvent
<1>1. CASE c.kind = "OFFER"
  <2>1. e.type = "OFFER_SUBMITTED" /\ Applied(m, c, at) = AfterOffer(m, c.by, c.id, c.arg, at)
    BY <1>0, <1>1 DEF FirstType, Applied
  <2>2. c.id \in Nat /\ c.arg \in Amount /\ HasTurn(m, c.by, at)
    BY <1>1 DEF WellFormed, Accepted, CanOffer
  <2>3. OwnsTurn(m, c.by)
    BY <2>2 DEF HasTurn, OwnsTurn
  <2> QED BY <1>0, <2>1, <2>2, <2>3, OfferIsTallied
<1>2. CASE c.kind = "MESSAGE"
  <2>1. e.type = "MESSAGE_SENT" /\ Applied(m, c, at) = AfterMessage(m)
    BY <1>0, <1>2 DEF FirstType, Applied
  <2>2. TallyRead(p, t, e) = t
    BY <2>1 DEF TallyRead
  <2>3. /\ AfterMessage(m).status = m.status /\ AfterMessage(m).active = m.active
        /\ AfterMessage(m).turnStartedAt = m.turnStartedAt
        /\ AfterMessage(m).disconnected = m.disconnected
        /\ AfterMessage(m).cumulative = m.cumulative
    BY <1>0 DEF AfterMessage, Match
  <2>4. m.status \in {"ACTIVE", "PAUSED"}
    BY DEF Clocked
  <2> QED BY <2>1, <2>2, <2>3, <2>4, ClockedFrame
<1>3. CASE c.kind = "DISCONNECT"
  <2>1. e.type = "PLAYER_DISCONNECTED" /\ Applied(m, c, at) = AfterDisconnect(m, c.by, at)
    BY <1>0, <1>3 DEF FirstType, Applied
  <2>2. ~Terminal(m) /\ ~m.disconnected[c.by]
    BY <1>3 DEF Emitted, DisconnectEvents
  <2> QED BY <1>0, <2>1, <2>2, DisconnectIsTallied
<1>4. CASE c.kind = "RECONNECT"
  <2>1. e.type = "PLAYER_RECONNECTED" /\ Applied(m, c, at) = AfterReconnect(m, c.by, at)
    BY <1>0, <1>4 DEF FirstType, Applied
  <2>2. ~Terminal(m) /\ m.disconnected[c.by]
    BY <1>4 DEF Emitted, ReconnectEvents
  <2> QED BY <1>0, <2>1, <2>2, ReconnectIsTallied
<1> QED BY <1>1, <1>2, <1>3, <1>4

-----------------------------------------------------------------------------
(* The review: when a player's turn was granted                            *)

\* g is when p's turn was granted, as the first i events have it.
Granted(ev, p, i, g) ==
    \/ g = 0 /\ \A j \in 1 .. i : ~BidAt(ev, Other(p), j)
    \/ \E j \in 1 .. i : /\ BidAt(ev, Other(p), j) /\ g = ev[j].at
                         /\ \A k \in 1 .. i : BidAt(ev, Other(p), k) => k <= j

LEMMA GrantedStep ==
    ASSUME NEW ev, NEW p \in Player, NEW i \in Nat \ {0}, NEW t \in Tally,
           Granted(ev, p, i - 1, t.grant),
           ev[i].type = "OFFER_SUBMITTED" => ev[i].actor \in Player
    PROVE  Granted(ev, p, i, TallyRead(p, t, ev[i]).grant)
<1> DEFINE g == TallyRead(p, t, ev[i]).grant
           q == Other(p)
<1>1. g = IF ev[i].type = "OFFER_SUBMITTED" /\ ev[i].actor # p THEN ev[i].at ELSE t.grant
  BY DEF TallyRead, Tally
<1>2. BidAt(ev, q, i) <=> ev[i].type = "OFFER_SUBMITTED" /\ ev[i].actor # p
  BY DEF BidAt, Player, Other
<1>3. i \in 1 .. i /\ (\A j \in 1 .. i : j = i \/ j \in 1 .. i - 1) /\ \A j \in 1 .. i - 1 : j \in 1 .. i
  OBVIOUS
<1> HIDE DEF g, q
<1>4. CASE BidAt(ev, q, i)
  <2>1. g = ev[i].at /\ \A k \in 1 .. i : BidAt(ev, q, k) => k <= i
    BY <1>1, <1>2, <1>4
  <2> QED BY <1>3, <1>4, <2>1 DEF Granted, g, q
<1>5. CASE ~BidAt(ev, q, i)
  <2>1. g = t.grant
    BY <1>1, <1>2, <1>5
  <2>2. Granted(ev, p, i, t.grant)
    BY <1>3, <1>5 DEF Granted, q
  <2> QED BY <2>1, <2>2 DEF g
<1> QED BY <1>4, <1>5

LEMMA GrantIs ==
    ASSUME NEW ev, TypedStream(ev), NEW p \in Player, NEW z, Tallied(ev, p, z)
    PROVE  \A i \in 0 .. Len(ev) : z[i] \in Tally /\ Granted(ev, p, i, z[i].grant)
<1> DEFINE n == Len(ev)
           T == {i \in 0 .. n : z[i] \in Tally /\ Granted(ev, p, i, z[i].grant)}
<1>1. PICK S : ev \in Seq(S)
  BY DEF TypedStream
<1>2. n \in Nat /\ \A i \in 1 .. n : i \in DOMAIN ev
  BY <1>1
<1>3. 0 \in T
  <2>1. z[0] = NoTally /\ NoTally \in Tally /\ NoTally.grant = 0 /\ 0 \in 0 .. n
    BY <1>2 DEF Tallied, NoTally, Tally
  <2>2. \A j \in 1 .. 0 : FALSE
    OBVIOUS
  <2> QED BY <2>1, <2>2 DEF Granted
<1>4. ASSUME NEW i \in 1 .. n, i - 1 \in T PROVE i \in T
  <2>1. i \in 0 .. n /\ i \in Nat \ {0} /\ i \in DOMAIN ev
    BY <1>2
  <2>2. /\ ev[i].at \in Nat
        /\ ev[i].type = "OFFER_SUBMITTED" => ev[i].actor \in Player
    BY <2>1 DEF TypedStream
  <2>3. z[i] = TallyRead(p, z[i - 1], ev[i])
    BY DEF Tallied
  <2>4. z[i - 1] \in Tally /\ Granted(ev, p, i - 1, z[i - 1].grant)
    BY <1>4
  <2>5. z[i] \in Tally
    BY <2>2, <2>3, <2>4, TallyType
  <2>6. Granted(ev, p, i, z[i].grant)
    BY <2>1, <2>2, <2>3, <2>4, GrantedStep
  <2> QED BY <2>1, <2>5, <2>6
<1>5. 0 .. n \subseteq T
  <2> HIDE DEF T
  <2> QED BY <1>2, <1>3, <1>4, Climb
<1> QED BY <1>5

\* Every offer came before the act that ended the match.
OnTime(ev) ==
    \A i, j \in DOMAIN ev :
        ev[i].type = "OFFER_SUBMITTED" /\ ev[j].type \in Decisive => ev[i].at < ev[j].at

\* Event k is the first that decides the match.
DecidedAt(ev, k) ==
    /\ k \in 1 .. Len(ev) /\ ev[k].type \in Decisive
    /\ \A i \in 1 .. Len(ev) : ev[i].type \in Decisive => k <= i

\* The last decision of the review is what the last turn has taken.
LEMMA FinalIsThought ==
    ASSUME NEW ev, TypedStream(ev), InTime(ev), OnTime(ev), StartTime(ev) = 0,
           NEW p \in Player, NEW z, Tallied(ev, p, z), NEW k, DecidedAt(ev, k)
    PROVE  FinalDecisionMs(ev, p) = IF ev[k].actor # p THEN None ELSE Thought(z[k - 1], ev[k].at)
<1> DEFINE n == Len(ev)
           late == SelectInSeq(ev, LAMBDA e : e.at >= ev[k].at)
           Answers(e) == e.type = "OFFER_SUBMITTED" /\ e.actor = Other(p)
           offer == SelectLastInSubSeq(ev, 1, late - 1, Answers)
           from == IF offer = 0 THEN StartTime(ev) ELSE ev[offer].at
           q == Other(p)
<1>1. PICK S : ev \in Seq(S)
  BY DEF TypedStream
<1>2. n \in Nat /\ \A i \in 1 .. n : i \in DOMAIN ev /\ ev[i].at \in Nat
  BY <1>1 DEF TypedStream
<1>3. k \in 1 .. n /\ ev[k].type \in Decisive /\ \A i \in 1 .. n : ev[i].type \in Decisive => k <= i
  BY DEF DecidedAt
<1>4. FirstAt(ev, Decisive) = k
  <2>1. \/ FirstAt(ev, Decisive) = 0 /\ \A i \in 1 .. n : ev[i].type \notin Decisive
        \/ /\ FirstAt(ev, Decisive) \in 1 .. n /\ ev[FirstAt(ev, Decisive)].type \in Decisive
           /\ \A i \in 1 .. n : ev[i].type \in Decisive => FirstAt(ev, Decisive) <= i
    BY <1>2, FirstAtIs
  <2> DEFINE f == FirstAt(ev, Decisive)
  <2> HIDE DEF f
  <2>2. f \in 1 .. n /\ f <= k /\ k <= f
    BY <1>3, <2>1 DEF f
  <2>3. f = k
    BY <1>3, <2>2
  <2> QED BY <2>3 DEF f
<1>5. FinalDecisionMs(ev, p) = IF k = 0 \/ ev[k].actor # p THEN None
                               ELSE ActiveTime(ev, p, from, ev[k].at)
  BY <1>4 DEF FinalDecisionMs
<1> DEFINE J == {i \in 1 .. n : ev[i].at >= ev[k].at}
<1>6. k \in J /\ J \subseteq 1 .. n
  BY <1>2, <1>3
<1>7. late = Min(J)
  BY <1>6 DEF SelectInSeq
<1>8. late \in J /\ \A i \in J : late <= i
  <2> HIDE DEF J, n
  <2> QED BY <1>2, <1>6, <1>7, Extremes
<1>9. late \in 1 .. n /\ ev[late].at >= ev[k].at /\ late <= k
  BY <1>6, <1>8
<1> HIDE DEF late, J
\* An offer lies before the first late event, and before the end.
<1>10. ASSUME NEW i \in 1 .. n, ev[i].type = "OFFER_SUBMITTED" PROVE i \in 1 .. late - 1 /\ i \in 1 .. k - 1
  <2>1. ev[i].at < ev[k].at /\ ev[i].at \in Nat /\ ev[k].at \in Nat /\ ev[late].at \in Nat
    BY <1>2, <1>3, <1>9, <1>10 DEF OnTime
  <2>2. late <= i => ev[late].at <= ev[i].at
    BY <1>2, <1>9 DEF InTime
  <2>3. i < late
    BY <1>9, <2>1, <2>2
  <2> QED BY <1>3, <1>9, <2>3
<1> DEFINE I == {i \in 1 .. (late - 1) : Answers(ev[i])}
<1>11. offer = IF I # {} THEN Max(I) ELSE 0
  BY DEF SelectLastInSubSeq
<1>12. \A i : i \in I <=> i \in 1 .. k - 1 /\ BidAt(ev, q, i)
  <2>1. \A i \in 1 .. late - 1 : i \in 1 .. n
    BY <1>2, <1>9
  <2>2. \A i \in 1 .. k - 1 : i \in 1 .. n
    BY <1>2, <1>3
  <2> HIDE DEF n
  <2> QED BY <1>10, <2>1, <2>2 DEF BidAt
<1>13. I \subseteq 1 .. (late - 1) /\ late - 1 \in Nat
  BY <1>9
<1> HIDE DEF I, offer
<1>14. \/ offer = 0 /\ I = {}
       \/ offer \in I /\ offer # 0 /\ \A i \in I : i <= offer
  <2>1. CASE I = {}
    BY <1>11, <2>1
  <2>2. CASE I # {}
    <3>1. Max(I) \in I /\ \A i \in I : i <= Max(I)
      BY <1>13, <2>2, Extremes
    <3>2. offer = Max(I) /\ Max(I) # 0
      BY <1>11, <1>13, <2>2, <3>1
    <3> QED BY <3>1, <3>2
  <2> QED BY <2>1, <2>2
<1>15. Granted(ev, p, k - 1, z[k - 1].grant) /\ z[k - 1] \in Tally
  <2>1. k - 1 \in 0 .. n
    BY <1>2, <1>3
  <2> QED BY <2>1, GrantIs
<1>16. from = z[k - 1].grant
  <2>1. CASE z[k - 1].grant = 0 /\ \A j \in 1 .. k - 1 : ~BidAt(ev, q, j)
    BY <1>12, <1>14, <2>1
  <2>2. CASE \E j \in 1 .. k - 1 : /\ BidAt(ev, q, j) /\ z[k - 1].grant = ev[j].at
                                   /\ \A i \in 1 .. k - 1 : BidAt(ev, q, i) => i <= j
    <3>1. PICK j \in 1 .. k - 1 : /\ BidAt(ev, q, j) /\ z[k - 1].grant = ev[j].at
                                  /\ \A i \in 1 .. k - 1 : BidAt(ev, q, i) => i <= j
      BY <2>2
    <3>2. j \in I /\ offer \in I /\ offer # 0
      BY <1>12, <1>14, <3>1
    <3>3. j <= offer /\ offer <= j /\ offer \in 1 .. k - 1
      BY <1>12, <1>14, <3>1, <3>2
    <3>4. offer = j
      BY <3>3
    <3> QED BY <3>1, <3>2, <3>4
  <2> QED BY <1>15, <2>1, <2>2 DEF Granted
<1> HIDE DEF from
<1>17. ActiveTime(ev, p, z[k - 1].grant, ev[k].at) = Thought(z[k - 1], ev[k].at)
  BY <1>3, TallyIsReview
<1> QED BY <1>3, <1>5, <1>16, <1>17

\* A stream that never decides has no last decision.
LEMMA NoFinal ==
    ASSUME NEW ev, TypedStream(ev), NEW p, \A i \in DOMAIN ev : ev[i].type \notin Decisive
    PROVE  FinalDecisionMs(ev, p) = None
<1>1. PICK S : ev \in Seq(S)
  BY DEF TypedStream
<1>2. Len(ev) \in Nat /\ \A i \in 1 .. Len(ev) : i \in DOMAIN ev
  BY <1>1
<1>3. FirstAt(ev, Decisive) = 0
  BY <1>2, FirstAtIs
<1> QED BY <1>3 DEF FinalDecisionMs

\* The sum of all decision times.
LEMMA TimesTotal ==
    ASSUME NEW ev, NEW p, NEW moves, Times(moves) \in Seq(Int),
           FinalDecisionMs(ev, p) \in Nat \cup {None}
    PROVE  Total(DecisionTimes(ev, p, moves))
               = Total(Times(moves)) + (IF FinalDecisionMs(ev, p) = None THEN 0 ELSE FinalDecisionMs(ev, p))
<1> DEFINE s == Times(moves)
           f == FinalDecisionMs(ev, p)
<1>1. DecisionTimes(ev, p, moves) = s \o (IF f = None THEN <<>> ELSE <<f>>)
  BY DEF DecisionTimes, Times
<1> HIDE DEF s, f
<1>2. s \in Seq(Int) /\ f \in Nat \cup {None}
  BY DEF s, f
<1>3. CASE f = None
  <2>1. DecisionTimes(ev, p, moves) = s
    BY <1>1, <1>2, <1>3
  <2>2. Total(s) \in Int
    <3>1. PICK r : Total(s) = r[Len(s)] /\ \A i \in 0 .. Len(s) : r[i] \in Int
      BY <1>2, TotalRun
    <3>2. Len(s) \in 0 .. Len(s)
      BY <1>2
    <3> QED BY <3>1, <3>2
  <2> QED BY <1>3, <2>1, <2>2 DEF s, f
<1>4. CASE f # None
  <2>1. f \in Int /\ s \o <<f>> = Append(s, f)
    BY <1>2, <1>4
  <2>2. Total(Append(s, f)) = Total(s) + f
    BY <1>2, <2>1, TotalAppend
  <2> QED BY <1>1, <1>4, <2>1, <2>2 DEF s, f
<1> QED BY <1>3, <1>4

-----------------------------------------------------------------------------
(* The review: decision times and clocks along the match                   *)

\* The match began at 0 and its events come in time.
Punctual(ev) ==
    /\ InTime(ev)
    /\ \E k \in DOMAIN ev : ev[k].type = "MATCH_STARTED"
    /\ \A k \in DOMAIN ev : ev[k].type = "MATCH_STARTED" => ev[k].at = 0

NoReveal(ev) == \A k \in DOMAIN ev : ev[k].type # "FACT_REVEALED"

DecisionTotal(ev, p) == Total(DecisionTimes(ev, p, ClassifyMoves(ev, p)))

\* The decision times of p are p's clock.
AddsUp(m, ev, p) ==
    IF m.reason = "ABORTED" THEN DecisionTotal(ev, p) <= m.cumulative[p]
    ELSE DecisionTotal(ev, p) = m.cumulative[p]

\* Some tally of p's events agrees with p's clock.
KeepsTime(m, ev, p) == \E z : Tallied(ev, p, z) /\ Clocked(m, p, z[Len(ev)], Last(ev).at)

\* Until the match is over the tallies agree with the clocks, and then the decision
\* times do, if no reveal took a turn.
ClocksKept(m, ev) ==
    NoReveal(ev) =>
        \A p \in Player : IF Terminal(m) THEN OnTime(ev) => AddsUp(m, ev, p) ELSE KeepsTime(m, ev, p)

LEMMA StartIsZero ==
    ASSUME NEW ev, TypedStream(ev), Punctual(ev)
    PROVE  StartTime(ev) = 0
<1>1. PICK S : ev \in Seq(S)
  BY DEF TypedStream
<1>2. Len(ev) \in Nat /\ \A k : k \in DOMAIN ev <=> k \in 1 .. Len(ev)
  BY <1>1
<1> DEFINE f == FirstAt(ev, {"MATCH_STARTED"})
<1>3. f \in 1 .. Len(ev) /\ ev[f].type = "MATCH_STARTED"
  BY <1>2, FirstAtIs DEF Punctual
<1> HIDE DEF f
<1>4. ev[f].at = 0
  BY <1>2, <1>3 DEF Punctual
<1> QED BY <1>4 DEF StartTime, f

\* The last event of the stream, before and after one command.
LEMMA LastTold ==
    ASSUME NEW m, NEW ev, NEW n, NEW nv, NEW c, NEW t, Told(m, ev, n, nv, c, t)
    PROVE  /\ Last(nv).at = t /\ Last(ev).at = ev[Len(ev)].at /\ Len(ev) \in DOMAIN ev
           /\ \A k \in DOMAIN nv : k \in DOMAIN ev \/ nv[k].at = t
<1>1. PICK S, R : ev \in Seq(S) /\ nv \in Seq(R)
  BY NewEvents
<1>2. Len(ev) >= 1 /\ Len(ev) \in Nat
  BY <1>1 DEF Told, TypedStream
<1>3. ASSUME NEW k \in DOMAIN nv, k \notin DOMAIN ev PROVE nv[k].at = t
  BY <1>3, NewEvents DEF FirstEvent
<1>4. Len(nv) \in DOMAIN nv /\ Len(nv) \notin DOMAIN ev
  BY <1>1, <1>2, NewEvents
<1>5. Last(nv) = nv[Len(nv)] /\ Last(ev) = ev[Len(ev)]
  BY DEF Last
<1>6. Len(ev) \in DOMAIN ev
  BY <1>1, <1>2
<1> QED BY <1>3, <1>4, <1>5, <1>6

LEMMA PunctualStays ==
    ASSUME NEW m, NEW ev, NEW n, NEW nv, NEW c, NEW t, Told(m, ev, n, nv, c, t),
           Last(ev).at <= t, Punctual(ev)
    PROVE  Punctual(nv)
<1>1. PICK S, R : ev \in Seq(S) /\ nv \in Seq(R)
  BY NewEvents
<1>2. /\ \A k \in DOMAIN ev : k \in DOMAIN nv /\ nv[k] = ev[k] /\ k <= Len(ev) /\ ev[k].at \in Nat
      /\ t \in Nat
  BY NewEvents DEF Told, TypedStream
<1>3. Last(ev).at = ev[Len(ev)].at /\ Len(ev) \in DOMAIN ev
      /\ \A k \in DOMAIN nv : k \in DOMAIN ev \/ nv[k].at = t
  BY LastTold
<1>4. ASSUME NEW i \in DOMAIN ev PROVE ev[i].at <= t
  <2>1. ev[i].at <= ev[Len(ev)].at
    BY <1>2, <1>3 DEF Punctual, InTime
  <2>2. ev[i].at \in Nat /\ ev[Len(ev)].at \in Nat /\ ev[Len(ev)].at <= t
    BY <1>2, <1>3
  <2> QED BY <1>2, <2>1, <2>2
<1>5. ASSUME NEW i \in DOMAIN nv, NEW j \in DOMAIN nv, i <= j PROVE nv[i].at <= nv[j].at
  <2>1. CASE j \in DOMAIN ev
    <3>1. i \in DOMAIN ev
      <4>1. i \in 1 .. Len(nv) /\ j \in 1 .. Len(ev) /\ Len(ev) \in Nat /\ Len(nv) \in Nat
        BY <1>1, <2>1
      <4>2. i \in 1 .. Len(ev)
        BY <1>5, <4>1
      <4> QED BY <1>1, <4>2
    <3> QED BY <1>2, <1>5, <2>1, <3>1 DEF Punctual, InTime
  <2>2. CASE j \notin DOMAIN ev
    <3>1. nv[j].at = t
      BY <1>3, <2>2
    <3>2. nv[i].at <= t
      BY <1>2, <1>3, <1>4
    <3> QED BY <3>1, <3>2
  <2> QED BY <2>1, <2>2
<1>6. InTime(nv)
  BY <1>5 DEF InTime
<1>7. \E k \in DOMAIN nv : nv[k].type = "MATCH_STARTED"
  BY <1>2 DEF Punctual
<1>8. ASSUME NEW k \in DOMAIN nv, nv[k].type = "MATCH_STARTED" PROVE nv[k].at = 0
  <2>1. WellFormed(c) /\ c.kind # "READY"
    BY DEF Told
  <2>2. FirstType(c.kind) # "MATCH_STARTED"
    BY <2>1 DEF WellFormed, FirstType
  <2>3. k \in DOMAIN ev
    BY <1>8, <2>2, NewEvents DEF FirstEvent
  <2> QED BY <1>2, <1>8, <2>3 DEF Punctual
<1> QED BY <1>6, <1>7, <1>8 DEF Punctual

\* The tally goes on along the stream; what follows a command's own event is not counted.
LEMMA TallyGrows ==
    ASSUME NEW m, NEW ev, NEW n, NEW nv, NEW c, NEW t, Told(m, ev, n, nv, c, t),
           NEW p, NEW z, Tallied(ev, p, z)
    PROVE  \E y : /\ Tallied(nv, p, y) /\ y[Len(ev)] = z[Len(ev)]
                  /\ y[Len(nv)] = TallyRead(p, z[Len(ev)], nv[Len(ev) + 1])
<1> DEFINE l == Len(ev)
           u == TallyRead(p, z[l], nv[l + 1])
           y == [i \in 0 .. Len(nv) |-> IF i <= l THEN z[i] ELSE u]
<1>1. PICK S, R : ev \in Seq(S) /\ nv \in Seq(R)
  BY NewEvents
<1>2. l \in Nat /\ (Len(nv) = l + 1 \/ Len(nv) = l + 2)
  BY <1>1, NewEvents
<1>3. ASSUME NEW i \in 1 .. l PROVE nv[i] = ev[i]
  <2>1. i \in DOMAIN ev
    BY <1>1
  <2> QED BY <2>1, NewEvents
<1>4. ASSUME Len(nv) = l + 2 PROVE TallyRead(p, u, nv[l + 2]) = u
  <2>1. l + 2 \in DOMAIN nv /\ l + 2 \notin DOMAIN ev /\ l + 2 # l + 1
    BY <1>1, <1>2, <1>4
  <2>2. nv[l + 2].type \in {"MATCH_COMPLETED", "MATCH_PAUSED"}
    BY <2>1, NewEvents
  <2> HIDE DEF u
  <2> QED BY <2>2 DEF TallyRead
<1>5. z[0] = NoTally /\ \A i \in 1 .. l : z[i] = TallyRead(p, z[i - 1], ev[i])
  BY DEF Tallied
<1> HIDE DEF u, l
<1>6. \A i \in 0 .. Len(nv) : y[i] = IF i <= l THEN z[i] ELSE u
  OBVIOUS
<1> HIDE DEF y
<1>7. y[0] = NoTally /\ y[l] = z[l] /\ y[l + 1] = u /\ y[Len(nv)] = u
  <2>1. 0 \in 0 .. Len(nv) /\ l \in 0 .. Len(nv) /\ l + 1 \in 0 .. Len(nv) /\ Len(nv) \in 0 .. Len(nv)
        /\ 0 <= l /\ ~(l + 1 <= l) /\ ~(Len(nv) <= l)
    BY <1>2
  <2> QED BY <1>5, <1>6, <2>1
<1>8. ASSUME NEW i \in 1 .. Len(nv) PROVE y[i] = TallyRead(p, y[i - 1], nv[i])
  <2>1. i \in 0 .. Len(nv) /\ i - 1 \in 0 .. Len(nv)
        /\ (i \in 1 .. l \/ i = l + 1 \/ (i = l + 2 /\ Len(nv) = l + 2))
    BY <1>2
  <2>2. CASE i \in 1 .. l
    <3>1. i <= l /\ i - 1 <= l
      BY <1>2, <2>2
    <3> QED BY <1>3, <1>5, <1>6, <2>1, <2>2, <3>1
  <2>3. CASE i = l + 1
    <3>1. i - 1 = l
      BY <1>2, <2>3
    <3> QED BY <1>7, <2>3, <3>1 DEF u
  <2>4. CASE i = l + 2 /\ Len(nv) = l + 2
    <3>1. i - 1 = l + 1
      BY <1>2, <2>4
    <3> QED BY <1>4, <1>7, <2>4, <3>1
  <2> QED BY <2>1, <2>2, <2>3, <2>4
<1>9. Tallied(nv, p, y)
  BY <1>7, <1>8 DEF Tallied
<1> QED BY <1>7, <1>9 DEF u, l

\* A turn is over or goes on: an ending takes the clock as it stands.
LEMMA EndingCharges ==
    ASSUME NEW m, NEW t \in Nat, InOrder(m, t), NEW c, WellFormed(c), Accepted(m, c, t), ~Terminal(m)
    PROVE  LET n == Applied(m, c, t) IN
           /\ c.kind \in Endings =>
                OwnsTurn(m, c.by) /\ n.cumulative = FrozenClock(m, t) /\ n.reason # "ABORTED"
           /\ c.kind = "ABORT" => n.cumulative = FrozenClock(m, t) /\ n.reason = "ABORTED"
<1> DEFINE n == Applied(m, c, t)
<1>1. m \in Match /\ m.settlement \in Amount \cup {None}
  BY DEF InOrder, Match
<1>2. CASE c.kind = "ACCEPT"
  <2>1. n = AfterAccept(m, c.by, t) /\ CanAccept(m, c.by, c.arg, t) /\ c.by \in Player
    BY <1>2 DEF Applied, Accepted, WellFormed
  <2>2. OwnsTurn(m, c.by)
    BY <2>1 DEF CanAccept, HasTurn, OwnsTurn
  <2>3. m.latest[Other(c.by)] \in Amount \cup {None}
    BY <1>1, <2>1, OtherIsPlayer DEF Match
  <2>4. n.cumulative = FrozenClock(m, t) /\ n.reason = "ACCEPTED"
    BY <1>1, <2>1, <2>3, EndedClock DEF AfterAccept, Reason
  <2> QED BY <1>2, <2>2, <2>4
<1>3. CASE c.kind = "WALK_AWAY"
  <2>1. n = AfterWalkAway(m, t) /\ CanWalkAway(m, c.by, t)
    BY <1>3 DEF Applied, Accepted
  <2>2. OwnsTurn(m, c.by)
    BY <2>1 DEF CanWalkAway, HasTurn, OwnsTurn
  <2>4. n = Ended(m, "NO_DEAL", "WALKED_AWAY", m.settlement, 2, t) /\ "WALKED_AWAY" \in Reason
    BY <2>1 DEF AfterWalkAway, Reason
  <2>3. n.cumulative = FrozenClock(m, t) /\ n.reason = "WALKED_AWAY"
    <3> HIDE DEF n
    <3> QED BY <1>1, <2>4, EndedClock
  <2> QED BY <1>3, <2>2, <2>3
<1>4. CASE c.kind = "TIMEOUT"
  <2>1. n = AfterTimeout(m, t) /\ CanTimeout(m, c.by, t)
    BY <1>4 DEF Applied, Accepted
  <2>2. OwnsTurn(m, c.by)
    BY <2>1 DEF CanTimeout, OwnsTurn
  <2>4. n = Ended(m, "NO_DEAL", "TIMED_OUT", m.settlement, 2, t) /\ "TIMED_OUT" \in Reason
    BY <2>1 DEF AfterTimeout, Reason
  <2>3. n.cumulative = FrozenClock(m, t) /\ n.reason = "TIMED_OUT"
    <3> HIDE DEF n
    <3> QED BY <1>1, <2>4, EndedClock
  <2> QED BY <1>4, <2>2, <2>3
<1>5. CASE c.kind = "ABORT"
  <2>1. n = AfterAbort(m, t)
    BY <1>5 DEF Applied
  <2>2. n = Ended(m, "ABORTED", "ABORTED", m.settlement, 1, t)
    BY <2>1 DEF AfterAbort
  <2>3. n.cumulative = FrozenClock(m, t) /\ n.reason = "ABORTED"
    BY <1>1, <2>2, EndedClock DEF Reason
  <2> QED BY <1>5, <2>3 DEF Endings
<1> QED BY <1>2, <1>3, <1>4, <1>5 DEF Endings

\* Nothing an ending or a message says is counted.
LEMMA EndingUncounted ==
    ASSUME NEW c, c.kind \in Endings \cup {"ABORT"}, NEW t, NEW e, FirstEvent(c, t, e), NEW p, NEW x
    PROVE  TallyRead(p, x, e) = x /\ (c.kind \in Endings => e.type \in Decisive)
           /\ (c.kind = "ABORT" => e.type \notin Decisive)
<1>1. e.type \in {"OFFER_ACCEPTED", "WALKED_AWAY", "TIMED_OUT", "MATCH_ABORTED"}
  BY DEF FirstEvent, FirstType, Endings
<1>2. c.kind \in Endings => e.type \in Decisive
  BY DEF FirstEvent, FirstType, Endings, Decisive
<1>3. c.kind = "ABORT" => e.type \notin Decisive
  BY DEF FirstEvent, FirstType, Endings, Decisive
<1> QED BY <1>1, <1>2, <1>3 DEF TallyRead

\* What a player's decisions took, when a command ends the match.
LEMMA EndAddsUp ==
    ASSUME NEW m, NEW ev, NEW n, NEW nv, NEW c, NEW t, Told(m, ev, n, nv, c, t),
           InOrder(m, t), Punctual(nv), OnTime(nv), EndsOnce(m, ev),
           c.kind \in Endings \cup {"ABORT"}, NEW p \in Player, NEW z, Tallied(ev, p, z),
           Clocked(m, p, z[Len(ev)], t)
    PROVE  AddsUp(n, nv, p)
<1> DEFINE l == Len(ev)
           s == z[l]
           k == l + 1
           moves == ClassifyMoves(nv, p)
           final == FinalDecisionMs(nv, p)
<1>1. PICK S, R : ev \in Seq(S) /\ nv \in Seq(R)
  BY NewEvents
<1>2. /\ m \in Match /\ ~Terminal(m) /\ t \in Nat /\ WellFormed(c) /\ Accepted(m, c, t)
      /\ n = Applied(m, c, t)
  BY DEF Told
<1>3. l \in Nat /\ k \in DOMAIN nv /\ k \notin DOMAIN ev /\ k \in 1 .. Len(nv) /\ k - 1 = l
  BY <1>1, NewEvents
<1>4. FirstEvent(c, t, nv[k])
  BY NewEvents
<1>5. /\ \A x : TallyRead(p, x, nv[k]) = x
      /\ c.kind \in Endings => nv[k].type \in Decisive
      /\ c.kind = "ABORT" => nv[k].type \notin Decisive
  BY <1>4, EndingUncounted
<1>6. PICK y : Tallied(nv, p, y) /\ y[l] = s /\ y[Len(nv)] = TallyRead(p, s, nv[k])
  BY TallyGrows
<1>7. TypedStream(nv) /\ InTime(nv) /\ StartTime(nv) = 0
  BY StreamTyped, StartIsZero DEF Punctual
<1>8. Times(moves) \in Seq(Int) /\ Total(Times(moves)) = s.total
  BY <1>5, <1>6, <1>7, TallyIsReview
<1>9. /\ s.total \in Nat /\ s.total <= m.cumulative[p] /\ m.cumulative[p] \in Nat
      /\ m.active # p => m.cumulative[p] = s.total
  BY <1>2, ClockedNumbers DEF Clocked
<1>10. s \in Tally
  BY DEF Clocked
<1>11. \A i \in DOMAIN nv : i \in DOMAIN ev => nv[i].type \notin Decisive
  <2>1. ASSUME NEW i \in DOMAIN ev PROVE nv[i].type \notin Decisive
    <3>1. ~EndAt(ev, i) /\ nv[i] = ev[i]
      BY <1>2, NewEvents DEF EndsOnce
    <3> QED BY <3>1 DEF EndAt
  <2> QED BY <2>1
<1>12. final \in Nat \cup {None}
  BY <1>7, FinalDecisionType
<1>13. DecisionTotal(nv, p) = s.total + (IF final = None THEN 0 ELSE final)
  BY <1>8, <1>12, TimesTotal DEF DecisionTotal
<1>14. CASE c.kind \in Endings
  <2>1. OwnsTurn(m, c.by) /\ n.cumulative = FrozenClock(m, t) /\ n.reason # "ABORTED"
    BY <1>2, <1>14, EndingCharges
  <2>2. DecidedAt(nv, k)
    <3>1. ASSUME NEW i \in 1 .. Len(nv), nv[i].type \in Decisive PROVE k <= i
      <4>1. i \in DOMAIN nv /\ i \notin DOMAIN ev
        BY <1>1, <1>11, <3>1
      <4>2. i \notin 1 .. l
        BY <1>1, <4>1
      <4> QED BY <1>3, <4>2
    <3> QED BY <1>3, <1>5, <1>14, <3>1 DEF DecidedAt
  <2>3. nv[k].actor = c.by /\ nv[k].at = t /\ c.by \in Player
    BY <1>2, <1>4, <1>14 DEF FirstEvent, Endings, WellFormed
  <2>4. final = IF nv[k].actor # p THEN None ELSE Thought(y[k - 1], nv[k].at)
    BY <1>6, <1>7, <2>2, FinalIsThought
  <2>5. final = IF c.by # p THEN None ELSE Thought(s, t)
    BY <1>3, <1>6, <2>3, <2>4
  <2> HIDE DEF final, s
  <2>6. CASE p = c.by
    <3>1. FrozenClock(m, t)[p] = s.total + Thought(s, t)
      BY <1>2, <2>1, <2>6, ThoughtIsCharged DEF s
    <3>2. final = Thought(s, t)
      BY <2>5, <2>6
    <3>3. final # None
      <4>1. Thought(s, nv[k].at) \in Nat
        BY <1>2, <1>10, <2>3, TallyType
      <4> QED BY <2>3, <3>2, <4>1, NoneAssumption
    <3>4. DecisionTotal(nv, p) = s.total + final
      BY <1>13, <3>3
    <3> QED BY <2>1, <3>1, <3>2, <3>4 DEF AddsUp
  <2>7. CASE p # c.by
    <3>1. p = Other(c.by) /\ m.active # p
      BY <2>1, <2>3, <2>7 DEF Player, Other, OwnsTurn
    <3>2. FrozenClock(m, t)[p] = m.cumulative[p]
      BY <2>1, <2>3, <3>1, <1>2, OnTurnClock
    <3>3. DecisionTotal(nv, p) = s.total + 0
      BY <1>13, <2>5, <2>7
    <3>4. DecisionTotal(nv, p) = m.cumulative[p]
      BY <1>9, <3>1, <3>3
    <3> QED BY <2>1, <3>2, <3>4 DEF AddsUp
  <2> QED BY <2>6, <2>7
<1>15. CASE c.kind = "ABORT"
  <2>1. n.cumulative = FrozenClock(m, t) /\ n.reason = "ABORTED"
    BY <1>2, <1>15, EndingCharges
  <2>2. Len(nv) = l + 1
    BY <1>15 DEF Told, Grown, Endings
  <2>3. \A i \in DOMAIN nv : nv[i].type \notin Decisive
    <3>1. \A i \in DOMAIN nv : i \in DOMAIN ev \/ i = k
      BY <1>1, <1>3, <2>2
    <3> QED BY <1>5, <1>11, <1>15, <3>1
  <2>4. final = None
    BY <1>7, <2>3, NoFinal
  <2>5. DecisionTotal(nv, p) = s.total
    BY <1>9, <1>13, <2>4
  <2>6. FrozenClock(m, t) \in [Player -> Nat] /\ FrozenClock(m, t)[p] >= m.cumulative[p]
    <3>1. /\ FrozenClock(m, t) \in [Player -> Nat]
          /\ ElapsedActive(m, p, t) >= m.cumulative[p]
      BY <1>2, FrozenClockType
    <3>2. FrozenClock(m, t)[p] = ElapsedActive(m, p, t)
      BY DEF FrozenClock
    <3> QED BY <3>1, <3>2
  <2> DEFINE f == FrozenClock(m, t)[p]
  <2>7. f \in Nat /\ f >= m.cumulative[p]
    BY <2>6
  <2> HIDE DEF s, f
  <2>8. s.total <= f
    BY <1>9, <2>7
  <2> QED BY <2>1, <2>5, <2>8 DEF AddsUp, f
<1> QED BY <1>14, <1>15

\* One command keeps the tallies, or the decision times, on the clocks.
LEMMA ClocksStayKept ==
    ASSUME NEW m, NEW ev, NEW n, NEW nv, NEW c, NEW t, Told(m, ev, n, nv, c, t), Last(ev).at <= t,
           StreamInv(m, ev), Punctual(nv), ClocksKept(m, ev)
    PROVE  ClocksKept(n, nv)
<1> SUFFICES ASSUME NoReveal(nv), NEW p \in Player
             PROVE  IF Terminal(n) THEN OnTime(nv) => AddsUp(n, nv, p) ELSE KeepsTime(n, nv, p)
  BY DEF ClocksKept
<1>1. /\ m \in Match /\ ~Terminal(m) /\ t \in Nat /\ WellFormed(c) /\ Accepted(m, c, t)
      /\ n = Applied(m, c, t) /\ c.kind # "READY" /\ Emitted(m, c, t) # <<>> /\ TypedStream(ev)
  BY DEF Told
<1>2. Last(ev).at \in Nat
  BY <1>1, LastTold DEF TypedStream
<1>3. InOrder(m, t)
  BY <1>1, <1>2, LaterInOrder DEF StreamInv
<1>4. NoReveal(ev)
  BY NewEvents DEF NoReveal
<1>5. PICK z : Tallied(ev, p, z) /\ Clocked(m, p, z[Len(ev)], Last(ev).at)
  BY <1>1, <1>4 DEF ClocksKept, KeepsTime
<1>6. Clocked(m, p, z[Len(ev)], t)
  BY <1>1, <1>2, <1>5, ClockedLater
<1>7. GoesOnOrEnds(m, c, n)
  BY <1>1, AppliedEnds
<1>8. CASE c.kind \in Endings \cup {"ABORT"}
  <2>1. Terminal(n)
    BY <1>1, <1>7, <1>8 DEF GoesOnOrEnds, Terminal, Endings
  <2>2. EndsOnce(m, ev)
    BY DEF StreamInv
  <2> QED BY <1>3, <1>5, <1>6, <1>8, <2>1, <2>2, EndAddsUp
<1>9. CASE c.kind \notin Endings \cup {"ABORT"}
  <2>1. ~Terminal(n)
    BY <1>1, <1>7, <1>9 DEF GoesOnOrEnds
  <2>2. FirstEvent(c, t, nv[Len(ev) + 1]) /\ Len(ev) + 1 \in DOMAIN nv
    <3>1. PICK S, R : ev \in Seq(S) /\ nv \in Seq(R)
      BY NewEvents
    <3>2. Len(ev) + 1 \in DOMAIN nv
      BY <3>1, NewEvents
    <3> QED BY <3>2, NewEvents
  <2>3. c.kind # "REVEAL"
    BY <2>2 DEF NoReveal, FirstEvent, FirstType
  <2>4. c.kind \in {"OFFER", "MESSAGE", "DISCONNECT", "RECONNECT"}
    BY <1>1, <1>9, <2>3 DEF WellFormed, Endings
  <2>5. Clocked(n, p, TallyRead(p, z[Len(ev)], nv[Len(ev) + 1]), t)
    BY <1>1, <1>3, <1>6, <2>2, <2>4, CommandIsTallied
  <2>6. PICK y : /\ Tallied(nv, p, y)
                 /\ y[Len(nv)] = TallyRead(p, z[Len(ev)], nv[Len(ev) + 1])
    BY <1>5, TallyGrows
  <2>7. Last(nv).at = t
    BY LastTold
  <2>8. KeepsTime(n, nv, p)
    BY <2>5, <2>6, <2>7 DEF KeepsTime
  <2> QED BY <2>1, <2>8
<1> QED BY <1>8, <1>9

\* Nothing is counted before the match starts.
LEMMA OpeningKeepsTime ==
    ASSUME NEW rv \in [Player -> Amount], NEW first \in Player
    PROVE  LET o == Opening(rv, first) IN Punctual(o.events) /\ ClocksKept(o.match, o.events)
<1> DEFINE m == Opening(rv, first).match
           ev == Opening(rv, first).events
           z == [i \in 0 .. Len(ev) |-> NoTally]
<1>1. /\ StreamInv(m, ev) /\ m.status = "ACTIVE"
      /\ \E k \in DOMAIN ev : ev[k].type = "MATCH_STARTED"
      /\ \A k \in DOMAIN ev : ev[k].type \in {"PLAYER_READY", "MATCH_STARTED"} /\ ev[k].at = 0
      /\ m.active \in Player /\ m.turnStartedAt = 0
      /\ \A p \in Player : m.cumulative[p] = 0 /\ ~m.disconnected[p]
  BY OpeningStream
<1> HIDE DEF m, ev
<1>2. PICK S : ev \in Seq(S) /\ Len(ev) >= 1
  BY <1>1 DEF StreamInv, TypedStream
<1>3. Len(ev) \in Nat /\ Len(ev) \in DOMAIN ev /\ \A i \in 1 .. Len(ev) : i \in DOMAIN ev
  BY <1>2
<1>4. Punctual(ev)
  BY <1>1 DEF Punctual, InTime
<1>5. Last(ev).at = 0
  BY <1>1, <1>3 DEF Last
<1>6. ~Terminal(m)
  BY <1>1 DEF Terminal
<1>7. ASSUME NEW p \in Player PROVE KeepsTime(m, ev, p)
  <2>1. z[0] = NoTally /\ z[Len(ev)] = NoTally
    BY <1>3
  <2>2. ASSUME NEW i \in 1 .. Len(ev) PROVE z[i] = TallyRead(p, z[i - 1], ev[i])
    <3>1. i \in 0 .. Len(ev) /\ i - 1 \in 0 .. Len(ev) /\ i \in DOMAIN ev
      BY <1>3
    <3>2. z[i] = NoTally /\ z[i - 1] = NoTally
      BY <3>1
    <3> HIDE DEF z
    <3>3. TallyRead(p, NoTally, ev[i]) = NoTally
      BY <1>1, <3>1 DEF TallyRead
    <3> QED BY <3>2, <3>3
  <2> HIDE DEF z
  <2>3. Tallied(ev, p, z)
    BY <2>1, <2>2 DEF Tallied
  <2>4. NoTally \in Tally /\ NoTally.open = None /\ NoTally.grant = 0 /\ NoTally.paused = 0
        /\ NoTally.total = 0
    BY DEF NoTally, Tally
  <2>5. Clocked(m, p, NoTally, 0)
    BY <1>1, <2>4 DEF Clocked
  <2> QED BY <1>5, <2>1, <2>3, <2>5 DEF KeepsTime
<1>8. ClocksKept(m, ev)
  BY <1>6, <1>7 DEF ClocksKept
<1> QED BY <1>4, <1>8 DEF m, ev

ClockInv == PlayInv /\ Punctual(events) /\ ClocksKept(match, events)

LEMMA PlayKeepsTime == PlaySpec => []ClockInv
<1>1. PlayInit => ClockInv
  <2> SUFFICES ASSUME PlayInit PROVE ClockInv
    OBVIOUS
  <2>1. PICK rv \in Reservations, first \in Player :
            match = Opening(rv, first).match /\ events = Opening(rv, first).events
    BY DEF PlayInit
  <2>2. rv \in [Player -> Amount]
    BY ReviewAssumption
  <2> QED BY <2>1, <2>2, PlayInitInv, OpeningKeepsTime DEF ClockInv
<1>2. ClockInv /\ [PlayNext]_playVars => ClockInv'
  <2> SUFFICES ASSUME ClockInv, [PlayNext]_playVars PROVE ClockInv'
    OBVIOUS
  <2>1. PlayInv'
    BY PlayKept DEF ClockInv
  <2>2. CASE PlayNext
    <3>1. PICK c, at : Told(match, events, match', events', c, at) /\ Last(events).at <= at
      BY <2>2, PlayTold DEF ClockInv
    <3>2. Punctual(events')
      BY <3>1, PunctualStays DEF ClockInv
    <3>3. ClocksKept(match', events')
      BY <3>1, <3>2, ClocksStayKept DEF ClockInv, PlayInv
    <3> QED BY <2>1, <3>2, <3>3 DEF ClockInv
  <2>3. CASE UNCHANGED playVars
    BY <2>1, <2>3 DEF ClockInv, playVars
  <2> QED BY <2>2, <2>3
<1> QED BY <1>1, <1>2, PTL DEF PlaySpec

\* No events of a kind are counted only if there are none.
LEMMA NoneCounted ==
    ASSUME TypedStream(events), NEW types, Count(types) = 0
    PROVE  \A k \in DOMAIN events : events[k].type \notin types
<1> DEFINE I == {i \in DOMAIN events : events[i].type \in types}
<1>1. PICK S : events \in Seq(S)
  BY DEF TypedStream
<1>2. I \subseteq 1 .. Len(events) /\ Len(events) \in Nat
  BY <1>1
<1>3. IsFiniteSet(1 .. Len(events))
  BY <1>2, FS_Interval
<1>4. Cardinality(I) = 0
  BY DEF Count
<1> HIDE DEF I
<1>5. IsFiniteSet(I)
  BY <1>2, <1>3, FS_Subset
<1>6. I = {}
  BY <1>4, <1>5, FS_EmptySet
<1> QED BY <1>6 DEF I

\* For streams of any length: when a match is over in which no reveal took a turn and
\* every offer came before the end, the decision times its review works out from the
\* events are the clock the match was decided by, or no more than it if the match was
\* aborted in mid-decision (features.ts:114-117, 150-168; match.ts, freezeRunningClock).
THEOREM DecisionTimesAreClocks == PlaySpec => []DecisionTimesAddUp
<1>1. ClockInv => DecisionTimesAddUp
  <2> SUFFICES ASSUME ClockInv, Terminal(match), Orderly, NEW p \in Player
               PROVE  AddsUp(match, events, p)
    BY DEF DecisionTimesAddUp, AddsUp, DecisionTotal, Total
  <2>1. TypedStream(events) /\ Count({"FACT_REVEALED"}) = 0 /\ OnTime(events)
    BY DEF ClockInv, PlayInv, StreamInv, Orderly, OnTime
  <2>2. NoReveal(events)
    BY <2>1, NoneCounted DEF NoReveal
  <2> QED BY <2>1, <2>2 DEF ClockInv, ClocksKept
<1> QED BY <1>1, PlayKeepsTime, PTL
=============================================================================
