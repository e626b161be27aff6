-------------------------- MODULE LifecycleProofs --------------------------
(***************************************************************************)
(* Theorems about every instance of MatchLifecycle: any number of users,   *)
(* bots, rows and overlapping requests.                                    *)
(*                                                                         *)
(* The argument has three layers: rows and requests have their types; a    *)
(* row only ever evolves (its seats fill, its status moves on, a finished  *)
(* row stays as it is), whatever request commits; so what a request read   *)
(* of a row before its transaction is still true of it in the transaction. *)
(***************************************************************************)
EXTENDS MatchLifecycle, FiniteSetTheorems, TLAPS

Account == User \cup Bot

Row ==
    [status : {"CREATED", "READY", "ACTIVE", "OVER", "DELETED"}, token : BOOLEAN,
     source : Nat \cup {None}, opponent : Account \cup {None},
     seats : [Role -> Account \cup {None}], ready : SUBSET Role]

Request ==
    [op : {"join", "propose", "accept"}, id : Nat, user : User, role : Role]
    \cup [op : {"ready"}, id : Nat, user : Bot, role : Role]
    \cup [op : {"resolve"}, id : Nat, user : User, role : {"OPPONENT", "PROPOSER"}]

\* Somebody sits in every match; a link is open; play needs two; a bot waits for
\* nobody but the human.
RowOK(row) ==
    /\ Taken(row) # {}
    /\ row.token => Open(row) /\ ~IsProposal(row)
    /\ row.status \in {"READY", "ACTIVE", "OVER"} => Full(row)
    /\ IsAi(row) => Full(row) /\ (Waiting(row) \/ row.ready = Role)

\* What a request read of its row still holds.
CallOK(call, row) ==
    /\ call.op \in {"join", "accept"} => Taken(row) \cup {call.role} = Role
    /\ call.op \in {"accept", "resolve"} => IsProposal(row)
    /\ call.op = "propose" =>
           row.status = "OVER" /\ ~IsAi(row) /\ row.seats[call.role] = call.user
    /\ call.op = "ready" => row.seats[call.role] = call.user

\* A proposal and its source.
Rematch(row, source) ==
    /\ source.status = "OVER"
    /\ \A r \in Role : source.seats[r] = IF r \in Taken(row) THEN row.seats[r] ELSE row.opponent

Typed ==
    /\ rows \in Seq(Row)
    /\ resolved \in Seq(Nat)
    /\ Len(resolved) = Len(rows)
    /\ calls \in [Call -> {Idle} \cup Request]

Sound ==
    /\ \A id \in Id : RowOK(rows[id])
    /\ \A c \in Call : calls[c] # Idle => calls[c].id \in Id /\ CallOK(calls[c], rows[calls[c].id])
    /\ \A id \in Id : rows[id].source # None => rows[id].source \in Id

\* What no step undoes.
Evolves(old, new) ==
    /\ new.source = old.source /\ new.opponent = old.opponent
    /\ \A r \in Taken(old) : new.seats[r] = old.seats[r]
    /\ old.status = "OVER" => new = old
    /\ new.status = "CREATED" => old.status = "CREATED"
    /\ IsAi(new) <=> IsAi(old)
    /\ old.ready \subseteq new.ready
    /\ IsProposal(old) => \A r \in Taken(new) \ Taken(old) : new.seats[r] = old.opponent

-----------------------------------------------------------------------------
(* Lemmas about the operators                                              *)

\* The two sides of a match.
LEMMA OppositeSides ==
    ASSUME NEW r \in Role
    PROVE  Opposite(r) \in Role /\ Opposite(r) # r /\ {r, Opposite(r)} = Role
BY DEF Role, Opposite

\* The free side of an open row, one seat of which is taken, is the other one.
LEMMA FreeSide ==
    ASSUME NEW row \in Row, Taken(row) # {}, ~Full(row)
    PROVE  /\ FreeRole(row) \in Role
           /\ row.seats[FreeRole(row)] = None
           /\ Taken(row) \cup {FreeRole(row)} = Role
<1>1. \E r \in Role : row.seats[r] = None
  BY DEF Taken, Full
<1>2. FreeRole(row) \in Role /\ row.seats[FreeRole(row)] = None
  BY <1>1 DEF FreeRole
<1>3. PICK q \in Taken(row) : TRUE
  OBVIOUS
<1>4. q \in Role /\ q # FreeRole(row)
  BY <1>2, <1>3 DEF Taken
<1>5. \A r \in Role : r = q \/ r = FreeRole(row)
  BY <1>2, <1>4 DEF Role
<1>6. Taken(row) \subseteq Role
  BY DEF Taken
<1> QED BY <1>2, <1>3, <1>5, <1>6

\* A row evolves into itself.
LEMMA EvolvesSame == ASSUME NEW row PROVE Evolves(row, row)
BY DEF Evolves

\* Seating a person in the free seat of a row that is not a bot's.
LEMMA SeatedRow ==
    ASSUME NEW row \in Row, RowOK(row), Open(row), NEW u \in User, NEW r \in Role,
           Taken(row) \cup {r} = Role
    PROVE  /\ Seated(row, u, r) \in Row
           /\ Taken(Seated(row, u, r)) = Role
           /\ ~IsAi(row) /\ ~IsAi(Seated(row, u, r))
           /\ r \notin Taken(row)
           /\ \A q \in Taken(row) : Seated(row, u, r).seats[q] = row.seats[q]
           /\ Seated(row, u, r).seats[r] = u
<1> DEFINE new == Seated(row, u, r)
<1>1. new \in Row
  BY DEF Seated, Row, Account
<1>2. /\ new.seats \in [Role -> Account \cup {None}]
      /\ new.seats[r] = u
      /\ \A q \in Role \ {r} : new.seats[q] = row.seats[q]
  BY <1>1 DEF Seated, Row
<1>3. r \notin Taken(row)
  BY DEF Open, Full, Taken
<1>4. u # None /\ u \notin Bot
  BY LifecycleAssumption
<1>5. Taken(new) = Role
  BY <1>2, <1>3, <1>4 DEF Taken
<1>6. ~IsAi(row)
  BY DEF RowOK, Open
<1>7. ~IsAi(new)
  BY <1>2, <1>3, <1>4, <1>6 DEF IsAi, Users, Taken
<1>8. \A q \in Taken(row) : new.seats[q] = row.seats[q]
  BY <1>2, <1>3 DEF Taken
<1> QED BY <1>1, <1>2, <1>3, <1>5, <1>6, <1>7, <1>8

\* A new row with one person in it, or a person and a bot.
LEMMA NewRow ==
    ASSUME NEW row \in Row, row.status = "CREATED",
           row.token => row.source = None,
           \/ \E u \in User, r \in Role : row.seats = OneSeat(u, r)
           \/ /\ \A r \in Role : row.seats[r] # None
              /\ ~row.token
    PROVE  RowOK(row)
<1>1. CASE \E u \in User, r \in Role : row.seats = OneSeat(u, r)
  <2>1. PICK u \in User, r \in Role : row.seats = OneSeat(u, r)
    BY <1>1
  <2>2. u # None /\ u \notin Bot
    BY LifecycleAssumption
  <2>3. row.seats[r] = u /\ \A q \in Role : q # r => row.seats[q] = None
    BY <2>1 DEF OneSeat
  <2>4. Taken(row) = {r}
    BY <2>2, <2>3 DEF Taken
  <2>5. Users(row) = {u}
    BY <2>3, <2>4 DEF Users
  <2>6. ~IsAi(row)
    BY <2>2, <2>5 DEF IsAi
  <2>7. \E q \in Role : q # r
    BY OppositeSides
  <2>8. ~Full(row)
    BY <2>4, <2>7 DEF Full
  <2> QED BY <2>4, <2>6, <2>8 DEF RowOK, Open, IsProposal
<1>2. CASE /\ \A r \in Role : row.seats[r] # None
           /\ ~row.token
  <2>1. Taken(row) = Role
    BY <1>2 DEF Taken
  <2>2. Role # {}
    BY DEF Role
  <2> QED BY <1>2, <2>1, <2>2 DEF RowOK, Full, Waiting
<1> QED BY <1>1, <1>2

\* Seats do not change when nothing but the status or the ready flags do.
LEMMA SameSeats ==
    ASSUME NEW old \in Row, NEW new \in Row, new.seats = old.seats
    PROVE  Taken(new) = Taken(old) /\ (IsAi(new) <=> IsAi(old)) /\ (Full(new) <=> Full(old))
<1>1. Taken(new) = Taken(old)
  BY DEF Taken
<1>2. Users(new) = Users(old)
  BY <1>1 DEF Users
<1> QED BY <1>1, <1>2 DEF IsAi, Full

\* READY in a full match that waits for it.
LEMMA ReadiedRow ==
    ASSUME NEW row \in Row, RowOK(row), Full(row), Waiting(row), NEW r \in Role
    PROVE  /\ Readied(row, r) \in Row
           /\ RowOK(Readied(row, r))
           /\ Evolves(row, Readied(row, r))
           /\ r \in Readied(row, r).ready
           /\ Readied(row, r).status # "CREATED"
<1> DEFINE new == Readied(row, r)
<1>1. new \in Row
  BY DEF Readied, Row
<1>2. /\ new.seats = row.seats /\ new.source = row.source /\ new.opponent = row.opponent
      /\ new.ready = row.ready \cup {r} /\ new.token = row.token
      /\ new.status = IF new.ready = Role THEN "ACTIVE" ELSE "READY"
  BY DEF Readied, Row
<1>3. Taken(new) = Taken(row) /\ (IsAi(new) <=> IsAi(row)) /\ Full(new)
  BY <1>1, <1>2, SameSeats
<1>4. ~row.token
  BY DEF RowOK, Open
<1>5. RowOK(new)
  BY <1>2, <1>3, <1>4 DEF RowOK, Waiting
<1>6. row.status # "OVER"
  BY DEF Waiting
<1>7. Evolves(row, new)
  BY <1>2, <1>3, <1>6 DEF Evolves
<1> QED BY <1>1, <1>2, <1>5, <1>7

\* What a request read of a row survives the row's evolution.
LEMMA CallKeeps ==
    ASSUME NEW call \in Request, NEW old \in Row, NEW new \in Row,
           CallOK(call, old), Evolves(old, new)
    PROVE  CallOK(call, new)
<1>1. Taken(old) \subseteq Taken(new) /\ Taken(new) \subseteq Role
  BY DEF Evolves, Taken
<1>2. call.op \in {"join", "accept"} => call.role \in Role
  BY DEF Request
<1>3. ASSUME call.op = "ready" PROVE new.seats[call.role] = call.user
  <2>1. call.role \in Role /\ call.user \in Bot
    BY <1>3 DEF Request
  <2>2. old.seats[call.role] = call.user
    BY <1>3 DEF CallOK
  <2>3. call.role \in Taken(old)
    BY <2>1, <2>2, LifecycleAssumption DEF Taken
  <2> QED BY <2>2, <2>3 DEF Evolves
<1>4. call.op = "propose" => new = old
  BY DEF CallOK, Evolves
<1>5. IsProposal(new) <=> IsProposal(old)
  BY DEF Evolves, IsProposal
<1> QED BY <1>1, <1>2, <1>3, <1>4, <1>5 DEF CallOK

-----------------------------------------------------------------------------
(* What a step does to the table                                           *)

\* Rows are only added, evolve, and stay sound.
RowsMove ==
    /\ rows' \in Seq(Row)
    /\ resolved' \in Seq(Nat)
    /\ Len(resolved') = Len(rows')
    /\ Id \subseteq DOMAIN rows'
    /\ \A id \in Id : Evolves(rows[id], rows'[id])
    /\ \A id \in DOMAIN rows' : RowOK(rows'[id])
    /\ \A id \in DOMAIN rows' : rows'[id].source # None => rows'[id].source \in DOMAIN rows'
    /\ \A id \in Id :
          \/ resolved'[id] = resolved[id]
          \/ Open(rows[id]) /\ ~Open(rows'[id]) /\ resolved'[id] = resolved[id] + 1
    /\ \A id, other \in DOMAIN rows' \ Id : id = other
    /\ \A id \in DOMAIN rows' \ Id :
          /\ resolved'[id] = 0
          /\ IsProposal(rows'[id]) =>
                /\ rows'[id].source \in Id
                /\ ~HasOpenProposal(rows'[id].source)
                /\ Rematch(rows'[id], rows[rows'[id].source])

\* Rows are numbered from one.
LEMMA Ids == Typed => Id = 1 .. Len(rows) /\ Len(rows) \in Nat /\ \A id \in Id : rows[id] \in Row
BY DEF Typed, Id

\* A request that changes no row moves the table.
LEMMA TableRests ==
    ASSUME Typed, Sound, UNCHANGED <<rows, resolved>> PROVE RowsMove
BY EvolvesSame DEF Typed, Sound, RowsMove, Id

\* A sound new row.
LEMMA TableGrows ==
    ASSUME Typed, Sound, NEW row \in Row, RowOK(row), Insert(row),
           row.source # None =>
              /\ row.source \in Id
              /\ ~HasOpenProposal(row.source)
              /\ Rematch(row, rows[row.source])
    PROVE  RowsMove
<1>1. /\ rows' = Append(rows, row) /\ resolved' = Append(resolved, 0)
      /\ rows \in Seq(Row) /\ resolved \in Seq(Nat) /\ Len(resolved) = Len(rows)
  BY DEF Insert, Typed
<1>2. /\ rows' \in Seq(Row) /\ resolved' \in Seq(Nat)
      /\ Len(rows') = Len(rows) + 1 /\ Len(resolved') = Len(rows) + 1
      /\ DOMAIN rows' = 1 .. Len(rows) + 1
      /\ Id = 1 .. Len(rows)
      /\ \A id \in Id : rows'[id] = rows[id]
      /\ rows'[Len(rows) + 1] = row
      /\ \A id \in Id : resolved'[id] = resolved[id]
      /\ resolved'[Len(rows) + 1] = 0
      /\ Len(rows) \in Nat
  BY <1>1 DEF Id
<1>3. \A id \in Id : Evolves(rows[id], rows'[id])
  BY <1>2, EvolvesSame
<1>4. \A id \in DOMAIN rows' : id \in Id \/ id = Len(rows) + 1
  BY <1>2
<1>5. \A id \in DOMAIN rows' : RowOK(rows'[id])
  BY <1>2, <1>4 DEF Sound
<1>6. Id \subseteq DOMAIN rows'
  BY <1>2
<1>7. \A id \in DOMAIN rows' : rows'[id].source # None => rows'[id].source \in DOMAIN rows'
  BY <1>2, <1>4, <1>6 DEF Sound
<1>8. \A id, other \in DOMAIN rows' \ Id : id = other
  BY <1>2, <1>4
<1>9. \A id \in DOMAIN rows' \ Id :
         /\ resolved'[id] = 0
         /\ IsProposal(rows'[id]) =>
               /\ rows'[id].source \in Id
               /\ ~HasOpenProposal(rows'[id].source)
               /\ Rematch(rows'[id], rows[rows'[id].source])
  BY <1>2, <1>4 DEF IsProposal
<1> QED BY <1>2, <1>3, <1>5, <1>6, <1>7, <1>8, <1>9 DEF RowsMove

\* Counting an answer keeps the counters.
LEMMA SettleCounts ==
    ASSUME Typed, NEW id \in Id, resolved' = [resolved EXCEPT ![id] = @ + 1]
    PROVE  /\ resolved' \in Seq(Nat) /\ Len(resolved') = Len(resolved)
           /\ \A i \in Id : resolved'[i] = IF i = id THEN resolved[i] + 1 ELSE resolved[i]
<1>1. resolved \in Seq(Nat) /\ Id = DOMAIN resolved
  BY DEF Typed, Id
<1> QED BY <1>1

\* One row evolves.
LEMMA TableTurns ==
    ASSUME Typed, Sound, NEW id \in Id, NEW row \in Row, RowOK(row), Evolves(rows[id], row),
           rows' = [rows EXCEPT ![id] = row],
           \/ UNCHANGED resolved
           \/ /\ resolved' = [resolved EXCEPT ![id] = @ + 1]
              /\ Open(rows[id]) /\ ~Open(row)
    PROVE  RowsMove
<1>1. rows \in Seq(Row) /\ Len(resolved) = Len(rows)
  BY DEF Typed
<1>2. /\ rows' \in Seq(Row) /\ Len(rows') = Len(rows)
      /\ DOMAIN rows' = Id
      /\ \A i \in Id : rows'[i] = IF i = id THEN row ELSE rows[i]
  BY <1>1 DEF Id
<1>3. \A i \in Id : Evolves(rows[i], rows'[i])
  BY <1>2, EvolvesSame
<1>4. \A i \in Id : RowOK(rows'[i])
  BY <1>2 DEF Sound
<1>5. row.source = rows[id].source
  BY DEF Evolves
<1>6. \A i \in Id : rows'[i].source # None => rows'[i].source \in Id
  BY <1>2, <1>5 DEF Sound
<1>7. /\ resolved' \in Seq(Nat) /\ Len(resolved') = Len(resolved)
      /\ \A i \in Id :
            \/ resolved'[i] = resolved[i]
            \/ Open(rows[i]) /\ ~Open(rows'[i]) /\ resolved'[i] = resolved[i] + 1
  <2>1. CASE UNCHANGED resolved
    BY <2>1 DEF Typed
  <2>2. CASE /\ resolved' = [resolved EXCEPT ![id] = @ + 1]
             /\ Open(rows[id]) /\ ~Open(row)
    <3>1. /\ resolved' \in Seq(Nat) /\ Len(resolved') = Len(resolved)
          /\ \A i \in Id : resolved'[i] = IF i = id THEN resolved[i] + 1 ELSE resolved[i]
      BY <2>2, SettleCounts
    <3>2. ~Open(rows'[id])
      BY <2>2, <1>2
    <3> QED BY <2>2, <3>1, <3>2
  <2> QED BY <2>1, <2>2
<1> QED BY <1>1, <1>2, <1>3, <1>4, <1>6, <1>7 DEF RowsMove


-----------------------------------------------------------------------------
(* Every step                                                              *)

\* A request in progress is about an existing row, and remembers it right.
LEMMA CallFacts ==
    ASSUME Typed, Sound, NEW c \in Call, calls[c].op # "idle"
    PROVE  /\ calls[c] \in Request
           /\ calls[c].id \in Id
           /\ rows[calls[c].id] \in Row
           /\ RowOK(rows[calls[c].id])
           /\ CallOK(calls[c], rows[calls[c].id])
<1>1. calls[c] # Idle /\ calls[c] \in Request
  BY DEF Typed, Idle
<1> QED BY <1>1, Ids DEF Sound

\* A join seats the caller in an open challenge.
LEMMA JoinMoves == ASSUME Typed, Sound, NEW c \in Call, JoinCommit(c) PROVE RowsMove
<1> DEFINE call == calls[c]
           row == rows[call.id]
           seated == Seated(row, call.user, call.role)
           new == [seated EXCEPT !.token = FALSE]
<1>1. /\ call \in Request /\ call.id \in Id /\ row \in Row /\ RowOK(row) /\ CallOK(call, row)
      /\ call.op = "join"
  BY CallFacts DEF JoinCommit
<1>2. call.user \in User /\ call.role \in Role /\ Taken(row) \cup {call.role} = Role
  BY <1>1 DEF Request, CallOK
<1>3. CASE ~(Open(row) /\ row.token)
  BY <1>3, TableRests DEF JoinCommit, Refuse
<1>4. CASE Open(row) /\ row.token
  <2>1. /\ seated \in Row /\ Taken(seated) = Role /\ ~IsAi(row) /\ ~IsAi(seated)
        /\ \A q \in Taken(row) : seated.seats[q] = row.seats[q]
    BY <1>1, <1>2, <1>4, SeatedRow
  <2>2. /\ seated.status = row.status /\ seated.source = row.source
        /\ seated.opponent = row.opponent /\ seated.ready = row.ready
    BY <1>1 DEF Seated, Row
  <2>3. /\ new \in Row /\ new.seats = seated.seats /\ ~new.token
        /\ new.status = row.status /\ new.source = row.source
        /\ new.opponent = row.opponent /\ new.ready = row.ready
    BY <2>1, <2>2 DEF Row
  <2>4. Taken(new) = Role /\ ~IsAi(new) /\ Full(new)
    BY <2>1, <2>3, SameSeats DEF Full
  <2>5. Role # {}
    BY DEF Role
  <2>6. RowOK(new)
    BY <2>3, <2>4, <2>5 DEF RowOK
  <2>7. row.status = "CREATED" /\ ~IsProposal(row)
    BY <1>1, <1>4 DEF RowOK, Open
  <2>8. Evolves(row, new)
    BY <2>1, <2>3, <2>4, <2>7 DEF Evolves
  <2>9. ~Open(new)
    BY <2>4 DEF Open
  <2>10. /\ rows' = [rows EXCEPT ![call.id] = new]
         /\ resolved' = [resolved EXCEPT ![call.id] = @ + 1]
    BY <1>4 DEF JoinCommit, Settle
  <2> HIDE DEF call, new, seated
  <2> QED BY <1>1, <1>4, <2>3, <2>6, <2>8, <2>9, <2>10, TableTurns
<1> QED BY <1>3, <1>4

\* An accept seats the opponent of an open proposal.
LEMMA AcceptMoves == ASSUME Typed, Sound, NEW c \in Call, AcceptCommit(c) PROVE RowsMove
<1> DEFINE call == calls[c]
           row == rows[call.id]
           seated == Seated(row, call.user, call.role)
           new == [seated EXCEPT !.status = "ACTIVE", !.ready = Role]
<1>1. /\ call \in Request /\ call.id \in Id /\ row \in Row /\ RowOK(row) /\ CallOK(call, row)
      /\ call.op = "accept"
  BY CallFacts DEF AcceptCommit
<1>2. call.user \in User /\ call.role \in Role /\ Taken(row) \cup {call.role} = Role
  BY <1>1 DEF Request, CallOK
<1>3. CASE ~(Open(row) /\ row.opponent = call.user)
  BY <1>3, TableRests DEF AcceptCommit, Refuse
<1>4. CASE Open(row) /\ row.opponent = call.user
  <2>1. /\ seated \in Row /\ Taken(seated) = Role /\ ~IsAi(row) /\ ~IsAi(seated)
        /\ \A q \in Taken(row) : seated.seats[q] = row.seats[q]
        /\ seated.seats[call.role] = call.user
    BY <1>1, <1>2, <1>4, SeatedRow
  <2>2. /\ seated.token = row.token /\ seated.source = row.source
        /\ seated.opponent = row.opponent /\ seated.ready = row.ready
    BY <1>1 DEF Seated, Row
  <2>3. /\ new \in Row /\ new.seats = seated.seats /\ new.token = row.token
        /\ new.status = "ACTIVE" /\ new.source = row.source
        /\ new.opponent = row.opponent /\ new.ready = Role
    BY <2>1, <2>2 DEF Row
  <2>4. Taken(new) = Role /\ ~IsAi(new) /\ Full(new)
    BY <2>1, <2>3, SameSeats DEF Full
  <2>5. Role # {} /\ row.ready \subseteq Role
    BY <1>1 DEF Role, Row
  <2>6. call.user # None
    BY <1>2, LifecycleAssumption
  <2>7. ~row.token /\ row.status = "CREATED" /\ row.opponent = call.user
    BY <1>1, <1>4 DEF RowOK, CallOK, Open
  <2>8. RowOK(new)
    BY <2>3, <2>4, <2>5, <2>7 DEF RowOK
  <2>9. Evolves(row, new)
    <3>1. \A r \in Taken(new) \ Taken(row) : r = call.role
      BY <1>2, <2>4 DEF Full
    <3> QED BY <2>1, <2>3, <2>4, <2>5, <2>7, <3>1 DEF Evolves
  <2>10. ~Open(new)
    BY <2>3 DEF Open
  <2>11. /\ rows' = [rows EXCEPT ![call.id] = new]
         /\ resolved' = [resolved EXCEPT ![call.id] = @ + 1]
    BY <1>4 DEF AcceptCommit, Settle
  <2> HIDE DEF call, new, seated
  <2> QED BY <1>1, <1>4, <2>3, <2>8, <2>9, <2>10, <2>11, TableTurns
<1> QED BY <1>3, <1>4

\* A decline or a cancel takes an open proposal away.
LEMMA ResolveMoves == ASSUME Typed, Sound, NEW c \in Call, ResolveCommit(c) PROVE RowsMove
<1> DEFINE call == calls[c]
           row == rows[call.id]
           new == [row EXCEPT !.status = "DELETED"]
<1>1. call.id \in Id /\ row \in Row /\ RowOK(row) /\ call.op = "resolve" /\ IsProposal(row)
  BY CallFacts DEF ResolveCommit, CallOK
<1>2. CASE ~(Open(row) /\ MayResolve(row, call))
  BY <1>2, TableRests DEF ResolveCommit, Refuse
<1>3. CASE Open(row) /\ MayResolve(row, call)
  <2>1. /\ new \in Row /\ new.seats = row.seats /\ new.token = row.token
        /\ new.status = "DELETED" /\ new.source = row.source
        /\ new.opponent = row.opponent /\ new.ready = row.ready
    BY <1>1 DEF Row
  <2>2. Taken(new) = Taken(row) /\ (IsAi(new) <=> IsAi(row)) /\ (Full(new) <=> Full(row))
    BY <1>1, <2>1, SameSeats
  <2>3. ~IsAi(row) /\ row.status = "CREATED"
    BY <1>1, <1>3 DEF RowOK, Open
  <2>4. ~row.token
    BY <1>1 DEF RowOK
  <2>5. RowOK(new)
    BY <1>1, <2>1, <2>2, <2>3, <2>4 DEF RowOK
  <2>6. Evolves(row, new)
    BY <2>1, <2>2, <2>3 DEF Evolves
  <2>7. ~Open(new)
    BY <2>1 DEF Open
  <2>8. /\ rows' = [rows EXCEPT ![call.id] = new]
        /\ resolved' = [resolved EXCEPT ![call.id] = @ + 1]
    BY <1>3 DEF ResolveCommit, Settle
  <2> HIDE DEF call, new
  <2> QED BY <1>1, <1>3, <2>1, <2>5, <2>6, <2>7, <2>8, TableTurns
<1> QED BY <1>2, <1>3

\* A proposal is a new row between the players of a finished match.
LEMMA ProposeMoves == ASSUME Typed, Sound, NEW c \in Call, ProposeCommit(c) PROVE RowsMove
<1> DEFINE call == calls[c]
           source == rows[call.id]
           new == ProposalOf(call.id, call.user, call.role)
<1>1. /\ call \in Request /\ call.id \in Id /\ source \in Row /\ RowOK(source)
      /\ CallOK(call, source) /\ call.op = "propose"
  BY CallFacts DEF ProposeCommit
<1>2. call.user \in User /\ call.role \in Role
  BY <1>1 DEF Request
<1>3. source.status = "OVER" /\ source.seats[call.role] = call.user /\ Full(source)
  BY <1>1 DEF CallOK, RowOK
<1>4. CASE HasOpenProposal(call.id)
  BY <1>4, TableRests DEF ProposeCommit, Refuse
<1>5. CASE ~HasOpenProposal(call.id)
  <2>1. Opposite(call.role) \in Role /\ \A r \in Role : r = call.role \/ r = Opposite(call.role)
    BY <1>2, OppositeSides
  <2>2. call.id \in Nat
    BY <1>1, Ids
  <2>3. source.seats[Opposite(call.role)] \in Account \cup {None}
    BY <1>1, <2>1 DEF Row
  <2>4. OneSeat(call.user, call.role) \in [Role -> Account \cup {None}]
    BY <1>2 DEF OneSeat, Account
  <2>5. /\ new \in Row /\ new.source = call.id /\ new.status = "CREATED" /\ ~new.token
        /\ new.seats = OneSeat(call.user, call.role)
        /\ new.opponent = source.seats[Opposite(call.role)]
    BY <2>2, <2>3, <2>4 DEF ProposalOf, Row
  <2>6. RowOK(new)
    BY <1>2, <2>5, NewRow
  <2>7. call.user # None
    BY <1>2, LifecycleAssumption
  <2>8. Taken(new) = {call.role} /\ new.seats[call.role] = call.user
    BY <1>2, <2>5, <2>7 DEF Taken, OneSeat
  <2>9. Rematch(new, source)
    BY <1>3, <2>1, <2>5, <2>8 DEF Rematch
  <2>10. Insert(new)
    BY <1>5 DEF ProposeCommit
  <2> HIDE DEF new, call
  <2> QED BY <1>1, <1>5, <2>5, <2>6, <2>9, <2>10, TableGrows
<1> QED BY <1>4, <1>5

\* A request that gets a player ready turns one row.
LEMMA ReadyMoves ==
    ASSUME Typed, Sound, NEW id \in Id, NEW r \in Role, Full(rows[id]), Waiting(rows[id]),
           rows' = [rows EXCEPT ![id] = Readied(rows[id], r)], UNCHANGED resolved
    PROVE  RowsMove
<1>1. rows[id] \in Row /\ RowOK(rows[id])
  BY Ids DEF Sound
<1> QED BY <1>1, ReadiedRow, TableTurns

\* A bot is readied in a match that is full from the start.
LEMMA BotMoves == ASSUME Typed, Sound, NEW c \in Call, ReadyBot(c) PROVE RowsMove
<1> DEFINE call == calls[c]
           row == rows[call.id]
<1>1. /\ call \in Request /\ call.id \in Id /\ row \in Row /\ RowOK(row)
      /\ CallOK(call, row) /\ call.op = "ready"
  BY CallFacts DEF ReadyBot
<1>2. call.user \in Bot /\ call.role \in Role /\ call.user # None
  BY <1>1, LifecycleAssumption DEF Request
<1>3. row.seats[call.role] = call.user
  BY <1>1 DEF CallOK
<1>4. IsAi(row)
  BY <1>2, <1>3 DEF IsAi, Users, Taken
<1>5. Full(row)
  BY <1>1, <1>4 DEF RowOK
<1>6. CASE Waiting(row)
  BY <1>1, <1>2, <1>5, <1>6, ReadyMoves DEF ReadyBot
<1>7. CASE ~Waiting(row)
  BY <1>7, TableRests DEF ReadyBot
<1> QED BY <1>6, <1>7

\* The end of a match.
LEMMA FinishMoves == ASSUME Typed, Sound, NEW id \in Id, Finish(id) PROVE RowsMove
<1> DEFINE row == rows[id]
           new == [row EXCEPT !.status = "OVER"]
<1>1. row \in Row /\ RowOK(row) /\ row.status = "ACTIVE"
  BY Ids DEF Sound, Finish
<1>2. /\ new \in Row /\ new.seats = row.seats /\ new.token = row.token
      /\ new.status = "OVER" /\ new.source = row.source
      /\ new.opponent = row.opponent /\ new.ready = row.ready
  BY <1>1 DEF Row
<1>3. Taken(new) = Taken(row) /\ (IsAi(new) <=> IsAi(row)) /\ (Full(new) <=> Full(row))
  BY <1>1, <1>2, SameSeats
<1>4. ~row.token
  BY <1>1 DEF RowOK, Open
<1>5. RowOK(new)
  BY <1>1, <1>2, <1>3, <1>4 DEF RowOK, Waiting
<1>6. Evolves(row, new)
  BY <1>1, <1>2, <1>3 DEF Evolves
<1>7. rows' = [rows EXCEPT ![id] = new] /\ UNCHANGED resolved
  BY DEF Finish
<1> HIDE DEF new
<1> QED BY <1>2, <1>5, <1>6, <1>7, TableTurns

\* A challenge: one seat and a link.
LEMMA ChallengeMoves ==
    ASSUME Typed, Sound, NEW u \in User, NEW r \in Role, CreateChallenge(u, r) PROVE RowsMove
<1> DEFINE new == [status |-> "CREATED", token |-> TRUE, source |-> None,
                   opponent |-> None, seats |-> OneSeat(u, r), ready |-> {}]
<1>1. new.seats \in [Role -> Account \cup {None}]
  BY DEF OneSeat, Account
<1>2. new \in Row
  BY <1>1 DEF Row
<1>3. RowOK(new)
  BY <1>2, NewRow
<1>4. Insert(new)
  BY DEF CreateChallenge
<1>5. new.source = None
  OBVIOUS
<1> HIDE DEF new
<1> QED BY <1>2, <1>3, <1>4, <1>5, TableGrows

\* A practice match: both seats at once.
LEMMA PracticeMoves ==
    ASSUME Typed, Sound, NEW u \in User, NEW r \in Role, NEW bot \in Bot, CreateAi(u, r, bot)
    PROVE  RowsMove
<1> DEFINE new == [status |-> "CREATED", token |-> FALSE, source |-> None, opponent |-> None,
                   seats |-> [q \in Role |-> IF q = r THEN u ELSE bot], ready |-> {}]
<1>1. new.seats \in [Role -> Account \cup {None}] /\ \A q \in Role : new.seats[q] # None
  BY LifecycleAssumption DEF Account
<1>2. new \in Row
  BY <1>1 DEF Row
<1>3. RowOK(new)
  BY <1>1, <1>2, NewRow
<1>4. Insert(new)
  BY DEF CreateAi
<1>5. new.source = None
  OBVIOUS
<1> HIDE DEF new
<1> QED BY <1>2, <1>3, <1>4, <1>5, TableGrows

\* Whatever happens, rows are only added and evolve.
LEMMA TableMoves == Typed /\ Sound /\ [Next]_vars => RowsMove
<1> SUFFICES ASSUME Typed, Sound, [Next]_vars
             PROVE  RowsMove
  OBVIOUS
<1>1. ASSUME NEW u \in User, NEW r \in Role, CreateChallenge(u, r)
      PROVE  RowsMove
  BY <1>1, ChallengeMoves
<1>2. ASSUME NEW u \in User, NEW r \in Role, NEW bot \in Bot, CreateAi(u, r, bot)
      PROVE  RowsMove
  BY <1>2, PracticeMoves
<1>3. ASSUME NEW u \in User, NEW id \in Id,
             JoinRead(u, id) \/ ProposeRead(u, id) \/ AcceptRead(u, id) \/ ResolveRead(u, id)
      PROVE  RowsMove
  BY <1>3, TableRests DEF JoinRead, ProposeRead, AcceptRead, ResolveRead, Begin
<1>4. ASSUME NEW c \in Call,
             JoinCommit(c) \/ ProposeCommit(c) \/ AcceptCommit(c) \/ ResolveCommit(c) \/ ReadyBot(c)
      PROVE  RowsMove
  BY <1>4, JoinMoves, ProposeMoves, AcceptMoves, ResolveMoves, BotMoves
<1>5. ASSUME NEW c \in Call, Lose(c)
      PROVE  RowsMove
  BY <1>5, TableRests DEF Lose
<1>6. ASSUME NEW id \in Id, NEW r \in Role, Ready(id, r)
      PROVE  RowsMove
  BY <1>6, ReadyMoves DEF Ready
<1>7. ASSUME NEW id \in Id, Finish(id)
      PROVE  RowsMove
  BY <1>7, FinishMoves
<1>8. CASE UNCHANGED vars
  BY <1>8, TableRests DEF vars
<1> QED BY <1>1, <1>2, <1>3, <1>4, <1>5, <1>6, <1>7, <1>8 DEF Next

\* How a step changes the requests in progress: it leaves them alone, ends one,
\* or begins one that is right about its row.
Begun(call) ==
    /\ call \in Request
    /\ call.id \in DOMAIN rows'
    /\ CallOK(call, rows'[call.id])

CallsMove ==
    \/ UNCHANGED calls
    \/ \E c \in Call : calls' = [calls EXCEPT ![c] = Idle]
    \/ \E c \in Call, call \in Request : calls' = [calls EXCEPT ![c] = call] /\ Begun(call)

\* A request that only read its row begins right.
LEMMA BeginMoves ==
    ASSUME Typed, NEW call \in Request, call.id \in Id, CallOK(call, rows[call.id]), Begin(call)
    PROVE  CallsMove
BY DEF Begin, Begun, CallsMove, Id

\* Each of the routes' reads remembers what the transaction will need.
LEMMA ReadsMove ==
    ASSUME Typed, Sound, NEW u \in User, NEW id \in Id,
           JoinRead(u, id) \/ ProposeRead(u, id) \/ AcceptRead(u, id) \/ ResolveRead(u, id)
    PROVE  CallsMove
<1> DEFINE row == rows[id]
<1>1. row \in Row /\ RowOK(row) /\ id \in Nat
  BY Ids DEF Sound
<1>2. CASE JoinRead(u, id)
  <2> DEFINE call == [op |-> "join", id |-> id, user |-> u, role |-> FreeRole(row)]
  <2>1. ~Full(row)
    BY <1>1, <1>2 DEF JoinRead, RowOK, Open
  <2>2. FreeRole(row) \in Role /\ Taken(row) \cup {FreeRole(row)} = Role
    BY <1>1, <2>1, FreeSide DEF RowOK
  <2>3. call \in Request /\ call.id = id
    BY <1>1, <2>2 DEF Request
  <2>4. CallOK(call, row)
    BY <2>2 DEF CallOK
  <2>5. Begin(call)
    BY <1>2 DEF JoinRead
  <2> HIDE DEF call
  <2> QED BY <2>3, <2>4, <2>5, BeginMoves
<1>3. CASE AcceptRead(u, id)
  <2> DEFINE call == [op |-> "accept", id |-> id, user |-> u, role |-> FreeRole(row)]
  <2>1. ~Full(row) /\ IsProposal(row)
    BY <1>3 DEF AcceptRead, Open
  <2>2. FreeRole(row) \in Role /\ Taken(row) \cup {FreeRole(row)} = Role
    BY <1>1, <2>1, FreeSide DEF RowOK
  <2>3. call \in Request /\ call.id = id
    BY <1>1, <2>2 DEF Request
  <2>4. CallOK(call, row)
    BY <2>1, <2>2 DEF CallOK
  <2>5. Begin(call)
    BY <1>3 DEF AcceptRead
  <2> HIDE DEF call
  <2> QED BY <2>3, <2>4, <2>5, BeginMoves
<1>4. CASE ProposeRead(u, id)
  <2> DEFINE call == [op |-> "propose", id |-> id, user |-> u, role |-> RoleOf(row, u)]
  <2>1. row.status = "OVER" /\ ~IsAi(row) /\ u \in Users(row)
    BY <1>4 DEF ProposeRead
  <2>2. \E r \in Role : row.seats[r] = u
    BY <2>1 DEF Users, Taken
  <2>3. RoleOf(row, u) \in Role /\ row.seats[RoleOf(row, u)] = u
    BY <2>2 DEF RoleOf
  <2>4. call \in Request /\ call.id = id
    BY <1>1, <2>3 DEF Request
  <2>5. CallOK(call, row)
    BY <2>1, <2>3 DEF CallOK
  <2>6. Begin(call)
    BY <1>4 DEF ProposeRead
  <2> HIDE DEF call
  <2> QED BY <2>4, <2>5, <2>6, BeginMoves
<1>5. CASE ResolveRead(u, id)
  <2> DEFINE call == [op |-> "resolve", id |-> id, user |-> u,
                      role |-> IF row.opponent = u THEN "OPPONENT" ELSE "PROPOSER"]
  <2>1. call \in Request /\ call.id = id
    BY <1>1 DEF Request
  <2>2. CallOK(call, row)
    BY <1>5 DEF ResolveRead, CallOK
  <2>3. Begin(call)
    BY <1>5 DEF ResolveRead
  <2> HIDE DEF call
  <2> QED BY <2>1, <2>2, <2>3, BeginMoves
<1> QED BY <1>2, <1>3, <1>4, <1>5

\* Creating a practice match begins the request that readies its bot.
LEMMA PracticeBegins ==
    ASSUME Typed, NEW u \in User, NEW r \in Role, NEW bot \in Bot, CreateAi(u, r, bot)
    PROVE  CallsMove
<1> DEFINE n == Len(rows) + 1
           call == [op |-> "ready", id |-> n, user |-> bot, role |-> Opposite(r)]
           new == [status |-> "CREATED", token |-> FALSE, source |-> None, opponent |-> None,
                   seats |-> [q \in Role |-> IF q = r THEN u ELSE bot], ready |-> {}]
<1>1. Opposite(r) \in Role /\ Opposite(r) # r
  BY OppositeSides
<1>2. n \in Nat
  BY Ids
<1>3. call \in Request
  BY <1>1, <1>2 DEF Request
<1>4. rows' = Append(rows, new) /\ rows \in Seq(Row)
  BY DEF CreateAi, Insert, Typed
<1>5. n \in DOMAIN rows' /\ rows'[n] = new
  BY <1>4
<1>6. new.seats[Opposite(r)] = bot
  BY <1>1
<1>7. CallOK(call, rows'[n])
  BY <1>5, <1>6 DEF CallOK
<1>8. \E c \in Call : calls' = [calls EXCEPT ![c] = call]
  BY DEF CreateAi
<1>9. call.id = n
  OBVIOUS
<1> HIDE DEF call, new, n
<1> QED BY <1>3, <1>5, <1>7, <1>8, <1>9 DEF CallsMove, Begun

\* Every step leaves the requests right about their rows.
LEMMA RequestsMove == Typed /\ Sound /\ [Next]_vars => CallsMove
<1> SUFFICES ASSUME Typed, Sound, [Next]_vars
             PROVE  CallsMove
  OBVIOUS
<1>1. ASSUME NEW u \in User, NEW r \in Role, CreateChallenge(u, r)
      PROVE  CallsMove
  BY <1>1 DEF CreateChallenge, CallsMove
<1>2. ASSUME NEW u \in User, NEW r \in Role, NEW bot \in Bot, CreateAi(u, r, bot)
      PROVE  CallsMove
  BY <1>2, PracticeBegins
<1>3. ASSUME NEW u \in User, NEW id \in Id,
             JoinRead(u, id) \/ ProposeRead(u, id) \/ AcceptRead(u, id) \/ ResolveRead(u, id)
      PROVE  CallsMove
  BY <1>3, ReadsMove
<1>4. ASSUME NEW c \in Call,
             \/ JoinCommit(c) \/ ProposeCommit(c) \/ AcceptCommit(c) \/ ResolveCommit(c)
             \/ ReadyBot(c) \/ Lose(c)
      PROVE  CallsMove
  <2>1. End(c)
    BY <1>4 DEF JoinCommit, ProposeCommit, AcceptCommit, ResolveCommit, ReadyBot, Lose
  <2> QED BY <2>1 DEF End, CallsMove
<1>5. ASSUME NEW id \in Id, (\E r \in Role : Ready(id, r)) \/ Finish(id)
      PROVE  CallsMove
  BY <1>5 DEF Ready, Finish, CallsMove
<1>6. CASE UNCHANGED vars
  BY <1>6 DEF vars, CallsMove
<1> QED BY <1>1, <1>2, <1>3, <1>4, <1>5, <1>6 DEF Next

\* Nothing exists before the first request.
LEMMA TableInit == Init => Typed /\ Sound
BY DEF Init, Typed, Sound, Idle, Id

\* Types, and what rows and requests know of each other, are inductive.
LEMMA TableStep == Typed /\ Sound /\ [Next]_vars => Typed' /\ Sound'
<1> SUFFICES ASSUME Typed, Sound, [Next]_vars
             PROVE  Typed' /\ Sound'
  OBVIOUS
<1>1. RowsMove /\ CallsMove
  BY TableMoves, RequestsMove
<1>2. calls \in [Call -> {Idle} \cup Request]
  BY DEF Typed
<1>3. calls' \in [Call -> {Idle} \cup Request]
  BY <1>1, <1>2 DEF CallsMove, Begun
<1>4. Typed'
  BY <1>1, <1>3 DEF Typed, RowsMove
<1>5. \A id \in Id : rows[id] \in Row /\ rows'[id] \in Row
  <2>1. \A id \in DOMAIN rows' : rows'[id] \in Row
    BY <1>1 DEF RowsMove
  <2> QED BY <1>1, <2>1, Ids DEF RowsMove
<1>6. ASSUME NEW c \in Call, calls[c] # Idle
      PROVE  calls[c].id \in DOMAIN rows' /\ CallOK(calls[c], rows'[calls[c].id])
  <2>1. calls[c] \in Request /\ calls[c].id \in Id /\ CallOK(calls[c], rows[calls[c].id])
    BY <1>2, <1>6 DEF Sound
  <2>2. Evolves(rows[calls[c].id], rows'[calls[c].id]) /\ calls[c].id \in DOMAIN rows'
    BY <1>1, <2>1 DEF RowsMove
  <2> QED BY <1>5, <2>1, <2>2, CallKeeps
<1>7. \A c \in Call : calls'[c] # Idle =>
          calls'[c].id \in DOMAIN rows' /\ CallOK(calls'[c], rows'[calls'[c].id])
  <2>1. CASE UNCHANGED calls
    BY <2>1, <1>6
  <2>2. ASSUME NEW d \in Call, calls' = [calls EXCEPT ![d] = Idle]
        PROVE  \A c \in Call : calls'[c] # Idle =>
                  calls'[c].id \in DOMAIN rows' /\ CallOK(calls'[c], rows'[calls'[c].id])
    BY <2>2, <1>2, <1>6
  <2>3. ASSUME NEW d \in Call, NEW call \in Request,
               calls' = [calls EXCEPT ![d] = call], Begun(call)
        PROVE  \A c \in Call : calls'[c] # Idle =>
                  calls'[c].id \in DOMAIN rows' /\ CallOK(calls'[c], rows'[calls'[c].id])
    BY <2>3, <1>2, <1>6 DEF Begun
  <2> QED BY <1>1, <2>1, <2>2, <2>3 DEF CallsMove
<1>8. Sound'
  <2>1. \A id \in DOMAIN rows' : RowOK(rows'[id])
    BY <1>1 DEF RowsMove
  <2>2. \A id \in DOMAIN rows' : rows'[id].source # None => rows'[id].source \in DOMAIN rows'
    BY <1>1 DEF RowsMove
  <2>3. Id' = DOMAIN rows'
    BY DEF Id
  <2>4. (\A id \in Id : RowOK(rows[id]))'
    BY <2>1, <2>3
  <2>5. (\A c \in Call : calls[c] # Idle => calls[c].id \in Id /\ CallOK(calls[c], rows[calls[c].id]))'
    BY <1>7, <2>3
  <2>6. (\A id \in Id : rows[id].source # None => rows[id].source \in Id)'
    BY <2>2, <2>3
  <2> QED BY <2>4, <2>5, <2>6 DEF Sound
<1> QED BY <1>4, <1>8

-----------------------------------------------------------------------------
(* At most one answer                                                      *)

\* An open row has not been answered.
Unanswered ==
    \A id \in Id : resolved[id] <= 1 /\ (Open(rows[id]) => resolved[id] = 0)

\* A row that is not open does not open again.
LEMMA ClosedStaysClosed ==
    ASSUME NEW old \in Row, NEW new \in Row, Evolves(old, new), Open(new) PROVE Open(old)
BY DEF Evolves, Open, Full, Taken

\* Every answer finds its row open and leaves it closed.
LEMMA UnansweredStep == Typed /\ Sound /\ Unanswered /\ [Next]_vars => Unanswered'
<1> SUFFICES ASSUME Typed, Sound, Unanswered, [Next]_vars,
                    NEW id \in DOMAIN rows'
             PROVE  resolved'[id] <= 1 /\ (Open(rows'[id]) => resolved'[id] = 0)
  BY DEF Unanswered, Id
<1>1. RowsMove
  BY TableMoves
<1>2. CASE id \in Id
  <2>1. rows[id] \in Row /\ rows'[id] \in Row /\ Evolves(rows[id], rows'[id])
    BY <1>1, <1>2, Ids DEF RowsMove
  <2>2. Open(rows'[id]) => Open(rows[id])
    BY <2>1, ClosedStaysClosed
  <2>3. \/ resolved'[id] = resolved[id]
        \/ Open(rows[id]) /\ ~Open(rows'[id]) /\ resolved'[id] = resolved[id] + 1
    BY <1>1, <1>2 DEF RowsMove
  <2>4. resolved[id] <= 1 /\ (Open(rows[id]) => resolved[id] = 0)
    BY <1>2 DEF Unanswered
  <2> QED BY <2>2, <2>3, <2>4
<1>3. CASE id \notin Id
  BY <1>1, <1>3 DEF RowsMove
<1> QED BY <1>2, <1>3

\* command-service.ts:258-321, 386-501: for any number of requests of anyone,
\* one challenge or proposal is answered with success at most once.
THEOREM AnsweredOnce == Spec => []ResolvedOnce
<1>1. Init => Unanswered
  BY DEF Init, Unanswered, Id
<1>2. Unanswered => ResolvedOnce
  BY DEF Unanswered, ResolvedOnce
<1> QED BY TableInit, TableStep, UnansweredStep, <1>1, <1>2, PTL DEF Spec

-----------------------------------------------------------------------------
(* At most one open proposal                                               *)

OpenFrom(id, source) == rows[id].source = source /\ rows[id].status = "CREATED"

UniqueProposal ==
    \A id, other \in Id :
        IsProposal(rows[id]) /\ OpenFrom(id, rows[id].source) /\ OpenFrom(other, rows[id].source)
            => id = other

\* A proposal is added only where no other is open, and none opens again.
LEMMA UniqueStep == Typed /\ Sound /\ UniqueProposal /\ [Next]_vars => UniqueProposal'
<1> SUFFICES ASSUME Typed, Sound, UniqueProposal, [Next]_vars,
                    NEW id \in DOMAIN rows', NEW other \in DOMAIN rows',
                    rows'[id].source # None, rows'[id].status = "CREATED",
                    rows'[other].source = rows'[id].source, rows'[other].status = "CREATED"
             PROVE  id = other
  BY DEF UniqueProposal, Id, OpenFrom, IsProposal
<1>1. RowsMove
  BY TableMoves
<1>2. ASSUME NEW i \in Id, rows'[i].status = "CREATED"
      PROVE  rows[i].status = "CREATED" /\ rows[i].source = rows'[i].source
  BY <1>1, <1>2 DEF RowsMove, Evolves
<1>3. CASE id \in Id /\ other \in Id
  BY <1>2, <1>3 DEF UniqueProposal, OpenFrom, IsProposal
<1>4. ASSUME NEW i \in DOMAIN rows' \ Id, NEW j \in Id,
             rows'[i].source # None, rows'[j].source = rows'[i].source,
             rows'[j].status = "CREATED"
      PROVE  FALSE
  BY <1>1, <1>2, <1>4, ZenonT(30) DEF RowsMove, HasOpenProposal, IsProposal
<1>5. CASE id \notin Id /\ other \notin Id
  BY <1>1, <1>5 DEF RowsMove
<1> QED BY <1>3, <1>4, <1>5

\* A set without two different members has at most one.
LEMMA AtMostOne ==
    ASSUME NEW S, \A x, y \in S : x = y PROVE Cardinality(S) <= 1
<1>1. CASE S = {}
  BY <1>1, FS_EmptySet
<1>2. CASE S # {}
  <2>1. PICK x \in S : TRUE
    BY <1>2
  <2>2. S = {x}
    BY <2>1
  <2> QED BY <2>2, FS_Singleton
<1> QED BY <1>1, <1>2

\* command-service.ts:332-376: for any number of players' requests in progress,
\* a finished match has at most one open rematch proposal.
THEOREM OneProposal == Spec => []OneOpenProposal
<1>1. Init => UniqueProposal
  BY DEF Init, UniqueProposal, Id
<1>2. Typed /\ UniqueProposal => OneOpenProposal
  <2> SUFFICES ASSUME Typed, UniqueProposal, NEW source \in Id
               PROVE  Cardinality({id \in Id : rows[id].source = source
                                                /\ rows[id].status = "CREATED"}) <= 1
    BY DEF OneOpenProposal
  <2>1. source # None
    BY Ids, LifecycleAssumption
  <2> QED BY <2>1, AtMostOne DEF UniqueProposal, OpenFrom, IsProposal
<1> QED BY TableInit, TableStep, UniqueStep, <1>1, <1>2, PTL DEF Spec

-----------------------------------------------------------------------------
(* The same players on the same sides                                      *)

\* A proposal that evolves is still one for the same two players.
LEMMA RematchKeeps ==
    ASSUME NEW old \in Row, NEW new \in Row, Evolves(old, new), IsProposal(old),
           NEW source, Rematch(old, source)
    PROVE  Rematch(new, source)
<1>1. Taken(old) \subseteq Taken(new)
  BY DEF Evolves, Taken
<1>2. new.opponent = old.opponent
  BY DEF Evolves
<1>3. ASSUME NEW r \in Role
      PROVE  source.seats[r] = IF r \in Taken(new) THEN new.seats[r] ELSE new.opponent
  BY <1>1, <1>2 DEF Evolves, Rematch
<1> QED BY <1>3 DEF Rematch

\* A finished source stays as it is, and only the opponent joins a proposal.
LEMMA SidesStep ==
    Typed /\ Sound /\ SamePlayersSameRoles /\ [Next]_vars => SamePlayersSameRoles'
<1> SUFFICES ASSUME Typed, Sound, SamePlayersSameRoles, [Next]_vars,
                    NEW id \in DOMAIN rows', IsProposal(rows'[id])
             PROVE  Rematch(rows'[id], rows'[rows'[id].source])
  BY DEF SamePlayersSameRoles, Id, Rematch
<1> DEFINE source == rows'[id].source
<1>1. RowsMove
  BY TableMoves
<1>2. CASE id \in Id
  <2>1. rows[id] \in Row /\ rows'[id] \in Row /\ Evolves(rows[id], rows'[id])
    BY <1>1, <1>2, Ids DEF RowsMove
  <2>2. rows[id].source = source /\ IsProposal(rows[id])
    BY <2>1 DEF Evolves, IsProposal
  <2>3. source \in Id /\ Rematch(rows[id], rows[source])
    BY <1>2, <2>2 DEF Sound, SamePlayersSameRoles, Rematch, IsProposal
  <2>4. rows'[source] = rows[source]
    BY <1>1, <2>3 DEF RowsMove, Evolves, Rematch
  <2> QED BY <2>1, <2>2, <2>3, <2>4, RematchKeeps
<1>3. CASE id \notin Id
  <2>1. source \in Id /\ Rematch(rows'[id], rows[source])
    BY <1>1, <1>3 DEF RowsMove
  <2>2. rows'[source] = rows[source]
    BY <1>1, <2>1 DEF RowsMove, Evolves, Rematch
  <2> QED BY <2>1, <2>2
<1> QED BY <1>2, <1>3

\* rematch-routes.ts:57-140, PDR-3: whoever proposes and however requests
\* overlap, a rematch is between the players of its source, on their sides.
THEOREM RematchKeepsSides == Spec => []SamePlayersSameRoles
<1>1. Init => SamePlayersSameRoles
  BY DEF Init, SamePlayersSameRoles, Id
<1> QED BY TableInit, TableStep, SidesStep, <1>1, PTL DEF Spec

-----------------------------------------------------------------------------
(* The bot gets ready                                                      *)

\* A request that readies a bot goes on, is lost, or has done so.
LEMMA BotRequest ==
    ASSUME Typed, Sound, [Next]_vars, NEW c \in Call, calls[c].op = "ready"
    PROVE  \/ calls'[c] = calls[c]
           \/ calls[c].id \in orphaned'
           \/ calls[c].role \in rows'[calls[c].id].ready
<1> DEFINE call == calls[c]
           row == rows[call.id]
<1>0. call.op # "idle" /\ call # Idle
  BY DEF Idle
<1>1. call \in Request /\ call.id \in Id /\ row \in Row /\ RowOK(row) /\ CallOK(call, row)
  BY <1>0, CallFacts
<1>2. calls \in [Call -> {Idle} \cup Request] /\ rows \in Seq(Row)
  BY DEF Typed
<1>3. call.role \in Role /\ call.user \in Bot /\ row.seats[call.role] = call.user
  BY <1>1 DEF Request, CallOK
<1>4. IsAi(row)
  BY <1>3, LifecycleAssumption DEF IsAi, Users, Taken
<1>5. CASE ReadyBot(c)
  <2>1. CASE Waiting(row)
    <3>1. rows'[call.id] = Readied(row, call.role)
      BY <1>1, <1>2, <1>5, <2>1 DEF ReadyBot, Id
    <3>2. Full(row)
      BY <1>1, <1>4 DEF RowOK
    <3> QED BY <1>1, <1>3, <2>1, <3>1, <3>2, ReadiedRow
  <2>2. CASE ~Waiting(row)
    <3>1. rows' = rows
      BY <1>5, <2>2 DEF ReadyBot
    <3>2. row.ready = Role
      BY <1>1, <1>4, <2>2 DEF RowOK
    <3> QED BY <1>3, <3>1, <3>2
  <2> QED BY <2>1, <2>2
<1>6. CASE Lose(c)
  BY <1>6 DEF Lose
<1>7. ASSUME NEW d \in Call, d # c,
             \/ JoinCommit(d) \/ ProposeCommit(d) \/ AcceptCommit(d) \/ ResolveCommit(d)
             \/ ReadyBot(d) \/ Lose(d)
      PROVE  calls'[c] = calls[c]
  <2>1. End(d)
    BY <1>7 DEF JoinCommit, ProposeCommit, AcceptCommit, ResolveCommit, ReadyBot, Lose
  <2> QED BY <1>2, <1>7, <2>1 DEF End
<1>8. ~(JoinCommit(c) \/ ProposeCommit(c) \/ AcceptCommit(c) \/ ResolveCommit(c))
  BY DEF JoinCommit, ProposeCommit, AcceptCommit, ResolveCommit
<1>9. ASSUME NEW u \in User, NEW r \in Role,
             CreateChallenge(u, r) \/ \E bot \in Bot : CreateAi(u, r, bot)
      PROVE  calls'[c] = calls[c]
  BY <1>0, <1>2, <1>9 DEF CreateChallenge, CreateAi
<1>10. ASSUME NEW u \in User, NEW id \in Id,
             JoinRead(u, id) \/ ProposeRead(u, id) \/ AcceptRead(u, id) \/ ResolveRead(u, id)
       PROVE  calls'[c] = calls[c]
  BY <1>0, <1>2, <1>10 DEF JoinRead, ProposeRead, AcceptRead, ResolveRead, Begin
<1>11. ASSUME NEW id \in Id, (\E r \in Role : Ready(id, r)) \/ Finish(id)
       PROVE  calls'[c] = calls[c]
  BY <1>11 DEF Ready, Finish
<1>12. CASE UNCHANGED vars
  BY <1>12 DEF vars
<1> QED BY <1>5, <1>6, <1>7, <1>8, <1>9, <1>10, <1>11, <1>12 DEF Next

\* A match with a bot in it is new only while its creating request goes on.
LEMMA NewBotMatch ==
    ASSUME Typed, Sound, [Next]_vars, NEW id \in DOMAIN rows' \ Id, IsAi(rows'[id])
    PROVE  \E r \in Role : /\ rows'[id].seats[r] \in Bot
                           /\ \E c \in Call : calls'[c].op = "ready" /\ calls'[c].id = id
<1>1. rows \in Seq(Row) /\ calls \in [Call -> {Idle} \cup Request]
  BY DEF Typed
<1>2. ASSUME NEW row, rows' = Append(rows, row)
      PROVE  id = Len(rows) + 1 /\ rows'[id] = row
  <2>1. DOMAIN rows' = 1 .. Len(rows) + 1 /\ Id = 1 .. Len(rows) /\ Len(rows) \in Nat
    BY <1>1, <1>2 DEF Id
  <2>2. id = Len(rows) + 1
    BY <2>1
  <2> QED BY <1>1, <1>2, <2>2
<1>3. ASSUME NEW u \in User, NEW r \in Role, NEW row, row.seats = OneSeat(u, r)
      PROVE  ~IsAi(row)
  <2>1. u \notin Bot
    BY LifecycleAssumption
  <2> QED BY <1>3, <2>1 DEF IsAi, Users, Taken, OneSeat
<1>4. ASSUME NEW u \in User, NEW r \in Role, NEW bot \in Bot, CreateAi(u, r, bot)
      PROVE  \E q \in Role : /\ rows'[id].seats[q] \in Bot
                             /\ \E c \in Call : calls'[c].op = "ready" /\ calls'[c].id = id
  <2> DEFINE new == [status |-> "CREATED", token |-> FALSE, source |-> None, opponent |-> None,
                     seats |-> [q \in Role |-> IF q = r THEN u ELSE bot], ready |-> {}]
  <2>1. id = Len(rows) + 1 /\ rows'[id] = new
    BY <1>2, <1>4 DEF CreateAi, Insert
  <2>2. Opposite(r) \in Role /\ new.seats[Opposite(r)] \in Bot
    BY OppositeSides
  <2>3. PICK c \in Call : calls' = [calls EXCEPT ![c] =
                [op |-> "ready", id |-> Len(rows) + 1, user |-> bot, role |-> Opposite(r)]]
    BY <1>4 DEF CreateAi
  <2>4. calls'[c].op = "ready" /\ calls'[c].id = id
    BY <1>1, <2>1, <2>3
  <2> QED BY <2>1, <2>2, <2>4
<1>5. ASSUME NEW u \in User, NEW r \in Role, CreateChallenge(u, r)
      PROVE  FALSE
  <2> DEFINE new == [status |-> "CREATED", token |-> TRUE, source |-> None,
                     opponent |-> None, seats |-> OneSeat(u, r), ready |-> {}]
  <2>1. rows'[id] = new
    BY <1>2, <1>5 DEF CreateChallenge, Insert
  <2>2. new.seats = OneSeat(u, r)
    OBVIOUS
  <2> HIDE DEF new
  <2> QED BY <1>3, <2>1, <2>2
<1>6. ASSUME NEW c \in Call, ProposeCommit(c)
      PROVE  FALSE
  <2> DEFINE call == calls[c]
             new == ProposalOf(call.id, call.user, call.role)
  <2>1. call \in Request /\ call.op = "propose"
    BY <1>6, CallFacts DEF ProposeCommit
  <2>2. call.user \in User /\ call.role \in Role
    BY <2>1 DEF Request
  <2>3. rows'[id] = new
    BY <1>2, <1>6 DEF ProposeCommit, Refuse, Insert, Id
  <2>4. new.seats = OneSeat(call.user, call.role)
    BY DEF ProposalOf
  <2> HIDE DEF new, call
  <2> QED BY <1>3, <2>2, <2>3, <2>4
<1>7. ASSUME NEW n \in Id, NEW row, rows' = [rows EXCEPT ![n] = row]
      PROVE  FALSE
  BY <1>1, <1>7 DEF Id
<1>8. ASSUME UNCHANGED rows
      PROVE  FALSE
  BY <1>8 DEF Id
<1>9. ASSUME NEW c \in Call,
             JoinCommit(c) \/ AcceptCommit(c) \/ ResolveCommit(c) \/ ReadyBot(c) \/ Lose(c)
      PROVE  FALSE
  <2>1. DOMAIN rows' = DOMAIN rows
    BY <1>1, <1>9 DEF JoinCommit, AcceptCommit, ResolveCommit, ReadyBot, Lose, Settle, Refuse
  <2> QED BY <2>1 DEF Id
<1>10. ASSUME NEW u \in User, NEW n \in Id,
              JoinRead(u, n) \/ ProposeRead(u, n) \/ AcceptRead(u, n) \/ ResolveRead(u, n)
       PROVE  FALSE
  BY <1>8, <1>10 DEF JoinRead, ProposeRead, AcceptRead, ResolveRead, Begin
<1>11. ASSUME NEW n \in Id, (\E r \in Role : Ready(n, r)) \/ Finish(n)
       PROVE  FALSE
  <2>1. DOMAIN rows' = DOMAIN rows
    BY <1>11 DEF Ready, Finish
  <2> QED BY <2>1 DEF Id
<1>12. CASE UNCHANGED vars
  BY <1>8, <1>12 DEF vars
<1> QED BY <1>4, <1>5, <1>6, <1>9, <1>10, <1>11, <1>12 DEF Next

\* No step takes an orphan back.
LEMMA OrphansStay == [Next]_vars => orphaned \subseteq orphaned'
BY DEF Next, vars, CreateChallenge, CreateAi, Insert, JoinRead, ProposeRead, AcceptRead,
       ResolveRead, Begin, JoinCommit, ProposeCommit, AcceptCommit, ResolveCommit, ReadyBot,
       Settle, Refuse, Lose, Ready, Finish

\* Rows keep their bots, and the request that readies a bot goes on or is lost.
LEMMA BotStep == Typed /\ Sound /\ BotGetsReady /\ [Next]_vars => BotGetsReady'
<1> SUFFICES ASSUME Typed, Sound, BotGetsReady, [Next]_vars,
                    NEW id \in DOMAIN rows', IsAi(rows'[id]), id \notin orphaned'
             PROVE  \E r \in Role :
                       /\ rows'[id].seats[r] \in Bot
                       /\ \/ r \in rows'[id].ready
                          \/ \E c \in Call : calls'[c].op = "ready" /\ calls'[c].id = id
  BY DEF BotGetsReady, Id
<1>1. RowsMove
  BY TableMoves
<1>2. CASE id \in Id
  <2>1. Evolves(rows[id], rows'[id])
    BY <1>1, <1>2 DEF RowsMove
  <2>2. IsAi(rows[id]) /\ id \notin orphaned
    BY <2>1, OrphansStay DEF Evolves
  <2>3. PICK r \in Role :
              /\ rows[id].seats[r] \in Bot
              /\ \/ r \in rows[id].ready
                 \/ \E c \in Call : calls[c].op = "ready" /\ calls[c].id = id
    BY <1>2, <2>2 DEF BotGetsReady
  <2>4. ASSUME NEW q \in Role, rows[id].seats[q] \in Bot
        PROVE  rows'[id].seats[q] \in Bot
    BY <2>1, <2>4, LifecycleAssumption DEF Evolves, Taken
  <2>5. CASE r \in rows[id].ready
    BY <2>1, <2>3, <2>4, <2>5 DEF Evolves
  <2>6. ASSUME NEW c \in Call, calls[c].op = "ready", calls[c].id = id
        PROVE  \E q \in Role :
                  /\ rows'[id].seats[q] \in Bot
                  /\ \/ q \in rows'[id].ready
                     \/ \E d \in Call : calls'[d].op = "ready" /\ calls'[d].id = id
    <3>1. \/ calls'[c] = calls[c]
          \/ calls[c].role \in rows'[id].ready
      BY <2>6, BotRequest
    <3>2. calls[c] \in Request /\ CallOK(calls[c], rows[id])
      BY <2>6, CallFacts
    <3>3. calls[c].role \in Role /\ rows[id].seats[calls[c].role] \in Bot
      BY <2>6, <3>2 DEF Request, CallOK
    <3> QED BY <2>4, <2>6, <3>1, <3>3
  <2> QED BY <2>3, <2>5, <2>6
<1>3. CASE id \notin Id
  BY <1>3, NewBotMatch
<1> QED BY <1>2, <1>3

\* ai-routes.ts:81-86: for any number of practice matches and requests of
\* people in between, a bot stays unready only where its request was lost.
THEOREM BotsGetReady == Spec => []BotGetsReady
<1>1. Init => BotGetsReady
  <2>1. Init => Id = {}
    BY DEF Init, Id
  <2> QED BY <2>1 DEF BotGetsReady
<1> QED BY TableInit, TableStep, BotStep, <1>1, PTL DEF Spec
=============================================================================
