--------------------------- MODULE MatchLifecycle ---------------------------
(***************************************************************************)
(* How matches come to be: friend challenges                               *)
(* (packages/db/src/command-service.ts, apps/api/src/match-routes.ts),     *)
(* rematches (apps/api/src/rematch-routes.ts) and practice against a bot   *)
(* (apps/api/src/ai/ai-routes.ts), as rows of the table `matches'.         *)
(*                                                                         *)
(* A route reads the row under no lock and then calls the service, which   *)
(* checks again in a transaction under the row lock: two steps, with any   *)
(* request of anyone in between.  Play between start and result is one     *)
(* step here; it is the subject of MatchMachine.                           *)
(***************************************************************************)
EXTENDS Naturals, Sequences, FiniteSets

CONSTANTS
    None,
    User,    \* people
    Bot,     \* the accounts behind the AI personas
    MaxRows, \* bound on the rows ever created
    Call     \* requests that may be in progress at once

\* People are not bots, and None is neither the number of a row nor an account.
ASSUME LifecycleAssumption ==
    /\ None \notin Nat
    /\ None \notin User \cup Bot
    /\ User \cap Bot = {}
    /\ MaxRows \in Nat

Role == {"BUYER", "SELLER"}
Opposite(r) == IF r = "BUYER" THEN "SELLER" ELSE "BUYER"

VARIABLES
    rows,     \* the rows ever created, in order of creation
    calls,    \* requests between the route's read and the transaction
    resolved, \* history: the successful answers that settled a row
    orphaned  \* history: the AI matches whose creating request was lost

vars == <<rows, calls, resolved, orphaned>>

Id == DOMAIN rows
Taken(row) == {r \in Role : row.seats[r] # None}
Users(row) == {row.seats[r] : r \in Taken(row)}
Full(row) == Taken(row) = Role
Open(row) == row.status = "CREATED" /\ ~Full(row)
IsProposal(row) == row.source # None
IsAi(row) == Users(row) \cap Bot # {}

RoleOf(row, u) == CHOOSE r \in Role : row.seats[r] = u
FreeRole(row) == CHOOSE r \in Role : row.seats[r] = None

Idle == [op |-> "idle"]

Init ==
    /\ rows = << >>
    /\ calls = [c \in Call |-> Idle]
    /\ resolved = << >>
    /\ orphaned = {}

-----------------------------------------------------------------------------
(* Requests                                                                *)

\* A route has read what it needs and calls the service.
Begin(request) ==
    /\ \E c \in Call : calls[c] = Idle /\ calls' = [calls EXCEPT ![c] = request]
    /\ UNCHANGED <<rows, resolved, orphaned>>

End(c) == calls' = [calls EXCEPT ![c] = Idle]

Insert(row) ==
    /\ Len(rows) < MaxRows
    /\ rows' = Append(rows, row)
    /\ resolved' = Append(resolved, 0)
    /\ UNCHANGED orphaned

OneSeat(u, r) == [q \in Role |-> IF q = r THEN u ELSE None]

\* POST /v1/challenges.
CreateChallenge(u, r) ==
    /\ Insert([status |-> "CREATED", token |-> TRUE, source |-> None,
               opponent |-> None, seats |-> OneSeat(u, r), ready |-> {}])
    /\ UNCHANGED calls

\* POST /v1/matches/ai inserts the match with both its players, and then calls
\* the service to ready the bot.
CreateAi(u, r, bot) ==
    /\ Insert([status |-> "CREATED", token |-> FALSE, source |-> None, opponent |-> None,
               seats |-> [q \in Role |-> IF q = r THEN u ELSE bot], ready |-> {}])
    /\ \E c \in Call :
          /\ calls[c] = Idle
          /\ calls' = [calls EXCEPT ![c] =
                [op |-> "ready", id |-> Len(rows) + 1, user |-> bot, role |-> Opposite(r)]]

\* POST /v1/challenges/:token/join finds the row by its token.
JoinRead(u, id) ==
    /\ rows[id].token
    /\ u \notin Users(rows[id])
    /\ Begin([op |-> "join", id |-> id, user |-> u, role |-> FreeRole(rows[id])])

\* POST /v1/matches/:id/rematch, by a player of a finished friend match.
ProposeRead(u, id) ==
    /\ rows[id].status = "OVER"
    /\ ~IsAi(rows[id])
    /\ u \in Users(rows[id])
    /\ Begin([op |-> "propose", id |-> id, user |-> u, role |-> RoleOf(rows[id], u)])

\* POST .../rematch/accept, by the fixed opponent of an open proposal.
AcceptRead(u, id) ==
    /\ IsProposal(rows[id])
    /\ Open(rows[id])
    /\ rows[id].opponent = u
    /\ Begin([op |-> "accept", id |-> id, user |-> u, role |-> FreeRole(rows[id])])

\* POST .../rematch/decline and .../cancel look only at who asks.
ResolveRead(u, id) ==
    /\ IsProposal(rows[id])
    /\ rows[id].status # "DELETED"
    /\ \/ rows[id].opponent = u
       \/ u \in Users(rows[id]) /\ ~Full(rows[id])
    /\ Begin([op |-> "resolve", id |-> id, user |-> u,
              role |-> IF rows[id].opponent = u THEN "OPPONENT" ELSE "PROPOSER"])

-----------------------------------------------------------------------------
(* Transactions of the service                                             *)

Settle(id, row) ==
    /\ rows' = [rows EXCEPT ![id] = row]
    /\ resolved' = [resolved EXCEPT ![id] = @ + 1]
    /\ UNCHANGED orphaned

Refuse == UNCHANGED <<rows, resolved, orphaned>>

Seated(row, u, r) == [row EXCEPT !.seats[r] = u]

\* joinChallenge: the token is used up, the match waits for both to be ready.
JoinCommit(c) ==
    LET call == calls[c]
        row == rows[call.id]
    IN  /\ call.op = "join"
        /\ IF Open(row) /\ row.token
           THEN Settle(call.id, [Seated(row, call.user, call.role) EXCEPT !.token = FALSE])
           ELSE Refuse
        /\ End(c)

\* createRematchProposal: one open proposal per source, under the source's lock.
ProposalOf(source, u, r) ==
    [status |-> "CREATED", token |-> FALSE, source |-> source,
     opponent |-> rows[source].seats[Opposite(r)], seats |-> OneSeat(u, r), ready |-> {}]

HasOpenProposal(source) ==
    \E id \in Id : rows[id].source = source /\ rows[id].status = "CREATED"

\* Bug: the route has already looked for an open proposal.
ProposeCommit_Unchecked(c) ==
    LET call == calls[c] IN
    /\ call.op = "propose"
    /\ Insert(ProposalOf(call.id, call.user, call.role))
    /\ End(c)

\* Bug: the proposer takes the other side.
ProposeCommit_Swapped(c) ==
    LET call == calls[c] IN
    /\ call.op = "propose"
    /\ IF HasOpenProposal(call.id) THEN Refuse
       ELSE Insert([ProposalOf(call.id, call.user, call.role)
                        EXCEPT !.seats = OneSeat(call.user, Opposite(call.role))])
    /\ End(c)

ProposeCommit(c) ==
    LET call == calls[c] IN
    /\ call.op = "propose"
    /\ IF HasOpenProposal(call.id) THEN Refuse
       ELSE Insert(ProposalOf(call.id, call.user, call.role))
    /\ End(c)

\* acceptRematch: materialises the match and readies both in one transaction.
AcceptCommit(c) ==
    LET call == calls[c]
        row == rows[call.id]
    IN  /\ call.op = "accept"
        /\ IF Open(row) /\ row.opponent = call.user
           THEN Settle(call.id, [Seated(row, call.user, call.role)
                                    EXCEPT !.status = "ACTIVE", !.ready = Role])
           ELSE Refuse
        /\ End(c)

MayResolve(row, call) ==
    call.user = IF call.role = "OPPONENT" THEN row.opponent
                ELSE row.seats[Opposite(FreeRole(row))]

\* Bug: the route's check is trusted.
ResolveCommit_Unchecked(c) ==
    LET call == calls[c]
        row == rows[call.id]
    IN  /\ call.op = "resolve"
        /\ IF row.status # "DELETED" THEN Settle(call.id, [row EXCEPT !.status = "DELETED"])
           ELSE Refuse
        /\ End(c)

\* deleteRematchProposal, for decline and cancel.
ResolveCommit(c) ==
    LET call == calls[c]
        row == rows[call.id]
    IN  /\ call.op = "resolve"
        /\ IF Open(row) /\ MayResolve(row, call)
           THEN Settle(call.id, [row EXCEPT !.status = "DELETED"])
           ELSE Refuse
        /\ End(c)

\* applyReady, of a player who is not ready yet: the second one starts the match.
Readied(row, r) ==
    [row EXCEPT !.ready = @ \cup {r},
                !.status = IF row.ready \cup {r} = Role THEN "ACTIVE" ELSE "READY"]

Waiting(row) == row.status \in {"CREATED", "READY"}

\* Bug: the bot is readied only in a match that nobody has touched.
ReadyBot_First(c) ==
    LET call == calls[c]
        row == rows[call.id]
    IN  /\ call.op = "ready"
        /\ rows' = IF row.status = "CREATED"
                   THEN [rows EXCEPT ![call.id] = Readied(row, call.role)] ELSE rows
        /\ UNCHANGED <<resolved, orphaned>>
        /\ End(c)

\* The READY of the bot; the human may have been ready before it.
ReadyBot(c) ==
    LET call == calls[c]
        row == rows[call.id]
    IN  /\ call.op = "ready"
        /\ rows' = IF Waiting(row)
                   THEN [rows EXCEPT ![call.id] = Readied(row, call.role)] ELSE rows
        /\ UNCHANGED <<resolved, orphaned>>
        /\ End(c)

\* The transaction is rolled back, or the process dies before it.
Lose(c) ==
    /\ calls[c] # Idle
    /\ orphaned' = IF calls[c].op = "ready" THEN orphaned \cup {calls[c].id} ELSE orphaned
    /\ End(c)
    /\ UNCHANGED <<rows, resolved>>

-----------------------------------------------------------------------------
(* Play                                                                    *)

\* POST /v1/matches/:id/ready, by one of the people in a full match.
Ready(id, r) ==
    /\ Full(rows[id])
    /\ Waiting(rows[id])
    /\ rows[id].seats[r] \in User
    /\ r \notin rows[id].ready
    /\ rows' = [rows EXCEPT ![id] = Readied(rows[id], r)]
    /\ UNCHANGED <<calls, resolved, orphaned>>

\* The match is played to a result with an economy.
Finish(id) ==
    /\ rows[id].status = "ACTIVE"
    /\ rows' = [rows EXCEPT ![id].status = "OVER"]
    /\ UNCHANGED <<calls, resolved, orphaned>>

Next ==
    \/ \E u \in User :
         \/ \E r \in Role : CreateChallenge(u, r) \/ \E bot \in Bot : CreateAi(u, r, bot)
         \/ \E id \in Id :
              JoinRead(u, id) \/ ProposeRead(u, id) \/ AcceptRead(u, id) \/ ResolveRead(u, id)
    \/ \E c \in Call :
         JoinCommit(c) \/ ProposeCommit(c) \/ AcceptCommit(c) \/ ResolveCommit(c)
         \/ ReadyBot(c) \/ Lose(c)
    \/ \E id \in Id : Finish(id) \/ \E r \in Role : Ready(id, r)

Spec == Init /\ [][Next]_vars

-----------------------------------------------------------------------------
(* Properties                                                              *)

\* command-service.ts:329, PDR-3: whoever asks, and however the requests of the
\* two players overlap, a finished match has at most one open proposal.
OneOpenProposal ==
    \A source \in Id :
        Cardinality({id \in Id : rows[id].source = source /\ rows[id].status = "CREATED"}) <= 1

\* PDR-3: a rematch is played by the two players of its source, each on the
\* side it had, whoever proposed it.
SamePlayersSameRoles ==
    \A id \in Id :
        IsProposal(rows[id]) =>
            LET source == rows[rows[id].source] IN
            /\ source.status = "OVER"
            /\ \A r \in Role :
                 source.seats[r] =
                    IF r \in Taken(rows[id]) THEN rows[id].seats[r] ELSE rows[id].opponent

\* Of all the joins of a challenge, and of the accepts, declines and cancels of
\* a proposal, at most one is ever answered with success.
ResolvedOnce == \A id \in Id : resolved[id] <= 1

\* ai-routes.ts:82, "the AI readies immediately": nobody is left waiting for a
\* bot.  In whatever order the human and the bot get ready, the bot of an AI
\* match is ready or about to be; unless the request that created the match was
\* lost between its two transactions, and then nothing readies the bot later.
BotGetsReady ==
    \A id \in Id :
        IsAi(rows[id]) /\ id \notin orphaned =>
            \E r \in Role :
                /\ rows[id].seats[r] \in Bot
                /\ \/ r \in rows[id].ready
                   \/ \E c \in Call : calls[c].op = "ready" /\ calls[c].id = id

-----------------------------------------------------------------------------
(* What a comment claims, and the code does not do                         *)

Live(row) == Full(row) /\ row.status \in {"CREATED", "READY", "ACTIVE"}

\* GET /v1/me/active-match.
ActiveMatches(u) ==
    {id \in Id : /\ u \in Users(rows[id])
                 /\ rows[id].status \in {"CREATED", "READY", "ACTIVE"}
                 /\ ~IsProposal(rows[id])}

\* app.ts:229-231: "the first of the caller's live matches ... open rematch
\* proposals are excluded": a player with a live match is offered one.
LiveMatchIsOffered ==
    \A u \in User :
        (\E id \in Id : Live(rows[id]) /\ u \in Users(rows[id])) => ActiveMatches(u) # {}
=============================================================================
