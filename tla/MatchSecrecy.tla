---------------------------- MODULE MatchSecrecy ----------------------------
(***************************************************************************)
(* What a player can find out about the opponent's reservation value while *)
(* the match goes on.  Two worlds, which differ in that value only, run    *)
(* side by side: the player and the server issue the same commands in      *)
(* both, the opponent makes offers and acceptances that its value allows   *)
(* in both.  The player hears the server's answer to its own commands, the *)
(* events that realtime.ts broadcasts to the room of the match, the same   *)
(* for everybody, and the view of projection.ts.                           *)
(***************************************************************************)
EXTENDS MatchCommands, MatchView

CONSTANTS
    Modes,      \* the modes a match may be created in
    Hands,      \* the pairs of reservation values a world may be created with
    Horizon,    \* bound on the clock
    MaxEvents   \* bound on the events chat and presence may add to

ASSUME SecrecyAssumption ==
    /\ Modes \subseteq Mode
    /\ Hands \subseteq [Player -> Amount]
    /\ Horizon \in Nat
    /\ MaxEvents \in Nat

VARIABLES
    worlds,  \* the match in each world
    viewer,  \* the player who wonders
    time

secrecyVars == <<worlds, viewer, time>>

World == {1, 2}
Rival == Other(viewer)

SecrecyInit ==
    /\ viewer \in Player
    /\ \E mode \in Modes, rv \in [World -> Hands], first \in Player :
         /\ rv[1][viewer] = rv[2][viewer]
         /\ rv[1] # rv[2]
         /\ \A w \in World : ValidMatchInput(mode, rv[w])
         /\ worlds = [w \in World |-> CreatedMatch(mode, rv[w], first)]
    /\ time = 0

\* Every command either player or the server may send.
GameCommands ==
    {Command(kind, p, None) : kind \in {"READY", "WALK_AWAY", "TIMEOUT", "ABORT"}, p \in Player}
    \cup {OfferCommand(p, worlds[1].seq + 1, a) : p \in Player, a \in Amount}
    \cup {Command("ACCEPT", p, oid) : p \in Player, oid \in 1 .. worlds[1].seq}
    \cup {Command("REVEAL", p, fact) : p \in Player, fact \in Fact}

Chatter ==
    {Command("MESSAGE", p, "text") : p \in Player}
    \cup {Command(kind, p, None) : kind \in {"DISCONNECT", "RECONNECT"}, p \in Player}

Commands == GameCommands \cup Chatter

\* The two commands that are judged by the value of the player who sends them.
OnRivalsHand(c) == c.by = Rival /\ c.kind \in {"OFFER", "ACCEPT"}

Allowed(w, c) == Accepted(worlds[w], c, time)

Undecided == \E w \in World : ~Terminal(worlds[w])

\* applyCommand in both worlds; a refused command changes nothing.
Send(c) ==
    /\ Undecided
    /\ c \in Chatter => worlds[1].seq < MaxEvents
    /\ OnRivalsHand(c) => \A w \in World : Allowed(w, c)
    /\ worlds' = [w \in World |-> IF Allowed(w, c) THEN Applied(worlds[w], c, time) ELSE worlds[w]]
    /\ UNCHANGED <<viewer, time>>

Pass == Undecided /\ time < Horizon /\ time' = time + 1 /\ UNCHANGED <<worlds, viewer>>

SecrecyNext == (\E c \in Commands : Send(c)) \/ Pass

SecrecySpec == SecrecyInit /\ [][SecrecyNext]_secrecyVars

-----------------------------------------------------------------------------
(* Properties                                                              *)

\* GR-002, SI-001: whatever was played, until both worlds are over the player is
\* shown the same in both of them: no field of a view, whether it copies one of
\* the match or is computed, has come to depend on the rival's value.
ViewsAlike ==
    Undecided => ViewMatchFor(worlds[1], viewer, time) = ViewMatchFor(worlds[2], viewer, time)

\* GR-002, SI-001: nor can the player find out by trying: until then the server
\* takes or refuses each command alike in both worlds, the moves the rival's
\* value decides about excepted, and broadcasts the same events.
AnswersAlike ==
    Undecided =>
        \A c \in Commands :
            /\ OnRivalsHand(c) \/ (Allowed(1, c) <=> Allowed(2, c))
            /\ Allowed(1, c) /\ Allowed(2, c) =>
                 Emitted(worlds[1], c, time) = Emitted(worlds[2], c, time)
=============================================================================
