--------------------------- MODULE MatchCommands ---------------------------
(***************************************************************************)
(* The dispatcher of packages/domain/src/match.ts (applyCommand) over the  *)
(* per-command operators of MatchDomain, and the replay of an event stream *)
(* (packages/domain/src/replay.ts).                                        *)
(*                                                                         *)
(* A command is [kind, by, arg]: `by' is the player it acts for, `arg' the *)
(* amount, the offer, the fact or the message body.  An OFFER also carries *)
(* the id its route gave it.                                               *)
(***************************************************************************)
EXTENDS MatchDomain

Command(kind, p, arg) == [kind |-> kind, by |-> p, id |-> None, arg |-> arg]
OfferCommand(p, oid, a) == [kind |-> "OFFER", by |-> p, id |-> oid, arg |-> a]

Accepted(m, c, now) ==
    \/ c.kind = "READY" /\ CanReady(m)
    \/ c.kind = "OFFER" /\ CanOffer(m, c.by, c.arg, now)
    \/ c.kind = "ACCEPT" /\ CanAccept(m, c.by, c.arg, now)
    \/ c.kind = "WALK_AWAY" /\ CanWalkAway(m, c.by, now)
    \/ c.kind = "REVEAL" /\ CanReveal(m, c.by, c.arg, now)
    \/ c.kind = "MESSAGE" /\ CanMessage(m, c.arg)
    \/ c.kind \in {"DISCONNECT", "RECONNECT", "ABORT"}
    \/ c.kind = "TIMEOUT" /\ CanTimeout(m, c.by, now)

Applied(m, c, now) ==
    CASE c.kind = "READY" -> AfterReady(m, c.by, now)
      [] c.kind = "OFFER" -> AfterOffer(m, c.by, c.id, c.arg, now)
      [] c.kind = "ACCEPT" -> AfterAccept(m, c.by, now)
      [] c.kind = "WALK_AWAY" -> AfterWalkAway(m, now)
      [] c.kind = "REVEAL" -> AfterReveal(m, c.by, c.arg, now)
      [] c.kind = "MESSAGE" -> AfterMessage(m)
      [] c.kind = "DISCONNECT" -> AfterDisconnect(m, c.by, now)
      [] c.kind = "RECONNECT" -> AfterReconnect(m, c.by, now)
      [] c.kind = "ABORT" -> AfterAbort(m, now)
      [] c.kind = "TIMEOUT" -> AfterTimeout(m, now)

Emitted(m, c, now) ==
    CASE c.kind = "READY" -> ReadyEvents(m, c.by, now)
      [] c.kind = "OFFER" -> OfferEvents(m, c.by, c.id, c.arg, now)
      [] c.kind = "ACCEPT" -> AcceptEvents(m, c.by, c.arg, now)
      [] c.kind = "WALK_AWAY" -> WalkAwayEvents(m, c.by, now)
      [] c.kind = "REVEAL" -> RevealEvents(m, c.by, c.arg, now)
      [] c.kind = "MESSAGE" -> MessageEvents(c.by, c.arg, now)
      [] c.kind = "DISCONNECT" -> DisconnectEvents(m, c.by, now)
      [] c.kind = "RECONNECT" -> ReconnectEvents(m, c.by, now)
      [] c.kind = "ABORT" -> AbortEvents(m, now)
      [] c.kind = "TIMEOUT" -> TimeoutEvents(c.by, now)

-----------------------------------------------------------------------------
(* Replay                                                                  *)

\* Derived events: their cause emits them again.
Derived(e) == e.type \in {"MATCH_STARTED", "MATCH_PAUSED", "MATCH_COMPLETED"}

\* commandForEvent, on an event that is not derived.
CommandForEvent(e) ==
    CASE e.type = "PLAYER_READY" -> Command("READY", e.actor, None)
      [] e.type = "OFFER_SUBMITTED" -> OfferCommand(e.actor, e.arg.id, e.arg.amount)
      [] e.type = "OFFER_ACCEPTED" -> Command("ACCEPT", e.actor, e.arg.id)
      [] e.type = "WALKED_AWAY" -> Command("WALK_AWAY", e.actor, None)
      [] e.type = "FACT_REVEALED" -> Command("REVEAL", e.actor, e.arg)
      [] e.type = "MESSAGE_SENT" -> Command("MESSAGE", e.actor, e.arg)
      [] e.type = "PLAYER_DISCONNECTED" -> Command("DISCONNECT", e.actor, None)
      [] e.type = "PLAYER_RECONNECTED" -> Command("RECONNECT", e.actor, None)
      [] e.type = "TIMED_OUT" -> Command("TIMEOUT", e.actor, None)
      [] e.type = "MATCH_ABORTED" -> Command("ABORT", None, None)

Replaying(m, emitted, refused) == [match |-> m, events |-> emitted, refused |-> refused]

\* One iteration of replayMatch.  A command the domain refuses makes the code
\* throw; here it leaves the replay as it is for good.
ReplayStep(replay, e) ==
    IF replay.refused \/ Derived(e) THEN replay
    ELSE LET c == CommandForEvent(e)
         IN  IF Accepted(replay.match, c, e.at)
             THEN Replaying(Applied(replay.match, c, e.at),
                            replay.events \o Emitted(replay.match, c, e.at), FALSE)
             ELSE [replay EXCEPT !.refused = TRUE]

\* The state and the events that replaying a stream from creation gives; after[i]
\* is where its first i events lead.
Replay(created, events) ==
    LET after[i \in 0 .. Len(events)] ==
            IF i = 0 THEN Replaying(created, <<>>, FALSE)
            ELSE ReplayStep(after[i - 1], events[i])
    IN  after[Len(events)]
=============================================================================
