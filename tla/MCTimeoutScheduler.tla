------------------------- MODULE MCTimeoutScheduler -------------------------
(* Small instances of TimeoutScheduler: a ZOPA of one step, one offer each, *)
(* one fact, a limit of two ticks, two overlapping calls.                   *)
EXTENDS TimeoutScheduler

MCCost == [a \in Amount |-> [b \in Amount |-> IF a = b THEN 0 ELSE 1]]
MCVerifiable == [p \in Player |-> IF p = "BUYER" THEN {"budget"} ELSE {}]
MCCreated ==
    CreatedMatch("FRIEND_LIVE", [p \in Player |-> IF p = "BUYER" THEN 2 ELSE 1], "BUYER")
=============================================================================
