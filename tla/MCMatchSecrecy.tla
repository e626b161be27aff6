--------------------------- MODULE MCMatchSecrecy ---------------------------
(* A small instance of MatchSecrecy: worlds with a wide, a narrow and an     *)
(* empty bargaining range, one fact per player.                              *)
EXTENDS MatchSecrecy

MCCost == [a \in Amount |-> [b \in Amount |-> IF a = b THEN 0 ELSE 1]]
MCVerifiable == [p \in Player |-> IF p = "BUYER" THEN {"budget"} ELSE {"rival"}]

RV(b, s) == [p \in Player |-> IF p = "BUYER" THEN b ELSE s]
MCHands == {RV(3, 1), RV(3, 2), RV(2, 2)}
=============================================================================
