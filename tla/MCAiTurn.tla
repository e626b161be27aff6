------------------------------ MODULE MCAiTurn ------------------------------
(* A small instance of AiTurn: a ZOPA of one step, one concession each, a  *)
(* bot that buys and moves first, one fact for the human.                  *)
EXTENDS AiTurn

MCCost == [a \in Amount |-> [b \in Amount |-> IF a = b THEN 0 ELSE 1]]
MCVerifiable == [p \in Player |-> IF p = "BUYER" THEN {} ELSE {"rival"}]
MCCreated ==
    CreatedMatch("AI", [p \in Player |-> IF p = "BUYER" THEN 2 ELSE 1], "BUYER")
=============================================================================
