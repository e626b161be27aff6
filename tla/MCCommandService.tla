-------------------------- MODULE MCCommandService --------------------------
(* A small instance of CommandService: two amounts, a ZOPA of one step, one   *)
(* fact for the buyer.                                                        *)
EXTENDS CommandService

MCCost == [a \in Amount |-> [b \in Amount |-> IF a = b THEN 0 ELSE 1]]

MCVerifiable == [p \in Player |-> IF p = "BUYER" THEN {"budget"} ELSE {}]

MCReservationPairs == {[p \in Player |-> IF p = "BUYER" THEN 2 ELSE 1]}
=============================================================================
