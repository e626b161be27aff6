------------------------------ MODULE MCRooms ------------------------------
(* A small instance of Rooms: two handlers, the buyer's page, one restart;   *)
(* a single amount, which is both reservation values: one offer each.         *)
EXTENDS Rooms

MCCost == [a \in Amount |-> [b \in Amount |-> IF a = b THEN 0 ELSE 1]]
MCVerifiable == [p \in Player |-> {}]
MCCreated ==
    CreatedMatch("FRIEND_LIVE", [p \in Player |-> 1], "BUYER")
=============================================================================
