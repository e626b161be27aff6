----------------------------- MODULE MCPresence -----------------------------
(* A small instance of Presence: three sockets of the buyer, who moves first, *)
(* the seller moving over HTTP; a ZOPA of one step and one offer each; one    *)
(* restart of the process.                                                    *)
EXTENDS Presence

MCCost == [a \in Amount |-> [b \in Amount |-> IF a = b THEN 0 ELSE 1]]
MCVerifiable == [p \in Player |-> {}]
MCOwner == [s \in Socket |-> IF s \in {"b1", "b2", "b3"} THEN "BUYER" ELSE "SELLER"]
MCCreated ==
    CreatedMatch("FRIEND_LIVE", [p \in Player |-> IF p = "BUYER" THEN 2 ELSE 1], "BUYER")
=============================================================================
