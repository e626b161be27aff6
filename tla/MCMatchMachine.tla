--------------------------- MODULE MCMatchMachine ---------------------------
(* A small instance of a match and its views: offers of 0.1 to 0.4, a ZOPA    *)
(* that is positive or zero, one fact per player.                             *)
EXTENDS MatchMachine

\* ceil(10 * |ln(b/a)| ^ 0.6), at least 1: the price of each concession under
\* the default configuration (concessionK = 10, concessionAlpha = 0.6).
MCCost ==
    LET row(t) == [b \in 1 .. 4 |-> t[b]]
    IN  [a \in 1 .. 4 |->
            row((<< << 0, 9, 11, 13>>, << 9, 0, 6, 9>>,
                    <<11, 6, 0, 5>>, <<13, 9, 5, 0>> >>)[a])]

MCVerifiable == [p \in Player |-> IF p = "BUYER" THEN {"budget"} ELSE {"rival"}]

RV(b, s) == [p \in Player |-> IF p = "BUYER" THEN b ELSE s]

MCReservationPairs == {RV(3, 1), RV(2, 2)}
=============================================================================
