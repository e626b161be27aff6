---------------------------- MODULE MCGameReview ----------------------------
(* A small instance of GameReview and Progress: offers of 0.1 to 0.3 in a     *)
(* ZOPA of 0.2, two facts of the seller, times in units of the shortest       *)
(* threshold.  Matches end at times 0 to 3; the other matches of a history    *)
(* end around that, in ties with the match too.                               *)
EXTENDS Progress

\* ceil(10 * |ln(b/a)| ^ 0.6), at least 1.
MCCost ==
    LET row(t) == [b \in 1 .. 3 |-> t[b]]
    IN  [a \in 1 .. 3 |-> row((<< <<0, 9, 11>>, <<9, 0, 6>>, <<11, 6, 0>> >>)[a])]

MCVerifiable == [p \in Player |-> IF p = "BUYER" THEN {} ELSE {"rival", "deadline"}]

RV(b, s) == [p \in Player |-> IF p = "BUYER" THEN b ELSE s]

MCReservations == {RV(3, 1)}

MCRow(id, endedAt, outcome, persona, share, close, hold, step) ==
    [id |-> id, endedAt |-> endedAt, outcome |-> outcome, persona |-> persona,
     share |-> share, close |-> close, hold |-> hold, step |-> step]

MCDeal == MCRow(1, -2, "DEAL", "wall", 50, 1, 1, 1)
MCAborted == MCRow(5, 1, "ABORTED", "wall", None, None, 9, 9)
MCEqual == MCRow(2, 1, "NO_DEAL_TIMED_OUT", "anchor", None, None, 2, 1)
MCLater == MCRow(6, 2, "DEAL", "wall", 0, 0, 0, 2)

MCHistories == {<<>>, <<MCAborted, MCDeal>>, <<MCLater, MCEqual>>}
=============================================================================
