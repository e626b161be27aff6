----------------------------- MODULE MCPersonas -----------------------------
(* A small instance of Personas: offers of 0.1 to 1.6 under the default    *)
(* price of a concession, a wide and a narrow ZOPA, and a tenth of the     *)
(* default chips, so that budgets run out; one fact for the human.         *)
EXTENDS Personas, FiniteSets

\* 1000 * ln(a).
MCLog == <<0, 693, 1099, 1386, 1609, 1792, 1946, 2079,
           2197, 2303, 2398, 2485, 2565, 2639, 2708, 2773>>

MCMovement ==
    [a \in 1 .. 16 |-> [b \in 1 .. 16 |->
        IF a < b THEN MCLog[b] - MCLog[a] ELSE MCLog[a] - MCLog[b]]]

\* The largest magnitude that 1, 2, ... chips pay for.
MCReach == <<21, 68, 134, 217, 314, 426, 551, 689, 838, 1000,
             1172, 1355, 1548, 1752, 1965, 2188, 2421, 2663, 2914>>

MCCost ==
    [a \in 1 .. 16 |-> [b \in 1 .. 16 |->
        IF a = b THEN 0
        ELSE 1 + Cardinality({c \in DOMAIN MCReach : MCMovement[a][b] > MCReach[c]})]]

MCVerifiable == [p \in Player |-> {"budget"}]

RV(b, s) == [p \in Player |-> IF p = "BUYER" THEN b ELSE s]

MCPairs == {RV(14, 3), RV(9, 7)}
=============================================================================
