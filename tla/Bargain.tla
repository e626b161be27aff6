------------------------------ MODULE Bargain ------------------------------
(***************************************************************************)
(* What a match promises to its two players, without turns, clocks, chips, *)
(* chat or presence: each publishes bids that stay inside its own          *)
(* reservation value and only move towards the other (GR-003, GR-008), and *)
(* the bargain ends once, broken or at the latest bid of one player that   *)
(* the other can afford (GR-010, GR-011, GR-012).                          *)
(***************************************************************************)
EXTENDS Integers

CONSTANTS None, MaxAmount, ReservationPairs

VARIABLES rv, bid, outcome

bargainVars == <<rv, bid, outcome>>

Side == {"BUYER", "SELLER"}
Opposite(p) == IF p = "BUYER" THEN "SELLER" ELSE "BUYER"

\* The outcome of a bargain that ended without a price.
Broken == 0

\* Player p does not lose by trading at price a.
Affordable(p, a) == IF p = "BUYER" THEN a <= rv[p] ELSE a >= rv[p]

Improves(p, old, new) == IF p = "BUYER" THEN new > old ELSE new < old

Init ==
    /\ rv \in ReservationPairs
    /\ bid = [p \in Side |-> None]
    /\ outcome = None

Bid(p, a) ==
    /\ outcome = None
    /\ Affordable(p, a)
    /\ bid[p] # None => Improves(p, bid[p], a)
    /\ bid' = [bid EXCEPT ![p] = a]
    /\ UNCHANGED <<rv, outcome>>

Strike(p) ==
    /\ outcome = None
    /\ bid[Opposite(p)] # None
    /\ Affordable(p, bid[Opposite(p)])
    /\ outcome' = bid[Opposite(p)]
    /\ UNCHANGED <<rv, bid>>

Break ==
    /\ outcome = None
    /\ outcome' = Broken
    /\ UNCHANGED <<rv, bid>>

Next ==
    \/ \E p \in Side :
         \/ \E a \in 1 .. MaxAmount : Bid(p, a)
         \/ Strike(p)
    \/ Break

Spec == Init /\ [][Next]_bargainVars
=============================================================================
