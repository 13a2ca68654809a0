----------------------------- MODULE MCCoinOrders -----------------------------
(* A starter of 2 coins and a refill of 3, an upgrade of 2, a balance      *)
(* limit that some orders of credits reach.                                *)
EXTENDS CoinOrders, TLC

CONSTANTS o1, o2, t1, t2, w1, w2, w3, starter, refill

TwoPrices == starter :> 2 @@ refill :> 3
Symmetry == Permutations(Workers) \cup Permutations(Orders) \cup Permutations(Txns)
=============================================================================
