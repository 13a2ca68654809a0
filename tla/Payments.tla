-------------------------------- MODULE Payments --------------------------------
(***************************************************************************)
(* What the store promises its callers: each settlement or purchase pays   *)
(* all of its players at once, and once, however often it is asked for and *)
(* whatever else is going on.                                              *)
(***************************************************************************)
EXTENDS Integers

CONSTANTS
  Players,        \* user ids, numbered in the order the database sorts them
  Ids,            \* match, attack, ticket and purchase ids
  Payees,         \* whom an id pays, or charges
  Amount,         \* how much each of them gets; negative for a purchase
  InitialCoins

VARIABLES coins, paid

vars == <<coins, paid>>

Init == coins = [p \in Players |-> InitialCoins] /\ paid = {}

Pay(id) ==
  /\ id \notin paid
  /\ \A p \in Payees[id] : coins[p] + Amount[id] >= 0
  /\ paid' = paid \cup {id}
  /\ coins' = [p \in Players |-> IF p \in Payees[id] THEN coins[p] + Amount[id] ELSE coins[p]]

Next == \E id \in Ids : Pay(id)

Spec == Init /\ [][Next]_vars
=============================================================================
