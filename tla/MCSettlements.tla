----------------------------- MODULE MCSettlements -----------------------------
(* Small rounds of settlements among three players.  Mixed: two team       *)
(* matches whose slots order the two players they share differently, two   *)
(* players who raid one another, an attack, a purchase and a settled raid, *)
(* so that every transaction meets every other.  A match of one player     *)
(* locks as a purchase does, and counts and pays as an attack does.        *)
EXTENDS Settlements, TLC

CONSTANTS t1, t2, u1, a1, r1, r2, s1, w1, w2, w3

Mixed == {t1, t2, u1, a1, r1, r2, s1}
Symmetry == Permutations(Workers)

MCPayees == t1 :> {1, 2, 3} @@ t2 :> {2, 3} @@ u1 :> {2}
            @@ a1 :> {2} @@ r1 :> {1} @@ r2 :> {2} @@ s1 :> {2}
MCAmount == t1 :> 2 @@ t2 :> 1 @@ u1 :> -2
            @@ a1 :> 1 @@ r1 :> 0 @@ r2 :> 0 @@ s1 :> 2
MCKind == t1 :> "team" @@ t2 :> "team" @@ u1 :> "upgrade" @@ a1 :> "attack"
          @@ r1 :> "raid" @@ r2 :> "raid" @@ s1 :> "realm"
MCDefender == [id \in Ids |-> IF id = r1 THEN 2 ELSE 1]
MCSlot == [id \in Ids |-> IF id = t1 THEN <<2, 3, 1>> ELSE <<1, 2, 3>>]
=============================================================================
