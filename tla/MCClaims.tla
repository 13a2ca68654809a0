-------------------------------- MODULE MCClaims --------------------------------
(* Two devices, two days in two weeks, two levels, and one slot, rank and  *)
(* lane battle each; every family pays a different amount.  Both devices   *)
(* may send every claim; the second level and the chest are asked for      *)
(* with two ids each, and i1 is sent for both levels.                      *)
EXTENDS Claims, TLC

CONSTANTS i1, i2, i3, i4, i5, w1, w2

Purposes == {<<i1, "daily", 1>>, <<i2, "daily", 2>>, <<i3, "daily", 3>>,
             <<i4, "daily", 4>>, <<i5, "daily", 4>>,
             <<i1, "level", 1>>, <<i1, "level", 2>>, <<i2, "level", 2>>,
             <<i1, "weekly", 1>>,
             <<i1, "league", 1>>, <<i1, "lane", 1>>}
Claimed == {[id |-> p[1], family |-> p[2], item |-> p[3]] : p \in Purposes}

TimesAreDays == [time \in 0..MaxTime |-> time]
OneRank == [rank \in {1} |-> 1]
SmallTargets == [m \in Missions |-> 1]
Amounts ==
  [key \in Keys |-> CASE key.family = "daily" -> 1
                      [] key.family = "level" -> 2
                      [] key.family = "weekly" -> 4
                      [] key.family = "league" -> 8
                      [] key.family = "lane" -> 16]
Symmetry == Permutations(Workers)
=============================================================================
