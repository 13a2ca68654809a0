------------------------------ MODULE MCLive2v2 ------------------------------
(***************************************************************************)
(* Instances of Live2v2 for TLC: three or four slots, one or two sessions  *)
(* per user, durations of one or two ticks.                                *)
(***************************************************************************)
EXTENDS Live2v2, TLC

CONSTANTS s0, s0b, s1, s1b, s2, s3

(* A duel of one against one with a second session on each side.           *)
DuelSlots    == {0, 1}
DuelTeamA    == {0}
DuelSessions == {s0, s0b, s1}
DuelUserOf   == (s0 :> 0) @@ (s0b :> 0) @@ (s1 :> 1)

(* Two against one: team A can lose one player and play on.                *)
TrioSlots    == {0, 1, 2}
TrioTeamA    == {0, 1}
TrioSessions == {s0, s0b, s1, s2}
TrioUserOf   == (s0 :> 0) @@ (s0b :> 0) @@ (s1 :> 1) @@ (s2 :> 2)

=============================================================================
