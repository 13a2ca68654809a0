----------------------------- MODULE MCRealmTickets -----------------------------
(* Two players with three tickets between them, a battle, its revenge and  *)
(* one more, or three players with two tickets, so that the limits of a    *)
(* day are met by opponent and in number; across the end of a day and of   *)
(* every lifetime.                                                         *)
EXTENDS RealmTickets, TLC

CONSTANTS a, b, c, t1, t2, t3

TwoTimesADay == [time \in 0..MaxTime |-> time \div 2]
TimesAreDays == [time \in 0..MaxTime |-> time]

Tokens == Permutations(Players) \cup Permutations(Tickets)
=============================================================================
