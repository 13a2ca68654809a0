------------------------------ MODULE MCLiveMatch ------------------------------
(* A ranked match of two users, one with two sessions, and a third user    *)
(* who was not matched.                                                    *)
EXTENDS LiveMatch, TLC

CONSTANTS a, b, c, a1, a2, b1, c1

Owners == a1 :> a @@ a2 :> a @@ b1 :> b @@ c1 :> c
=============================================================================
