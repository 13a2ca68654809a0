----------------------------- MODULE MatchOutcome -----------------------------
(***************************************************************************)
(* What a team match promises its players, without sessions, messages or   *)
(* time: it stays open until it is cancelled or decided, never both; once  *)
(* decided its terms are fixed; the terms are paid to all players in one   *)
(* step, at most once; a cancelled match pays nobody                       *)
(* (docs/2v2-architecture.md sections 5.0, 5.2, 5.3 and 9.3).              *)
(***************************************************************************)
CONSTANTS Slots, TeamA, NoTerms

VARIABLES verdict, terms, paid
outcomeVars == <<verdict, terms, paid>>

Outcome == [status : {"victory", "defeat", "draw"}, abandoned : BOOLEAN]

(* Whoever gave up is defeated; the others of a team share one result, the *)
(* opposite of the other team's.                                           *)
Agreed(result) == [a |-> result,
                   b |-> CASE result = "victory" -> "defeat"
                           [] result = "defeat"  -> "victory"
                           [] OTHER              -> "draw"]

Terms ==
  {t \in [Slots -> Outcome] :
     \E result \in {"victory", "defeat", "draw"} :
       \A i \in Slots :
         t[i].status = IF t[i].abandoned THEN "defeat"
                       ELSE IF i \in TeamA THEN Agreed(result).a
                       ELSE Agreed(result).b}

Init == verdict = "open" /\ terms = NoTerms /\ paid = NoTerms

Cancel ==
  /\ verdict = "open" /\ verdict' = "cancelled"
  /\ UNCHANGED <<terms, paid>>

Decide ==
  /\ verdict = "open" /\ verdict' = "decided"
  /\ terms' \in Terms
  /\ paid' \in {NoTerms, terms'}

Pay ==
  /\ verdict = "decided" /\ paid = NoTerms
  /\ paid' = terms
  /\ UNCHANGED <<verdict, terms>>

Next == Cancel \/ Decide \/ Pay

Spec == Init /\ [][Next]_outcomeVars
=============================================================================
