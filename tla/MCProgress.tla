----------------------------- MODULE MCProgress -----------------------------
(* Instances of Progress for TLC. *)
EXTENDS Progress, TLC

Symmetry == Permutations(Requests)

\* The first level takes one, the others two; the first gives stars.
Rising == <<0, 1, 3, 5>>
OnlyFirst == {1}
\* A game that takes more than a level.
OneGame == {[xp |-> 3, kills |-> 1, place |-> 2]}
\* A level, and the pass with one.
TwoOffers == {[price |-> 150, levels |-> 1, pass |-> FALSE], [price |-> 150, levels |-> 1, pass |-> TRUE]}
\* V-Bucks, and a cosmetic, for stars.
StarExchanges == {[cost |-> 5, mtx |-> 100], [cost |-> 3, mtx |-> 0]}
=============================================================================
