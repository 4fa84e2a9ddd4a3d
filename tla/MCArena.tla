------------------------------- MODULE MCArena -------------------------------
(* Instances of Arena for TLC. *)
EXTENDS Arena, TLC

\* A client of the current season, and an older one.
ClientPages == {1..s : s \in Seasons}

Symmetry == Permutations(Requests) \union Permutations(Ids)

\* Two divisions, of which one game may reach both.
DivisionPoints == [second |-> 2, third |-> 3]
TwoDivisions == DOMAIN DivisionPoints
\* A kill and a place, a win that reaches both divisions, and an unranked game.
ShortGames == {[kills |-> 1, place |-> 2, starting |-> 2, ranked |-> TRUE],
               [kills |-> 1, place |-> 1, starting |-> 2, ranked |-> TRUE],
               [kills |-> 1, place |-> 1, starting |-> 2, ranked |-> FALSE]}
PlacementTable == {<<1, 2>>, <<2, 1>>}
=============================================================================
