---------------------------- MODULE MCMatchmaker ----------------------------
(* Small instances of Matchmaker for TLC: see the cfg files. *)
EXTENDS Matchmaker

\* Players are interchangeable, and so are game servers: every property of
\* the safety runs is stated for all of them alike.
Symmetry == Permutations(Players) \union Permutations(GameServers)
=============================================================================
