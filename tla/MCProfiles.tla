----------------------------- MODULE MCProfiles -----------------------------
(* Instances of Profiles for TLC. *)
EXTENDS Profiles, TLC

CONSTANTS hat, axe

Hat    == [kind |-> "item", price |-> 2, off |-> 0, floor |-> 0,
           items |-> {hat}, pass |-> FALSE, levels |-> 0]
Bundle == [kind |-> "bundle", price |-> 3, off |-> 2, floor |-> 2,
           items |-> {hat, axe}, pass |-> FALSE, levels |-> 0]
Pass   == [kind |-> "pass", price |-> 1, off |-> 0, floor |-> 0,
           items |-> {axe}, pass |-> TRUE, levels |-> 1]
Level  == [kind |-> "pass", price |-> 1, off |-> 0, floor |-> 0,
           items |-> {}, pass |-> FALSE, levels |-> 1]

AllOffers     == {Hat, Bundle, Pass, Level}

Symmetry == Permutations(Requests)
=============================================================================
