------------------------------ MODULE MCFriends ------------------------------
(* Instances of Friends for TLC. *)
EXTENDS Friends, TLC

Symmetry == Permutations(Accounts) \union Permutations(Slots) \union Permutations(Ids)
=============================================================================
