------------------------------ MODULE MCParty -------------------------------
(* Instances of Party for TLC. *)
EXTENDS Party, TLC

CONSTANTS u1, u2, u3, a, b, c

\* One pair of users who contact each other, in both directions.
BothWays == {<<u1, u2>>, <<u2, u1>>}

SymmetricIds == Permutations(PartyIds)
=============================================================================
