---------------------------- MODULE MCRewardCodes ----------------------------
(* Instances of RewardCodes for TLC. *)
EXTENDS RewardCodes, TLC

CONSTANT Customer  \* the account that webhooks and administrators grant to

\* The webhook can save what a code has saved; hats come from codes only, and are
\* all that the other account may get.
CopiesOf(a, k, r) ==
  CASE r # FullLocker -> IF k \in Codes THEN 1 ELSE 0
    [] r = FullLocker /\ a # Customer -> 0
    [] r = FullLocker /\ a = Customer -> IF k = SellAuth THEN 2 ELSE 1
Copies == [kind \in Kinds |-> CopiesOf(kind[1], kind[2], kind[3])]

Symmetry == Permutations(Slots)
=============================================================================
