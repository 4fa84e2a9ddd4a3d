---------------------------- MODULE MCInventory -----------------------------
(* Instances of Inventory for TLC. *)
EXTENDS Inventory, TLC

CONSTANTS gun, potion, wood

OneEach    == [d \in Defs |-> 1]
StackSizes == [d \in Defs |-> IF d = gun THEN 1 ELSE 2]
Wood       == <<wood>>
=============================================================================
