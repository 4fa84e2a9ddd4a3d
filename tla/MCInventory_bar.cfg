\* A weapon, a consumable that is placed like a trap, and a resource in a bar of one place.
SPECIFICATION InventorySpec
CONSTANTS
  gun = gun  potion = potion  wood = wood
  Controllers = 1
  Defs = {gun, potion, wood}
  Unarmed = Unarmed
  MaxStack <- StackSizes
  SlotSize <- OneEach
  Primary = {gun, potion}
  DropOnOverflow = {gun, potion}
  SingleStack = {wood}
  KeepsEmpty = {potion}
  Droppable = {gun, wood}
  Resources <- Wood
  Traps = {potion}
  Upgraded = {gun}
  QuickbarSize = 1
  UpgradeCost = 1
  MaxPickup = 3
  MaxOdd = 1
  MaxAmount = 3
INVARIANTS  CopiesAgree  
PROPERTY BarOverflowsBySpillOrGift
\* Nothing may be left to pick up.
CHECK_DEADLOCK FALSE
