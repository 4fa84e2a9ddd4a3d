----------------------------- MODULE Inventory ------------------------------
(***************************************************************************)
(* The inventories of the game server library: what a pickup, a drop, a    *)
(* harvest, an upgrade, a trap or a death does to the stacks of a player   *)
(* or bot and to the pickups on the ground (Inventory.cpp, Pickups.cpp     *)
(* and the hooks that call them).  All of it runs on the game thread.      *)
(*                                                                         *)
(* A stack is kept twice: its entry in ReplicatedEntries (count) and its   *)
(* UFortWorldItem in ItemInstances (inst).  Each hook changes one of the   *)
(* two and has to carry it over.  The engine keeps the instances in the    *)
(* order of the entries (HandleInventoryLocalUpdate), and SetToDirty       *)
(* carries what it is given into the entry: the hooks rely on both.  A guid *)
(* stands for a place in that order, 0 for a stack that is gone.           *)
(* Ammunition, levels, toasts and positions are left out.                  *)
(***************************************************************************)
EXTENDS Integers, FiniteSets, Sequences

Seqs == INSTANCE SequencesExt

CONSTANTS
  Controllers,    \* how many players and bots there are
  Defs,           \* item definitions
  Unarmed,        \* no CurrentWeapon
  MaxStack,       \* GetMaxStackSize, of each definition
  SlotSize,       \* GetNumberOfSlotsToTake
  Primary,        \* IsPrimaryQuickbar
  DropOnOverflow, \* bDropCurrentItemOnOverflow
  SingleStack,    \* those with the trait Item.Trait.SingleStack
  KeepsEmpty,     \* those with the trait Item.Trait.AllowEmptyFinalStack
  Droppable,      \* bCanBeDroppedFromInventory; the bots' drop behaviour
  Resources,      \* what is harvested, in the order in which an upgrade takes it
  Traps, Upgraded, \* what is placed, what an upgrade hands out
  QuickbarSize,   \* 5 in the code
  UpgradeCost,    \* per resource
  MaxPickup,      \* bound: a pickup or a harvest
  MaxAmount,      \* bound: what is in the world at a time
  MaxOdd          \* bound: what odd counts leave empty or make

Owners == 1 .. Controllers
Materials == {Resources[i] : i \in DOMAIN Resources}

ASSUME DefsAssumption ==
  /\ MaxStack \in [Defs -> Nat \ {0}] /\ SlotSize \in [Defs -> Nat]
  /\ {Primary, DropOnOverflow, SingleStack, KeepsEmpty, Droppable, Traps, Upgraded} \subseteq SUBSET Defs
\* Wood, metal and brick are three definitions, and none of them is in the bar of weapons.
ASSUME ResourcesAssumption ==
  /\ Resources \in Seq(Defs) /\ Materials \intersect Primary = {}
  /\ \A i, j \in DOMAIN Resources : Resources[i] = Resources[j] => i = j
\* GetUpgradeCost is never 0.
ASSUME BoundsAssumption ==
  /\ {Controllers, QuickbarSize, UpgradeCost, MaxPickup, MaxAmount, MaxOdd} \subseteq Nat
  /\ UpgradeCost > 0

VARIABLES
  items,    \* the stacks of each owner: [def, count, inst]
  room,     \* MaxElements of ReplicatedEntries, its largest length so far
  hand,     \* CurrentWeapon: its definition and where its stack is, or Unarmed
  ground,   \* the pickups [def, count], in the order they appeared
  ledger,   \* history: of each definition, what came in less what was used or lost
  made,     \* history: of each, what a drop or a removal made out of its count
  dangled   \* history: freed memory was read, and held something else

inventoryVars == <<items, room, hand, ground, ledger, made, dangled>>

\* What the hooks work on: the inventory of one owner, the ground and the books.
State(o) == [items |-> items[o], room |-> room[o], hand |-> hand[o], ground |-> ground,
             ledger |-> ledger]

Pickup(d, n) == [def |-> d, count |-> n]
Full(d, n) == [def |-> d, count |-> n, inst |-> n]

\* What f[1], ..., f[n] come to.
Sum(f, n) == LET sum[i \in 0 .. n] == IF i = 0 THEN 0 ELSE sum[i - 1] + f[i] IN sum[n]

\* The items of d in stacks or pickups; what stacks weigh; the slots they use in
\* the bar.
Amount(d, seq) == Sum([i \in DOMAIN seq |-> IF seq[i].def = d THEN seq[i].count ELSE 0], Len(seq))
Weigh(w, seq) == Sum([i \in DOMAIN seq |-> w[seq[i].def]], Len(seq))
SlotsOf == [d \in Defs |-> IF d \in Primary THEN SlotSize[d] ELSE 0]
Slots(seq) == Weigh(SlotsOf, seq)
-----------------------------------------------------------------------------
(* Inventory.cpp. *)

\* GiveItem: a new stack at the end.  The array grows by exactly one element.
Give(s, d, n) ==
  IF n = 0 THEN s
  ELSE [s EXCEPT !.items = Append(@, Full(d, n)),
                 !.room = IF @ > Len(s.items) THEN @ ELSE Len(s.items) + 1]

\* Mutant of Take: the hand still counts the stacks as before.
TakeUnderHand(s, k) == [s EXCEPT !.items = Seqs!RemoveAt(@, k)]

\* Remove: the stack goes, with its instance; the order of the others stays.
Take(s, k) ==
  [s EXCEPT !.items = Seqs!RemoveAt(@, k),
            !.hand = IF @ = Unarmed \/ @.at < k THEN @
                     ELSE [at |-> IF @.at = k THEN 0 ELSE @.at - 1, def |-> @.def]]

\* SpawnPickup.
Spawn(s, d, n) == [s EXCEPT !.ground = Append(@, Pickup(d, n))]

\* Both copies of stack k.
Set(s, k, n) == [s EXCEPT !.items = [@ EXCEPT ![k] = Full(s.items[k].def, n)]]

\* The first of some places, 0 if there is none.
First(places) == IF places = {} THEN 0 ELSE CHOOSE k \in places : \A j \in places : k <= j

\* The places of the stacks of d.
Of(s, d) == {k \in DOMAIN s.items : s.items[k].def = d}
-----------------------------------------------------------------------------
(* Pickups.cpp. *)

\* Mutant of ItemCount: the first stack is not counted.
ItemCountFromSecond(s, d) ==
  IF SlotSize[d] = 0 \/ d \notin Primary THEN 0
  ELSE Slots(IF s.items = <<>> THEN <<>> ELSE Tail(s.items))

\* ItemCount: the slots in use when d needs one.
ItemCount(s, d) == IF SlotSize[d] = 0 \/ d \notin Primary THEN 0 ELSE Slots(s.items)

\* The weapon in hand goes to the ground, the new item takes its place.
Swapped(s, k, d, n) ==
  Give(Take(Spawn(s, s.items[k].def, s.items[k].count), k), d, n)

\* GiveOrSwap.  With the bar full and nothing in hand the item is gone.
GiveOrSwap(s, used, d, n) ==
  LET k == s.hand.at
      new == Swapped(s, k, d, n)
  IN CASE used < QuickbarSize \/ d \notin Primary \intersect DropOnOverflow -> Give(s, d, n)
       [] OTHER ->
          IF s.hand = Unarmed THEN [s EXCEPT !.ledger = [@ EXCEPT ![d] = s.ledger[d] - n]]
          ELSE IF s.hand.def \notin Primary \/ k = 0 \/ s.items[k].count <= 0 THEN Spawn(s, d, n)
          ELSE IF n = 0 THEN new
          ELSE [new EXCEPT !.hand = [at |-> Len(new.items), def |-> d]]

\* GiveOrSwapStack: what is above a full stack.
GiveOrSwapStack(s, used, d, n) ==
  IF d \notin SingleStack /\ (used < QuickbarSize \/ d \in DropOnOverflow)
  THEN Give(s, d, n - MaxStack[d])
  ELSE Spawn(s, d, n - MaxStack[d])

\* Mutant of TopUp: the stack may end one above its size.
TopUpOver(s, used, k, n, seen) ==
  LET d == s.items[k].def
      sum == s.items[k].count + n
      full == GiveOrSwapStack(Set(s, k, MaxStack[d]), used, d, sum)
  IN IF sum <= MaxStack[d] + 1 THEN Set(s, k, sum)
     ELSE Set(full, k, IF full.room > s.room THEN seen ELSE MaxStack[d])

\* A stack with room takes the pickup.  The pointer to it was taken before
\* GiveOrSwapStack may have moved the array: what is then read is seen.
TopUp(s, used, k, n, seen) ==
  LET d == s.items[k].def
      sum == s.items[k].count + n
      full == GiveOrSwapStack(Set(s, k, MaxStack[d]), used, d, sum)
  IN IF sum <= MaxStack[d] THEN Set(s, k, sum)
     ELSE Set(full, k, IF full.room > s.room THEN seen ELSE MaxStack[d])

\* InternalPickupLogic, for a pawn that takes n of d.
PickedUp(s, d, n, seen) ==
  LET used == ItemCount(s, d)
      partial == First({k \in Of(s, d) : s.items[k].inst < MaxStack[d]})
      other == First({k \in Of(s, d) : s.items[k].count >= MaxStack[d]})
      over == GiveOrSwapStack(s, used, d, n)
  IN CASE MaxStack[d] = 1 -> GiveOrSwap(s, used, d, n)
       [] MaxStack[d] > 1 /\ partial # 0 -> TopUp(s, used, partial, n, seen)
       [] MaxStack[d] > 1 /\ partial = 0 /\ other # 0 /\ d \in SingleStack -> Spawn(s, d, n)
       [] OTHER -> IF n > MaxStack[d] THEN GiveOrSwap(over, used, d, MaxStack[d])
                   ELSE GiveOrSwap(s, used, d, n)
-----------------------------------------------------------------------------
InventoryInit ==
  /\ items = [o \in Owners |-> <<>>]
  /\ room = [o \in Owners |-> 0]
  /\ hand = [o \in Owners |-> Unarmed]
  /\ ground = <<>>
  /\ ledger = [d \in Defs |-> 0]
  /\ made = [d \in Defs |-> 0]
  /\ dangled = FALSE

\* n of d come in, or are used below zero.
Flow(d, n) == [x \in Defs |-> IF x = d THEN n ELSE 0]
NoFlow == [x \in Defs |-> 0]

\* s is what becomes of owner o, and of everything what flow says comes in.
EndsAs(o, s, flow) ==
  /\ items' = [items EXCEPT ![o] = s.items]
  /\ room' = [room EXCEPT ![o] = s.room]
  /\ hand' = [hand EXCEPT ![o] = s.hand]
  /\ ground' = s.ground
  /\ ledger' = [x \in Defs |-> s.ledger[x] + flow[x]]

Fits(n) == Seqs!SumFunction(ledger) + Seqs!SumFunction(made) + n <= MaxAmount

\* Stacks and pickups with nothing in them, and what came out of nothing.
Empties(o) == Cardinality({k \in DOMAIN items[o] : items[o][k].count = 0})
              + Cardinality({i \in DOMAIN ground : ground[i].count = 0})
FewOdd(o) == Empties(o) + Seqs!SumFunction(made) \in 0 .. MaxOdd - 1

\* n of d come out of nothing, at owner o.
Makes(o, d, n) ==
  /\ n > 0 => Fits(n) /\ FewOdd(o)
  /\ made' = [made EXCEPT ![d] = @ + n]

\* Loot, from a chest, a supply drop or a script.
Loot(d, n) ==
  /\ Fits(n)
  /\ ground' = Append(ground, Pickup(d, n))
  /\ ledger' = [ledger EXCEPT ![d] = @ + n]
  /\ UNCHANGED <<items, room, hand, made, dangled>>

\* What the freed memory holds, when the pickup moves the array.
Seen(o, d, n, seen) ==
  /\ \/ seen = MaxStack[d]
     \/ PickedUp(State(o), d, n, MaxStack[d]).items # PickedUp(State(o), d, n, seen).items
  /\ dangled' = (dangled \/ seen # MaxStack[d])

\* GivePickupTo; the engine then destroys the pickup.
PickUp(o, i, seen) ==
  LET p == ground[i]
      s == [State(o) EXCEPT !.ground = Seqs!RemoveAt(@, i)]
  IN /\ Seen(o, p.def, p.count, seen)
     /\ EndsAs(o, PickedUp(s, p.def, p.count, seen), NoFlow)
     /\ UNCHANGED made

\* GiveItemToInventoryOwner.
GiveItemToOwner(o, d, n, seen) ==
  /\ Fits(n)
  /\ Seen(o, d, n, seen)
  /\ EndsAs(o, PickedUp(State(o), d, n, seen), Flow(d, n))
  /\ UNCHANGED made

\* The starting items, the crown of a winner, the weapon of a vehicle's seat, what
\* a bot is equipped with: nobody looks at the bar.
GiveDirectly(o, d, n) ==
  /\ Fits(n)
  /\ EndsAs(o, Give(State(o), d, n), Flow(d, n))
  /\ UNCHANGED <<made, dangled>>

\* The engine arms the pawn or lowers its weapon.
Equip(o, k) ==
  /\ hand' = [hand EXCEPT ![o] = IF k = 0 THEN Unarmed ELSE [at |-> k, def |-> items[o][k].def]]
  /\ UNCHANGED <<items, room, ground, ledger, made, dangled>>

\* Stack k is left with n: without any it is removed.
Left(s, k, n) == IF n <= 0 THEN Take(s, k) ELSE Set(s, k, n)

\* Mutant of DropStack: the entry is left as it was.
DropStackHalf(o, k, n) ==
  LET e == items[o][k]
      s == Spawn(State(o), e.def, n)
  IN /\ n \in 1 .. e.inst
     /\ EndsAs(o, IF e.inst = n THEN Take(s, k) ELSE [s EXCEPT !.items[k].inst = @ - n], NoFlow)
     /\ UNCHANGED <<made, dangled>>

\* ServerAttemptInventoryDrop.  The count is the client's; more than there is, or
\* -1 (the whole entry, which has grown by one by then), makes an item.
DropStack(o, k, n) ==
  LET e == items[o][k]
      dropped == IF n < 0 THEN e.inst + 1 ELSE n
      left == IF n < 0 THEN 0 ELSE e.inst - n
  IN /\ n \in -1 .. e.inst + 1
     /\ n = 0 => FewOdd(o)
     /\ EndsAs(o, Left(Spawn(State(o), e.def, dropped), k, left), NoFlow)
     /\ Makes(o, e.def, IF dropped > e.inst THEN 1 ELSE 0)
     /\ UNCHANGED dangled

\* RemoveInventoryItem: n are used, or all (n < 0 or force).  The last stack of
\* some items stays when it is empty.
RemoveInventoryItem(o, k, n, force) ==
  LET e == items[o][k]
      left == e.inst - (IF n < 0 THEN 0 ELSE n)
      gone == n < 0 \/ left <= 0 \/ force
      stays == /\ e.def \in KeepsEmpty /\ n > 0
               /\ \A j \in DOMAIN items[o] \ {k} : items[o][j].def # e.def
      s == State(o)
  IN /\ n \in -1 .. e.inst
     /\ IF gone /\ ~stays THEN EndsAs(o, Take(s, k), Flow(e.def, -e.inst))
        ELSE EndsAs(o, Set(s, k, left), Flow(e.def, left - e.inst))
     /\ UNCHANGED <<made, dangled>>

\* RemoveItem, of the scripts: told to, it keeps an empty stack, and adds to one
\* when it is to remove -1.
RemoveItem(o, k, n, force, persist) ==
  LET e == items[o][k]
      s == State(o)
      gone == force \/ (~persist /\ (e.inst - n <= 0 \/ n < 0))
  IN /\ n \in -1 .. e.inst
     /\ ~gone /\ n = e.inst => FewOdd(o)
     /\ IF gone THEN EndsAs(o, Take(s, k), Flow(e.def, -e.inst))
        ELSE EndsAs(o, Set(s, k, e.inst - n), Flow(e.def, IF n < 0 THEN 0 ELSE -n))
     /\ Makes(o, e.def, IF ~gone /\ n < 0 THEN 1 ELSE 0)
     /\ UNCHANGED dangled

\* What both K2_RemoveItemFromPlayer return for stack k: what went.
Removed(s, k, n) ==
  IF n < 0 \/ s.items[k].count - n <= 0 THEN s.items[k].count ELSE n

\* K2_RemoveItemFromPlayer (the first stack) and ...ByGuid (any): up to n, or
\* all below zero.
K2_RemoveItemFromPlayer(o, k, n) ==
  LET s == State(o)
      left == IF n < 0 THEN 0 ELSE s.items[k].count - n
  IN /\ EndsAs(o, Left(s, k, left), Flow(s.items[k].def, -Removed(s, k, n)))
     /\ UNCHANGED <<made, dangled>>

\* Mutant of Harvested: what is above a full stack vanishes.
HarvestedNoSpill(s, k, d, n) ==
  Set(s, k, IF s.items[k].count + n > MaxStack[d] THEN MaxStack[d] ELSE s.items[k].count + n)

\* The stack k takes n, the ground the rest.
Harvested(s, k, d, n) ==
  LET sum == s.items[k].count + n
  IN IF sum > MaxStack[d] THEN Set(Spawn(s, d, sum - MaxStack[d]), k, MaxStack[d])
     ELSE Set(s, k, sum)

\* AttemptSpawnResources.
Harvest(o, d, n) ==
  LET s == State(o)
      k == First(Of(s, d))
  IN /\ Fits(n)
     /\ CASE k # 0 -> EndsAs(o, Harvested(s, k, d, n), Flow(d, n))
          [] k = 0 /\ n > MaxStack[d] ->
               EndsAs(o, Give(Spawn(s, d, n - MaxStack[d]), d, MaxStack[d]), Flow(d, n))
          [] OTHER -> EndsAs(o, Give(s, d, n), Flow(d, n))
     /\ UNCHANGED <<made, dangled>>

\* A trap is placed: one of the first stack is used, if there is one.
PlaceTrap(o, d) ==
  LET s == State(o)
      k == First(Of(s, d))
  IN /\ k # 0
     /\ EndsAs(o, Left(s, k, s.items[k].count - 1), Flow(d, IF s.items[k].count = 0 THEN 0 ELSE -1))
     /\ UNCHANGED <<made, dangled>>

\* DeductResource.
Deducted(s, d) ==
  LET k == First(Of(s, d))
  IN IF k = 0 THEN s ELSE Left(s, k, s.items[k].count - UpgradeCost)

\* Each resource in turn.
Paid(s) ==
  LET paid[i \in 0 .. Len(Resources)] ==
        IF i = 0 THEN s ELSE Deducted(paid[i - 1], Resources[i])
  IN paid[Len(Resources)]

\* The first stack of r, as the bench finds it, is enough.
CanPay(s, r) == First(Of(s, r)) # 0 /\ s.items[First(Of(s, r))].count >= UpgradeCost

\* GrantOutput of the upgrade bench, for a weapon in hand and who can pay (the
\* bench asks): the weapon and the resources go, the upgraded weapon comes.
Upgrade(o, d) ==
  LET s == State(o)
      k == hand[o].at
  IN /\ hand[o] # Unarmed /\ k # 0 /\ items[o][k].def \in Primary
     /\ \A r \in Materials : CanPay(s, r)
     /\ EndsAs(o, Give(Paid(Take(s, k)), d, 1), [x \in Defs |->
          (IF x = d THEN 1 ELSE 0) - (IF x = items[o][k].def THEN items[o][k].count ELSE 0)
            - (IF x \in Materials THEN UpgradeCost ELSE 0)])
     /\ UNCHANGED <<made, dangled>>

\* The stacks of what is in drops go to the ground, those of what is in goes
\* for good.
Emptied(s, drops, goes) ==
  LET n == Len(s.items)
      left[i \in 0 .. n] ==
        IF i = 0 THEN s
        ELSE LET k == n + 1 - i
                 e == s.items[k]
             IN IF e.def \in drops THEN Take(Spawn(left[i - 1], e.def, e.count), k)
                ELSE IF e.def \in goes THEN Take(left[i - 1], k) ELSE left[i - 1]
  IN left[n]

\* What owner o loses when the stacks of what is in goes are removed.
Lost(o, goes) == [d \in Defs |-> IF d \in goes THEN -Amount(d, items[o]) ELSE 0]

\* DropItemsOnPawnDestruction: a player dies.
DropItems(o) ==
  /\ items[o] # <<>>
  /\ EndsAs(o, Emptied(State(o), Droppable, {}), NoFlow)
  /\ UNCHANGED <<made, dangled>>

\* DropInventoryItems: a bot dies, and keeps nothing.
DropInventoryItems(o) ==
  /\ items[o] # <<>>
  /\ EndsAs(o, Emptied(State(o), Droppable, Defs \ Droppable), Lost(o, Defs \ Droppable))
  /\ UNCHANGED <<made, dangled>>

\* A player boards the aircraft without what it found during the warm-up.
BoardAircraft(o) ==
  /\ items[o] # <<>>
  /\ EndsAs(o, Emptied(State(o), {}, Droppable), Lost(o, Droppable))
  /\ UNCHANGED <<made, dangled>>

Counts(d) == 0 .. MaxStack[d]

\* How many of d come at once: what is not stacked comes one by one.
Amounts(d) == IF MaxStack[d] = 1 THEN {1} ELSE 1 .. MaxPickup

\* Once freed memory has been read as something else, nothing is claimed.
InventoryNext ==
  ~dangled /\
  \/ \E d \in Defs : \E n \in Amounts(d) : Loot(d, n)
  \/ \E o \in Owners :
       \/ \E i \in DOMAIN ground : \E seen \in Counts(ground[i].def) : PickUp(o, i, seen)
       \/ \E d \in Defs : \E n \in Amounts(d) : \E seen \in Counts(d) : GiveItemToOwner(o, d, n, seen)
       \/ \E d \in Defs : \E n \in 1 .. MaxStack[d] : GiveDirectly(o, d, n)
       \/ \E k \in DOMAIN items[o] \union {0} : Equip(o, k)
       \/ \E k \in DOMAIN items[o] : \E n \in -1 .. items[o][k].count + 1 :
            \/ DropStack(o, k, n)
            \/ \E force \in BOOLEAN : RemoveInventoryItem(o, k, n, force)
            \/ \E force, persist \in BOOLEAN : RemoveItem(o, k, n, force, persist)
            \/ K2_RemoveItemFromPlayer(o, k, n)
       \/ \E d \in Materials : \E n \in Amounts(d) : Harvest(o, d, n)
       \/ \E d \in Traps : PlaceTrap(o, d)
       \/ \E d \in Upgraded : Upgrade(o, d)
       \/ DropItems(o) \/ DropInventoryItems(o) \/ BoardAircraft(o)

InventorySpec == InventoryInit /\ [][InventoryNext]_inventoryVars
-----------------------------------------------------------------------------
Stack == [def : Defs, count : Nat, inst : Nat]
Hand == [at : Nat, def : Defs]

InventoryTypeOK ==
  /\ items \in [Owners -> Seq(Stack)]
  /\ room \in [Owners -> Nat]
  /\ hand \in [Owners -> Hand \union {Unarmed}]
  /\ ground \in Seq([def : Defs, count : Nat])
  /\ ledger \in [Defs -> Int]
  /\ made \in [Defs -> Nat]
  /\ dangled \in BOOLEAN
  /\ \A o \in Owners :
       /\ Len(items[o]) <= room[o]
       /\ hand[o] # Unarmed /\ hand[o].at # 0 =>
            hand[o].at <= Len(items[o]) /\ hand[o].def = items[o][hand[o].at].def

\* What the owners hold of d, and what lies on the ground.
Held(d) == Sum([o \in Owners |-> Amount(d, items[o])], Controllers)
Lying(d) == Amount(d, ground)

\* However an item goes from stack to stack, through full bars, swaps, spills
\* and deaths, none is lost, and none is made but by a count nobody compares with
\* the stack (PlayerController.cpp:288-309, InventoryManagementLibrary.cpp:29-36):
\* what is held and lies around is what came in and was so made, less what was
\* used, and what a full bar with nothing in hand refuses (Pickups.cpp:73).
Conserved ==
  ~dangled => \A d \in Defs : Held(d) + Lying(d) = ledger[d] + made[d]

\* Each hook changes one of the two copies of a stack; they never differ.
CopiesAgree ==
  ~dangled => \A o \in Owners : \A k \in DOMAIN items[o] : items[o][k].count = items[o][k].inst

\* What the proofs carry from step to step.
InventoryInv ==
  /\ InventoryTypeOK /\ Conserved
  /\ \A o \in Owners : \A k \in DOMAIN items[o] : items[o][k].count = items[o][k].inst

\* No stack is too large but by what was made of it, and none is empty but of an
\* item that may be or where somebody asked for it (MaxOdd).  It holds for
\* pickups of one more than a stack: larger ones are split in two only
\* (Pickups.cpp:122).
StacksBounded ==
  ~dangled => \A o \in Owners : \A k \in DOMAIN items[o] :
    LET e == items[o][k]
    IN /\ e.count <= MaxStack[e.def] + made[e.def]
       /\ e.count > 0 \/ (e.count = 0 /\ (e.def \in KeepsEmpty \/ MaxOdd > 0))

\* The bar has five places.  What takes an inventory beyond them is a stack that
\* spilled (Pickups.cpp:120) or what was given without a look at the bar
\* (Inventory.cpp:7), never an item that is picked up, swapped or upgraded.
Used(o) == Slots(items[o])
StacksOf == [d \in Defs |-> IF MaxStack[d] > 1 THEN 1 ELSE 0]
Stacked(o) == Weigh(StacksOf, items[o])
Gift(o) == \E d \in Primary : \E n \in 1 .. MaxStack[d] : GiveDirectly(o, d, n)
BarOverflowsBySpillOrGift ==
  [][\A o \in Owners : Used(o)' > QuickbarSize /\ Used(o)' > Used(o) =>
       Stacked(o)' > Stacked(o) \/ Gift(o)]_inventoryVars
=============================================================================
