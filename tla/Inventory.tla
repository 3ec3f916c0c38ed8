------------------------------ MODULE Inventory ------------------------------
(***************************************************************************)
(* Where items are: worn by players, in bags, which are items themselves,  *)
(* or on tiles; how they are moved, merged, split and exchanged; the       *)
(* weights that bags and players remember of what they hold; and the bags  *)
(* players have open.                                                      *)
(*                                                                         *)
(* Items that stack are of one kind.  The order of the items in a bag or   *)
(* on a tile is left out: where the code takes the first of several, any   *)
(* of them may be it.                                                      *)
(***************************************************************************)
EXTENDS Integers, Sequences, FiniteSets, FiniteSetsExt

CONSTANTS
    Carriers,           \* players
    Bags, Rings,        \* items that hold others, and that do not
    Stacks,             \* addresses of items that stack
    Nothing,            \* a null pointer
    Street,             \* the tiles, in a line
    Slots,              \* of the inventory
    Wearable,           \* the slots an item may be worn in
    Weight,             \* of one of each item
    BagSize, FullStack, Capacity,   \* FullStack is 100
    Windows,
    MaxCoins            \* bound: how many there are in the stacks

Items == Bags \cup Rings \cup Stacks
Tiles == {Street[x] : x \in DOMAIN Street}

Places == Carriers \cup Bags \cup Tiles

\* An item is of one kind, and neither a player nor a tile.
ASSUME InventoryAssumption ==
    /\ Nothing \notin Items \cup Carriers \cup Tiles
    /\ Bags \cap (Rings \cup Stacks) = {} /\ Rings \cap Stacks = {}
    /\ Items \cap (Carriers \cup Tiles) = {} /\ Carriers \cap Tiles = {}
    /\ IsFiniteSet(Items) /\ Street \in Seq(Tiles) /\ Street # <<>>
    /\ Wearable \in [Items -> SUBSET Slots] /\ Slots \subseteq Nat \ {0}
    /\ Weight \in [Items -> Nat \ {0}]
    /\ \A i, j \in Stacks : Weight[i] = Weight[j]
    /\ {BagSize, FullStack, Capacity, MaxCoins} \subseteq Nat \ {0}
    /\ Windows \subseteq Nat
    /\ Cardinality(Stacks) >= MaxCoins      \* no split wants for an address

VARIABLES
    parent,             \* of each item: a player, a bag, a tile, or Nothing
    slot,               \* where a player wears it, 0 for elsewhere
    count,
    totalWeight,        \* Container::totalWeight
    inventoryWeight,    \* Player::inventoryWeight
    openContainers,     \* of each player, the bag in each window
    position,           \* of each player
    made                \* history: the weight of all that came into being

inventoryVars == <<parent, slot, count, totalWeight, inventoryWeight, openContainers,
                   position, made>>

\* what a handler works on, step by step
Store == [parent |-> parent, slot |-> slot, count |-> count, load |-> totalWeight,
          carried |-> inventoryWeight, open |-> openContainers]

Become(s) ==
    /\ parent' = s.parent /\ slot' = s.slot /\ count' = s.count
    /\ totalWeight' = s.load /\ inventoryWeight' = s.carried
    /\ openContainers' = s.open

-----------------------------------------------------------------------------
Contents(s, x) == {i \in Items : s.parent[i] = x}

\* getParent, again and again: the bags that i is in, at any depth, are in each
\* set that has the bag of i and the bags of its members
BagsAround(s, i) ==
    {b \in Bags : \A S \in SUBSET Bags :
        (\A j \in S \cup {i} : s.parent[j] \in Bags => s.parent[j] \in S) => b \in S}

Around(s, i) == {s.parent[j] : j \in BagsAround(s, i) \cup {i}}

\* the player or tile that a place is, or is in: getTopParent and getTile
Root(s, x) == IF x \in Bags THEN CHOOSE r \in Around(s, x) : r \notin Bags ELSE x

Beside(t, u) ==
    \E i, j \in DOMAIN Street : Street[i] = t /\ Street[j] = u /\ i - j \in -1..1

TileOf(x) == IF x \in Carriers THEN position[x] ELSE x

InRange(p, x) == Beside(position[p], TileOf(x))

WeightOf(s, i) ==
    IF i \in Bags THEN Weight[i] + s.load[i] ELSE Weight[i] * s.count[i]

UpdateItemWeight(s, b, diff) ==
    [s EXCEPT !.load = [c \in Bags |-> IF c = b \/ c \in Around(s, b)
                                       THEN s.load[c] + diff ELSE s.load[c]]]

Summed(f, S) == MapThenSumSet(LAMBDA i : f[i], S)

WeightIn(s, x) == Summed([i \in Contents(s, x) |-> WeightOf(s, i)], Contents(s, x))

UpdateInventoryWeight(s, p) == [s EXCEPT !.carried[p] = WeightIn(s, p)]

HasCapacity(s, p, i, n) ==
    \/ Root(s, s.parent[i]) = p
    \/ (IF i \in Stacks THEN Weight[i] * n ELSE WeightOf(s, i)) <= Capacity - s.carried[p]

-----------------------------------------------------------------------------
(***************************************************************************)
(* The questions a handler asks of a place.  A destination d is a place,   *)
(* the slot if it is a player, and the item that lies there, if one does:  *)
(* toCylinder, index and toItem.                                           *)
(***************************************************************************)
Occupant(s, p, k) ==
    LET worn == {i \in Items : s.parent[i] = p /\ s.slot[i] = k}
    IN  IF worn = {} THEN Nothing ELSE CHOOSE i \in worn : TRUE

\* mutant: a bag does not ask whom it is carried by
BagQueryAddHere(s, b, anywhere, i, n) ==
    IF \/ i = b \/ i \in Around(s, b)
       \/ anywhere /\ Cardinality(Contents(s, b)) >= BagSize
    THEN "no" ELSE "yes"

BagQueryAdd(s, b, anywhere, i, n) ==
    IF \/ i = b \/ i \in Around(s, b)
       \/ anywhere /\ Cardinality(Contents(s, b)) >= BagSize
       \/ Root(s, b) \in Carriers /\ ~HasCapacity(s, Root(s, b), i, n)
    THEN "no" ELSE "yes"

PlayerQueryAdd(s, p, k, i, n) ==
    IF k \notin Wearable[i] THEN "no"
    ELSE IF /\ Occupant(s, p, k) # Nothing
            /\ ~({i, Occupant(s, p, k)} \subseteq Stacks)
    THEN "exchange"
    ELSE IF HasCapacity(s, p, i, n) THEN "yes" ELSE "no"

\* Tile::queryAdd has nothing against these items
QueryAdd(s, x, k, anywhere, i, n) ==
    IF x \in Tiles THEN "yes"
    ELSE IF x \in Bags THEN BagQueryAdd(s, x, anywhere, i, n)
    ELSE PlayerQueryAdd(s, x, k, i, n)

\* the stacks in x that i could be put on
Mates(s, x, i) ==
    {j \in (Contents(s, x) \cap Stacks) \ {i} : i \in Stacks /\ s.count[j] < FullStack}

Remainder(s, x, i, j) ==
    IF j \in Mates(s, x, i) /\ QueryAdd(s, x, 0, FALSE, i, FullStack - s.count[j]) = "yes"
    THEN FullStack - s.count[j] ELSE 0

FreeSlots(s, b) == LET free == BagSize - Cardinality(Contents(s, b))
                   IN  IF free < 0 THEN 0 ELSE free

BagQueryMaxCount(s, d, i) ==
    FreeSlots(s, d.to) * (IF i \in Stacks THEN FullStack ELSE 1)
    + Remainder(s, d.to, i, d.at)

PlayerQueryMaxCount(s, d, i) ==
    IF d.at = Nothing THEN IF i \in Stacks THEN FullStack ELSE 1
    ELSE IF d.at \in Mates(s, d.to, i) THEN FullStack - s.count[d.at] ELSE 0

QueryMaxCount(s, d, i, n) ==
    IF d.to \in Tiles THEN n
    ELSE IF d.to \in Bags THEN BagQueryMaxCount(s, d, i)
    ELSE PlayerQueryMaxCount(s, d, i)

\* the same of a bag that gets j for something else, at no place in particular
RoomForExchange(s, x, j) ==
    x \in Bags => \/ FreeSlots(s, x) > 0
                  \/ \E m \in Items : Remainder(s, x, j, m) > 0

\* queryDestination with no index, with the index of at, and of a slot
Anywhere(s, i, b) ==
    IF s.parent[i] # b /\ Mates(s, b, i) # {}
    THEN {[to |-> b, slot |-> 0, at |-> j] : j \in Mates(s, b, i)}
    ELSE {[to |-> b, slot |-> 0, at |-> Nothing]}

BagQueryDestination(s, i, b, at) ==
    IF s.parent[i] # b /\ Mates(s, b, i) # {} THEN Anywhere(s, i, b)
    ELSE IF at \in Bags THEN Anywhere(s, i, at)
    ELSE {[to |-> b, slot |-> 0, at |-> at]}

PlayerQueryDestination(s, i, p, k) ==
    IF Occupant(s, p, k) \in Bags THEN Anywhere(s, i, Occupant(s, p, k))
    ELSE {[to |-> p, slot |-> k, at |-> Occupant(s, p, k)]}

QueryDestination(s, i, x, k, at) ==
    IF x \in Tiles THEN {[to |-> x, slot |-> 0, at |-> at]}
    ELSE IF x \in Bags THEN BagQueryDestination(s, i, x, at)
    ELSE PlayerQueryDestination(s, i, x, k)

-----------------------------------------------------------------------------
(***************************************************************************)
(* What a handler does.                                                    *)
(***************************************************************************)
\* removeThing: n of i leave x
RemoveThing(s, x, i, n) ==
    LET w == IF i \in Stacks THEN Weight[i] * n ELSE WeightOf(s, i)
        t == IF x \in Bags THEN UpdateItemWeight(s, x, -w) ELSE s
    IN  IF n < s.count[i] THEN [t EXCEPT !.count[i] = @ - n]
        ELSE [t EXCEPT !.count[i] = 0, !.parent[i] = Nothing, !.slot[i] = 0]

\* addThing and updateThing
AddThing(s, x, k, i, n) ==
    LET t == [s EXCEPT !.count[i] = n, !.parent[i] = x, !.slot[i] = k]
    IN  IF x \in Bags THEN UpdateItemWeight(t, x, WeightOf(t, i)) ELSE t

UpdateThing(s, x, j, n) ==
    LET t == [s EXCEPT !.count[j] = @ + n]
    IN  IF x \in Bags THEN UpdateItemWeight(t, x, Weight[j] * n) ELSE t

AutoCloseContainers(s, p, b) ==
    [s EXCEPT !.open[p] =
        [w \in Windows |->
           IF @[w] # Nothing /\ (@[w] = b \/ Around(s, @[w]) \cap {b, Nothing} # {})
           THEN Nothing ELSE @[w]]]

\* Player::postRemoveNotification of p: what of the bag that left stays open
StaysOpen(s, p, b) ==
    LET r == Root(s, b)
    IN  r # Nothing /\ InRange(p, r) /\ (r = p \/ r \in Tiles)

\* who carries the place is told, or who stands around it
PostRemoveNotification(s, x, i) ==
    LET r == Root(s, x)
        t == IF r \in Carriers THEN UpdateInventoryWeight(s, r) ELSE s
        told == {p \in IF r \in Carriers THEN {r} ELSE Carriers :
                    i \in Bags /\ ~StaysOpen(t, p, i)}
    IN  [t EXCEPT !.open = [p \in Carriers |->
            IF p \in told THEN AutoCloseContainers(t, p, i).open[p] ELSE t.open[p]]]

PostAddNotification(s, x) ==
    IF Root(s, x) \in Carriers THEN UpdateInventoryWeight(s, Root(s, x)) ELSE s

\* mutant: the one who gave the item away is not told
ExchangeUntold(s, from, i, d) ==
    AddThing(RemoveThing(s, d.to, d.at, s.count[d.at]), from, 0, d.at, s.count[d.at])

\* what lies at the destination goes to the place i is to leave
Exchange(s, from, i, d) ==
    LET n == s.count[d.at]
        t == AddThing(RemoveThing(s, d.to, d.at, n), from, 0, d.at, n)
    IN  PostAddNotification(PostRemoveNotification(t, d.to, d.at), from)

\* m of i from its place to d, some of them onto the stack there; moved is the
\* item that goes, i itself or what is split off
Carry(s, i, m, d, onto, moved) ==
    LET out == RemoveThing(s, s.parent[i], i, m)
        merged == IF onto > 0 THEN UpdateThing(out, d.to, d.at, onto) ELSE out
    IN  IF m > onto THEN AddThing(merged, d.to, d.slot, moved, m - onto) ELSE merged

\* n of i from its place to d, where there is room for most; new is an address
\* for what is split off
Transfer(s, i, n, d, most, new) ==
    LET m == IF most < n THEN most ELSE n
        onto == IF d.at \in Mates(s, d.to, i)
                THEN IF FullStack - s.count[d.at] < m THEN FullStack - s.count[d.at] ELSE m
                ELSE 0
        in == Carry(s, i, m, d, onto, IF m = s.count[i] THEN i ELSE new)
    IN  PostAddNotification(PostRemoveNotification(in, s.parent[i], i), d.to)

\* Game::internalMoveItem, once the destination is known
InternalMoveItem(s, i, n, d, new) ==
    LET from == s.parent[i]
        answer == QueryAdd(s, d.to, d.slot, d.at = Nothing, i, n)
        exchanges == /\ answer = "exchange"
                     /\ QueryAdd(s, from, s.slot[i], FALSE, d.at, s.count[d.at]) = "yes"
                     /\ RoomForExchange(s, from, d.at)
        t == IF exchanges THEN Exchange(s, from, i, d) ELSE s
        e == IF exchanges THEN [d EXCEPT !.at = Nothing] ELSE d
        most == QueryMaxCount(t, e, i, n)
    IN  IF \/ d.at = i \/ most = 0
           \/ answer # "yes" /\ ~exchanges
           \/ exchanges /\ QueryAdd(t, d.to, d.slot, FALSE, i, n) # "yes"
        THEN t ELSE Transfer(t, i, n, e, most, new)

-----------------------------------------------------------------------------
\* some bags and rings lie on the street
InventoryInit(lying) ==
    /\ parent = [i \in Items |-> IF i \in lying THEN Street[1] ELSE Nothing]
    /\ slot = [i \in Items |-> 0]
    /\ count = [i \in Items |-> IF i \in lying THEN 1 ELSE 0]
    /\ totalWeight = [b \in Bags |-> 0]
    /\ inventoryWeight = [p \in Carriers |-> 0]
    /\ openContainers = [p \in Carriers |-> [w \in Windows |-> Nothing]]
    /\ position = [p \in Carriers |-> Street[1]]
    /\ made = Summed([i \in Items |-> Weight[i] * count[i]], Items)

IsOpen(p, b) == \E w \in Windows : openContainers[p][w] = b

\* what the client of p can name: its own slots, bags it has open, tiles
Named(p, x) == x = p \/ x \in Tiles \/ (x \in Bags /\ IsOpen(p, x))

FreeAddresses == {g \in Stacks : parent[g] = Nothing}

\* what can lie at the place the client points at, as far as it matters to i:
\* on a tile it is the item on top
PointedAt(s, i, x) ==
    IF x \in Carriers THEN {Nothing}
    ELSE IF x \in Bags THEN Mates(s, x, i) \cup {Nothing} \cup (Contents(s, x) \cap Bags)
    ELSE Mates(s, x, i) \cup (IF Mates(s, x, i) # {} /\ Contents(s, x) = Mates(s, x, i)
                              THEN {} ELSE {Nothing})

\* Game::playerMoveItem; an open bag is also named as what it lies in, to move
\* something up
PlayerMoveItem(p) ==
    LET s == Store
    IN  /\ \E i \in {j \in Items : /\ parent[j] # Nothing /\ Named(p, parent[j])
                                   /\ InRange(p, Root(s, parent[j]))},
              x \in {p} \cup Bags \cup Tiles :
             /\ Named(p, x) \/ \E b \in Bags : parent[b] = x /\ IsOpen(p, b)
             /\ \E k \in (IF x = p THEN Slots ELSE {0}),
                   at \in (IF Named(p, x) THEN PointedAt(s, i, x) ELSE {Nothing}),
                   n \in 1..count[i] :
                  \E d \in QueryDestination(s, i, x, k, at),
                    new \in (IF FreeAddresses = {} THEN {Nothing} ELSE FreeAddresses) :
                      Become(InternalMoveItem(s, i, n, d, new))
        /\ UNCHANGED <<position, made>>

\* Actions::internalUseItem of a bag: opens it, or closes it where it is open
UseContainer(p, w) ==
    /\ \E b \in Bags :
         /\ parent[b] # Nothing /\ Named(p, parent[b])
         /\ InRange(p, Root(Store, parent[b]))
         /\ LET opened == {v \in Windows : openContainers[p][v] = b}
            IN  openContainers' =
                  [openContainers EXCEPT ![p] =
                     IF opened = {} THEN [@ EXCEPT ![w] = b]
                     ELSE [@ EXCEPT ![CHOOSE v \in opened : \A u \in opened : v <= u] = Nothing]]
    /\ UNCHANGED <<parent, slot, count, totalWeight, inventoryWeight, position, made>>

\* Game::playerMoveUpContainer; above the last bag is the list of the items on
\* the tile, which is none of these bags
PlayerMoveUpContainer(p, w) ==
    /\ openContainers[p][w] # Nothing
    /\ openContainers' = [openContainers EXCEPT ![p][w] =
                            IF parent[@] \in Bags THEN parent[@] ELSE Nothing]
    /\ UNCHANGED <<parent, slot, count, totalWeight, inventoryWeight, position, made>>

PlayerCloseContainer(p, w) ==
    /\ openContainers[p][w] # Nothing
    /\ openContainers' = [openContainers EXCEPT ![p][w] = Nothing]
    /\ UNCHANGED <<parent, slot, count, totalWeight, inventoryWeight, position, made>>

\* a step; Player::postAddNotification of the player itself
Step(p) ==
    /\ \E t \in Tiles \ {position[p]} :
         /\ InRange(p, t)
         /\ position' = [position EXCEPT ![p] = t]
         /\ LET far == {b \in Bags : LET r == Root(Store, b)
                                    IN  r # p /\ IsOpen(p, b) /\ ~Beside(t, TileOf(r))}
            IN  openContainers' =
                  [openContainers EXCEPT ![p] =
                     [w \in Windows |->
                        IF @[w] # Nothing /\ (@[w] \in far \/ Around(Store, @[w]) \cap far # {})
                        THEN Nothing ELSE @[w]]]
    /\ UNCHANGED <<parent, slot, count, totalWeight, inventoryWeight, made>>

\* what is in a bag is freed with it
Freed(s) ==
    LET lost == {j \in Items : s.parent[j] = Nothing \/ Nothing \in Around(s, j)}
    IN  [s EXCEPT !.parent = [j \in Items |-> IF j \in lost THEN Nothing ELSE @[j]],
                  !.count = [j \in Items |-> IF j \in lost THEN 0 ELSE @[j]],
                  !.load = [b \in Bags |-> IF b \in lost THEN 0 ELSE @[b]]]

\* Game::internalRemoveItem: decay, use, scripts
InternalRemoveItem(i) ==
    /\ parent[i] # Nothing
    /\ \E n \in 1..count[i] :
         /\ Become(Freed(PostRemoveNotification(RemoveThing(Store, parent[i], i, n),
                                                parent[i], i)))
         /\ made' = made - IF i \in Stacks THEN Weight[i] * n ELSE WeightOf(Store, i)
    /\ UNCHANGED position

\* a new stack on the ground: internalAddItem of loot
AddLoot(g) ==
    /\ parent[g] = Nothing
    /\ Summed(count, Stacks) < MaxCoins
    /\ \E t \in Tiles : Become(PostAddNotification(AddThing(Store, t, 0, g, 1), t))
    /\ made' = made + Weight[g]
    /\ UNCHANGED position

\* a player, with some of the windows
PlayerHandles(p, windows) ==
    \/ PlayerMoveItem(p)
    \/ \E w \in windows :
         UseContainer(p, w) \/ PlayerMoveUpContainer(p, w) \/ PlayerCloseContainer(p, w)

InventoryNext ==
    \/ \E p \in Carriers : PlayerHandles(p, Windows) \/ Step(p)
    \/ \E i \in Items : InternalRemoveItem(i)
    \/ \E g \in Stacks : AddLoot(g)

InventorySpec ==
    (\E lying \in SUBSET (Bags \cup Rings) : InventoryInit(lying))
    /\ [][InventoryNext]_inventoryVars

-----------------------------------------------------------------------------
(***************************************************************************)
(* Properties.                                                             *)
(***************************************************************************)

\* Items form trees below players and tiles: no bag is in itself, at any
\* depth, and a slot holds one item (queryAdd).
ItemsInTrees ==
    /\ \A b \in Bags : b \notin Around(Store, b)
    /\ \A p \in Carriers, k \in Slots :
         Cardinality({i \in Items : parent[i] = p /\ slot[i] = k}) <= 1
    /\ \A i \in Items : parent[i] \in Carriers <=> slot[i] # 0

\* The weight a bag or a player remembers is the weight of what they hold,
\* after any moves, merges, splits and exchanges in bags in bags
\* (updateItemWeight, updateInventoryWeight).
WeightsAgree ==
    /\ \A b \in Bags : totalWeight[b] = WeightIn(Store, b)
    /\ \A p \in Carriers : inventoryWeight[p] = WeightIn(Store, p)

\* What a player has open is carried by that player or lies on a tile beside
\* them; a bag that was removed, or taken by another, is open nowhere
\* (postRemoveNotification, autoCloseContainers).
OpenInReach ==
    \A p \in Carriers, w \in Windows :
        LET b == openContainers[p][w]
        IN  b # Nothing => StaysOpen(Store, p, b)

\* Nobody comes to carry more than they can, however it is moved and merged
\* (hasCapacity, which compares with the remembered weight).
CapacityKept == \A p \in Carriers : WeightIn(Store, p) <= Capacity

\* Moves neither lose nor make items, whatever is merged, split or refused in
\* the middle (internalMoveItem).
NothingLost == made = Summed([i \in Items |-> Weight[i] * count[i]], Items)

\* What is where agrees with what is remembered of it and what is seen of it.
ItemsAgree == ItemsInTrees /\ WeightsAgree /\ OpenInReach

\* Moving takes no item away, makes none and overburdens nobody.
MovesAreSafe == CapacityKept /\ NothingLost

=============================================================================
