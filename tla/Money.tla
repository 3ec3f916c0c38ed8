-------------------------------- MODULE Money --------------------------------
(***************************************************************************)
(* The coins a player carries: Game::removeMoney, which pays with the      *)
(* stacks of least worth and gives change, Game::addMoney, and what        *)
(* internalAddItem makes of a new stack in an inventory with little room.  *)
(* Each runs to its end in a task of the dispatcher.                       *)
(*                                                                         *)
(* The bag stands for the containers; it is written from the oldest item   *)
(* to the newest, since addThing puts a new one in front of the others.    *)
(*                                                                         *)
(* A stack, or the bag itself, may be offered in a trade meanwhile         *)
(* (SafeTrade has the rest of trading): what is offered takes nothing more *)
(* in, though its room is counted.                                         *)
(***************************************************************************)
EXTENDS Integers, Sequences, SequencesExt, FiniteSetsExt

CONSTANTS
    Ratio,          \* of a coin to the next: 100, also the limit of a stack
    Slots,          \* inventory slots that could hold a coin, 1..n
    ClassicEquipmentSlots,  \* config.lua: do they?
    BagSize,        \* places in the bag
    CarryLimit,     \* capacity, in coins: all coins weigh the same
    Prices,         \* sums that are paid or received
    StarMoney, StarCoins,   \* a star's price: money and crystal coins
    StartPurses,    \* what the player starts with
    MaxMoney,       \* bound on the money of a player who receives more
    MaxFallen       \* bound on the money fallen or lost before a transaction

ASSUME MoneyAssumption ==
    /\ Ratio \in Nat /\ Ratio > 1
    /\ Slots = 1..Cardinality(Slots)
    /\ ClassicEquipmentSlots \in BOOLEAN
    /\ BagSize \in Nat /\ CarryLimit \in Nat
    /\ Prices \subseteq Nat \ {0} /\ StarMoney \in Nat /\ StarCoins \in Nat

Gold == 1
Platinum == Ratio
Crystal == Ratio * Ratio
Coins == {Gold, Platinum, Crystal}       \* a coin is named by its worth

Stack == [coin : Coins, count : 1..Ratio]
None == [coin |-> 0, count |-> 0]        \* an empty slot

VARIABLES
    purse,      \* [slots, bag, offered, fallen, lost]: the place of the tradeItem,
                \* the worth of the coins that fell and of those that vanished
    receipt     \* history: the last transaction

moneyVars == <<purse, receipt>>

-----------------------------------------------------------------------------
\* Item::getWorth, Player::getMoney and Player::getItemTypeCount
Worth(s) == s.coin * s.count

Contents(p) == p.slots \o p.bag

GetMoney(p) == FoldSeq(LAMBDA s, n : Worth(s) + n, 0, Contents(p))

ItemCount(p, coin) ==
    FoldSeq(LAMBDA s, n : IF s.coin = coin THEN s.count + n ELSE n, 0, Contents(p))

Carried(p) == FoldSeq(LAMBDA s, n : s.count + n, 0, Contents(p))

\* Player::hasCapacity looks at inventoryWeight, a copy of what is carried that
\* is renewed only when a thing has been added or removed.
HasCapacity(weight, n) == weight + n <= CarryLimit

\* A place in the purse: a slot, or a position in the bag counted from the
\* oldest item, which later additions do not move.
InSlot(i) == <<"slot", i>>
InBag(i) == <<"bag", i>>
Nowhere == <<"nowhere", 0>>
TheBag == <<"bag itself", 0>>

At(p, place) == IF place[1] = "slot" THEN p.slots[place[2]] ELSE p.bag[place[2]]

Put(p, place, s) ==
    IF place[1] = "slot" THEN [p EXCEPT !.slots[place[2]] = s]
    ELSE [p EXCEPT !.bag[place[2]] = s]

-----------------------------------------------------------------------------
\* Player::queryDestination: the first slot that is empty or has a stack of
\* the coin with room; else the bag's newest such stack; else a new place in
\* the bag, where the stack in trade is passed over and not counted.
HasRoom(s, coin) == s.coin = coin /\ s.count < Ratio

Destination(p, weight, coin, count) ==
    LET slots == {i \in Slots : /\ ClassicEquipmentSlots /\ HasCapacity(weight, count)
                                /\ p.offered # InSlot(i)
                                /\ p.slots[i] = None \/ HasRoom(p.slots[i], coin)}
        seen == {i \in DOMAIN p.bag : p.offered # InBag(i)}
        stacks == {i \in seen : HasRoom(p.bag[i], coin)}
    IN  IF slots # {} THEN InSlot(Min(slots))
        ELSE IF p.offered = TheBag THEN Nowhere
        ELSE IF stacks # {} THEN InBag(Max(stacks))
        ELSE IF Cardinality(seen) < BagSize THEN InBag(Len(p.bag) + 1)
        ELSE Nowhere

\* Player::queryMaxCount and, for the bag, Container::queryMaxCount: the room
\* for the coin in all places, those in trade too, a stack's only if its whole
\* room can be carried
MaxCount(p, weight, coin, count) ==
    LET room(s) == IF HasRoom(s, coin) /\ HasCapacity(weight, Ratio - s.count)
                   THEN Ratio - s.count ELSE 0
        slot(s) == IF ~ClassicEquipmentSlots THEN 0
                   ELSE IF s = None THEN (IF HasCapacity(weight, count) THEN Ratio ELSE 0)
                   ELSE room(s)
    IN  FoldSeq(LAMBDA s, n : slot(s) + n, 0, p.slots)
        + FoldSeq(LAMBDA s, n : room(s) + n, 0, p.bag)
        + Max({BagSize - Len(p.bag), 0}) * Ratio

Least(a, b) == IF a <= b THEN a ELSE b

Fell(p, coin, count) == [p EXCEPT !.fallen = @ + coin * count]
Lost(p, coin, count) == [p EXCEPT !.lost = @ + coin * count]

\* internalAddItem.  The result is the purse, or Failed if nothing was added;
\* a rest that does not fit the merged stack is added
\* before the weight is renewed; if it cannot be added it is lost.
Failed == [slots |-> [i \in Slots |-> None], bag |-> <<>>, offered |-> Nowhere,
           fallen |-> -1, lost |-> 0]

RECURSIVE AddItem(_, _, _, _)

AddRest(p, weight, coin, count) ==
    LET q == AddItem(p, weight, coin, count)
    IN  IF q = Failed THEN Lost(p, coin, count) ELSE q

AddItem(p, weight, coin, count) ==
    LET place == Destination(p, weight, coin, count)
        max == MaxCount(p, weight, coin, count)
        new == place[1] = "bag" /\ place[2] > Len(p.bag)
    IN  IF place = Nowhere \/ ~HasCapacity(weight, count)
           \/ (max < count /\ place[1] = "bag")
        THEN Failed
        ELSE IF new
        THEN [p EXCEPT !.bag = Append(@, [coin |-> coin, count |-> count])]
        ELSE IF At(p, place) = None
        THEN Put(p, place, [coin |-> coin, count |-> count])
        ELSE LET s == At(p, place)
                 m == Least(count, max)
                 n == Least(Ratio - s.count, m)
                 merged == Lost(Put(p, place, [s EXCEPT !.count = @ + n]), coin, count - m)
             IN  IF m > n THEN AddRest(merged, weight, coin, m - n) ELSE merged

\* One stack of addMoney: what the player cannot take falls to the ground.
AddStack(p, coin, count) ==
    LET q == AddItem(p, Carried(p), coin, count)
    IN  IF count = 0 THEN p ELSE IF q = Failed THEN Fell(p, coin, count) ELSE q

RECURSIVE AddCrystals(_, _)
AddCrystals(p, count) ==
    IF count = 0 THEN p
    ELSE LET n == Least(Ratio, count)
         IN  AddCrystals(AddStack(p, Crystal, n), count - n)

AddMoney(p, money) ==
    LET p1 == AddCrystals(p, money \div Crystal)
        p2 == AddStack(p1, Platinum, (money % Crystal) \div Platinum)
    IN  AddStack(p2, Gold, money % Platinum)

\* checkTradeState, called for a thing that changes: a trade is closed that
\* offers it or what holds it
TradeChecked(p, place) ==
    IF p.offered = place \/ (p.offered = TheBag /\ place[1] = "bag")
    THEN [p EXCEPT !.offered = Nowhere] ELSE p

\* internalRemoveItem of n coins at a place
TakeAt(p, place, n) ==
    LET s == At(p, place)
        q == TradeChecked(p, place)
        behind == q.offered[1] = "bag" /\ q.offered[2] > place[2]
    IN  IF n < s.count THEN Put(q, place, [s EXCEPT !.count = @ - n])
        ELSE IF place[1] = "slot" THEN Put(q, place, None)
        ELSE [q EXCEPT !.bag = RemoveAt(@, place[2]),
                       !.offered = IF behind THEN InBag(@[2] - 1) ELSE @]

\* The first place with a stack in the set, in the order in which the code
\* looks at them: the slots, then the bag from its newest item.
FirstPlace(p, stacks) ==
    LET slots == {i \in Slots : p.slots[i] \in stacks}
        bag == {i \in DOMAIN p.bag : p.bag[i] \in stacks}
    IN  IF slots # {} THEN InSlot(Min(slots)) ELSE InBag(Max(bag))

StacksOf(p) == (Range(p.slots) \cup Range(p.bag)) \ {None}

\* the next entry of moneyMap, which is ordered by the worth of the stacks
Cheapest(p) ==
    FirstPlace(p, {s \in StacksOf(p) : \A t \in StacksOf(p) : Worth(s) <= Worth(t)})

\* mutant: no change is given
ChangeForgotten(s, n, price) == 0

\* how many coins of a stack are taken for a price below its worth, and what
\* the player gets back
CoinsToBreak(s, price) == (price \div s.coin) + 1

Change(s, n, price) == s.coin * n - price

RECURSIVE Spend(_, _)
Spend(p, price) ==
    LET place == Cheapest(p)
        s == At(p, place)
        n == CoinsToBreak(s, price)
    IN  IF Worth(s) < price
        THEN Spend(TakeAt(p, place, s.count), price - Worth(s))
        ELSE IF Worth(s) > price
        THEN TakeAt(AddMoney(p, Change(s, n, price)), place, n)
        ELSE TakeAt(p, place, s.count)

CanPay(p, price) == GetMoney(p) >= price

\* Game::removeMoney, and the purse if it fails
RemoveMoney(p, price) ==
    IF price = 0 \/ ~CanPay(p, price) THEN p ELSE Spend(p, price)

RECURSIVE TakeCoins(_, _, _)
TakeCoins(p, coin, amount) ==
    IF amount = 0 THEN p
    ELSE LET place == FirstPlace(p, {s \in StacksOf(p) : s.coin = coin})
             n == Least(At(p, place).count, amount)
         IN  TakeCoins(TakeAt(p, place, n), coin, amount - n)

\* mutant: only the first stack is taken from
FirstStackOnly(p, coin, amount) ==
    LET place == FirstPlace(p, {s \in StacksOf(p) : s.coin = coin})
    IN  IF ItemCount(p, coin) < amount \/ amount = 0 THEN p
        ELSE TakeAt(p, place, Least(At(p, place).count, amount))

\* Player::removeItemOfType, and the purse if it fails
RemoveItemOfType(p, coin, amount) ==
    IF ItemCount(p, coin) < amount THEN p ELSE TakeCoins(p, coin, amount)

-----------------------------------------------------------------------------
MoneyInit ==
    /\ purse \in StartPurses
    /\ receipt = [kind |-> "none", amount |-> 0]

\* bound: what no purse has any more is of no consequence for the next step
LittleFell == purse.fallen + purse.lost <= MaxFallen

Receipt(kind, amount) == receipt' = [kind |-> kind, amount |-> amount]

\* player:addMoney
Earn(amount) ==
    /\ LittleFell /\ GetMoney(purse) + amount <= MaxMoney
    /\ purse' = AddMoney(purse, amount)
    /\ Receipt("earned", amount)

\* player:removeMoney
Pay(price) ==
    /\ LittleFell
    /\ purse' = RemoveMoney(purse, price)
    /\ Receipt(IF CanPay(purse, price) THEN "paid" ELSE "refused", price)

\* The price of a star in ChangeCharacter/main.lua: the money and the crystal
\* coins are looked for one after the other, then taken one after the other.
StarPrice == StarMoney + StarCoins * Crystal

UpgradeStar ==
    /\ LittleFell
    /\ IF GetMoney(purse) >= StarMoney /\ ItemCount(purse, Crystal) >= StarCoins
       THEN /\ purse' = RemoveItemOfType(RemoveMoney(purse, StarMoney),
                                         Crystal, StarCoins)
            /\ Receipt("in kind", StarPrice)
       ELSE UNCHANGED purse /\ Receipt("refused", StarPrice)

\* playerRequestTrade or playerAcceptTrade: a stack or the bag is offered
Offer(place) ==
    /\ purse.offered = Nowhere
    /\ purse' = [purse EXCEPT !.offered = place]
    /\ UNCHANGED receipt

Offerable ==
    {TheBag} \cup {InBag(i) : i \in DOMAIN purse.bag}
             \cup {InSlot(i) : i \in {j \in Slots : purse.slots[j] # None}}

\* playerCloseTrade, of either player
CloseTrade ==
    /\ purse.offered # Nowhere
    /\ purse' = [purse EXCEPT !.offered = Nowhere]
    /\ UNCHANGED receipt

MoneyNext ==
    \/ \E amount \in Prices : Earn(amount) \/ Pay(amount)
    \/ UpgradeStar
    \/ \E place \in Offerable : Offer(place)
    \/ CloseTrade

MoneySpec == MoneyInit /\ [][MoneyNext]_moneyVars

-----------------------------------------------------------------------------
\* The purse: stacks of one to a hundred coins, no more than fit and one.
MoneyTypeOK ==
    /\ \A s \in StacksOf(purse) : s \in Stack
    /\ Len(purse.bag) <= BagSize + 1 /\ DOMAIN purse.slots = Slots
    /\ purse.offered \in Offerable \cup {Nowhere}
    /\ purse.fallen \in Nat /\ purse.lost \in Nat
    /\ receipt.kind \in {"none", "earned", "paid", "refused", "in kind"}

\* Every transaction keeps the account: nothing of a payment, of its change or
\* of a sum received appears or disappears, but for what is lost of a sum
\* received while something is offered in a trade, and no payment is refused to
\* one who has the money (removeMoney, addMoney, internalAddItem).
Book == INSTANCE Account WITH
    Amounts <- Prices, KindMoney <- StarMoney, KindTotal <- StarPrice,
    carried <- GetMoney(purse), fallen <- purse.fallen, lost <- purse.lost,
    trading <- purse.offered # Nowhere

KeepsAccounts == Book!AccountSpec

\* The bag takes more than it has places for only while a stack in it, which is
\* then not counted, is offered in a trade.
BagHolds ==
    [][Len(purse'.bag) > BagSize /\ Len(purse'.bag) > Len(purse.bag)
       => purse.offered[1] = "bag"]_moneyVars

\* Change falls to the ground only if there is no room: two places in a bag
\* that is not itself offered and the capacity for the coins are enough for any
\* change.
ChangeFits ==
    [][\A price \in Prices :
         /\ Pay(price) /\ purse.offered # TheBag
         /\ Len(purse.bag) + 2 <= BagSize /\ HasCapacity(Carried(purse), 2 * Ratio)
         => purse'.fallen = purse.fallen /\ purse'.lost = purse.lost]_moneyVars

Belongings(p) == GetMoney(p) + p.fallen + p.lost

\* A player who has enough crystal coins for both parts of a star's price pays
\* the whole price.
PlentyPaysStar ==
    [][UpgradeStar /\ receipt'.kind = "in kind"
       /\ ItemCount(purse, Crystal) > StarCoins + StarMoney \div Crystal
       => Belongings(purse') = Belongings(purse) - StarPrice]_moneyVars

\* The purse stays one that fits, overfilled by a stack at most and only during a
\* trade, change does not fall to the ground while the bag could take it, and who
\* has enough of the coins pays a star in full (internalAddItem, queryDestination,
\* addMoney, removeItemOfType).
PlentyPays == []MoneyTypeOK /\ BagHolds /\ ChangeFits /\ PlentyPaysStar

=============================================================================
