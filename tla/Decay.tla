------------------------------- MODULE Decay -------------------------------
(***************************************************************************)
(* Items that last for a time: Game::startDecay, Game::checkDecay and      *)
(* Game::cleanup, with the items that are counted by reference and freed   *)
(* when the last who holds them lets go.                                   *)
(*                                                                         *)
(* Time is counted in parts of 125 ms: EVENT_DECAYINTERVAL is 2 of them,   *)
(* and the lists of the EVENT_DECAY_BUCKETS come round after 8.  An item   *)
(* changes its kind in place, as it does between kinds of one type.        *)
(***************************************************************************)
EXTENDS Integers, SequencesExt, Lists

CONSTANTS
    Corpses, Rings,     \* addresses of items that last from the first, or worn
    CorpseTime, BonesTime, WornTime     \* their times

Item == Corpses \cup Rings

ASSUME DecayAssumption ==
    /\ Corpses \cap Rings = {}
    /\ {CorpseTime, BonesTime, WornTime} \subseteq Nat \ {0}

Untimed == -1       \* the age of what has been taken off
AgeBound == 40      \* ages beyond are not told apart

\* ItemType: 0 means that it vanishes, -1 that it does not decay.
Kind == [corpse |-> [time |-> CorpseTime, decayTo |-> "bones", stopTime |-> FALSE],
         bones  |-> [time |-> BonesTime,  decayTo |-> "0",     stopTime |-> FALSE],
         ring   |-> [time |-> 0,          decayTo |-> "-1",    stopTime |-> TRUE],
         worn   |-> [time |-> WornTime,   decayTo |-> "0",     stopTime |-> FALSE]]

VARIABLES
    kind, placed,       \* of each item, and does it have a parent?
    decaying, duration, \* ITEM_ATTRIBUTE_DECAYSTATE, ITEM_ATTRIBUTE_DURATION
    itemRefs,           \* Item::referenceCounter, freed at 0
    toDecayItems,       \* a sequence
    decayItems,         \* a sequence for each bucket
    lastBucket,
    toReleaseItems,     \* ToReleaseItems: how often each
    age                 \* how many times the lists were checked since it began

decayVars == <<kind, placed, decaying, duration, itemRefs, toDecayItems, decayItems,
               lastBucket, toReleaseItems, age>>

DecayInit ==
    /\ kind = [i \in Item |-> IF i \in Rings THEN "ring" ELSE "corpse"]
    /\ placed = [i \in Item |-> FALSE]
    /\ decaying = [i \in Item |-> FALSE]
    /\ duration = [i \in Item |-> 0]
    /\ itemRefs = [i \in Item |-> 0]
    /\ toDecayItems = <<>>
    /\ decayItems = [b \in 0 .. 3 |-> <<>>]
    /\ lastBucket = 0
    /\ toReleaseItems = [i \in Item |-> 0]
    /\ age = [i \in Item |-> 0]

-----------------------------------------------------------------------------
(***************************************************************************)
(* What the handlers are made of, as functions on a record of the state.   *)
(***************************************************************************)
Held == [kind |-> kind, placed |-> placed, decaying |-> decaying, duration |-> duration,
         refs |-> itemRefs, toDecay |-> toDecayItems, lists |-> decayItems,
         last |-> lastBucket, releasing |-> toReleaseItems, age |-> age]

Turn(g) ==
    /\ kind' = g.kind /\ placed' = g.placed /\ decaying' = g.decaying
    /\ duration' = g.duration /\ itemRefs' = g.refs
    /\ toDecayItems' = g.toDecay /\ decayItems' = g.lists /\ lastBucket' = g.last
    /\ toReleaseItems' = g.releasing /\ age' = g.age

\* Item::canDecay
CanDecay(g, i) ==
    g.placed[i] /\ Kind[g.kind[i]].decayTo # "-1" /\ Kind[g.kind[i]].time # 0

\* Item::setID, of Game::transformItem
SetID(g, i, new) ==
    LET starts == Kind[new].time > 0 /\ (~Kind[g.kind[i]].stopTime \/ g.duration[i] = 0)
    IN  [g EXCEPT !.kind[i] = new,
                  !.decaying[i] = @ /\ ~starts,
                  !.duration[i] = IF starts THEN Kind[new].time ELSE @]

\* Game::startDecay, of an item that has time left
StartDecay(g, i) ==
    IF ~CanDecay(g, i) \/ g.decaying[i] THEN g
    ELSE [g EXCEPT !.refs[i] = @ + 1, !.decaying[i] = TRUE,
                   !.toDecay = <<i>> \o @,
                   !.age[i] = IF @ = Untimed THEN @ ELSE 0]

ReleaseItem(g, i) == [g EXCEPT !.releasing[i] = @ + 1]

\* Game::internalRemoveItem
InternalRemoveItem(g, i) == ReleaseItem([g EXCEPT !.placed[i] = FALSE], i)

\* Game::internalDecayItem
InternalDecayItem(g, i) ==
    IF Kind[g.kind[i]].decayTo = "0" THEN InternalRemoveItem(g, i)
    ELSE LET newItem == SetID(g, i, Kind[g.kind[i]].decayTo) IN StartDecay(newItem, i)

\* mutant: the list each new item is put into is the next to be checked
CleanupItemsNext(g) ==
    [g EXCEPT
        !.refs = [i \in Item |-> @[i] - g.releasing[i]],
        !.releasing = [i \in Item |-> 0],
        !.toDecay = <<>>,
        !.lists = [b \in 0 .. 3 |->
            IF b = (g.last + 1) % 4 THEN @[b] \o g.toDecay ELSE @[b]]]

\* Game::cleanup: what lasts for less than a round is put into the next list,
\* (lastBucket + 1 + dur / 1000) % EVENT_DECAY_BUCKETS.
CleanupItems(g) ==
    [g EXCEPT
        !.refs = [i \in Item |-> @[i] - g.releasing[i]],
        !.releasing = [i \in Item |-> 0],
        !.toDecay = <<>>,
        !.lists = [b \in 0 .. 3 |->
            @[b] \o Chosen(g.toDecay, {i \in Item :
                b = (IF g.duration[i] >= 8 THEN g.last ELSE (g.last + 1) % 4)})]]

\* mutant: what may not decay leaves the list, but keeps its state
CheckItemForgets(g, i, bucket) ==
    LET left == g.duration[i] - 8
        spent == [g EXCEPT !.duration[i] = IF left > 0 THEN left ELSE 0]
        newBucket == (bucket + (left + 1) \div 8) % 4
    IN  IF ~CanDecay(g, i) THEN ReleaseItem(g, i)
        ELSE IF left >= 8 THEN [spent EXCEPT !.lists[bucket] = Append(@, i)]
        ELSE IF left <= 0 \/ newBucket = bucket THEN
             ReleaseItem(InternalDecayItem(spent, i), i)
        ELSE [spent EXCEPT !.lists[newBucket] = Append(@, i)]

\* One turn of the loop of Game::checkDecay, whose list has been taken away.
CheckItem(g, i, bucket) ==
    LET left == g.duration[i] - 8
        spent == [g EXCEPT !.duration[i] = IF left > 0 THEN left ELSE 0]
        newBucket == (bucket + (left + 1) \div 8) % 4
    IN  IF ~CanDecay(g, i) THEN ReleaseItem([g EXCEPT !.decaying[i] = FALSE], i)
        ELSE IF left >= 8 THEN [spent EXCEPT !.lists[bucket] = Append(@, i)]
        ELSE IF left <= 0 \/ newBucket = bucket THEN
             ReleaseItem(InternalDecayItem(spent, i), i)
        ELSE [spent EXCEPT !.lists[newBucket] = Append(@, i)]

\* The loop, over the items in their order
CheckList(g, list, bucket) ==
    LET checked[n \in 0 .. Len(list)] ==
            IF n = 0 THEN g ELSE CheckItem(checked[n - 1], list[n], bucket)
    IN  checked[Len(list)]

\* Whoever is freed leaves nothing behind.
Clean(g) ==
    LET freed(i) == g.refs[i] = 0
    IN  [g EXCEPT !.kind = [i \in Item |->
                     IF ~freed(i) THEN @[i] ELSE IF i \in Rings THEN "ring" ELSE "corpse"],
                  !.decaying = [i \in Item |-> @[i] /\ ~freed(i)],
                  !.duration = [i \in Item |-> IF freed(i) THEN 0 ELSE @[i]],
                  !.age = [i \in Item |-> IF freed(i) THEN 0 ELSE @[i]]]

-----------------------------------------------------------------------------
\* A corpse is dropped: Item::CreateItem, internalAddItem and startDecay.
DropCorpse(i) ==
    /\ i \in Corpses /\ itemRefs[i] = 0
    /\ Turn(StartDecay([Held EXCEPT !.refs[i] = 1, !.placed[i] = TRUE,
                                    !.duration[i] = CorpseTime], i))

AddRing(i) ==
    /\ i \in Rings /\ itemRefs[i] = 0
    /\ Turn([Held EXCEPT !.refs[i] = 1, !.placed[i] = TRUE])

\* MoveEvent::EquipItem with transformEquipTo
Equip(i) ==
    /\ placed[i] /\ kind[i] = "ring"
    /\ Turn(StartDecay(SetID(Held, i, "worn"), i))

\* MoveEvent::DeEquipItem with transformDeEquipTo
DeEquip(i) ==
    /\ placed[i] /\ kind[i] = "worn"
    /\ Turn(StartDecay([SetID(Held, i, "ring") EXCEPT !.age[i] = Untimed], i))

RemoveItem(i) ==
    /\ placed[i]
    /\ Turn(InternalRemoveItem(Held, i))

\* checkCreatures or a step of a creature
CleanupBetween ==
    /\ toDecayItems # <<>> \/ \E i \in Item : toReleaseItems[i] > 0
    /\ Turn(Clean(CleanupItems(Held)))

\* every EVENT_DECAYINTERVAL
CheckDecay ==
    LET bucket == (lastBucket + 1) % 4
        aged == [Held EXCEPT
                    !.lists[bucket] = <<>>,
                    !.age = [i \in Item |->
                        IF @[i] = Untimed \/ ~decaying[i] \/ @[i] = AgeBound THEN @[i]
                        ELSE @[i] + 1]]
        checked == CheckList(aged, decayItems[bucket], bucket)
    IN  Turn(Clean(CleanupItems([checked EXCEPT !.last = bucket])))

DecayNext ==
    \/ CheckDecay \/ CleanupBetween
    \/ \E i \in Item : DropCorpse(i) \/ AddRing(i) \/ Equip(i) \/ DeEquip(i) \/ RemoveItem(i)

\* Each check of the lists schedules the next one, and turns to the next list.
DecayFairness == []<><<lastBucket' # lastBucket>>_decayVars

DecaySpec == DecayInit /\ [][DecayNext]_decayVars /\ DecayFairness

-----------------------------------------------------------------------------
Times(list, i) == Len(Chosen(list, {i}))

Entries(i) ==
    Times(toDecayItems, i) + Times(decayItems[0], i) + Times(decayItems[1], i)
    + Times(decayItems[2], i) + Times(decayItems[3], i)

\* No list holds an item that has been freed, and none is kept for ever.
ItemsCounted ==
    \A i \in Item : itemRefs[i] = (IF placed[i] THEN 1 ELSE 0) + Entries(i) + toReleaseItems[i]

\* What is marked as decaying is on one list, once: startDecay leaves it alone
\* and only the lists can take its time.
DecayingIsListed ==
    \A i \in Item :
        /\ CanDecay(Held, i) /\ decaying[i] => Entries(i) = 1
        /\ Entries(i) <= 1

\* What decays does so on time: at the check of its list at most a quarter of a
\* second later, and never more than the 875 ms earlier that rounding allows.
DecaysOnTime ==
    [][\A i \in Item :
         CanDecay(Held, i) /\ lastBucket' # lastBucket /\ age[i] # Untimed /\ kind'[i] # kind[i]
         => LET lasted == 2 * (age[i] + 1)
            IN  Kind[kind[i]].time - 7 <= lasted /\ lasted <= Kind[kind[i]].time + 2]_decayVars

\* Corpses rot away.
CorpsesVanish == \A i \in Corpses : placed[i] ~> ~placed[i]

\* What decays is held once by exactly one list and is freed when it is in
\* none (startDecay, stopDecaying, checkDecay, cleanup).
ItemsListed == ItemsCounted /\ DecayingIsListed

\* An item decays when its time has passed and not before, and one that ends
\* in nothing does end (startDecay, checkDecay, internalDecayItem).
DecayRuns == DecaysOnTime /\ CorpsesVanish

=============================================================================
