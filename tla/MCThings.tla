------------------------------- MODULE MCThings -------------------------------
(***************************************************************************)
(* What players have: items on a street of three tiles, and a house.       *)
(*                                                                         *)
(* One player alone stands and moves two bags, a ring and coins that come  *)
(* into being; or two walk and move the bags, which they have open in two  *)
(* windows each.  A house with one bed is lived in, with guests and        *)
(* subowners; or with two, slept in across restarts, the rent paid; or it  *)
(* changes hands and is saved, with guests and with nobody in bed.         *)
(***************************************************************************)
EXTENDS Inventory, Houses, TLC

CONSTANTS Near, Middle, Far, Bunk

\* The window of the player alone.
ASSUME ThingsAssumption == 1 \in Windows

MCStreet == <<Near, Middle, Far>>

\* bags are worn on the back, the rest in a hand
MCWearable == [i \in Items |-> IF i \in Bags THEN {1} ELSE {2}]

MCWeight == [i \in Items |-> IF i \in Rings THEN 2 ELSE 1]

MCInvitations == {{}} \cup {{p} : p \in People}

Symmetry == Permutations(Carriers) \cup Permutations(Bags) \cup Permutations(Stacks)

\* the player who is alone, or the name of what happens
VARIABLE stage

thingVars == <<stage, inventoryVars, houseVars>>

ThingsInit ==
    /\ stage \in Carriers \cup {"bags", "home", "beds", "deeds"}
    /\ InventoryInit(IF stage \in Carriers THEN Bags \cup Rings ELSE Bags)
    /\ HouseInit

\* one player with one window; the other is not there
Alone(p) ==
    \/ PlayerHandles(p, {1})
    \/ \E i \in Items : InternalRemoveItem(i)
    \/ \E g \in Stacks : AddLoot(g)

Together ==
    \/ \E p \in Carriers : PlayerHandles(p, Windows) \/ Step(p)
    \/ \E i \in Items : InternalRemoveItem(i)

AtHome ==
    /\ \E p \in People : LifeInHouse(p) \/ InBed(p) \/ BuyHouse(p) \/ LeaveHouse(p)
    /\ \A p \in People : dialog'[p] # Bunk

Asleep ==
    /\ \/ \E p \in People : \/ HouseLogin(p) \/ HouseLogout(p) \/ InBed(p)
                             \/ BuyHouse(p) \/ LeaveHouse(p)
       \/ Storage
    /\ rentWarnings' = 0

Deeds ==
    /\ (\E p \in People : LifeInHouse(p) \/ Deed(p)) \/ Passing \/ Storage
    /\ \A p \in People : editHouse'[p] # "subowner"

ThingsNext ==
    /\ UNCHANGED stage
    /\ \/ /\ \/ \E p \in Carriers : stage = p /\ Alone(p)
             \/ stage = "bags" /\ Together
          /\ UNCHANGED houseVars
       \/ /\ \/ stage = "home" /\ AtHome
             \/ stage = "beds" /\ Asleep
             \/ stage = "deeds" /\ Deeds
          /\ UNCHANGED inventoryVars

ThingsSpec == ThingsInit /\ [][ThingsNext]_thingVars

=============================================================================
