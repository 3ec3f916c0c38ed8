-------------------------------- MODULE Houses --------------------------------
(***************************************************************************)
(* A house: who owns it and may enter it, who is in it and sleeps in its   *)
(* beds, its sale, its rent, and its rows in the database across restarts. *)
(* The owner is stored at once, the lists of who is invited, the unpaid    *)
(* rents and the beds only when the map is saved.                          *)
(*                                                                         *)
(* The two halves of a bed are one.  Staff whom no list concerns, lists by *)
(* guild or pattern, the lists of doors, and what lies in the house are    *)
(* left out.                                                               *)
(***************************************************************************)
EXTENDS Integers, FiniteSets

CONSTANTS
    People,         \* characters
    Nobody,         \* guid 0
    Beds, NoBed,
    Invitations,    \* bound: the lists people write, of those they name
    MaxWarnings     \* seven in the code

ASSUME HousesAssumption ==
    /\ Nobody \notin People /\ NoBed \notin Beds
    /\ {} \in Invitations /\ Invitations \subseteq SUBSET People
    /\ MaxWarnings \in Nat

VARIABLES
    owner,
    lists,          \* subOwnerList and guestList, and history: under which
                    \* owner a list was written
    rentWarnings,
    sleeper,        \* BedItem::sleeperGUID
    bedSleepersMap,
    where,          \* is a character
    dialog,         \* Player::bedItem while the window about it is open
    editHouse,      \* the list in the window of each player
    kickDue,        \* those who will be kicked as they lie in bed
    sale,           \* transferItem: who gave it to whom
    houseRow,       \* the stored house; mixed: history, the owner was stored
                    \* without the rest
    storedBeds,
    warned,         \* history: letters to the owner,
    restless,       \* who lay down again before the kick,
    mixed           \* does the house have the lists of somebody else?

houseVars == <<owner, lists, rentWarnings, sleeper, bedSleepersMap, where, dialog,
               editHouse, kickDue, sale, houseRow, storedBeds, warned, restless, mixed>>

ListIds == {"subowner", "guest"}

Empty == [names |-> {}, by |-> Nobody]

House == [owner |-> owner, lists |-> lists, warnings |-> rentWarnings, sleeper |-> sleeper,
          bedOf |-> bedSleepersMap, where |-> where, row |-> houseRow, warned |-> warned,
          mixed |-> mixed]

Becomes(h) ==
    /\ owner' = h.owner /\ lists' = h.lists /\ rentWarnings' = h.warnings
    /\ sleeper' = h.sleeper /\ bedSleepersMap' = h.bedOf /\ where' = h.where
    /\ houseRow' = h.row /\ warned' = h.warned /\ mixed' = h.mixed

-----------------------------------------------------------------------------
\* getHouseAccessLevel
AccessLevel(h, p) ==
    IF p = h.owner THEN 3
    ELSE IF p \in h.lists["subowner"].names THEN 2
    ELSE IF p \in h.lists["guest"].names THEN 1 ELSE 0

Invited(h, p) == AccessLevel(h, p) > 0

CanEditAccessList(h, l, p) ==
    AccessLevel(h, p) = 3 \/ (AccessLevel(h, p) = 2 /\ l = "guest")

\* mutant: a new list sends nobody out
SetListOnly(h, l, names) ==
    [h EXCEPT !.lists[l] = [names |-> names, by |-> IF names = {} THEN Nobody ELSE h.owner]]

\* setAccessList: who is not invited any more is sent to the entry
SetAccessList(h, l, names) ==
    LET new == [h EXCEPT !.lists[l] =
                  [names |-> names, by |-> IF names = {} THEN Nobody ELSE h.owner]]
    IN  [new EXCEPT !.where = [p \in People |->
            IF h.where[p] = "house" /\ ~Invited(new, p) THEN "street" ELSE h.where[p]]]

\* BedItem::wakeUp
WakeUp(h, b) ==
    [h EXCEPT !.sleeper[b] = Nobody,
              !.bedOf = [p \in People |-> IF p = h.sleeper[b] THEN NoBed ELSE h.bedOf[p]]]

\* mutant: the house keeps its lists
VacateLists(h) ==
    [h EXCEPT !.owner = Nobody, !.warnings = 0, !.mixed = FALSE,
              !.sleeper = [b \in Beds |-> Nobody],
              !.bedOf = [p \in People |-> IF \E b \in Beds : h.sleeper[b] = p
                                          THEN NoBed ELSE h.bedOf[p]],
              !.where = [p \in People |-> IF @[p] = "house" THEN "street" ELSE @[p]]]

\* What setOwner does for an owner who has the house no longer: everybody goes,
\* awake or asleep, and the house forgets.
Vacate(h) ==
    [h EXCEPT !.owner = Nobody, !.warnings = 0, !.mixed = FALSE,
              !.lists = [l \in ListIds |-> Empty],
              !.sleeper = [b \in Beds |-> Nobody],
              !.bedOf = [p \in People |-> IF \E b \in Beds : h.sleeper[b] = p
                                          THEN NoBed ELSE h.bedOf[p]],
              !.where = [p \in People |-> IF @[p] = "house" THEN "street" ELSE @[p]]]

\* House::setOwner: the database hears of the owner, and of nothing else
SetOwner(h, g) ==
    IF h.owner = g THEN h
    ELSE LET v == IF h.owner # Nobody THEN Vacate(h) ELSE h
             forgets == \/ h.row.mixed \/ h.row.warnings > 0
                        \/ \E l \in ListIds : h.row.lists[l] # Empty
         IN  [v EXCEPT !.owner = g, !.warned = 0,
                       !.row = [@ EXCEPT !.owner = g, !.mixed = forgets]]

-----------------------------------------------------------------------------
HouseInit ==
    /\ owner = Nobody /\ lists = [l \in ListIds |-> Empty] /\ rentWarnings = 0
    /\ sleeper = [b \in Beds |-> Nobody] /\ bedSleepersMap = [p \in People |-> NoBed]
    /\ where = [p \in People |-> "offline"]
    /\ dialog = [p \in People |-> NoBed] /\ editHouse = [p \in People |-> "none"]
    /\ kickDue = {} /\ sale = <<>>
    /\ houseRow = [owner |-> Nobody, lists |-> lists, warnings |-> 0, mixed |-> FALSE]
    /\ storedBeds = sleeper
    /\ warned = 0 /\ restless = {} /\ mixed = FALSE

Online(p) == where[p] # "offline"

\* Player::onCreatureAppear; who logged out in the house comes back there, or
\* to its entry (HouseTile::queryDestination).  A sleeper is woken.
HouseLogin(p) ==
    /\ ~Online(p)
    /\ \E place \in IF Invited(House, p) THEN {"street", "house"} ELSE {"street"} :
         LET h == [House EXCEPT !.where[p] = place]
         IN  Becomes(IF bedSleepersMap[p] # NoBed THEN WakeUp(h, bedSleepersMap[p]) ELSE h)
    /\ UNCHANGED <<dialog, editHouse, kickDue, sale, storedBeds, restless>>

\* Its windows, its trade and the event that was to kick it go with a player.
HouseLogout(p) ==
    /\ Online(p)
    /\ Becomes([House EXCEPT !.where[p] = "offline"])
    /\ dialog' = [dialog EXCEPT ![p] = NoBed] /\ editHouse' = [editHouse EXCEPT ![p] = "none"]
    /\ kickDue' = kickDue \ {p}
    /\ sale' = IF \E i \in DOMAIN sale : sale[i] = p THEN <<>> ELSE sale
    /\ UNCHANGED <<storedBeds, restless>>

\* HouseTile::queryAdd
Walk(p) ==
    /\ \/ where[p] = "house" /\ Becomes([House EXCEPT !.where[p] = "street"])
       \/ /\ where[p] = "street" /\ Invited(House, p)
          /\ Becomes([House EXCEPT !.where[p] = "house"])
    /\ UNCHANGED <<dialog, editHouse, kickDue, sale, storedBeds, restless>>

\* the spells; the answer comes later, and other things may come before it
EditList(p, l) ==
    /\ where[p] = "house" /\ CanEditAccessList(House, l, p)
    /\ editHouse' = [editHouse EXCEPT ![p] = l]
    /\ Becomes(House) /\ UNCHANGED <<dialog, kickDue, sale, storedBeds, restless>>

MayUpdate(p) == editHouse[p] # "none" /\ CanEditAccessList(House, editHouse[p], p)

\* Game::playerUpdateHouseWindow
UpdateHouseWindow(p) ==
    /\ Online(p) /\ editHouse[p] # "none"
    /\ \E names \in Invitations :
         Becomes(IF MayUpdate(p) THEN SetAccessList(House, editHouse[p], names) ELSE House)
    /\ editHouse' = [editHouse EXCEPT ![p] = "none"]
    /\ UNCHANGED <<dialog, kickDue, sale, storedBeds, restless>>

\* InstantSpell::HouseKick
HouseKick(p, q) ==
    /\ Online(p) /\ where[q] = "house" /\ AccessLevel(House, p) >= AccessLevel(House, q)
    /\ Becomes([House EXCEPT !.where[q] = "street"])
    /\ UNCHANGED <<dialog, editHouse, kickDue, sale, storedBeds, restless>>

-----------------------------------------------------------------------------
\* A bed is used from beside it, a wall between or not.  The owner of the house
\* wakes whom they find (BedItem::canUse, trySleep).
UseBed(p, b) ==
    /\ Online(p)
    /\ \/ /\ sleeper[b] = Nobody
          /\ dialog' = [dialog EXCEPT ![p] = b]
          /\ Becomes(House)
       \/ /\ sleeper[b] # Nobody /\ p = owner
          /\ Becomes(WakeUp(House, b)) /\ UNCHANGED dialog
    /\ UNCHANGED <<editHouse, kickDue, sale, storedBeds, restless>>

MaySleep(b) == b # NoBed /\ sleeper[b] = Nobody

\* Game::playerAnswerModalWindow and BedItem::sleep, which asks neither where
\* the player is by now nor whether they are invited
AnswerDialog(p) ==
    /\ dialog[p] # NoBed
    /\ \E yes \in BOOLEAN :
         IF yes /\ MaySleep(dialog[p])
         THEN /\ Becomes([House EXCEPT !.sleeper[dialog[p]] = p, !.bedOf[p] = dialog[p],
                                       !.where[p] = "house"])
              /\ kickDue' = kickDue \cup {p}
              /\ restless' = IF p \in kickDue THEN restless \cup {p} ELSE restless
         ELSE Becomes(House) /\ UNCHANGED <<kickDue, restless>>
    /\ dialog' = [dialog EXCEPT ![p] = NoBed]
    /\ UNCHANGED <<editHouse, sale, storedBeds>>

\* Game::kickPlayer, 50 ms later
KickSleeper(p) == p \in kickDue /\ HouseLogout(p)

-----------------------------------------------------------------------------
\* buyhouse.lua
BuyHouse(p) ==
    /\ where[p] = "street" /\ owner = Nobody
    /\ Becomes(SetOwner(House, p))
    /\ UNCHANGED <<dialog, editHouse, kickDue, sale, storedBeds, restless>>

\* leavehouse.lua
LeaveHouse(p) ==
    /\ where[p] = "house" /\ owner = p
    /\ Becomes(SetOwner(House, Nobody))
    /\ UNCHANGED <<dialog, editHouse, kickDue, sale, storedBeds, restless>>

\* owner.lua, of the staff
GiveHouse(g) ==
    /\ g # Nobody => Online(g)
    /\ Becomes(SetOwner(House, g))
    /\ UNCHANGED <<dialog, editHouse, kickDue, sale, storedBeds, restless>>

\* Commands::sellHouse and getTransferItem: one document at a time
SellHouse(p, q) ==
    /\ where[p] = "house" /\ owner = p /\ Online(q) /\ q # p /\ sale = <<>>
    /\ sale' = <<p, q>>
    /\ Becomes(House) /\ UNCHANGED <<dialog, editHouse, kickDue, storedBeds, restless>>

\* HouseTransferItem::onTradeEvent
CancelSale ==
    /\ sale # <<>>
    /\ sale' = <<>>
    /\ Becomes(House) /\ UNCHANGED <<dialog, editHouse, kickDue, storedBeds, restless>>

AcceptSale ==
    /\ sale # <<>>
    /\ Becomes(SetOwner(House, sale[2]))
    /\ sale' = <<>>
    /\ UNCHANGED <<dialog, editHouse, kickDue, storedBeds, restless>>

-----------------------------------------------------------------------------
\* IOMapSerialize::saveHouseInfo, one transaction, and saveHouseItems, another
SaveHouseInfo ==
    houseRow' = [owner |-> owner, lists |-> lists, warnings |-> rentWarnings, mixed |-> mixed]

\* Map::save; the second part may fail
SaveMap ==
    /\ SaveHouseInfo
    /\ storedBeds' \in {sleeper, storedBeds}
    /\ UNCHANGED <<owner, lists, rentWarnings, sleeper, bedSleepersMap, where, dialog,
                   editHouse, kickDue, sale, warned, restless, mixed>>

\* loadHouseInfo, loadHouseItems and BedItem::readAttr, which may meet one
\* sleeper twice
Loaded(found) ==
    [owner |-> houseRow.owner, lists |-> houseRow.lists, warnings |-> houseRow.warnings,
     sleeper |-> storedBeds, bedOf |-> found, where |-> [p \in People |-> "offline"],
     row |-> houseRow, warned |-> warned, mixed |-> houseRow.mixed]

\* one more letter; after the last it does not matter how many
Another(n) == IF n < MaxWarnings THEN n + 1 ELSE n

\* an owner who cannot pay, in payHouses
RentOverdue(h) ==
    IF h.warnings < MaxWarnings
    THEN [h EXCEPT !.warnings = @ + 1, !.warned = Another(@)] ELSE SetOwner(h, Nobody)

\* The process ends, in a crash or not, and the next one loads and collects the
\* rent, which may not be due, and be paid or not.
Restart ==
    /\ \E found \in [People -> Beds \cup {NoBed}] :
         /\ \A p \in People : IF \E b \in Beds : storedBeds[b] = p
                              THEN found[p] # NoBed /\ storedBeds[found[p]] = p
                              ELSE found[p] = NoBed
         /\ \/ Becomes(Loaded(found))
            \/ houseRow.owner # Nobody /\ Becomes(RentOverdue(Loaded(found)))
    /\ dialog' = [p \in People |-> NoBed] /\ editHouse' = [p \in People |-> "none"]
    /\ kickDue' = {} /\ sale' = <<>>
    /\ UNCHANGED <<storedBeds, restless>>

-----------------------------------------------------------------------------
LifeInHouse(p) ==
    \/ HouseLogin(p) \/ HouseLogout(p) \/ Walk(p)
    \/ UpdateHouseWindow(p) \/ \E l \in ListIds : EditList(p, l)
    \/ \E q \in People : HouseKick(p, q)

InBed(p) == AnswerDialog(p) \/ KickSleeper(p) \/ \E b \in Beds : UseBed(p, b)

Deed(p) == BuyHouse(p) \/ LeaveHouse(p) \/ \E q \in People : SellHouse(p, q)

Passing == CancelSale \/ AcceptSale \/ \E g \in People \cup {Nobody} : GiveHouse(g)

Storage == SaveMap \/ Restart

HouseNext ==
    \/ \E p \in People : LifeInHouse(p) \/ InBed(p) \/ Deed(p)
    \/ Passing \/ Storage

HouseSpec == HouseInit /\ [][HouseNext]_houseVars

-----------------------------------------------------------------------------
(***************************************************************************)
(* Properties.                                                             *)
(***************************************************************************)

\* Whoever is in the house is invited, however the lists and the owner have
\* changed, except one who was led to bed and is about to be kicked
\* (setAccessList, setOwner, HouseTile::queryAdd, BedItem::sleep).
OnlyInvited ==
    \A p \in People : where[p] = "house" => Invited(House, p) \/ p \in kickDue

\* A bed and the map of sleepers agree, so that every sleeper is woken when
\* they log in; only who lay down twice within the 50 ms before the kick can
\* leave a bed occupied (sleep, wakeUp, setOwner, readAttr).
SleepersAreFound ==
    /\ \A p \in People :
         bedSleepersMap[p] # NoBed => sleeper[bedSleepersMap[p]] = p
    /\ \A b \in Beds :
         LET p == sleeper[b]
         IN  p \in People \ restless => /\ bedSleepersMap[p] = b
                                        /\ Online(p) => p \in kickDue

\* The lists in force were written under the owner of today: not under one
\* before, unless the server ended before it saved the lists that the change of
\* owner had emptied (setOwner, saveHouseInfo).
ListsAreTheOwners ==
    ~mixed => \A l \in ListIds : lists[l] # Empty => lists[l].by = owner

\* The rents that count as unpaid are those this owner was warned of
\* (payHouses, setOwner, saveHouseInfo).
WarnedBefore == ~mixed => rentWarnings <= warned

\* A house at home.
HomeIsKept == OnlyInvited /\ SleepersAreFound

\* A change of owner leaves nothing of the owner before.
TenureIsNew == ListsAreTheOwners /\ WarnedBefore

=============================================================================
