------------------------------ MODULE SafeTrade ------------------------------
(***************************************************************************)
(* The safe trade: two players offer one item each, which may be a bag     *)
(* with its contents, look at what they are offered, and accept.           *)
(*                                                                         *)
(* Nothing holds an offered item: it lies where it lay, and whoever moves  *)
(* it, something in it, or what it lies in, ends the trade by a callback.  *)
(* All players are near enough to see each other's items.                  *)
(***************************************************************************)
EXTENDS Players

CONSTANTS
    Items, NoItem,
    Bags,               \* the items that hold others
    Coins,              \* the items that merge into stacks
    Ground,             \* the tiles around
    Hands, BagPlaces    \* room of an inventory and of a bag

ASSUME TradeAssumption ==
    /\ IsFiniteSet(Items) /\ Bags \subseteq Items /\ Coins \subseteq Items \ Bags
    /\ NoItem \notin Items /\ Ground \notin Items \cup Players
    /\ Items \cap Players = {}
    /\ Hands \in Nat /\ BagPlaces \in Nat

VARIABLES
    tradeState, tradePartner, tradeItem,    \* of Player
    tradeItems,                             \* Game::tradeItems
    place                                   \* what an item lies in: its parent

tradeVars == <<online, tradeState, tradePartner, tradeItem, tradeItems, place>>

Places == Players \cup Bags \cup {Ground}

-----------------------------------------------------------------------------
\* isHoldingItem, and the walks up the parents: the bags that i lies in, at any
\* depth, are in each set that has the bag of i and the bags of its members
BagsAround(at, i) ==
    {b \in Bags : \A s \in SUBSET Bags :
        (\A j \in s \cup {i} : at[j] \in Bags => at[j] \in s) => b \in s}

\* what i lies in, at any depth
Around(at, i) == {at[j] : j \in BagsAround(at, i) \cup {i}}

Inside(at, i, b) == b \in Around(at, i)

Room(at, where) ==
    \/ where = Ground
    \/ Cardinality({i \in Items : at[i] = where})
           < (IF where \in Players THEN Hands ELSE BagPlaces)

\* what a player can take: their own, while they are in the world, and what
\* lies on the ground
Reach(p, i) == p \in Around(place, i) \/ Ground \in Around(place, i)

NoTrades ==
    /\ tradeState = [p \in Players |-> "none"]
    /\ tradePartner = [p \in Players |-> NoPlayer]
    /\ tradeItem = [p \in Players |-> NoItem]
    /\ tradeItems = {}

\* things in hands and on the ground, bags still empty
TradeInit ==
    /\ online = {}
    /\ NoTrades
    /\ place \in [Items -> Players \cup {Ground}]
    /\ \A p \in Players : Cardinality({i \in Items : place[i] = p}) <= Hands

-----------------------------------------------------------------------------
Trades == [state |-> tradeState, partner |-> tradePartner, item |-> tradeItem,
           offered |-> tradeItems]

Settle(t) ==
    /\ tradeState' = t.state
    /\ tradePartner' = t.partner
    /\ tradeItem' = t.item
    /\ tradeItems' = t.offered

\* internalCloseTrade for each of these players: of them and of their partners
CloseTrades(t, stopped) ==
    LET parties == (stopped \cup {t.partner[p] : p \in stopped}) \ {NoPlayer}
    IN  [state |-> [q \in Players |-> IF q \in parties THEN "none" ELSE t.state[q]],
         partner |-> [q \in Players |-> IF q \in parties THEN NoPlayer ELSE t.partner[q]],
         item |-> [q \in Players |-> IF q \in parties THEN NoItem ELSE t.item[q]],
         offered |-> t.offered \ {t.item[q] : q \in parties}]

InternalCloseTrade(t, p) == CloseTrades(t, {p})

\* Player::onRemoveInventoryItem, onRemoveTileItem, onRemoveContainerItem
DisturbedByRemoval(at, i, t) ==
    \/ t = i
    \/ Inside(at, i, t)
    \/ IF at[i] \in Bags THEN at[t] # at[i] /\ Inside(at, t, at[i]) ELSE Inside(at, t, i)

\* Player::onAddContainerItem; the other places have no such callback
DisturbedByArrival(at, i, t) == at[i] \in Bags /\ (t = i \/ Inside(at, i, t))

Offering == {p \in Players : tradeItem[p] # NoItem}

\* mutant: nobody is told of what is put into a bag
DisturbedByRemovalOnly(i, at) ==
    {p \in Offering : DisturbedByRemoval(place, i, tradeItem[p])}

Disturbed(i, at) ==
    {p \in Offering : \/ DisturbedByRemoval(place, i, tradeItem[p])
                      \/ DisturbedByArrival(at, i, tradeItem[p])}

-----------------------------------------------------------------------------
TraderLogin(p) ==
    /\ p \notin online
    /\ online' = online \cup {p}
    /\ UNCHANGED <<tradeState, tradePartner, tradeItem, tradeItems, place>>

TraderLogout(p) ==
    /\ p \in online
    /\ online' = online \ {p}
    /\ IF tradePartner[p] # NoPlayer THEN Settle(InternalCloseTrade(Trades, p))
       ELSE Settle(Trades)
    /\ UNCHANGED place

\* mutant: a bag is offered while something in it is
TradedAsWhole(i) == \E t \in tradeItems : t = i \/ Inside(place, i, t)

AlreadyTraded(i) ==
    \E t \in tradeItems : t = i \/ Inside(place, t, i) \/ Inside(place, i, t)

MayStartTrade(p, q) ==
    /\ tradeState[p] = "none" \/ (tradeState[p] = "acknowledge" /\ tradePartner[p] = q)
    /\ tradeState[q] = "none" \/ tradePartner[q] = p

PlayerRequestTrade(p, q, i) ==
    /\ {p, q} \subseteq online /\ p # q
    /\ Reach(p, i)
    /\ ~AlreadyTraded(i)
    /\ MayStartTrade(p, q)
    /\ LET asked == tradeState[q] = "none"
       IN  /\ tradeState' = [tradeState EXCEPT ![p] = "initiated",
                                ![q] = IF asked THEN "acknowledge" ELSE @]
           /\ tradePartner' = [tradePartner EXCEPT ![p] = q, ![q] = IF asked THEN p ELSE @]
    /\ tradeItem' = [tradeItem EXCEPT ![p] = i]
    /\ tradeItems' = tradeItems \cup {i}
    /\ UNCHANGED <<online, place>>

\* Player::queryDestination for a place of its own: a hand, a bag that is not
\* offered, and then the bags in these, where it does not look for the offer.
OwnPlaces(at, p, i) ==
    LET top == {b \in Bags : at[b] = p /\ b \notin {i, tradeItem[p]} /\ Room(at, b)}
        searched == {b \in Bags : at[b] = p /\ b # i /\ b # tradeItem[p]}
        deep == {b \in Bags : at[b] # p /\ Around(at, b) \cap searched # {}
                              /\ b # i /\ ~Inside(at, b, i) /\ Room(at, b)}
    IN  IF Room(at, p) THEN {p} ELSE top \cup deep

\* The test before the exchange counts what would merge into a stack; the
\* moves, with FLAG_IGNOREAUTOSTACK, do not.
WouldTake(p, i) ==
    i # NoItem /\ (OwnPlaces(place, p, i) # {} \/ i \in Coins)

NoLongerTrading(p, q) ==
    Settle([state |-> [tradeState EXCEPT ![p] = "none", ![q] = "none"],
            partner |-> [tradePartner EXCEPT ![p] = NoPlayer, ![q] = NoPlayer],
            item |-> [tradeItem EXCEPT ![p] = NoItem, ![q] = NoItem],
            offered |-> tradeItems \ {tradeItem[p], tradeItem[q]}])

\* p has accepted last.  The result of the second move is not looked at.
Exchange(p, q) ==
    LET i == tradeItem[p]
        j == tradeItem[q]
    IN  \E there \in OwnPlaces(place, q, i) :
          /\ there # j /\ (there \in Bags => ~Inside(place, there, j))
          /\ LET moved == [place EXCEPT ![i] = there]
                 here == OwnPlaces(moved, p, j)
             IN  IF here = {} THEN place' = moved
                 ELSE \E h \in here : place' = [moved EXCEPT ![j] = h]

\* Also when the test succeeds an item may be too heavy.
PlayerAcceptTrade(p) ==
    /\ p \in online
    /\ tradeState[p] \in {"acknowledge", "initiated"}
    /\ LET q == tradePartner[p]
       IN  IF tradeState[q] # "accept"
           THEN /\ tradeState' = [tradeState EXCEPT ![p] = "accept"]
                /\ UNCHANGED <<tradePartner, tradeItem, tradeItems, place>>
           ELSE /\ NoLongerTrading(p, q)
                /\ \/ WouldTake(q, tradeItem[p]) /\ WouldTake(p, tradeItem[q]) /\ Exchange(p, q)
                   \/ UNCHANGED place
    /\ UNCHANGED online

PlayerCloseTrade(p) ==
    /\ p \in online
    /\ Settle(InternalCloseTrade(Trades, p))
    /\ UNCHANGED <<online, place>>

\* Player::onCreatureMove, when it leads away from the item or the partner
TraderStepsAway(p) ==
    /\ p \in online
    /\ tradePartner[p] # NoPlayer
    /\ Settle(InternalCloseTrade(Trades, p))
    /\ UNCHANGED <<online, place>>

PlayerMoveItem(p, i, to) ==
    /\ p \in online
    /\ Reach(p, i)
    /\ to # place[i]
    /\ to \in {p, Ground} \/ (to \in Bags /\ to # i /\ ~Inside(place, to, i) /\ Reach(p, to))
    /\ Room(place, to)
    /\ place' = [place EXCEPT ![i] = to]
    /\ Settle(CloseTrades(Trades, Disturbed(i, place')))
    /\ UNCHANGED online

TradeNext ==
    \E p \in Players :
        \/ TraderLogin(p) \/ TraderLogout(p)
        \/ PlayerAcceptTrade(p) \/ PlayerCloseTrade(p) \/ TraderStepsAway(p)
        \/ \E i \in Items :
              \/ \E q \in Players : PlayerRequestTrade(p, q, i)
              \/ \E to \in Places : PlayerMoveItem(p, i, to)

TradeSpec == TradeInit /\ [][TradeNext]_tradeVars

-----------------------------------------------------------------------------
TradeTypeOK ==
    /\ tradeState \in [Players -> {"none", "acknowledge", "initiated", "accept"}]
    /\ tradePartner \in [Players -> online \cup {NoPlayer}]
    /\ tradeItem \in [Players -> Items \cup {NoItem}]
    /\ tradeItems \subseteq Items
    /\ place \in [Items -> Places]

\* Two players trade with each other or not at all, whoever asks, accepts,
\* leaves, walks away or moves things in between.
TradersPaired ==
    \A p \in Players :
        IF tradeState[p] = "none" THEN tradePartner[p] = NoPlayer /\ tradeItem[p] = NoItem
        ELSE /\ tradePartner[p] # NoPlayer /\ tradePartner[tradePartner[p]] = p
             /\ tradeItem[p] # NoItem \/ tradeItem[tradePartner[p]] # NoItem

\* Nothing is offered twice, neither itself nor in a bag, and the game's list
\* of what is offered is what the players offer.
OfferedOnce ==
    /\ tradeItems = {tradeItem[p] : p \in Offering}
    /\ \A p, q \in Offering :
         p # q => /\ tradeItem[p] # tradeItem[q]
                  /\ ~Inside(place, tradeItem[p], tradeItem[q])

\* What is offered does not change under the eyes of the partner: neither the
\* item leaves its place nor anything enters or leaves it while the offer lasts.
OfferUntouched ==
    [][\A p \in Players :
         LET t == tradeItem[p]
         IN  t # NoItem /\ tradeItem'[p] = t =>
               /\ place'[t] = place[t]
               /\ \A i \in Items : Inside(place', i, t) <=> Inside(place, i, t)]_tradeVars

\* Nothing is given for nothing: a trade that hands over one item hands over
\* both, or else it "could not be completed" (getTradeErrorDescription).
ExchangeIsWhole ==
    [][\A p \in Players :
         PlayerAcceptTrade(p) /\ place' # place
         => /\ Inside(place', tradeItem[p], tradePartner[p])
            /\ Inside(place', tradeItem[tradePartner[p]], p)]_tradeVars

\* Two who trade trade with each other, and no item is in two offers, inside
\* another offer or without one (playerRequestTrade, internalCloseTrade).
TradersAgree == TradeTypeOK /\ TradersPaired /\ OfferedOnce

\* What was offered is what is exchanged: it neither changes while it is on
\* offer, nor changes hands without the other (checkTradeState, playerAcceptTrade).
TradeIsFair == OfferUntouched /\ ExchangeIsWhole

=============================================================================
