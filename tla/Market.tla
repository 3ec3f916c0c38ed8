------------------------------- MODULE Market -------------------------------
(***************************************************************************)
(* The market: offers to buy and to sell one kind of item are rows of the  *)
(* table market_offers, which every handler reads and changes at once; an  *)
(* offer that has expired is found by a query of the database thread and   *)
(* settled by a later task of the dispatcher.                              *)
(*                                                                         *)
(* A player's money and goods are kept in one place, whether the player is *)
(* online or a row of the database: who is offline is loaded and saved     *)
(* again, or has the balance increased by a query, within one handler.     *)
(*                                                                         *)
(* What is traded is an item or the store coins of accounts, each player   *)
(* here having an account: a number in the database which the handlers     *)
(* change by queries whose result they ignore.                             *)
(***************************************************************************)
EXTENDS Players

CONSTANTS
    NoOffer,
    Offers,             \* the ids the table gives, 1, 2, ...
    MaxOffers,          \* MAX_MARKET_OFFERS_AT_A_TIME_PER_PLAYER
    Amounts, Price, Fee,
    Packet,             \* STORE_COIN_PACKET
    Wealth, Stock       \* what each player begins with

\* What is traded: an item, or the coins of accounts.  The code takes for granted
\* that accounts have a column of coins, which schema.sql does not create: a
\* server has it with a sign, has it unsigned, or has it missing.
Wares == {"item", "coins", "unsigned", "missing"}

\* the rows of the table
Rows == [player : Players, type : {"buy", "sell"}, amount : Nat, expired : BOOLEAN]

ASSUME MarketAssumption ==
    /\ Offers \subseteq Nat \ {0} /\ IsFiniteSet(Offers) /\ IsFiniteSet(Players)
    /\ NoOffer \notin Rows
    /\ Amounts \subseteq Nat \ {0}
    /\ {Price, Fee, MaxOffers, Packet} \subseteq Nat \ {0} /\ {Wealth, Stock} \subseteq Nat

VARIABLES
    ware,               \* what all the offers are about
    money,              \* of each player: bankBalance
    goods,              \* and what depot and inbox hold, or the coins of the account
    coinItems,          \* the coins that came back as items, which are not for sale
    inMarket,           \* Player::inMarket
    offers,             \* market_offers, by id
    nextId,             \* AUTO_INCREMENT: an id is not used again
    fees,               \* what players have paid for their offers
    expiryQueries,      \* checkExpiredOffers tasks of the database thread
    results             \* processExpiredOffers tasks of the dispatcher

wareVars == <<ware, coinItems>>
marketVars == <<wareVars, online, money, goods, inMarket, offers, nextId, fees,
                expiryQueries, results>>

StoreCoins == ware # "item"

MarketInit ==
    /\ online = {}
    /\ money = [p \in Players |-> Wealth]
    /\ ware \in Wares
    /\ goods = [p \in Players |-> IF ware = "missing" THEN 0 ELSE Stock]
    /\ coinItems = [p \in Players |-> 0]
    /\ inMarket = {}
    /\ offers = [o \in Offers |-> NoOffer]
    /\ nextId = 1
    /\ fees = 0
    /\ expiryQueries = 1        \* otserv.cpp calls checkExpiredOffers at the start
    /\ results = <<>>

Active == {o \in Offers : offers[o] # NoOffer}

OfferCount(p) == Cardinality({o \in Active : offers[o].player = p})

-----------------------------------------------------------------------------
MarketLogin(p) ==
    /\ p \notin online
    /\ online' = online \cup {p}
    /\ UNCHANGED <<wareVars, money, goods, inMarket, offers, nextId, fees, expiryQueries, results>>

\* a player may leave with the market open
MarketLogout(p) ==
    /\ p \in online
    /\ online' = online \ {p} /\ inMarket' = inMarket \ {p}
    /\ UNCHANGED <<wareVars, money, goods, offers, nextId, fees, expiryQueries, results>>

\* sendMarketEnter, at a depot
EnterMarket(p) ==
    /\ p \in online
    /\ inMarket' = inMarket \cup {p}
    /\ UNCHANGED <<wareVars, online, money, goods, offers, nextId, fees, expiryQueries, results>>

\* playerLeaveMarket, or a step away from the depot
LeaveMarket(p) ==
    /\ p \in inMarket
    /\ inMarket' = inMarket \ {p}
    /\ UNCHANGED <<wareVars, online, money, goods, offers, nextId, fees, expiryQueries, results>>

\* Goods are added; coins by a query, which fails when the column is missing.
GoodsAdded(f, p, n) == IF ware = "missing" THEN f ELSE [f EXCEPT ![p] = @ + n]

\* Goods are taken; the query for coins also fails when an unsigned column would
\* go below 0, and the caller goes on all the same.
GoodsTaken(f, p, n) ==
    IF ware = "missing" \/ (ware = "unsigned" /\ f[p] < n) THEN f
    ELSE [f EXCEPT ![p] = @ - n]

\* What an offer to sell asks for: enough items, or an answer about the coins
\* that is not less, in which a debt reads as a large number (getNumber<uint32_t>).
ForSale(p, n) ==
    /\ ware # "missing"
    /\ n <= goods[p] \/ (StoreCoins /\ goods[p] < 0)

\* Game::playerCreateMarketOffer: who sells gives the goods away at once, who
\* buys the money, and both pay the fee.  Coins go by the packet.
PlayerCreateMarketOffer(p, type, amount) ==
    /\ p \in inMarket /\ p \in Premium
    /\ OfferCount(p) < MaxOffers
    /\ nextId \in Offers
    /\ StoreCoins => amount % Packet = 0
    /\ \/ /\ type = "sell" /\ Fee <= money[p] /\ ForSale(p, amount)
          /\ goods' = GoodsTaken(goods, p, amount)
          /\ money' = [money EXCEPT ![p] = @ - Fee]
       \/ /\ type = "buy" /\ Price * amount + Fee <= money[p]
          /\ money' = [money EXCEPT ![p] = @ - (Price * amount + Fee)]
          /\ UNCHANGED goods
    /\ fees' = fees + Fee
    /\ offers' = [offers EXCEPT ![nextId] =
                    [player |-> p, type |-> type, amount |-> amount, expired |-> FALSE]]
    /\ nextId' = nextId + 1
    /\ UNCHANGED <<wareVars, online, inMarket, expiryQueries, results>>

\* Game::playerCancelMarketOffer
PlayerCancelMarketOffer(p, o) ==
    /\ p \in inMarket /\ offers[o] # NoOffer /\ offers[o].player = p
    /\ IF offers[o].type = "buy"
       THEN /\ money' = [money EXCEPT ![p] = @ + Price * offers[o].amount]
            /\ UNCHANGED goods
       ELSE /\ goods' = GoodsAdded(goods, p, offers[o].amount)
            /\ UNCHANGED money
    /\ offers' = [offers EXCEPT ![o] = NoOffer]
    /\ UNCHANGED <<wareVars, online, inMarket, nextId, fees, expiryQueries, results>>

Moved(f, from, to, n) == [p \in Players |->
    f[p] - (IF p = from THEN n ELSE 0) + (IF p = to THEN n ELSE 0)]

\* Game::playerAcceptMarketOffer, of an offer that may have expired and may be
\* one's own: what the offer holds already is not taken again.  Nobody asks
\* whether an account has the coins that a buyer wants.
PlayerAcceptMarketOffer(p, o, amount) ==
    /\ p \in inMarket /\ offers[o] # NoOffer /\ amount <= offers[o].amount
    /\ LET owner == offers[o].player
           total == Price * amount
       IN  \/ /\ offers[o].type = "buy" /\ (StoreCoins \/ amount <= goods[p])
              /\ goods' = GoodsAdded(GoodsTaken(goods, p, amount), owner, amount)
              /\ money' = [money EXCEPT ![p] = @ + total]
           \/ /\ offers[o].type = "sell" /\ total <= money[p]
              /\ money' = Moved(money, p, owner, total)
              /\ goods' = GoodsAdded(goods, p, amount)
    /\ offers' = [offers EXCEPT ![o] =
                    IF @.amount = amount THEN NoOffer
                    ELSE [@ EXCEPT !.amount = offers[o].amount - amount]]
    /\ UNCHANGED <<wareVars, online, inMarket, nextId, fees, expiryQueries, results>>

\* MARKET_OFFER_DURATION has passed
Expire(o) ==
    /\ offers[o] # NoOffer /\ ~offers[o].expired
    /\ offers' = [offers EXCEPT ![o].expired = TRUE]
    /\ UNCHANGED <<wareVars, online, money, goods, inMarket, nextId, fees, expiryQueries, results>>

\* The scheduler calls checkExpiredOffers again, whether or not the last query
\* has been answered.  At most 2 are under way here.
CheckExpiredOffers ==
    /\ expiryQueries + Len(results) < 2
    /\ expiryQueries' = expiryQueries + 1
    /\ UNCHANGED <<wareVars, online, money, goods, inMarket, offers, nextId, fees, results>>

\* DatabaseTasks::runTask: the rows as they are now
RunExpiryQuery ==
    /\ expiryQueries > 0
    /\ expiryQueries' = expiryQueries - 1
    /\ results' = Append(results,
                    [o \in {x \in Active : offers[x].expired} |-> offers[o]])
    /\ UNCHANGED <<wareVars, online, money, goods, inMarket, offers, nextId, fees>>

Summed(f, S) == MapThenSumSet(LAMBDA x : f[x], S)

\* what the rows of one type hold, each thing being worth so much
Locked(rows, type, worth) ==
    [o \in DOMAIN rows |-> IF rows[o] # NoOffer /\ rows[o].type = type
                           THEN worth * rows[o].amount ELSE 0]

\* and what of it goes to p
Refund(p, rows, type, worth) ==
    Summed([o \in DOMAIN rows |-> IF rows[o].player = p THEN Locked(rows, type, worth)[o] ELSE 0],
           DOMAIN rows)

\* Each gets back what the rows hold: items, also where they were coins.
RefundAll(rows) ==
    LET refunded(f) == [p \in Players |-> f[p] + Refund(p, rows, "sell", 1)]
    IN  /\ IF StoreCoins THEN coinItems' = refunded(coinItems) /\ UNCHANGED goods
           ELSE goods' = refunded(goods) /\ UNCHANGED coinItems
        /\ money' = [p \in Players |-> money[p] + Refund(p, rows, "buy", Price)]

\* mutant: the result is taken as it is, though rows may be gone
ProcessResult ==
    /\ results # <<>>
    /\ LET row == Head(results)
       IN  /\ RefundAll(row)
           /\ offers' = [o \in Offers |-> IF o \in DOMAIN row THEN NoOffer ELSE offers[o]]
    /\ results' = Tail(results)
    /\ UNCHANGED <<ware, online, inMarket, nextId, fees, expiryQueries>>

\* IOMarket::processExpiredOffers: the rows that moveOfferToHistory still finds
\* are deleted, and refunded with the amount the query has read.
ProcessExpiredOffers ==
    /\ results # <<>>
    /\ LET row == Head(results)
           moved == DOMAIN row \cap Active
           due == [o \in moved |-> row[o]]
       IN  /\ RefundAll(due)
           /\ offers' = [o \in Offers |-> IF o \in moved THEN NoOffer ELSE offers[o]]
    /\ results' = Tail(results)
    /\ UNCHANGED <<ware, online, inMarket, nextId, fees, expiryQueries>>

MarketNext ==
    \/ \E p \in Players :
        \/ MarketLogin(p) \/ MarketLogout(p) \/ EnterMarket(p) \/ LeaveMarket(p)
        \/ \E type \in {"buy", "sell"}, n \in Amounts : PlayerCreateMarketOffer(p, type, n)
        \/ \E o \in Offers : PlayerCancelMarketOffer(p, o)
        \/ \E o \in Offers, n \in Amounts : PlayerAcceptMarketOffer(p, o, n)
    \/ \E o \in Offers : Expire(o)
    \/ CheckExpiredOffers \/ RunExpiryQuery \/ ProcessExpiredOffers

\* The scheduler, the database thread and the dispatcher go on.
MarketFairness ==
    /\ WF_marketVars(CheckExpiredOffers)
    /\ WF_marketVars(RunExpiryQuery)
    /\ WF_marketVars(ProcessExpiredOffers)

MarketSpec == MarketInit /\ [][MarketNext]_marketVars /\ MarketFairness

-----------------------------------------------------------------------------
TotalGoods ==
    Summed(goods, Players) + Summed(coinItems, Players) + Summed(Locked(offers, "sell", 1), Offers)

possessions == <<money, fees, goods, coinItems, offers>>

TotalMoney == Summed(money, Players) + Summed(Locked(offers, "buy", Price), Offers) + fees

\* An expired offer is refunded that has been accepted in part since the query.
StaleRefund ==
    /\ results # <<>> /\ Len(results') < Len(results)
    /\ \E o \in DOMAIN Head(results) \cap Active : offers[o].amount < Head(results)[o].amount

\* A buyer's offer is accepted by one whose account has not the coins, or one
\* who owes coins offers more of them.
CoinsUnchecked ==
    \E p \in Players, n \in Amounts :
        \/ /\ StoreCoins /\ goods[p] < n
           /\ \E o \in Active : offers[o].type = "buy" /\ PlayerAcceptMarketOffer(p, o, n)
        \/ StoreCoins /\ goods[p] < 0 /\ PlayerCreateMarketOffer(p, "sell", n)

NobodyOwesMore == \A p \in Players : goods'[p] < 0 => goods'[p] >= goods[p]

\* No money and no goods come into being and none are lost, however offers are
\* made, accepted, cancelled and expire, and nobody owes goods; but for the
\* refund of an amount that the query of the database thread had read before a
\* part of it was sold, and, of goods, for store coins that nobody has checked.
MarketConserves ==
    [][possessions' # possessions =>
        /\ TotalMoney' = TotalMoney \/ StaleRefund
        /\ (TotalGoods' = TotalGoods /\ NobodyOwesMore) \/ StaleRefund \/ CoinsUnchecked]_marketVars

\* An offer that has expired does not stay in the table.
ExpiredSettled ==
    \A o \in Offers : (offers[o] # NoOffer /\ offers[o].expired) ~> (offers[o] = NoOffer)

\* The market makes and loses nothing, and what expires is settled.
MarketSettles == MarketConserves /\ ExpiredSettled

=============================================================================
