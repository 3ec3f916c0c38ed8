SPECIFICATION WorldSpec
CONSTANTS
    Monsters = {m1, m2}
    Tamer = t
    Nobody = nobody
    Places = {1, 2}
    Blockable = {2}
    MaxAnnounced = 2
    Corpses = {c}
    Rings = {r}
    CorpseTime = 16
    BonesTime = 7
    WornTime = 23
    Players = {a, b}
    NoPlayer = none
    Premium = {a, b}
    NoOffer = none
    Offers = {1, 2}
    MaxOffers = 2
    Amounts = {1, 2}
    Price = 2
    Fee = 1
    Packet = 2
    Trader = a
    Wealth = 5
    Stock = 1
    Ratio = 3
    Slots = {1}
    ClassicEquipmentSlots = FALSE
    BagSize = 3
    CarryLimit = 9
    MaxMoney = 16
    Prices = {1, 2, 5, 11}
    StarMoney = 4
    StarCoins = 2
    StartPurses <- MCPurses
    MaxFallen = 0
    Callers = {dispatcher, network}
    Closer = dispatcher
    Queries = {q1, q2, q3}
    Answered = {q1, q3}
    NoQuery = noQuery
INVARIANTS CreaturesAgree ItemsListed QueriesInTurn
PROPERTIES DecayRuns MarketSettles KeepsAccounts
PROPERTIES PlentyPays AcceptedRuns
