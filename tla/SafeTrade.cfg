SPECIFICATION TradeSpec
CONSTANTS
    Players = {a, b}
    NoPlayer = none
    Premium = {}
    Items = {bag, coins, ring, sword}
    NoItem = nil
    Bags = {bag}
    Coins = {coins}
    Ground = ground
    Hands = 1
    BagPlaces = 2
PROPERTY ExchangeIsWhole
