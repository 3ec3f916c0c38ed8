SPECIFICATION SocietySpec
CONSTANTS
    Ann = ann
    Bob = bob
    Cas = cas
    Players = {ann, bob, cas}
    NoPlayer = none
    Premium = {ann, bob}
    Parties = {x, y}
    NoParty = null
    Level <- MCLevel
    LastSlot = 101
    Guilds = {g, h}
    NoGuild = noguild
    Items = {bag, box, ring}
    NoItem = nil
    Bags = {bag, box}
    Coins = {}
    Ground = ground
    Hands = 1
    BagPlaces = 1
    Row = 3
    Watcher = watcher
    Others = {rat, ghost}
    Rat = rat
    TopItems = {stone, blood, slime}
    Stone = stone
    Splashes = {blood, slime}
    Order <- MCOrder
    DownItems = {coin, gem}
    Fields = {}
    Coin = coin
    Gem = gem
    Alike <- MCAlike
    Soil = soil
    Sight = 1
    Earshot = 1
    Shown = 4
    NotCached = {unknown}
    MaxSteps = 3
INVARIANTS ViewAgrees PartyAgrees ChatAgrees TradersAgree
PROPERTIES TradeIsFair
SYMMETRY Symmetry
