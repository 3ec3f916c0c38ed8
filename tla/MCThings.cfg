SPECIFICATION ThingsSpec
CONSTANTS
    Carriers = {ann, bob}
    Bags = {bag, box}
    Rings = {ring}
    Stacks = {g1, g2, g3}
    Nothing = nothing
    Near = t1
    Middle = t2
    Far = t3
    Street <- MCStreet
    Slots = {1, 2}
    Wearable <- MCWearable
    Weight <- MCWeight
    BagSize = 2
    FullStack = 2
    Capacity = 4
    Windows = {1, 2}
    MaxCoins = 3
    People = {ann, bob}
    Nobody = nobody
    Beds = {bed1, bed2}
    Bunk = bed2
    NoBed = noBed
    Invitations <- MCInvitations
    MaxWarnings = 2
INVARIANTS ItemsAgree MovesAreSafe HomeIsKept TenureIsNew
SYMMETRY Symmetry
