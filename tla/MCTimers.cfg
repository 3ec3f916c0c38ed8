SPECIFICATION TimersSpec
CONSTANTS
    Callers = {dispatcher, network}
    Closer = dispatcher
    Events = {e1, e2}
    Delays = {1, 2}
    NoEvent = none
    MaxTime = 3
    Length = 4
    Lift <- MCLift
    Lever = lever
    Creature = creature
    Signpost = signpost
    Rope = rope
    Rune = rune
    Requests = {lever, creature, signpost, rope, rune}
    NoRequest = none
    Kind <- MCKind
    Place <- MCPlace
    Target <- MCTarget
    Sight = 2
    MaxTasks = 2
INVARIANTS OnTime WalksAgree
PROPERTIES StoppedForGood NoEventForgotten RequestsEnd
