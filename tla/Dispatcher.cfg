SPECIFICATION Spec
CONSTANTS
    Threads = {network, scheduler}
    Self = dispatcher
    Starter = network
    Events = {e1, e2}
    Messages = {m1, m2, close}
    Timed = {m1}
    GameShutdown = close
    Terminate = terminate
    NoTask = none
INVARIANTS NothingWaits
PROPERTIES ShutdownEnds TwoLanes
