SPECIFICATION Spec
CONSTANTS
    Callers = {dispatcher, network}
    Closer = dispatcher
    Events = {e1}
    Delays = {1, 2}
    NoEvent = none
    MaxTime = 3
PROPERTY TimeoutHasEvent
