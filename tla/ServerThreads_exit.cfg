SPECIFICATION Spec
CONSTANTS
    Messages = {m}
    Queries = {q1}
    Answered = {q1}
    Events = {e}
    Delays = {1}
    MaxTime = 1
    SigTerm = sigterm
    GameShutdown = shutdown
    Terminate = terminate
    None = none
INVARIANT ExitLeavesNothing
PROPERTY OnlyLostWakeUpsHang
