SPECIFICATION Spec
CONSTANTS
    Messages = {}
    Queries = {}
    Answered = {}
    Events = {}
    Delays = {1}
    MaxTime = 1
    SigTerm = sigterm
    GameShutdown = shutdown
    Terminate = terminate
    None = none
PROPERTY ServerStops
