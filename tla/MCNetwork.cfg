SPECIFICATION NetworkSpec
CONSTANTS
    Players = {a, b}
    NoPlayer = none
    Premium = {}
    Protocols = {c, d, e}
    NoProtocol = null
    Gone = gone
    Staff = {b}
    PongLimit = 2
    IdleLimit = 1
    LateClients = {e}
    Connections = {c, d}
    BufferSize = 1
    LastMessage = 2
    LastEvent = 2
    Objects = {a, b}
    NoObject = none
    Casters = {c, d}
    NoCaster = null
    Spectators = {s, t}
    MaxCasts = 2
    Clients = {a, b, c, d, e}
    PremiumClients = {a, b}
    Privileged = {e}
    MaxPlayers = 2
    Limits <- MCLimits
INVARIANTS OneClientEach OutputInOrder
PROPERTIES OutputMoves LostPlayersLeave CastsKept LineKept
CHECK_DEADLOCK FALSE
