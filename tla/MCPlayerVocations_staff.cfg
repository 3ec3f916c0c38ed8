SPECIFICATION Spec
CONSTANTS
    Vocations = {0, 1}
    Heroes = {1}
    NoVocation = 0
    StartVocation = 1
    StartRows <- MCBare
    StartLevel = 8
    StartKeys = 1
    DeathLosePercent = 10
    GameMasters = TRUE
    MaxLevel = 8
    MaxEntries = 2
    MaxWon = 40
    ExpAmounts = {4200}
    GrantLevels = {0, 8}
    GrantStars = {2}
INVARIANTS LockedBelowUnlock
