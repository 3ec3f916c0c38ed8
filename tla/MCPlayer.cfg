SPECIFICATION PlayerSpec
CONSTANTS
    Vocations = {0, 1, 2}
    Heroes = {1, 2}
    NoVocation = 0
    StartVocation = 1
    StartRows <- MCStarter
    StartLevel = 8
    StartKeys = 2
    DeathLosePercent = 10
    GameMasters = FALSE
    MaxLevel = 8
    MaxEntries = 2
    MaxWon = 1000
    ExpAmounts = {2200}
    GrantLevels = {}
    GrantStars = {}
    Boots = boots
    Ring = ring
    Rat = rat
    Bug = bug
    Citizen = citizen
    Horse = horse
    Spells <- MCSpells
    Gear = {boots, ring}
    GearSpeed <- MCGearSpeed
    GearSkill <- MCGearSpeed
    GearInvisible <- MCGearInvisible
    Looks = {rat, bug, knight, citizen}
    Worn = {knight, citizen}
    Mounts = {horse, wolf}
    MountSpeed <- MCMountSpeed
    NoMount = none
    MaxForced = 1
    Ann = ann
    Bob = bob
    Fighters = {ann, bob, cid}
    Murderers = {ann, bob}
    FragTime = 1
    KillsToRed = 1
    KillsToBlack = 2
    IntMax = 1
    MaxSkullTicks = 3
INVARIANTS TypeOK DrawsAgree ActiveAgrees ConditionsAgree FightsAgree
PROPERTIES OwnedKept
