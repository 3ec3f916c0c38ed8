--------------------------- MODULE PlayerVocations ---------------------------
(***************************************************************************)
(* One player's vocations across sessions: what the dispatcher thread does *)
(* to the Player object while the player is in the world (one action per   *)
(* handler, each runs to its end before the next), and what loadPlayer and *)
(* savePlayer move between the object and the database.                    *)
(*                                                                         *)
(* The object exists only while "online"; its variables have their default *)
(* values otherwise.  The database row is replaced as a whole by a save    *)
(* (one transaction) and survives a crash.                                 *)
(***************************************************************************)
EXTENDS Roster, FiniteSetsExt

CONSTANTS
    NoVocation,         \* VOCATION_NONE, the id without class and tier
    StartVocation,      \* the new character's vocation, a column of players
    StartRows,          \* and its rows of player_vocations
    StartLevel, StartKeys,
    DeathLosePercent,   \* what a death costs, config.lua
    GameMasters,        \* are the staff's talkactions used?
    \* bounds, for model checking
    MaxLevel, MaxEntries, MaxWon, ExpAmounts, GrantLevels, GrantStars

ASSUME ConstantsAssumption ==
    /\ IsFiniteSet(Vocations)
    /\ NoVocation \in Vocations \ Heroes
    /\ StartVocation \in Vocations
    /\ StartRows \in Seq(Entry)
    /\ StartLevel \in 1..MaxLevel
    /\ StartKeys \in Nat /\ MaxLevel \in Nat
    /\ MaxEntries \in Nat /\ MaxWon \in Nat
    /\ DeathLosePercent \in 0..100
    /\ GameMasters \in BOOLEAN
    /\ ExpAmounts \subseteq Nat \ {0} /\ GrantLevels \subseteq Nat
    /\ GrantStars \subseteq Nat

\* The rows a character starts with have no unlock due.
ASSUME StartAssumption ==
    \A i \in DOMAIN StartRows :
        StartRows[i].level > 0 \/ StartRows[i].fragments < UnlockFragments

VARIABLES
    online,             \* is the Player object in the game?
    vocations,          \* Player::vocations
    current,            \* Player::vocation, by its id
    level, experience, extraDamage,
    keys,               \* the gacha keys, storage value 10521
    db,                 \* what the database holds of all that
    won                 \* history: the fragments drawn, by vocation

vars == <<online, vocations, current, level, experience, extraDamage, keys,
          db, won>>

-----------------------------------------------------------------------------
\* getExpForLevel computes in uint64_t from level - 1: at level 0 it wraps to
\* a value above every experience, for which Wrapped stands.
Wrapped == 2000000000

ExpForLevel(l) ==
    IF l = 0 THEN Wrapped
    ELSE LET m == l - 1 IN (50*m*m*m + 400*m - 150*m*m) \div 3

\* where the loop of addExperience leaves the level, up to MaxLevel
LevelUp(l, exp) ==
    LET stops == {m \in l..MaxLevel : exp < ExpForLevel(m + 1)}
    IN  CHOOSE m \in stops : \A k \in stops : m <= k

\* where the loops of removeExperience and death leave it
LevelDown(l, exp) ==
    LET stops == {m \in 1..l : m = 1 \/ exp >= ExpForLevel(m)}
    IN  IF l <= 1 THEN l ELSE CHOOSE m \in stops : \A k \in stops : k <= m

NoneWon == [v \in Vocations |-> 0]

Row == [current : Vocations, level : Nat, experience : Nat, keys : Nat,
        vocations : Seq(Entry), won : [Vocations -> Nat]]

RowOf(l, exp) == [current |-> current, level |-> l, experience |-> exp,
                  keys |-> keys, vocations |-> vocations, won |-> won]

Init ==
    /\ online = FALSE
    /\ vocations = <<>> /\ current = NoVocation
    /\ level = 1 /\ experience = 0 /\ extraDamage = Neutral /\ keys = 0
    /\ won = NoneWon
    /\ db = [current |-> StartVocation, level |-> StartLevel,
             experience |-> ExpForLevel(StartLevel), keys |-> StartKeys,
             vocations |-> StartRows, won |-> NoneWon]

-----------------------------------------------------------------------------
\* changeVocation on the list vocs: nothing at all unless v is owned, else
\* experience and level come from the first entry of v, and the attack bonus
\* is computed from nothing.  r is the object before and after.
ChangeVocation(r, v) ==
    IF ~HasVocation(r.vocations, v) THEN r
    ELSE LET e == r.vocations[First(r.vocations, v)]
         IN  [vocations |-> r.vocations, current |-> v, level |-> e.level,
              experience |-> e.experience,
              extraDamage |-> GainVocationTierATKBonus(v, e.star)]

\* loadPlayer keeps the experience of the players row inside its level, then
\* loads the list and switches to the vocation of the row.
LoadedLevel(row) == IF row.level = 0 THEN 1 ELSE row.level

LoadedExperience(row) ==
    LET l == LoadedLevel(row)
    IN  IF row.experience \in ExpForLevel(l)..ExpForLevel(l + 1)
        THEN row.experience ELSE ExpForLevel(l)

Login ==
    /\ ~online
    /\ online' = TRUE
    /\ \E list \in LoadedLists(db.vocations) :
         LET player == ChangeVocation(
                         [vocations |-> list, current |-> db.current,
                          level |-> LoadedLevel(db),
                          experience |-> LoadedExperience(db),
                          extraDamage |-> Neutral], db.current)
         IN  /\ vocations' = player.vocations
             /\ current' = player.current
             /\ level' = player.level
             /\ experience' = player.experience
             /\ extraDamage' = player.extraDamage
    /\ keys' = db.keys
    /\ won' = db.won
    /\ UNCHANGED db

Forget ==
    /\ online' = FALSE
    /\ vocations' = <<>> /\ current' = NoVocation
    /\ level' = 1 /\ experience' = 0 /\ extraDamage' = Neutral /\ keys' = 0
    /\ won' = NoneWon

\* mutant: the rows are deleted and inserted outside a transaction
SaveInTwoSteps(row) == db' \in {row, db, [row EXCEPT !.vocations = <<>>]}

\* A save writes everything or, after three failed tries or with the "save"
\* column at 0, nothing.
SavePlayer(row) == db' \in {row, db}

Save ==
    /\ online
    /\ SavePlayer(RowOf(level, experience))
    /\ UNCHANGED <<online, vocations, current, level, experience, extraDamage,
                   keys, won>>

\* onRemoveCreature saves what it can and the object goes.
Logout ==
    /\ online
    /\ SavePlayer(RowOf(level, experience))
    /\ Forget

Crash ==
    /\ online
    /\ Forget
    /\ UNCHANGED db

\* Player::death and the removal of the creature that follows it: the loss
\* goes to experience and level, and to no entry of the list.
Death ==
    /\ online
    /\ LET loss == (experience * DeathLosePercent) \div 100
           left == IF current = NoVocation \/ level > 7
                   THEN experience - loss ELSE experience
           fallen == IF loss = 0 THEN level ELSE LevelDown(level, left)
       IN  SavePlayer(RowOf(fallen, left))
    /\ Forget

-----------------------------------------------------------------------------
GainExperience ==
    /\ online
    /\ ExpForLevel(level) < ExpForLevel(level + 1)
    /\ level <= MaxLevel
    /\ \E exp \in ExpAmounts :
         /\ experience + exp < ExpForLevel(MaxLevel + 1)
         /\ experience' = experience + exp
    /\ level' = LevelUp(level, experience')
    /\ vocations' = IF level' # level
                    THEN SyncLevel(vocations, current, level') ELSE vocations
    /\ UNCHANGED <<online, current, extraDamage, keys, db, won>>

\* mutant: the lower level does not reach the list
LoseExperienceUnsynced ==
    /\ online
    /\ experience > 0
    /\ \E exp \in ExpAmounts :
         experience' = IF exp > experience THEN 0 ELSE experience - exp
    /\ level' = LevelDown(level, experience')
    /\ UNCHANGED <<online, vocations, current, extraDamage, keys, db, won>>

LoseExperience ==
    /\ online
    /\ experience > 0
    /\ \E exp \in ExpAmounts :
         experience' = IF exp > experience THEN 0 ELSE experience - exp
    /\ level' = LevelDown(level, experience')
    /\ vocations' = IF level' # level
                    THEN SyncLevel(vocations, current, level') ELSE vocations
    /\ UNCHANGED <<online, current, extraDamage, keys, db, won>>

\* the opcode "changeCharacter"
ChangeCharacter(v) ==
    /\ online
    /\ LET player == ChangeVocation(
                       [vocations |-> vocations, current |-> current,
                        level |-> level, experience |-> experience,
                        extraDamage |-> extraDamage], v)
       IN  /\ current' = player.current
           /\ level' = player.level
           /\ experience' = player.experience
           /\ extraDamage' = player.extraDamage
    /\ UNCHANGED <<online, vocations, keys, db, won>>

\* the opcode "sortVocation": a key buys 20 or 100 fragments of one vocation
SortVocation(v) ==
    /\ online
    /\ keys > 0
    /\ won[v] < MaxWon
    /\ keys' = keys - 1
    /\ \E n \in {20, 100} :
         /\ vocations' = LuaSetVocationFragments(vocations, v,
                            GetVocationFragments(vocations, v) + n)
         /\ won' = [won EXCEPT ![v] = @ + n]
    /\ UNCHANGED <<online, current, level, experience, extraDamage, db>>

\* mutant: the price in fragments is not checked
UpgradeStarUnpaid(v) ==
    /\ online
    /\ HasVocation(vocations, v)
    /\ LET star  == GetVocationStar(vocations, v)
           frags == GetVocationFragments(vocations, v)
           cost  == GetFragmentsCostToUpgradeStar(star)
       IN  /\ cost # 0
           /\ vocations' = LuaSetVocationStar(
                LuaSetVocationFragments(vocations, v, frags - cost), v, star + 1)
    /\ UNCHANGED <<online, current, level, experience, extraDamage, keys, db,
                   won>>

\* the opcode "upgradeStar" once its price in coins is met (Money): the
\* script takes the fragments, then sets the star; the bonuses stay as they
\* are until the next changeVocation.
UpgradeStar(v) ==
    /\ online
    /\ HasVocation(vocations, v)
    /\ LET star  == GetVocationStar(vocations, v)
           frags == GetVocationFragments(vocations, v)
           cost  == GetFragmentsCostToUpgradeStar(star)
       IN  /\ cost # 0
           /\ frags >= cost
           /\ vocations' = LuaSetVocationStar(
                LuaSetVocationFragments(vocations, v, frags - cost), v, star + 1)
    /\ UNCHANGED <<online, current, level, experience, extraDamage, keys, db,
                   won>>

\* the talkactions /addvocation, /upgradestar and /setkeys
GrantVocation(v) ==
    /\ GameMasters
    /\ online
    /\ Len(vocations) < MaxEntries
    /\ \E l \in GrantLevels, s \in GrantStars :
         vocations' = LuaAddVocation(vocations, v, l, s)
    /\ UNCHANGED <<online, current, level, experience, extraDamage, keys, db,
                   won>>

GrantStar ==
    /\ GameMasters
    /\ online
    /\ \E s \in GrantStars :
         vocations' = LuaSetVocationStar(vocations, current, s)
    /\ UNCHANGED <<online, current, level, experience, extraDamage, keys, db,
                   won>>

GrantKeys ==
    /\ GameMasters
    /\ online
    /\ keys' \in 0..StartKeys
    /\ UNCHANGED <<online, vocations, current, level, experience, extraDamage,
                   db, won>>

Next ==
    \/ Login \/ Save \/ Logout \/ Crash \/ Death
    \/ GainExperience \/ LoseExperience
    \/ \E v \in Vocations : \/ ChangeCharacter(v) \/ UpgradeStar(v)
                            \/ GrantVocation(v)
    \/ \E v \in Heroes : SortVocation(v)
    \/ GrantStar \/ GrantKeys

Spec == Init /\ [][Next]_vars

-----------------------------------------------------------------------------
(***************************************************************************)
(* Properties.                                                             *)
(***************************************************************************)

\* The object and the row hold lists of entries and the columns they should.
TypeOK ==
    /\ online \in BOOLEAN
    /\ vocations \in Seq(Entry)
    /\ current \in Vocations
    /\ level \in Nat /\ experience \in Nat /\ extraDamage \in Nat
    /\ keys \in Nat
    /\ won \in [Vocations -> Nat]
    /\ db \in Row

\* No vocation waits for an unlock it has paid for: whatever the staff adds
\* and whichever entry comes first, in the game and in the database, a
\* vocation the player does not own has less than a hundred fragments
\* (setVocationFragments unlocks on the write, there is no later check).
LockedBelowUnlock ==
    \A v \in Vocations :
        /\ ~HasVocation(vocations, v) =>
                GetVocationFragments(vocations, v) < UnlockFragments
        /\ ~HasVocation(db.vocations, v) =>
                GetVocationFragments(db.vocations, v) < UnlockFragments

\* A vocation once owned stays owned: no handler of a session takes it away,
\* a save never writes fewer than the row had, and a login brings back
\* exactly the ones of the row whatever order its rows come in.
OwnedStep ==
    /\ online /\ online' => Owned(vocations) \subseteq Owned(vocations')
    /\ Owned(db.vocations) \subseteq Owned(db'.vocations)
    /\ ~online /\ online' => Owned(vocations') = Owned(db.vocations)

OwnedKept == [][OwnedStep]_vars

\* Without the staff's grants the list never has two entries of a vocation,
\* so "the first entry" that every function acts on is the only one.
OneEntryPerVocation ==
    \A i, j \in DOMAIN vocations :
        vocations[i].vocation = vocations[j].vocation => i = j

\* The fragments of a vocation, with the hundred its unlock took, were drawn
\* with keys: no unlock, upgrade, save, crash or reload makes any.
FragmentsWereDrawn ==
    \A v \in Vocations \ Owned(StartRows) :
        GetVocationFragments(vocations, v)
            + (IF HasVocation(vocations, v) THEN UnlockFragments ELSE 0) <= won[v]

\* A vocation the player did not start with is owned exactly when a hundred
\* of its fragments have been drawn; levels, deaths, upgrades and reloads
\* neither unlock nor lock anything.
OwnedIffDrawn ==
    online => \A v \in Vocations \ Owned(StartRows) :
                  HasVocation(vocations, v) <=> won[v] >= UnlockFragments

\* A player with an owned starting vocation always plays an owned one, whose
\* entry in the list has the level shown: what changeVocation and the next
\* login read back is the level the player has.
ActiveLevelRecorded ==
    online => /\ HasVocation(vocations, current)
              /\ vocations[First(vocations, current)].level = level

\* Nobody deals damage times 0.0: changeVocation clears the factor before it
\* looks for the bonus, and must always find one.
ActiveDealsDamage ==
    online => extraDamage > 0

\* Keys and fragments are stored by one transaction: in the game and in the
\* row, what was drawn is what the missing keys can buy.
DrawnWithKeys ==
    LET Paid(k, w) == \E n \in 0..(StartKeys - k) :
                          MapThenSumSet(LAMBDA v : w[v], Vocations)
                              = 20 * (StartKeys - k) + 80 * n
    IN  /\ online => Paid(keys, won)
        /\ Paid(db.keys, db.won)
        /\ \A v \in Vocations \ Owned(StartRows) :
               db.won[v] < UnlockFragments =>
                   GetVocationFragments(db.vocations, v) = db.won[v]

\* A vocation is listed once and unlocked by a hundred drawn fragments alone,
\* and nothing is drawn for nothing: fragments come from keys, in the game and
\* in the database, across saves, crashes and reloads (setVocationFragments,
\* savePlayer, loadPlayer).
DrawsAgree ==
    OneEntryPerVocation /\ OwnedIffDrawn /\ FragmentsWereDrawn /\ DrawnWithKeys

\* The active vocation is owned, the list has its level, and its damage is
\* not zero, however it came to be the active one (changeVocation, death).
ActiveAgrees == ActiveLevelRecorded /\ ActiveDealsDamage

=============================================================================
