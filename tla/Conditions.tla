------------------------------ MODULE Conditions ------------------------------
(***************************************************************************)
(* The conditions of a player and what they leave behind: haste and        *)
(* paralysis change the speed and remove each other, attributes change a   *)
(* skill, invisibility and borrowed outfits change how the player is shown *)
(* to others; gear does the same while it is worn, and mounts.  A step     *)
(* delays the removal of a paralysis, and a haste: both are then events.   *)
(*                                                                         *)
(* A condition is listed once for its type and id.  Its time may be over   *)
(* before the next think of the creature ends it; until then it is listed, *)
(* and may be renewed.  The order of the list is left out: it decides only *)
(* which of a haste and a paralysis that are loaded together stays.        *)
(* Suppressions, damage, regeneration, light and cooldowns are left out;   *)
(* scripts do not forbid outfits.                                          *)
(***************************************************************************)
EXTENDS Integers, FiniteSets, FiniteSetsExt

CONSTANTS
    Spells,             \* the conditions spells and fields bring, see Condition
    Gear,               \* the things that can be worn
    GearSpeed, GearSkill, GearInvisible,
    Looks, Worn,        \* outfits, and those of them canWear allows
    Mounts, MountSpeed, NoMount,
    MaxForced           \* bound: pending forceAddCondition and -Remove

Spell == "spell"        \* CONDITIONID_COMBAT
Forever == -1

Types == {"haste", "paralyze", "attributes", "invisible", "outfit"}

ASSUME ConditionsAssumption ==
    /\ IsFiniteSet(Gear) /\ Spell \notin Gear
    /\ Spells \subseteq [type : Types, id : {Spell}, value : Looks \cup Int, left : Nat \ {0}]
    /\ \A c \in Spells : IF c.type = "outfit" THEN c.value \in Looks ELSE c.value \in Int
    /\ GearSpeed \in [Gear -> Int] /\ GearSkill \in [Gear -> Int]
    /\ GearInvisible \in [Gear -> BOOLEAN]
    /\ Worn \subseteq Looks /\ MountSpeed \in [Mounts -> Nat] /\ NoMount \notin Mounts
    /\ MaxForced \in Nat

VARIABLES
    inGame,
    conditions,         \* [type, id, value, left]; left = 0: over, not ended
    varSpeed, varSkill,
    worn,               \* gear whose itemAbilities are enabled
    defaultOutfit, currentOutfit,   \* [look, mount]
    shownOutfit,        \* by the clients of others; "nothing" when invisible
    currentMount,       \* a storage value
    inPz, wasMounted,
    walks,              \* getWalkDelay() > 0
    forcedAdds, forcedRemovals,     \* pending events
    row,                \* the stored conditions, outfit and mount
    renewed             \* history: types listed again after they were over

conditionVars == <<inGame, conditions, varSpeed, varSkill, worn, defaultOutfit,
                   currentOutfit, shownOutfit, currentMount, inPz, wasMounted, walks,
                   forcedAdds, forcedRemovals, row, renewed>>

Body == [conditions |-> conditions, speed |-> varSpeed, skill |-> varSkill, worn |-> worn,
         default |-> defaultOutfit, current |-> currentOutfit, shown |-> shownOutfit,
         mount |-> currentMount, pz |-> inPz, wasMounted |-> wasMounted, walks |-> walks,
         adds |-> forcedAdds, removals |-> forcedRemovals, renewed |-> renewed]

BodyBecomes(next) == \E b \in {next} :
    /\ conditions' = b.conditions /\ varSpeed' = b.speed /\ varSkill' = b.skill
    /\ worn' = b.worn /\ defaultOutfit' = b.default /\ currentOutfit' = b.current
    /\ shownOutfit' = b.shown /\ currentMount' = b.mount /\ inPz' = b.pz
    /\ wasMounted' = b.wasMounted /\ walks' = b.walks /\ forcedAdds' = b.adds
    /\ forcedRemovals' = b.removals /\ renewed' = b.renewed

OnFoot(look) == [look |-> look, mount |-> NoMount]

ConditionInit ==
    /\ inGame = FALSE /\ conditions = {} /\ varSpeed = 0 /\ varSkill = 0 /\ worn = {}
    /\ \E look \in Worn :
         /\ defaultOutfit = OnFoot(look) /\ currentOutfit = OnFoot(look)
         /\ shownOutfit = OnFoot(look)
         /\ row = [conditions |-> {}, look |-> look, mount |-> NoMount, worn |-> {}]
    /\ currentMount = NoMount /\ inPz = TRUE /\ wasMounted = FALSE /\ walks = FALSE
    /\ forcedAdds = {} /\ forcedRemovals = 0 /\ renewed = {}

-----------------------------------------------------------------------------
(***************************************************************************)
(* How the player is shown.                                                *)
(***************************************************************************)

Listed(b, type) == {c \in b.conditions : c.type = type}

\* Creature::isInvisible: also when the time of all is over
IsInvisible(b) == Listed(b, "invisible") # {}

\* Creature::hasCondition
HasCondition(b, type) == \E c \in Listed(b, type) : c.left # 0

\* Game::internalCreatureChangeOutfit
ChangeOutfit(b, outfit) ==
    [b EXCEPT !.current = outfit, !.shown = IF IsInvisible(b) THEN @ ELSE outfit]

IsMounted(b) == b.default.mount # NoMount

\* Player::dismount
Dismount(b) ==
    [b EXCEPT !.speed = @ - (IF b.mount = NoMount THEN 0 ELSE MountSpeed[b.mount]),
              !.default.mount = NoMount]

\* Player::toggleMount; it may be too soon after the last, but not when the
\* player was on the mount before they entered a protection zone
ToggleMount(b, mount) ==
    IF mount
    THEN IF IsMounted(b) \/ b.pz \/ b.mount = NoMount \/ HasCondition(b, "outfit") THEN b
         ELSE LET up == [b EXCEPT !.default.mount = b.mount, !.speed = @ + MountSpeed[b.mount]]
              IN  ChangeOutfit(up, up.default)
    ELSE IF ~IsMounted(b) THEN b
         ELSE LET down == Dismount(b) IN ChangeOutfit(down, down.default)

-----------------------------------------------------------------------------
(***************************************************************************)
(* Conditions begin, are renewed and end.                                  *)
(***************************************************************************)

\* startCondition of each type of condition, and the list
StartCondition(b, c) ==
    LET new == [b EXCEPT !.conditions = @ \cup {c}]
    IN  CASE c.type \in {"haste", "paralyze"} -> [new EXCEPT !.speed = @ + c.value]
          [] c.type = "attributes" -> [new EXCEPT !.skill = @ + c.value]
          [] c.type = "invisible" -> [new EXCEPT !.shown = "nothing"]
          [] c.type = "outfit" ->
               [ChangeOutfit(b, OnFoot(c.value)) EXCEPT !.conditions = new.conditions]

\* endCondition, when the list has it no more
EndCondition(b, c) ==
    LET gone == [b EXCEPT !.conditions = @ \ {c}, !.renewed = @ \ {c.type}]
    IN  CASE c.type \in {"haste", "paralyze"} -> [gone EXCEPT !.speed = @ - c.value]
          [] c.type = "attributes" -> [gone EXCEPT !.skill = @ - c.value]
          [] c.type = "invisible" ->
               IF IsInvisible(gone) THEN gone ELSE [gone EXCEPT !.shown = gone.current]
          [] c.type = "outfit" -> ChangeOutfit(gone, gone.default)

EndAll(b, cs) == FoldSet(LAMBDA c, x : EndCondition(x, c), b, cs)

\* Creature::removeCondition(type, force): of a player who is making a step a
\* paralysis is removed later
RemoveCondition(b, type, force) ==
    IF type = "paralyze" /\ ~force /\ b.walks
    THEN [b EXCEPT !.removals = @ + IF Listed(b, type) = {} THEN 0 ELSE 1]
    ELSE EndAll(b, Listed(b, type))

\* Creature::onAddCondition and Player::onAddCondition
OnAddCondition(b, type) ==
    CASE type = "paralyze" /\ HasCondition(b, "haste") -> RemoveCondition(b, "haste", FALSE)
      [] type = "haste" /\ HasCondition(b, "paralyze") -> RemoveCondition(b, "paralyze", FALSE)
      [] type = "outfit" /\ IsMounted(b) -> Dismount(b)
      [] OTHER -> b

\* mutant: the old value goes on
SpeedsUp(b, old, c) ==
    [b EXCEPT !.conditions = (@ \ {old}) \cup {c},
              !.speed = IF c.type \in {"haste", "paralyze"} THEN @ + c.value ELSE @]

\* ConditionSpeed::addCondition takes the new one; Condition::updateCondition
\* keeps the old one if that ends later
Renew(b, old, c) ==
    LET kept  == IF c.type \in {"haste", "paralyze"} THEN old.left = Forever /\ c.left > 0
                 ELSE old.left = Forever \/ old.left > c.left
        taken == [b EXCEPT !.conditions = (@ \ {old}) \cup {c},
                           !.renewed = @ \cup (IF old.left = 0 THEN {c.type} ELSE {})]
    IN  IF kept THEN b
        ELSE CASE c.type \in {"haste", "paralyze"} ->
                    [taken EXCEPT !.speed = @ + (c.value - old.value)]
               [] c.type = "attributes" -> [taken EXCEPT !.skill = @ + (c.value - old.value)]
               [] c.type = "invisible" -> taken
               [] c.type = "outfit" -> ChangeOutfit(taken, OnFoot(c.value))

\* Creature::addCondition
AddCondition(b, c, force) ==
    LET same == {d \in b.conditions : d.type = c.type /\ d.id = c.id}
    IN  IF ~force /\ c.type = "haste" /\ HasCondition(b, "paralyze") /\ b.walks
        THEN [b EXCEPT !.adds = @ \cup {c}]
        ELSE IF same # {} THEN Renew(b, CHOOSE d \in same : TRUE, c)
        ELSE OnAddCondition(StartCondition(b, c), c.type)

-----------------------------------------------------------------------------
(***************************************************************************)
(* What spells, events and time do.                                        *)
(***************************************************************************)

\* Combat::CombatConditionFunc, creature:addCondition of scripts
Cast(c) ==
    /\ inGame
    /\ BodyBecomes(AddCondition(Body, c, FALSE))
    /\ UNCHANGED <<inGame, row>>

\* Game::forceAddCondition, when the step should be over: another may have begun
ForceAddCondition(c) ==
    /\ c \in forcedAdds
    /\ BodyBecomes(AddCondition([Body EXCEPT !.adds = @ \ {c}], c, TRUE))
    /\ UNCHANGED <<inGame, row>>

\* Game::forceRemoveCondition
ForceRemoveCondition ==
    /\ forcedRemovals > 0
    /\ BodyBecomes(RemoveCondition([Body EXCEPT !.removals = @ - 1], "paralyze", TRUE))
    /\ UNCHANGED <<inGame, row>>

\* Combat::CombatDispelFunc, Player::onCombatRemoveCondition: what comes from
\* gear stays; a player who is exhausted keeps the others for as long
Dispel(type, exhausted, left) ==
    LET cs == {c \in Listed(Body, type) : c.id = Spell}
    IN  /\ inGame
        /\ BodyBecomes(
             IF exhausted
             THEN [Body EXCEPT
                     !.conditions = (@ \ cs) \cup {[c EXCEPT !.left = left] : c \in cs},
                     !.renewed = @ \cup {c.type : c \in {d \in cs : d.left = 0 /\ left > 0}}]
             ELSE IF cs = {} THEN Body
             ELSE IF type = "paralyze" THEN RemoveCondition(Body, type, FALSE)
             ELSE EndAll(Body, cs))
        /\ UNCHANGED <<inGame, row>>

TimePasses ==
    /\ inGame /\ \E c \in conditions : c.left > 0
    /\ conditions' = {[c EXCEPT !.left = IF @ > 0 THEN @ - 1 ELSE @] : c \in conditions}
    /\ UNCHANGED <<inGame, varSpeed, varSkill, worn, defaultOutfit, currentOutfit,
                   shownOutfit, currentMount, inPz, wasMounted, walks, forcedAdds,
                   forcedRemovals, row, renewed>>

\* Creature::executeConditions
ExecuteConditions ==
    LET over == {c \in conditions : c.left = 0}
    IN  /\ inGame /\ over # {}
        /\ BodyBecomes(EndAll(Body, over))
        /\ UNCHANGED <<inGame, row>>

\* getWalkDelay() rises and falls
Step(begins) ==
    /\ inGame /\ walks = ~begins
    /\ BodyBecomes([Body EXCEPT !.walks = begins])
    /\ UNCHANGED <<inGame, row>>

-----------------------------------------------------------------------------
(***************************************************************************)
(* Gear, outfits and mounts.                                               *)
(***************************************************************************)

\* MoveEvent::EquipItem; the id of the condition is the slot
Equips(b, g) ==
    LET on == [b EXCEPT !.worn = @ \cup {g}, !.speed = @ + GearSpeed[g],
                        !.skill = @ + GearSkill[g]]
    IN  IF GearInvisible[g]
        THEN AddCondition(on, [type |-> "invisible", id |-> g, value |-> 0, left |-> Forever],
                          FALSE)
        ELSE on

Equip(g) ==
    /\ inGame /\ g \notin worn
    /\ BodyBecomes(Equips(Body, g))
    /\ UNCHANGED <<inGame, row>>

\* MoveEvent::DeEquipItem
DeEquip(g) ==
    LET off == [Body EXCEPT !.worn = @ \ {g}, !.speed = @ - GearSpeed[g],
                            !.skill = @ - GearSkill[g]]
    IN  /\ inGame /\ g \in worn
        /\ BodyBecomes(EndAll(off, {c \in conditions : c.type = "invisible" /\ c.id = g}))
        /\ UNCHANGED <<inGame, row>>

\* Game::playerToggleMount
PlayerToggleMount(mount) ==
    /\ inGame
    /\ BodyBecomes(ToggleMount(Body, mount))
    /\ UNCHANGED <<inGame, row>>

\* the end of Game::playerChangeOutfit
ChangesOutfit(b, outfit) ==
    LET changed == [b EXCEPT !.default = outfit]
    IN  IF outfit.look \notin Worn THEN b
        ELSE IF HasCondition(b, "outfit") THEN changed ELSE ChangeOutfit(changed, outfit)

\* Game::playerChangeOutfit, with mounts the player has.  A mount, or none, is
\* taken even if the outfit may not be worn any more, and nobody is shown.
PlayerChangeOutfit(outfit) ==
    /\ inGame
    /\ BodyBecomes(
         LET m == outfit.mount
             rides == [Body EXCEPT !.mount = m, !.speed = @ + MountSpeed[m]
                          - (IF currentMount = NoMount THEN 0 ELSE MountSpeed[currentMount])]
             next == IF m = NoMount THEN IF IsMounted(Body) THEN Dismount(Body) ELSE Body
                     ELSE IF IsMounted(Body) THEN rides
                     ELSE [Body EXCEPT !.mount = m]
             asked == IF IsMounted(Body) THEN outfit ELSE OnFoot(outfit.look)
         IN  [ChangesOutfit(next, asked) EXCEPT
                !.renewed = IF outfit.look \in Worn THEN @ \ {"refused"} ELSE @ \cup {"refused"}])
    /\ UNCHANGED <<inGame, row>>

\* Player::untameMount
UntameMount(m) ==
    /\ inGame /\ currentMount = m
    /\ BodyBecomes([ToggleMount(Body, FALSE) EXCEPT !.mount = NoMount])
    /\ UNCHANGED <<inGame, row>>

\* Player::onChangeZone
ChangesZone(b, pz) ==
    LET moved == [b EXCEPT !.pz = pz]
    IN  IF pz THEN IF IsMounted(b) THEN [ToggleMount(moved, FALSE) EXCEPT !.wasMounted = TRUE]
                   ELSE moved
        ELSE IF b.wasMounted THEN [ToggleMount(moved, TRUE) EXCEPT !.wasMounted = FALSE]
        ELSE moved

ChangeZone(pz) ==
    /\ inGame /\ inPz = ~pz
    /\ BodyBecomes(ChangesZone(Body, pz))
    /\ UNCHANGED <<inGame, row>>

-----------------------------------------------------------------------------
(***************************************************************************)
(* Sessions.                                                               *)
(***************************************************************************)

\* Condition::isPersistent
IsPersistent(c) == c.left # Forever /\ c.id = Spell

\* the object of a player, as loadPlayer makes it
Loaded(r) ==
    [conditions |-> {}, speed |-> 0, skill |-> 0, worn |-> {},
     default |-> OnFoot(r.look), current |-> OnFoot(r.look), shown |-> OnFoot(r.look),
     mount |-> r.mount, pz |-> TRUE, wasMounted |-> FALSE, walks |-> FALSE,
     adds |-> {}, removals |-> 0, renewed |-> {}]

\* savePlayer, and the object is gone with its conditions; the events that
\* still come find nobody
Leaves(b) ==
    /\ row' = [conditions |-> {c \in b.conditions : IsPersistent(c)}, look |-> b.default.look,
               mount |-> b.mount, worn |-> b.worn]
    /\ inGame' = FALSE
    /\ BodyBecomes(Loaded(row'))

Leave == inGame /\ Leaves(Body)

\* Player::onCreatureAppear: the gear, then the stored conditions
LoginTo(pz) ==
    /\ ~inGame /\ inGame' = TRUE
    /\ BodyBecomes(
         FoldSet(LAMBDA c, b : AddCondition(b, c, FALSE),
                 FoldSet(LAMBDA g, b : Equips(b, g), [Loaded(row) EXCEPT !.pz = pz], row.worn),
                 row.conditions))
    /\ row' = [row EXCEPT !.conditions = {}, !.worn = {}]

\* Player::death ends what persists; the player leaves, or stays in a temple
Die(stays) ==
    LET dead == EndAll(Body, {c \in conditions : IsPersistent(c)})
    IN  /\ inGame
        /\ IF stays THEN BodyBecomes(ChangesZone(dead, TRUE)) /\ UNCHANGED <<inGame, row>>
           ELSE Leaves(dead)

-----------------------------------------------------------------------------
ConditionNext ==
    \/ \E c \in Spells : Cast(c) \/ ForceAddCondition(c)
    \/ ForceRemoveCondition \/ TimePasses \/ ExecuteConditions \/ Leave
    \/ \E type \in {"paralyze", "invisible"}, exhausted \in BOOLEAN, left \in 0..1 :
           Dispel(type, exhausted, left)
    \/ \E g \in Gear : Equip(g) \/ DeEquip(g)
    \/ \E m \in Mounts : UntameMount(m)
    \/ \E look \in Looks, m \in Mounts \cup {NoMount} :
           PlayerChangeOutfit([look |-> look, mount |-> m])
    \/ \E on \in BOOLEAN : Step(on) \/ PlayerToggleMount(on) \/ ChangeZone(on)
                           \/ LoginTo(on) \/ Die(on)

ConditionSpec == ConditionInit /\ [][ConditionNext]_conditionVars

-----------------------------------------------------------------------------
Summed(f, things) == MapThenSumSet(LAMBDA x : f[x], things)

ValuesOf(types) ==
    Summed([c \in conditions |-> c.value], {c \in conditions : c.type \in types})

\* Speed and skill are those of the listed conditions, the gear that is worn
\* and the mount below the player: whatever renews, replaces or ends them
\* takes away what it brought.
NothingIsLeftBehind ==
    /\ varSpeed = ValuesOf({"haste", "paralyze"}) + Summed(GearSpeed, worn)
                  + (IF IsMounted(Body) /\ currentMount # NoMount
                     THEN MountSpeed[currentMount] ELSE 0)
    /\ varSkill = ValuesOf({"attributes"}) + Summed(GearSkill, worn)

\* Others see nothing of who is invisible, whoever else is made or made visible
\* meanwhile, and else the outfit that was last put on; that is the borrowed
\* one for its time, and the player's own when none is left.  (A mount changed
\* with an outfit that may not be worn is not shown, and a borrowed outfit that
\* is renewed in its last second does not dismount.)
OutfitsAreShown ==
    /\ shownOutfit = IF IsInvisible(Body) THEN "nothing" ELSE currentOutfit
    /\ renewed \cap {"outfit", "refused"} = {} =>
         LET borrowed == Listed(Body, "outfit")
         IN  /\ borrowed = {} => currentOutfit = defaultOutfit
             /\ \A c \in borrowed : c.left # 0 => currentOutfit = OnFoot(c.value)

\* Nobody is both hasted and paralysed, unless an event is still to remove the
\* paralysis or one of the two was renewed in its last second.
OneOfTwo ==
    /\ HasCondition(Body, "haste") /\ HasCondition(Body, "paralyze")
    => forcedRemovals > 0 \/ renewed \cap {"haste", "paralyze"} # {}

ConditionsAgree == NothingIsLeftBehind /\ OutfitsAreShown /\ OneOfTwo

=============================================================================
