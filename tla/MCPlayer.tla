------------------------------- MODULE MCPlayer -------------------------------
(***************************************************************************)
(* One player: the vocations, the conditions that change the speed or how  *)
(* others see them, and the fights with other players.  One of these moves *)
(* in a behaviour: the state space is the sum of theirs.                   *)
(*                                                                         *)
(* Conditions have two stages, those of the speed and of how the player is *)
(* shown; so have fights: a duel to the death, with skulls that last, and  *)
(* a brawl of three, with a party.                                         *)
(***************************************************************************)
EXTENDS MCPlayerVocations, Conditions, Fights

CONSTANTS
    Boots, Ring, Rat, Bug, Citizen, Horse,
    Ann, Bob            \* the third player only stands by, or in the party

Cond(type, value, left) == [type |-> type, id |-> Spell, value |-> value, left |-> left]

MCSpells ==
    {Cond("haste", 4, 1), Cond("haste", 6, 2), Cond("paralyze", -4, 1),
     Cond("attributes", 1, 1), Cond("attributes", 2, 2),
     Cond("invisible", 0, 1), Cond("outfit", Rat, 1), Cond("outfit", Bug, 2)}

MCGearSpeed == [g \in Gear |-> IF g = Boots THEN 1 ELSE 0]
MCGearInvisible == [g \in Gear |-> g = Ring]
MCMountSpeed == [m \in Mounts |-> IF m = Horse THEN 2 ELSE 3]

VARIABLE stage

playerVars == <<stage, vars, conditionVars, fightVars>>

PlayerInit ==
    /\ stage \in {"vocations", "speeds", "shows", "duel", "brawl"}
    /\ Init /\ ConditionInit /\ FightInit
    /\ defaultOutfit = OnFoot(Citizen)

Speeds ==
    /\ \/ \E c \in Spells : /\ c.type \in {"haste", "paralyze", "attributes"}
                            /\ Cast(c) \/ ForceAddCondition(c)
       \/ ForceRemoveCondition \/ TimePasses \/ ExecuteConditions \/ Leave
       \/ \E exhausted \in BOOLEAN, left \in 0..1 : Dispel("paralyze", exhausted, left)
       \/ Equip(Boots) \/ DeEquip(Boots)
       \/ \E on \in BOOLEAN : Step(on) \/ Die(on)
       \/ LoginTo(TRUE)
    /\ forcedRemovals' <= MaxForced

Shows ==
    \/ \E c \in Spells : c.type \in {"invisible", "outfit"} /\ Cast(c)
    \/ TimePasses \/ ExecuteConditions \/ Leave
    \/ \E exhausted \in BOOLEAN : Dispel("invisible", exhausted, 1)
    \/ Equip(Ring) \/ DeEquip(Ring)
    \/ \E m \in Mounts : UntameMount(m)
    \/ \E look \in Looks, m \in Mounts \cup {NoMount} :
           PlayerChangeOutfit([look |-> look, mount |-> m])
    \/ \E on \in BOOLEAN : PlayerToggleMount(on) \/ ChangeZone(on) \/ LoginTo(on) \/ Die(on)

\* only Ann's kills are unjustified
Duel ==
    /\ \/ Attack(Ann, Bob) \/ Attack(Bob, Ann) \/ InvitePlayer(Bob, Ann)
       \/ \E p \in {Ann, Bob} :
            \/ FightIsOver(p) \/ FightEnds(p) \/ CheckSkullTicks(p)
            \/ JoinParty(p) \/ LeaveParty(p) \/ LogsIn(p) \/ LogsOut(p) \/ Absent(p)
       \/ \E p, k, m \in {Ann, Bob}, stays \in BOOLEAN : Dies(p, k, m, stays)
    /\ skullTicks'[Bob] = 0

Brawl ==
    \/ \E q \in Fighters : Attack(Ann, q) \/ InvitePlayer(Ann, q) \/ InvitePlayer(Bob, q)
    \/ Attack(Bob, Ann) \/ Fought(Ann)
    \/ \E p \in Fighters : JoinParty(p) \/ RevokeInvitation(p) \/ LeaveParty(p) \/ LogsIn(p)
    \/ \E p \in Fighters \ {Ann} : LogsOut(p)
    \/ \E p \in {Ann, Bob} : FightIsOver(p) \/ FightEnds(p)

PlayerNext ==
    /\ stage' = stage
    /\ \/ stage = "vocations" /\ Next /\ UNCHANGED <<conditionVars, fightVars>>
       \/ /\ \/ stage = "speeds" /\ Speeds
             \/ stage = "shows" /\ Shows
          /\ UNCHANGED <<vars, fightVars>>
       \/ /\ \/ stage = "duel" /\ Duel
             \/ stage = "brawl" /\ Brawl
          /\ UNCHANGED <<vars, conditionVars>>

PlayerSpec == PlayerInit /\ [][PlayerNext]_playerVars

=============================================================================
