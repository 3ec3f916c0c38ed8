-------------------------------- MODULE Fights --------------------------------
(***************************************************************************)
(* Players fight each other: whom each has attacked, the lock that keeps   *)
(* them out of protection zones, the condition of being in a fight, the    *)
(* skulls they wear, and those their clients show, which depend on who     *)
(* looks: who has attacked the viewer is yellow, the party is green.       *)
(*                                                                         *)
(* The world is "pvp"; the players see each other; guilds are not at war,  *)
(* and nobody stands in a pvp zone but where Fought says so.  Skull time   *)
(* is counted in parts of what one unjustified kill adds.                  *)
(***************************************************************************)
EXTENDS Integers, FiniteSets

CONSTANTS
    Fighters,           \* the players
    Murderers,          \* bound: those of them who may kill
    FragTime,           \* config.lua: of an unjustified kill
    KillsToRed, KillsToBlack,
    IntMax,             \* of int32_t, in the unit of FragTime
    MaxSkullTicks       \* bound

ASSUME FightsAssumption ==
    /\ Murderers \subseteq Fighters
    /\ FragTime \in Nat \ {0} /\ KillsToRed \in Nat /\ KillsToBlack \in Nat
    /\ IntMax \in Nat /\ MaxSkullTicks \in Nat

VARIABLES
    playing,            \* in the game
    skull, skullTicks,
    attackedSet,        \* guids
    pzLocked,
    inFight,            \* CONDITION_INFIGHT: "none", "live", or "over", its
                        \* time, while the next think has not ended it
    party, invited,     \* the members with their leader; its inviteList
    shown,              \* the skulls each client shows
    stored              \* the row of players

fightVars == <<playing, skull, skullTicks, attackedSet, pzLocked, inFight, party,
               invited, shown, stored>>

Fight == [playing |-> playing, skull |-> skull, ticks |-> skullTicks,
          attacked |-> attackedSet, locked |-> pzLocked, inFight |-> inFight,
          party |-> party, invited |-> invited, shown |-> shown]

FightBecomes(next) == \E f \in {next} :
    /\ playing' = f.playing /\ skull' = f.skull /\ skullTicks' = f.ticks
    /\ attackedSet' = f.attacked /\ pzLocked' = f.locked /\ inFight' = f.inFight
    /\ party' = f.party /\ invited' = f.invited /\ shown' = f.shown

NoSkulls == [p \in Fighters |-> "none"]

FightInit ==
    /\ playing = {} /\ party = {} /\ invited = {}
    /\ skull = NoSkulls /\ skullTicks = [p \in Fighters |-> 0]
    /\ attackedSet = [p \in Fighters |-> {}]
    /\ pzLocked = [p \in Fighters |-> FALSE] /\ inFight = NoSkulls
    /\ shown = [v \in Fighters |-> NoSkulls]
    /\ stored = [p \in Fighters |-> [skull |-> "none", ticks |-> 0, inFight |-> "none"]]

-----------------------------------------------------------------------------
(***************************************************************************)
(* Skulls and how they look.                                               *)
(***************************************************************************)

\* Player::getSkullClient of p for the viewer v
GetSkullClient(f, v, p) ==
    IF f.skull[p] # "none" THEN f.skull[p]
    ELSE IF v \in f.attacked[p] THEN "yellow"
    ELSE IF {v, p} \subseteq f.party THEN "green"
    ELSE "none"

\* ProtocolGame::sendCreatureSkull(p) to v, for the pairs <<v, p>>
SendCreatureSkull(f, pairs) ==
    [f EXCEPT !.shown = [v \in Fighters |-> [p \in Fighters |->
        IF <<v, p>> \in pairs THEN GetSkullClient(f, v, p) ELSE f.shown[v][p]]]]

\* Creature::setSkull, Game::updateCreatureSkull
SetSkull(f, p, new) == SendCreatureSkull([f EXCEPT !.skull[p] = new], f.playing \X {p})

\* Player::addInFightTicks; a condition whose time is over is renewed
AddInFightTicks(f, p) == [f EXCEPT !.inFight[p] = "live"]

\* Player::onEndCondition of CONDITION_INFIGHT
OnEndFight(f, p) ==
    LET ended == [f EXCEPT !.inFight[p] = "none", !.locked[p] = FALSE, !.attacked[p] = {}]
    IN  IF f.skull[p] \in {"red", "black"} THEN ended ELSE SetSkull(ended, p, "none")

-----------------------------------------------------------------------------
(***************************************************************************)
(* Fights.                                                                 *)
(***************************************************************************)

IsPartner(f, p, q) == {p, q} \subseteq f.party

\* Player::onAttackedCreature of a, for the target b
OnAttackedCreature(f, a, b) ==
    LET strikes == [f EXCEPT !.attacked[a] = @ \cup {b}]
        answers == f.skull[a] = "none" /\ GetSkullClient(f, a, b) = "yellow"
        locked  == [strikes EXCEPT !.locked[a] = TRUE]
    IN  AddInFightTicks(
            IF IsPartner(f, a, b) THEN f
            ELSE IF answers THEN SendCreatureSkull(strikes, {<<b, a>>})
            ELSE IF a \in f.attacked[b] THEN f
            ELSE IF f.skull[a] # "none" THEN locked
            ELSE IF f.skull[b] = "none" THEN SetSkull(locked, a, "white")
            ELSE SendCreatureSkull(locked, {<<b, a>>}),
            a)

\* Creature::onAttacking and Combat, then onAttacked of who is hit
Attack(a, b) ==
    /\ {a, b} \subseteq playing /\ a # b
    /\ FightBecomes(AddInFightTicks(OnAttackedCreature(Fight, a, b), b))
    /\ UNCHANGED stored

\* Player::onAttacked by a monster, of a monster, or in a pvp zone
Fought(p) ==
    /\ p \in playing
    /\ FightBecomes(AddInFightTicks(Fight, p))
    /\ UNCHANGED stored

\* Player::addUnjustifiedDead
AddUnjustifiedDead(f, k) ==
    LET worse  == [f EXCEPT !.ticks[k] = @ + FragTime]
        Exceeds(kills) == kills # 0 /\ worse.ticks[k] > (kills - 1) * FragTime
    IN  IF f.skull[k] = "black" THEN worse
        ELSE IF Exceeds(KillsToBlack) THEN SetSkull(worse, k, "black")
        ELSE IF f.skull[k] # "red" /\ Exceeds(KillsToRed) THEN SetSkull(worse, k, "red")
        ELSE worse

\* Player::onKilledCreature of k, for the target t
OnKilledCreature(f, k, t, lastHit) ==
    IF k = t \/ IsPartner(f, k, t) \/ t \notin f.attacked[k] \/ k \in f.attacked[t] THEN f
    ELSE LET judged == IF f.skull[t] = "none" THEN AddUnjustifiedDead(f, k) ELSE f
         IN  IF lastHit /\ judged.inFight[k] = "live"
             THEN AddInFightTicks([judged EXCEPT !.locked[k] = TRUE], k)
             ELSE judged

-----------------------------------------------------------------------------
(***************************************************************************)
(* The party.                                                              *)
(***************************************************************************)

\* mutant: nobody's skull is sent again
DisbandUnseen(f) == [f EXCEPT !.party = {}, !.invited = {}]

\* Party::disband
Disband(f) == SendCreatureSkull([f EXCEPT !.party = {}, !.invited = {}], f.party \X f.party)

\* Party::leaveParty: a party of one who has invited nobody is none
LeavesParty(f, p) ==
    LET left == f.party \ {p}
        gone == SendCreatureSkull([f EXCEPT !.party = left],
                                  (left \X {p}) \cup ({p} \X left) \cup {<<p, p>>})
    IN  IF p \notin f.party THEN f
        ELSE IF left = {} \/ (Cardinality(left) = 1 /\ f.invited = {}) THEN Disband(gone)
        ELSE gone

\* Party::removeInvite
RemoveInvite(f, p) ==
    LET rest == [f EXCEPT !.invited = @ \ {p}]
    IN  IF p \notin f.invited THEN f
        ELSE IF Cardinality(f.party) = 1 /\ rest.invited = {} THEN Disband(rest) ELSE rest

\* Game::playerInviteToParty, which founds the party of the first
InvitePlayer(p, q) ==
    /\ {p, q} \subseteq playing /\ p # q /\ q \notin party \cup invited
    /\ party # {} => p \in party
    /\ FightBecomes(
         LET leads == [Fight EXCEPT !.party = @ \cup {p}, !.invited = @ \cup {q}]
         IN  IF Cardinality(leads.party) = 1 /\ invited = {}
             THEN SendCreatureSkull(leads, {<<p, p>>}) ELSE leads)
    /\ UNCHANGED stored

\* Party::joinParty
JoinParty(p) ==
    /\ p \in invited
    /\ FightBecomes(
         SendCreatureSkull([Fight EXCEPT !.party = @ \cup {p}, !.invited = @ \ {p}],
                           (party \X {p}) \cup ({p} \X party) \cup {<<p, p>>}))
    /\ UNCHANGED stored

RevokeInvitation(p) ==
    /\ p \in invited
    /\ FightBecomes(RemoveInvite(Fight, p))
    /\ UNCHANGED stored

\* Game::playerLeaveParty, not in a fight
LeaveParty(p) ==
    /\ p \in party /\ inFight[p] # "live"
    /\ FightBecomes(LeavesParty(Fight, p))
    /\ UNCHANGED stored

-----------------------------------------------------------------------------
(***************************************************************************)
(* Time, and the session.                                                  *)
(***************************************************************************)

\* the end of the condition comes
FightIsOver(p) ==
    /\ inFight[p] = "live" /\ p \in playing
    /\ inFight' = [inFight EXCEPT ![p] = "over"]
    /\ UNCHANGED <<playing, skull, skullTicks, attackedSet, pzLocked, party, invited, shown,
                   stored>>

\* Creature::executeConditions
FightEnds(p) ==
    /\ inFight[p] = "over" /\ p \in playing
    /\ FightBecomes(OnEndFight(Fight, p))
    /\ UNCHANGED stored

\* Player::checkSkullTicks from onThink: newTicks is an int32_t
CheckSkullTicks(p) ==
    LET new  == skullTicks[p] - 1
        left == IF new < 0 \/ new > IntMax THEN 0 ELSE new
        aged == [Fight EXCEPT !.ticks[p] = left]
    IN  /\ p \in playing /\ (skullTicks[p] > 0 \/ skull[p] \in {"red", "black"})
        /\ FightBecomes(IF skull[p] \in {"red", "black"} /\ left = 0 /\ inFight[p] # "live"
                        THEN SetSkull(aged, p, "none") ELSE aged)
        /\ UNCHANGED stored

\* skulltime is a date: it comes nearer while the player is away
Absent(p) ==
    /\ p \notin playing /\ stored[p].ticks > 0
    /\ stored' = [stored EXCEPT ![p].ticks = @ - 1]
    /\ UNCHANGED <<playing, skull, skullTicks, attackedSet, pzLocked, inFight, party, invited,
                   shown>>

\* loadPlayer: a red or black skull comes back with its time, the fight with
\* the stored conditions; who comes into sight is shown as they look
LogsIn(p) ==
    LET row  == stored[p]
        here == [Fight EXCEPT
                   !.playing = @ \cup {p},
                   !.ticks[p] = row.ticks,
                   !.skull[p] = IF row.ticks > 0 THEN row.skull ELSE "none",
                   !.inFight[p] = row.inFight]
    IN  /\ p \notin playing
        /\ FightBecomes(SendCreatureSkull(here, ({p} \X here.playing) \cup (here.playing \X {p})))
        /\ UNCHANGED stored

\* Player::onRemoveCreature and savePlayer, after a logout, a kick or a death;
\* the object is gone
Departs(f, p) ==
    LET alone == LeavesParty(RemoveInvite(f, p), p)
    IN  /\ stored' = [stored EXCEPT ![p] =
                        [skull |-> IF f.skull[p] \in {"red", "black"} THEN f.skull[p] ELSE "none",
                         ticks |-> f.ticks[p], inFight |-> f.inFight[p]]]
        /\ FightBecomes([alone EXCEPT
             !.playing = @ \ {p}, !.skull[p] = "none", !.ticks[p] = 0, !.attacked[p] = {},
             !.locked[p] = FALSE, !.inFight[p] = "none",
             !.shown = [v \in Fighters |-> [q \in Fighters |->
                          IF p \in {v, q} THEN "none" ELSE alone.shown[v][q]]]])

\* Game::playerLogout, kickPlayer
LogsOut(p) == p \in playing /\ Departs(Fight, p)

\* Creature::onDeath with the last hit of k and the most damage of m, and
\* Player::death: the fight ends, and the player goes or stays in the temple
Dies(p, k, m, stays) ==
    LET killed == OnKilledCreature(Fight, k, p, TRUE)
        judged == IF m = k THEN killed ELSE OnKilledCreature(killed, m, p, FALSE)
        dead   == IF inFight[p] = "none" THEN judged ELSE OnEndFight(judged, p)
    IN  /\ {p, k, m} \subseteq playing
        /\ skullTicks[k] + FragTime <= MaxSkullTicks /\ skullTicks[m] + FragTime <= MaxSkullTicks
        /\ IF stays THEN FightBecomes(dead) /\ UNCHANGED stored ELSE Departs(dead, p)

-----------------------------------------------------------------------------
FightNext ==
    \/ \E a, b \in Fighters : Attack(a, b) \/ InvitePlayer(a, b)
    \/ \E p \in Fighters :
         \/ Fought(p) \/ FightIsOver(p) \/ FightEnds(p) \/ CheckSkullTicks(p)
         \/ JoinParty(p) \/ RevokeInvitation(p) \/ LeaveParty(p)
         \/ LogsIn(p) \/ LogsOut(p) \/ Absent(p)
    \/ \E p \in Fighters, k, m \in Murderers, stays \in BOOLEAN : Dies(p, k, m, stays)

FightSpec == FightInit /\ [][FightNext]_fightVars

-----------------------------------------------------------------------------
\* Who is locked out of protection zones, wears a white skull, or counts as
\* somebody's attacker is in a fight, whose end will free them: nothing else
\* does.  (onEndCondition)
FightsFree ==
    \A p \in Fighters :
        pzLocked[p] \/ attackedSet[p] # {} \/ skull[p] = "white" => inFight[p] # "none"

\* Every client shows of everybody the skull they have for it: what changes a
\* skull, an attack, a party or the end of a fight tells all whom it concerns.
SkullsAreShown ==
    \A v, p \in playing : shown[v][p] = GetSkullClient(Fight, v, p)

FightsAgree == FightsFree /\ SkullsAreShown

=============================================================================
