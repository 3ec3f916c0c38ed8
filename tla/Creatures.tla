----------------------------- MODULE Creatures -----------------------------
(***************************************************************************)
(* Creatures in the game: how they are placed, looked after, killed,       *)
(* removed and at last freed, with their summons and the spawn that        *)
(* replaces those it has lost.                                             *)
(*                                                                         *)
(* A Creature object is counted by those who hold it: the game, from its   *)
(* placement to the cleanup after its removal, the list of creatures to    *)
(* check, its master, and its spawn.  Its address is used again after it   *)
(* is freed.  Which of the lists a creature is put into is random, so a    *)
(* check looks after any of them.                                          *)
(***************************************************************************)
EXTENDS Integers, FiniteSets, FiniteSetsExt

CONSTANTS
    Monsters, Tamer,    \* addresses of monsters, and of a player
    Nobody,             \* a null pointer
    Places,             \* the ids of the one spawn: spawnMap
    Blockable,          \* those whose monster is isBlockable
    MaxAnnounced        \* bound: how often a place is announced at once

Creature == Monsters \cup {Tamer}

ASSUME CreatureAssumption ==
    /\ Nobody \notin Creature /\ Tamer \notin Monsters /\ IsFiniteSet(Monsters)
    /\ Places \subseteq Nat \ {0} /\ IsFiniteSet(Places) /\ Blockable \subseteq Places
    /\ MaxAnnounced \in Nat

VARIABLES
    refs,               \* Creature::referenceCounter, freed at 0
    world,              \* those placed and not removed
    alive,              \* those in the world with health above 0
    listed, checked,    \* inCheckCreaturesVector and creatureCheck
    master, summons,
    spawned,            \* Spawn::spawnedMap, pairs of an id and a monster
    ofSpawn,            \* monsters whose pointer Monster::spawn is set
    checkSpawnEvent,    \* is a check of the spawn scheduled?
    appearing,          \* scheduleSpawn: how often each place is announced
    crowded,            \* history: places announced again before the end of it
    releasing           \* ToReleaseCreatures: how often each

creatureVars == <<refs, world, alive, listed, checked, master, summons, spawned,
                  ofSpawn, checkSpawnEvent, appearing, crowded, releasing>>

announceVars == <<appearing, crowded>>

CreatureInit ==
    /\ refs = [c \in Creature |-> 0]
    /\ world = {} /\ alive = {} /\ listed = {} /\ checked = {}
    /\ master = [c \in Creature |-> Nobody]
    /\ summons = [c \in Creature |-> {}]
    /\ spawned = {} /\ ofSpawn = {}
    /\ checkSpawnEvent = TRUE       \* by a death, or a place that was blocked
    /\ appearing = [id \in Places |-> 0] /\ crowded = {}
    /\ releasing = [c \in Creature |-> 0]

-----------------------------------------------------------------------------
(***************************************************************************)
(* What the handlers are made of, as functions on a record of the state.   *)
(***************************************************************************)
Live == [refs |-> refs, world |-> world, alive |-> alive, listed |-> listed,
         checked |-> checked, master |-> master, summons |-> summons, spawned |-> spawned,
         ofSpawn |-> ofSpawn, event |-> checkSpawnEvent, releasing |-> releasing]

Become(g) ==
    /\ refs' = g.refs /\ world' = g.world /\ alive' = g.alive
    /\ listed' = g.listed /\ checked' = g.checked
    /\ master' = g.master /\ summons' = g.summons
    /\ spawned' = g.spawned /\ ofSpawn' = g.ofSpawn
    /\ checkSpawnEvent' = g.event /\ releasing' = g.releasing

Freed == {c \in Creature : refs[c] = 0}

\* decrementReferenceCounter, with the destructor: it lets go of its summons.
Decrement(g, c) ==
    LET orphans == IF g.refs[c] = 1 THEN g.summons[c] ELSE {}
    IN  [g EXCEPT
            !.refs = [d \in Creature |-> @[d] - (IF d = c \/ d \in orphans THEN 1 ELSE 0)],
            !.master = [d \in Creature |->
                IF d \in orphans \/ (d = c /\ g.refs[c] = 1) THEN Nobody ELSE @[d]],
            !.summons[c] = IF g.refs[c] = 1 THEN {} ELSE @,
            !.ofSpawn = IF g.refs[c] = 1 THEN @ \ {c} ELSE @]

\* Game::addCreatureCheck
AddCreatureCheck(g, c) ==
    IF c \in g.listed THEN [g EXCEPT !.checked = @ \cup {c}]
    ELSE [g EXCEPT !.checked = @ \cup {c}, !.listed = @ \cup {c}, !.refs[c] = @ + 1]

\* Monster::setIdle(false)
Wake(g, c) == IF c \in g.alive THEN AddCreatureCheck(g, c) ELSE g

\* Game::placeCreature of a new object
PlaceCreature(g, c) ==
    AddCreatureCheck([g EXCEPT !.world = @ \cup {c}, !.alive = @ \cup {c},
                               !.refs[c] = @ + 1], c)

AddSummon(g, m, c) ==
    [g EXCEPT !.master[c] = m, !.summons[m] = @ \cup {c}, !.refs[c] = @ + 1]

RemoveSummon(g, m, c) ==
    Decrement([g EXCEPT !.master[c] = Nobody, !.summons[m] = @ \ {c}], c)

\* of those who die or are convinced: each summon loses its health
DestroySummons(g, m) ==
    FoldSet(LAMBDA s, h :
              LET woken == Wake(h, s)
              IN  Decrement([woken EXCEPT !.alive = @ \ {s}, !.master[s] = Nobody], s),
            [g EXCEPT !.summons[m] = {}], g.summons[m])

\* mutant: the spawn does not hear of it
RemovedUnheard(g, c) ==
    LET left == IF g.master[c] # Nobody /\ g.master[c] \in g.world
                THEN RemoveSummon(g, g.master[c], c) ELSE g
    IN  [left EXCEPT !.world = @ \ {c}, !.alive = @ \ {c},
                     !.checked = @ \ (g.listed \cap {c}),
                     !.releasing[c] = @ + 1]

\* onRemoveCreature of the creature itself, and what removeCreature does then;
\* a master who has been removed before keeps the summon.
RemoveOne(g, c) ==
    LET left == IF g.master[c] # Nobody /\ g.master[c] \in g.world
                THEN RemoveSummon(g, g.master[c], c) ELSE g
    IN  [left EXCEPT !.event = @ \/ c \in g.ofSpawn,
                     !.world = @ \ {c}, !.alive = @ \ {c},
                     !.checked = @ \ (g.listed \cap {c}),
                     !.releasing[c] = @ + 1]

\* Game::removeCreature; a summon has no summons of its own.
RemoveCreature(g, c) ==
    FoldSet(LAMBDA s, h : IF s \in h.world THEN RemoveOne(h, s) ELSE h,
            RemoveOne(g, c), RemoveOne(g, c).summons[c])

-----------------------------------------------------------------------------
\* a login, and a monster's summon or a player's
TamerEnters ==
    /\ refs[Tamer] = 0
    /\ Become(PlaceCreature(Live, Tamer))
    /\ UNCHANGED announceVars

Summon(m, s) ==
    /\ m \in alive \cap checked /\ master[m] = Nobody
    /\ s \in Monsters \cap Freed
    /\ Become(PlaceCreature(AddSummon(Live, m, s), s))
    /\ UNCHANGED announceVars

\* someone to attack appears, and is gone
SetIdleFalse(m) ==
    /\ m \in world \cap Monsters
    /\ Become(Wake(Live, m))
    /\ UNCHANGED announceVars

SetIdleTrue(m) ==
    /\ m \in alive \cap Monsters
    /\ master[m] = Nobody
    /\ Become([Live EXCEPT !.checked = @ \ (listed \cap {m})])
    /\ UNCHANGED announceVars

\* Monster::changeHealth, the last time
Killed(m) ==
    /\ m \in alive \cap Monsters
    /\ Become([Wake(Live, m) EXCEPT !.alive = @ \ {m}])
    /\ UNCHANGED announceVars

\* Creature::onDeath
OnDeath(g, m) ==
    LET died == DestroySummons(g, m)
    IN  RemoveCreature(IF died.master[m] # Nobody THEN RemoveSummon(died, died.master[m], m)
                       ELSE died, m)

Unlist(g, c) == [g EXCEPT !.listed = @ \ {c}, !.releasing[c] = @ + 1]

\* Game::cleanup
Cleanup(g) ==
    FoldSet(LAMBDA c, h :
              IF g.releasing[c] = 0 THEN h
              ELSE Decrement([h EXCEPT !.refs[c] = @ - (g.releasing[c] - 1)], c),
            [g EXCEPT !.releasing = [c \in Creature |-> 0]], Creature)

\* one of the list: Game::checkCreatures
CheckCreature(g, c) ==
    IF c \notin g.checked THEN Unlist(g, c)
    ELSE IF c \in g.world \ g.alive THEN OnDeath(g, c)
    ELSE g

\* whichever creatures the random choice has put into the list of this turn
CheckCreatures(list) ==
    /\ list \subseteq listed
    /\ Become(Cleanup(FoldSet(LAMBDA c, g : CheckCreature(g, c), Live, list)))
    /\ UNCHANGED announceVars

\* a script, a summon too far from its master, a logout
RemoveFromGame(c) ==
    /\ c \in world
    /\ Become(RemoveCreature(Live, c))
    /\ UNCHANGED announceVars

\* Monster::convinceCreature
Convince(m) ==
    /\ {m, Tamer} \subseteq world /\ m \in Monsters
    /\ master[m] # Tamer
    /\ LET freed == IF master[m] = Nobody THEN Live ELSE RemoveSummon(Live, master[m], m)
           tamed == Wake(DestroySummons(AddSummon(freed, Tamer, m), m), m)
           places == {e \in spawned : e[2] = m}
       IN  Become(IF m \in ofSpawn
                  THEN Decrement([tamed EXCEPT !.spawned = @ \ places, !.ofSpawn = @ \ {m}], m)
                  ELSE tamed)
    /\ UNCHANGED announceVars

-----------------------------------------------------------------------------
(***************************************************************************)
(* The spawn.                                                              *)
(***************************************************************************)
\* Spawn::cleanup: the removed make room, and so do those who have strayed.
SpawnCleanup(g, far) ==
    LET gone == {e[2] : e \in g.spawned} \ g.world
        kept == {e \in g.spawned : e[2] \notin gone}
    IN  FoldSet(LAMBDA m, h : Decrement(h, m),
                [g EXCEPT !.spawned = {IF e[2] \in far THEN <<0, e[2]>> ELSE e : e \in kept}],
                gone)

\* Spawn::spawnMonster
SpawnMonster(g, id, m) ==
    LET placed == PlaceCreature(g, m)
    IN  [placed EXCEPT !.spawned = @ \cup {<<id, m>>}, !.ofSpawn = @ \cup {m},
                       !.refs[m] = @ + 1]

Filled(g) == {e[1] : e \in g.spawned}

\* The first of scheduleSpawn.
Announce(id) ==
    /\ appearing[id] < MaxAnnounced
    /\ appearing' = [appearing EXCEPT ![id] = @ + 1]
    /\ crowded' = IF appearing[id] = 0 THEN crowded \ {id} ELSE crowded \cup {id}

\* Spawn::checkSpawn.  At most rateSpawn = 1 of the places without a monster
\* gets one, if it is due: at once if it is blockable and no player is near,
\* else it is announced.  That takes more than four seconds and the place stays
\* empty and due, also for the next check, which comes after two at least.
CheckSpawn(far) ==
    /\ checkSpawnEvent
    /\ LET g == SpawnCleanup([Live EXCEPT !.event = FALSE], far)
           again(h) == [h EXCEPT !.event = Cardinality(h.spawned) < Cardinality(Places)]
       IN  \/ Become(again(g)) /\ UNCHANGED announceVars
           \/ \E id \in Places \ (Blockable \cup Filled(g)) :
                 Become(again(g)) /\ Announce(id)
           \/ \E id \in Blockable \ Filled(g), m \in Monsters :
                 /\ g.refs[m] = 0
                 /\ Become(again(SpawnMonster(g, id, m)))
                 /\ UNCHANGED announceVars

\* The last of scheduleSpawn does not look whether the place is still empty;
\* it may be blocked for good.
Appear(id) ==
    /\ appearing[id] > 0
    /\ appearing' = [appearing EXCEPT ![id] = @ - 1]
    /\ UNCHANGED crowded
    /\ \/ \E m \in Monsters \cap Freed : Become(SpawnMonster(Live, id, m))
       \/ Become(Live)

CreatureNext ==
    \/ TamerEnters
    \/ \E list \in SUBSET listed : CheckCreatures(list)
    \/ \E far \in SUBSET (world \cap Monsters) : CheckSpawn(far)
    \/ \E id \in Places : Appear(id)
    \/ \E c \in Creature : RemoveFromGame(c)
    \/ \E m \in Monsters : SetIdleFalse(m) \/ SetIdleTrue(m) \/ Killed(m) \/ Convince(m)
    \/ \E m \in Creature, s \in Monsters : Summon(m, s)

CreatureSpec == CreatureInit /\ [][CreatureNext]_creatureVars

-----------------------------------------------------------------------------
One(condition) == IF condition THEN 1 ELSE 0

\* Each reference is counted once: a creature is freed with the last who holds
\* it, and under nobody.
EachHolderCounts ==
    \A c \in Creature :
        refs[c] = One(c \in world) + releasing[c] + One(c \in listed)
                  + Cardinality({m \in Creature : c \in summons[m]})
                  + Cardinality({e \in spawned : e[2] = c})

\* Pointers a creature does not count are cleared before their target is freed,
\* and a summon has one master, who knows it.
PointersLive ==
    \A c \in Creature :
        /\ master[c] # Nobody => refs[master[c]] > 0 /\ c \in summons[master[c]]
        /\ c \in world => (c \in ofSpawn <=> c \in {e[2] : e \in spawned})

\* Nobody lies dead in the game without being looked after.
DeadAreChecked == (world \ alive) \subseteq (listed \cap checked)

\* A place does not hold two monsters of its own, unless it was announced
\* again before it had the first.
OneForEachPlace ==
    \A d, e \in spawned : d[1] = e[1] /\ d[1] # 0 /\ d[1] \notin crowded => d = e

\* Whoever is removed will be freed: those who still hold it let go of it at
\* the next check of its list, at the next check of the spawn, which is due, or
\* when its master is freed, who has been removed as well.
RemovedAreFreed ==
    \A c \in Creature : c \notin world =>
        /\ c \in listed => c \notin checked
        /\ c \in {e[2] : e \in spawned} => checkSpawnEvent
        /\ master[c] # Nobody => master[c] \notin world /\ master[master[c]] = Nobody

\* A creature is freed when the last who counts it lets go, nobody points to
\* one that was freed, and what has left the game does get freed; each place
\* has one monster of its own, unless a check came too soon after another, and
\* whoever dies is noticed, however long nobody was near
\* (incrementReferenceCounter, ~Creature, checkSpawn, changeHealth).
CreaturesAgree ==
    /\ EachHolderCounts /\ PointersLive /\ RemovedAreFreed
    /\ DeadAreChecked /\ OneForEachPlace

=============================================================================
