------------------------------ MODULE TileViews ------------------------------
(***************************************************************************)
(* What a client shows of the map.  The server sends no picture but what   *)
(* changes: a thing comes to, changes at, or leaves the n-th place of a    *)
(* tile.  A client shows ten things of a tile, and drops what is pushed    *)
(* beyond.  Whom a change is sent to comes from a cache that is emptied    *)
(* when a creature comes, goes or moves, and by the next task.             *)
(*                                                                         *)
(* One player's client watches a line of tiles of one floor; other         *)
(* creatures come and go, walk, and hide; items are put down, changed and  *)
(* taken away.  The ground of a tile stays.  Places are counted from 1, and*)
(* 0 stands for the -1 of the code.                                        *)
(***************************************************************************)
EXTENDS Integers, SequencesExt, Lists

CONSTANTS
    Row,                \* the number of tiles
    Watcher,            \* the player whose client it is
    Others,             \* creatures; they may hide from the watcher
    TopItems, Order,    \* items always on top: their alwaysOnTopOrder
    Splashes,           \* those of them that are splashes
    DownItems, Fields,  \* the other items, and the magic fields of them
    Alike,              \* what an item may be changed into, its place kept
    Soil,
    Sight, Earshot,     \* how far a client sees, and how far spectators stand
    Shown,              \* 10: things of a tile that a client shows
    NotCached,
    MaxSteps            \* bound: what happens in one task

Spots == 1..Row
Walkers == Others \cup {Watcher}

ASSUME TileViewsAssumption ==
    /\ Row \in Nat \ {0} /\ Sight \in Nat /\ Earshot \in Nat /\ Sight <= Earshot
    /\ Shown \in Nat \ {0, 1} /\ MaxSteps \in Nat
    /\ Splashes \subseteq TopItems /\ Fields \subseteq DownItems
    /\ Order \in [TopItems -> Nat]
    /\ Alike \subseteq (TopItems \X TopItems) \cup (DownItems \X DownItems)
    /\ Watcher \notin Others /\ Soil \notin Walkers \cup TopItems \cup DownItems
    /\ Walkers \cap (TopItems \cup DownItems) = {} /\ TopItems \cap DownItems = {}
    /\ NotCached \notin SUBSET {Watcher}

VARIABLES
    topItems, downItems,    \* of each tile, as the code keeps them: TileItemVector
    creatures,              \* and CreatureVector, from its end: the last to come last
    hidden,                 \* invisible monsters and players in ghost mode
    clientTiles,            \* what the client shows; external
    spectatorCache, playersSpectatorCache, \* of each tile, as far as the watcher goes
    steps,                  \* taken in this task
    lacking                 \* history: tiles of which the client was not told all

viewVars == <<topItems, downItems, creatures, hidden, clientTiles,
              spectatorCache, playersSpectatorCache, steps, lacking>>

\* what a handler works on; what a client shows of a tile that it was not told
\* all of is left out
Map == [top |-> topItems, down |-> downItems, who |-> creatures, hidden |-> hidden,
        view |-> clientTiles, cache |-> spectatorCache, players |-> playersSpectatorCache,
        lacking |-> lacking]

MapBecomes(next) == \E m \in {next} :
    /\ topItems' = m.top /\ downItems' = m.down /\ creatures' = m.who /\ hidden' = m.hidden
    /\ clientTiles' = [t \in Spots |-> IF t \in m.lacking THEN <<>> ELSE m.view[t]]
    /\ lacking' = m.lacking
    /\ spectatorCache' = m.cache /\ playersSpectatorCache' = m.players
    /\ steps' = steps + 1

-----------------------------------------------------------------------------
(***************************************************************************)
(* What there is to see.                                                   *)
(***************************************************************************)

Stands(m, c) == {t \in Spots : c \in ToSet(m.who[t])}

TileOfCreature(m, c) == CHOOSE t \in Spots : c \in ToSet(m.who[t])

Apart(a, b) == IF a < b THEN b - a ELSE a - b

\* ProtocolGameBase::canSee
CanSee(m, t) == Apart(TileOfCreature(m, Watcher), t) <= Sight

\* the creatures that Player::canSeeCreature, in the order of the client
Seen(m, t) == Chosen(m.who[t], Walkers \ m.hidden)

AllShown(m, t) == <<Soil>> \o m.top[t] \o Seen(m, t) \o m.down[t]

Cut(list) == SubSeq(list, 1, IF Len(list) < Shown THEN Len(list) ELSE Shown)

\* ProtocolGameBase::GetTileDescription
TileDescription(m, t) == Cut(AllShown(m, t))

\* Tile::getThingCount
ThingCount(m, t) == 1 + Len(m.top[t]) + Len(m.who[t]) + Len(m.down[t])

PlaceOf(x, list) == SelectInSeq(list, LAMBDA y : y = x)

\* Tile::getClientIndexOfCreature
ClientIndexOfCreature(m, t, c) ==
    1 + Len(m.top[t]) + PlaceOf(c, Chosen(m.who[t], (Walkers \ m.hidden) \cup {c}))

Within(n) == IF n <= Shown THEN n ELSE 0

\* Tile::getStackposOfCreature
StackposOfCreature(m, t, c) == Within(ClientIndexOfCreature(m, t, c))

\* Tile::getStackposOfItem
StackposOfItem(m, t, i) ==
    IF i \in TopItems THEN Within(1 + PlaceOf(i, m.top[t]))
    ELSE Within(1 + Len(m.top[t]) + Len(Seen(m, t)) + PlaceOf(i, m.down[t]))

-----------------------------------------------------------------------------
(***************************************************************************)
(* The client, as the code uses it.                                        *)
(***************************************************************************)

\* 0x6A
Inserted(list, n, thing) == Cut(InsertAt(list, IF n <= Len(list) THEN n ELSE Len(list) + 1, thing))

\* 0x6C
Erased(list, n) == IF n \in DOMAIN list THEN RemoveAt(list, n) ELSE list

\* 0x6B
Changed(list, n, thing) == IF n \in DOMAIN list THEN ReplaceAt(list, n, thing) ELSE list

\* 0x6D: a creature comes behind the other creatures
Arrived(list, c) ==
    LET n == SelectInSeq(list, LAMBDA x : x \in DownItems)
    IN  Inserted(list, IF n = 0 THEN Len(list) + 1 ELSE n, c)

\* 0x6D of what the client has not at that place does nothing; on a tile that it
\* was not told all of it may have it there or not
Stepped(m, c, from, t, old, has) ==
    IF IF from \in m.lacking THEN has ELSE old \in DOMAIN m.view[from] /\ m.view[from][old] = c
    THEN [m EXCEPT !.view[from] = Erased(@, old), !.view[t] = Arrived(@, c)]
    ELSE [m EXCEPT !.lacking = @ \cup {t}]

\* 0x64, 0x69: what is described is complete
Described(m, tiles) ==
    [m EXCEPT !.view = [t \in Spots |-> IF t \in tiles THEN TileDescription(m, t)
                                         ELSE m.view[t]],
              !.lacking = @ \ tiles]

\* the client forgets what is out of sight
OnlyInSight(m) ==
    [m EXCEPT !.view = [t \in Spots |-> IF CanSee(m, t) THEN m.view[t] ELSE <<>>],
              !.lacking = {t \in m.lacking : CanSee(m, t)}]

-----------------------------------------------------------------------------
(***************************************************************************)
(* Whom to tell.                                                           *)
(***************************************************************************)

\* mutant: what was asked before is still answered
KeepSpectatorCache(m) == m

\* Map::clearSpectatorCache
ClearSpectatorCache(m) ==
    [m EXCEPT !.cache = [t \in Spots |-> NotCached], !.players = [t \in Spots |-> NotCached]]

\* Map::getSpectatorsInternal
InRangeOf(m, t) == IF Apart(TileOfCreature(m, Watcher), t) <= Earshot THEN {Watcher} ELSE {}

\* Map::getSpectators into a list that may have some already, which are kept
\* in the cache with the others
Spectators(m, t, list) ==
    list \cup (IF m.cache[t] # NotCached THEN m.cache[t] ELSE InRangeOf(m, t))

Asked(m, t, list) ==
    IF m.cache[t] # NotCached THEN m ELSE [m EXCEPT !.cache[t] = Spectators(m, t, list)]

\* the same of players only
PlayerSpectators(m, t) ==
    IF m.players[t] # NotCached THEN m.players[t] ELSE Spectators(m, t, {})

AskedPlayers(m, t) ==
    IF m.players[t] # NotCached \/ m.cache[t] # NotCached THEN m
    ELSE [m EXCEPT !.players[t] = InRangeOf(m, t)]

\* a message to the spectators that have been found
Tell(m, list, t, tile) ==
    IF Watcher \in list /\ CanSee(m, t) THEN [m EXCEPT !.view[t] = tile] ELSE m

\* Tile::postRemoveNotification: what comes into the tenth place was not shown
PostRemove(m, t) ==
    IF ThingCount(m, t) > Shown - 2 /\ Watcher \in PlayerSpectators(m, t) /\ CanSee(m, t)
    THEN Described(AskedPlayers(m, t), {t})
    ELSE AskedPlayers(m, t)

\* Tile::postAddNotification
PostAdd(m, t) == AskedPlayers(m, t)

-----------------------------------------------------------------------------
(***************************************************************************)
(* Items.                                                                  *)
(***************************************************************************)

\* Tile::onAddTileItem
OnAddTileItem(m, t, i) ==
    LET n == StackposOfItem(m, t, i)
        list == Spectators(m, t, {})
    IN  IF n = 0 THEN Asked(m, t, {})
        ELSE Tell(Asked(m, t, {}), list, t, Inserted(m.view[t], n, i))

\* Tile::removeThing of a whole item, and Tile::onRemoveTileItem
TakeAway(m, t, i) ==
    LET n == StackposOfItem(m, t, i)
        gone == [Asked(m, t, {}) EXCEPT !.top[t] = Chosen(@, TopItems \ {i}),
                                        !.down[t] = Chosen(@, DownItems \ {i})]
    IN  IF n = 0 THEN gone
        ELSE Tell(gone, Spectators(m, t, {}), t, Erased(m.view[t], n))

\* the old splash, or magic field, makes room for the new one
MakeRoom(m, t, i) ==
    LET old == IF i \in Splashes THEN Chosen(m.top[t], Splashes)
               ELSE IF i \in Fields THEN Chosen(m.down[t], Fields) ELSE <<>>
    IN  IF old = <<>> THEN m ELSE PostRemove(TakeAway(m, t, Head(old)), t)

OnTop(list, i) ==
    LET k == SelectInSeq(list, LAMBDA j : Order[i] <= Order[j])
    IN  IF k = 0 THEN Append(list, i) ELSE InsertAt(list, k, i)

Lies(i) == \E t \in Spots : i \in ToSet(topItems[t]) \cup ToSet(downItems[t])

\* Tile::addThing of an item
AddTileItem(t, i) ==
    /\ ~Lies(i)
    /\ LET room == MakeRoom(Map, t, i)
           laid == IF i \in TopItems THEN [room EXCEPT !.top[t] = OnTop(@, i)]
                   ELSE [room EXCEPT !.down[t] = <<i>> \o @]
       IN  MapBecomes(PostAdd(OnAddTileItem(laid, t, i), t))

\* Game::internalRemoveItem
RemoveTileItem(t, i) ==
    /\ i \in ToSet(topItems[t]) \cup ToSet(downItems[t])
    /\ MapBecomes(PostRemove(TakeAway(Map, t, i), t))

\* Tile::updateThing and Tile::replaceThing: j comes to the place of i
Replaced(m, t, i, j) ==
    [m EXCEPT !.top[t] = ReplaceAll(@, i, j), !.down[t] = ReplaceAll(@, i, j)]

\* the same with Tile::onUpdateTileItem
Updated(m, t, i, j) ==
    LET after == Replaced(m, t, i, j)
        n == StackposOfItem(after, t, j)
    IN  IF n = 0 THEN Asked(after, t, {})
        ELSE Tell(Asked(after, t, {}), Spectators(after, t, {}), t, Changed(after.view[t], n, j))

\* Game::transformItem into an item of the same type, or of another
TransformTileItem(t, i, j) ==
    /\ <<i, j>> \in Alike /\ i \in ToSet(topItems[t]) \cup ToSet(downItems[t]) /\ ~Lies(j)
    /\ \/ MapBecomes(PostAdd(Updated(PostRemove(Map, t), t, i, j), t))
       \/ MapBecomes(PostRemove(PostAdd(Updated(Map, t, i, j), t), t))

-----------------------------------------------------------------------------
(***************************************************************************)
(* Creatures.                                                              *)
(***************************************************************************)

\* ProtocolGameBase::sendAddCreature
SendAddCreature(m, list, t, c) ==
    LET n == StackposOfCreature(m, t, c)
    IN  IF n = 0 THEN m ELSE Tell(m, list, t, Inserted(m.view[t], n, c))

\* Game::placeCreature
PlaceOnTile(c, t) ==
    /\ Stands(Map, c) = {}
    /\ LET placed == ClearSpectatorCache([Map EXCEPT !.who[t] = Append(@, c)])
       IN  MapBecomes(PostAdd(
             SendAddCreature(Asked(placed, t, {}), Spectators(placed, t, {}), t, c), t))

\* Game::removeCreature
RemoveFromTile(c) ==
    \E t \in Stands(Map, c) :
        LET n == IF c \in hidden THEN 0 ELSE StackposOfCreature(Map, t, c)
            gone == ClearSpectatorCache([Asked(Map, t, {})
                       EXCEPT !.who[t] = Chosen(@, Walkers \ {c}), !.hidden = @ \ {c}])
        IN  MapBecomes(PostRemove(
              IF n = 0 THEN gone
              ELSE Tell(gone, Spectators(Map, t, {}), t, Erased(gone.view[t], n)), t))

\* the watcher's own step; ProtocolGame::sendMoveCreature
SendOwnMove(m, from, t, old, teleport, has) ==
    LET seen == {u \in Spots : CanSee(m, u)}
        known == {u \in Spots : Apart(from, u) <= Sight}
    IN  OnlyInSight(IF teleport \/ old > Shown THEN Described(m, seen)
                    ELSE Described(Stepped(m, Watcher, from, t, old, has), seen \ known))

\* the move of another
SendOthersMove(m, c, from, t, old, teleport, has) ==
    LET left == IF old <= Shown /\ CanSee(m, from) THEN [m EXCEPT !.view[from] = Erased(@, old)]
                ELSE m
    IN  IF CanSee(m, from) /\ CanSee(m, t) /\ ~teleport /\ old <= Shown
        THEN Stepped(m, c, from, t, old, has)
        ELSE SendAddCreature(left, {Watcher}, t, c)

\* Map::moveCreature: the spectators of both tiles, the step, and the messages
AskedBoth(m, from, t) == Asked(Asked(m, from, {}), t, Spectators(m, from, {}))

Walked(m, c, from, t) ==
    ClearSpectatorCache([AskedBoth(m, from, t) EXCEPT !.who[from] = Chosen(@, Walkers \ {c}),
                                                      !.who[t] = Append(@, c)])

Walking(m, c, from, t, teleport, has) ==
    LET list == Spectators(Asked(m, from, {}), t, Spectators(m, from, {}))
        old == ClientIndexOfCreature(m, from, c)
        moved == Walked(m, c, from, t)
    IN  IF Watcher \notin list \/ c \in m.hidden THEN moved
        ELSE IF c = Watcher THEN SendOwnMove(moved, from, t, old, teleport, has)
        ELSE SendOthersMove(moved, c, from, t, old, teleport, has)

MoveOnMap(c, t, forceTeleport) ==
    \E from \in Stands(Map, c) \ {t}, has \in BOOLEAN :
        LET teleport == forceTeleport \/ Apart(from, t) > 1
        IN  MapBecomes(PostAdd(PostRemove(Walking(Map, c, from, t, teleport, has), from), t))

\* Player::sendCreatureChangeVisible of a monster, luaPlayerSetGhostMode of a
\* player: what was beyond the tenth place is not sent
Hide(c) ==
    /\ c \in Others \ hidden
    /\ \E t \in Stands(Map, c) :
        LET n == StackposOfCreature(Map, t, c)
            away == [AskedPlayers(Map, t) EXCEPT !.hidden = @ \cup {c}]
            told == Tell(away, PlayerSpectators(Map, t), t, Erased(away.view[t], n))
        IN  MapBecomes(IF n = 0 THEN away
                       ELSE IF Len(AllShown(Map, t)) > Shown /\ CanSee(Map, t)
                       THEN [told EXCEPT !.lacking = @ \cup {t}]
                       ELSE told)

Show(c) ==
    /\ c \in hidden
    /\ \E t \in Stands(Map, c) :
        LET back == [AskedPlayers(Map, t) EXCEPT !.hidden = @ \ {c}]
        IN  MapBecomes(SendAddCreature(back, PlayerSpectators(Map, t), t, c))

\* the dispatcher takes the next task
NextTask ==
    /\ steps > 0
    /\ steps' = 0
    /\ spectatorCache' = [t \in Spots |-> NotCached]
    /\ playersSpectatorCache' = [t \in Spots |-> NotCached]
    /\ UNCHANGED <<topItems, downItems, creatures, hidden, clientTiles, lacking>>

-----------------------------------------------------------------------------
ViewInit ==
    /\ topItems = [t \in Spots |-> <<>>] /\ downItems = [t \in Spots |-> <<>>]
    /\ creatures = [t \in Spots |-> IF t = 1 THEN <<Watcher>> ELSE <<>>]
    /\ hidden = {} /\ lacking = {} /\ steps = 0
    /\ clientTiles = [t \in Spots |->
         IF t = 1 THEN Cut(<<Soil, Watcher>>) ELSE IF t <= 1 + Sight THEN <<Soil>> ELSE <<>>]
    /\ spectatorCache = [t \in Spots |-> NotCached]
    /\ playersSpectatorCache = [t \in Spots |-> NotCached]

\* what some creatures and the watcher do, with some of the items
MapChanges(who, items, limit) ==
    /\ steps < limit
    /\ \/ \E t \in Spots, i \in items : AddTileItem(t, i) \/ RemoveTileItem(t, i)
       \/ \E t \in Spots, i, j \in items : TransformTileItem(t, i, j)
       \/ \E t \in Spots, c \in who \cup {Watcher}, teleport \in BOOLEAN :
             MoveOnMap(c, t, teleport)
       \/ \E c \in who : \/ \E t \in Spots : PlaceOnTile(c, t)
                         \/ RemoveFromTile(c) \/ Hide(c) \/ Show(c)

ViewNext == MapChanges(Others, TopItems \cup DownItems, MaxSteps) \/ NextTask

ViewSpec == ViewInit /\ [][ViewNext]_viewVars

-----------------------------------------------------------------------------
\* Every tile in sight is shown as the server would describe it now, whatever
\* the order in which things came, went, moved and hid, but where a creature
\* has hidden on a tile of more than ten things since (getStackposOf...,
\* sendMoveCreature, onAddTileItem, onRemoveTileItem, postRemoveNotification).
ViewAgrees ==
    \A t \in Spots \ lacking :
        CanSee(Map, t) => clientTiles[t] = TileDescription(Map, t)

=============================================================================
