# TLA+ models of the Gacha-and-Fragments server

The repository is a game server (a fork of The Forgotten Server, C++ with Lua
scripts) in which a player collects *vocations*: keys buy fragments, a hundred
fragments unlock a vocation, more fragments and coins buy its stars, and the
player switches between the vocations they own. This directory holds TLA+
models of the parts of that program whose correctness is hard to see in tests,
the TLC configurations that check them, and proofs for TLAPS.

`PROJECT.json` is the index: components, runs, mutants (a plausible bug for
every checked property, with which TLC finds the property violated), the source
lines every definition models, the hazards, the findings and the theorems.

## 1. The system

One thread, the *dispatcher*, runs the whole game: every packet, timer and
database answer becomes a task in its list, and a task runs to its end before
the next begins. Around it there are the main thread (boost::asio: sockets,
signals), the *scheduler* (timers) and the *database tasks* thread
(queries nobody waits for). Inside a task there is no concurrency, so what can
go wrong is of two kinds: the threads and lists around the dispatcher, and
sequences of whole tasks, of several players, that leave game state in a shape
a later task does not expect.

| Component | State | Operations | Talks to | Hard because | Modelled in |
|---|---|---|---|---|---|
| Vocation roster (`player.cpp`, `bonus.cpp`, Lua scripts) | `Player::vocations`, `vocation`, `level`, `experience`, damage factor, keys | draw, unlock, upgrade, switch, gain and lose experience, grants of the staff | persistence, coins | every function acts on the *first* entry of a vocation; locked and owned entries can coexist; copies of level and experience go stale | `Roster`, `PlayerVocations` |
| Player persistence (`iologindata.cpp`) | rows of players, player_storage, player_vocations | loadPlayer, savePlayer | roster, login | crash between steps, rows in any order, failed saves | `PlayerVocations` (partly) |
| Engine threads (`tasks`, `scheduler`, `databasetasks`, `otserv`, `signals`) | task list, event queue and ids, query list, three thread states | addTask, addEvent, stopEvent, threadMain, stop, shutdown, join | everything | lost wake-ups, late timeouts, shutdown beside running threads | `Dispatcher`, `Scheduler`, `DatabaseTasks`, `ServerThreads` |
| Coins (`game.cpp`, `player.cpp`) | stacks in slots and containers | addMoney, removeMoney, removeItemOfType, internalAddItem | roster (price of a star), shops, market | change, partial room, coins that are both money and items | `Money` |
| Connections, output (`connection`, `outputmessage`, `protocol`, `server`) | socket, message queue, timers, autosend list | accept, read, write, close, flush | dispatcher | close against pending operations, two threads and one recursive lock | `Connections` |
| Login, waiting list (`protocolgame`, `waitlist`) | online players, their clients, slots of the list | login, reconnect, logout, kick, queue | persistence, connections | two logins of one character, timeouts of waiting slots | `Sessions`, `WaitingList` |
| Spectators and casts | casts, viewers, references to the player | start, stop, join, leave, release | connections | viewer outlives cast, references counted by hand | `LiveCasts` |
| Safe trade (`game.cpp`) | trade partner, state and item of each player | request, accept, look, close | containers, coins | four states of two players, items that move meanwhile | `SafeTrade` |
| Party (`party.cpp`) | leader, members, invitations, shared experience | invite, join, leave, pass, disband | players, chat | symmetric references between objects | `Party` |
| Chat, guilds (`chat.cpp`, `guild.cpp`) | channels, users, invitations, members online | open, join, leave, invite, exclude | players | membership after logout; the last member frees the object | `PrivateChannels`, `Guilds`, `Party` |
| Market (`iomarket`, `game.cpp`) | offers, history, depot, bank | create, cancel, accept, expire | database tasks, depot | answers of queries that come later than the state they were asked in | `Market` |
| Creatures, monsters, spawns | references, check lists, summons, spawned monsters, timers | place, check, die, remove, convince, spawn, free | scheduler | references counted by hand; removal while others point to it | `Creatures` |
| Decay, release lists | buckets, `ToReleaseItems` | start, stop, check, cleanup | scheduler, items | reference counts across buckets, times rounded to lists | `Decay` |
| Containers, inventories, tiles (`container`, `player`, `tile`, `game.cpp`) | parents, counts, remembered weights, open windows | move, merge, split, exchange, remove, open, close, walk away | trade, coins, decay | a move is six calls to two places; weights and windows are copies; a refused second half of an exchange | `Inventory` |
| Houses, beds, map persistence (`house`, `bed`, `iomapserialize`) | owner, lists, sleepers, rent, the stored house | enter, edit lists, kick, sleep, buy, leave, sell, save, load, collect rent | players, safe trade, database | owner stored at once, the rest with the map; dialogs answered late | `Houses` |
| Walking and requests (`creature`, `player`, `game.cpp`) | path, event of the next step, task of a walk, two events of requests | step, walk, follow, stop, teleport, ask for what is far away | scheduler, dispatcher | a request is a task, then an event, then a task again, and everything in between may change it | `Walking` |
| What a client shows (`tile`, `map`, `protocolgame`) | tiles, caches of spectators, the picture of the client | put, take, change, place, move, hide, remove | containers, creatures | only differences are sent, as places counted for each client, of ten that it shows | `TileViews` |
| Conditions, outfits, mounts (`condition`, `creature`, `player`, `movement`) | list of conditions, speed, skills, outfits, mount | add, renew, end, dispel, force, equip, mount, dress | walking (a step delays a change of speed), persistence | a condition takes away later what it brought; its time ends before it does | `Conditions` |
| Fights and skulls (`player`, `party`, `protocolgame`) | who attacked whom, lock, skull and its time, what clients show | attack, kill, end of the fight, time | party, conditions, persistence | what a client should show depends on who looks, and is only sent when somebody remembers to | `Fights` |
| Raids; path finding; damage and spells; Lua engine; loaders; status protocol; migrations; crash handler | – | – | – | – | not modelled, see section 7 |

What makes each correct is, in short: nothing a player owns is lost or doubled;
whoever waits is woken; what was accepted is done exactly once, also across a
shutdown or a crash; references between objects are symmetric and end with the
objects; and values copied for speed agree with their origin when they are read.

## 2. Modules

| Module | Models | State → code |
|---|---|---|
| `Roster` | the list operations of `Player` (`addVocation`, `setVocationFragments`, `setVocationStar`, ...) with their Lua bindings, as operators on sequences | the sequence is `Player::vocations`; `First` is where the search loops stop |
| `PlayerVocations` | one player across sessions: each handler is an action, with login, save, logout, death and crash | `vocations`, `current`, `level`, `experience`, `extraDamage` are members of `Player`; `keys` is storage value 10521; `db` is the database's row; `won` is history |
| `TaskQueue` | abstract: two lanes, urgent before ordinary | refined by `Dispatcher` (`TwoLanes`) |
| `Dispatcher` | `Dispatcher::addTask`, `threadMain`, `shutdown` and the closing task of `Game` | `taskList`, `taskState`; `dispatcher` is where the thread is; `signalling` are the threads between unlock and `notify_one` |
| `Scheduler` | `addEvent`, `stopEvent`, `threadMain`, `shutdown` | `eventList`, `eventIds`, `due` (`expiration`), `deadline` of the current wait |
| `DatabaseTasks` | `addTask`, `threadMain`, `runTask`, `flush`, `shutdown` | `tasks`, `inHand`, `closed` (how far the shutdown has come); `accepted`, `executed`, `callbacks` are history |
| `ServerThreads` | the three with the main thread, from the start to `join`, each step a step of one of them or of two (a due event or an answer becomes a task) | `INSTANCE`s of the three; `main`, `serving` (`ServiceManager::running`) |
| `Account` | abstract: a balance, earned, paid, refused, and what is lost of a sum received during a trade | refined by `Money` (`KeepsAccounts`) |
| `Money` | `addMoney`, `removeMoney`, `removeItemOfType`, `internalAddItem`, `queryDestination`, `queryMaxCount` for coins; the price of a star | `purse.slots`, `purse.bag` (oldest first); `purse.offered` is the place of `Player::tradeItem`, a stack or the bag; `purse.fallen`, `purse.lost` and `receipt` are history |
| `Players` | who is in the game | `online`, shared by the modules below |
| `Party` | `Party` and its callers in `Game`, `Player` and `Chat` | `partyOf`, `invitations` of `Player`; `parties` are the objects by address; `partyChannels` of `Chat` |
| `PrivateChannels` | the private channels of `Chat` | `privateChannels` by id, with owner, invited and users |
| `Guilds` | membership, the count of members online, guild channels | `guildOf`, `guilds`, `membersOnline`, `guildChannels` |
| `SafeTrade` | request, acceptance, exchange, and everything that ends a trade | `tradeState`, `tradePartner`, `tradeItem` of `Player`, `tradeItems` of `Game`; `place` is an item's parent |
| `Sessions` | `ProtocolGame` from the first message to its release, takeover, logout, kick, and the thinks that throw out who is not heard of or idle | `playerOf`, `clientOf`, `isConnecting`, `eventConnect`; `noPong`, `idleTime` count the thinks since `lastPong` and of `idleTime`; `standing` is what `canLogout` looks at; `connection` as the network thread leaves it; `loginTask`, `releaseTask` are in the task list |
| `Connections` | `Connection`, `ConnectionManager`, `OutputMessagePool`, `Protocol::send` | `state`, `socket`, `messageQueue`, `outputBuffer`, `bufferedProtocols`; `writes`, `reading`, `sendAllEvents`, `releaseOwed` are what is under way; `wire` is history |
| `LiveCasts` | casts, spectators and the references to the player they watch | `references` is `Player::referenceCounter`; `liveCasts`, `spectators`, `watched` |
| `WaitingList` | `WaitingList::clientLogin` and its lists | `priorityWaitList`, `waitList`; `misplaced` is by how much their sizes are wrong; `told` is history |
| `Creatures` | placement, the check lists, death, removal, summons, convincing, one spawn, the cleanup | `refs` is `referenceCounter`; `listed`, `checked`, `master`, `summons`, `spawned`, `releasing`; `appearing` are the events of `scheduleSpawn`; `crowded` is history |
| `Decay` | `startDecay`, `checkDecay`, `internalDecayItem`, `cleanup`, equipping | `toDecayItems`, `decayItems`, `lastBucket`, `toReleaseItems`, `itemRefs`; `age` is history |
| `Market` | offers made, accepted, cancelled, expired, settled, of an item or of store coins | `ware` says which; `goods` is the depot or `coins` of an account, `coinItems` are coins in an inbox; `offers` is the table; `expiryQueries`, `results` are the two ends of the asynchronous query |
| `Inventory` | `Game::internalMoveItem` with the `query...`, `addThing`, `removeThing` and notifications of `Player`, `Container` and `Tile`; exchange, open containers, removal, loot | `parent`, `slot`, `count` are the tree of items; `totalWeight` of a container, `inventoryWeight` of a player, `openContainers` by window; `made` is history |
| `Houses` | `House`, `HouseTile::queryAdd`, `BedItem`, the spells, scripts and trade of a house, `IOMapSerialize`, `payHouses` | `owner`, `lists`, `rentWarnings`, `sleeper`, `bedSleepersMap`; `houseRow`, `storedBeds` are the database; `dialog`, `kickDue`, `sale`, `editHouse` are what is under way; `warned`, `restless`, `mixed` are history |
| `Walking` | steps, paths, following, and what waits for them | `listWalkDir`, `eventWalk`, `cancelNextWalk`, `walkTask`, `walkTaskEvent`, `actionTaskEvent`; `tasks` are those of the player in the dispatcher's list; `stranded`, `quiet`, `asked`, `done` are history |
| `TileViews` | `Tile::addThing`, `removeThing`, `onAddTileItem`, ..., `Map::moveCreature`, `getSpectators`, and what `ProtocolGame` makes of them | `topItems`, `downItems`, `creatures` of a tile; `spectatorCache`, `playersSpectatorCache` of `Map`; `clientTiles` is the picture of the client; `lacking` is history |
| `Conditions` | `addCondition`, `removeCondition`, `executeConditions` of `Creature`, the conditions of speed, attributes, invisibility and outfit, gear, mounts, zones | `conditions` is the list, with the time left (0: over, but still listed); `varSpeed`, `varSkill`; `currentOutfit`, `defaultOutfit`, `shownOutfit` (in the clients of others); `forcedAdds`, `forcedRemovals` are events of the scheduler; `row` is the database; `renewed` is history |
| `Fights` | `onAttackedCreature`, `onKilledCreature`, `onEndCondition`, `checkSkullTicks`, `getSkullClient`, the party's refreshes | `attackedSet`, `pzLocked`, `skull`, `skullTicks`, `inFight` (the condition); `shown` is what each client shows; `stored` is the database |
| `MCPlayerVocations` | start values for TLC | |
| `MCPlayer` | `PlayerVocations`, `Conditions`, `Fights` side by side | |
| `MCTimers` | `Scheduler` and `Walking` side by side | |
| `MCSociety` | `Party`, `PrivateChannels`, `Guilds`, `SafeTrade`, `TileViews` side by side | |
| `MCNetwork` | `Sessions`, `Connections`, `LiveCasts`, `WaitingList` side by side | |
| `MCWorld` | `Creatures`, `Decay`, `Market`, `Money`, `DatabaseTasks` side by side | |
| `MCThings` | `Inventory` and `Houses`, each in some smaller settings | |
| `Lists` | what a loop that erases some elements of a list leaves of it | `Chosen` |
| `Facts` | lemmas about sequences, lists that differ by one thing, least elements, sums over finite sets and `Chosen` that several proofs cite | |
| `DispatcherProofs`, `SchedulerProofs`, `ServerProofs` | theorems about the threads, alone and together; `DispatcherProofs` also about `Creatures`, `SchedulerProofs` about `Walking`, `ServerProofs` about `Decay` | |
| `PlayerProofs` | theorems about `Roster`, `PlayerVocations`, `Fights`, `Conditions` | |
| `SocietyProofs` | theorems about `Party`, `PrivateChannels`, `Guilds`, `SafeTrade` and their composition, about `TileViews`, and about `Market` | |
| `NetworkProofs` | theorems about `Sessions`, `LiveCasts`, `Connections`, `WaitingList` and their composition | |
| `WorldProofs` | theorems about `DatabaseTasks`, `Houses` and `Inventory`, and that `MCThings` implements the latter two | |

### Conventions

A critical section of a lock is one action, what lies between two is not: the
notification after the unlock, the loop condition read before the lock and the
end of a wait are steps of their own. A game handler is one action, because the
dispatcher runs it to its end. A definition under the comment "mutant:" is not
part of the model; it is the changed form of the next definition that a mutant
of `PROJECT.json` puts in its place.

`ServerThreads` composes components that interact. `MCPlayer`, `MCTimers`, `MCSociety`,
`MCNetwork`, `MCWorld` and `MCThings` put side by side components that share nothing but the set of
players online: the variable `stage` says which of them moves in a behaviour, so that
the state space is the sum of theirs and not the product, and a fairness
condition holds of a component when it is the one that moves.

Where several invariants belong together, their conjunction is the property a
run checks (`NothingWaits == NeverSleepsOnWork /\ NothingLeftBehind`); the parts
keep their names and comments in the module.

## 3. Runs

| Run | Bounds | What it shows |
|---|---|---|
| `player` | two drawable vocations, 2 keys, staff off, experience in steps of 2200 up to level 8; 8 conditions of 5 types, each of one or two thinks, a pair of boots and a ring, 4 outfits of which 2 can be worn, 2 mounts, one pending removal; a duel of two with skull time to 3, red at 1, black at 2, `IntMax` 1, and a brawl of three with a party | draws, upgrades, fights, saves, crashes and reloads neither double an entry nor make fragments, and keys and fragments are stored together (`DrawsAgree`); the active vocation is owned, its recorded level is the level shown, its damage factor is not 0 (`ActiveAgrees`); nothing owned is lost (`OwnedKept`); speed, skill and outfit are those of what the player has and wears, and others see them (`ConditionsAgree`); only who is in a fight is locked, white or yellow, and all clients show the skulls they should (`FightsAgree`) |
| `staff` | one vocation, an empty list, grants on, experience in one step between the levels 1 and 8 | locked and owned entries of one vocation in any order: no unlock is missed (`LockedBelowUnlock`) |
| `dispatcher` | 2 threads, 2 events, 3 messages one of which may expire | no lost wake-up, nothing left at the end (`NothingWaits`), the thread ends (`ShutdownEnds`), the list is two lanes that serve everyone (`TwoLanes`) |
| `scheduler` | 2 callers, 2 events, clock to 3; a line of 4 tiles that ends in a lift, with a lever and a creature to push, between arrow keys, map clicks and stops; or a creature that is followed, with a signpost, a rope or a rune to use, and teleports | never early, never slept through (`OnTime`), stopped stays stopped (`StoppedForGood`), none forgotten (`NoEventForgotten`); one event makes the steps, a request waits in one place that the next one will look at, and for a walk that goes on (`WalksAgree`); left alone, requests end (`RequestsEnd`) |
| `threads_exit` | 1 message, 1 event, 1 query | what was accepted is done at the exit; only a lost wake-up of the shutdown can hang the server |
| `society` | 3 players, 2 parties, 2 channels, 2 guilds, a bag and a box and a ring with one hand and one place in a bag; a street of 3 tiles with a watcher, two others and 5 things, of which a client shows 4 (in three stages) | party, invitations, channel and members agree, a party always has company (`PartyAgrees`), and experience is shared only within the levels; channels and guilds know only who is in the game (`ChatAgrees`); a client shows what is there, in its order (`ViewAgrees`); trades are between two, an item is in one offer, not inside another (`TradersAgree`); what was offered is what is exchanged (`TradeIsFair`) |
| `network` | 3 clients for one character, or 2 for two, one of the staff, who may be in a fight or where nobody may log out; no pong for 2 thinks, idle for 1; 2 connections, 2 messages each, buffers of 1; 2 casters, 2 spectators; 4 clients for 2 places, 2 with premium, and a gamemaster | a character has one client and both know it (`OneClientEach`), who lost it is taken over or leaves, unless kept by what the property names (`LostPlayersLeave`); messages are sent once, in order, the last words before the close (`OutputInOrder`), and none stays in a buffer (`OutputMoves`); casts and their references agree and end for everybody (`CastsKept`); of those who must wait the line is kept (`LineKept`) |
| `world` | 2 monsters and a player with one spawn of 2 places, a blockable one and one that may be announced twice; a corpse and a ring with the times of the code, 16, 7 and 23 parts of 125 ms; 2 players, 2 offers of up to 2 items, or of a packet of 2 store coins in each of three kinds of column; coins with hundred = 3, a bag of three places, any two stacks in it, in a trade or not; 2 threads with 3 queries, 2 of them answered | creatures are freed with the last who counts them, the dead are noticed and their places filled once for each announcement (`CreaturesAgree`); an item that decays is in one list (`ItemsListed`) and decays on time (`DecayRuns`); the market makes and loses nothing, but in the cases it names, and settles what expires (`MarketSettles`); queries run once, in order, at most one overtaken by the flush, none lost (`QueriesInTurn`, `AcceptedRuns`); the purse is an account, that loses of a sum received during a trade at most (`KeepsAccounts`), the bag is overfilled only then, and change needs only the room there is (`PlentyPays`) |
| `things` | one player with a ring, two bags of two places and up to 3 coins (a full stack is 2), 3 tiles in a line; two players with two windows each and both bags; a house with 2 people, 1 or 2 beds, 2 warnings for the 7 of the code | items form trees, the weights remembered are those of the items, what is open is in reach (`ItemsAgree`); moves lose, make and overburden nothing (`MovesAreSafe`); who is in a house is invited and who sleeps there is found (`HomeIsKept`); a new owner gets neither the lists nor the debts of the last (`TenureIsNew`) |
| `scheduler_timeout`, `threads_stop`, `trade` | small | findings, section 6 |

Why the bounds are enough. A draw brings 20 or 100 fragments, so two keys unlock
at once, leave a locked entry with 20, buy a star with the 100 of the second draw,
or unlock both vocations; levels matter only
through `ExpForLevel`, which is monotone above level 0, and the two levels around
a threshold show every branch. In the threads the interesting sizes of a list are
0, 1 and 2 (a push into an empty list, a push behind another, a top that changes),
the interesting number of callers two (one between unlock and notify, one inside).
Two events let a stopped one hide behind or before a live one. In `Money` the limit of a
stack and the ratio of coins are the same number, 100, in the code; 3 keeps the
relation and lets stacks be partly, nearly and quite full; a bag of three places has room for one
of the coin that comes, one of the same coin in a trade, and another one, and then none. Transactions end
with the first coins that fall or are lost (`MaxFallen` = 0), since nothing looks at them again; `MaxMoney` bounds what is
received. Three players are a
leader, a member and one who is invited meanwhile; a second party or guild is the
one that is joined before the first is left, or a new object at an old address.
Three clients of one character are the one that plays, the one that takes over
and the one that is quicker; with two characters, and fights
and tiles to keep them, two clients (`LateClients` come only where one character is played). `PongLimit` and
`IdleLimit` stand for the 60 and 960 seconds of the code: what matters is which comes first and that a
think may find either, both or neither. Two of a place's announcements at once (`MaxAnnounced`) are the one that fills it and
one that finds it full; with an interval of two seconds, the shortest that the loader takes, 4.2 seconds hold two
or three. With two offers, one of them half accepted, and a purse of five a player can buy, sell and run into debt; in
`MCWorld` one player, the `Trader`, stays in the market from the first offer on, and the other comes and goes. One message in a buffer and one more fill, flush and
queue it. Two monsters are a summon and its master, or a spawned one and the one
that takes its place. Two bags are one in the other, a third adds only depth; a stack of two
and three coins are a full stack and one more. In a house two people are the owner and
a guest, or the owner and the next. Four tiles leave room for two steps to a thing, with one that begins elsewhere. Four
things for the ten of the code are a ground, one thing always on top and two others, so that a fifth one, of any kind, is
beyond them; what is cached lasts for a task, and three steps in one task ask, change and ask again. The times of `Decay` are those that are rounded to a list, up and
down. Two conditions of a type, one longer and stronger, are the old and the new one. In a brawl
one attacks, one is attacked and one only looks on, or is in the party; a red skull at the first
kill and a black one at the second keep the order of the 3 and 6 of the code, and an `IntMax` below
the largest skull time lets the loss of the high bits happen. `MaxForced` (pending removals),
`MaxSkullTicks`, `MaxLevel`, `MaxEntries`, `MaxWon`, `MaxTime`, `MaxFallen`, `MaxMoney`, `MaxAnnounced`, `MaxCoins`, `MaxWarnings`, `CarryLimit`,
`LastMessage`, `LastEvent`, `LastSlot`, `MaxTasks` (tasks of a player in the list), `MaxSteps` (steps in one task) and the finite `Offers` and `Invitations` are the only bounds that
guard actions; `AgeBound` only ends the counting of ages.

Deadlock is checked in every run but `network`, whose connections really end:
when the bounded messages are sent and every connection is closed, nothing is
left to happen there.

## 4. Fairness

`Dispatcher`, `Scheduler`, `DatabaseTasks` and `ServerThreads` assume weak
fairness of each thread: a thread that can take its next statement does so, a
task and a query come to their end, the clock advances. That is what the
operating system's scheduler gives; a mutex that is held for one action at a time
needs no strong fairness here because no action of the waiting thread is disabled
again and again. Spurious wake-ups, new tasks and signals are not fair: they may
never happen.

In `MCNetwork` the tasks of logins, takeovers and releases run (they are in the
dispatcher's list, whose service `TwoLanes` shows), the event of `sendAll` comes (the
scheduler's `NoEventForgotten`), a write ends or fails and the last handler of a
connection runs (boost::asio completes every operation it has begun).
`LostPlayersLeave` further assumes that a player in the game goes on thinking, as `checkCreatures` comes round once
a second (the scheduler again). Whether a think throws the player out depends on the
time counted and on `canLogout`, `isConnecting`, the tile and the staff's access, as in `sendPing` and
`onThink`. Nobody need be kicked, move, act or come back: the property says that a player whom nobody plays
for ever is kept, again and again, from logging out, and is also of the staff, or again and again on a tile of no logout, or
acts again and again by requests that repeat themselves. In `MCWorld` the checks of the lists
go on for ever, as `checkDecay` schedules the next one first, and so do the check of
expired offers, its query and the task with its result, and the threads of
`DatabaseTasks`. Clients, fights, movements
and offers are not fair. In `MCTimers`, of the walk, tasks run, events come (both by what the modules of the threads
show) and times pass; `RequestsEnd` is about the time after the last disturbance.

## 5. Proofs

All theorems hold for every value of the constants under the named assumptions of
the modules. The strengthened invariants:

* `PlayerVocations`: `IInv` adds to the types that *no entry*, first or not, in
  the list or the row, is locked with a hundred fragments, and that what the row
  owns the object owns. `LockedBelowUnlock` alone is not inductive: a reload may
  bring another entry to the front. The first lemmas of `PlayerProofs` say what each
  list operation keeps (`Keeps`), once, and every handler cites them.
  `TypeCorrect`, `UnlockTheorem` and `OwnedTheorem` follow.
  `DrawInv` compares the list with what has been drawn, in the game and in the row
  alike (`Roll`): one entry of each vocation, an owned one with at most what was
  drawn beyond the hundred of its unlock, a locked one with exactly what was drawn;
  and the keys have paid for the sum (`KeysPaid`). `ActiveAgrees` needs of it that
  an owned entry has a number of stars for which there is a bonus, or the damage could be
  zero. Both hold under the hypothesis `NewCharacter`: the starting list is
  itself such a list and owns the starting vocation, and the staff grants nothing
  (`AddLevelsTo` and the like give fragments for no key). `ActiveStaysOwned`, `DrawsStayPaid`.
* `Dispatcher`: `NeverSleepsOnWork` is inductive by itself. `NothingLeftBehind`
  needs that the list is closed before `Game::shutdown` runs
  (`StopsBeforeShutdown`), so that `Terminate` comes into a closed list, is its last
  element and leaves it empty (`TerminateIsLast`), and that a task is in the list once.
  `NothingWaitsTheorem` is the property of the run, from both. `LanesServed` is the
  refinement of `TaskQueue` without its fairness: the list has the urgent tasks first
  and is the one lane with the other behind it, so that a push to the front, one to
  the back, and a removal are steps of the right lane (`LanesPushedFront`,
  `LanesPushedBack`, `LanesTaken`).
* `Scheduler`: `Deadlines` says that a waiting thread waits for the time of an
  event still in the queue or an earlier one is there, unless the shutdown has
  emptied it; from it the top taken after *any* timeout is due. It
  holds because only the thread itself and the shutdown take events out.
  `OnTimeTheorem` and `StoppedTheorem` are the properties of the run.
* `ServerThreads`: `ServerInv` has a part for each list and one for the order in which
  `Game::shutdown` goes from one to the next. A list loses nothing: what is
  "queued", "pending" or "accepted" is in it, or in the worker's hand
  (`TasksServed`, `EventsServed`, `QueriesServed`); nothing is behind `Terminate`, which is
  only in a closed list, so that its run leaves an empty one. `InOneOrder`: the
  flush begins after the scheduler's list is cleared, `Terminate` is pushed after
  the flush, the main thread joins behind both. A theorem cannot be cited
  through an instance, so that the parts are proved here of the instances of the three modules, as
  far as the exit needs them. `ExitLeavesNothingTheorem`.
* `Fights`: `FightInv` says of the record of all fighters what `FightsAgree` says,
  and three things it needs: who is out of the game has no skull that a fight
  gave, no attack and no lock (`Away`), so that a login starts clean; nobody is
  invited to a party that is none (`Hosted`), so that a new leader shows no green
  to strangers; and the row in the database holds red and black skulls only. The
  methods are functions on that record: a lemma each says whose skulls it may
  change and whom it tells (`Untold`, `Tells`), and the handlers put them together.
  `FightsStayFair` is the property of the run.
* `Conditions`: the handlers are functions on a record of the player, and `Steady` is
  the set of the records that every handler keeps: speed and skill are the sums of what the one
  haste, paralysis and attribute that are listed (`ListedOnce`, `WorthOf`), the gear and the
  mount bring. `OutfitsAreShown` alone is not inductive: a player on a mount who
  gets off it while an outfit is borrowed would show the own one again, so `Sound`
  adds that who wears a borrowed outfit for its time is on foot. The folds by which
  conditions end, gear is put on and stored conditions return at a login are proved by a smallest
  counterexample (`AllEnded`, `DressSteady`, `RecallSteady`), whatever order they
  take. `ConditionsStayAgreed`, for any conditions, gear, outfits and mounts, with
  both stages of the run together.
* `Party`: `PartyInv` is `PartyAgrees` together with types and the ties of one party
  to its players in the form in which the methods keep them (`Sound`, `Tied`, `Present`),
  without the rule that a party has company: between two calls of one handler a party
  may be empty, and a lemma per method (`Dismiss`, `Disband`, `LeaveParty`,
  `RemoveInvite`, ...) says what it keeps of such a half-done record;
  `DisbandIf` restores the rule at the end. `PartiesAgree`.
* `PrivateChannels`: `ChannelsKnowOnline` and the types are inductive, once "an
  owner has one channel" is said of all pairs (`OneChannelEach`); `Guilds`:
  `GuildsAgree` and the types are. In the composition each part keeps its
  invariant while the others run, because they change neither its variables nor,
  in its stage, who is online (`SocietyInv`): `SocietyAgrees`.
* `SafeTrade`: bags lie in bags at any depth, so that what is around an item is a
  least set (`BagsAround`), and facts about it are proved by a set that has the
  right closure, without induction (`AroundIsLeast`, `AroundMoved`). `TradeInv` says of
  the record of the traders that they pair up and that who was only asked offers
  nothing; and of the things that nothing is in itself (`Acyclic`), no offer is in
  another (`OffersApart`), and an offer lies where its owner reaches it (`Reached`): without
  the last, an exchange between two others could put something into it. `TradersStayAgreed`
  and, from the same step, `OffersStayUntouched`. `TradesStayFair` needs in
  addition that nothing holds more than it has room for (`Fits`), and that the place an
  item leaves is one for the other (`StillRoom`), so that the test before the
  exchange, which looks at both before either is moved, is good for the second move.
  Its hypothesis is that nothing stacks: with stacks the property is
  false, which the run `trade` shows.
* `TileViews`: the handlers are functions on a record of the map, and `Right` says of one that each
  tile in sight that the client was told all of is shown as it would be described (`AgreesAt`), and
  what that needs: everything is in one place and the watcher somewhere (`Placement`), and whatever
  is cached of a tile in sight has the watcher (`CachesRight`), which `clearSpectatorCache` must
  restore after each move. A message is right if the list before and the list after differ by one thing
  at the place that it names (`PutInto`, in `Facts`): the lemmas say that what the code counts is that place
  (`ItemPut`, `CreaturePut`), though it counts in parts of the tile, that the client does to the
  ten it shows what happened to all, that what happens beyond the tenth changes nothing of these (`PutBeyond`),
  and that what comes back into the tenth place is described anew (`PostRemoveRight`). For a walk the creature is the last of those the client sees (`CreatureLast`),
  since `0x6D` names no place. `ViewStaysRight`.
* `Market`: the sums of the action property are those of `Facts` (below). `MarketInv` says that
  ids above `nextId` are free, so that a new offer overwrites none, and that of what a query has read
  (`ReadBefore`) an offer that is still in the table has the same owner and type and at least as
  much as is left of it, because ids are not used again. Hence a refund is that of the row
  as it is, unless it reads less than was read: `StaleRefund`. Where store coins are traded
  the goods may be negative numbers; that nobody's debt grows but in `CoinsUnchecked` is said for each
  handler (`OwesNoMore`), and what one of them takes and gives adds up in each kind of column (`GoodsMoved`). Each handler but the last
  changes one row and one or two purses (`RowChanged`, `PurseChanged`, `PurseMoved`); the refund of a
  whole result is the sum over the players of the sums over their rows, which is the sum over the rows
  (`TotalByClass`, `Refunded`, `RowsSettled`). `MarketStaysEven`, the safety half of `MarketSettles`.
* `Sessions`: `OneClientEach` is not inductive, since a login that comes late could
  give a protocol a second player; `WaitsForPlayer` says that a protocol with a login
  or a takeover under way plays nobody, because a client sends one request for a login and
  `connect` looks at it first. `SessionsKnowEachOther`, `NetworkKnowsEachOther`.
* `LiveCasts`: the count of a Player object is the number of its holders; each step
  changes one holder at a time, or the lemmas take it apart until it does
  (`PlayedMore`, `WatchedLess`, ...). `CastersKnown` adds that whoever watches has
  a connection or a release to come, so that the holder goes for certain.
  `CastsStayConsistent`: the state property and the action property `CastsKept`.
* `Connections`: `InOrder` is a chain: what is on the wire, each message of the
  queue and the buffer of the protocol continue each other. `StatesKnown` adds that
  a connection in the game has a read under way and loses its socket only by
  an error, without which a close could leave messages in the queue with
  nobody to write them. `OutputStaysInOrder`.
* `WaitingList`: `LineInv` says of the players, the two lists and what the waiting have been
  told that a player is in at most one list, once, and not in the game, and that
  who has been told a time has an entry that lives longer than it (`Expected`). The latter is
  why nobody who comes back in time has lost the place: each step that shortens
  the one shortens the other as well. Those who can always log in are in no list (`Unlimited`), and without a limit nobody is.
  `LineStaysKept`, `NetworkKeepsLine`.
* `Decay`: the handlers are functions on a record of the state, and `Sound` counts the
  entries of each item in the five lists: they, the place and the pending
  releases are its references (`Counts`), an item has at most one entry and one that has is
  marked and has time left; a mark without an entry means that the place is lost (`Marked`); and a
  freed address is as new (`Fresh`). `DecayingIsListed` alone is not inductive: that a ring which
  is put on again while its list still holds it does not start anew needs that an
  entry has time left. In the loop of `checkDecay` the entries of the list that was
  taken away are counted for what is left of it (`Checking`), and an item
  in the hands of the loop once more. `DecayingStaysListed`.
* `Creatures`: the handlers are functions on a record of the state, and `Orderly` says of such a
  record, between any two steps of a handler, that the count of each creature is one for
  the game, the list of checks, its master and its spawn, as far as each holds it, with the releases to come
  and the references the handler itself still has to let go of (`CountedOf`); that a master and its
  summons know each other, unless the handler is sending the summons of just that master away
  (`Related`); that the spawn and its monsters do (`SpawnKnows`); and that a place which is not
  `crowded` is announced once and empty, or not announced and has one monster (`PlacesKnown`), without which a second
  monster could come by an old announcement. `CreaturesAgree` follows but is
  not inductive: that a convinced monster dies with its new master needs that a summon has
  no summons and no spawn of its own, and that a removed creature is freed needs that its master has been removed too. The
  loops over the summons, the lost of the spawn and the releases are folds, taken by the fewest elements for
  which one would go wrong (`FoldIsGood`), in any order. `CreaturesSound`, `CreaturesAlwaysAgree`.
* `DatabaseTasks`: `QueryInv` compares the list with the history: the list is
  the end of what was accepted (`ListIsRest`), and of all before it everything
  has run but for the query in the worker's hand (`RunIsTaken`), or, in the
  flush, with the first of the list in addition. From it follow that no query
  runs twice, is lost, or overtakes more than that one, and the order of the
  answers (`RepliesFollow`). `QueriesRunInTurn`.
* `Houses`: the handlers are functions on a record of the variables, and
  `HouseInv` is said of any such record. That a reload finds the sleepers again needs
  that the *stored* beds hold a player once (`OneBedEach`, `Finds`); that the saved row of a
  house with a new owner has no old lists needs that the same is said of the row as
  of the house (`Tenures`), and that a house of nobody has neither lists nor
  warnings. `Admits` allows exactly those whose kick is under way. `HomeStaysKept`,
  `TenureStaysNew`; by `ThingsHaveAHouse` both hold beside the items.
* `Inventory`: the handlers are functions on a record of the items (`Store`), and each
  lemma says what one call of `internalMoveItem` keeps of it. As in `SafeTrade`, what is
  around an item is a least set, and `Over` and `Root` are proved about by closures.
  `ItemsAgree` alone is not inductive, and not so in the middle of a move. `Tidy(s, E, D)`
  is what holds there: nothing is in itself (`Acyclic`), slots hold one item, an
  address is in use exactly when it counts something (`Counts`), every bag remembers the weight of
  what it holds (`Weighed`), no bag has left with things in it but those of `E`
  (`NoneAdrift`), and every player knows what they carry but those of `D`, who have
  not been told yet (`Remembered`). `removeThing` adds to `E` and `D`, `addThing` and the
  notifications take away (`RemoveKeeps`, `AddKeeps`, `MergeKeeps`,
  `PostRemoveKeeps`, `WeighingIs`), and at the end both are empty. A change of a weight at the bottom goes up to
  each bag around it and to the player (`Heavier`, `LoadsMore`); that it adds up is why
  `updateItemWeight` needs no recount. Nobody becomes overburdened because `hasCapacity` is
  asked for all that moves, before anything does, and an exchange is asked for both ways (`TransferKeeps`,
  `ExchangeKeeps`). `made` is the weighted sum of the counts, and moving takes
  as much from one term as it adds to others (`AmountChanged`). That a split finds an address needs the bound
  on coins (`FreeAddress`). `ItemsStayRight`, `MovesStaySafe`; `ThingsHaveItems`.
* `Walking`: the handlers are functions on a record of the player's variables, and
  `WalkInv` says of it, between two handlers (`Settles`), that a request is in one of
  `walkTask`, `walkTaskEvent` and `actionTaskEvent` only, that the first two are not
  both taken, and that what waits for a walk has one. While the event of a step is
  being run (`event = "come"`) `eventWalk` still holds its id; that only what
  `Waiting` says is known then, and that a step leaves that id or clears it with
  the task (`Stepped`), is why no event of a step is ever forgotten.
  `WalksStayAgreed`, for every map; the run limits it to two stages.
* Sums and folds over sets: `MapThenSumSet` and `FoldSet` are recursive functions on the
  subsets of a set, and the library's induction takes an operator. `Facts` argues by
  a smallest counterexample among the subsets of a finite set (`SmallestSet`, `LeastWrong`): the
  function exists (`SumsExist`, `FoldExists`), there is one (`SumsAgree`,
  `FoldsAgree`), a fold stays where its step does (`FoldStaysIn`), a sum is a number
  (`TotalNat`), any term of it may come first (`AnyTermFirst`), and it changes by as much as one
  term does (`TotalChanged`, `TotalGrown`). `DrawsStayPaid` and `ConditionsStayAgreed`
  rest on it.
* Loops over lists: `SelectSeq` is opaque to the provers, so the models say
  `Chosen(list, S)` instead, a recursive function over the positions. What holds of it
  is proved by a shortest list that would be wrong (`NoLeastList`): what it does with an element
  at either end and with two lists in a row (`ChosenAppend`, `ChosenFront`, `ChosenConcat`), which
  elements it keeps and in which order (`ChosenIn`, `ChosenPlaced`). `LanesServed`,
  `LineStaysKept` and `DecayingStaysListed` rest on it; the loop of `checkDecay` is
  taken the same way (`CheckLoopKeeps`).

Assumed of the constants is only what the modules' named assumptions say: that null
pointers are no objects, that the closer of a list is one of its callers, that there are
finitely many casters, spectators, players and offers in the market, monsters, vocations, items and gear (a count and a sum
would mean nothing otherwise), that an item is of one kind and neither a player nor a tile, that coins
weigh the same, that a new player starts with a valid list and level, that a client shows at least two things of a
tile and sees no further than spectators are looked for, and the like. TLC evaluates them in
every run.

Only model-checked, and why:

* everything under fairness (`ShutdownEnds`, `TwoLanes` with its liveness,
  `NoEventForgotten`, `AcceptedRuns`, `OnlyLostWakeUpsHang`, `OutputMoves`,
  `LostPlayersLeave`, `RequestsEnd`, `DecayRuns`, that what expires is settled in
  `MarketSettles`): liveness and ENABLED are out of the prover's reach;
* the money algorithms (`KeepsAccounts`, `PlentyPays`): recursive operators;
* `DecaysOnTime`, which is stated together with the liveness of `DecayRuns`;

## 6. Findings

Each is a run that TLC must refute; `PROJECT.json` quotes the line it contradicts.

1. `scheduler_timeout`: "ok we had a timeout, so there has to be an event": not
   after the shutdown has emptied the queue.
2. `threads_stop`: SIGINT "Shuts the server down", unless a thread sits between its
   loop condition and its wait when the shutdown notifies.
3. `trade`: "Trade could not be completed" is not said when the second item does not
   fit after all: the test before the exchange lets a stack merge into another,
   the exchange does not, and its result is not looked at. One player gives and
   gets nothing.

Seen while modelling, in the models as the code has them:

* `player:addVocation(id, level, star, tier, exp)` reads the experience from the
  argument of the star, and `player:setVocationFragments(id, 0)` does nothing, so
  that a star bought with exactly its price takes no fragments (`Roster`).
* The "gold pieces" of a star's price and its crystal coins may be the same coins
  (`Money`).
* An expired offer that is accepted in part between the query that read it and the
  task that settles it is refunded with the old amount: money or goods come into
  being (`StaleRefund`). Store coins are taken from accounts by queries whose result nobody looks at: who accepts an
  offer to buy them is paid for coins the account may not have, which becomes a debt where the column has a sign
  and nothing where it has none or is missing; a debt reads as a huge number when its owner offers coins
  (`CoinsUnchecked`); and coins of an offer that has expired come back as items (`coinItems`). `MarketConserves`, a part of
  `MarketSettles`, shows that no other steps make or lose anything.
* While a stack of coins is offered in a trade its room counts and it takes nothing in: the rest of a sum received
  may be lost without notice, and as the stack is not counted either, the bag may hold one item more than its
  capacity (`Lost`, `BagHolds` in `Money`). No payment loses anything.
* A place whose interval is shorter than the 4.2 seconds of an announcement is announced again meanwhile, and gets two
  monsters; the spawn then counts as full with another place empty, and checks no more until one dies (`crowded` in `Creatures`).
* Gamemasters pass the limit and the line of a full server, and count for the others.
* A takeover leaves `lastPong` and `idleTime` as they were, so that the new client may be thrown out by the next think; and one
  that fails, as a third client was quicker, leaves `isConnecting` TRUE: the player may not log
  out until it is taken over again, and when it is of the staff, whom the idle time does not touch, nothing ends it (`Sessions`).
* `WaitingList::clientLogin` erases from `waitList` with an iterator that may belong
  to `priorityWaitList`: the node leaves the right list, the two sizes are wrong.
  `misplaced` keeps the difference; `LineKept` shows that the order is kept all the same.
* The place of a convinced monster is not filled again until the monster is
  removed (`Creatures`).
* `ProtocolSpectator` reads its player in the network thread without a lock
  (a race, in the hazards, with no property).
* Who leaves a party stays in its channel until they log out (`Party`).
* An item on the ground too heavy to carry, exchanged against a stack in hand, is
  refused after the stack has been moved into the bag, which holds one item more than its
  capacity then (`Inventory`).
* The document of a house that is being sold survives a change of owner, and the buyer may
  acquire another house before accepting it (`Houses`).
* The question whether to sleep is answered when it is, wherever the player is
  by then: uninvited, or behind a wall, they are put to bed all the same. A second bed within the
  50 ms before the kick leaves the first one occupied by nobody who can be found
  (`restless` in `Houses`).
* Paying the rent does not reset the count of warnings, which counts starts of the server
  and not days; a crash before the next save of the map collects the same rent again; and
  after a crash a new owner may have the lists and warnings of the last (`mixed`).
  As shipped, `houseRentPeriod` is "never".

* Of `Walking`: a stop between a request and the walk to it is undone, as `addEventWalk`
  clears `cancelNextWalk`; an arrow key clears `walkTask`, but the walk that is already a task is still taken; a click
  on the map does not, so that the old request is done at the end of another walk; a stop meant for one request may end
  the next, whose walk has not begun. A teleport on the way leaves `walkTask` without a walk (`stranded`), and with it the
  player follows nobody until an arrow key or another request. Who follows and asks for something else may be sent to and
  fro for ever, if the thinks come while they are still exhausted: `RequestsEnd` excludes those two.
* `getSpectators`, given a list that is not empty, stores the union under the second
  position (`Asked` in `TileViews`); no harm, because a move clears the caches at once. A creature that hides on a tile with
  more things than are shown leaves the client one short until the next thing is taken away (`lacking`).

* Of `Conditions`: a haste renewed in the second between its end and the think that ends it stays
  with a paralysis cast meanwhile, as the test which asks for it counts no condition that is over; the
  same happens to a borrowed outfit, which then leaves the player mounted below it, so that a protection
  zone shows the player's own outfit. An outfit that may not be worn is refused, but the mount asked for
  with it is taken, or the old one left, and nobody is shown that (`renewed` keeps these cases apart).
* The skull time is an `int64_t`, what is left of it an `int32_t`: after about 25 unjustified kills the
  next think forgives all (`CheckSkullTicks` in `Fights`).

Hazards of the code that no module meets: `getExpForLevel(0)` wraps around; after
2^32 events an id is used again; the main thread waits for the loader without a
predicate; a query of the market that fails.

## 7. Not modelled

* Of `Inventory`: the order of items in a bag or on a tile; more than one kind of
  stack; the limit of a tile, depots, inboxes, mail and rewards; hangables and
  two-handed weapons; scripts of movements. What is in a bag that is removed is freed with
  it at once.
* Of `Houses`: the halves of a bed, staff, lists of guilds and patterns, doors, what
  lies in the house, the date up to which the rent is paid (due or not is a choice), more than
  one house.
* Of `Inventory`, further: a destination asked for with an index of the capacity window or `INDEX_WHEREEVER`, for which
  `Player::queryDestination` looks through all containers and skips the item in trade (`Money` has it
  for coins); items go to the slot or bag they are moved to.
* Of `Sessions`: a player that cannot be placed after the login was granted; `playerLogout` scripts, which as
  shipped refuse nothing; the lock of a protection zone apart from the fight it comes with.
* Of `Market`: several characters with one account and its coins.
* Of `Walking`: steps that scripts refuse, drunkenness, a speed of 0, obstacles but one,
  the steps of monsters.
* Of `TileViews`: other floors, tiles without ground and changes of ground, what a message says
  besides the place and the thing.
* Of `Conditions`: suppressions, damage over time, regeneration, light, cooldowns; what scripts
  forbid; where in the list a condition is. Of `Fights`: guild wars, the world types other than "pvp",
  players out of sight of each other.
* Damage, spells' areas, monster targets, raids: scripts of times, damage
  in floating point, random choice and geometry.
* Path finding and the storage of the map: large geometric data without concurrency.
* The Lua engine, the loaders, the status protocol, RSA and XTEA, migrations and
  the crash handler: bindings, parsers, cryptography, platform code.
* Of the modelled components: the tier of a vocation's entry, the health and defence
  bonuses; passwords and bans (a login may be refused at any time); the contents
  of messages; the weights of traded items; guild wars, public channels, VIP
  lists; statistics of the market.

## 8. Plan

1. Raids; targets; conditions that damage and suppress; doors and the halves of beds.
2. The hazards without a property (`PROJECT.json`): the player that the network thread reads, the width of the skull time.
