------------------------------- MODULE Walking -------------------------------
(***************************************************************************)
(* A player walks, follows another creature, and asks for things that are  *)
(* too far away, or to do while still exhausted: the request then waits as *)
(* the task of a walk (walkTask), and as an event of the scheduler.  Steps *)
(* are events too; a walk to a thing, and a new path to who is followed,   *)
(* are tasks of the dispatcher, which run after what came in before.       *)
(*                                                                         *)
(* The map is a line of tiles; a path leads straight to a thing unless the *)
(* other creature stands in between.  Times are left out but for what they *)
(* delay: an event may come at any time, and finds the player able to step *)
(* or not, exhausted or not.  Movement blocked by scripts, drunkenness,    *)
(* and a speed of zero are left out.                                       *)
(***************************************************************************)
EXTENDS Integers, Sequences

CONSTANTS
    Length,             \* of the line of tiles
    Lift,               \* where a step onto a tile ends: a teleport or stairs
    Requests, NoRequest,
    Kind,               \* see Handle
    Place,              \* of the thing that is asked for
    Target,             \* and of what it is to be used with
    Sight,              \* how far players see
    MaxTasks            \* bound: of the player in the list of the dispatcher

Tiles == 1..Length
Directions == {-1, 1}

ASSUME WalkingAssumption ==
    /\ Length \in Nat \ {0} /\ Sight \in Nat /\ MaxTasks \in Nat
    /\ Lift \in [Tiles -> Tiles] /\ Place \in [Requests -> Tiles] /\ Target \in [Requests -> Tiles]
    /\ Kind \in [Requests -> {"use", "use with", "shoot", "move", "turn", "push"}]
    /\ NoRequest \notin Requests

VARIABLES
    position,
    listWalkDir,
    eventWalk,          \* 0, or the event it names is "pending"
    strayWalks,         \* pending events of steps that eventWalk does not name
    cancelNextWalk,
    stepping,           \* getWalkDelay() > 0
    exhausted,          \* ~canDoAction()
    walkTask,           \* the requests in Player::walkTask
    walkTaskEvent,      \* and in the events these two name; an id whose event
    actionTaskEvent,    \* has come names nothing any more
    scheduled,          \* requests in pending events, named or not
    tasks,              \* of this player in the list of the dispatcher
    taken,              \* requests whose thing was picked up on the way
    following,          \* followCreature # nullptr
    hasFollowPath,
    other,              \* where the other creature is; 0 is beyond the line
    asked, done,        \* history: requests made and carried out
    stranded,           \* history: teleport has stopped the walk since it began
    quiet               \* history: nothing disturbs the player from now on

walkState == <<position, listWalkDir, eventWalk, strayWalks, cancelNextWalk, stepping,
              exhausted, walkTask, walkTaskEvent, actionTaskEvent, scheduled, tasks,
              taken, following, hasFollowPath, other, asked, done, stranded>>

walkVars == <<walkState, quiet>>

\* what a handler works on
Walker == [pos |-> position, list |-> listWalkDir, event |-> eventWalk, stray |-> strayWalks,
           cancel |-> cancelNextWalk, stepping |-> stepping, exhausted |-> exhausted,
           walkTask |-> walkTask, walkEvent |-> walkTaskEvent, action |-> actionTaskEvent,
           scheduled |-> scheduled, tasks |-> tasks, taken |-> taken,
           following |-> following, hasPath |-> hasFollowPath, done |-> done, stranded |-> stranded]

Becomes(next) == \E w \in {next} :
    /\ position' = w.pos /\ listWalkDir' = w.list /\ eventWalk' = w.event
    /\ strayWalks' = w.stray /\ cancelNextWalk' = w.cancel
    /\ stepping' = w.stepping /\ exhausted' = w.exhausted
    /\ walkTask' = w.walkTask /\ walkTaskEvent' = w.walkEvent
    /\ actionTaskEvent' = w.action /\ scheduled' = w.scheduled /\ tasks' = w.tasks
    /\ taken' = w.taken /\ following' = w.following /\ hasFollowPath' = w.hasPath
    /\ done' = w.done /\ stranded' = w.stranded

WalkInit ==
    /\ position = 1 /\ other \in {0, Length - 1}
    /\ listWalkDir = <<>> /\ eventWalk = "0" /\ strayWalks = 0
    /\ cancelNextWalk = FALSE /\ stepping = FALSE /\ exhausted = FALSE
    /\ walkTask = NoRequest /\ walkTaskEvent = NoRequest /\ actionTaskEvent = NoRequest
    /\ scheduled = {} /\ tasks = <<>>
    /\ taken = {} /\ following = FALSE /\ hasFollowPath = FALSE
    /\ asked = {} /\ done = {} /\ stranded = FALSE /\ quiet = FALSE

-----------------------------------------------------------------------------
(***************************************************************************)
(* What waits.                                                             *)
(***************************************************************************)

\* mutant: the event of the last request goes on
SetTaskOnly(w, r) == [w EXCEPT !.walkTask = r]

\* Player::setNextWalkActionTask
SetNextWalkActionTask(w, r) ==
    [w EXCEPT !.scheduled = @ \ {w.walkEvent}, !.walkEvent = NoRequest, !.walkTask = r]

\* Player::setNextActionTask
SetNextActionTask(w, r) ==
    [w EXCEPT !.scheduled = (@ \ {w.action}) \cup ({r} \ {NoRequest}), !.action = r]

\* Player::onWalkComplete
OnWalkComplete(w) ==
    IF w.walkTask = NoRequest THEN w
    ELSE [w EXCEPT !.scheduled = @ \cup {w.walkTask}, !.walkEvent = w.walkTask,
                   !.walkTask = NoRequest]

\* Player::stopWalk
StopWalk(w) == [w EXCEPT !.cancel = TRUE]

\* Creature::stopEventWalk; the event being run is not pending any more
StopEventWalk(w) == [w EXCEPT !.event = "0"]

-----------------------------------------------------------------------------
(***************************************************************************)
(* Steps.                                                                  *)
(***************************************************************************)

Distance(a, b) == IF a < b THEN b - a ELSE a - b

\* Player::setFollowCreature(nullptr)
Unfollow(w) == StopWalk([w EXCEPT !.following = FALSE])

\* Creature::onCreatureMove and Player::onCreatureMove, when one of the two has
\* moved: who is out of sight is not followed any more
OnCreatureMove(w, otherPos) ==
    IF ~w.following THEN w
    ELSE IF Distance(w.pos, otherPos) > Sight THEN Unfollow(w)
    ELSE IF w.hasPath THEN [w EXCEPT !.tasks = Append(@, <<"follow">>)]
    ELSE w

\* Map::moveCreature of the player; teleport stops the event
MoveTo(w, tile, teleport) ==
    LET moved == [w EXCEPT !.pos = tile, !.stepping = TRUE]
    IN  OnCreatureMove(IF teleport THEN [StopEventWalk(moved) EXCEPT !.stranded = TRUE]
                       ELSE moved, other)

\* Game::internalMoveCreature; the way may be free or not
InternalMoveCreature(w, d, free) ==
    LET tile == w.pos + d
    IN  IF ~free \/ tile \notin Tiles \/ tile = other THEN w
        ELSE LET there == MoveTo(w, tile, FALSE)
             IN  IF Lift[tile] = tile THEN there ELSE MoveTo(there, Lift[tile], TRUE)

\* Player::onWalk(dir), before the step
BeforeStep(w) ==
    [SetNextActionTask(w, NoRequest) EXCEPT !.list = Tail(@), !.exhausted = TRUE]

\* Creature::onWalk, up to where it schedules itself again
WalkNow(w, free) ==
    LET gone == IF w.stepping THEN w
                ELSE IF w.list # <<>>
                THEN InternalMoveCreature(BeforeStep(w), Head(w.list), free)
                ELSE StopEventWalk(OnWalkComplete(w))
    IN  IF gone.cancel
        THEN [SetNextWalkActionTask(gone, NoRequest) EXCEPT !.list = <<>>, !.cancel = FALSE]
        ELSE gone

\* Creature::addEventWalk: the only step of a path is taken at once
AddEventWalk(w, firstStep, free) ==
    LET going == [w EXCEPT !.cancel = FALSE, !.stranded = FALSE]
    IN  IF w.event # "0" THEN going
        ELSE LET gone == IF firstStep /\ ~w.stepping THEN WalkNow(going, free) ELSE going
             IN  [gone EXCEPT !.event = "pending", !.stranded = FALSE]

\* Creature::onWalk; what eventWalk names if this event is not it is forgotten
OnWalk(w, free) ==
    LET gone == WalkNow(w, free)
    IN  IF gone.event = "0" THEN gone
        ELSE AddEventWalk([gone EXCEPT !.event = "0",
                                       !.stray = @ + IF gone.event = "pending" THEN 1 ELSE 0],
                          FALSE, free)

\* Creature::startAutoWalk
StartAutoWalk(w, list, free) ==
    AddEventWalk([w EXCEPT !.list = list], Len(list) = 1, free)

-----------------------------------------------------------------------------
(***************************************************************************)
(* Paths.                                                                  *)
(***************************************************************************)

\* Creature::getPathTo: up to the distance, if nobody is in the way
Straight(from, to, distance) ==
    [k \in 1..(Distance(from, to) - distance) |-> IF from < to THEN 1 ELSE -1]

IsWay(from, to) ==
    \A k \in 1..(Distance(from, to) - 1) : from + (IF from < to THEN k ELSE -k) # other

\* Player::goToFollowCreature, which lets the task of a walk go first
GoToFollowCreature(w, free) ==
    IF w.walkTask # NoRequest \/ ~w.following THEN w
    ELSE IF IsWay(w.pos, other)
         THEN StartAutoWalk([w EXCEPT !.hasPath = TRUE], Straight(w.pos, other, 1), free)
         ELSE [w EXCEPT !.list = <<>>, !.hasPath = FALSE]

\* mutant: the walk ends one tile too far away
WalkNearby(w, r, tile) ==
    SetNextWalkActionTask(
        [w EXCEPT !.tasks = Append(@, <<"walk", Straight(w.pos, tile, 2)>>)], r)

\* The end of a handler whose thing is too far away: the walk is a task, the
\* request waits for its end.
WalkThere(w, r, tile) ==
    IF IsWay(w.pos, tile)
    THEN SetNextWalkActionTask(
           [w EXCEPT !.tasks = Append(@, <<"walk", Straight(w.pos, tile, 1)>>)], r)
    ELSE w

-----------------------------------------------------------------------------
(***************************************************************************)
(* Requests.                                                               *)
(***************************************************************************)

InReach(w, tile) == Distance(w.pos, tile) <= 1

Done(w, r) == [w EXCEPT !.done = @ \cup {r}]

\* Actions::useItem and useItemEx, unless the player is exhausted
UseNow(w, r) ==
    IF w.exhausted THEN SetNextActionTask(w, r)
    ELSE StopWalk(Done([SetNextActionTask(w, NoRequest) EXCEPT !.exhausted = TRUE], r))

\* Game::playerUseItem
UseItem(w, r) == IF InReach(w, Place[r]) THEN UseNow(w, r) ELSE WalkThere(w, r, Place[r])

\* Game::playerUseItemEx: what lies far from its target is taken along
UseItemEx(w, r, target) ==
    IF r \notin w.taken /\ ~InReach(w, Place[r]) THEN WalkThere(w, r, Place[r])
    ELSE IF InReach(w, target) THEN UseNow(w, r)
    ELSE WalkThere(IF Distance(Place[r], target) > 1 THEN [w EXCEPT !.taken = @ \cup {r}] ELSE w,
                   r, target)

\* Game::playerUseWithCreature, wherever it is now
UseWithCreature(w, r) ==
    IF Distance(w.pos, other) > Sight THEN w ELSE UseItemEx(w, r, other)

\* Game::playerMoveItem, playerMoveCreature
Move(w, r) ==
    IF w.exhausted THEN SetNextActionTask(w, r)
    ELSE LET next == SetNextActionTask(w, NoRequest)
         IN  IF InReach(w, Place[r]) THEN Done(next, r) ELSE WalkThere(next, r, Place[r])

\* Game::playerRotateItem, playerBrowseField, playerRequestTrade
Turn(w, r) == IF InReach(w, Place[r]) THEN Done(w, r) ELSE WalkThere(w, r, Place[r])

\* the handler of a request, from the network or from an event
Handle(w, r) ==
    CASE Kind[r] = "use" -> UseItem(w, r)
      [] Kind[r] = "use with" -> UseItemEx(w, r, Target[r])
      [] Kind[r] = "shoot" -> UseWithCreature(w, r)
      [] Kind[r] = "turn" -> Turn(w, r)
      [] OTHER -> Move(w, r)

\* Game::playerMoveThing: a creature is pushed a second later
Ask(r) ==
    /\ r \notin asked
    /\ asked' = asked \cup {r}
    /\ Becomes(IF Kind[r] = "push" /\ InReach(Walker, Place[r]) THEN SetNextActionTask(Walker, r)
               ELSE Handle(Walker, r))
    /\ UNCHANGED other

\* an event of a request comes
RequestComes(r) ==
    /\ r \in scheduled
    /\ Becomes(Handle([Walker EXCEPT
         !.scheduled = @ \ {r},
         !.walkEvent = IF @ = r THEN NoRequest ELSE @,
         !.action = IF @ = r THEN NoRequest ELSE @], r))
    /\ UNCHANGED <<other, asked>>

-----------------------------------------------------------------------------
(***************************************************************************)
(* Input of the player, and what happens to them.                          *)
(***************************************************************************)

\* Game::playerMove, an arrow key
PlayerMove(d, free) ==
    /\ Becomes(StartAutoWalk(SetNextWalkActionTask(Walker, NoRequest), <<d>>, free))
    /\ UNCHANGED <<other, asked>>

\* Game::playerAutoWalk from ProtocolGame::parseAutoWalk, a click on the map
PlayerAutoWalk(tile, free) ==
    /\ tile # position
    /\ Becomes(StartAutoWalk(Walker, Straight(position, tile, 0), free))
    /\ UNCHANGED <<other, asked>>

\* Game::playerStopAutoWalk
PlayerStopAutoWalk ==
    /\ Becomes(StopWalk(Walker))
    /\ UNCHANGED <<other, asked>>

\* Creature::setFollowCreature of another creature
SetFollowCreature(w) ==
    IF w.following THEN w
    ELSE [IF w.list = <<>> THEN w ELSE SetNextWalkActionTask(w, NoRequest)
          EXCEPT !.list = <<>>, !.hasPath = FALSE, !.following = TRUE]

\* Game::playerFollowCreature: Player::setAttackedCreature(nullptr) ends following,
\* so that who is followed already is followed anew; Player::setFollowCreature if
\* the other is out of sight
PlayerFollowCreature ==
    LET freed == IF following THEN Unfollow(Walker) ELSE Walker
        told == [freed EXCEPT !.tasks = Append(@, <<"follow">>)]
    IN  /\ Becomes(IF Distance(position, other) <= Sight THEN SetFollowCreature(told)
                   ELSE Unfollow(told))
        /\ UNCHANGED <<other, asked>>

\* Game::playerCancelAttackAndFollow
PlayerCancelAttackAndFollow ==
    /\ Becomes(Unfollow([Walker EXCEPT !.tasks = Append(@, <<"follow">>)]))
    /\ UNCHANGED <<other, asked>>

\* the other creature makes a step
OtherMoves(d) ==
    /\ other + d \in Tiles \ {position} /\ Lift[other + d] = other + d
    /\ other' = other + d
    /\ Becomes(OnCreatureMove(Walker, other'))
    /\ UNCHANGED asked

\* Game::internalTeleport, by a script
Teleported(tile) ==
    /\ tile \notin {position, other}
    /\ Becomes(MoveTo(Walker, tile, TRUE))
    /\ UNCHANGED <<other, asked>>

-----------------------------------------------------------------------------
(***************************************************************************)
(* What comes by itself.                                                   *)
(***************************************************************************)

\* the next task: Game::playerAutoWalk from a request, or updateCreatureWalk,
\* which does nothing for two seconds after it has found no path
RunTask(free) ==
    /\ tasks # <<>>
    /\ LET rest == [Walker EXCEPT !.tasks = Tail(@)]
       IN  IF Head(tasks)[1] = "walk" THEN Becomes(StartAutoWalk(rest, Head(tasks)[2], free))
           ELSE \/ Becomes(GoToFollowCreature(rest, free))
                \/ ~hasFollowPath /\ Becomes(rest)
    /\ UNCHANGED <<other, asked>>

\* Creature::onThink, whenever it looks for a new path
OnThink(free) ==
    /\ following
    /\ Becomes(GoToFollowCreature(Walker, free))
    /\ UNCHANGED <<other, asked>>

\* Game::checkCreatureWalk, from the event that eventWalk names or another
CheckCreatureWalk(free) ==
    /\ \E named \in BOOLEAN :
         /\ IF named THEN eventWalk = "pending" ELSE strayWalks > 0
         /\ Becomes(OnWalk(IF named THEN [Walker EXCEPT !.event = "come"]
                           ELSE [Walker EXCEPT !.stray = @ - 1], free))
    /\ UNCHANGED <<other, asked>>

\* getWalkDelay() falls to 0
StepEnds == stepping /\ Becomes([Walker EXCEPT !.stepping = FALSE]) /\ UNCHANGED <<other, asked>>

\* the time of nextAction comes
Rests == exhausted /\ Becomes([Walker EXCEPT !.exhausted = FALSE]) /\ UNCHANGED <<other, asked>>

-----------------------------------------------------------------------------
\* what the player, or somebody else, does to a walk
Disturbs ==
    \/ \E d \in Directions, free \in BOOLEAN : PlayerMove(d, free)
    \/ \E tile \in Tiles, free \in BOOLEAN : PlayerAutoWalk(tile, free)
    \/ PlayerStopAutoWalk \/ PlayerFollowCreature \/ PlayerCancelAttackAndFollow
    \/ \E d \in Directions : OtherMoves(d)
    \/ \E tile \in Tiles : Teleported(tile)

\* tasks and events, and the steps they make
Comes(free) == RunTask(free) \/ OnThink(free) \/ CheckCreatureWalk(free)

\* nothing is left to come
AtRest ==
    /\ quiet /\ tasks = <<>> /\ eventWalk = "0" /\ scheduled = {}
    /\ ~stepping /\ ~exhausted /\ UNCHANGED walkState

\* the player asks, and what has been asked for goes on
Proceeds ==
    \/ \E r \in Requests : Ask(r) \/ RequestComes(r)
    \/ Comes(TRUE) \/ StepEnds \/ Rests \/ AtRest

CalmsDown == ~quiet /\ quiet' = TRUE /\ UNCHANGED walkState

\* the dispatcher keeps up: MaxTasks
WalkNext ==
    /\ \/ /\ (~quiet /\ (Disturbs \/ Comes(FALSE))) \/ Proceeds
          /\ quiet' = quiet
       \/ CalmsDown
    /\ Len(tasks') <= MaxTasks

\* tasks run, events come and times pass
WalkFairness ==
    /\ WF_walkState(RunTask(TRUE)) /\ WF_walkState(CheckCreatureWalk(TRUE))
    /\ \A r \in Requests : WF_walkState(RequestComes(r))
    /\ WF_walkState(StepEnds) /\ WF_walkState(Rests)

WalkSpec == WalkInit /\ [][WalkNext]_walkVars /\ WalkFairness

-----------------------------------------------------------------------------
(***************************************************************************)
(* Properties.                                                             *)
(***************************************************************************)

\* A player takes steps from one event at a time, and eventWalk names it: two
\* would walk at double speed, and stopEventWalk would stop only one.
OneStepEvent == strayWalks = 0 /\ eventWalk \in {"0", "pending"}

\* Every request that may still be carried out is where the next one, an arrow
\* key or the end of a walk looks for it: as walkTask, or in a pending event
\* that its variable names, in one place, and not when it is done.
RequestsAreNamed ==
    /\ scheduled = {walkTaskEvent, actionTaskEvent} \ {NoRequest}
    /\ \A r \in Requests :
         LET places == (IF walkTask = r THEN 1 ELSE 0) + (IF walkTaskEvent = r THEN 1 ELSE 0)
                       + (IF actionTaskEvent = r THEN 1 ELSE 0)
         IN  places <= (IF r \in asked \ done THEN 1 ELSE 0)

\* The task of a walk waits for a walk that goes on or is about to begin,
\* unless a teleport stopped the walk (MoveTo).
WalkTaskHasWalk ==
    walkTask # NoRequest => \/ eventWalk = "pending"
                            \/ \E k \in DOMAIN tasks : tasks[k][1] = "walk"
                            \/ stranded

WalksAgree == OneStepEvent /\ RequestsAreNamed /\ WalkTaskHasWalk

Waits(r) == r \in {walkTask, walkTaskEvent, actionTaskEvent}

\* When nothing disturbs the walk any more, who has asked for something gets
\* there, and it is done or given up, if nobody is followed and no teleport has
\* stopped the walk (onWalk, onWalkComplete, the ends of the handlers).
RequestsEnd ==
    \A r \in Requests : Waits(r) /\ quiet ~> ~Waits(r) \/ stranded \/ following

=============================================================================
