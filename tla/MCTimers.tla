------------------------------- MODULE MCTimers -------------------------------
(***************************************************************************)
(* The scheduler, and a player whose steps and requests are its events.    *)
(* One of them moves in a behaviour: the state space is the sum of theirs. *)
(*                                                                         *)
(* In one stage the player asks to use a lever and to push a creature,     *)
(* while arrow keys, map clicks and stops come between; whether requests   *)
(* come to an end is asked there.  In another they follow a creature, which*)
(* walks away, and ask to turn a signpost, to use a rope or to shoot,      *)
(* while a script may carry them off.                                      *)
(***************************************************************************)
EXTENDS Scheduler, Walking, TLC

CONSTANTS Lever, Creature, Signpost, Rope, Rune

MCLift == [t \in Tiles |-> IF t = Length THEN 1 ELSE t]

MCKind == (Lever :> "use") @@ (Creature :> "push") @@ (Signpost :> "turn")
          @@ (Rope :> "use with") @@ (Rune :> "shoot")

MCPlace == [r \in Requests |-> IF r = Lever THEN Length - 1 ELSE 1]

MCTarget == [r \in Requests |-> Length - 1]

VARIABLE stage

timerVars == <<stage, vars, walkVars>>

TimersInit ==
    /\ stage \in {"scheduler", "asks", "follows"}
    /\ Init /\ WalkInit
    /\ other = IF stage = "follows" THEN Length - 1 ELSE 0

Asks ==
    /\ \/ /\ ~quiet
          /\ \/ \E d \in Directions : PlayerMove(d, TRUE)
             \/ PlayerAutoWalk(Length - 1, TRUE) \/ PlayerStopAutoWalk
             \/ Comes(FALSE)
          /\ quiet' = quiet
       \/ Proceeds /\ quiet' = quiet
       \/ CalmsDown
    /\ asked' \subseteq {Lever, Creature}
    /\ Len(tasks') <= MaxTasks

Follows ==
    /\ \/ \E d \in Directions : OtherMoves(d)
       \/ PlayerFollowCreature \/ PlayerCancelAttackAndFollow \/ Teleported(1)
       \/ Comes(FALSE) \/ Proceeds
    /\ quiet' = quiet
    /\ asked' \in {{}, {Signpost}, {Rope}, {Rune}}
    /\ Len(tasks') <= MaxTasks

TimersNext ==
    /\ UNCHANGED stage
    /\ \/ stage = "scheduler" /\ Next /\ UNCHANGED walkVars
       \/ /\ \/ stage = "asks" /\ Asks
             \/ stage = "follows" /\ Follows
          /\ UNCHANGED vars

TimersFairness ==
    /\ WF_vars(stage = "scheduler" /\ ThreadMain)
    /\ WF_vars(stage = "scheduler" /\ Clear)
    /\ WF_vars(stage = "scheduler" /\ Tick)
    /\ \A c \in Callers : WF_vars(stage = "scheduler" /\ Notify(c))
    /\ WF_walkState(stage = "asks" /\ RunTask(TRUE))
    /\ WF_walkState(stage = "asks" /\ CheckCreatureWalk(TRUE))
    /\ \A r \in {Lever, Creature} : WF_walkState(stage = "asks" /\ RequestComes(r))
    /\ WF_walkState(stage = "asks" /\ StepEnds)
    /\ WF_walkState(stage = "asks" /\ Rests)

TimersSpec == TimersInit /\ [][TimersNext]_timerVars /\ TimersFairness

=============================================================================
