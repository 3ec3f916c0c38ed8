------------------------------ MODULE TaskQueue ------------------------------
(***************************************************************************)
(* What the game's one task queue promises to the threads that use it:     *)
(* two lanes.  A task of the ordinary lane runs after those accepted       *)
(* before it; a task of the urgent lane runs before every ordinary task    *)
(* that waits, the last accepted first.  An accepted task leaves the queue *)
(* once, run or (its time limit being over) dropped, and none waits for    *)
(* ever unless the server stops.                                           *)
(***************************************************************************)
EXTENDS Sequences

CONSTANTS Urgent, Ordinary       \* two disjoint sets of tasks

VARIABLES
    urgent, ordinary,            \* the lanes
    stopped                      \* the queue serves nobody any more

lanes == <<urgent, ordinary, stopped>>

TQInit == urgent = <<>> /\ ordinary = <<>> /\ stopped = FALSE

AcceptUrgent(t) ==
    /\ urgent' = <<t>> \o urgent
    /\ UNCHANGED <<ordinary, stopped>>

AcceptOrdinary(t) ==
    /\ ordinary' = Append(ordinary, t)
    /\ UNCHANGED <<urgent, stopped>>

TakeUrgent ==
    /\ urgent # <<>> /\ ~stopped
    /\ urgent' = Tail(urgent)
    /\ UNCHANGED <<ordinary, stopped>>

TakeOrdinary ==
    /\ urgent = <<>> /\ ordinary # <<>> /\ ~stopped
    /\ ordinary' = Tail(ordinary)
    /\ UNCHANGED <<urgent, stopped>>

Take == TakeUrgent \/ TakeOrdinary

StopServing ==
    /\ ~stopped /\ stopped' = TRUE
    /\ UNCHANGED <<urgent, ordinary>>

TQNext ==
    \/ \E t \in Urgent : AcceptUrgent(t)
    \/ \E t \in Ordinary : AcceptOrdinary(t)
    \/ Take
    \/ StopServing

Spec == TQInit /\ [][TQNext]_lanes /\ WF_lanes(Take)

=============================================================================
