------------------------------ MODULE Scheduler ------------------------------
(***************************************************************************)
(* The scheduler: events with a due time, which any thread adds and may    *)
(* stop again, and the thread that hands each to the dispatcher when its   *)
(* time has come.  As in Dispatcher a critical section of eventLock is one *)
(* action and whatever lies between two of them is not; the end of a       *)
(* wait_until is a step of its own, before the thread has the lock back.   *)
(***************************************************************************)
EXTENDS Naturals, FiniteSets

CONSTANTS
    Callers,        \* the threads that add and stop events
    Closer,         \* the one that shuts the scheduler down
    Events,         \* SchedulerTask objects, with ids of their own
    Delays,
    NoEvent,
    MaxTime         \* bound on the clock

ASSUME SchedulerAssumption ==
    /\ Closer \in Callers
    /\ Delays \subseteq Nat /\ MaxTime \in Nat
    /\ NoEvent \notin Events

VARIABLES
    eventState,     \* ThreadHolder::threadState of the scheduler
    eventList,      \* the priority queue, as the set of its events
    eventIds,       \* the events that are in the queue and not stopped
    due,            \* Task::expiration, set when the event is created
    scheduler,      \* where the thread is
    deadline,       \* what it waits for, NoDeadline without events
    inHand,         \* the event it is handing to the dispatcher
    signalling,     \* the callers that still have to call notify_one
    closed,         \* how far Scheduler::shutdown has come
    fate,           \* of every event
    now

vars == <<eventState, eventList, eventIds, due, scheduler, deadline, inHand,
          signalling, closed, fate, now>>

switches == <<eventState, closed>>
queue == <<eventList, eventIds, due, fate>>
thread == <<scheduler, deadline, inHand>>

NoDeadline == MaxTime + 1

Init ==
    /\ eventState = "running"
    /\ eventList = {} /\ eventIds = {}
    /\ due = [e \in Events |-> 0]
    /\ scheduler = "check" /\ deadline = NoDeadline /\ inHand = NoEvent
    /\ signalling = {} /\ closed = "no"
    /\ fate = [e \in Events |-> "new"]
    /\ now = 0

\* eventList.top(): one of those with the earliest time
Tops(list) == {e \in list : \A f \in list : due[e] <= due[f]}

-----------------------------------------------------------------------------
\* mutants: notify only if the list was empty; never notify
AnnouncedToEmpty(e, d) == {eventList = {}}
AnnouncedNever(e, d) == {FALSE}

\* Is the new event the top now?  Among equals the queue decides.
Announced(e, d) ==
    {isTop \in BOOLEAN :
        IF isTop THEN \A f \in eventList : d <= due[f]
                 ELSE \E f \in eventList : due[f] <= d}

\* A thread is in one call at a time.
MayCall(c) == c \notin signalling /\ (c = Closer => closed # "halfway")

\* The caller creates the event, which fixes its time, and adds it.
AddEvent(c, e, delay) ==
    /\ MayCall(c)
    /\ fate[e] = "new" /\ now + delay <= MaxTime
    /\ due' = [due EXCEPT ![e] = now + delay]
    /\ IF eventState = "running"
       THEN /\ eventList' = eventList \cup {e}
            /\ eventIds' = eventIds \cup {e}
            /\ fate' = [fate EXCEPT ![e] = "pending"]
            /\ \E announce \in Announced(e, now + delay) :
                 signalling' = IF announce THEN signalling \cup {c}
                               ELSE signalling
       ELSE /\ fate' = [fate EXCEPT ![e] = "deleted"]
            /\ UNCHANGED <<eventList, eventIds, signalling>>
    /\ UNCHANGED <<switches, thread, now>>

\* stopEvent only forgets the id, the event stays in the queue until its time.
StopEvent(c, e) ==
    /\ MayCall(c)
    /\ e \in eventIds
    /\ eventIds' = eventIds \ {e}
    /\ fate' = [fate EXCEPT ![e] = "stopped"]
    /\ UNCHANGED <<switches, thread, eventList, due, signalling, now>>

Notify(c) ==
    /\ c \in signalling
    /\ signalling' = signalling \ {c}
    /\ scheduler' = IF scheduler = "asleep" THEN "woken" ELSE scheduler
    /\ UNCHANGED <<switches, queue, deadline, inHand, now>>

-----------------------------------------------------------------------------
\* The thread.  Its loop condition is read without the lock.
CheckState ==
    /\ scheduler = "check"
    /\ scheduler' = IF eventState = "terminated" THEN "ended" ELSE "lock"
    /\ deadline' = NoDeadline
    /\ UNCHANGED <<switches, queue, inHand, signalling, now>>

Sleep ==
    /\ scheduler = "lock"
    /\ scheduler' = "asleep"
    /\ \/ eventList = {} /\ deadline' = NoDeadline
       \/ \E e \in Tops(eventList) : deadline' = due[e]
    /\ UNCHANGED <<switches, queue, inHand, signalling, now>>

SpuriousWakeUp ==
    /\ scheduler = "asleep"
    /\ scheduler' = "woken"
    /\ UNCHANGED <<switches, queue, deadline, inHand, signalling, now>>

\* The wait ends at its deadline; the thread does not have the lock yet.
TimeOut ==
    /\ scheduler = "asleep" /\ deadline <= now
    /\ scheduler' = "timedout"
    /\ UNCHANGED <<switches, queue, deadline, inHand, signalling, now>>

\* Does wait_until, with the lock back, report a timeout?  A thread that was
\* woken but got the lock after its deadline is told so as well.
TimeoutReported ==
    \/ scheduler = "timedout"
    \/ scheduler = "woken" /\ deadline <= now

NoTimeout ==
    /\ scheduler = "woken" /\ deadline > now
    /\ scheduler' = "check"
    /\ UNCHANGED <<switches, queue, deadline, inHand, signalling, now>>

\* mutant: the ids are not asked
AnyEvent(e) == TRUE

NotStopped(e) == e \in eventIds

\* The top leaves the queue; it goes to the dispatcher unless it was stopped.
\* Without an event top() is undefined, and so is everything after it.
TakeTop ==
    /\ TimeoutReported
    /\ \/ eventList = {} /\ scheduler' = "undefined"
          /\ UNCHANGED <<eventList, eventIds, inHand, fate>>
       \/ \E e \in Tops(eventList) :
            /\ eventList' = eventList \ {e}
            /\ IF NotStopped(e)
               THEN /\ eventIds' = eventIds \ {e}
                    /\ scheduler' = "hand" /\ inHand' = e
                    /\ fate' = [fate EXCEPT ![e] = "handed"]
               ELSE /\ scheduler' = "check"
                    /\ UNCHANGED <<eventIds, inHand, fate>>
    /\ UNCHANGED <<switches, due, deadline, signalling, now>>

\* g_dispatcher.addTask, after the unlock
HandOver ==
    /\ scheduler = "hand"
    /\ scheduler' = "check" /\ inHand' = NoEvent
    /\ UNCHANGED <<switches, queue, deadline, signalling, now>>

-----------------------------------------------------------------------------
Stop ==
    /\ eventState = "running"
    /\ eventState' = "closing"
    /\ UNCHANGED <<closed, queue, thread, signalling, now>>

\* Scheduler::shutdown stores the state first, without the lock.
SetTerminated ==
    /\ MayCall(Closer) /\ closed = "no"
    /\ eventState' = "terminated" /\ closed' = "halfway"
    /\ UNCHANGED <<queue, thread, signalling, now>>

IdsCleared == {}

\* Then it deletes the events and, after the unlock, notifies.
Clear ==
    /\ closed = "halfway"
    /\ closed' = "done"
    /\ eventList' = {} /\ eventIds' = IdsCleared
    /\ fate' = [e \in Events |-> IF e \in eventIds THEN "deleted" ELSE fate[e]]
    /\ signalling' = signalling \cup {Closer}
    /\ UNCHANGED <<eventState, thread, due, now>>

Tick ==
    /\ now < MaxTime
    /\ now' = now + 1
    /\ UNCHANGED <<switches, queue, thread, signalling>>

-----------------------------------------------------------------------------
Ended == scheduler \in {"ended", "undefined"} /\ UNCHANGED vars

ThreadMain ==
    CheckState \/ Sleep \/ TimeOut \/ NoTimeout \/ TakeTop \/ HandOver

CallerStep(c) ==
    \/ \E e \in Events : (\E d \in Delays : AddEvent(c, e, d)) \/ StopEvent(c, e)
    \/ Notify(c)

\* Behaviours are followed up to the first undefined step.
Next ==
    \/ scheduler # "undefined" /\
         \/ \E c \in Callers : CallerStep(c)
         \/ ThreadMain
         \/ SpuriousWakeUp
         \/ Stop \/ SetTerminated \/ Clear
         \/ Tick
    \/ Ended

\* No thread stops between two of its statements and time passes; a wake-up
\* without a reason is never certain.
Fairness ==
    /\ WF_vars(ThreadMain) /\ WF_vars(Clear) /\ WF_vars(Tick)
    /\ \A c \in Callers : WF_vars(Notify(c))

Spec == Init /\ [][Next]_vars /\ Fairness

-----------------------------------------------------------------------------
\* The values of the variables; the ids are those of the events that are
\* pending, and all of them are in the queue.
TypeOK ==
    /\ eventState \in {"running", "closing", "terminated"}
    /\ eventList \subseteq Events /\ eventIds \subseteq eventList
    /\ due \in [Events -> 0..MaxTime]
    /\ scheduler \in {"check", "lock", "asleep", "woken", "timedout", "hand",
                      "ended", "undefined"}
    /\ deadline \in 0..NoDeadline
    /\ inHand \in Events \cup {NoEvent}
    /\ signalling \subseteq Callers
    /\ closed \in {"no", "halfway", "done"}
    /\ fate \in [Events -> {"new", "pending", "handed", "stopped", "deleted"}]
    /\ now \in 0..MaxTime
    /\ eventIds = {e \in Events : fate[e] = "pending"}
    /\ closed = "done" => eventList = {}

\* No event runs before its time (threadMain takes the top after a timeout
\* only), although the top may be another event than the one it waited for.
NeverEarly == \A e \in Events : fate[e] = "handed" => due[e] <= now

\* The thread never sleeps past the time of an event, unless a notification
\* that corrects it is under way (addEvent notifies for a new top only).
SleepsNoLongerThanTop ==
    scheduler = "asleep" =>
        \/ \A e \in eventList : deadline <= due[e]
        \/ signalling # {}

\* An event that stopEvent has stopped is never handed to the dispatcher,
\* although it stays in the queue; nor is one deleted by the shutdown.
StoppedForGood ==
    [][\A e \in Events :
         fate[e] \in {"stopped", "deleted"} => fate'[e] = fate[e]]_vars

\* Every accepted event is handed over, stopped or deleted by the shutdown.
NoEventForgotten ==
    \A e \in Events : fate[e] = "pending" ~> fate[e] # "pending"

\* threadMain: "ok we had a timeout, so there has to be an event we have to
\* execute..."
TimeoutHasEvent == [][TakeTop => eventList # {}]_vars

\* An event runs neither before its time nor late by more than a
\* notification that is under way (Scheduler::addEvent and threadMain).
OnTime == NeverEarly /\ SleepsNoLongerThanTop

=============================================================================
