--------------------------- MODULE SchedulerProofs ---------------------------
(***************************************************************************)
(* The times of the scheduler, for any callers, events and delays: no      *)
(* event is early, none is slept through, and a stopped one is not run.    *)
(* And the events of a player who walks and asks for things, for any map   *)
(* and any requests: whatever waits is named, and a walk goes on to it.    *)
(***************************************************************************)
EXTENDS MCTimers, Facts

\* The shutdown has stored the state before it clears the queue, and an event
\* in the queue has been added.
Closed ==
    /\ closed # "no" => eventState = "terminated"
    /\ \A e \in eventList : fate[e] # "new"

\* The thread waits for the time of an event of the queue or for one before
\* it, or it waits without a deadline, or the shutdown has emptied the queue.
\* A timeout is over only at the deadline.
Deadlines ==
    /\ scheduler \in {"asleep", "woken", "timedout"} =>
         \/ eventList = {} /\ eventState # "running"
         \/ deadline = NoDeadline
         \/ \E e \in eventList : due[e] <= deadline
    /\ scheduler = "timedout" => deadline <= now

IInv == TypeOK /\ Closed /\ Deadlines /\ NeverEarly

\* The new event.
LEMMA AddEventKeeps ==
    ASSUME IInv, NEW c \in Callers, NEW e \in Events, NEW d \in Delays,
           AddEvent(c, e, d)
    PROVE  IInv'
<1> USE DEF NoDeadline
<1>1. /\ d \in Nat /\ now \in Nat /\ now + d \in 0..MaxTime
      /\ fate[e] = "new" /\ e \notin eventIds /\ e \notin eventList
      /\ due' = [due EXCEPT ![e] = now + d]
      /\ UNCHANGED <<eventState, closed, scheduler, deadline, inHand, now>>
  BY SchedulerAssumption DEF AddEvent, switches, thread, IInv, TypeOK, Closed
<1>2. due' \in [Events -> 0..MaxTime] /\ \A f \in Events \ {e} : due'[f] = due[f]
  BY <1>1 DEF IInv, TypeOK
<1>3. CASE eventState = "running"
  <2>1. /\ eventList' = eventList \cup {e} /\ eventIds' = eventIds \cup {e}
        /\ fate' = [fate EXCEPT ![e] = "pending"]
        /\ signalling' \in {signalling, signalling \cup {c}}
    BY <1>3 DEF AddEvent
  <2>2. closed # "done"
    BY <1>3 DEF IInv, Closed
  <2>3. eventIds' = {f \in Events : fate'[f] = "pending"}
    BY <1>1, <2>1 DEF IInv, TypeOK
  <2>4. TypeOK'
    BY <1>1, <1>2, <2>1, <2>2, <2>3 DEF IInv, TypeOK
  <2>5. Closed'
    BY <1>1, <2>1 DEF IInv, TypeOK, Closed
  <2>6. Deadlines'
    BY <1>1, <1>2, <1>3, <2>1 DEF IInv, TypeOK, Deadlines
  <2>7. NeverEarly'
    BY <1>1, <1>2, <2>1 DEF IInv, TypeOK, NeverEarly
  <2> QED
    BY <2>4, <2>5, <2>6, <2>7 DEF IInv
<1>4. CASE eventState # "running"
  <2>1. /\ fate' = [fate EXCEPT ![e] = "deleted"]
        /\ UNCHANGED <<eventList, eventIds, signalling>>
    BY <1>4 DEF AddEvent
  <2>2. eventIds' = {f \in Events : fate'[f] = "pending"}
    BY <1>1, <2>1 DEF IInv, TypeOK
  <2>3. TypeOK'
    BY <1>1, <1>2, <2>1, <2>2 DEF IInv, TypeOK
  <2>4. Closed'
    BY <1>1, <2>1 DEF IInv, TypeOK, Closed
  <2>5. Deadlines'
    BY <1>1, <1>2, <2>1 DEF IInv, TypeOK, Deadlines
  <2>6. NeverEarly'
    BY <1>1, <1>2, <2>1 DEF IInv, TypeOK, NeverEarly
  <2> QED
    BY <2>3, <2>4, <2>5, <2>6 DEF IInv
<1> QED
  BY <1>3, <1>4

\* The thread takes a top: whatever ended its wait, the top's time has come.
LEMMA TopIsDue ==
    ASSUME IInv, TimeoutReported, NEW e \in Tops(eventList)
    PROVE  due[e] <= now
<1> USE DEF NoDeadline
<1>1. deadline <= now /\ scheduler \in {"woken", "timedout"}
  BY DEF TimeoutReported, IInv, Deadlines
<1>2. e \in eventList /\ \A f \in eventList : due[e] <= due[f]
  BY DEF Tops
<1>3. deadline # NoDeadline
  BY <1>1, SchedulerAssumption DEF IInv, TypeOK
<1>4. PICK f \in eventList : due[f] <= deadline
  BY <1>1, <1>2, <1>3 DEF IInv, Deadlines
<1>5. due[e] \in Nat /\ due[f] \in Nat /\ deadline \in Nat /\ now \in Nat
  BY <1>2, SchedulerAssumption DEF IInv, TypeOK
<1> QED
  BY <1>1, <1>2, <1>4, <1>5

\* Taking the top keeps the ids, the queue and the fates in step.
LEMMA TakeTopKeeps ==
    ASSUME IInv, TakeTop
    PROVE  IInv'
<1> USE DEF NoDeadline
<1>0. UNCHANGED <<eventState, closed, due, deadline, signalling, now>>
  BY DEF TakeTop, switches
<1>1. CASE eventList = {} /\ scheduler' = "undefined"
           /\ UNCHANGED <<eventList, eventIds, inHand, fate>>
  BY <1>0, <1>1 DEF IInv, TypeOK, Closed, Deadlines, NeverEarly
<1>2. ASSUME NEW e \in Tops(eventList), eventList' = eventList \ {e},
             IF NotStopped(e)
             THEN /\ eventIds' = eventIds \ {e}
                  /\ scheduler' = "hand" /\ inHand' = e
                  /\ fate' = [fate EXCEPT ![e] = "handed"]
             ELSE /\ scheduler' = "check"
                  /\ UNCHANGED <<eventIds, inHand, fate>>
      PROVE  IInv'
  <2>1. e \in eventList /\ e \in Events
    BY DEF Tops, IInv, TypeOK
  <2>2. due[e] <= now
    BY TopIsDue DEF TakeTop
  <2>3. CASE e \in eventIds
    <3>1. /\ eventIds' = eventIds \ {e} /\ scheduler' = "hand" /\ inHand' = e
          /\ fate' = [fate EXCEPT ![e] = "handed"]
      BY <1>2, <2>3 DEF NotStopped
    <3>2. eventIds' = {f \in Events : fate'[f] = "pending"}
      BY <2>1, <3>1 DEF IInv, TypeOK
    <3>3. TypeOK'
      BY <1>0, <1>2, <2>1, <3>1, <3>2 DEF IInv, TypeOK
    <3>4. Closed' /\ Deadlines'
      BY <1>0, <1>2, <2>1, <3>1 DEF IInv, TypeOK, Closed, Deadlines
    <3>5. NeverEarly'
      BY <1>0, <2>1, <2>2, <3>1 DEF IInv, TypeOK, NeverEarly
    <3> QED
      BY <3>3, <3>4, <3>5 DEF IInv
  <2>4. CASE e \notin eventIds
    <3>1. scheduler' = "check" /\ UNCHANGED <<eventIds, inHand, fate>>
      BY <1>2, <2>4 DEF NotStopped
    <3>2. TypeOK'
      BY <1>0, <1>2, <2>1, <2>4, <3>1 DEF IInv, TypeOK
    <3> QED
      BY <1>0, <1>2, <2>1, <3>1, <3>2 DEF IInv, Closed, Deadlines, NeverEarly
  <2> QED
    BY <2>3, <2>4
<1> QED
  BY <1>1, <1>2 DEF TakeTop

\* So does the shutdown, which deletes every pending event.
LEMMA ClearKeeps ==
    ASSUME IInv, Clear
    PROVE  IInv'
<1>1. /\ closed = "halfway" /\ closed' = "done" /\ eventList' = {} /\ eventIds' = {}
      /\ fate' = [e \in Events |-> IF e \in eventIds THEN "deleted" ELSE fate[e]]
      /\ signalling' = signalling \cup {Closer}
      /\ UNCHANGED <<eventState, scheduler, deadline, inHand, due, now>>
  BY DEF Clear, IdsCleared, thread
<1>2. eventIds' = {e \in Events : fate'[e] = "pending"}
  BY <1>1 DEF IInv, TypeOK
<1>3. TypeOK'
  BY <1>1, <1>2, SchedulerAssumption DEF IInv, TypeOK, NoDeadline
<1>4. Closed' /\ Deadlines'
  BY <1>1 DEF IInv, Closed, Deadlines, NoDeadline
<1>5. NeverEarly'
  BY <1>1 DEF IInv, NeverEarly
<1> QED
  BY <1>3, <1>4, <1>5 DEF IInv

\* The strengthened invariant is inductive.
LEMMA Inductive == IInv /\ [Next]_vars => IInv'
<1> SUFFICES ASSUME IInv, [Next]_vars PROVE IInv'
  OBVIOUS
<1> USE DEF NoDeadline
<1>1. ASSUME NEW c \in Callers, NEW e \in Events, NEW d \in Delays,
             AddEvent(c, e, d)
      PROVE  IInv'
  BY <1>1, AddEventKeeps
<1>2. ASSUME NEW c \in Callers, NEW e \in Events, StopEvent(c, e)
      PROVE  IInv'
  <2>1. /\ e \in eventIds /\ eventIds' = eventIds \ {e}
        /\ fate' = [fate EXCEPT ![e] = "stopped"]
        /\ UNCHANGED <<eventState, closed, scheduler, deadline, inHand,
                       eventList, due, signalling, now>>
    BY <1>2 DEF StopEvent, switches, thread
  <2>2. eventIds' = {f \in Events : fate'[f] = "pending"}
    BY <2>1 DEF IInv, TypeOK
  <2>3. TypeOK'
    BY <2>1, <2>2 DEF IInv, TypeOK
  <2>4. Closed' /\ Deadlines' /\ NeverEarly'
    BY <2>1 DEF IInv, TypeOK, Closed, Deadlines, NeverEarly
  <2> QED
    BY <2>3, <2>4 DEF IInv
<1>3. ASSUME NEW c \in Callers, Notify(c)
      PROVE  IInv'
  BY <1>3 DEF Notify, switches, queue, IInv, TypeOK, Closed, Deadlines, NeverEarly
<1>4. CASE CheckState
  BY <1>4, SchedulerAssumption
     DEF CheckState, switches, queue, IInv, TypeOK, Closed, Deadlines, NeverEarly
<1>5. CASE Sleep
  <2>1. /\ scheduler' = "asleep"
        /\ UNCHANGED <<eventState, closed, eventList, eventIds, due, fate, inHand,
                       signalling, now>>
    BY <1>5 DEF Sleep, switches, queue
  <2>2. deadline' = NoDeadline \/ \E e \in eventList : deadline' = due[e]
    BY <1>5 DEF Sleep, Tops
  <2>3. deadline' \in 0..NoDeadline
    BY <2>2, SchedulerAssumption DEF IInv, TypeOK
  <2>4. \A e \in eventList : due[e] \in Nat
    BY SchedulerAssumption DEF IInv, TypeOK
  <2> QED
    BY <2>1, <2>2, <2>3, <2>4 DEF IInv, TypeOK, Closed, Deadlines, NeverEarly
<1>6. CASE SpuriousWakeUp \/ TimeOut \/ NoTimeout
  BY <1>6 DEF SpuriousWakeUp, TimeOut, NoTimeout, switches, queue, IInv, TypeOK,
     Closed, Deadlines, NeverEarly
<1>7. CASE TakeTop
  BY <1>7, TakeTopKeeps
<1>8. CASE HandOver
  BY <1>8 DEF HandOver, switches, queue, IInv, TypeOK, Closed, Deadlines, NeverEarly
<1>9. CASE Stop \/ SetTerminated
  BY <1>9 DEF Stop, SetTerminated, thread, queue, IInv, TypeOK, Closed, Deadlines,
     NeverEarly
<1>10. CASE Clear
  BY <1>10, ClearKeeps
<1>11. CASE Tick
  <2>1. now' = now + 1 /\ now' \in 0..MaxTime
        /\ UNCHANGED <<switches, queue, thread, signalling>>
    BY <1>11, SchedulerAssumption DEF Tick, IInv, TypeOK
  <2>2. \A e \in Events : due[e] \in Nat
    BY SchedulerAssumption DEF IInv, TypeOK
  <2>3. now \in Nat /\ deadline \in Nat
    BY SchedulerAssumption DEF IInv, TypeOK
  <2> QED
    BY <2>1, <2>2, <2>3 DEF switches, queue, thread, IInv, TypeOK, Closed, Deadlines,
       NeverEarly
<1>12. CASE UNCHANGED vars
  BY <1>12 DEF vars, IInv, TypeOK, Closed, Deadlines, NeverEarly
<1> QED
  BY <1>1, <1>2, <1>3, <1>4, <1>5, <1>6, <1>7, <1>8, <1>9, <1>10, <1>11, <1>12
     DEF Next, CallerStep, ThreadMain, Ended

\* The scheduler starts without events.
LEMMA Start == Init => IInv
  BY SchedulerAssumption DEF Init, IInv, TypeOK, Closed, Deadlines, NeverEarly,
     NoDeadline

\* The values of the variables; the ids are those of the pending events, all
\* of them in the queue.
THEOREM TypeCorrect == Spec => []TypeOK
<1>1. IInv => TypeOK
  BY DEF IInv
<1> QED
  BY <1>1, Start, Inductive, PTL DEF Spec

\* No event is handed over before its time, although notifications, spurious
\* wake-ups and late timeouts all make the thread look at another top than the
\* one it waited for (Scheduler::threadMain).
THEOREM NeverEarlyTheorem == Spec => []NeverEarly
<1>1. IInv => NeverEarly
  BY DEF IInv
<1> QED
  BY <1>1, Start, Inductive, PTL DEF Spec

\* An event that was stopped, or deleted by the shutdown, is not handed over
\* afterwards, although it stays in the queue.
THEOREM StoppedTheorem == Spec => StoppedForGood
<1>1. IInv /\ [Next]_vars
      => [\A e \in Events : fate[e] \in {"stopped", "deleted"} => fate'[e] = fate[e]]_vars
  <2> SUFFICES ASSUME IInv, Next, NEW e \in Events, fate[e] \in {"stopped", "deleted"}
               PROVE  fate'[e] = fate[e]
    OBVIOUS
  <2>1. e \notin eventIds /\ fate \in [Events -> {"new", "pending", "handed",
                                                  "stopped", "deleted"}]
    BY DEF IInv, TypeOK
  <2>2. ASSUME NEW c \in Callers, NEW f \in Events, NEW d \in Delays,
               AddEvent(c, f, d)
        PROVE  fate'[e] = fate[e]
    BY <2>1, <2>2 DEF AddEvent
  <2>3. ASSUME NEW c \in Callers, NEW f \in Events, StopEvent(c, f)
        PROVE  fate'[e] = fate[e]
    BY <2>1, <2>3 DEF StopEvent
  <2>4. CASE TakeTop
    <3>1. fate' = fate \/ \E f \in eventIds : fate' = [fate EXCEPT ![f] = "handed"]
      BY <2>4 DEF TakeTop, NotStopped
    <3> QED
      BY <2>1, <3>1
  <2>5. CASE Clear
    BY <2>1, <2>5 DEF Clear
  <2>6. ASSUME NEW c \in Callers, Notify(c)
        PROVE  fate' = fate
    BY <2>6 DEF Notify, queue
  <2>7. CASE CheckState \/ Sleep \/ TimeOut \/ NoTimeout \/ HandOver \/ SpuriousWakeUp
             \/ Stop \/ SetTerminated \/ Tick \/ UNCHANGED vars
    BY <2>7 DEF CheckState, Sleep, TimeOut, NoTimeout, HandOver, SpuriousWakeUp,
       Stop, SetTerminated, Tick, queue, vars
  <2> QED
    BY <2>2, <2>3, <2>4, <2>5, <2>6, <2>7 DEF Next, CallerStep, ThreadMain, Ended
<1> QED
  BY <1>1, Start, Inductive, PTL DEF Spec, StoppedForGood

-----------------------------------------------------------------------------
\* A sleeping thread wakes in time for every event: its deadline is no later
\* than theirs, or a notification is under way.  addEvent notifies for a new
\* top only, and every other event is behind the top the thread waits for.
THEOREM SleepsTheorem == Spec => []SleepsNoLongerThanTop
<1>1. Init => SleepsNoLongerThanTop
  BY DEF Init, SleepsNoLongerThanTop
<1>2. IInv /\ SleepsNoLongerThanTop /\ [Next]_vars => SleepsNoLongerThanTop'
  <2> SUFFICES ASSUME IInv, SleepsNoLongerThanTop, [Next]_vars,
                      scheduler' = "asleep", signalling' = {}
               PROVE  \A g \in eventList' : deadline' <= due'[g]
    BY DEF SleepsNoLongerThanTop
  <2> USE DEF NoDeadline
  <2>0. /\ \A g \in Events : due[g] \in Nat
        /\ eventList \subseteq Events /\ deadline \in Nat /\ now \in Nat
        /\ due \in [Events -> 0..MaxTime]
    BY SchedulerAssumption DEF IInv, TypeOK
  <2>1. ASSUME NEW c \in Callers, NEW e \in Events, NEW d \in Delays,
               AddEvent(c, e, d)
        PROVE  \A g \in eventList' : deadline' <= due'[g]
    <3>1. /\ fate[e] = "new" /\ e \notin eventList /\ d \in Nat
          /\ due' = [due EXCEPT ![e] = now + d]
          /\ scheduler = "asleep" /\ UNCHANGED <<scheduler, deadline>>
      BY <2>1, SchedulerAssumption DEF AddEvent, thread, IInv, Closed
    <3>2. \A g \in eventList : due'[g] = due[g]
      BY <3>1, <2>0
    <3>3. signalling = {} /\ \A g \in eventList : deadline <= due[g]
      BY <2>1, <3>1 DEF AddEvent, SleepsNoLongerThanTop
    <3>4. CASE eventState = "running"
      <4>1. eventList' = eventList \cup {e}
            /\ \E announce \in Announced(e, now + d) : ~announce
        BY <2>1, <3>4 DEF AddEvent, Announced
      <4>2. PICK f \in eventList : due[f] <= now + d
        BY <4>1 DEF Announced
      <4>3. due'[e] = now + d /\ deadline <= now + d
        BY <2>0, <3>1, <3>3, <4>2
      <4> QED
        BY <3>1, <3>2, <3>3, <4>1, <4>3
    <3>5. CASE eventState # "running"
      BY <2>1, <3>1, <3>2, <3>3, <3>5 DEF AddEvent
    <3> QED
      BY <3>4, <3>5
  <2>2. ASSUME NEW c \in Callers, NEW e \in Events, StopEvent(c, e)
        PROVE  \A g \in eventList' : deadline' <= due'[g]
    BY <2>2 DEF StopEvent, thread, SleepsNoLongerThanTop
  <2>3. ASSUME NEW c \in Callers, Notify(c)
        PROVE  FALSE
    BY <2>3 DEF Notify
  <2>4. CASE Sleep
    BY <2>0, <2>4, SchedulerAssumption DEF Sleep, Tops, queue, IInv, TypeOK
  <2>5. CASE CheckState \/ TimeOut \/ NoTimeout \/ HandOver \/ SpuriousWakeUp \/ TakeTop
    BY <2>5 DEF CheckState, TimeOut, NoTimeout, HandOver, SpuriousWakeUp, TakeTop
  <2>6. CASE Clear
    BY <2>6 DEF Clear
  <2>7. CASE Stop \/ SetTerminated \/ Tick \/ UNCHANGED vars
    BY <2>7 DEF Stop, SetTerminated, Tick, switches, queue, thread, vars,
       SleepsNoLongerThanTop
  <2> QED
    BY <2>1, <2>2, <2>3, <2>4, <2>5, <2>6, <2>7 DEF Next, CallerStep, ThreadMain, Ended
<1> QED
  BY <1>1, <1>2, Start, Inductive, PTL DEF Spec

\* An event runs neither before its time nor late by more than a notification
\* that is under way.
THEOREM OnTimeTheorem == Spec => []OnTime
BY NeverEarlyTheorem, SleepsTheorem, PTL DEF OnTime

-----------------------------------------------------------------------------
(***************************************************************************)
(* Walks.  Their handlers are functions on a record of the variables of a  *)
(* player, and the lemmas speak of any such record.                        *)
(***************************************************************************)
Asked == Requests \cup {NoRequest}

WalkTasks == {<<"follow">>} \cup {<<"walk", path>> : path \in Seq(Directions)}

\* A record in which a step may be under way ("come").
Walks ==
    [pos : Tiles, list : Seq(Directions), event : {"0", "pending", "come"},
     stray : {0}, cancel : BOOLEAN, stepping : BOOLEAN, exhausted : BOOLEAN,
     walkTask : Asked, walkEvent : Asked, action : Asked,
     scheduled : SUBSET Requests, tasks : Seq(WalkTasks), taken : SUBSET Requests,
     following : BOOLEAN, hasPath : BOOLEAN, done : SUBSET Requests, stranded : BOOLEAN]

\* Who waits is in one place, and one that an event names is scheduled.
Named(w, asks) ==
    /\ w.scheduled = {w.walkEvent, w.action} \ {NoRequest}
    /\ w.walkTask = NoRequest \/ w.walkEvent = NoRequest
    /\ w.walkTask # NoRequest => w.walkTask # w.action
    /\ w.walkEvent # NoRequest => w.walkEvent # w.action
    /\ {w.walkTask, w.walkEvent, w.action} \subseteq (asks \ w.done) \cup {NoRequest}
    /\ w.done \subseteq asks

WalkAhead(list) == \E k \in DOMAIN list : list[k][1] = "walk"

Waiting(w, asks) == w \in Walks /\ Named(w, asks)

\* Between two handlers.
Settles(w, asks) ==
    /\ Waiting(w, asks)
    /\ w.event \in {"0", "pending"}
    /\ w.walkTask # NoRequest => w.event = "pending" \/ WalkAhead(w.tasks) \/ w.stranded

\* Nothing of this is touched.
SameWalk(w, g) ==
    g.event = w.event /\ g.tasks = w.tasks /\ g.stranded = w.stranded

\* r is to be carried out now.
Ready(w, asks, r) ==
    /\ Settles(w, asks) /\ r \in Requests /\ r \in asks \ w.done
    /\ r \notin {w.walkTask, w.walkEvent, w.action}

\* Where the next step ends, and what it leaves of a walk.
Stepped(w, g) ==
    /\ g.walkTask \in {w.walkTask, NoRequest}
    /\ WalkAhead(w.tasks) => WalkAhead(g.tasks)
    /\ \/ g.event = w.event
       \/ g.event = "0" /\ (g.walkTask = NoRequest \/ g.stranded)

\* The tasks of a player.
LEMMA TaskAppended ==
    ASSUME NEW list \in Seq(WalkTasks), NEW t \in WalkTasks
    PROVE  /\ Append(list, t) \in Seq(WalkTasks)
           /\ WalkAhead(list) \/ t[1] = "walk" => WalkAhead(Append(list, t))
<1>1. /\ Append(list, t) \in Seq(WalkTasks) /\ Len(Append(list, t)) = Len(list) + 1
      /\ Append(list, t)[Len(list) + 1] = t
      /\ \A i \in 1..Len(list) : Append(list, t)[i] = list[i]
  BY Appended
<1>2. DOMAIN list = 1..Len(list) /\ DOMAIN Append(list, t) = 1..(Len(list) + 1)
      /\ Len(list) \in Nat
  BY <1>1
<1>3. Len(list) + 1 \in DOMAIN Append(list, t) /\ DOMAIN list \subseteq DOMAIN Append(list, t)
  BY <1>2
<1> QED
  BY <1>1, <1>2, <1>3 DEF WalkAhead

\* The task that runs leaves the list; one that is ahead of it stays.
LEMMA TaskLeaves ==
    ASSUME NEW list \in Seq(WalkTasks), list # <<>>
    PROVE  /\ Tail(list) \in Seq(WalkTasks) /\ Head(list) \in WalkTasks
           /\ Head(list)[1] # "walk" /\ WalkAhead(list) => WalkAhead(Tail(list))
<1>1. /\ Tail(list) \in Seq(WalkTasks) /\ Head(list) \in WalkTasks /\ Head(list) = list[1]
      /\ Len(Tail(list)) = Len(list) - 1 /\ Len(list) \in Nat \ {0}
      /\ \A i \in 1..Len(Tail(list)) : Tail(list)[i] = list[i + 1]
  BY Beheaded
<1>2. ASSUME Head(list)[1] # "walk", WalkAhead(list) PROVE WalkAhead(Tail(list))
  <2>1. PICK k \in 1..Len(list) : list[k][1] = "walk"
    BY <1>2 DEF WalkAhead
  <2>2. k # 1
    BY <1>1, <1>2, <2>1
  <2>3. k - 1 \in 1..Len(Tail(list)) /\ (k - 1) + 1 = k
    BY <1>1, <2>1, <2>2
  <2>4. Tail(list)[k - 1] = list[k] /\ k - 1 \in DOMAIN Tail(list)
    BY <1>1, <2>3
  <2> QED
    BY <2>1, <2>4 DEF WalkAhead
<1> QED
  BY <1>1, <1>2

\* Where things are.
LEMMA TilesAreInt ==
    /\ \A t \in Tiles : t \in Int
    /\ \A r \in Requests : Place[r] \in Int /\ Target[r] \in Int
<1>1. \A t \in Tiles : t \in Int
  BY DEF Tiles
<1>2. \A r \in Requests : Place[r] \in Tiles /\ Target[r] \in Tiles
  BY WalkingAssumption
<1> QED
  BY <1>1, <1>2

\* A straight way is one, however short.
LEMMA StraightIs ==
    ASSUME NEW a \in Int, NEW b \in Int, NEW n \in Int
    PROVE  Straight(a, b, n) \in Seq(Directions)
<1>1. PICK m \in Int : m = Distance(a, b) - n
  BY DEF Distance
<1>2. PICK d \in Directions : d = IF a < b THEN 1 ELSE -1
  BY DEF Directions
<1>3. Straight(a, b, n) = [k \in 1..m |-> d]
  BY <1>1, <1>2 DEF Straight
<1>4. CASE m >= 0
  <2>1. m \in Nat
    BY <1>4
  <2>2. [k \in 1..m |-> d] \in Seq(Directions)
    BY <1>2, <2>1
  <2> QED
    BY <1>3, <2>2
<1>5. CASE m < 0
  <2>1. 1..m = 1..0
    BY <1>5
  <2>2. [k \in 1..0 |-> d] \in Seq(Directions)
    OBVIOUS
  <2> QED
    BY <1>3, <2>1, <2>2
<1> QED
  BY <1>4, <1>5

-----------------------------------------------------------------------------
\* Player::setNextWalkActionTask: the event of the last request is stopped.
LEMMA WalkTaskSet ==
    ASSUME NEW asks, NEW w, Waiting(w, asks), NEW r \in Asked,
           r # NoRequest => r \in asks \ w.done /\ r # w.action
    PROVE  /\ Waiting(SetNextWalkActionTask(w, r), asks)
           /\ SameWalk(w, SetNextWalkActionTask(w, r))
           /\ SetNextWalkActionTask(w, r).walkTask = r
<1> DEFINE g == SetNextWalkActionTask(w, r)
<1>0. w \in Walks /\ Named(w, asks)
  BY DEF Waiting
<1>1. /\ g \in Walks /\ g.scheduled = w.scheduled \ {w.walkEvent} /\ g.walkEvent = NoRequest
      /\ g.walkTask = r /\ g.action = w.action /\ g.done = w.done
      /\ g.event = w.event /\ g.tasks = w.tasks /\ g.stranded = w.stranded
  BY <1>0 DEF SetNextWalkActionTask, Walks, Asked
<1> HIDE DEF g
<1>2. Named(g, asks)
  BY <1>0, <1>1 DEF Named
<1>3. Waiting(g, asks) /\ SameWalk(w, g) /\ g.walkTask = r
  BY <1>1, <1>2 DEF Waiting, SameWalk
<1> QED
  BY <1>3 DEF g

\* Player::setNextActionTask: the event of the last action is stopped.
LEMMA ActionSet ==
    ASSUME NEW asks, NEW w, Waiting(w, asks), NEW r \in Asked,
           r # NoRequest => r \in asks \ w.done /\ r \notin {w.walkTask, w.walkEvent}
    PROVE  /\ Waiting(SetNextActionTask(w, r), asks)
           /\ SameWalk(w, SetNextActionTask(w, r))
           /\ SetNextActionTask(w, r).walkTask = w.walkTask
           /\ SetNextActionTask(w, r).walkEvent = w.walkEvent
           /\ SetNextActionTask(w, r).action = r
           /\ SetNextActionTask(w, r).done = w.done
           /\ SetNextActionTask(w, r).list = w.list
           /\ SetNextActionTask(w, r).pos = w.pos
           /\ SetNextActionTask(w, r).following = w.following
<1> DEFINE g == SetNextActionTask(w, r)
<1>0. w \in Walks /\ Named(w, asks) /\ NoRequest \notin Requests
  BY WalkingAssumption DEF Waiting
<1>1. /\ g \in Walks /\ g.scheduled = (w.scheduled \ {w.action}) \cup ({r} \ {NoRequest})
      /\ g.walkEvent = w.walkEvent
      /\ g.walkTask = w.walkTask /\ g.action = r /\ g.done = w.done
      /\ g.event = w.event /\ g.tasks = w.tasks /\ g.stranded = w.stranded
      /\ g.list = w.list /\ g.pos = w.pos /\ g.following = w.following
  BY <1>0 DEF SetNextActionTask, Walks, Asked
<1> HIDE DEF g
<1>2. Named(g, asks)
  BY <1>0, <1>1 DEF Named
<1>3. /\ Waiting(g, asks) /\ SameWalk(w, g) /\ g.walkTask = w.walkTask
      /\ g.walkEvent = w.walkEvent /\ g.action = r /\ g.done = w.done /\ g.list = w.list
      /\ g.pos = w.pos /\ g.following = w.following
  BY <1>1, <1>2 DEF Waiting, SameWalk
<1> QED
  BY <1>3 DEF g

\* Player::onWalkComplete: the task of the walk becomes an event.
LEMMA WalkCompleted ==
    ASSUME NEW asks, NEW w, Waiting(w, asks)
    PROVE  /\ Waiting(OnWalkComplete(w), asks)
           /\ SameWalk(w, OnWalkComplete(w))
           /\ OnWalkComplete(w).walkTask = NoRequest
<1> DEFINE g == OnWalkComplete(w)
<1>0. w \in Walks /\ Named(w, asks) /\ NoRequest \notin Requests
  BY WalkingAssumption DEF Waiting
<1>1. CASE w.walkTask = NoRequest
  BY <1>0, <1>1 DEF OnWalkComplete, Waiting, SameWalk
<1>2. CASE w.walkTask # NoRequest
  <2>1. /\ g \in Walks /\ g.scheduled = w.scheduled \cup {w.walkTask}
        /\ g.walkEvent = w.walkTask
        /\ g.walkTask = NoRequest /\ g.action = w.action /\ g.done = w.done
        /\ g.event = w.event /\ g.tasks = w.tasks /\ g.stranded = w.stranded
    BY <1>0, <1>2 DEF OnWalkComplete, Walks, Asked
  <2> HIDE DEF g
  <2>2. Named(g, asks)
    BY <1>0, <1>2, <2>1 DEF Named
  <2>3. Waiting(g, asks) /\ SameWalk(w, g) /\ g.walkTask = NoRequest
    BY <2>1, <2>2 DEF Waiting, SameWalk
  <2> QED
    BY <2>3 DEF g
<1> QED
  BY <1>1, <1>2

-----------------------------------------------------------------------------
\* Steps.  A record that differs in nothing that waits waits as before.
LEMMA WaitsAlike ==
    ASSUME NEW asks, NEW w, Waiting(w, asks), NEW g \in Walks,
           g.scheduled = w.scheduled, g.walkEvent = w.walkEvent, g.walkTask = w.walkTask,
           g.action = w.action, g.done = w.done
    PROVE  Waiting(g, asks)
  BY DEF Waiting, Named

\* The other creature is out of sight, near, or has no path to it.
LEMMA CreatureMoved ==
    ASSUME NEW asks, NEW w, Waiting(w, asks), NEW at
    PROVE  /\ Waiting(OnCreatureMove(w, at), asks)
           /\ OnCreatureMove(w, at).walkTask = w.walkTask
           /\ OnCreatureMove(w, at).event = w.event
           /\ OnCreatureMove(w, at).stranded = w.stranded
           /\ WalkAhead(w.tasks) => WalkAhead(OnCreatureMove(w, at).tasks)
<1> DEFINE g == OnCreatureMove(w, at)
<1>0. w \in Walks
  BY DEF Waiting
<1>1. \/ g = w
      \/ g = [[w EXCEPT !.following = FALSE] EXCEPT !.cancel = TRUE]
      \/ g = [w EXCEPT !.tasks = Append(@, <<"follow">>)]
  BY DEF OnCreatureMove, Unfollow, StopWalk
<1> HIDE DEF g
<1>2. CASE g = w
  BY <1>2 DEF g
<1>3. CASE g = [[w EXCEPT !.following = FALSE] EXCEPT !.cancel = TRUE]
  <2>1. /\ g \in Walks /\ g.scheduled = w.scheduled /\ g.walkEvent = w.walkEvent
        /\ g.walkTask = w.walkTask /\ g.action = w.action /\ g.done = w.done
        /\ g.event = w.event /\ g.stranded = w.stranded /\ g.tasks = w.tasks
    BY <1>0, <1>3 DEF Walks
  <2>2. Waiting(g, asks)
    BY <2>1, WaitsAlike
  <2> QED
    BY <2>1, <2>2 DEF g
<1>4. CASE g = [w EXCEPT !.tasks = Append(@, <<"follow">>)]
  <2>0. Append(w.tasks, <<"follow">>) \in Seq(WalkTasks)
        /\ (WalkAhead(w.tasks) => WalkAhead(Append(w.tasks, <<"follow">>)))
    BY <1>0, TaskAppended DEF Walks, WalkTasks
  <2>1. /\ g \in Walks /\ g.scheduled = w.scheduled /\ g.walkEvent = w.walkEvent
        /\ g.walkTask = w.walkTask /\ g.action = w.action /\ g.done = w.done
        /\ g.event = w.event /\ g.stranded = w.stranded
        /\ g.tasks = Append(w.tasks, <<"follow">>)
    BY <1>0, <1>4, <2>0 DEF Walks
  <2>2. Waiting(g, asks)
    BY <2>1, WaitsAlike
  <2> QED
    BY <2>0, <2>1, <2>2 DEF g
<1> QED
  BY <1>1, <1>2, <1>3, <1>4

\* The player stands on another tile, on foot or by a teleport.
LEMMA MovedTo ==
    ASSUME NEW asks, NEW w, Waiting(w, asks), NEW tile \in Tiles, NEW teleport \in BOOLEAN
    PROVE  /\ Waiting(MoveTo(w, tile, teleport), asks)
           /\ MoveTo(w, tile, teleport).walkTask = w.walkTask
           /\ WalkAhead(w.tasks) => WalkAhead(MoveTo(w, tile, teleport).tasks)
           /\ IF teleport
              THEN MoveTo(w, tile, teleport).event = "0" /\ MoveTo(w, tile, teleport).stranded
              ELSE /\ MoveTo(w, tile, teleport).event = w.event
                   /\ MoveTo(w, tile, teleport).stranded = w.stranded
<1>0. w \in Walks
  BY DEF Waiting
<1>1. PICK m : m = IF teleport
                   THEN [[[w EXCEPT !.pos = tile, !.stepping = TRUE] EXCEPT !.event = "0"]
                            EXCEPT !.stranded = TRUE]
                   ELSE [w EXCEPT !.pos = tile, !.stepping = TRUE]
  OBVIOUS
<1>2. MoveTo(w, tile, teleport) = OnCreatureMove(m, other)
  BY <1>1 DEF MoveTo, StopEventWalk
<1>3. /\ m \in Walks /\ m.scheduled = w.scheduled /\ m.walkEvent = w.walkEvent
      /\ m.walkTask = w.walkTask /\ m.action = w.action /\ m.done = w.done
      /\ m.tasks = w.tasks
      /\ IF teleport THEN m.event = "0" /\ m.stranded
         ELSE m.event = w.event /\ m.stranded = w.stranded
  BY <1>0, <1>1 DEF Walks
<1>4. Waiting(m, asks)
  BY <1>3, WaitsAlike
<1>5. /\ Waiting(OnCreatureMove(m, other), asks)
      /\ OnCreatureMove(m, other).walkTask = m.walkTask
      /\ OnCreatureMove(m, other).event = m.event
      /\ OnCreatureMove(m, other).stranded = m.stranded
      /\ WalkAhead(m.tasks) => WalkAhead(OnCreatureMove(m, other).tasks)
  BY <1>4, CreatureMoved
<1> QED
  BY <1>2, <1>3, <1>5

\* Game::internalMoveCreature: the step may be blocked, or end elsewhere.
LEMMA MovedBy ==
    ASSUME NEW asks, NEW w, Waiting(w, asks), NEW d, NEW free
    PROVE  /\ Waiting(InternalMoveCreature(w, d, free), asks)
           /\ Stepped(w, InternalMoveCreature(w, d, free))
<1> DEFINE tile == w.pos + d
<1>1. CASE ~free \/ tile \notin Tiles \/ tile = other
  BY <1>1 DEF InternalMoveCreature, Stepped
<1>2. CASE ~(~free \/ tile \notin Tiles \/ tile = other)
  <2>1. PICK there : there = MoveTo(w, tile, FALSE)
    OBVIOUS
  <2>2. /\ Waiting(there, asks) /\ there.walkTask = w.walkTask
        /\ WalkAhead(w.tasks) => WalkAhead(there.tasks)
        /\ there.event = w.event
    BY <1>2, <2>1, MovedTo
  <2>3. Lift[tile] \in Tiles
    BY <1>2, WalkingAssumption
  <2>4. InternalMoveCreature(w, d, free)
          = IF Lift[tile] = tile THEN there ELSE MoveTo(there, Lift[tile], TRUE)
    BY <1>2, <2>1 DEF InternalMoveCreature
  <2>5. PICK up : up = MoveTo(there, Lift[tile], TRUE)
    OBVIOUS
  <2>6. /\ Waiting(up, asks) /\ up.walkTask = there.walkTask
        /\ WalkAhead(there.tasks) => WalkAhead(up.tasks)
        /\ up.event = "0" /\ up.stranded
    BY <2>2, <2>3, <2>5, MovedTo
  <2>7. Stepped(w, there) /\ Stepped(w, up)
    BY <2>2, <2>6 DEF Stepped
  <2> QED
    BY <2>2, <2>4, <2>5, <2>6, <2>7
<1> QED
  BY <1>1, <1>2

\* Player::onWalk: a step stops the action that waits.
LEMMA StepBegins ==
    ASSUME NEW asks, NEW w, Waiting(w, asks), w.list # <<>>
    PROVE  /\ Waiting(BeforeStep(w), asks) /\ SameWalk(w, BeforeStep(w))
           /\ BeforeStep(w).walkTask = w.walkTask
<1>1. PICK m : m = SetNextActionTask(w, NoRequest)
  OBVIOUS
<1>2. Waiting(m, asks) /\ SameWalk(w, m) /\ m.walkTask = w.walkTask /\ m.list = w.list
  BY <1>1, ActionSet DEF Asked
<1>3. PICK g : g = [m EXCEPT !.list = Tail(@), !.exhausted = TRUE]
  OBVIOUS
<1>4. m \in Walks /\ m.list # <<>>
  BY <1>2 DEF Waiting
<1>5. Tail(m.list) \in Seq(Directions)
  BY <1>4 DEF Walks
<1>6. /\ g \in Walks /\ g.scheduled = m.scheduled /\ g.walkEvent = m.walkEvent
      /\ g.walkTask = m.walkTask /\ g.action = m.action /\ g.done = m.done
      /\ g.event = m.event /\ g.tasks = m.tasks /\ g.stranded = m.stranded
  BY <1>3, <1>4, <1>5 DEF Walks
<1>7. Waiting(g, asks)
  BY <1>2, <1>6, WaitsAlike
<1>8. BeforeStep(w) = g
  BY <1>1, <1>3 DEF BeforeStep
<1> QED
  BY <1>2, <1>6, <1>7, <1>8 DEF SameWalk

\* Creature::onWalk, but for the event of the next step.
LEMMA WalkedNow ==
    ASSUME NEW asks, NEW w, Waiting(w, asks), NEW free
    PROVE  Waiting(WalkNow(w, free), asks) /\ Stepped(w, WalkNow(w, free))
<1>1. PICK gone : gone = IF w.stepping THEN w
                         ELSE IF w.list # <<>>
                         THEN InternalMoveCreature(BeforeStep(w), Head(w.list), free)
                         ELSE StopEventWalk(OnWalkComplete(w))
  OBVIOUS
<1>2. Waiting(gone, asks) /\ Stepped(w, gone)
  <2>1. CASE w.stepping
    BY <1>1, <2>1 DEF Stepped
  <2>2. CASE ~w.stepping /\ w.list # <<>>
    <3>1. PICK b : b = BeforeStep(w)
      OBVIOUS
    <3>2. Waiting(b, asks) /\ SameWalk(w, b) /\ b.walkTask = w.walkTask
      BY <2>2, <3>1, StepBegins
    <3>3. gone = InternalMoveCreature(b, Head(w.list), free)
      BY <1>1, <2>2, <3>1
    <3>4. Waiting(gone, asks) /\ Stepped(b, gone)
      BY <3>2, <3>3, MovedBy
    <3> QED
      BY <3>2, <3>4 DEF SameWalk, Stepped
  <2>3. CASE ~w.stepping /\ w.list = <<>>
    <3>1. PICK c : c = OnWalkComplete(w)
      OBVIOUS
    <3>2. Waiting(c, asks) /\ SameWalk(w, c) /\ c.walkTask = NoRequest
      BY <3>1, WalkCompleted
    <3>3. gone = [c EXCEPT !.event = "0"] /\ c \in Walks
      BY <1>1, <2>3, <3>1, <3>2 DEF StopEventWalk, Waiting
    <3>4. /\ gone \in Walks /\ gone.scheduled = c.scheduled /\ gone.walkEvent = c.walkEvent
          /\ gone.walkTask = c.walkTask /\ gone.action = c.action /\ gone.done = c.done
          /\ gone.event = "0" /\ gone.tasks = c.tasks
      BY <3>3 DEF Walks
    <3>5. Waiting(gone, asks)
      BY <3>2, <3>4, WaitsAlike
    <3> QED
      BY <3>2, <3>4, <3>5 DEF SameWalk, Stepped
  <2> QED
    BY <2>1, <2>2, <2>3
<1>3. CASE ~gone.cancel
  <2>1. WalkNow(w, free) = gone
    BY <1>1, <1>3 DEF WalkNow
  <2> QED
    BY <1>2, <2>1
<1>4. CASE gone.cancel
  <2>1. PICK m : m = SetNextWalkActionTask(gone, NoRequest)
    OBVIOUS
  <2>2. Waiting(m, asks) /\ SameWalk(gone, m) /\ m.walkTask = NoRequest
    BY <1>2, <2>1, WalkTaskSet DEF Asked
  <2>3. PICK g : g = [m EXCEPT !.list = <<>>, !.cancel = FALSE]
    OBVIOUS
  <2>4. m \in Walks
    BY <2>2 DEF Waiting
  <2> DEFINE none == <<>>
             no == FALSE
  <2>5. none \in Seq(Directions) /\ no \in BOOLEAN
    OBVIOUS
  <2>6. g = [m EXCEPT !.list = none, !.cancel = no]
    BY <2>3
  <2> HIDE DEF none, no
  <2>7. /\ g \in Walks /\ g.scheduled = m.scheduled /\ g.walkEvent = m.walkEvent
        /\ g.walkTask = m.walkTask /\ g.action = m.action /\ g.done = m.done
        /\ g.event = m.event /\ g.tasks = m.tasks /\ g.stranded = m.stranded
    BY <2>4, <2>5, <2>6 DEF Walks
  <2>8. Waiting(g, asks)
    BY <2>2, <2>7, WaitsAlike
  <2>9. WalkNow(w, free) = g
    BY <1>1, <1>4, <2>1, <2>3 DEF WalkNow
  <2>10. Stepped(w, g)
    BY <1>2, <2>2, <2>7 DEF SameWalk, Stepped
  <2> QED
    BY <2>8, <2>9, <2>10
<1> QED
  BY <1>3, <1>4

\* The event of the next step is pending: Creature::addEventWalk.
LEMMA WalkGoesOn ==
    ASSUME NEW asks, NEW w, Waiting(w, asks), w.event \in {"0", "pending"},
           NEW firstStep \in BOOLEAN, NEW free
    PROVE  Settles(AddEventWalk(w, firstStep, free), asks)
<1>1. PICK going : going = [w EXCEPT !.cancel = FALSE, !.stranded = FALSE]
  OBVIOUS
<1>2. /\ going \in Walks /\ going.scheduled = w.scheduled /\ going.walkEvent = w.walkEvent
      /\ going.walkTask = w.walkTask /\ going.action = w.action /\ going.done = w.done
      /\ going.event = w.event
  BY <1>1 DEF Walks, Waiting
<1>3. Waiting(going, asks)
  BY <1>2, WaitsAlike
<1>4. CASE w.event # "0"
  <2>1. AddEventWalk(w, firstStep, free) = going
    BY <1>1, <1>4 DEF AddEventWalk
  <2> QED
    BY <1>2, <1>3, <1>4, <2>1 DEF Settles
<1>5. CASE w.event = "0"
  <2>1. PICK gone : gone = IF firstStep /\ ~w.stepping THEN WalkNow(going, free) ELSE going
    OBVIOUS
  <2>2. Waiting(gone, asks)
    BY <1>3, <2>1, WalkedNow
  <2>3. PICK g : g = [gone EXCEPT !.event = "pending", !.stranded = FALSE]
    OBVIOUS
  <2>4. /\ g \in Walks /\ g.scheduled = gone.scheduled /\ g.walkEvent = gone.walkEvent
        /\ g.walkTask = gone.walkTask /\ g.action = gone.action /\ g.done = gone.done
        /\ g.event = "pending"
    BY <2>2, <2>3 DEF Walks, Waiting
  <2>5. Waiting(g, asks)
    BY <2>2, <2>4, WaitsAlike
  <2>6. AddEventWalk(w, firstStep, free) = g
    BY <1>1, <1>5, <2>1, <2>3 DEF AddEventWalk
  <2> QED
    BY <2>4, <2>5, <2>6 DEF Settles
<1> QED
  BY <1>4, <1>5

\* The event of a step comes: no other is pending, so none is forgotten.
LEMMA StepTaken ==
    ASSUME NEW asks, NEW w, Waiting(w, asks), w.event = "come", NEW free
    PROVE  Settles(OnWalk(w, free), asks)
<1>1. PICK gone : gone = WalkNow(w, free)
  OBVIOUS
<1>2. Waiting(gone, asks) /\ Stepped(w, gone)
  BY <1>1, WalkedNow
<1>3. CASE gone.event = "0"
  <2>1. OnWalk(w, free) = gone
    BY <1>1, <1>3 DEF OnWalk
  <2>2. gone.walkTask = NoRequest \/ gone.stranded
    BY <1>2, <1>3 DEF Stepped
  <2> QED
    BY <1>2, <1>3, <2>1, <2>2 DEF Settles
<1>4. CASE gone.event # "0"
  <2>1. gone.event = "come" /\ gone \in Walks
    BY <1>2, <1>4 DEF Stepped, Waiting
  <2>2. PICK m : m = [gone EXCEPT !.event = "0",
                        !.stray = @ + IF gone.event = "pending" THEN 1 ELSE 0]
    OBVIOUS
  <2>3. gone.stray = 0 /\ 0 + 0 = 0
    BY <2>1 DEF Walks
  <2>4. m = [gone EXCEPT !.event = "0", !.stray = 0]
    BY <2>1, <2>2, <2>3
  <2>5. /\ m \in Walks /\ m.scheduled = gone.scheduled /\ m.walkEvent = gone.walkEvent
        /\ m.walkTask = gone.walkTask /\ m.action = gone.action /\ m.done = gone.done
        /\ m.event = "0"
    BY <2>1, <2>4 DEF Walks
  <2>6. Waiting(m, asks)
    BY <1>2, <2>5, WaitsAlike
  <2>7. OnWalk(w, free) = AddEventWalk(m, FALSE, free)
    BY <1>1, <1>4, <2>2 DEF OnWalk
  <2> QED
    BY <2>5, <2>6, <2>7, WalkGoesOn
<1> QED
  BY <1>3, <1>4

\* Creature::startAutoWalk.
LEMMA WalkStarts ==
    ASSUME NEW asks, NEW w, Waiting(w, asks), w.event \in {"0", "pending"},
           NEW list \in Seq(Directions), NEW free
    PROVE  Settles(StartAutoWalk(w, list, free), asks)
<1>1. PICK m : m = [w EXCEPT !.list = list]
  OBVIOUS
<1>2. /\ m \in Walks /\ m.scheduled = w.scheduled /\ m.walkEvent = w.walkEvent
      /\ m.walkTask = w.walkTask /\ m.action = w.action /\ m.done = w.done
      /\ m.event = w.event
  BY <1>1 DEF Walks, Waiting
<1>3. Waiting(m, asks)
  BY <1>2, WaitsAlike
<1>4. PICK first \in BOOLEAN : first = (Len(list) = 1)
  OBVIOUS
<1>5. StartAutoWalk(w, list, free) = AddEventWalk(m, first, free)
  BY <1>1, <1>4 DEF StartAutoWalk
<1> QED
  BY <1>2, <1>3, <1>5, WalkGoesOn

-----------------------------------------------------------------------------
\* What waits settles if nothing of its walk is touched, or it waits no more.
LEMMA SettlesAlike ==
    ASSUME NEW asks, NEW w, Settles(w, asks), NEW g, Waiting(g, asks), SameWalk(w, g),
           g.walkTask \in {w.walkTask, NoRequest}
    PROVE  Settles(g, asks)
  BY DEF Settles, SameWalk

\* Player::stopWalk, and Player::setFollowCreature(nullptr).
LEMMA WalkStopped ==
    ASSUME NEW asks, NEW w, Settles(w, asks)
    PROVE  Settles(StopWalk(w), asks) /\ Settles(Unfollow(w), asks)
<1>0. w \in Walks /\ Waiting(w, asks)
  BY DEF Settles, Waiting
<1>1. ASSUME NEW g \in {StopWalk(w), Unfollow(w)} PROVE Settles(g, asks)
  <2>1. g = [w EXCEPT !.cancel = TRUE] \/ g = [[w EXCEPT !.following = FALSE] EXCEPT !.cancel = TRUE]
    BY <1>1 DEF StopWalk, Unfollow
  <2>2. /\ g \in Walks /\ g.scheduled = w.scheduled /\ g.walkEvent = w.walkEvent
        /\ g.walkTask = w.walkTask /\ g.action = w.action /\ g.done = w.done
        /\ g.event = w.event /\ g.tasks = w.tasks /\ g.stranded = w.stranded
    BY <1>0, <2>1 DEF Walks
  <2>3. Waiting(g, asks) /\ SameWalk(w, g)
    BY <1>0, <2>2, WaitsAlike DEF SameWalk
  <2> QED
    BY <2>2, <2>3, SettlesAlike
<1> QED
  BY <1>1

\* Creature::setFollowCreature: the task of a walk that is given up goes too.
LEMMA Followed ==
    ASSUME NEW asks, NEW w, Settles(w, asks)
    PROVE  Settles(SetFollowCreature(w), asks)
<1>1. CASE w.following
  BY <1>1 DEF SetFollowCreature
<1>2. CASE ~w.following
  <2>1. PICK m : m = IF w.list = <<>> THEN w ELSE SetNextWalkActionTask(w, NoRequest)
    OBVIOUS
  <2>2. Waiting(w, asks) /\ SameWalk(w, w)
    BY DEF Settles, SameWalk
  <2>3. Waiting(m, asks) /\ SameWalk(w, m) /\ m.walkTask \in {w.walkTask, NoRequest}
    BY <2>1, <2>2, WalkTaskSet DEF Asked
  <2> DEFINE none == <<>>
             no == FALSE
             yes == TRUE
  <2>4. none \in Seq(Directions) /\ no \in BOOLEAN /\ yes \in BOOLEAN
    OBVIOUS
  <2>5. SetFollowCreature(w) = [m EXCEPT !.list = none, !.hasPath = no, !.following = yes]
    BY <1>2, <2>1 DEF SetFollowCreature
  <2> HIDE DEF none, no, yes
  <2>6. PICK g : g = [m EXCEPT !.list = none, !.hasPath = no, !.following = yes]
    OBVIOUS
  <2>7. m \in Walks
    BY <2>3 DEF Waiting
  <2>8. /\ g \in Walks /\ g.scheduled = m.scheduled /\ g.walkEvent = m.walkEvent
        /\ g.walkTask = m.walkTask /\ g.action = m.action /\ g.done = m.done
        /\ g.event = m.event /\ g.tasks = m.tasks /\ g.stranded = m.stranded
    BY <2>4, <2>6, <2>7 DEF Walks
  <2>9. Waiting(g, asks) /\ SameWalk(w, g) /\ g.walkTask \in {w.walkTask, NoRequest}
    BY <2>3, <2>8, WaitsAlike DEF SameWalk
  <2> QED
    BY <2>5, <2>6, <2>9, SettlesAlike
<1> QED
  BY <1>1, <1>2

\* Player::goToFollowCreature, which begins no walk while one has a task.
LEMMA FollowGoesOn ==
    ASSUME NEW asks, NEW w, Settles(w, asks), other \in Int, NEW free
    PROVE  Settles(GoToFollowCreature(w, free), asks)
<1>0. w \in Walks /\ Waiting(w, asks) /\ w.event \in {"0", "pending"}
  BY DEF Settles, Waiting
<1>1. CASE w.walkTask # NoRequest \/ ~w.following
  BY <1>1 DEF GoToFollowCreature
<1>2. CASE ~(w.walkTask # NoRequest \/ ~w.following) /\ IsWay(w.pos, other)
  <2>1. PICK m : m = [w EXCEPT !.hasPath = TRUE]
    OBVIOUS
  <2>2. /\ m \in Walks /\ m.scheduled = w.scheduled /\ m.walkEvent = w.walkEvent
        /\ m.walkTask = w.walkTask /\ m.action = w.action /\ m.done = w.done
        /\ m.event = w.event
    BY <1>0, <2>1 DEF Walks
  <2>3. Waiting(m, asks)
    BY <1>0, <2>2, WaitsAlike
  <2>4. Straight(w.pos, other, 1) \in Seq(Directions)
    <3>1. w.pos \in Int /\ other \in Int /\ 1 \in Int
      BY <1>0, TilesAreInt DEF Walks
    <3> QED
      BY <3>1, StraightIs
  <2>5. GoToFollowCreature(w, free) = StartAutoWalk(m, Straight(w.pos, other, 1), free)
    BY <1>2, <2>1 DEF GoToFollowCreature
  <2> QED
    BY <1>0, <2>2, <2>3, <2>4, <2>5, WalkStarts
<1>3. CASE ~(w.walkTask # NoRequest \/ ~w.following) /\ ~IsWay(w.pos, other)
  <2> DEFINE none == <<>>
             no == FALSE
  <2>1. none \in Seq(Directions) /\ no \in BOOLEAN
    OBVIOUS
  <2>2. GoToFollowCreature(w, free) = [w EXCEPT !.list = none, !.hasPath = no]
    BY <1>3 DEF GoToFollowCreature
  <2> HIDE DEF none, no
  <2>3. PICK g : g = [w EXCEPT !.list = none, !.hasPath = no]
    OBVIOUS
  <2>4. /\ g \in Walks /\ g.scheduled = w.scheduled /\ g.walkEvent = w.walkEvent
        /\ g.walkTask = w.walkTask /\ g.action = w.action /\ g.done = w.done
        /\ g.event = w.event /\ g.tasks = w.tasks /\ g.stranded = w.stranded
    BY <1>0, <2>1, <2>3 DEF Walks
  <2>5. Waiting(g, asks) /\ SameWalk(w, g)
    BY <1>0, <2>4, WaitsAlike DEF SameWalk
  <2> QED
    BY <2>2, <2>3, <2>4, <2>5, SettlesAlike
<1> QED
  BY <1>1, <1>2, <1>3

-----------------------------------------------------------------------------
\* Requests.  One that is too far away waits for the walk that is now a task.
LEMMA WalkedThere ==
    ASSUME NEW asks, NEW w, NEW r, Ready(w, asks, r), NEW tile \in Int
    PROVE  Settles(WalkThere(w, r, tile), asks)
<1>0. w \in Walks /\ Waiting(w, asks) /\ Settles(w, asks)
  BY DEF Ready, Settles, Waiting
<1>1. CASE ~IsWay(w.pos, tile)
  BY <1>0, <1>1 DEF WalkThere
<1>2. CASE IsWay(w.pos, tile)
  <2>1. PICK t : t = <<"walk", Straight(w.pos, tile, 1)>>
    OBVIOUS
  <2>2. Straight(w.pos, tile, 1) \in Seq(Directions)
    <3>1. w.pos \in Int /\ tile \in Int /\ 1 \in Int
      BY <1>0, TilesAreInt DEF Walks
    <3> QED
      BY <3>1, StraightIs
  <2>3. t \in WalkTasks /\ t[1] = "walk"
    BY <2>1, <2>2 DEF WalkTasks
  <2>4. Append(w.tasks, t) \in Seq(WalkTasks) /\ WalkAhead(Append(w.tasks, t))
    BY <1>0, <2>3, TaskAppended DEF Walks
  <2>5. PICK m : m = [w EXCEPT !.tasks = Append(@, t)]
    OBVIOUS
  <2>6. /\ m \in Walks /\ m.scheduled = w.scheduled /\ m.walkEvent = w.walkEvent
        /\ m.walkTask = w.walkTask /\ m.action = w.action /\ m.done = w.done
        /\ m.event = w.event /\ m.tasks = Append(w.tasks, t)
    BY <1>0, <2>4, <2>5 DEF Walks
  <2>7. Waiting(m, asks)
    BY <1>0, <2>6, WaitsAlike
  <2>8. PICK g : g = SetNextWalkActionTask(m, r)
    OBVIOUS
  <2>9. Waiting(g, asks) /\ SameWalk(m, g)
    BY <2>6, <2>7, <2>8, WalkTaskSet DEF Ready, Asked
  <2>10. WalkThere(w, r, tile) = g
    BY <1>2, <2>1, <2>5, <2>8 DEF WalkThere
  <2>11. g.event \in {"0", "pending"} /\ WalkAhead(g.tasks)
    BY <1>0, <2>4, <2>6, <2>9 DEF SameWalk, Settles
  <2> QED
    BY <2>9, <2>10, <2>11 DEF Settles
<1> QED
  BY <1>1, <1>2

\* A request that is done waits nowhere.
LEMMA RequestDone ==
    ASSUME NEW asks, NEW w, NEW r, Ready(w, asks, r)
    PROVE  Settles(Done(w, r), asks)
<1>0. w \in Walks /\ Waiting(w, asks) /\ Settles(w, asks) /\ Named(w, asks)
  BY DEF Ready, Settles, Waiting
<1>1. PICK g : g = Done(w, r)
  OBVIOUS
<1>2. /\ g \in Walks /\ g.scheduled = w.scheduled /\ g.walkEvent = w.walkEvent
      /\ g.walkTask = w.walkTask /\ g.action = w.action /\ g.done = w.done \cup {r}
      /\ g.event = w.event /\ g.tasks = w.tasks /\ g.stranded = w.stranded
  BY <1>0, <1>1 DEF Walks, Done, Ready
<1>3. Named(g, asks)
  BY <1>0, <1>2 DEF Named, Ready
<1>4. Waiting(g, asks) /\ SameWalk(w, g)
  BY <1>2, <1>3 DEF Waiting, SameWalk
<1> QED
  BY <1>0, <1>1, <1>2, <1>4, SettlesAlike

\* The request waits until the player is rested, or the last one does no more.
LEMMA ActionWaits ==
    ASSUME NEW asks, NEW w, NEW r, Ready(w, asks, r)
    PROVE  /\ Settles(SetNextActionTask(w, r), asks)
           /\ Ready(SetNextActionTask(w, NoRequest), asks, r)
<1>0. Waiting(w, asks) /\ Settles(w, asks) /\ r \in Asked /\ NoRequest \in Asked
      /\ r \in Requests /\ NoRequest \notin Requests /\ r \in asks \ w.done
      /\ r \notin {w.walkTask, w.walkEvent}
  BY WalkingAssumption DEF Ready, Settles, Asked
<1>1. PICK g : g = SetNextActionTask(w, r)
  OBVIOUS
<1>2. Waiting(g, asks) /\ SameWalk(w, g) /\ g.walkTask = w.walkTask
  BY <1>0, <1>1, ActionSet
<1>3. Settles(g, asks)
  BY <1>0, <1>2, SettlesAlike
<1>4. PICK m : m = SetNextActionTask(w, NoRequest)
  OBVIOUS
<1>5. /\ Waiting(m, asks) /\ SameWalk(w, m) /\ m.walkTask = w.walkTask
      /\ m.walkEvent = w.walkEvent /\ m.action = NoRequest /\ m.done = w.done
  BY <1>0, <1>4, ActionSet
<1>6. Settles(m, asks)
  BY <1>0, <1>5, SettlesAlike
<1>7. Ready(m, asks, r)
  BY <1>0, <1>5, <1>6 DEF Ready
<1> QED
  BY <1>1, <1>3, <1>4, <1>7

\* Actions::useItem and useItemEx.
LEMMA UsedNow ==
    ASSUME NEW asks, NEW w, NEW r, Ready(w, asks, r)
    PROVE  Settles(UseNow(w, r), asks)
<1>1. CASE w.exhausted
  BY <1>1, ActionWaits DEF UseNow
<1>2. CASE ~w.exhausted
  <2>1. PICK m : m = SetNextActionTask(w, NoRequest)
    OBVIOUS
  <2>2. Ready(m, asks, r)
    BY <2>1, ActionWaits
  <2>3. PICK g : g = [m EXCEPT !.exhausted = TRUE]
    OBVIOUS
  <2>4. m \in Walks /\ Waiting(m, asks) /\ Settles(m, asks)
    BY <2>2 DEF Ready, Settles, Waiting
  <2>5. /\ g \in Walks /\ g.scheduled = m.scheduled /\ g.walkEvent = m.walkEvent
        /\ g.walkTask = m.walkTask /\ g.action = m.action /\ g.done = m.done
        /\ g.event = m.event /\ g.tasks = m.tasks /\ g.stranded = m.stranded
    BY <2>3, <2>4 DEF Walks
  <2>6. Waiting(g, asks) /\ SameWalk(m, g)
    BY <2>4, <2>5, WaitsAlike DEF SameWalk
  <2>7. Settles(g, asks)
    BY <2>4, <2>5, <2>6, SettlesAlike
  <2>8. Ready(g, asks, r)
    BY <2>2, <2>5, <2>7 DEF Ready
  <2>9. UseNow(w, r) = StopWalk(Done(g, r))
    BY <1>2, <2>1, <2>3 DEF UseNow
  <2>10. PICK d : d = Done(g, r)
    OBVIOUS
  <2>11. Settles(d, asks)
    BY <2>8, <2>10, RequestDone
  <2>12. Settles(StopWalk(d), asks)
    BY <2>11, WalkStopped
  <2> QED
    BY <2>9, <2>10, <2>12
<1> QED
  BY <1>1, <1>2

\* Game::playerUseItemEx: near to the thing, or with it in hand, near to the target.
LEMMA UsedWith ==
    ASSUME NEW asks, NEW w, NEW r, Ready(w, asks, r), NEW target \in Int
    PROVE  Settles(UseItemEx(w, r, target), asks)
<1>0. Place[r] \in Int
  BY TilesAreInt DEF Ready
<1>1. CASE r \notin w.taken /\ ~InReach(w, Place[r])
  BY <1>0, <1>1, WalkedThere DEF UseItemEx
<1>2. CASE ~(r \notin w.taken /\ ~InReach(w, Place[r])) /\ InReach(w, target)
  BY <1>2, UsedNow DEF UseItemEx
<1>3. CASE ~(r \notin w.taken /\ ~InReach(w, Place[r])) /\ ~InReach(w, target)
  <2>1. PICK m : m = [w EXCEPT !.taken = @ \cup {r}]
    OBVIOUS
  <2>2. w \in Walks /\ Waiting(w, asks) /\ Settles(w, asks) /\ r \in Requests
    BY DEF Ready, Settles, Waiting
  <2>3. /\ m \in Walks /\ m.scheduled = w.scheduled /\ m.walkEvent = w.walkEvent
        /\ m.walkTask = w.walkTask /\ m.action = w.action /\ m.done = w.done
        /\ m.event = w.event /\ m.tasks = w.tasks /\ m.stranded = w.stranded
    BY <2>1, <2>2 DEF Walks
  <2>4. Waiting(m, asks) /\ SameWalk(w, m)
    BY <2>2, <2>3, WaitsAlike DEF SameWalk
  <2>5. Settles(m, asks)
    BY <2>2, <2>3, <2>4, SettlesAlike
  <2>6. Ready(m, asks, r)
    BY <2>3, <2>5 DEF Ready
  <2>7. Settles(WalkThere(m, r, target), asks) /\ Settles(WalkThere(w, r, target), asks)
    BY <2>6, WalkedThere
  <2>8. UseItemEx(w, r, target) \in {WalkThere(m, r, target), WalkThere(w, r, target)}
    BY <1>3, <2>1 DEF UseItemEx
  <2> QED
    BY <2>7, <2>8
<1> QED
  BY <1>1, <1>2, <1>3

\* Whatever is asked for, its handler leaves it in one place or does it.
LEMMA Handled ==
    ASSUME NEW asks, NEW w, NEW r, Ready(w, asks, r), other \in Int
    PROVE  Settles(Handle(w, r), asks)
<1>0. /\ r \in Requests /\ Settles(w, asks) /\ Place[r] \in Int /\ Target[r] \in Int
      /\ Kind[r] \in {"use", "use with", "shoot", "move", "turn", "push"}
  BY TilesAreInt, WalkingAssumption DEF Ready
<1>1. CASE Kind[r] = "use"
  <2>1. Handle(w, r) = UseItem(w, r)
    BY <1>1 DEF Handle
  <2> QED
    BY <1>0, <2>1, UsedNow, WalkedThere DEF UseItem
<1>2. CASE Kind[r] = "use with"
  <2>1. Handle(w, r) = UseItemEx(w, r, Target[r])
    BY <1>2 DEF Handle
  <2> QED
    BY <1>0, <2>1, UsedWith
<1>3. CASE Kind[r] = "shoot"
  <2>1. Handle(w, r) = UseWithCreature(w, r)
    BY <1>3 DEF Handle
  <2> QED
    BY <1>0, <2>1, UsedWith DEF UseWithCreature
<1>4. CASE Kind[r] = "turn"
  <2>1. Handle(w, r) = Turn(w, r)
    BY <1>4 DEF Handle
  <2> QED
    BY <1>0, <2>1, RequestDone, WalkedThere DEF Turn
<1>5. CASE Kind[r] \in {"move", "push"}
  <2>1. Handle(w, r) = Move(w, r)
    BY <1>5 DEF Handle
  <2>2. CASE w.exhausted
    BY <2>1, <2>2, ActionWaits DEF Move
  <2>3. CASE ~w.exhausted
    <3>1. PICK next : next = SetNextActionTask(w, NoRequest)
      OBVIOUS
    <3>2. Ready(next, asks, r)
      BY <3>1, ActionWaits
    <3>3. Settles(Done(next, r), asks) /\ Settles(WalkThere(next, r, Place[r]), asks)
      BY <1>0, <3>2, RequestDone, WalkedThere
    <3>4. Move(w, r) \in {Done(next, r), WalkThere(next, r, Place[r])}
      BY <2>3, <3>1 DEF Move
    <3> QED
      BY <2>1, <3>3, <3>4
  <2> QED
    BY <2>2, <2>3
<1> QED
  BY <1>0, <1>1, <1>2, <1>3, <1>4, <1>5

-----------------------------------------------------------------------------
\* Between two handlers, and for who has asked.
WalkInv == Settles(Walker, asked) /\ asked \subseteq Requests /\ other \in Int

\* A handler has its record written back.
LEMMA WrittenBack ==
    ASSUME NEW asks, NEW g, Settles(g, asks), Becomes(g)
    PROVE  Settles(Walker', asks)
<1>1. /\ Walker'.pos = g.pos /\ Walker'.list = g.list /\ Walker'.event = g.event
      /\ Walker'.stray = g.stray /\ Walker'.cancel = g.cancel
      /\ Walker'.stepping = g.stepping /\ Walker'.exhausted = g.exhausted
      /\ Walker'.walkTask = g.walkTask /\ Walker'.walkEvent = g.walkEvent
      /\ Walker'.action = g.action /\ Walker'.scheduled = g.scheduled
      /\ Walker'.tasks = g.tasks /\ Walker'.taken = g.taken
      /\ Walker'.following = g.following /\ Walker'.hasPath = g.hasPath
      /\ Walker'.done = g.done /\ Walker'.stranded = g.stranded
  BY DEF Becomes, Walker
<1>2. g \in Walks /\ Waiting(g, asks)
  BY DEF Settles, Waiting
<1>3. Walker' \in Walks
  BY <1>1, <1>2 DEF Walks, Walker
<1>4. Waiting(Walker', asks)
  BY <1>1, <1>2, <1>3, WaitsAlike
<1>5. SameWalk(g, Walker')
  BY <1>1 DEF SameWalk
<1> QED
  BY <1>1, <1>4, <1>5, SettlesAlike

\* Nothing waits at first.
LEMMA WalkInvInit == WalkInit => WalkInv
<1> SUFFICES ASSUME WalkInit PROVE WalkInv
  OBVIOUS
<1>1. /\ Walker.pos = 1 /\ Walker.list = <<>> /\ Walker.event = "0" /\ Walker.stray = 0
      /\ Walker.cancel = FALSE /\ Walker.stepping = FALSE /\ Walker.exhausted = FALSE
      /\ Walker.walkTask = NoRequest /\ Walker.walkEvent = NoRequest
      /\ Walker.action = NoRequest /\ Walker.scheduled = {} /\ Walker.tasks = <<>>
      /\ Walker.taken = {} /\ Walker.following = FALSE /\ Walker.hasPath = FALSE
      /\ Walker.done = {} /\ Walker.stranded = FALSE
      /\ asked = {} /\ other \in {0, Length - 1}
  BY DEF WalkInit, Walker
<1>2. Length \in Nat \ {0}
  BY WalkingAssumption
<1>3. 1 \in Tiles /\ Length - 1 \in Int
  BY <1>2 DEF Tiles
<1>4. <<>> \in Seq(Directions) /\ <<>> \in Seq(WalkTasks)
  OBVIOUS
<1>5. Walker \in Walks
  BY <1>1, <1>3, <1>4 DEF Walks, Walker, Asked
<1>6. Named(Walker, asked)
  BY <1>1 DEF Named
<1>7. Settles(Walker, asked)
  BY <1>1, <1>5, <1>6 DEF Settles, Waiting
<1> QED
  BY <1>1, <1>3, <1>7 DEF WalkInv

\* A request that has not been made before waits nowhere.
LEMMA AskKeeps ==
    ASSUME WalkInv, NEW r \in Requests, Ask(r)
    PROVE  WalkInv'
<1>1. PICK w : w = Walker
  OBVIOUS
<1>2. PICK asks : asks = asked \cup {r}
  OBVIOUS
<1>3. /\ Settles(w, asked) /\ Named(w, asked) /\ r \notin asked /\ asked' = asks
      /\ asked \subseteq Requests /\ other \in Int /\ other' = other
      /\ NoRequest \notin Requests
  BY <1>1, <1>2, WalkingAssumption DEF WalkInv, Settles, Waiting, Ask
<1>4. Named(w, asks)
  BY <1>2, <1>3 DEF Named
<1>5. Settles(w, asks)
  BY <1>3, <1>4 DEF Settles, Waiting
<1>6. Ready(w, asks, r)
  BY <1>2, <1>3, <1>5 DEF Ready, Named
<1>7. Settles(SetNextActionTask(w, r), asks) /\ Settles(Handle(w, r), asks)
  BY <1>3, <1>6, ActionWaits, Handled
<1>8. Becomes(SetNextActionTask(w, r)) \/ Becomes(Handle(w, r))
  BY <1>1 DEF Ask
<1>9. Settles(Walker', asks)
  BY <1>7, <1>8, WrittenBack
<1> QED
  BY <1>2, <1>3, <1>9 DEF WalkInv

\* The event of a request names it no more.
LEMMA RequestComesKeeps ==
    ASSUME WalkInv, NEW r \in Requests, RequestComes(r)
    PROVE  WalkInv'
<1>1. PICK w : w = Walker
  OBVIOUS
<1>2. /\ Settles(w, asked) /\ Named(w, asked) /\ w \in Walks /\ r \in w.scheduled
      /\ asked' = asked /\ asked \subseteq Requests /\ other \in Int /\ other' = other
      /\ NoRequest \notin Requests
  BY <1>1, WalkingAssumption DEF WalkInv, Settles, Waiting, RequestComes, Walker
<1>3. PICK m : m = [w EXCEPT !.scheduled = @ \ {r},
                      !.walkEvent = IF @ = r THEN NoRequest ELSE @,
                      !.action = IF @ = r THEN NoRequest ELSE @]
  OBVIOUS
<1>4. /\ m \in Walks /\ m.scheduled = w.scheduled \ {r}
      /\ m.walkEvent = (IF w.walkEvent = r THEN NoRequest ELSE w.walkEvent)
      /\ m.action = (IF w.action = r THEN NoRequest ELSE w.action)
      /\ m.walkTask = w.walkTask /\ m.done = w.done
      /\ m.event = w.event /\ m.tasks = w.tasks /\ m.stranded = w.stranded
  BY <1>2, <1>3 DEF Walks, Asked
<1>5. Named(m, asked) /\ r \notin {m.walkTask, m.walkEvent, m.action} /\ r \in asked \ m.done
  BY <1>2, <1>4 DEF Named
<1>6. Waiting(m, asked) /\ SameWalk(w, m)
  BY <1>4, <1>5 DEF Waiting, SameWalk
<1>7. Settles(m, asked)
  BY <1>2, <1>4, <1>6, SettlesAlike
<1>8. Ready(m, asked, r)
  BY <1>5, <1>7 DEF Ready
<1>9. Settles(Handle(m, r), asked)
  BY <1>2, <1>8, Handled
<1>10. Becomes(Handle(m, r))
  BY <1>1, <1>3 DEF RequestComes
<1>11. Settles(Walker', asked)
  BY <1>9, <1>10, WrittenBack
<1> QED
  BY <1>2, <1>11 DEF WalkInv

\* What the player, or somebody else, does to a walk.
LEMMA DisturbsKeeps ==
    ASSUME WalkInv, Disturbs
    PROVE  WalkInv'
<1>1. PICK w : w = Walker
  OBVIOUS
<1>2. /\ Settles(w, asked) /\ Waiting(w, asked) /\ w \in Walks /\ w.event \in {"0", "pending"}
      /\ w.pos = position /\ asked \subseteq Requests /\ other \in Int
  BY <1>1 DEF WalkInv, Settles, Waiting, Walker
<1> DEFINE Kept == asked' = asked /\ other' \in Int
<1>3. ASSUME Kept, NEW g, Settles(g, asked), Becomes(g) PROVE WalkInv'
  BY <1>2, <1>3, WrittenBack DEF WalkInv
<1>4. ASSUME NEW d \in Directions, NEW free \in BOOLEAN, PlayerMove(d, free) PROVE WalkInv'
  <2>1. PICK m : m = SetNextWalkActionTask(w, NoRequest)
    OBVIOUS
  <2>2. Waiting(m, asked) /\ m.event \in {"0", "pending"}
    BY <1>2, <2>1, WalkTaskSet DEF Asked, SameWalk
  <2>3. <<d>> \in Seq(Directions)
    OBVIOUS
  <2>4. Settles(StartAutoWalk(m, <<d>>, free), asked)
    BY <2>2, <2>3, WalkStarts
  <2>5. Becomes(StartAutoWalk(m, <<d>>, free)) /\ Kept
    BY <1>1, <1>2, <1>4, <2>1 DEF PlayerMove
  <2> QED
    BY <1>3, <2>4, <2>5
<1>5. ASSUME NEW tile \in Tiles, NEW free \in BOOLEAN, PlayerAutoWalk(tile, free) PROVE WalkInv'
  <2>1. position \in Int /\ tile \in Int /\ 0 \in Int
    BY <1>2, TilesAreInt DEF Walks
  <2>2. Straight(position, tile, 0) \in Seq(Directions)
    BY <2>1, StraightIs
  <2>3. Settles(StartAutoWalk(w, Straight(position, tile, 0), free), asked)
    BY <1>2, <2>2, WalkStarts
  <2>4. Becomes(StartAutoWalk(w, Straight(position, tile, 0), free)) /\ Kept
    BY <1>1, <1>2, <1>5 DEF PlayerAutoWalk
  <2> QED
    BY <1>3, <2>3, <2>4
<1>6. CASE PlayerStopAutoWalk
  <2>1. Becomes(StopWalk(w)) /\ Kept /\ Settles(StopWalk(w), asked)
    BY <1>1, <1>2, <1>6, WalkStopped DEF PlayerStopAutoWalk
  <2> QED
    BY <1>3, <2>1
<1>7. CASE PlayerFollowCreature \/ PlayerCancelAttackAndFollow
  <2>1. PICK freed : \/ /\ PlayerFollowCreature
                        /\ freed = (IF following THEN Unfollow(w) ELSE w)
                     \/ PlayerCancelAttackAndFollow /\ freed = w
    BY <1>7
  <2>2. Settles(freed, asked)
    BY <1>2, <2>1, WalkStopped
  <2>3. freed \in Walks /\ Waiting(freed, asked)
    BY <2>2 DEF Settles, Waiting
  <2>4. PICK told : told = [freed EXCEPT !.tasks = Append(@, <<"follow">>)]
    OBVIOUS
  <2>5. Append(freed.tasks, <<"follow">>) \in Seq(WalkTasks)
        /\ (WalkAhead(freed.tasks) => WalkAhead(Append(freed.tasks, <<"follow">>)))
    BY <2>3, TaskAppended DEF Walks, WalkTasks
  <2>6. /\ told \in Walks /\ told.scheduled = freed.scheduled /\ told.walkEvent = freed.walkEvent
        /\ told.walkTask = freed.walkTask /\ told.action = freed.action /\ told.done = freed.done
        /\ told.event = freed.event /\ told.stranded = freed.stranded
        /\ told.tasks = Append(freed.tasks, <<"follow">>)
    BY <2>3, <2>4, <2>5 DEF Walks
  <2>7. Waiting(told, asked)
    BY <2>3, <2>6, WaitsAlike
  <2>8. Settles(told, asked)
    BY <2>2, <2>5, <2>6, <2>7 DEF Settles
  <2>9. Settles(SetFollowCreature(told), asked) /\ Settles(Unfollow(told), asked)
    BY <2>8, Followed, WalkStopped
  <2>10. (Becomes(SetFollowCreature(told)) \/ Becomes(Unfollow(told))) /\ Kept
    BY <1>1, <1>2, <2>1, <2>4 DEF PlayerFollowCreature, PlayerCancelAttackAndFollow
  <2> QED
    BY <1>3, <2>9, <2>10
<1>8. ASSUME NEW d \in Directions, OtherMoves(d) PROVE WalkInv'
  <2>1. PICK g : g = OnCreatureMove(w, other')
    OBVIOUS
  <2>2. /\ Waiting(g, asked) /\ g.walkTask = w.walkTask /\ g.event = w.event
        /\ g.stranded = w.stranded /\ (WalkAhead(w.tasks) => WalkAhead(g.tasks))
    BY <1>2, <2>1, CreatureMoved
  <2>3. Settles(g, asked)
    BY <1>2, <2>2 DEF Settles
  <2>4. Becomes(g) /\ Kept
    BY <1>1, <1>2, <1>8, <2>1, TilesAreInt DEF OtherMoves
  <2> QED
    BY <1>3, <2>3, <2>4
<1>9. ASSUME NEW tile \in Tiles, Teleported(tile) PROVE WalkInv'
  <2>1. PICK yes \in BOOLEAN : yes
    OBVIOUS
  <2>2. PICK g : g = MoveTo(w, tile, yes)
    OBVIOUS
  <2>3. /\ Waiting(MoveTo(w, tile, yes), asked)
        /\ IF yes THEN MoveTo(w, tile, yes).event = "0" /\ MoveTo(w, tile, yes).stranded
           ELSE TRUE
    BY <1>2, MovedTo
  <2>4. Waiting(g, asked) /\ g.event = "0" /\ g.stranded
    BY <2>2, <2>1, <2>3
  <2>5. Settles(g, asked)
    BY <2>4 DEF Settles
  <2>6. Becomes(g) /\ Kept
    BY <1>1, <1>2, <1>9, <2>2, <2>1 DEF Teleported, MoveTo
  <2> QED
    BY <1>3, <2>5, <2>6
<1> QED
  BY <1>4, <1>5, <1>6, <1>7, <1>8, <1>9 DEF Disturbs

\* Tasks and events, and the steps they make.
LEMMA ComesKeeps ==
    ASSUME WalkInv, NEW free \in BOOLEAN, Comes(free)
    PROVE  WalkInv'
<1>1. PICK w : w = Walker
  OBVIOUS
<1>2. /\ Settles(w, asked) /\ Waiting(w, asked) /\ w \in Walks /\ w.event \in {"0", "pending"}
      /\ w.tasks = tasks /\ w.event = eventWalk /\ w.stray = strayWalks
      /\ asked \subseteq Requests /\ other \in Int
  BY <1>1 DEF WalkInv, Settles, Waiting, Walker
<1> DEFINE Kept == asked' = asked /\ other' = other
<1>3. ASSUME Kept, NEW g, Settles(g, asked), Becomes(g) PROVE WalkInv'
  BY <1>2, <1>3, WrittenBack DEF WalkInv
<1>4. CASE RunTask(free)
  <2>1. PICK rest : rest = [w EXCEPT !.tasks = Tail(@)]
    OBVIOUS
  <2>2. /\ w.tasks # <<>> /\ w.tasks \in Seq(WalkTasks) /\ Kept
    BY <1>2, <1>4 DEF RunTask, Walks
  <2>3. PICK head \in WalkTasks : head = Head(w.tasks)
    BY <2>2, TaskLeaves
  <2>4. /\ Tail(w.tasks) \in Seq(WalkTasks)
        /\ head[1] # "walk" /\ WalkAhead(w.tasks) => WalkAhead(Tail(w.tasks))
    BY <2>2, <2>3, TaskLeaves
  <2>5. /\ rest \in Walks /\ rest.scheduled = w.scheduled /\ rest.walkEvent = w.walkEvent
        /\ rest.walkTask = w.walkTask /\ rest.action = w.action /\ rest.done = w.done
        /\ rest.event = w.event /\ rest.stranded = w.stranded
        /\ rest.tasks = Tail(w.tasks)
    BY <1>2, <2>1, <2>4 DEF Walks
  <2>6. Waiting(rest, asked)
    BY <1>2, <2>5, WaitsAlike
  <2>7. CASE head[1] = "walk"
    <3>1. PICK path \in Seq(Directions) : head = <<"walk", path>>
      BY <2>7 DEF WalkTasks
    <3>2. Settles(StartAutoWalk(rest, path, free), asked)
      BY <1>2, <2>5, <2>6, WalkStarts
    <3>3. Head(tasks)[1] = "walk" /\ Head(tasks)[2] = path
      BY <1>2, <2>3, <3>1
    <3>4. Becomes(StartAutoWalk(rest, path, free))
      BY <1>1, <1>4, <2>1, <3>3 DEF RunTask
    <3> QED
      BY <1>3, <2>2, <3>2, <3>4
  <2>8. CASE head[1] # "walk"
    <3>1. Settles(rest, asked)
      BY <1>2, <2>4, <2>5, <2>6, <2>8 DEF Settles
    <3>2. Settles(GoToFollowCreature(rest, free), asked)
      BY <1>2, <3>1, FollowGoesOn
    <3>3. Head(tasks)[1] # "walk"
      BY <1>2, <2>3, <2>8
    <3>4. Becomes(GoToFollowCreature(rest, free)) \/ Becomes(rest)
      BY <1>1, <1>4, <2>1, <3>3 DEF RunTask
    <3> QED
      BY <1>3, <2>2, <3>1, <3>2, <3>4
  <2> QED
    BY <2>7, <2>8
<1>5. CASE OnThink(free)
  <2>1. Becomes(GoToFollowCreature(w, free)) /\ Kept
    BY <1>1, <1>5 DEF OnThink
  <2>2. Settles(GoToFollowCreature(w, free), asked)
    BY <1>2, FollowGoesOn
  <2> QED
    BY <1>3, <2>1, <2>2
<1>6. CASE CheckCreatureWalk(free)
  <2>1. PICK m : m = [w EXCEPT !.event = "come"]
    OBVIOUS
  <2>2. strayWalks = 0 /\ Kept
    BY <1>2, <1>6 DEF CheckCreatureWalk, Walks
  <2>3. Becomes(OnWalk(m, free))
    BY <1>1, <1>6, <2>1, <2>2 DEF CheckCreatureWalk
  <2>4. /\ m \in Walks /\ m.scheduled = w.scheduled /\ m.walkEvent = w.walkEvent
        /\ m.walkTask = w.walkTask /\ m.action = w.action /\ m.done = w.done
        /\ m.event = "come"
    BY <1>2, <2>1 DEF Walks
  <2>5. Waiting(m, asked)
    BY <1>2, <2>4, WaitsAlike
  <2>6. Settles(OnWalk(m, free), asked)
    BY <2>4, <2>5, StepTaken
  <2> QED
    BY <1>3, <2>2, <2>3, <2>6
<1> QED
  BY <1>4, <1>5, <1>6 DEF Comes

\* A step ends, or the player is rested.
LEMMA TimesPassKeeps ==
    ASSUME WalkInv, StepEnds \/ Rests
    PROVE  WalkInv'
<1>1. PICK w : w = Walker
  OBVIOUS
<1>2. /\ Settles(w, asked) /\ Waiting(w, asked) /\ w \in Walks
      /\ asked \subseteq Requests /\ other \in Int /\ asked' = asked /\ other' = other
  BY <1>1 DEF WalkInv, Settles, Waiting, StepEnds, Rests
<1>3. PICK g : /\ g \in {[w EXCEPT !.stepping = FALSE], [w EXCEPT !.exhausted = FALSE]}
               /\ Becomes(g)
  BY <1>1 DEF StepEnds, Rests
<1>4. /\ g \in Walks /\ g.scheduled = w.scheduled /\ g.walkEvent = w.walkEvent
      /\ g.walkTask = w.walkTask /\ g.action = w.action /\ g.done = w.done
      /\ g.event = w.event /\ g.tasks = w.tasks /\ g.stranded = w.stranded
  BY <1>2, <1>3 DEF Walks
<1>5. Waiting(g, asked) /\ SameWalk(w, g)
  BY <1>2, <1>4, WaitsAlike DEF SameWalk
<1>6. Settles(g, asked)
  BY <1>2, <1>4, <1>5, SettlesAlike
<1>7. Settles(Walker', asked)
  BY <1>3, <1>6, WrittenBack
<1> QED
  BY <1>2, <1>7 DEF WalkInv

\* The invariant says more than the property.
LEMMA WalkInvImplies == WalkInv => WalksAgree
<1> SUFFICES ASSUME WalkInv PROVE WalksAgree
  OBVIOUS
<1>1. PICK w : w = Walker
  OBVIOUS
<1>2. /\ w \in Walks /\ Named(w, asked) /\ w.event \in {"0", "pending"}
      /\ (w.walkTask # NoRequest => w.event = "pending" \/ WalkAhead(w.tasks) \/ w.stranded)
      /\ NoRequest \notin Requests
  BY <1>1, WalkingAssumption DEF WalkInv, Settles, Waiting
<1>3. /\ w.event = eventWalk /\ w.stray = strayWalks /\ w.walkTask = walkTask
      /\ w.walkEvent = walkTaskEvent /\ w.action = actionTaskEvent /\ w.done = done
      /\ w.scheduled = scheduled /\ w.tasks = tasks /\ w.stranded = stranded
  BY <1>1 DEF Walker
<1>4. OneStepEvent
  BY <1>2, <1>3 DEF OneStepEvent, Walks
<1>5. WalkTaskHasWalk
  BY <1>2, <1>3 DEF WalkTaskHasWalk, WalkAhead
<1>6. ASSUME NEW r \in Requests
      PROVE  (IF walkTask = r THEN 1 ELSE 0) + (IF walkTaskEvent = r THEN 1 ELSE 0)
               + (IF actionTaskEvent = r THEN 1 ELSE 0) <= (IF r \in asked \ done THEN 1 ELSE 0)
  <2>1. ~(walkTask = r /\ walkTaskEvent = r) /\ ~(walkTask = r /\ actionTaskEvent = r)
        /\ ~(walkTaskEvent = r /\ actionTaskEvent = r)
    BY <1>2, <1>3 DEF Named
  <2>2. walkTask = r \/ walkTaskEvent = r \/ actionTaskEvent = r => r \in asked \ done
    BY <1>2, <1>3 DEF Named
  <2> QED
    BY <2>1, <2>2
<1>7. RequestsAreNamed
  BY <1>2, <1>3, <1>6 DEF RequestsAreNamed, Named
<1> QED
  BY <1>4, <1>5, <1>7 DEF WalksAgree

\* Every request of a player waits in one place, where the next one and the
\* end of a walk look for it, there is one event of a step, and a walk goes on
\* to whatever waits for it: for any map, any requests and any number of tasks.
THEOREM WalksStayAgreed == WalkSpec => []WalksAgree
<1>1. WalkInv /\ [WalkNext]_walkVars => WalkInv'
  <2> SUFFICES ASSUME WalkInv, [WalkNext]_walkVars PROVE WalkInv'
    OBVIOUS
  <2>1. CASE Disturbs
    BY <2>1, DisturbsKeeps
  <2>2. ASSUME NEW free \in BOOLEAN, Comes(free) PROVE WalkInv'
    BY <2>2, ComesKeeps
  <2>3. ASSUME NEW r \in Requests, Ask(r) PROVE WalkInv'
    BY <2>3, AskKeeps
  <2>4. ASSUME NEW r \in Requests, RequestComes(r) PROVE WalkInv'
    BY <2>4, RequestComesKeeps
  <2>5. CASE StepEnds \/ Rests
    BY <2>5, TimesPassKeeps
  <2>6. CASE UNCHANGED walkState
    BY <2>6 DEF WalkInv, walkState, Walker
  <2> QED
    BY <2>1, <2>2, <2>3, <2>4, <2>5, <2>6
       DEF WalkNext, Proceeds, AtRest, CalmsDown, walkVars
<1> QED
  BY <1>1, WalkInvInit, WalkInvImplies, PTL DEF WalkSpec

=============================================================================
