---------------------------- MODULE ServerProofs ----------------------------
(***************************************************************************)
(* The exit of the server, for any tasks, events and queries: a part of    *)
(* the invariant for the list of each thread, and the order in which the   *)
(* shutdown goes from one to the next.  Then what the game's own timer     *)
(* goes through, the lists of the items that decay, for any items.         *)
(***************************************************************************)
EXTENDS ServerThreads, Decay, Facts

AllTasks == Dispatching!Tasks \cup {Terminate}

\* Nothing is behind Terminate in the list of tasks, and only a closed list
\* has it.  The game is shut down in a closed list.
TasksServed ==
    /\ taskList \in Seq(AllTasks) /\ DOMAIN dFate = AllTasks
    /\ \A t \in AllTasks : dFate[t] = "queued" => In(t, taskList)
    /\ \A i \in 1..Len(taskList) :
         taskList[i] = Terminate =>
             i = Len(taskList) /\ taskState # "running" /\ dFate[Terminate] # "new"
    /\ dFate[Terminate] # "new" => taskState # "running"
    /\ dFate[Terminate] = "run" => taskList = <<>>
    /\ running = Terminate => dFate[Terminate] = "run"
    /\ taskState = "terminated" \/ dispatcher = "ended" => dFate[Terminate] = "run"
    /\ In(GameShutdown, taskList) /\ taskState = "running"
         => dispatcher = "run" /\ running = SigTerm
    /\ running = GameShutdown => taskState # "running"

\* The ids are those of the pending events, and none is left in a cleared list.
EventsServed ==
    /\ DOMAIN sFate = Events
    /\ eventIds \subseteq Events
    /\ \A e \in Events : sFate[e] = "pending" => e \in eventIds
    /\ sClosed # "no" => eventState = "terminated"
    /\ sClosed = "done" => eventIds = {}
    /\ scheduler = "hand" => event \in Events

\* An accepted query is in the list or in the worker's hand.
QueriesServed ==
    /\ queries \in Seq(Queries) /\ DOMAIN qFate = Queries
    /\ \A q \in Queries : qFate[q] = "accepted" =>
         In(q, queries) \/ (worker = "query" /\ query = q)
    /\ qClosed # "no" => queryState = "terminated"
    /\ qClosed = "answering" =>
         queries # <<>> /\ qFate[Head(queries)] # "accepted"
    /\ qClosed = "done" => queries = <<>>

\* Game::shutdown goes from one to the next; the main thread joins behind it.
InOneOrder ==
    /\ qClosed # "no" => sClosed = "done"
    /\ dFate[Terminate] # "new" => qClosed = "done"
    /\ ~serving => dFate[Terminate] # "new"
    /\ main # "serving" => ~serving
    /\ main \in {"join dispatcher", "exit"} => worker = "ended"
    /\ main = "exit" => dispatcher = "ended"

ServerInv == TasksServed /\ EventsServed /\ QueriesServed /\ InOneOrder

-----------------------------------------------------------------------------
\* Names of tasks that differ.
LEMMA TaskNames ==
    /\ Terminate \in AllTasks /\ Terminate \notin Dispatching!Tasks
    /\ GameShutdown \in Dispatching!Tasks /\ SigTerm \in Dispatching!Tasks
    /\ Events \cup Messages \cup Answered \subseteq Dispatching!Tasks
    /\ Dispatching!Tasks \subseteq AllTasks /\ None \notin AllTasks
    /\ SigTerm # GameShutdown /\ Answered \subseteq Queries /\ GameShutdown \notin Queries
  BY ServerThreadsAssumption DEF AllTasks, Dispatching!Tasks

-----------------------------------------------------------------------------
\* A task is added, to an open list or to none.
LEMMA TaskAdded ==
    ASSUME TasksServed, NEW th, NEW t \in Dispatching!Tasks,
           Dispatching!AddTask(th, t), t = GameShutdown => running = SigTerm
    PROVE  TasksServed' /\ dFate'[Terminate] = dFate[Terminate]
           /\ UNCHANGED <<taskState, dispatcher, running, online>>
<1>1. /\ t = GameShutdown => dispatcher = "run"
      /\ UNCHANGED <<taskState, dispatcher, running, online>> /\ dFate[t] = "new"
  BY DEF Dispatching!AddTask, Dispatching!MayAdd
<1>2. t \in AllTasks /\ t # Terminate /\ Terminate \in AllTasks
  BY TaskNames
<1>3. CASE taskState = "running"
  <2>1. taskList' = Dispatching!Pushed(t) /\ dFate' = [dFate EXCEPT ![t] = "queued"]
    BY <1>3 DEF Dispatching!AddTask
  <2>2. /\ taskList' \in Seq(AllTasks)
        /\ \A u : In(u, taskList') <=> u = t \/ In(u, taskList)
    BY <1>2, <2>1, Prepended, Appended DEF Dispatching!Pushed, TasksServed
  <2>3. dFate'[Terminate] = dFate[Terminate] /\ DOMAIN dFate' = AllTasks
        /\ \A u \in AllTasks : dFate'[u] = "queued" => u = t \/ dFate[u] = "queued"
    BY <1>2, <2>1 DEF TasksServed
  <2>4. ~In(Terminate, taskList)
    BY <1>3 DEF In, TasksServed
  <2>5. ~In(Terminate, taskList')
    BY <1>2, <2>2, <2>4
  <2>6. \A i \in 1..Len(taskList') : taskList'[i] # Terminate
    BY <2>2, <2>5 DEF In
  <2>7. dFate[Terminate] # "run"
    BY <1>3 DEF TasksServed
  <2> QED
    BY <1>1, <1>2, <1>3, <2>2, <2>3, <2>6, <2>7 DEF TasksServed
<1>4. CASE taskState # "running"
  <2>1. taskList' = taskList /\ dFate' = [dFate EXCEPT ![t] = "deleted"]
    BY <1>4 DEF Dispatching!AddTask
  <2>2. dFate'[Terminate] = dFate[Terminate] /\ DOMAIN dFate' = AllTasks
        /\ \A u \in AllTasks : dFate'[u] = "queued" => dFate[u] = "queued"
    BY <1>2, <2>1 DEF TasksServed
  <2> QED
    BY <1>1, <2>1, <2>2 DEF TasksServed
<1> QED
  BY <1>3, <1>4

\* The first task of the list is taken.
LEMMA TaskTaken ==
    ASSUME TasksServed, Dispatching!TakeTask
    PROVE  /\ TasksServed'
           /\ dFate'[Terminate] # "new" => dFate[Terminate] # "new"
           /\ dFate[Terminate] # "new" => dFate'[Terminate] # "new"
           /\ dispatcher # "ended"
<1> DEFINE h == Head(taskList)
<1>1. /\ dispatcher \in {"lock", "woken"} /\ taskList # <<>> /\ taskList' = Tail(taskList)
      /\ dispatcher' = "run" /\ running' = h /\ dFate' = [dFate EXCEPT ![h] = "run"]
      /\ UNCHANGED <<taskState, online>>
  BY DEF Dispatching!TakeTask, Dispatching!WithoutFront
<1>2. /\ Tail(taskList) \in Seq(AllTasks) /\ h \in AllTasks /\ h = taskList[1]
      /\ In(h, taskList)
      /\ Len(Tail(taskList)) = Len(taskList) - 1 /\ Len(taskList) \in Nat \ {0}
      /\ \A i \in 1..Len(Tail(taskList)) : Tail(taskList)[i] = taskList[i + 1]
      /\ \A u : In(u, Tail(taskList)) => In(u, taskList)
      /\ \A u : In(u, taskList) /\ u # h => In(u, Tail(taskList))
      /\ Len(taskList) = 1 => Tail(taskList) = <<>>
  BY <1>1, Beheaded DEF TasksServed
<1> HIDE DEF h
<1>3. /\ DOMAIN dFate' = AllTasks /\ dFate'[h] = "run"
      /\ \A u \in AllTasks : u # h => dFate'[u] = dFate[u]
  BY <1>1, <1>2 DEF TasksServed
<1>4. Terminate \in AllTasks /\ GameShutdown \in AllTasks
  BY TaskNames
<1>5. dFate[Terminate] # "run"
  BY <1>1 DEF TasksServed
<1>6. h = Terminate => taskState # "running" /\ dFate[Terminate] # "new" /\ taskList' = <<>>
  <2>1. 1 \in 1..Len(taskList)
    BY <1>2
  <2> QED
    BY <1>1, <1>2, <2>1 DEF TasksServed
<1>7. h = GameShutdown => taskState # "running"
  BY <1>1, <1>2 DEF TasksServed
<1>8. In(GameShutdown, taskList') => taskState # "running"
  BY <1>1, <1>2 DEF TasksServed
<1>9. \A u \in AllTasks : dFate'[u] = "queued" => In(u, taskList')
  BY <1>1, <1>2, <1>3 DEF TasksServed
<1>10. ASSUME NEW i \in 1..Len(taskList'), taskList'[i] = Terminate
       PROVE  i = Len(taskList') /\ taskState # "running" /\ dFate'[Terminate] # "new"
  <2>1. i + 1 \in 1..Len(taskList) /\ taskList[i + 1] = Terminate
    BY <1>1, <1>2, <1>10
  <2>2. i + 1 = Len(taskList) /\ taskState # "running" /\ dFate[Terminate] # "new"
    BY <2>1 DEF TasksServed
  <2>3. dFate'[Terminate] # "new"
    BY <1>3, <1>4, <2>2
  <2>4. Len(taskList') = Len(taskList) - 1
    BY <1>1, <1>2
  <2>5. i \in Int /\ Len(taskList) \in Int
    BY <1>2, <1>10
  <2>6. i = Len(taskList')
    BY <2>2, <2>4, <2>5
  <2> QED
    BY <2>2, <2>3, <2>6
<1>11. dFate'[Terminate] # "new" <=> dFate[Terminate] # "new"
  BY <1>3, <1>4, <1>6
<1>12. dFate'[Terminate] = "run" => taskList' = <<>>
  BY <1>3, <1>4, <1>5, <1>6
<1>13. dFate'[Terminate] # "new" => taskState' # "running"
  BY <1>1, <1>11 DEF TasksServed
<1>14. running' = Terminate => dFate'[Terminate] = "run"
  BY <1>1, <1>3
<1>15. taskState' # "terminated" /\ dispatcher' # "ended"
  BY <1>1, <1>5 DEF TasksServed
<1>16. running' = GameShutdown => taskState' # "running"
  BY <1>1, <1>7
<1>17. TasksServed'
  BY <1>1, <1>2, <1>3, <1>8, <1>9, <1>10, <1>12, <1>13, <1>14, <1>15, <1>16 DEF TasksServed
<1> QED
  BY <1>1, <1>11, <1>17

\* Terminate comes last into a closed list.
LEMMA TerminatePushed ==
    ASSUME TasksServed, Dispatching!Shutdown("dispatcher"), running = GameShutdown
    PROVE  TasksServed' /\ UNCHANGED running
           /\ dFate[Terminate] = "new" /\ dFate'[Terminate] = "queued"
<1>1. /\ dFate[Terminate] = "new" /\ dFate' = [dFate EXCEPT ![Terminate] = "queued"]
      /\ taskList' = Append(taskList, Terminate)
      /\ dispatcher' \in {dispatcher, "woken"}
      /\ UNCHANGED <<taskState, running, online>>
  BY DEF Dispatching!Shutdown, Dispatching!PushTerminate, Dispatching!Woken
<1>2. Terminate \in AllTasks /\ Terminate # GameShutdown
  BY TaskNames
<1>3. /\ taskList' \in Seq(AllTasks) /\ Len(taskList') = Len(taskList) + 1
      /\ taskList'[Len(taskList) + 1] = Terminate
      /\ \A i \in 1..Len(taskList) : taskList'[i] = taskList[i]
      /\ \A u : In(u, taskList') <=> u = Terminate \/ In(u, taskList)
  BY <1>1, <1>2, Appended DEF TasksServed
<1>4. taskState # "running"
  BY DEF TasksServed
<1>5. /\ DOMAIN dFate' = AllTasks /\ dFate'[Terminate] = "queued"
      /\ \A u \in AllTasks : dFate'[u] = "queued" => u = Terminate \/ dFate[u] = "queued"
  BY <1>1, <1>2 DEF TasksServed
<1>6. ASSUME NEW i \in 1..Len(taskList'), taskList'[i] = Terminate
      PROVE  i = Len(taskList')
  <2>1. Len(taskList) \in Nat
    BY DEF TasksServed
  <2>2. i \notin 1..Len(taskList)
    BY <1>1, <1>3, <1>6 DEF TasksServed
  <2>3. i \in 1..(Len(taskList) + 1)
    BY <1>3, <1>6
  <2> QED
    BY <1>3, <2>1, <2>2, <2>3
<1>7. running # Terminate /\ taskState # "terminated" /\ dispatcher # "ended"
  BY <1>1 DEF TasksServed
<1>8. TasksServed'
  BY <1>1, <1>2, <1>3, <1>4, <1>5, <1>6, <1>7 DEF TasksServed
<1> QED
  BY <1>1, <1>5, <1>8

\* The other steps of the dispatcher take and add nothing.
LEMMA TasksRest ==
    ASSUME TasksServed, UNCHANGED <<taskList, dFate>>,
           \/ UNCHANGED <<taskState, running>>
              /\ (dispatcher' = dispatcher
                  \/ (dispatcher # "run" /\ (dispatcher' = "ended" => taskState = "terminated")))
           \/ Dispatching!Return /\ (running = SigTerm => taskState # "running")
           \/ Dispatching!Stop
    PROVE  TasksServed'
<1>1. None # Terminate /\ None # GameShutdown
  BY TaskNames
<1>2. CASE UNCHANGED <<taskState, running>>
           /\ (dispatcher' = dispatcher
               \/ (dispatcher # "run" /\ (dispatcher' = "ended" => taskState = "terminated")))
  BY <1>2 DEF TasksServed
<1>3. CASE Dispatching!Return /\ (running = SigTerm => taskState # "running")
  <2>1. /\ taskState' = IF running = Terminate THEN "terminated" ELSE taskState
        /\ dispatcher' = "check" /\ running' = None
    BY <1>3 DEF Dispatching!Return
  <2>2. running = Terminate => dFate[Terminate] = "run"
    BY DEF TasksServed
  <2>3. taskState' = "running" => taskState = "running"
    BY <2>1
  <2> QED
    BY <1>1, <1>3, <2>1, <2>2, <2>3 DEF TasksServed
<1>4. CASE Dispatching!Stop
  <2>1. taskState' = "closing" /\ UNCHANGED <<dispatcher, running>>
    BY <1>4 DEF Dispatching!Stop
  <2> QED
    BY <2>1 DEF TasksServed
<1> QED
  BY <1>2, <1>3, <1>4

-----------------------------------------------------------------------------
\* An event is added, stopped, taken, or the list of events is cleared.
LEMMA EventStep ==
    ASSUME EventsServed,
           \/ \E e \in Events, d \in Delays : Scheduling!AddEvent("dispatcher", e, d)
           \/ \E e \in Events : Scheduling!StopEvent("dispatcher", e)
           \/ Scheduling!TakeTop \/ Scheduling!Stop
           \/ Scheduling!SetTerminated \/ Scheduling!Clear
    PROVE  EventsServed' /\ (sClosed = "done" => sClosed' = "done")
<1>1. ASSUME NEW e \in Events, NEW d \in Delays, Scheduling!AddEvent("dispatcher", e, d)
      PROVE  EventsServed' /\ sClosed' = sClosed
  <2>1. UNCHANGED <<eventState, sClosed, scheduler, event>>
    BY <1>1 DEF Scheduling!AddEvent, Scheduling!switches, Scheduling!thread
  <2>2. CASE eventState = "running"
    <3>1. eventIds' = eventIds \cup {e} /\ sFate' = [sFate EXCEPT ![e] = "pending"]
      BY <1>1, <2>2 DEF Scheduling!AddEvent
    <3> QED
      BY <2>1, <2>2, <3>1 DEF EventsServed
  <2>3. CASE eventState # "running"
    <3>1. eventIds' = eventIds /\ sFate' = [sFate EXCEPT ![e] = "deleted"]
      BY <1>1, <2>3 DEF Scheduling!AddEvent
    <3> QED
      BY <2>1, <3>1 DEF EventsServed
  <2> QED
    BY <2>2, <2>3
<1>2. ASSUME NEW e \in Events, Scheduling!StopEvent("dispatcher", e)
      PROVE  EventsServed' /\ sClosed' = sClosed
  <2>1. /\ eventIds' = eventIds \ {e} /\ sFate' = [sFate EXCEPT ![e] = "stopped"]
        /\ UNCHANGED <<eventState, sClosed, scheduler, event>>
    BY <1>2 DEF Scheduling!StopEvent, Scheduling!switches, Scheduling!thread
  <2> QED
    BY <2>1 DEF EventsServed
<1>3. CASE Scheduling!TakeTop
  <2>1. UNCHANGED <<eventState, sClosed>>
    BY <1>3 DEF Scheduling!TakeTop, Scheduling!switches
  <2>2. \/ UNCHANGED <<eventIds, sFate, event>> /\ scheduler' # "hand"
        \/ \E e \in eventIds :
             eventIds' = eventIds \ {e} /\ event' = e
             /\ sFate' = [sFate EXCEPT ![e] = "handed"]
    BY <1>3 DEF Scheduling!TakeTop, Scheduling!NotStopped
  <2> QED
    BY <2>1, <2>2 DEF EventsServed
<1>4. CASE Scheduling!Stop
  <2>1. /\ eventState = "running" /\ UNCHANGED <<sClosed, eventIds, sFate, scheduler, event>>
    BY <1>4 DEF Scheduling!Stop, Scheduling!queue, Scheduling!thread
  <2> QED
    BY <2>1 DEF EventsServed
<1>5. CASE Scheduling!SetTerminated
  <2>1. /\ sClosed = "no" /\ eventState' = "terminated" /\ sClosed' = "halfway"
        /\ UNCHANGED <<eventIds, sFate, scheduler, event>>
    BY <1>5 DEF Scheduling!SetTerminated, Scheduling!queue, Scheduling!thread
  <2> QED
    BY <2>1 DEF EventsServed
<1>6. CASE Scheduling!Clear
  <2>1. /\ sClosed = "halfway" /\ sClosed' = "done" /\ eventIds' = {}
        /\ sFate' = [e \in Events |-> IF e \in eventIds THEN "deleted" ELSE sFate[e]]
        /\ UNCHANGED <<eventState, scheduler, event>>
    BY <1>6 DEF Scheduling!Clear, Scheduling!IdsCleared, Scheduling!thread
  <2> QED
    BY <2>1 DEF EventsServed
<1> QED
  BY <1>1, <1>2, <1>3, <1>4, <1>5, <1>6

\* The steps of the scheduler that leave its queue alone.
LEMMA EventsRest ==
    ASSUME EventsServed, UNCHANGED <<eventIds, sFate, eventState, sClosed>>,
           scheduler' = "hand" => scheduler = "hand" /\ event' = event
    PROVE  EventsServed'
  BY DEF EventsServed

-----------------------------------------------------------------------------
\* A query is added.
LEMMA QueryAdded ==
    ASSUME QueriesServed, NEW th, NEW q \in Queries, Querying!AddTask(th, q)
    PROVE  QueriesServed' /\ UNCHANGED <<qClosed, worker>>
<1>1. /\ UNCHANGED <<queryState, worker, query, qClosed>> /\ qFate[q] = "new"
      /\ qClosed # "answering"
  BY DEF Querying!AddTask, Querying!LockFree
<1>2. CASE queryState = "running"
  <2>1. queries' = Append(queries, q) /\ qFate' = [qFate EXCEPT ![q] = "accepted"]
    BY <1>2 DEF Querying!AddTask, Querying!Accepts, Querying!Pushed
  <2>2. queries' \in Seq(Queries) /\ \A u : In(u, queries') <=> u = q \/ In(u, queries)
    BY <2>1, Appended DEF QueriesServed
  <2>3. \A u \in Queries : qFate'[u] = "accepted" => u = q \/ qFate[u] = "accepted"
    BY <2>1 DEF QueriesServed
  <2>4. DOMAIN qFate' = Queries
    BY <2>1 DEF QueriesServed
  <2>5. qClosed = "no"
    BY <1>2 DEF QueriesServed
  <2> QED
    BY <1>1, <2>2, <2>3, <2>4, <2>5 DEF QueriesServed
<1>3. CASE queryState # "running"
  <2>1. queries' = queries /\ qFate' = [qFate EXCEPT ![q] = "dropped"]
    BY <1>3 DEF Querying!AddTask, Querying!Accepts
  <2> QED
    BY <1>1, <2>1 DEF QueriesServed
<1> QED
  BY <1>1, <1>2, <1>3

\* The worker takes the first query.
LEMMA QueryTaken ==
    ASSUME QueriesServed, Querying!TakeQuery
    PROVE  QueriesServed' /\ UNCHANGED qClosed /\ worker # "ended"
<1>1. /\ worker \in {"lock", "woken"} /\ queries # <<>> /\ qClosed # "answering"
      /\ query' = Head(queries) /\ queries' = Tail(queries) /\ worker' = "query"
      /\ UNCHANGED <<queryState, qClosed, qFate>>
  BY DEF Querying!TakeQuery, Querying!LockFree, Querying!WithoutFront
<1>2. /\ queries' \in Seq(Queries)
      /\ \A u : In(u, queries) /\ u # Head(queries) => In(u, queries')
  BY <1>1, Beheaded DEF QueriesServed
<1> QED
  BY <1>1, <1>2 DEF QueriesServed

\* It runs it.
LEMMA QueryRun ==
    ASSUME QueriesServed, Querying!RunQuery
    PROVE  QueriesServed' /\ UNCHANGED qClosed /\ worker # "ended"
<1>1. /\ worker = "query" /\ qFate' = [qFate EXCEPT ![query] = "executed"]
      /\ worker' = "answer" /\ UNCHANGED <<queryState, queries, query, qClosed>>
  BY DEF Querying!RunQuery
<1>2. /\ DOMAIN qFate' = Queries
      /\ \A u \in Queries : qFate'[u] = "accepted" => u # query /\ qFate[u] = "accepted"
  BY <1>1 DEF QueriesServed
<1>3. qClosed = "answering" => queries # <<>> /\ qFate'[Head(queries)] # "accepted"
  <2> SUFFICES ASSUME qClosed = "answering"
               PROVE  queries # <<>> /\ qFate'[Head(queries)] # "accepted"
    OBVIOUS
  <2>1. queries # <<>> /\ qFate[Head(queries)] # "accepted" /\ Head(queries) \in Queries
    BY Beheaded DEF QueriesServed
  <2> QED
    BY <1>2, <2>1
<1> QED
  BY <1>1, <1>2, <1>3 DEF QueriesServed

\* The shutdown runs the first query in the list.
LEMMA QueryFlushed ==
    ASSUME QueriesServed, Querying!FlushQuery
    PROVE  QueriesServed' /\ UNCHANGED worker /\ qClosed # "done" /\ qClosed # "no"
<1>1. /\ qClosed = "flushing" /\ queries # <<>> /\ qClosed' = "answering"
      /\ qFate' = [qFate EXCEPT ![Head(queries)] = "executed"]
      /\ UNCHANGED <<queryState, queries, worker, query>>
  BY DEF Querying!FlushQuery
<1>2. Head(queries) \in Queries
  BY <1>1, Beheaded DEF QueriesServed
<1> QED
  BY <1>1, <1>2 DEF QueriesServed

\* It takes it out when the answer is there.
LEMMA FlushAnswered ==
    ASSUME QueriesServed, Querying!FlushAnswer
    PROVE  QueriesServed' /\ UNCHANGED worker /\ qClosed # "done" /\ qClosed # "no"
<1>1. /\ qClosed = "answering" /\ qClosed' = "flushing" /\ queries' = Tail(queries)
      /\ UNCHANGED <<queryState, worker, query, qFate>>
  BY DEF Querying!FlushAnswer
<1>2. /\ queries # <<>> /\ qFate[Head(queries)] # "accepted"
  BY <1>1 DEF QueriesServed
<1>3. /\ queries' \in Seq(Queries)
      /\ \A u : In(u, queries) /\ u # Head(queries) => In(u, queries')
  BY <1>1, <1>2, Beheaded DEF QueriesServed
<1> QED
  BY <1>1, <1>2, <1>3 DEF QueriesServed

\* The other steps leave the queries alone.
LEMMA QueriesRest ==
    ASSUME QueriesServed, UNCHANGED <<queries, qFate>>,
           \/ /\ UNCHANGED <<queryState, qClosed, query>>
              /\ worker' = worker \/ worker # "query"
           \/ /\ UNCHANGED <<queryState, qClosed>> /\ worker # "query"
           \/ Querying!Stop \/ Querying!BeginShutdown \/ Querying!EndShutdown
    PROVE  QueriesServed'
<1>1. CASE UNCHANGED <<queryState, qClosed, query>> /\ (worker' = worker \/ worker # "query")
  BY <1>1 DEF QueriesServed
<1>2. CASE UNCHANGED <<queryState, qClosed>> /\ worker # "query"
  BY <1>2 DEF QueriesServed
<1>3. CASE Querying!Stop
  <2>1. queryState = "running" /\ UNCHANGED <<worker, query, qClosed>>
    BY <1>3 DEF Querying!Stop
  <2> QED
    BY <2>1 DEF QueriesServed
<1>4. CASE Querying!BeginShutdown
  <2>1. qClosed' = "flushing" /\ queryState' = "terminated" /\ UNCHANGED <<worker, query>>
    BY <1>4 DEF Querying!BeginShutdown
  <2> QED
    BY <2>1 DEF QueriesServed
<1>5. CASE Querying!EndShutdown
  <2>1. /\ qClosed = "flushing" /\ queries = <<>> /\ qClosed' = "done"
        /\ UNCHANGED <<worker, query, queryState>>
    BY <1>5 DEF Querying!EndShutdown, Querying!FlushedAll
  <2> QED
    BY <2>1 DEF QueriesServed
<1> QED
  BY <1>1, <1>2, <1>3, <1>4, <1>5

-----------------------------------------------------------------------------
\* What a step of the three threads has to keep of the order.
LEMMA OrderKept ==
    ASSUME InOneOrder, UNCHANGED <<serving, main>>,
           dFate[Terminate] # "new" => dFate'[Terminate] # "new",
           worker = "ended" => worker' = "ended",
           dispatcher = "ended" => dispatcher' = "ended",
           qClosed' # "no" => sClosed' = "done",
           dFate'[Terminate] # "new" => qClosed' = "done"
    PROVE  InOneOrder'
  BY DEF InOneOrder

\* A step of one thread's list alone.
LEMMA OnlyTasks ==
    ASSUME ServerInv, TasksServed', UNCHANGED <<sVars, qVars, mVars>>,
           dFate'[Terminate] # "new" <=> dFate[Terminate] # "new",
           dispatcher = "ended" => dispatcher' = "ended"
    PROVE  ServerInv'
<1>1. EventsServed'
  BY DEF sVars, ServerInv, EventsServed
<1>2. QueriesServed'
  BY DEF qVars, ServerInv, QueriesServed
<1>3. InOneOrder'
  BY DEF sVars, qVars, mVars, ServerInv, InOneOrder
<1> QED
  BY <1>1, <1>2, <1>3 DEF ServerInv

\* The same for the list of events,
LEMMA OnlyEvents ==
    ASSUME ServerInv, EventsServed', UNCHANGED <<dVars, qVars, mVars>>,
           sClosed = "done" => sClosed' = "done"
    PROVE  ServerInv'
<1>1. TasksServed'
  BY DEF dVars, ServerInv, TasksServed
<1>2. QueriesServed'
  BY DEF qVars, ServerInv, QueriesServed
<1>3. InOneOrder'
  BY DEF dVars, qVars, mVars, ServerInv, InOneOrder
<1> QED
  BY <1>1, <1>2, <1>3 DEF ServerInv

\* and for that of queries.
LEMMA OnlyQueries ==
    ASSUME ServerInv, QueriesServed', UNCHANGED <<dVars, sVars, mVars>>,
           worker = "ended" => worker' = "ended",
           qClosed' # "no" => sClosed = "done",
           qClosed = "done" => qClosed' = "done"
    PROVE  ServerInv'
<1>1. TasksServed'
  BY DEF dVars, ServerInv, TasksServed
<1>2. EventsServed'
  BY DEF sVars, ServerInv, EventsServed
<1>3. InOneOrder'
  BY DEF dVars, sVars, mVars, ServerInv, InOneOrder
<1> QED
  BY <1>1, <1>2, <1>3 DEF ServerInv

\* The main thread.
LEMMA MainKeeps ==
    ASSUME ServerInv, Network \/ StopServing \/ Join
    PROVE  ServerInv'
<1>1. ASSUME NEW t \in Messages \cup {SigTerm}, Tasks(Dispatching!AddTask("network", t))
      PROVE  ServerInv'
  <2>1. t = GameShutdown => FALSE
    BY <1>1 DEF Tasks, Dispatching!AddTask
  <2>2. t \in Dispatching!Tasks
    BY TaskNames
  <2>3. TasksServed' /\ dFate'[Terminate] = dFate[Terminate] /\ UNCHANGED dispatcher
    BY <1>1, <2>1, <2>2, TaskAdded DEF Tasks, ServerInv
  <2> QED
    BY <1>1, <2>3, OnlyTasks DEF Tasks
<1>2. ASSUME NEW q \in Queries, Database(Querying!AddTask("network", q))
      PROVE  ServerInv'
  <2>1. QueriesServed' /\ UNCHANGED <<qClosed, worker>>
    BY <1>2, QueryAdded DEF Database, ServerInv
  <2> QED
    BY <1>2, <2>1, OnlyQueries DEF Database, ServerInv, InOneOrder
<1>3. CASE StopServing \/ Join
  <2>1. UNCHANGED <<dVars, sVars, qVars, serving>>
    BY <1>3 DEF StopServing, Join
  <2>2. TasksServed' /\ EventsServed' /\ QueriesServed'
    BY <2>1 DEF dVars, sVars, qVars, ServerInv, TasksServed, EventsServed, QueriesServed
  <2>3. InOneOrder'
    BY <1>3, <2>1 DEF StopServing, Join, dVars, sVars, qVars, ServerInv, InOneOrder
  <2> QED
    BY <2>2, <2>3 DEF ServerInv
<1> QED
  BY <1>1, <1>2, <1>3 DEF Network

\* The dispatcher's own steps.
LEMMA LoopKeeps ==
    ASSUME ServerInv,
           \/ Tasks(\/ Dispatching!CheckState \/ Dispatching!Sleep
                    \/ Dispatching!FindNothing \/ Dispatching!TakeTask)
           \/ Return
           \/ \E th : Tasks(Dispatching!Notify(th))
           \/ Tasks(Dispatching!SpuriousWakeUp)
    PROVE  ServerInv'
<1>1. UNCHANGED <<sVars, qVars, mVars>>
  BY DEF Tasks, Return
<1>2. CASE Dispatching!TakeTask
  BY <1>1, <1>2, TaskTaken, OnlyTasks DEF ServerInv
<1>3. CASE Dispatching!Return /\ (running = SigTerm => taskState # "running")
  <2>1. UNCHANGED <<taskList, dFate>> /\ dispatcher = "run"
    BY <1>3 DEF Dispatching!Return
  <2>2. TasksServed'
    BY <1>3, <2>1, TasksRest DEF ServerInv
  <2> QED
    BY <1>1, <2>1, <2>2, OnlyTasks
<1>4. CASE \/ Dispatching!CheckState \/ Dispatching!Sleep \/ Dispatching!FindNothing
           \/ (\E th : Dispatching!Notify(th)) \/ Dispatching!SpuriousWakeUp
  <2>1. /\ UNCHANGED <<taskList, dFate, taskState, running>>
        /\ \/ dispatcher' = dispatcher
           \/ /\ dispatcher \notin {"run", "ended"}
              /\ dispatcher' = "ended" => taskState = "terminated"
    BY <1>4 DEF Dispatching!CheckState, Dispatching!Sleep, Dispatching!FindNothing,
       Dispatching!Notify, Dispatching!SpuriousWakeUp, Dispatching!Woken
  <2>2. TasksServed'
    BY <2>1, TasksRest DEF ServerInv
  <2> QED
    BY <1>1, <2>1, <2>2, OnlyTasks
<1> QED
  BY <1>2, <1>3, <1>4 DEF Tasks, Return

\* A task that is neither of the two that close the server, and the first one.
LEMMA GameKeeps ==
    ASSUME ServerInv, RunTask \/ Close
    PROVE  ServerInv'
<1>1. CASE \/ \E e \in Events, d \in Delays :
                Timers(Scheduling!AddEvent("dispatcher", e, d))
           \/ \E e \in Events : Timers(Scheduling!StopEvent("dispatcher", e))
           \/ Timers(Scheduling!Stop)
  <2>1. EventsServed' /\ (sClosed = "done" => sClosed' = "done")
        /\ UNCHANGED <<dVars, qVars, mVars>>
    BY <1>1, EventStep DEF Timers, ServerInv
  <2> QED
    BY <2>1, OnlyEvents
<1>2. ASSUME NEW q \in Queries, Database(Querying!AddTask("dispatcher", q))
      PROVE  ServerInv'
  <2>1. QueriesServed' /\ UNCHANGED <<qClosed, worker>>
    BY <1>2, QueryAdded DEF Database, ServerInv
  <2> QED
    BY <1>2, <2>1, OnlyQueries DEF Database, ServerInv, InOneOrder
<1>3. CASE Tasks(Dispatching!AddTask("dispatcher", GameShutdown)) /\ running = SigTerm
  <2>1. TasksServed' /\ dFate'[Terminate] = dFate[Terminate] /\ UNCHANGED dispatcher
    BY <1>3, TaskAdded, TaskNames DEF Tasks, ServerInv
  <2> QED
    BY <1>3, <2>1, OnlyTasks DEF Tasks
<1>4. CASE Database(Querying!Stop)
  <2>1. UNCHANGED <<queries, qFate, qClosed, worker>>
    BY <1>4 DEF Database, Querying!Stop, Querying!history
  <2>2. QueriesServed'
    BY <1>4, <2>1, QueriesRest DEF Database, ServerInv
  <2> QED
    BY <1>4, <2>1, <2>2, OnlyQueries DEF Database, ServerInv, InOneOrder
<1>5. CASE Tasks(Dispatching!Stop)
  <2>1. UNCHANGED <<taskList, dFate, dispatcher>>
    BY <1>5 DEF Tasks, Dispatching!Stop
  <2>2. TasksServed'
    BY <1>5, <2>1, TasksRest DEF Tasks, ServerInv
  <2> QED
    BY <1>5, <2>1, <2>2, OnlyTasks DEF Tasks
<1> QED
  BY <1>1, <1>2, <1>3, <1>4, <1>5 DEF RunTask, Close

\* Game::shutdown.
LEMMA ShutDownKeeps ==
    ASSUME ServerInv, ShutDown
    PROVE  ServerInv'
<1>0. running = GameShutdown /\ GameShutdown # SigTerm
  BY TaskNames DEF ShutDown
<1>1. CASE Timers(Scheduling!SetTerminated \/ Scheduling!Clear)
  <2>1. EventsServed' /\ (sClosed = "done" => sClosed' = "done")
        /\ UNCHANGED <<dVars, qVars, mVars>>
    BY <1>1, EventStep DEF Timers, ServerInv
  <2> QED
    BY <2>1, OnlyEvents
<1>2. CASE sClosed = "done" /\ Database(Querying!BeginShutdown \/ Querying!EndShutdown)
  <2>1. UNCHANGED <<queries, qFate, worker>> /\ qClosed # "done"
    BY <1>2 DEF Database, Querying!BeginShutdown, Querying!EndShutdown,
       Querying!FlushedAll, Querying!history
  <2>2. QueriesServed'
    BY <1>2, <2>1, QueriesRest DEF Database, ServerInv
  <2> QED
    BY <1>2, <2>1, <2>2, OnlyQueries DEF Database
<1>3. CASE sClosed = "done" /\ Database(Querying!FlushQuery)
  <2>1. QueriesServed' /\ UNCHANGED worker /\ qClosed # "done"
    BY <1>3, QueryFlushed DEF Database, ServerInv
  <2> QED
    BY <1>3, <2>1, OnlyQueries DEF Database
<1>4. CASE /\ Querying!FlushAnswer
           /\ IF Head(queries) \in Answered
              THEN Dispatching!AddTask("dispatcher", Head(queries))
              ELSE UNCHANGED dVars
           /\ UNCHANGED <<sVars, mVars>>
  <2>1. QueriesServed' /\ UNCHANGED worker /\ qClosed # "done" /\ qClosed # "no"
    BY <1>4, FlushAnswered DEF ServerInv
  <2>2. TasksServed' /\ dFate'[Terminate] = dFate[Terminate] /\ UNCHANGED dispatcher
    <3>1. CASE Head(queries) \in Answered
      <4>1. Head(queries) \in Dispatching!Tasks
        BY <3>1, TaskNames
      <4>2. Head(queries) # GameShutdown
        BY <3>1, TaskNames
      <4> QED
        BY <1>4, <3>1, <4>1, <4>2, TaskAdded DEF ServerInv
    <3>2. CASE Head(queries) \notin Answered
      BY <1>4, <3>2 DEF dVars, ServerInv, TasksServed
    <3> QED
      BY <3>1, <3>2
  <2>3. EventsServed'
    BY <1>4 DEF sVars, ServerInv, EventsServed
  <2>4. InOneOrder'
    BY <1>4, <2>1, <2>2 DEF sVars, mVars, ServerInv, InOneOrder
  <2> QED
    BY <2>1, <2>2, <2>3, <2>4 DEF ServerInv
<1>5. CASE qClosed = "done" /\ Tasks(Dispatching!Shutdown("dispatcher"))
  <2>1. TasksServed' /\ UNCHANGED running /\ dFate[Terminate] = "new"
    BY <1>0, <1>5, TerminatePushed DEF Tasks, ServerInv
  <2>2. EventsServed' /\ QueriesServed'
    BY <1>5 DEF Tasks, sVars, qVars, ServerInv, EventsServed, QueriesServed
  <2>3. InOneOrder'
    BY <1>5, <2>1 DEF Tasks, sVars, qVars, mVars, ServerInv, InOneOrder
  <2> QED
    BY <2>1, <2>2, <2>3 DEF ServerInv
<1>6. CASE /\ dFate[Terminate] # "new" /\ serving
           /\ serving' = FALSE
           /\ UNCHANGED <<dVars, sVars, qVars, main>>
  <2>1. TasksServed' /\ EventsServed' /\ QueriesServed'
    BY <1>6 DEF dVars, sVars, qVars, ServerInv, TasksServed, EventsServed, QueriesServed
  <2>2. InOneOrder'
    BY <1>6 DEF dVars, sVars, qVars, ServerInv, InOneOrder
  <2> QED
    BY <2>1, <2>2 DEF ServerInv
<1> QED
  BY <1>1, <1>2, <1>3, <1>4, <1>5, <1>6 DEF ShutDown, Database

\* The scheduler takes an event, or hands it to the dispatcher.
LEMMA SchedulerKeeps ==
    ASSUME ServerInv, SchedulerThread
    PROVE  ServerInv'
<1>1. CASE Timers(Scheduling!TakeTop)
  <2>1. EventsServed' /\ (sClosed = "done" => sClosed' = "done")
        /\ UNCHANGED <<dVars, qVars, mVars>>
    BY <1>1, EventStep DEF Timers, ServerInv
  <2> QED
    BY <2>1, OnlyEvents
<1>2. CASE Timers(\/ Scheduling!CheckState \/ Scheduling!Sleep
                  \/ Scheduling!TimeOut \/ Scheduling!NoTimeout)
  <2>1. /\ UNCHANGED <<eventIds, sFate, eventState, sClosed>>
        /\ scheduler' = "hand" => scheduler = "hand" /\ event' = event
        /\ UNCHANGED <<dVars, qVars, mVars>>
    BY <1>2 DEF Timers, Scheduling!CheckState, Scheduling!Sleep, Scheduling!TimeOut,
       Scheduling!NoTimeout, Scheduling!queue, Scheduling!switches
  <2>2. EventsServed'
    BY <2>1, EventsRest DEF ServerInv
  <2> QED
    BY <2>1, <2>2, OnlyEvents
<1>3. CASE Scheduling!HandOver /\ Dispatching!AddTask("scheduler", event)
           /\ UNCHANGED <<qVars, mVars>>
  <2>1. UNCHANGED <<eventIds, sFate, eventState, sClosed>>
        /\ scheduler = "hand" /\ scheduler' = "check"
    BY <1>3 DEF Scheduling!HandOver, Scheduling!queue, Scheduling!switches
  <2>2. EventsServed'
    BY <2>1, EventsRest DEF ServerInv
  <2>3. event # GameShutdown
    BY <1>3 DEF Dispatching!AddTask
  <2>4. event \in Dispatching!Tasks
    BY <2>1, TaskNames DEF ServerInv, EventsServed
  <2>5. TasksServed' /\ dFate'[Terminate] = dFate[Terminate] /\ UNCHANGED dispatcher
    BY <1>3, <2>3, <2>4, TaskAdded DEF ServerInv
  <2>6. QueriesServed' /\ InOneOrder'
    BY <1>3, <2>1, <2>5 DEF qVars, mVars, ServerInv, QueriesServed, InOneOrder
  <2> QED
    BY <2>2, <2>5, <2>6 DEF ServerInv
<1> QED
  BY <1>1, <1>2, <1>3 DEF SchedulerThread, Timers

\* The worker runs its query, or hands the dispatcher the answer.
LEMMA DatabaseKeeps ==
    ASSUME ServerInv, DatabaseThread
    PROVE  ServerInv'
<1>1. CASE Database(Querying!TakeQuery \/ Querying!RunQuery)
  <2>1. QueriesServed' /\ UNCHANGED qClosed /\ worker # "ended"
    BY <1>1, QueryTaken, QueryRun DEF Database, ServerInv
  <2> QED
    BY <1>1, <2>1, OnlyQueries DEF Database, ServerInv, InOneOrder
<1>2. CASE Database(Querying!CheckState \/ Querying!Sleep \/ Querying!FindNothing)
  <2>1. /\ UNCHANGED <<queries, qFate, queryState, qClosed, query>>
        /\ worker \in {"check", "lock", "woken"}
    BY <1>2 DEF Database, Querying!CheckState, Querying!Sleep, Querying!FindNothing
  <2>2. QueriesServed'
    BY <2>1, QueriesRest DEF ServerInv
  <2> QED
    BY <1>2, <2>1, <2>2, OnlyQueries DEF Database, ServerInv, InOneOrder
<1>3. CASE /\ Querying!Answer
           /\ IF query \in Answered THEN Dispatching!AddTask("database", query)
              ELSE UNCHANGED dVars
           /\ UNCHANGED <<sVars, mVars>>
  <2>1. worker = "answer" /\ UNCHANGED <<queries, qFate, queryState, qClosed>>
    BY <1>3 DEF Querying!Answer
  <2>2. QueriesServed'
    BY <2>1, QueriesRest DEF ServerInv
  <2>3. TasksServed' /\ dFate'[Terminate] = dFate[Terminate] /\ UNCHANGED dispatcher
    <3>1. CASE query \in Answered
      <4>1. query \in Dispatching!Tasks /\ query # GameShutdown
        BY <3>1, TaskNames
      <4> QED
        BY <1>3, <3>1, <4>1, TaskAdded DEF ServerInv
    <3>2. CASE query \notin Answered
      BY <1>3, <3>2 DEF dVars, ServerInv, TasksServed
    <3> QED
      BY <3>1, <3>2
  <2>4. EventsServed'
    BY <1>3 DEF sVars, ServerInv, EventsServed
  <2>5. InOneOrder'
    BY <1>3, <2>1, <2>3 DEF sVars, mVars, ServerInv, InOneOrder
  <2> QED
    BY <2>2, <2>3, <2>4, <2>5 DEF ServerInv
<1> QED
  BY <1>1, <1>2, <1>3 DEF DatabaseThread, Database

\* The end of a wait, and time.
LEMMA WakingKeeps ==
    ASSUME ServerInv, (\E th \in NamedThreads : Notify(th)) \/ WakeUp \/ Tick
    PROVE  ServerInv'
<1>1. CASE (\E th : Tasks(Dispatching!Notify(th))) \/ Tasks(Dispatching!SpuriousWakeUp)
  BY <1>1, LoopKeeps
<1>2. CASE \/ \E th : Timers(Scheduling!Notify(th))
           \/ Timers(Scheduling!SpuriousWakeUp) \/ Timers(Scheduling!Tick)
  <2>1. /\ UNCHANGED <<eventIds, sFate, eventState, sClosed>>
        /\ scheduler' = "hand" => scheduler = "hand" /\ event' = event
        /\ UNCHANGED <<dVars, qVars, mVars>>
    BY <1>2 DEF Timers, Scheduling!Notify, Scheduling!SpuriousWakeUp, Scheduling!Tick,
       Scheduling!queue, Scheduling!switches, Scheduling!thread
  <2>2. EventsServed'
    BY <2>1, EventsRest DEF ServerInv
  <2> QED
    BY <2>1, <2>2, OnlyEvents
<1>3. CASE (\E th : Database(Querying!Notify(th))) \/ Database(Querying!SpuriousWakeUp)
  <2>1. /\ UNCHANGED <<queries, qFate, queryState, qClosed, query>>
        /\ worker' = worker \/ worker = "asleep"
    BY <1>3 DEF Database, Querying!Notify, Querying!SpuriousWakeUp, Querying!history
  <2>2. QueriesServed'
    BY <2>1, QueriesRest DEF ServerInv
  <2> QED
    BY <1>3, <2>1, <2>2, OnlyQueries DEF Database, ServerInv, InOneOrder
<1> QED
  BY <1>1, <1>2, <1>3 DEF Notify, WakeUp, Tick

\* The invariant is inductive.
LEMMA ServerStep == ServerInv /\ [Next]_vars => ServerInv'
<1> SUFFICES ASSUME ServerInv, [Next]_vars PROVE ServerInv'
  OBVIOUS
<1>1. CASE Network \/ StopServing \/ Join
  BY <1>1, MainKeeps
<1>2. CASE RunTask \/ Close
  BY <1>2, GameKeeps
<1>3. CASE ShutDown
  BY <1>3, ShutDownKeeps
<1>4. CASE Return \/ Tasks(\/ Dispatching!CheckState \/ Dispatching!Sleep
                           \/ Dispatching!FindNothing \/ Dispatching!TakeTask)
  BY <1>4, LoopKeeps
<1>5. CASE SchedulerThread \/ DatabaseThread
  BY <1>5, SchedulerKeeps, DatabaseKeeps
<1>6. CASE (\E th \in NamedThreads : Notify(th)) \/ WakeUp \/ Tick
  BY <1>6, WakingKeeps
<1>7. CASE UNCHANGED vars
  <2>1. TasksServed' /\ EventsServed' /\ QueriesServed'
    BY <1>7 DEF vars, dVars, sVars, qVars, ServerInv, TasksServed, EventsServed, QueriesServed
  <2>2. InOneOrder'
    BY <1>7 DEF vars, dVars, sVars, qVars, mVars, ServerInv, InOneOrder
  <2> QED
    BY <2>1, <2>2 DEF ServerInv
<1> QED
  BY <1>1, <1>2, <1>3, <1>4, <1>5, <1>6, <1>7 DEF Next, DispatcherThread, Over

\* The server starts with empty lists.
LEMMA ServerStart == Init => ServerInv
<1> SUFFICES ASSUME Init PROVE ServerInv
  OBVIOUS
<1>1. TasksServed
  BY TaskNames DEF Init, Dispatching!Init, TasksServed, AllTasks, In
<1>2. EventsServed
  BY DEF Init, Scheduling!Init, EventsServed
<1>3. QueriesServed
  BY DEF Init, Querying!Init, QueriesServed
<1>4. InOneOrder
  BY TaskNames DEF Init, Dispatching!Init, Querying!Init, InOneOrder, AllTasks
<1> QED
  BY <1>1, <1>2, <1>3, <1>4 DEF ServerInv

\* When the main thread has joined the others, nothing accepted is left: the
\* tasks are run, the events handed over, stopped or deleted, the queries in
\* the database (Game::shutdown, DatabaseTasks::flush, Dispatcher::shutdown).
THEOREM ExitLeavesNothingTheorem == Spec => []ExitLeavesNothing
<1>1. ServerInv => ExitLeavesNothing
  <2> SUFFICES ASSUME ServerInv, main = "exit" PROVE ExitLeavesNothing
    BY DEF ExitLeavesNothing
  <2>1. dispatcher = "ended" /\ worker = "ended" /\ qClosed = "done" /\ sClosed = "done"
    BY DEF ServerInv, InOneOrder
  <2>2. taskList = <<>> /\ queries = <<>> /\ eventIds = {}
    BY <2>1 DEF ServerInv, TasksServed, EventsServed, QueriesServed
  <2>3. \A x : ~In(x, taskList) /\ ~In(x, queries)
    BY <2>2 DEF In
  <2>4. \A t \in Dispatching!Tasks : dFate[t] # "queued"
    BY <2>3, TaskNames DEF ServerInv, TasksServed
  <2>5. \A e \in Events : sFate[e] # "pending"
    BY <2>2 DEF ServerInv, EventsServed
  <2>6. \A q \in Queries : qFate[q] # "accepted"
    BY <2>1, <2>3 DEF ServerInv, QueriesServed
  <2> QED
    BY <2>4, <2>5, <2>6 DEF ExitLeavesNothing
<1> QED
  BY ServerStart, ServerStep, <1>1, PTL DEF Spec

-----------------------------------------------------------------------------
(***************************************************************************)
(* Items that decay: what a list or a place holds is counted.              *)
(***************************************************************************)
\* How often an element is in a list: a number, and that of the parts.
LEMMA TimesAre ==
    ASSUME NEW s \in Seq(Item), NEW i \in Item, NEW j \in Item
    PROVE  /\ Times(s, i) \in Nat
           /\ Times(Append(s, j), i) = IF j = i THEN Times(s, i) + 1 ELSE Times(s, i)
           /\ Times(<<j>> \o s, i) = IF j = i THEN Times(s, i) + 1 ELSE Times(s, i)
<1>1. PICK c \in Seq(Item) : c = Chosen(s, {i})
  BY ChosenIn
<1>2. Times(s, i) = Len(c) /\ Len(c) \in Nat
  BY <1>1 DEF Times
<1>3. Chosen(Append(s, j), {i}) = IF j \in {i} THEN Append(Chosen(s, {i}), j) ELSE Chosen(s, {i})
  BY ChosenAppend
<1>4. Chosen(<<j>> \o s, {i}) = IF j \in {i} THEN <<j>> \o Chosen(s, {i}) ELSE Chosen(s, {i})
  BY ChosenFront
<1>5. Len(Append(c, j)) = Len(c) + 1 /\ Len(<<j>> \o c) = Len(c) + 1
  OBVIOUS
<1>6. Times(Append(s, j), i) = IF j = i THEN Len(c) + 1 ELSE Len(c)
  BY <1>1, <1>3, <1>5 DEF Times
<1>7. Times(<<j>> \o s, i) = IF j = i THEN Len(c) + 1 ELSE Len(c)
  BY <1>1, <1>4, <1>5 DEF Times
<1> QED
  BY <1>2, <1>6, <1>7

\* and of one list behind the other.
LEMMA TimesSum ==
    ASSUME NEW s \in Seq(Item), NEW t \in Seq(Item), NEW i \in Item
    PROVE  Times(s \o t, i) = Times(s, i) + Times(t, i)
<1>1. PICK c \in Seq(Item), d \in Seq(Item) : c = Chosen(s, {i}) /\ d = Chosen(t, {i})
  BY ChosenIn
<1>2. Chosen(s \o t, {i}) = c \o d
  <2>1. PICK K : K = {i}
    OBVIOUS
  <2>2. Chosen(s \o t, K) = Chosen(s, K) \o Chosen(t, K)
    BY ChosenConcat
  <2> QED
    BY <1>1, <2>1, <2>2
<1>3. Len(c \o d) = Len(c) + Len(d)
  OBVIOUS
<1> QED
  BY <1>1, <1>2, <1>3 DEF Times

\* Nothing is in the empty list.
LEMMA TimesNone == ASSUME NEW i PROVE Times(<<>>, i) = 0
BY ChosenEmpty DEF Times

\* What is chosen is chosen as often as it was in the list.
LEMMA TimesChosen ==
    ASSUME NEW s \in Seq(Item), NEW i \in Item, NEW K
    PROVE  Times(Chosen(s, K), i) = IF i \in K THEN Times(s, i) ELSE 0
<1> DEFINE Right(r) == Times(Chosen(r, K), i) = IF i \in K THEN Times(r, i) ELSE 0
           B == {r \in Seq(Item) : ~Right(r)}
<1>1. <<>> \notin B
  BY ChosenEmpty, TimesNone
<1>2. ASSUME NEW r \in Seq(Item), NEW x \in Item, Append(r, x) \in B PROVE r \in B
  <2>1. SUFFICES ASSUME Right(r) PROVE FALSE
    OBVIOUS
  <2>2. PICK c \in Seq(Item) : c = Chosen(r, K)
    BY ChosenIn
  <2>3. Chosen(Append(r, x), K) = IF x \in K THEN Append(c, x) ELSE c
    BY <2>2, ChosenAppend
  <2>4. Times(Append(r, x), i) = IF x = i THEN Times(r, i) + 1 ELSE Times(r, i)
    BY TimesAre
  <2>5. Times(Append(c, x), i) = IF x = i THEN Times(c, i) + 1 ELSE Times(c, i)
    BY TimesAre
  <2>6. Times(c, i) = IF i \in K THEN Times(r, i) ELSE 0
    BY <2>1, <2>2
  <2>7. Right(Append(r, x))
    <3>1. CASE x = i
      BY <2>3, <2>4, <2>5, <2>6, <3>1
    <3>2. CASE x # i
      BY <2>3, <2>4, <2>5, <2>6, <3>2
    <3> QED
      BY <3>1, <3>2
  <2> QED
    BY <1>2, <2>7
<1>3. B = {}
  <2>1. B \in SUBSET Seq(Item)
    OBVIOUS
  <2> HIDE DEF B
  <2> QED
    BY <1>1, <1>2, <2>1, NoLeastList
<1> QED
  BY <1>3

-----------------------------------------------------------------------------
\* The kinds, and those an item may be of.
Kinds == {"corpse", "bones", "ring", "worn"}

KindsOf(i) == IF i \in Rings THEN {"ring", "worn"} ELSE {"corpse", "bones"}

DecayRecord ==
    [kind : [Item -> Kinds], placed : [Item -> BOOLEAN], decaying : [Item -> BOOLEAN],
     duration : [Item -> Nat], refs : [Item -> Nat], toDecay : Seq(Item),
     lists : [0 .. 3 -> Seq(Item)], last : 0 .. 3, releasing : [Item -> Nat],
     age : [Item -> Int]]

\* What ItemType says of them.
LEMMA KindsAre ==
    /\ Kind["corpse"] = [time |-> CorpseTime, decayTo |-> "bones", stopTime |-> FALSE]
    /\ Kind["bones"] = [time |-> BonesTime, decayTo |-> "0", stopTime |-> FALSE]
    /\ Kind["ring"] = [time |-> 0, decayTo |-> "-1", stopTime |-> TRUE]
    /\ Kind["worn"] = [time |-> WornTime, decayTo |-> "0", stopTime |-> FALSE]
    /\ {CorpseTime, BonesTime, WornTime} \subseteq Nat \ {0}
BY DecayAssumption DEF Kind

\* How often the lists hold an item.
EntriesIn(g, i) ==
    Times(g.toDecay, i) + Times(g.lists[0], i) + Times(g.lists[1], i)
    + Times(g.lists[2], i) + Times(g.lists[3], i)

\* Whoever holds the item is counted; r is how often it is in the list that is
\* being checked, x how often the check itself holds it.
Counts(g, i, r, x) ==
    /\ g.kind[i] \in KindsOf(i)
    /\ g.refs[i] = (IF g.placed[i] THEN 1 ELSE 0) + EntriesIn(g, i) + r + x + g.releasing[i]
    /\ EntriesIn(g, i) + r <= 1
    /\ EntriesIn(g, i) + r = 1 => g.decaying[i] /\ g.duration[i] > 0

\* What is marked and on no list has lost its place.
Marked(g, i, r) == g.decaying[i] /\ EntriesIn(g, i) + r = 0 => ~g.placed[i]

\* An address that nobody holds is as at the start.
Fresh(g, i) ==
    g.refs[i] = 0 => ~g.decaying[i] /\ g.kind[i] = IF i \in Rings THEN "ring" ELSE "corpse"

\* Two states that do not differ for i.
SameItem(g, h, i) ==
    /\ h.kind[i] = g.kind[i] /\ h.placed[i] = g.placed[i] /\ h.decaying[i] = g.decaying[i]
    /\ h.duration[i] = g.duration[i] /\ h.refs[i] = g.refs[i]
    /\ h.releasing[i] = g.releasing[i] /\ EntriesIn(h, i) = EntriesIn(g, i)

\* It is counted in both or in none.
LEMMA SameItemCounts ==
    ASSUME NEW g, NEW h, NEW i, SameItem(g, h, i), NEW r, NEW x
    PROVE  /\ Counts(g, i, r, x) => Counts(h, i, r, x)
           /\ Marked(g, i, r) => Marked(h, i, r)
           /\ Fresh(g, i) => Fresh(h, i)
BY DEF SameItem, Counts, Marked, Fresh

\* The fields of a state.
LEMMA DecayFields ==
    ASSUME NEW g \in DecayRecord
    PROVE  /\ g.kind \in [Item -> Kinds] /\ g.placed \in [Item -> BOOLEAN]
           /\ g.decaying \in [Item -> BOOLEAN] /\ g.duration \in [Item -> Nat]
           /\ g.refs \in [Item -> Nat] /\ g.toDecay \in Seq(Item)
           /\ g.lists \in [0 .. 3 -> Seq(Item)] /\ g.last \in 0 .. 3
           /\ g.releasing \in [Item -> Nat] /\ g.age \in [Item -> Int]
           /\ \A b \in 0 .. 3 : g.lists[b] \in Seq(Item)
BY DEF DecayRecord

\* The counts of the lists are numbers.
LEMMA TimesIn ==
    ASSUME NEW g \in DecayRecord, NEW i \in Item
    PROVE  /\ Times(g.toDecay, i) \in Nat /\ Times(g.lists[0], i) \in Nat
           /\ Times(g.lists[1], i) \in Nat /\ Times(g.lists[2], i) \in Nat
           /\ Times(g.lists[3], i) \in Nat
<1>1. /\ g.toDecay \in Seq(Item) /\ g.lists[0] \in Seq(Item) /\ g.lists[1] \in Seq(Item)
      /\ g.lists[2] \in Seq(Item) /\ g.lists[3] \in Seq(Item)
  BY DecayFields
<1> QED
  BY <1>1, TimesAre

\* So is their sum.
LEMMA EntriesNat == ASSUME NEW g \in DecayRecord, NEW i \in Item PROVE EntriesIn(g, i) \in Nat
BY TimesIn DEF EntriesIn

\* It depends on the lists alone.
LEMMA EntriesSame ==
    ASSUME NEW g, NEW h, NEW i, h.toDecay = g.toDecay, h.lists = g.lists
    PROVE  EntriesIn(h, i) = EntriesIn(g, i)
BY DEF EntriesIn

\* One entry more, in the list of new items
LEMMA EntriesPushed ==
    ASSUME NEW g \in DecayRecord, NEW h, NEW i \in Item, NEW j \in Item,
           h.toDecay = <<j>> \o g.toDecay, h.lists = g.lists
    PROVE  EntriesIn(h, i) = IF j = i THEN EntriesIn(g, i) + 1 ELSE EntriesIn(g, i)
<1>1. /\ g.toDecay \in Seq(Item) /\ \A b \in 0 .. 3 : g.lists[b] \in Seq(Item)
      /\ g.lists \in [0 .. 3 -> Seq(Item)]
  BY DecayFields
<1>2. /\ Times(g.toDecay, i) \in Nat /\ Times(g.lists[0], i) \in Nat
      /\ Times(g.lists[1], i) \in Nat /\ Times(g.lists[2], i) \in Nat
      /\ Times(g.lists[3], i) \in Nat
  BY TimesIn
<1>3. PICK t \in Nat, a \in Nat, b \in Nat, c \in Nat, d \in Nat :
        /\ t = Times(g.toDecay, i) /\ a = Times(g.lists[0], i) /\ b = Times(g.lists[1], i)
        /\ c = Times(g.lists[2], i) /\ d = Times(g.lists[3], i)
  BY <1>2
<1>4. EntriesIn(g, i) = t + a + b + c + d
  BY <1>3 DEF EntriesIn
<1>5. Times(h.toDecay, i) = IF j = i THEN t + 1 ELSE t
  <2>1. PICK s \in Seq(Item) : s = g.toDecay
    BY <1>1
  <2>2. Times(<<j>> \o s, i) = IF j = i THEN Times(s, i) + 1 ELSE Times(s, i)
    BY TimesAre
  <2> QED
    BY <1>3, <2>1, <2>2
<1>6. EntriesIn(h, i) = (IF j = i THEN t + 1 ELSE t) + a + b + c + d
  BY <1>3, <1>5 DEF EntriesIn
<1> QED
  BY <1>4, <1>6

\* or in another.
LEMMA EntriesAppended ==
    ASSUME NEW g \in DecayRecord, NEW h, NEW i \in Item, NEW j \in Item, NEW l \in 0 .. 3,
           h.toDecay = g.toDecay, h.lists = [g.lists EXCEPT ![l] = Append(g.lists[l], j)]
    PROVE  EntriesIn(h, i) = IF j = i THEN EntriesIn(g, i) + 1 ELSE EntriesIn(g, i)
<1>1. /\ g.toDecay \in Seq(Item) /\ \A b \in 0 .. 3 : g.lists[b] \in Seq(Item)
      /\ g.lists \in [0 .. 3 -> Seq(Item)]
  BY DecayFields
<1>2. /\ Times(g.toDecay, i) \in Nat /\ Times(g.lists[0], i) \in Nat
      /\ Times(g.lists[1], i) \in Nat /\ Times(g.lists[2], i) \in Nat
      /\ Times(g.lists[3], i) \in Nat
  BY TimesIn
<1>3. PICK t \in Nat, a \in Nat, b \in Nat, c \in Nat, d \in Nat :
        /\ t = Times(g.toDecay, i) /\ a = Times(g.lists[0], i) /\ b = Times(g.lists[1], i)
        /\ c = Times(g.lists[2], i) /\ d = Times(g.lists[3], i)
  BY <1>2
<1>4. EntriesIn(g, i) = t + a + b + c + d
  BY <1>3 DEF EntriesIn
<1>5. Times(Append(g.lists[l], j), i) =
        IF j = i THEN Times(g.lists[l], i) + 1 ELSE Times(g.lists[l], i)
  BY <1>1, TimesAre
<1>6. \A k \in 0 .. 3 : h.lists[k] = IF k = l THEN Append(g.lists[l], j) ELSE g.lists[k]
  BY <1>1
<1>7. \A k \in 0 .. 3 : Times(h.lists[k], i) =
        IF k = l /\ j = i THEN Times(g.lists[k], i) + 1 ELSE Times(g.lists[k], i)
  BY <1>5, <1>6
<1>8. l = 0 \/ l = 1 \/ l = 2 \/ l = 3
  OBVIOUS
<1>9. /\ Times(h.lists[0], i) = IF 0 = l /\ j = i THEN a + 1 ELSE a
      /\ Times(h.lists[1], i) = IF 1 = l /\ j = i THEN b + 1 ELSE b
      /\ Times(h.lists[2], i) = IF 2 = l /\ j = i THEN c + 1 ELSE c
      /\ Times(h.lists[3], i) = IF 3 = l /\ j = i THEN d + 1 ELSE d
  BY <1>3, <1>7
<1>10. EntriesIn(h, i) = t + (IF 0 = l /\ j = i THEN a + 1 ELSE a)
                          + (IF 1 = l /\ j = i THEN b + 1 ELSE b)
                          + (IF 2 = l /\ j = i THEN c + 1 ELSE c)
                          + (IF 3 = l /\ j = i THEN d + 1 ELSE d)
  BY <1>3, <1>9 DEF EntriesIn
<1>11. CASE j # i
  BY <1>4, <1>10, <1>11
<1>12. CASE j = i
  <2>1. CASE l = 0
    BY <1>4, <1>10, <1>12, <2>1
  <2>2. CASE l = 1
    BY <1>4, <1>10, <1>12, <2>2
  <2>3. CASE l = 2
    BY <1>4, <1>10, <1>12, <2>3
  <2>4. CASE l = 3
    BY <1>4, <1>10, <1>12, <2>4
  <2> QED
    BY <1>8, <2>1, <2>2, <2>3, <2>4
<1> QED
  BY <1>11, <1>12

-----------------------------------------------------------------------------
\* Item::setID.
LEMMA SetIDIs ==
    ASSUME NEW g \in DecayRecord, NEW i \in Item, NEW new \in Kinds, NEW h, h = SetID(g, i, new),
           NEW starts, starts = (Kind[new].time > 0
                                 /\ (~Kind[g.kind[i]].stopTime \/ g.duration[i] = 0))
    PROVE  /\ h \in DecayRecord /\ h.last = g.last
           /\ \A j \in Item : j # i => SameItem(g, h, j)
           /\ h.kind[i] = new /\ h.placed[i] = g.placed[i] /\ h.refs[i] = g.refs[i]
           /\ h.releasing[i] = g.releasing[i] /\ EntriesIn(h, i) = EntriesIn(g, i)
           /\ h.decaying[i] = (g.decaying[i] /\ ~starts)
           /\ h.duration[i] = IF starts THEN Kind[new].time ELSE g.duration[i]
<1>1. h = [g EXCEPT !.kind[i] = new,
                    !.decaying[i] = @ /\ ~starts,
                    !.duration[i] = IF starts THEN Kind[new].time ELSE @]
  BY DEF SetID
<1>2. Kind[new].time \in Nat
  BY KindsAre DEF Kinds
<1>3. /\ g.kind \in [Item -> Kinds] /\ g.decaying \in [Item -> BOOLEAN]
      /\ g.duration \in [Item -> Nat]
  BY DecayFields
<1>4. /\ h.kind = [g.kind EXCEPT ![i] = new]
      /\ h.decaying = [g.decaying EXCEPT ![i] = @ /\ ~starts]
      /\ h.duration = [g.duration EXCEPT ![i] = IF starts THEN Kind[new].time ELSE @]
      /\ h.placed = g.placed /\ h.refs = g.refs /\ h.releasing = g.releasing
      /\ h.toDecay = g.toDecay /\ h.lists = g.lists /\ h.last = g.last /\ h.age = g.age
  BY <1>1 DEF DecayRecord
<1>5. /\ [g.kind EXCEPT ![i] = new] \in [Item -> Kinds]
      /\ [g.decaying EXCEPT ![i] = @ /\ ~starts] \in [Item -> BOOLEAN]
      /\ [g.duration EXCEPT ![i] = IF starts THEN Kind[new].time ELSE @] \in [Item -> Nat]
  BY <1>2, <1>3
<1>6. h \in DecayRecord
  BY <1>1, <1>5 DEF DecayRecord
<1>7. \A j \in Item : EntriesIn(h, j) = EntriesIn(g, j)
  BY <1>4, EntriesSame
<1>8. \A j \in Item : j # i => SameItem(g, h, j)
  BY <1>3, <1>4, <1>7 DEF SameItem
<1> QED
  BY <1>3, <1>4, <1>6, <1>7, <1>8

\* Game::startDecay puts what may decay and is not marked on the list.
LEMMA StartDecayIs ==
    ASSUME NEW g \in DecayRecord, NEW i \in Item, NEW h, h = StartDecay(g, i)
    PROVE  /\ h \in DecayRecord /\ h.last = g.last
           /\ \A j \in Item : j # i => SameItem(g, h, j)
           /\ ~CanDecay(g, i) \/ g.decaying[i] => SameItem(g, h, i)
           /\ CanDecay(g, i) /\ ~g.decaying[i] =>
                /\ h.kind[i] = g.kind[i] /\ h.placed[i] = g.placed[i]
                /\ h.duration[i] = g.duration[i] /\ h.releasing[i] = g.releasing[i]
                /\ h.refs[i] = g.refs[i] + 1 /\ h.decaying[i]
                /\ EntriesIn(h, i) = EntriesIn(g, i) + 1
<1>1. CASE ~CanDecay(g, i) \/ g.decaying[i]
  BY <1>1 DEF StartDecay, SameItem
<1>2. CASE CanDecay(g, i) /\ ~g.decaying[i]
  <2>1. h = [g EXCEPT !.refs[i] = @ + 1, !.decaying[i] = TRUE, !.toDecay = <<i>> \o @,
                      !.age[i] = IF @ = Untimed THEN @ ELSE 0]
    BY <1>2 DEF StartDecay
  <2>2. /\ g.refs \in [Item -> Nat] /\ g.decaying \in [Item -> BOOLEAN]
        /\ g.toDecay \in Seq(Item) /\ g.age \in [Item -> Int]
    BY DecayFields
  <2>3. /\ h.refs = [g.refs EXCEPT ![i] = @ + 1] /\ h.decaying = [g.decaying EXCEPT ![i] = TRUE]
        /\ h.toDecay = <<i>> \o g.toDecay
        /\ h.kind = g.kind /\ h.placed = g.placed /\ h.duration = g.duration
        /\ h.releasing = g.releasing /\ h.lists = g.lists /\ h.last = g.last
    BY <2>1 DEF DecayRecord
  <2>4. /\ [g.refs EXCEPT ![i] = @ + 1] \in [Item -> Nat]
        /\ [g.decaying EXCEPT ![i] = TRUE] \in [Item -> BOOLEAN]
        /\ <<i>> \o g.toDecay \in Seq(Item)
        /\ [g.age EXCEPT ![i] = IF @ = Untimed THEN @ ELSE 0] \in [Item -> Int]
    BY <2>2
  <2>5. h \in DecayRecord
    BY <2>1, <2>4 DEF DecayRecord
  <2>6. ASSUME NEW j \in Item
        PROVE  EntriesIn(h, j) = IF i = j THEN EntriesIn(g, j) + 1 ELSE EntriesIn(g, j)
    BY ONLY <2>3, g \in DecayRecord, i \in Item, j \in Item, EntriesPushed
  <2>7. \A j \in Item : j # i => SameItem(g, h, j)
    BY <2>2, <2>3, <2>6 DEF SameItem
  <2> QED
    BY <1>2, <2>2, <2>3, <2>5, <2>6, <2>7
<1> QED
  BY <1>1, <1>2

\* ReleaseItem, alone or with the place of the item.
LEMMA ReleaseIs ==
    ASSUME NEW g \in DecayRecord, NEW i \in Item, NEW h,
           h = ReleaseItem(g, i) \/ h = InternalRemoveItem(g, i)
    PROVE  /\ h \in DecayRecord /\ h.last = g.last
           /\ \A j \in Item : j # i => SameItem(g, h, j)
           /\ h.kind[i] = g.kind[i] /\ h.duration[i] = g.duration[i]
           /\ h.decaying[i] = g.decaying[i] /\ h.refs[i] = g.refs[i]
           /\ h.releasing[i] = g.releasing[i] + 1 /\ EntriesIn(h, i) = EntriesIn(g, i)
           /\ h = ReleaseItem(g, i) => h.placed[i] = g.placed[i]
           /\ h = InternalRemoveItem(g, i) => ~h.placed[i]
<1>1. /\ g.releasing \in [Item -> Nat] /\ g.placed \in [Item -> BOOLEAN]
  BY DecayFields
<1>2. /\ h.releasing = [g.releasing EXCEPT ![i] = @ + 1]
      /\ h = ReleaseItem(g, i) => h.placed = g.placed
      /\ h = InternalRemoveItem(g, i) => h.placed = [g.placed EXCEPT ![i] = FALSE]
      /\ h.refs = g.refs /\ h.decaying = g.decaying /\ h.kind = g.kind
      /\ h.duration = g.duration /\ h.toDecay = g.toDecay /\ h.lists = g.lists /\ h.last = g.last
  BY DEF DecayRecord, ReleaseItem, InternalRemoveItem
<1>3. h \in DecayRecord
  <2>1. /\ [g.releasing EXCEPT ![i] = @ + 1] \in [Item -> Nat]
        /\ [g.placed EXCEPT ![i] = FALSE] \in [Item -> BOOLEAN]
    BY <1>1
  <2> QED
    BY <2>1 DEF DecayRecord, ReleaseItem, InternalRemoveItem
<1>4. \A j \in Item : EntriesIn(h, j) = EntriesIn(g, j)
  BY <1>2, EntriesSame
<1>5. \A j \in Item : j # i => SameItem(g, h, j)
  BY <1>1, <1>2, <1>4 DEF SameItem
<1> QED
  BY <1>1, <1>2, <1>3, <1>4, <1>5

\* Game::internalDecayItem, of an item on no list that the check holds.
LEMMA InternalDecayKeeps ==
    ASSUME NEW g \in DecayRecord, NEW i \in Item, Counts(g, i, 0, 1), EntriesIn(g, i) = 0,
           CanDecay(g, i), NEW h, h = InternalDecayItem(g, i)
    PROVE  /\ h \in DecayRecord /\ h.last = g.last
           /\ \A j \in Item : j # i => SameItem(g, h, j)
           /\ Counts(h, i, 0, 1) /\ Marked(h, i, 0)
<1>1. /\ g.placed[i] /\ Kind[g.kind[i]].decayTo # "-1" /\ g.kind[i] \in KindsOf(i)
      /\ g.refs[i] = 1 + EntriesIn(g, i) + 0 + 1 + g.releasing[i]
  BY DEF CanDecay, Counts
<1>2. g.refs[i] \in Nat /\ g.releasing[i] \in Nat /\ g.placed[i] \in BOOLEAN
      /\ g.duration[i] \in Nat
  BY DecayFields
<1>3. CASE Kind[g.kind[i]].decayTo = "0"
  <2>1. h = InternalRemoveItem(g, i)
    BY <1>3 DEF InternalDecayItem
  <2>2. /\ h \in DecayRecord /\ h.last = g.last
        /\ \A j \in Item : j # i => SameItem(g, h, j)
        /\ h.kind[i] = g.kind[i] /\ h.decaying[i] = g.decaying[i] /\ h.refs[i] = g.refs[i]
        /\ h.releasing[i] = g.releasing[i] + 1 /\ EntriesIn(h, i) = EntriesIn(g, i)
        /\ ~h.placed[i]
    BY <2>1, ReleaseIs
  <2>3. Counts(h, i, 0, 1) /\ Marked(h, i, 0)
    BY <1>1, <1>2, <2>2 DEF Counts, Marked
  <2> QED
    BY <2>2, <2>3
<1>4. CASE Kind[g.kind[i]].decayTo # "0"
  <2>1. g.kind[i] = "corpse"
    BY <1>1, <1>4, KindsAre DEF KindsOf
  <2>2. PICK k : k = SetID(g, i, "bones")
    OBVIOUS
  <2>3. h = StartDecay(k, i)
    BY <1>4, <2>1, <2>2, KindsAre DEF InternalDecayItem
  <2>4. PICK starts : starts = (Kind["bones"].time > 0
                                /\ (~Kind[g.kind[i]].stopTime \/ g.duration[i] = 0))
    OBVIOUS
  <2>5. starts /\ Kind["bones"].time > 0 /\ Kind["bones"].time \in Nat
    <3>1. Kind["bones"].time = BonesTime /\ BonesTime \in Nat \ {0} /\ ~Kind["corpse"].stopTime
      BY KindsAre
    <3>2. Kind["bones"].time > 0 /\ Kind["bones"].time \in Nat
      BY <3>1
    <3>3. starts
      BY ONLY <2>1, <2>4, <3>1, <3>2
    <3> QED
      BY <3>2, <3>3
  <2>6. "bones" \in Kinds
    BY DEF Kinds
  <2>7. /\ k \in DecayRecord /\ k.last = g.last
        /\ \A j \in Item : j # i => SameItem(g, k, j)
        /\ k.kind[i] = "bones" /\ k.placed[i] = g.placed[i] /\ k.refs[i] = g.refs[i]
        /\ k.releasing[i] = g.releasing[i] /\ EntriesIn(k, i) = EntriesIn(g, i)
        /\ k.decaying[i] = (g.decaying[i] /\ ~starts)
        /\ k.duration[i] = IF starts THEN Kind["bones"].time ELSE g.duration[i]
    BY <2>2, <2>4, <2>6, SetIDIs
  <2>8. ~k.decaying[i] /\ k.duration[i] > 0
    BY <2>5, <2>7
  <2>9. CanDecay(k, i)
    BY <1>1, <2>7, KindsAre DEF CanDecay
  <2>10. /\ h \in DecayRecord /\ h.last = k.last
         /\ \A j \in Item : j # i => SameItem(k, h, j)
         /\ h.kind[i] = k.kind[i] /\ h.placed[i] = k.placed[i]
         /\ h.duration[i] = k.duration[i] /\ h.releasing[i] = k.releasing[i]
         /\ h.refs[i] = k.refs[i] + 1 /\ h.decaying[i]
         /\ EntriesIn(h, i) = EntriesIn(k, i) + 1
    BY <2>3, <2>7, <2>8, <2>9, StartDecayIs
  <2>11. "bones" \in KindsOf(i)
    BY <1>1, <2>1 DEF KindsOf
  <2>12. EntriesIn(h, i) = 1 /\ h.placed[i] /\ h.kind[i] = "bones" /\ h.duration[i] > 0
         /\ h.refs[i] = g.refs[i] + 1 /\ h.releasing[i] = g.releasing[i]
    BY <1>1, <2>7, <2>8, <2>10
  <2>13. Counts(h, i, 0, 1) /\ Marked(h, i, 0)
    BY <1>1, <1>2, <2>10, <2>11, <2>12 DEF Counts, Marked
  <2>14. \A j \in Item : j # i => SameItem(g, h, j)
    BY <2>7, <2>10 DEF SameItem
  <2> QED
    BY <2>7, <2>10, <2>13, <2>14
<1> QED
  BY <1>3, <1>4

\* The check lets go of an item.
LEMMA LetGoKeeps ==
    ASSUME NEW g \in DecayRecord, NEW i \in Item, Counts(g, i, 0, 1), Marked(g, i, 0),
           NEW h, h = ReleaseItem(g, i)
    PROVE  /\ h \in DecayRecord /\ h.last = g.last
           /\ \A j \in Item : j # i => SameItem(g, h, j)
           /\ Counts(h, i, 0, 0) /\ Marked(h, i, 0)
<1>1. /\ h \in DecayRecord /\ h.last = g.last
      /\ \A j \in Item : j # i => SameItem(g, h, j)
      /\ h.kind[i] = g.kind[i] /\ h.duration[i] = g.duration[i]
      /\ h.decaying[i] = g.decaying[i] /\ h.refs[i] = g.refs[i]
      /\ h.releasing[i] = g.releasing[i] + 1 /\ EntriesIn(h, i) = EntriesIn(g, i)
      /\ h.placed[i] = g.placed[i]
  BY ReleaseIs
<1>2. EntriesIn(g, i) \in Nat /\ g.releasing[i] \in Nat /\ g.refs[i] \in Nat
  BY EntriesNat, DecayFields
<1>3. Counts(h, i, 0, 0) /\ Marked(h, i, 0)
  BY <1>1, <1>2 DEF Counts, Marked
<1> QED
  BY <1>1, <1>3

\* One turn of the loop of Game::checkDecay: the item leaves the list that is
\* checked, and is counted where it comes to.
LEMMA CheckItemKeeps ==
    ASSUME NEW g \in DecayRecord, NEW i \in Item, NEW bucket \in 0 .. 3, NEW r \in Nat,
           Counts(g, i, r + 1, 0), NEW h, h = CheckItem(g, i, bucket)
    PROVE  /\ h \in DecayRecord /\ h.last = g.last
           /\ \A j \in Item : j # i => SameItem(g, h, j)
           /\ Counts(h, i, r, 0) /\ Marked(h, i, r)
<1>1. EntriesIn(g, i) \in Nat /\ g.releasing[i] \in Nat /\ g.refs[i] \in Nat
      /\ g.duration[i] \in Nat /\ g.placed[i] \in BOOLEAN
  BY EntriesNat, DecayFields
<1>2. /\ EntriesIn(g, i) = 0 /\ r = 0 /\ g.decaying[i] /\ g.duration[i] > 0
      /\ g.kind[i] \in KindsOf(i)
      /\ g.refs[i] = (IF g.placed[i] THEN 1 ELSE 0) + 1 + g.releasing[i]
  <2>1. EntriesIn(g, i) + (r + 1) <= 1
        /\ (EntriesIn(g, i) + (r + 1) = 1 => g.decaying[i] /\ g.duration[i] > 0)
        /\ g.kind[i] \in KindsOf(i)
        /\ g.refs[i] = (IF g.placed[i] THEN 1 ELSE 0) + EntriesIn(g, i) + (r + 1) + 0
                       + g.releasing[i]
    BY DEF Counts
  <2> QED
    BY <1>1, <2>1
<1>3. PICK left \in Int : left = g.duration[i] - 8
  BY <1>1
<1>4. PICK newBucket : newBucket = (bucket + (left + 1) \div 8) % 4
  OBVIOUS
<1>5. newBucket \in 0 .. 3
  BY <1>4
<1>6. PICK v \in Nat : v = IF left > 0 THEN left ELSE 0
  OBVIOUS
<1>7. PICK s : s = [g EXCEPT !.duration[i] = v]
  OBVIOUS
<1>8. /\ s \in DecayRecord /\ s.duration = [g.duration EXCEPT ![i] = v]
      /\ s.kind = g.kind /\ s.placed = g.placed /\ s.decaying = g.decaying
      /\ s.refs = g.refs /\ s.releasing = g.releasing /\ s.toDecay = g.toDecay
      /\ s.lists = g.lists /\ s.last = g.last
  <2>1. [g.duration EXCEPT ![i] = v] \in [Item -> Nat]
    BY DecayFields
  <2> QED
    BY <1>7, <2>1 DEF DecayRecord
<1>9. \A j \in Item : EntriesIn(s, j) = EntriesIn(g, j)
  BY <1>8, EntriesSame
<1>10. s.duration[i] = v /\ \A j \in Item : j # i => SameItem(g, s, j)
  <2>1. g.duration \in [Item -> Nat]
    BY DecayFields
  <2> QED
    BY <1>8, <1>9, <2>1 DEF SameItem
<1>11. h = IF ~CanDecay(g, i) THEN ReleaseItem([g EXCEPT !.decaying[i] = FALSE], i)
           ELSE IF left >= 8 THEN [s EXCEPT !.lists[bucket] = Append(@, i)]
           ELSE IF left <= 0 \/ newBucket = bucket THEN ReleaseItem(InternalDecayItem(s, i), i)
           ELSE [s EXCEPT !.lists[newBucket] = Append(@, i)]
  BY <1>3, <1>4, <1>6, <1>7 DEF CheckItem
<1>12. CASE ~CanDecay(g, i)
  <2>1. PICK k : k = [g EXCEPT !.decaying[i] = FALSE]
    OBVIOUS
  <2>2. /\ k \in DecayRecord /\ k.decaying = [g.decaying EXCEPT ![i] = FALSE]
        /\ k.kind = g.kind /\ k.placed = g.placed /\ k.duration = g.duration
        /\ k.refs = g.refs /\ k.releasing = g.releasing /\ k.toDecay = g.toDecay
        /\ k.lists = g.lists /\ k.last = g.last
    <3>1. [g.decaying EXCEPT ![i] = FALSE] \in [Item -> BOOLEAN]
      BY DecayFields
    <3> QED
      BY <2>1, <3>1 DEF DecayRecord
  <2>3. \A j \in Item : EntriesIn(k, j) = EntriesIn(g, j)
    BY <2>2, EntriesSame
  <2>4. ~k.decaying[i] /\ \A j \in Item : j # i => SameItem(g, k, j)
    <3>1. g.decaying \in [Item -> BOOLEAN]
      BY DecayFields
    <3> QED
      BY <2>2, <2>3, <3>1 DEF SameItem
  <2>5. Counts(k, i, 0, 1) /\ Marked(k, i, 0)
    BY <1>1, <1>2, <2>2, <2>3, <2>4 DEF Counts, Marked
  <2>6. h = ReleaseItem(k, i)
    BY <1>11, <1>12, <2>1
  <2>7. /\ h \in DecayRecord /\ h.last = k.last
        /\ \A j \in Item : j # i => SameItem(k, h, j)
        /\ Counts(h, i, 0, 0) /\ Marked(h, i, 0)
    BY <2>2, <2>5, <2>6, LetGoKeeps
  <2>8. \A j \in Item : j # i => SameItem(g, h, j)
    BY <2>4, <2>7 DEF SameItem
  <2> QED
    BY <1>2, <2>2, <2>7, <2>8
<1> DEFINE Put(b) == h = [s EXCEPT !.lists[b] = Append(@, i)]
<1>13. ASSUME v > 0, NEW b \in 0 .. 3, Put(b)
       PROVE  /\ h \in DecayRecord /\ h.last = g.last
              /\ \A j \in Item : j # i => SameItem(g, h, j)
              /\ Counts(h, i, r, 0) /\ Marked(h, i, r)
  <2>1. s.lists \in [0 .. 3 -> Seq(Item)] /\ s.lists[b] \in Seq(Item)
    BY <1>8, DecayFields
  <2>2. /\ h \in DecayRecord /\ h.lists = [s.lists EXCEPT ![b] = Append(s.lists[b], i)]
        /\ h.kind = s.kind /\ h.placed = s.placed /\ h.duration = s.duration
        /\ h.refs = s.refs /\ h.releasing = s.releasing /\ h.toDecay = s.toDecay
        /\ h.decaying = s.decaying /\ h.last = s.last
    <3>1. [s.lists EXCEPT ![b] = Append(@, i)] \in [0 .. 3 -> Seq(Item)]
      BY <2>1
    <3> QED
      BY <1>8, <1>13, <3>1 DEF DecayRecord
  <2>3. \A j \in Item : EntriesIn(h, j) = IF i = j THEN EntriesIn(s, j) + 1 ELSE EntriesIn(s, j)
    BY <1>8, <2>2, EntriesAppended
  <2>4. \A j \in Item : j # i => SameItem(g, h, j)
    BY <1>10, <2>2, <2>3 DEF SameItem
  <2>5. EntriesIn(h, i) = 1 /\ h.duration[i] > 0
    <3>1. EntriesIn(h, i) = EntriesIn(s, i) + 1 /\ EntriesIn(s, i) = 0
      BY <1>2, <1>9, <2>3
    <3>2. h.duration[i] = v
      BY <1>10, <2>2
    <3> QED
      BY <1>13, <3>1, <3>2
  <2>6. Counts(h, i, 0, 0) /\ Marked(h, i, 0)
    BY <1>1, <1>2, <1>8, <2>2, <2>5 DEF Counts, Marked
  <2> QED
    BY <1>2, <1>8, <2>2, <2>4, <2>6
<1>14. CASE CanDecay(g, i) /\ left >= 8
  <2>1. Put(bucket) /\ v > 0
    BY <1>6, <1>11, <1>14
  <2> HIDE DEF Put
  <2> QED
    BY <1>13, <2>1
<1>15. CASE CanDecay(g, i) /\ ~(left >= 8) /\ ~(left <= 0 \/ newBucket = bucket)
  <2>1. Put(newBucket) /\ v > 0
    BY <1>6, <1>11, <1>15
  <2> HIDE DEF Put
  <2> QED
    BY <1>5, <1>13, <2>1
<1>16. CASE CanDecay(g, i) /\ ~(left >= 8) /\ (left <= 0 \/ newBucket = bucket)
  <2>1. PICK k : k = InternalDecayItem(s, i)
    OBVIOUS
  <2>2. h = ReleaseItem(k, i)
    BY <1>11, <1>16, <2>1
  <2>3. CanDecay(s, i) /\ EntriesIn(s, i) = 0
    BY <1>2, <1>8, <1>9, <1>16 DEF CanDecay
  <2>4. Counts(s, i, 0, 1)
    BY <1>1, <1>2, <1>8, <2>3 DEF Counts
  <2>5. /\ k \in DecayRecord /\ k.last = s.last
        /\ \A j \in Item : j # i => SameItem(s, k, j)
        /\ Counts(k, i, 0, 1) /\ Marked(k, i, 0)
    BY <1>8, <2>1, <2>3, <2>4, InternalDecayKeeps
  <2>6. /\ h \in DecayRecord /\ h.last = k.last
        /\ \A j \in Item : j # i => SameItem(k, h, j)
        /\ Counts(h, i, 0, 0) /\ Marked(h, i, 0)
    BY <2>2, <2>5, LetGoKeeps
  <2>7. \A j \in Item : j # i => SameItem(g, h, j)
    BY <1>10, <2>5, <2>6 DEF SameItem
  <2> QED
    BY <1>2, <1>8, <2>5, <2>6, <2>7
<1> QED
  BY <1>12, <1>14, <1>15, <1>16

-----------------------------------------------------------------------------
\* The loop of Game::checkDecay, over the first m of a list.
LEMMA CheckedExists ==
    ASSUME NEW aged, NEW list, NEW bucket, NEW m \in Nat
    PROVE  \E f : f = [n \in 0..m |-> IF n = 0 THEN aged ELSE CheckItem(f[n - 1], list[n], bucket)]
<1> DEFINE Is(f, n) ==
             f = [k \in 0..n |-> IF k = 0 THEN aged ELSE CheckItem(f[k - 1], list[k], bucket)]
           T == {n \in 0..m : ~\E f : Is(f, n)}
<1> SUFFICES ASSUME T # {} PROVE FALSE
  OBVIOUS
<1>1. PICK n \in T : \A k \in T : n <= k
  <2>1. T \in SUBSET Nat /\ T # {}
    OBVIOUS
  <2> HIDE DEF T
  <2> QED
    BY <2>1, LeastElement
<1>2. CASE n = 0
  <2>1. Is([k \in 0..0 |-> aged], 0)
    OBVIOUS
  <2> QED
    BY <1>1, <1>2, <2>1
<1>3. CASE n # 0
  <2>1. n \in 1..m /\ n - 1 \in 0..m /\ ~(n <= n - 1)
    BY <1>1, <1>3
  <2>2. PICK f : Is(f, n - 1)
    BY <1>1, <2>1
  <2>3. PICK g : g = [k \in 0..n |-> IF k = n THEN CheckItem(f[n - 1], list[n], bucket) ELSE f[k]]
    OBVIOUS
  <2>4. ASSUME NEW k \in 0..n
        PROVE  g[k] = IF k = 0 THEN aged ELSE CheckItem(g[k - 1], list[k], bucket)
    <3>1. k \in 0..(n - 1) \/ k = n
      BY <2>1
    <3>2. CASE k = n
      <4>1. g[k - 1] = f[k - 1] /\ g[k] = CheckItem(f[n - 1], list[n], bucket) /\ k # 0
        BY <2>1, <2>3, <3>2
      <4> QED
        BY <4>1, <3>2
    <3>3. CASE k \in 0..(n - 1) /\ k # 0
      <4>1. g[k] = f[k] /\ g[k - 1] = f[k - 1]
        BY <2>1, <2>3, <3>3
      <4>2. f[k] = CheckItem(f[k - 1], list[k], bucket)
        BY <2>2, <3>3
      <4> QED
        BY <4>1, <4>2, <3>3
    <3>4. CASE k = 0
      <4>1. g[k] = f[k]
        BY <2>1, <2>3, <3>4
      <4>2. f[k] = aged
        BY <2>1, <2>2, <3>4
      <4> QED
        BY <4>1, <4>2, <3>4
    <3> QED
      BY <3>1, <3>2, <3>3, <3>4
  <2>5. Is(g, n)
    <3>1. g = [k \in 0..n |-> g[k]]
      BY <2>3
    <3> QED
      BY <2>4, <3>1
  <2> QED
    BY <1>1, <2>5
<1> QED
  BY <1>2, <1>3

\* Its states, one after each item.
CheckedBy(f, aged, list, bucket) ==
    /\ f[0] = aged
    /\ \A n \in 1..Len(list) : f[n] = CheckItem(f[n - 1], list[n], bucket)

\* The last of them is its result.
LEMMA CheckListIs ==
    ASSUME NEW aged, NEW list \in Seq(Item), NEW bucket
    PROVE  \E f : CheckedBy(f, aged, list, bucket) /\ CheckList(aged, list, bucket) = f[Len(list)]
<1> DEFINE F == CHOOSE f : f = [n \in 0..Len(list) |->
                  IF n = 0 THEN aged ELSE CheckItem(f[n - 1], list[n], bucket)]
<1>1. Len(list) \in Nat
  OBVIOUS
<1>2. F = [n \in 0..Len(list) |-> IF n = 0 THEN aged ELSE CheckItem(F[n - 1], list[n], bucket)]
  BY <1>1, CheckedExists
<1>3. CheckList(aged, list, bucket) = F[Len(list)]
  BY DEF CheckList
<1> HIDE DEF F
<1>4. CheckedBy(F, aged, list, bucket)
  <2>1. F[0] = aged
    BY <1>1, <1>2
  <2>2. ASSUME NEW n \in 1..Len(list) PROVE F[n] = CheckItem(F[n - 1], list[n], bucket)
    BY <1>1, <1>2
  <2> QED
    BY <2>1, <2>2 DEF CheckedBy
<1> QED
  BY <1>3, <1>4

\* What holds while the list is checked, of which `rest' is left.
Checking(g, rest, last) ==
    /\ g \in DecayRecord /\ g.last = last
    /\ \A j \in Item : Counts(g, j, Times(rest, j), 0) /\ Marked(g, j, Times(rest, j))

\* One turn of the loop keeps it,
LEMMA CheckTurnKeeps ==
    ASSUME NEW g, NEW t \in Seq(Item), NEW x \in Item, NEW bucket \in 0..3, NEW last,
           Checking(g, <<x>> \o t, last), NEW h, h = CheckItem(g, x, bucket)
    PROVE  Checking(h, t, last)
<1>1. PICK r \in Nat : r = Times(t, x)
  BY TimesAre
<1>2. g \in DecayRecord /\ g.last = last
  BY DEF Checking
<1>3. Counts(g, x, r + 1, 0)
  <2>1. Times(<<x>> \o t, x) = r + 1
    BY <1>1, TimesAre
  <2> QED
    BY <2>1 DEF Checking
<1>4. /\ h \in DecayRecord /\ h.last = g.last
      /\ \A j \in Item : j # x => SameItem(g, h, j)
      /\ Counts(h, x, r, 0) /\ Marked(h, x, r)
  BY <1>2, <1>3, CheckItemKeeps
<1>5. ASSUME NEW j \in Item, j # x
      PROVE  Counts(h, j, Times(t, j), 0) /\ Marked(h, j, Times(t, j))
  <2>1. Times(<<x>> \o t, j) = Times(t, j)
    BY <1>5, TimesAre
  <2>2. Counts(g, j, Times(t, j), 0) /\ Marked(g, j, Times(t, j))
    BY <2>1 DEF Checking
  <2> QED
    BY <1>4, <1>5, <2>2, SameItemCounts
<1> QED
  BY <1>1, <1>2, <1>4, <1>5 DEF Checking

\* so it holds when nothing is left.
LEMMA CheckLoopKeeps ==
    ASSUME NEW aged, NEW list \in Seq(Item), NEW bucket \in 0..3, NEW last,
           Checking(aged, list, last)
    PROVE  Checking(CheckList(aged, list, bucket), <<>>, last)
<1>1. PICK f : /\ CheckedBy(f, aged, list, bucket)
               /\ CheckList(aged, list, bucket) = f[Len(list)]
  BY CheckListIs
<1> DEFINE B == {s \in Seq(Item) :
                   \E t \in Seq(Item) : list = s \o t /\ ~Checking(f[Len(s)], t, last)}
<1>3. <<>> \notin B
  <2>1. ASSUME NEW t \in Seq(Item), list = <<>> \o t PROVE Checking(f[Len(<<>>)], t, last)
    <3>1. list = t /\ Len(<<>>) = 0
      BY <2>1
    <3>2. f[0] = aged
      BY <1>1 DEF CheckedBy
    <3> QED
      BY <3>1, <3>2
  <2> QED
    BY <2>1
<1>4. ASSUME NEW s \in Seq(Item), NEW x \in Item, Append(s, x) \in B PROVE s \in B
  <2>1. PICK t \in Seq(Item) :
          list = Append(s, x) \o t /\ ~Checking(f[Len(Append(s, x))], t, last)
    BY <1>4
  <2>2. PICK n \in Nat : n = Len(s)
    OBVIOUS
  <2>3. PICK u \in Seq(Item) : u = <<x>> \o t
    <3>1. <<x>> \o t \in Seq(Item)
      OBVIOUS
    <3> QED
      BY <3>1
  <2>4. /\ Len(Append(s, x)) = n + 1 /\ list = s \o u
        /\ n + 1 \in 1..Len(list) /\ list[n + 1] = x
    <3>1. PICK a \in Seq(Item) : a = Append(s, x)
      <4>1. Append(s, x) \in Seq(Item)
        OBVIOUS
      <4> QED
        BY <4>1
    <3>2. Len(a) = n + 1 /\ a[n + 1] = x
      BY <2>2, <3>1
    <3>3. list = a \o t
      BY <2>1, <3>1
    <3>4. list[n + 1] = a[n + 1] /\ Len(list) = (n + 1) + Len(t) /\ Len(t) \in Nat
      <4>1. /\ Len(a \o t) = Len(a) + Len(t) /\ Len(t) \in Nat
            /\ \A k \in 1..Len(a) : (a \o t)[k] = a[k]
        OBVIOUS
      <4>2. n + 1 \in 1..Len(a)
        BY <3>2
      <4> QED
        BY <3>2, <3>3, <4>1, <4>2
    <3>5. list = s \o u
      <4>1. PICK e \in Seq(Item) : e = <<x>>
        <5>1. <<x>> \in Seq(Item)
          OBVIOUS
        <5> QED
          BY <5>1
      <4>2. a = s \o e
        BY <3>1, <4>1
      <4>3. (s \o e) \o t = s \o (e \o t)
        OBVIOUS
      <4> QED
        BY <2>3, <3>3, <4>1, <4>2, <4>3
    <3> QED
      BY <3>1, <3>2, <3>4, <3>5
  <2>5. f[n + 1] = CheckItem(f[n], x, bucket)
    <3>1. n + 1 # 0 /\ (n + 1) - 1 = n
      OBVIOUS
    <3> QED
      BY <1>1, <2>4, <3>1 DEF CheckedBy
  <2>6. ~Checking(f[n + 1], t, last)
    BY <2>1, <2>4
  <2>7. ~Checking(f[n], u, last)
    BY <2>3, <2>5, <2>6, CheckTurnKeeps
  <2> QED
    BY <2>2, <2>4, <2>7
<1>5. B = {}
  <2>1. B \in SUBSET Seq(Item)
    OBVIOUS
  <2> HIDE DEF B
  <2> QED
    BY <1>3, <1>4, <2>1, NoLeastList
<1>6. list = list \o <<>> /\ <<>> \in Seq(Item)
  OBVIOUS
<1> QED
  BY <1>1, <1>5, <1>6

-----------------------------------------------------------------------------
\* Game::cleanup: every new item is put into one of the lists.
LEMMA CleanupKeeps ==
    ASSUME NEW g \in DecayRecord, \A j \in Item : Counts(g, j, 0, 0) /\ Marked(g, j, 0),
           NEW h, h = CleanupItems(g)
    PROVE  /\ h \in DecayRecord /\ h.last = g.last
           /\ \A j \in Item : Counts(h, j, 0, 0) /\ Marked(h, j, 0) /\ h.releasing[j] = 0
<1>1. /\ g.toDecay \in Seq(Item) /\ g.refs \in [Item -> Nat] /\ g.releasing \in [Item -> Nat]
      /\ g.lists \in [0..3 -> Seq(Item)] /\ g.last \in 0..3
      /\ \A b \in 0..3 : g.lists[b] \in Seq(Item)
      /\ g.placed \in [Item -> BOOLEAN] /\ g.duration \in [Item -> Nat]
  BY DecayFields
<1> DEFINE Goes(j) == IF g.duration[j] >= 8 THEN g.last ELSE (g.last + 1) % 4
           To(b) == {j \in Item : b = Goes(j)}
<1>2. \A j \in Item : Goes(j) \in 0..3
  BY <1>1
<1>3. /\ h.refs = [j \in Item |-> g.refs[j] - g.releasing[j]]
      /\ h.releasing = [j \in Item |-> 0] /\ h.toDecay = <<>>
      /\ h.lists = [b \in 0..3 |-> g.lists[b] \o Chosen(g.toDecay, To(b))]
      /\ h.kind = g.kind /\ h.placed = g.placed /\ h.decaying = g.decaying
      /\ h.duration = g.duration /\ h.last = g.last /\ h.age = g.age
  BY DEF CleanupItems, DecayRecord
<1> HIDE DEF To
<1>4. \A b \in 0..3 : Chosen(g.toDecay, To(b)) \in Seq(Item)
  BY <1>1, ChosenIn
<1>5. \A b \in 0..3 : g.lists[b] \o Chosen(g.toDecay, To(b)) \in Seq(Item)
  BY <1>1, <1>4
<1>6. ASSUME NEW j \in Item
      PROVE  /\ EntriesIn(h, j) = EntriesIn(g, j) /\ h.refs[j] \in Nat
             /\ Counts(h, j, 0, 0) /\ Marked(h, j, 0) /\ h.releasing[j] = 0
  <2>1. /\ Times(g.toDecay, j) \in Nat /\ Times(g.lists[0], j) \in Nat
        /\ Times(g.lists[1], j) \in Nat /\ Times(g.lists[2], j) \in Nat
        /\ Times(g.lists[3], j) \in Nat
    BY TimesIn
  <2>2. PICK t \in Nat, a \in Nat, b \in Nat, c \in Nat, d \in Nat :
          /\ t = Times(g.toDecay, j) /\ a = Times(g.lists[0], j) /\ b = Times(g.lists[1], j)
          /\ c = Times(g.lists[2], j) /\ d = Times(g.lists[3], j)
    BY <2>1
  <2>3. EntriesIn(g, j) = t + a + b + c + d
    BY <2>2 DEF EntriesIn
  <2>4. PICK to \in 0..3 : to = Goes(j)
    BY <1>2
  <2>5. ASSUME NEW k \in 0..3
        PROVE  Times(h.lists[k], j) = Times(g.lists[k], j) + (IF k = to THEN t ELSE 0)
    <3>1. PICK p \in Seq(Item), q \in Seq(Item) :
            p = g.lists[k] /\ q = Chosen(g.toDecay, To(k))
      BY <1>1, <1>4
    <3>2. h.lists[k] = p \o q
      BY <1>3, <3>1
    <3>3. Times(p \o q, j) = Times(p, j) + Times(q, j)
      BY TimesSum
    <3>4. Times(q, j) = IF j \in To(k) THEN Times(g.toDecay, j) ELSE 0
      BY <1>1, <3>1, TimesChosen
    <3>5. j \in To(k) <=> k = to
      BY <2>4 DEF To
    <3> QED
      BY <2>2, <3>1, <3>2, <3>3, <3>4, <3>5
  <2>6. Times(h.toDecay, j) = 0
    BY <1>3, TimesNone
  <2>7. /\ Times(h.lists[0], j) = a + (IF 0 = to THEN t ELSE 0)
        /\ Times(h.lists[1], j) = b + (IF 1 = to THEN t ELSE 0)
        /\ Times(h.lists[2], j) = c + (IF 2 = to THEN t ELSE 0)
        /\ Times(h.lists[3], j) = d + (IF 3 = to THEN t ELSE 0)
    BY <2>2, <2>5
  <2>8. EntriesIn(h, j) = 0 + (a + (IF 0 = to THEN t ELSE 0)) + (b + (IF 1 = to THEN t ELSE 0))
                         + (c + (IF 2 = to THEN t ELSE 0)) + (d + (IF 3 = to THEN t ELSE 0))
    BY <2>6, <2>7 DEF EntriesIn
  <2>9. EntriesIn(h, j) = EntriesIn(g, j)
    <3>1. CASE to = 0
      BY <2>3, <2>8, <3>1
    <3>2. CASE to = 1
      BY <2>3, <2>8, <3>2
    <3>3. CASE to = 2
      BY <2>3, <2>8, <3>3
    <3>4. CASE to = 3
      BY <2>3, <2>8, <3>4
    <3>5. to = 0 \/ to = 1 \/ to = 2 \/ to = 3
      OBVIOUS
    <3> QED
      BY <3>1, <3>2, <3>3, <3>4, <3>5
  <2>10. EntriesIn(g, j) \in Nat
    BY EntriesNat
  <2>11. /\ h.refs[j] = g.refs[j] - g.releasing[j] /\ h.releasing[j] = 0
         /\ g.refs[j] \in Nat /\ g.releasing[j] \in Nat /\ g.placed[j] \in BOOLEAN
    BY <1>1, <1>3
  <2>12. g.refs[j] = (IF g.placed[j] THEN 1 ELSE 0) + EntriesIn(g, j) + 0 + 0 + g.releasing[j]
    BY DEF Counts
  <2>13. /\ h.refs[j] = (IF h.placed[j] THEN 1 ELSE 0) + EntriesIn(h, j) + 0 + 0 + h.releasing[j]
         /\ h.refs[j] \in Nat
    BY <1>3, <2>9, <2>10, <2>11, <2>12
  <2>14. Counts(h, j, 0, 0) /\ Marked(h, j, 0)
    BY <1>3, <2>9, <2>13 DEF Counts, Marked
  <2> QED
    BY <2>9, <2>11, <2>13, <2>14
<1>7. h \in DecayRecord
  <2>1. /\ h.refs \in [Item -> Nat] /\ h.releasing \in [Item -> Nat] /\ h.toDecay \in Seq(Item)
        /\ h.lists \in [0..3 -> Seq(Item)]
    <3>1. h.lists \in [0..3 -> Seq(Item)]
      BY <1>3, <1>5
    <3>2. <<>> \in Seq(Item)
      OBVIOUS
    <3> QED
      BY <1>3, <1>6, <3>1, <3>2
  <2>2. h = [kind |-> h.kind, placed |-> h.placed, decaying |-> h.decaying,
             duration |-> h.duration, refs |-> h.refs, toDecay |-> h.toDecay,
             lists |-> h.lists, last |-> h.last, releasing |-> h.releasing, age |-> h.age]
    BY DEF CleanupItems, DecayRecord
  <2>3. /\ h.kind \in [Item -> Kinds] /\ h.placed \in [Item -> BOOLEAN]
        /\ h.decaying \in [Item -> BOOLEAN] /\ h.duration \in [Item -> Nat]
        /\ h.last \in 0..3 /\ h.age \in [Item -> Int]
    BY <1>3, DecayFields
  <2> QED
    BY <2>1, <2>2, <2>3 DEF DecayRecord
<1> QED
  BY <1>3, <1>6, <1>7

\* Whoever is freed leaves nothing behind.
LEMMA CleanKeeps ==
    ASSUME NEW g \in DecayRecord,
           \A j \in Item : Counts(g, j, 0, 0) /\ Marked(g, j, 0) /\ g.releasing[j] = 0,
           NEW h, h = Clean(g)
    PROVE  /\ h \in DecayRecord
           /\ \A j \in Item : Counts(h, j, 0, 0) /\ Marked(h, j, 0) /\ Fresh(h, j)
<1> DEFINE First(j) == IF j \in Rings THEN "ring" ELSE "corpse"
<1>1. /\ g.kind \in [Item -> Kinds] /\ g.decaying \in [Item -> BOOLEAN]
      /\ g.duration \in [Item -> Nat] /\ g.age \in [Item -> Int] /\ g.refs \in [Item -> Nat]
      /\ g.placed \in [Item -> BOOLEAN]
  BY DecayFields
<1>2. /\ h.kind = [j \in Item |-> IF g.refs[j] # 0 THEN g.kind[j] ELSE First(j)]
      /\ h.decaying = [j \in Item |-> g.decaying[j] /\ g.refs[j] # 0]
      /\ h.duration = [j \in Item |-> IF g.refs[j] = 0 THEN 0 ELSE g.duration[j]]
      /\ h.age = [j \in Item |-> IF g.refs[j] = 0 THEN 0 ELSE g.age[j]]
      /\ h.refs = g.refs /\ h.releasing = g.releasing /\ h.placed = g.placed
      /\ h.toDecay = g.toDecay /\ h.lists = g.lists /\ h.last = g.last
  BY DEF Clean, DecayRecord
<1>3. \A j \in Item : First(j) \in Kinds /\ First(j) \in KindsOf(j)
  BY DEF Kinds, KindsOf
<1>4. h \in DecayRecord
  <2>1. /\ h.kind \in [Item -> Kinds] /\ h.decaying \in [Item -> BOOLEAN]
        /\ h.duration \in [Item -> Nat] /\ h.age \in [Item -> Int]
    BY <1>1, <1>2, <1>3
  <2>2. h = [g EXCEPT !.kind = h.kind, !.decaying = h.decaying, !.duration = h.duration,
                      !.age = h.age]
    BY DEF Clean, DecayRecord
  <2> QED
    BY <2>1, <2>2 DEF DecayRecord
<1>5. ASSUME NEW j \in Item PROVE Counts(h, j, 0, 0) /\ Marked(h, j, 0) /\ Fresh(h, j)
  <2>1. EntriesIn(h, j) = EntriesIn(g, j) /\ EntriesIn(g, j) \in Nat
    BY <1>2, EntriesSame, EntriesNat
  <2>2. /\ g.kind[j] \in KindsOf(j) /\ g.releasing[j] = 0
        /\ g.refs[j] = (IF g.placed[j] THEN 1 ELSE 0) + EntriesIn(g, j) + 0 + 0 + 0
        /\ EntriesIn(g, j) + 0 <= 1
        /\ EntriesIn(g, j) + 0 = 1 => g.decaying[j] /\ g.duration[j] > 0
    BY DEF Counts
  <2>3. g.decaying[j] /\ EntriesIn(g, j) + 0 = 0 => ~g.placed[j]
    BY DEF Marked
  <2>4. CASE g.refs[j] = 0
    <3>1. EntriesIn(g, j) = 0 /\ ~g.placed[j]
      BY <2>1, <2>2, <2>4
    <3>2. h.kind[j] = First(j) /\ ~h.decaying[j] /\ h.refs[j] = 0 /\ h.releasing[j] = 0
          /\ ~h.placed[j]
      BY <1>2, <2>2, <2>4, <3>1
    <3> QED
      BY <1>3, <2>1, <3>1, <3>2 DEF Counts, Marked, Fresh
  <2>5. CASE g.refs[j] # 0
    <3>1. SameItem(g, h, j)
      BY <1>1, <1>2, <2>1, <2>5 DEF SameItem
    <3>2. Fresh(g, j)
      BY <2>5 DEF Fresh
    <3> QED
      BY <3>1, <3>2, SameItemCounts
  <2> QED
    BY <2>4, <2>5
<1> QED
  BY <1>4, <1>5

-----------------------------------------------------------------------------
\* The inductive invariant: every item is counted, what is marked is on a list
\* or has lost its place, and an address that nobody holds is as at the start.
Sound(g) ==
    /\ g \in DecayRecord
    /\ \A j \in Item : Counts(g, j, 0, 0) /\ Marked(g, j, 0) /\ Fresh(g, j)

\* A step of one item leaves it true of the others.
LEMMA SoundBut ==
    ASSUME NEW g, NEW h \in DecayRecord, NEW i \in Item, Sound(g),
           \A j \in Item : j # i => SameItem(g, h, j),
           Counts(h, i, 0, 0), Marked(h, i, 0), Fresh(h, i)
    PROVE  Sound(h)
<1>1. ASSUME NEW j \in Item, j # i PROVE Counts(h, j, 0, 0) /\ Marked(h, j, 0) /\ Fresh(h, j)
  BY <1>1, SameItemCounts DEF Sound
<1> QED
  BY <1>1 DEF Sound

\* What it says of an item.
LEMMA SoundIs ==
    ASSUME NEW g, Sound(g), NEW i \in Item
    PROVE  /\ g \in DecayRecord /\ EntriesIn(g, i) \in Nat /\ g.kind[i] \in KindsOf(i)
           /\ g.releasing[i] \in Nat /\ g.refs[i] \in Nat /\ g.duration[i] \in Nat
           /\ g.placed[i] \in BOOLEAN /\ g.decaying[i] \in BOOLEAN
           /\ g.refs[i] = (IF g.placed[i] THEN 1 ELSE 0) + EntriesIn(g, i) + g.releasing[i]
           /\ EntriesIn(g, i) \in {0, 1}
           /\ EntriesIn(g, i) = 1 => g.decaying[i] /\ g.duration[i] > 0
           /\ g.decaying[i] /\ EntriesIn(g, i) = 0 => ~g.placed[i]
           /\ g.refs[i] = 0 =>
                ~g.decaying[i] /\ g.kind[i] = IF i \in Rings THEN "ring" ELSE "corpse"
<1>1. g \in DecayRecord /\ Counts(g, i, 0, 0) /\ Marked(g, i, 0) /\ Fresh(g, i)
  BY DEF Sound
<1>2. /\ EntriesIn(g, i) \in Nat /\ g.releasing[i] \in Nat /\ g.refs[i] \in Nat
      /\ g.duration[i] \in Nat /\ g.placed[i] \in BOOLEAN /\ g.decaying[i] \in BOOLEAN
  BY <1>1, EntriesNat, DecayFields
<1>3. EntriesIn(g, i) + 0 = EntriesIn(g, i)
  BY <1>2
<1> QED
  BY <1>1, <1>2, <1>3 DEF Counts, Marked, Fresh

\* Game::startDecay after an item has been put or transformed: what it needs is
\* that the item is counted, and not marked when it is on no list.
LEMMA StartKeeps ==
    ASSUME NEW g, Sound(g), NEW i \in Item, NEW k \in DecayRecord,
           \A j \in Item : j # i => SameItem(g, k, j),
           Counts(k, i, 0, 0), Marked(k, i, 0), k.refs[i] > 0,
           CanDecay(k, i) => k.duration[i] > 0,
           NEW h, h = StartDecay(k, i)
    PROVE  Sound(h)
<1>1. /\ EntriesIn(k, i) \in Nat /\ k.refs[i] \in Nat /\ k.releasing[i] \in Nat
      /\ k.placed[i] \in BOOLEAN
  BY EntriesNat, DecayFields
<1>2. h \in DecayRecord /\ \A j \in Item : j # i => SameItem(k, h, j)
  BY StartDecayIs
<1>3. \A j \in Item : j # i => SameItem(g, h, j)
  BY <1>2 DEF SameItem
<1>4. CASE ~CanDecay(k, i) \/ k.decaying[i]
  <2>1. SameItem(k, h, i)
    BY <1>4, StartDecayIs
  <2>2. Counts(h, i, 0, 0) /\ Marked(h, i, 0)
    BY <2>1, SameItemCounts
  <2>3. Fresh(h, i)
    BY <1>1, <2>1 DEF SameItem, Fresh
  <2> QED
    BY <1>2, <1>3, <2>2, <2>3, SoundBut
<1>5. CASE CanDecay(k, i) /\ ~k.decaying[i]
  <2>1. /\ h.kind[i] = k.kind[i] /\ h.placed[i] = k.placed[i]
        /\ h.duration[i] = k.duration[i] /\ h.releasing[i] = k.releasing[i]
        /\ h.refs[i] = k.refs[i] + 1 /\ h.decaying[i]
        /\ EntriesIn(h, i) = EntriesIn(k, i) + 1
    BY <1>5, StartDecayIs
  <2>2. /\ k.kind[i] \in KindsOf(i)
        /\ k.refs[i] = (IF k.placed[i] THEN 1 ELSE 0) + EntriesIn(k, i) + 0 + 0 + k.releasing[i]
        /\ EntriesIn(k, i) + 0 <= 1
        /\ EntriesIn(k, i) + 0 = 1 => k.decaying[i] /\ k.duration[i] > 0
    BY DEF Counts
  <2>3. EntriesIn(k, i) = 0 /\ EntriesIn(h, i) = 1
    BY <1>1, <1>5, <2>1, <2>2
  <2>4. Counts(h, i, 0, 0) /\ Marked(h, i, 0) /\ Fresh(h, i)
    BY <1>1, <1>5, <2>1, <2>2, <2>3 DEF Counts, Marked, Fresh
  <2> QED
    BY <1>2, <1>3, <2>4, SoundBut
<1> QED
  BY <1>4, <1>5

\* What a step sets is what is held after it.
LEMMA TurnHolds ==
    ASSUME NEW g \in DecayRecord, Turn(g) PROVE Held' = g
BY DEF Turn, Held, DecayRecord

\* A change of one item's fields that leaves the lists alone.
Adjusted(g, i, p, r, d, l) ==
    [g EXCEPT !.placed = p, !.refs[i] = r, !.duration[i] = d, !.releasing[i] = l]

\* It is a change of that item.
LEMMA LeftAlone ==
    ASSUME NEW g \in DecayRecord, NEW h, NEW i \in Item,
           NEW p \in [Item -> BOOLEAN], \A j \in Item : j # i => p[j] = g.placed[j],
           NEW r \in Nat, NEW d \in Nat, NEW l \in Nat,
           h = Adjusted(g, i, p, r, d, l)
    PROVE  /\ h \in DecayRecord
           /\ \A j \in Item : j # i => SameItem(g, h, j)
           /\ h.placed = p /\ h.refs[i] = r /\ h.duration[i] = d /\ h.releasing[i] = l
           /\ h.kind = g.kind /\ h.decaying = g.decaying /\ EntriesIn(h, i) = EntriesIn(g, i)
<1>1. /\ g.placed \in [Item -> BOOLEAN] /\ g.refs \in [Item -> Nat]
      /\ g.duration \in [Item -> Nat] /\ g.releasing \in [Item -> Nat]
  BY DecayFields
<1>2. /\ h.placed = p /\ h.refs = [g.refs EXCEPT ![i] = r]
      /\ h.duration = [g.duration EXCEPT ![i] = d]
      /\ h.releasing = [g.releasing EXCEPT ![i] = l]
      /\ h.kind = g.kind /\ h.decaying = g.decaying
      /\ h.toDecay = g.toDecay /\ h.lists = g.lists
  BY DEF Adjusted, DecayRecord
<1>3. h \in DecayRecord
  <2>1. /\ [g.refs EXCEPT ![i] = r] \in [Item -> Nat]
        /\ [g.duration EXCEPT ![i] = d] \in [Item -> Nat]
        /\ [g.releasing EXCEPT ![i] = l] \in [Item -> Nat]
    BY <1>1
  <2> QED
    BY <2>1 DEF Adjusted, DecayRecord
<1>4. \A j \in Item : EntriesIn(h, j) = EntriesIn(g, j)
  BY <1>2 DEF EntriesIn
<1>5. \A j \in Item : j # i => SameItem(g, h, j)
  BY <1>1, <1>2, <1>4 DEF SameItem
<1> QED
  BY <1>1, <1>2, <1>3, <1>4, <1>5

\* A corpse is dropped.
LEMMA DropCorpseKeeps ==
    ASSUME NEW i \in Item, Sound(Held), DropCorpse(i) PROVE Sound(Held')
<1>1. PICK g : g = Held
  OBVIOUS
<1>2. /\ Sound(g) /\ g \in DecayRecord /\ EntriesIn(g, i) \in Nat /\ g.releasing[i] \in Nat
      /\ g.refs[i] = (IF g.placed[i] THEN 1 ELSE 0) + EntriesIn(g, i) + g.releasing[i]
      /\ g.refs[i] = 0 => ~g.decaying[i] /\ g.kind[i] = IF i \in Rings THEN "ring" ELSE "corpse"
  BY <1>1, SoundIs
<1>3. i \in Corpses /\ i \notin Rings /\ g.refs[i] = 0
  BY <1>1, DecayAssumption DEF DropCorpse, Held
<1>4. /\ EntriesIn(g, i) = 0 /\ g.releasing[i] = 0 /\ ~g.decaying[i] /\ g.kind[i] = "corpse"
  BY <1>2, <1>3
<1>5. CorpseTime \in Nat /\ CorpseTime > 0
  BY DecayAssumption
<1>6. PICK k : k = [g EXCEPT !.refs[i] = 1, !.placed[i] = TRUE, !.duration[i] = CorpseTime]
  OBVIOUS
<1>7. /\ k \in DecayRecord /\ \A j \in Item : j # i => SameItem(g, k, j)
      /\ k.placed[i] /\ k.refs[i] = 1 /\ k.duration[i] = CorpseTime
      /\ k.releasing[i] = 0 /\ k.kind = g.kind /\ k.decaying = g.decaying
      /\ EntriesIn(k, i) = EntriesIn(g, i)
  <2>1. PICK p \in [Item -> BOOLEAN], one \in Nat, zero \in Nat :
          p = [g.placed EXCEPT ![i] = TRUE] /\ one = 1 /\ zero = 0
    <3>1. g.placed \in [Item -> BOOLEAN]
      BY <1>2, DecayFields
    <3>2. [g.placed EXCEPT ![i] = TRUE] \in [Item -> BOOLEAN]
      BY <3>1
    <3> QED
      BY <3>2
  <2>2. p[i] /\ \A j \in Item : j # i => p[j] = g.placed[j]
    <3>1. g.placed \in [Item -> BOOLEAN]
      BY <1>2, DecayFields
    <3> QED
      BY <2>1, <3>1
  <2>3. PICK d \in Nat : d = CorpseTime
    BY <1>5
  <2>4. k = Adjusted(g, i, p, one, d, zero)
    <3>1. g.releasing = [g.releasing EXCEPT ![i] = 0]
      BY <1>2, <1>4, DecayFields
    <3> QED
      BY <1>2, <1>6, <2>1, <2>3, <3>1 DEF Adjusted, DecayRecord
  <2>5. /\ k \in DecayRecord /\ \A j \in Item : j # i => SameItem(g, k, j)
        /\ k.placed = p /\ k.refs[i] = one /\ k.duration[i] = d /\ k.releasing[i] = zero
        /\ k.kind = g.kind /\ k.decaying = g.decaying /\ EntriesIn(k, i) = EntriesIn(g, i)
    BY <1>2, <2>2, <2>4, <2>3, LeftAlone
  <2> QED
    BY <1>4, <2>2, <2>1, <2>3, <2>5
<1>8. Counts(k, i, 0, 0) /\ Marked(k, i, 0)
  BY <1>3, <1>4, <1>7 DEF Counts, Marked, KindsOf
<1>9. PICK h : h = StartDecay(k, i)
  OBVIOUS
<1>10. Sound(h)
  <2>1. k.refs[i] > 0 /\ k.duration[i] > 0
    BY <1>5, <1>7
  <2> QED
    BY <1>2, <1>7, <1>8, <1>9, <2>1, StartKeeps
<1>11. Held' = h
  <2>1. Turn(h)
    BY <1>1, <1>6, <1>9 DEF DropCorpse
  <2> QED
    BY <1>10, <2>1, TurnHolds DEF Sound
<1> QED
  BY <1>10, <1>11

\* A ring is put somewhere.
LEMMA AddRingKeeps ==
    ASSUME NEW i \in Item, Sound(Held), AddRing(i) PROVE Sound(Held')
<1>1. PICK g : g = Held
  OBVIOUS
<1>2. /\ Sound(g) /\ g \in DecayRecord /\ EntriesIn(g, i) \in Nat /\ g.releasing[i] \in Nat
      /\ g.refs[i] = (IF g.placed[i] THEN 1 ELSE 0) + EntriesIn(g, i) + g.releasing[i]
      /\ g.duration[i] \in Nat
      /\ g.refs[i] = 0 => ~g.decaying[i] /\ g.kind[i] = IF i \in Rings THEN "ring" ELSE "corpse"
  BY <1>1, SoundIs
<1>3. i \in Rings /\ g.refs[i] = 0
  BY <1>1 DEF AddRing, Held
<1>4. EntriesIn(g, i) = 0 /\ g.releasing[i] = 0 /\ ~g.decaying[i] /\ g.kind[i] = "ring"
  BY <1>2, <1>3
<1>5. PICK d \in Nat : d = g.duration[i]
  BY <1>2
<1>6. PICK k : k = [g EXCEPT !.refs[i] = 1, !.placed[i] = TRUE]
  OBVIOUS
<1>7. /\ k \in DecayRecord /\ \A j \in Item : j # i => SameItem(g, k, j)
      /\ k.placed[i] /\ k.refs[i] = 1
      /\ k.releasing[i] = 0 /\ k.kind = g.kind /\ k.decaying = g.decaying
      /\ EntriesIn(k, i) = EntriesIn(g, i)
  <2>1. PICK p \in [Item -> BOOLEAN], one \in Nat, zero \in Nat :
          p = [g.placed EXCEPT ![i] = TRUE] /\ one = 1 /\ zero = 0
    <3>1. g.placed \in [Item -> BOOLEAN]
      BY <1>2, DecayFields
    <3>2. [g.placed EXCEPT ![i] = TRUE] \in [Item -> BOOLEAN]
      BY <3>1
    <3> QED
      BY <3>2
  <2>2. p[i] /\ \A j \in Item : j # i => p[j] = g.placed[j]
    <3>1. g.placed \in [Item -> BOOLEAN]
      BY <1>2, DecayFields
    <3> QED
      BY <2>1, <3>1
  <2>3. k = Adjusted(g, i, p, one, d, zero)
    <3>1. g.releasing = [g.releasing EXCEPT ![i] = 0] /\ g.duration = [g.duration EXCEPT ![i] = d]
      BY <1>2, <1>4, <1>5, DecayFields
    <3> QED
      BY <1>2, <1>6, <2>1, <3>1 DEF Adjusted, DecayRecord
  <2>4. /\ k \in DecayRecord /\ \A j \in Item : j # i => SameItem(g, k, j)
        /\ k.placed = p /\ k.refs[i] = one /\ k.duration[i] = d /\ k.releasing[i] = zero
        /\ k.kind = g.kind /\ k.decaying = g.decaying /\ EntriesIn(k, i) = EntriesIn(g, i)
    BY <1>2, <1>5, <2>2, <2>3, LeftAlone
  <2> QED
    BY <1>4, <2>2, <2>1, <2>4
<1>8. Counts(k, i, 0, 0) /\ Marked(k, i, 0) /\ Fresh(k, i)
  BY <1>3, <1>4, <1>7 DEF Counts, Marked, KindsOf, Fresh
<1>9. Sound(k)
  BY <1>2, <1>7, <1>8, SoundBut
<1>10. Held' = k
  <2>1. Turn(k)
    BY <1>1, <1>6 DEF AddRing
  <2> QED
    BY <1>7, <2>1, TurnHolds
<1> QED
  BY <1>9, <1>10

\* An item is removed.
LEMMA RemoveItemKeeps ==
    ASSUME NEW i \in Item, Sound(Held), RemoveItem(i) PROVE Sound(Held')
<1>1. PICK g : g = Held
  OBVIOUS
<1>2. /\ Sound(g) /\ g \in DecayRecord /\ EntriesIn(g, i) \in Nat /\ g.releasing[i] \in Nat
      /\ g.refs[i] = (IF g.placed[i] THEN 1 ELSE 0) + EntriesIn(g, i) + g.releasing[i]
      /\ g.kind[i] \in KindsOf(i) /\ EntriesIn(g, i) \in {0, 1}
      /\ EntriesIn(g, i) = 1 => g.decaying[i] /\ g.duration[i] > 0
  BY <1>1, SoundIs
<1>3. g.placed[i] /\ g.refs[i] > 0
  <2>1. g.placed[i]
    BY <1>1 DEF RemoveItem, Held
  <2> QED
    BY <1>2, <2>1
<1>4. PICK h : h = InternalRemoveItem(g, i)
  OBVIOUS
<1>5. /\ h \in DecayRecord
      /\ \A j \in Item : j # i => SameItem(g, h, j)
      /\ h.kind[i] = g.kind[i] /\ h.duration[i] = g.duration[i]
      /\ h.decaying[i] = g.decaying[i] /\ h.refs[i] = g.refs[i]
      /\ h.releasing[i] = g.releasing[i] + 1 /\ EntriesIn(h, i) = EntriesIn(g, i)
      /\ ~h.placed[i]
  BY <1>2, <1>4, ReleaseIs
<1>6. Counts(h, i, 0, 0) /\ Marked(h, i, 0) /\ Fresh(h, i)
  BY <1>2, <1>3, <1>5 DEF Counts, Marked, Fresh
<1>7. Sound(h)
  BY <1>2, <1>5, <1>6, SoundBut
<1>8. Held' = h
  <2>1. Turn(h)
    BY <1>1, <1>4 DEF RemoveItem
  <2> QED
    BY <1>5, <2>1, TurnHolds
<1> QED
  BY <1>7, <1>8

\* A ring is put on: one that is still on a list keeps its time.
LEMMA EquipKeeps ==
    ASSUME NEW i \in Item, Sound(Held), Equip(i) PROVE Sound(Held')
<1>1. PICK g : g = Held
  OBVIOUS
<1>2. /\ Sound(g) /\ g \in DecayRecord /\ EntriesIn(g, i) \in Nat /\ g.releasing[i] \in Nat
      /\ g.refs[i] = (IF g.placed[i] THEN 1 ELSE 0) + EntriesIn(g, i) + g.releasing[i]
      /\ g.kind[i] \in KindsOf(i) /\ EntriesIn(g, i) \in {0, 1} /\ g.refs[i] \in Nat
      /\ g.duration[i] \in Nat /\ g.decaying[i] \in BOOLEAN /\ g.placed[i] \in BOOLEAN
      /\ EntriesIn(g, i) = 1 => g.decaying[i] /\ g.duration[i] > 0
      /\ g.decaying[i] /\ EntriesIn(g, i) = 0 => ~g.placed[i]
  BY <1>1, SoundIs
<1>3. g.placed[i] /\ g.kind[i] = "ring"
  BY <1>1 DEF Equip, Held
<1>4. PICK k : k = SetID(g, i, "worn")
  OBVIOUS
<1>5. PICK starts : starts = (Kind["worn"].time > 0
                              /\ (~Kind[g.kind[i]].stopTime \/ g.duration[i] = 0))
  OBVIOUS
<1>6. /\ Kind["worn"].time \in Nat /\ Kind["worn"].time > 0 /\ Kind[g.kind[i]].stopTime
      /\ Kind["worn"].decayTo = "0"
  <2>1. WornTime \in Nat /\ WornTime > 0
    BY DecayAssumption
  <2> QED
    BY <1>3, <2>1, KindsAre
<1>7. starts <=> g.duration[i] = 0
  BY <1>5, <1>6
<1>8. /\ k \in DecayRecord
      /\ \A j \in Item : j # i => SameItem(g, k, j)
      /\ k.kind[i] = "worn" /\ k.placed[i] = g.placed[i] /\ k.refs[i] = g.refs[i]
      /\ k.releasing[i] = g.releasing[i] /\ EntriesIn(k, i) = EntriesIn(g, i)
      /\ k.decaying[i] = (g.decaying[i] /\ ~starts)
      /\ k.duration[i] = IF starts THEN Kind["worn"].time ELSE g.duration[i]
  <2>1. "worn" \in Kinds
    BY DEF Kinds
  <2> QED
    BY <1>2, <1>4, <1>5, <2>1, SetIDIs
<1>9. "worn" \in KindsOf(i)
  BY <1>2, <1>3 DEF KindsOf
<1>10. k.duration[i] > 0 /\ k.refs[i] > 0
  BY <1>2, <1>3, <1>6, <1>7, <1>8
<1>11. EntriesIn(g, i) = 1 => g.decaying[i] /\ ~starts
  BY <1>2, <1>7
<1>12. EntriesIn(g, i) = 0 => ~g.decaying[i]
  BY <1>2, <1>3
<1>13. Counts(k, i, 0, 0)
  BY <1>2, <1>8, <1>9, <1>10, <1>11 DEF Counts
<1>14. Marked(k, i, 0)
  BY <1>2, <1>8, <1>12 DEF Marked
<1>15. PICK h : h = StartDecay(k, i)
  OBVIOUS
<1>16. Sound(h)
  BY <1>2, <1>8, <1>10, <1>13, <1>14, <1>15, StartKeeps
<1>17. Held' = h
  <2>1. Turn(h)
    BY <1>1, <1>4, <1>15 DEF Equip
  <2> QED
    BY <1>16, <2>1, TurnHolds DEF Sound
<1> QED
  BY <1>16, <1>17

\* A ring is taken off: it stays on its list until the list is checked.
LEMMA DeEquipKeeps ==
    ASSUME NEW i \in Item, Sound(Held), DeEquip(i) PROVE Sound(Held')
<1>1. PICK g : g = Held
  OBVIOUS
<1>2. /\ Sound(g) /\ g \in DecayRecord /\ EntriesIn(g, i) \in Nat /\ g.releasing[i] \in Nat
      /\ g.refs[i] = (IF g.placed[i] THEN 1 ELSE 0) + EntriesIn(g, i) + g.releasing[i]
      /\ g.kind[i] \in KindsOf(i) /\ EntriesIn(g, i) \in {0, 1} /\ g.refs[i] \in Nat
      /\ g.duration[i] \in Nat /\ g.decaying[i] \in BOOLEAN /\ g.placed[i] \in BOOLEAN
      /\ EntriesIn(g, i) = 1 => g.decaying[i] /\ g.duration[i] > 0
      /\ g.decaying[i] /\ EntriesIn(g, i) = 0 => ~g.placed[i]
  BY <1>1, SoundIs
<1>3. g.placed[i] /\ g.kind[i] = "worn"
  BY <1>1 DEF DeEquip, Held
<1>4. PICK k : k = SetID(g, i, "ring")
  OBVIOUS
<1>5. PICK starts : starts = (Kind["ring"].time > 0
                              /\ (~Kind[g.kind[i]].stopTime \/ g.duration[i] = 0))
  OBVIOUS
<1>6. Kind["ring"].time = 0 /\ Kind["ring"].decayTo = "-1"
  BY KindsAre
<1>7. ~starts
  <2>1. ~(Kind["ring"].time > 0)
    BY <1>6
  <2> QED
    BY ONLY <1>5, <2>1
<1>8. /\ k \in DecayRecord
      /\ \A j \in Item : j # i => SameItem(g, k, j)
      /\ k.kind[i] = "ring" /\ k.placed[i] = g.placed[i] /\ k.refs[i] = g.refs[i]
      /\ k.releasing[i] = g.releasing[i] /\ EntriesIn(k, i) = EntriesIn(g, i)
      /\ k.decaying[i] = (g.decaying[i] /\ ~starts)
      /\ k.duration[i] = IF starts THEN Kind["ring"].time ELSE g.duration[i]
  <2>1. "ring" \in Kinds
    BY DEF Kinds
  <2> QED
    BY <1>2, <1>4, <1>5, <2>1, SetIDIs
<1>9. PICK h : h = [k EXCEPT !.age[i] = Untimed]
  OBVIOUS
<1>10. /\ h \in DecayRecord /\ h.kind = k.kind /\ h.placed = k.placed /\ h.refs = k.refs
       /\ h.releasing = k.releasing /\ h.decaying = k.decaying /\ h.duration = k.duration
       /\ h.toDecay = k.toDecay /\ h.lists = k.lists
  <2>1. [k.age EXCEPT ![i] = Untimed] \in [Item -> Int]
    BY <1>8, DecayFields DEF Untimed
  <2> QED
    BY <1>8, <1>9, <2>1 DEF DecayRecord
<1>11. \A j \in Item : EntriesIn(h, j) = EntriesIn(k, j)
  BY <1>10 DEF EntriesIn
<1>12. \A j \in Item : j # i => SameItem(g, h, j)
  BY <1>8, <1>10, <1>11 DEF SameItem
<1>13. ~CanDecay(h, i)
  BY <1>6, <1>8, <1>10 DEF CanDecay
<1>14. "ring" \in KindsOf(i)
  BY <1>2, <1>3 DEF KindsOf
<1>15. h.refs[i] > 0
  BY <1>2, <1>3, <1>8, <1>10
<1>16. Counts(h, i, 0, 0) /\ Marked(h, i, 0) /\ Fresh(h, i)
  BY <1>2, <1>7, <1>8, <1>10, <1>11, <1>14, <1>15 DEF Counts, Marked, Fresh
<1>17. Sound(h)
  BY <1>2, <1>10, <1>12, <1>16, SoundBut
<1>18. Held' = h
  <2>1. StartDecay(h, i) = h
    BY <1>13 DEF StartDecay
  <2>2. Turn(h)
    BY <1>1, <1>4, <1>9, <2>1 DEF DeEquip
  <2> QED
    BY <1>10, <2>2, TurnHolds
<1> QED
  BY <1>17, <1>18

\* Game::cleanup, alone.
LEMMA CleanupBetweenKeeps ==
    ASSUME Sound(Held), CleanupBetween PROVE Sound(Held')
<1>1. PICK k : k = CleanupItems(Held)
  OBVIOUS
<1>2. PICK h : h = Clean(k)
  OBVIOUS
<1>3. /\ k \in DecayRecord
      /\ \A j \in Item : Counts(k, j, 0, 0) /\ Marked(k, j, 0) /\ k.releasing[j] = 0
  BY <1>1, CleanupKeeps DEF Sound
<1>4. Sound(h)
  BY <1>2, <1>3, CleanKeeps DEF Sound
<1>5. Held' = h
  <2>1. Turn(h)
    BY <1>1, <1>2 DEF CleanupBetween
  <2> QED
    BY <1>4, <2>1, TurnHolds DEF Sound
<1> QED
  BY <1>4, <1>5

\* The check takes a list: what it held is what is left to check.
LEMMA TakeListKeeps ==
    ASSUME NEW g, Sound(g), NEW bucket \in 0..3, NEW aged, NEW ages \in [Item -> Int],
           aged = [g EXCEPT !.lists[bucket] = <<>>, !.age = ages]
    PROVE  Checking(aged, g.lists[bucket], g.last)
<1>1. g \in DecayRecord
  BY DEF Sound
<1>2. /\ g.lists \in [0..3 -> Seq(Item)] /\ <<>> \in Seq(Item)
      /\ \A b \in 0..3 : g.lists[b] \in Seq(Item)
  BY <1>1, DecayFields
<1>3. /\ aged.lists = [g.lists EXCEPT ![bucket] = <<>>]
      /\ aged.kind = g.kind /\ aged.placed = g.placed /\ aged.decaying = g.decaying
      /\ aged.duration = g.duration /\ aged.refs = g.refs /\ aged.toDecay = g.toDecay
      /\ aged.last = g.last /\ aged.releasing = g.releasing
  BY <1>1 DEF DecayRecord
<1>4. aged \in DecayRecord
  <2>1. [g.lists EXCEPT ![bucket] = <<>>] \in [0..3 -> Seq(Item)]
    BY <1>2
  <2> QED
    BY <1>1, <2>1 DEF DecayRecord
<1>5. ASSUME NEW j \in Item
      PROVE  Counts(aged, j, Times(g.lists[bucket], j), 0)
             /\ Marked(aged, j, Times(g.lists[bucket], j))
  <2>1. /\ Times(g.toDecay, j) \in Nat /\ Times(g.lists[0], j) \in Nat
        /\ Times(g.lists[1], j) \in Nat /\ Times(g.lists[2], j) \in Nat
        /\ Times(g.lists[3], j) \in Nat
    BY <1>1, TimesIn
  <2>2. PICK t \in Nat, a \in Nat, b \in Nat, c \in Nat, d \in Nat :
          /\ t = Times(g.toDecay, j) /\ a = Times(g.lists[0], j) /\ b = Times(g.lists[1], j)
          /\ c = Times(g.lists[2], j) /\ d = Times(g.lists[3], j)
    BY <2>1
  <2>3. EntriesIn(g, j) = t + a + b + c + d
    BY <2>2 DEF EntriesIn
  <2>4. ASSUME NEW k \in 0..3
        PROVE  Times(aged.lists[k], j) = IF k = bucket THEN 0 ELSE Times(g.lists[k], j)
    BY <1>2, <1>3, TimesNone
  <2>5. /\ Times(aged.lists[0], j) = IF 0 = bucket THEN 0 ELSE a
        /\ Times(aged.lists[1], j) = IF 1 = bucket THEN 0 ELSE b
        /\ Times(aged.lists[2], j) = IF 2 = bucket THEN 0 ELSE c
        /\ Times(aged.lists[3], j) = IF 3 = bucket THEN 0 ELSE d
    BY <2>2, <2>4
  <2>6. EntriesIn(aged, j) = t + (IF 0 = bucket THEN 0 ELSE a) + (IF 1 = bucket THEN 0 ELSE b)
                            + (IF 2 = bucket THEN 0 ELSE c) + (IF 3 = bucket THEN 0 ELSE d)
    BY <1>3, <2>2, <2>5 DEF EntriesIn
  <2>7. PICK e \in Nat, f \in Nat, x \in Nat :
          e = EntriesIn(g, j) /\ f = EntriesIn(aged, j) /\ x = Times(g.lists[bucket], j)
    BY <1>1, <1>2, <1>4, EntriesNat, TimesAre
  <2>8. f + x = e
    <3>1. CASE bucket = 0
      BY <2>2, <2>3, <2>6, <2>7, <3>1
    <3>2. CASE bucket = 1
      BY <2>2, <2>3, <2>6, <2>7, <3>2
    <3>3. CASE bucket = 2
      BY <2>2, <2>3, <2>6, <2>7, <3>3
    <3>4. CASE bucket = 3
      BY <2>2, <2>3, <2>6, <2>7, <3>4
    <3>5. bucket = 0 \/ bucket = 1 \/ bucket = 2 \/ bucket = 3
      OBVIOUS
    <3> QED
      BY <3>1, <3>2, <3>3, <3>4, <3>5
  <2>9. /\ g.kind[j] \in KindsOf(j)
        /\ g.refs[j] = (IF g.placed[j] THEN 1 ELSE 0) + e + g.releasing[j]
        /\ e = 1 => g.decaying[j] /\ g.duration[j] > 0
        /\ e \in {0, 1} /\ g.releasing[j] \in Nat
        /\ g.decaying[j] /\ e = 0 => ~g.placed[j]
    BY <2>7, SoundIs
  <2>10. PICK y \in Nat : y = g.releasing[j]
    BY <2>9
  <2>11. /\ Counts(aged, j, x, 0)
         <=> /\ g.kind[j] \in KindsOf(j)
             /\ g.refs[j] = (IF g.placed[j] THEN 1 ELSE 0) + f + x + 0 + y
             /\ f + x <= 1
             /\ f + x = 1 => g.decaying[j] /\ g.duration[j] > 0
    BY <1>3, <2>7, <2>10 DEF Counts
  <2>12. Marked(aged, j, x) <=> (g.decaying[j] /\ f + x = 0 => ~g.placed[j])
    BY <1>3, <2>7 DEF Marked
  <2>13. e <= 1
    BY <2>9
  <2>14. g.refs[j] = (IF g.placed[j] THEN 1 ELSE 0) + f + x + 0 + y
    <3>1. g.refs[j] = (IF g.placed[j] THEN 1 ELSE 0) + e + y
      BY <2>9, <2>10
    <3>2. CASE g.placed[j]
      BY <2>8, <3>1, <3>2
    <3>3. CASE ~g.placed[j]
      BY <2>8, <3>1, <3>3
    <3> QED
      BY <3>2, <3>3
  <2> QED
    BY <2>7, <2>8, <2>9, <2>11, <2>12, <2>13, <2>14
<1> QED
  BY <1>3, <1>4, <1>5 DEF Checking

\* Game::checkDecay, with the cleanup at its end.
LEMMA CheckDecayKeeps ==
    ASSUME Sound(Held), CheckDecay PROVE Sound(Held')
<1>1. PICK g : g = Held
  OBVIOUS
<1>2. /\ Sound(g) /\ g \in DecayRecord /\ g.last \in 0..3 /\ g.age \in [Item -> Int]
      /\ \A b \in 0..3 : g.lists[b] \in Seq(Item)
      /\ g.lists = decayItems /\ g.last = lastBucket /\ g.decaying = decaying /\ g.age = age
  BY <1>1, DecayFields DEF Sound, Held
<1>3. PICK bucket \in 0..3 : bucket = (lastBucket + 1) % 4
  BY <1>2
<1>4. PICK list \in Seq(Item) : list = decayItems[bucket] /\ list = g.lists[bucket]
  BY <1>2
<1>5. PICK ages : ages = [i \in Item |->
        IF g.age[i] = Untimed \/ ~decaying[i] \/ g.age[i] = AgeBound THEN g.age[i]
        ELSE g.age[i] + 1]
  OBVIOUS
<1>6. ages \in [Item -> Int]
  BY <1>2, <1>5
<1>7. PICK aged : aged = [g EXCEPT !.lists[bucket] = <<>>, !.age = ages]
  OBVIOUS
<1>8. PICK k : k = CheckList(aged, list, bucket)
  OBVIOUS
<1>9. Turn(Clean(CleanupItems([k EXCEPT !.last = bucket])))
  <2>1. aged = [Held EXCEPT
                  !.lists[bucket] = <<>>,
                  !.age = [i \in Item |->
                      IF @[i] = Untimed \/ ~decaying[i] \/ @[i] = AgeBound THEN @[i]
                      ELSE @[i] + 1]]
    BY <1>1, <1>5, <1>7
  <2> QED
    BY <1>3, <1>4, <1>8, <2>1 DEF CheckDecay
<1>10. Checking(aged, list, g.last)
  <2>1. Checking(aged, g.lists[bucket], g.last)
    BY <1>2, <1>6, <1>7, TakeListKeeps
  <2> QED
    BY <1>4, <2>1
<1>11. PICK last : last = g.last
  OBVIOUS
<1>12. Checking(k, <<>>, last)
  BY <1>8, <1>10, <1>11, CheckLoopKeeps
<1>13. k \in DecayRecord /\ \A j \in Item : Counts(k, j, 0, 0) /\ Marked(k, j, 0)
  BY <1>12, TimesNone DEF Checking
<1>14. PICK m : m = [k EXCEPT !.last = bucket]
  OBVIOUS
<1>15. /\ m \in DecayRecord /\ m.toDecay = k.toDecay /\ m.lists = k.lists
       /\ m.kind = k.kind /\ m.placed = k.placed /\ m.decaying = k.decaying
       /\ m.duration = k.duration /\ m.refs = k.refs /\ m.releasing = k.releasing
  BY <1>3, <1>13, <1>14 DEF DecayRecord
<1>16. ASSUME NEW j \in Item PROVE Counts(m, j, 0, 0) /\ Marked(m, j, 0)
  <2>1. SameItem(k, m, j)
    BY <1>15 DEF SameItem, EntriesIn
  <2> QED
    BY <1>13, <2>1, SameItemCounts
<1>17. PICK c : c = CleanupItems(m)
  OBVIOUS
<1>18. PICK h : h = Clean(c)
  OBVIOUS
<1>19. /\ c \in DecayRecord
       /\ \A j \in Item : Counts(c, j, 0, 0) /\ Marked(c, j, 0) /\ c.releasing[j] = 0
  BY <1>15, <1>16, <1>17, CleanupKeeps
<1>20. Sound(h)
  BY <1>18, <1>19, CleanKeeps DEF Sound
<1>21. Held' = h
  <2>1. Turn(h)
    BY <1>9, <1>14, <1>17, <1>18
  <2> QED
    BY <1>20, <2>1, TurnHolds DEF Sound
<1> QED
  BY <1>20, <1>21

\* At the start nothing is held.
LEMMA DecayStartSound == DecayInit => Sound(Held)
<1> SUFFICES ASSUME DecayInit PROVE Sound(Held)
  OBVIOUS
<1>1. PICK g : g = Held
  OBVIOUS
<1>2. /\ g.kind = [i \in Item |-> IF i \in Rings THEN "ring" ELSE "corpse"]
      /\ g.placed = [i \in Item |-> FALSE] /\ g.decaying = [i \in Item |-> FALSE]
      /\ g.duration = [i \in Item |-> 0] /\ g.refs = [i \in Item |-> 0]
      /\ g.toDecay = <<>> /\ g.lists = [b \in 0..3 |-> <<>>] /\ g.last = 0
      /\ g.releasing = [i \in Item |-> 0] /\ g.age = [i \in Item |-> 0]
  BY <1>1 DEF DecayInit, Held
<1>3. g \in DecayRecord
  <2>1. /\ g.kind \in [Item -> Kinds] /\ g.placed \in [Item -> BOOLEAN]
        /\ g.decaying \in [Item -> BOOLEAN] /\ g.duration \in [Item -> Nat]
        /\ g.refs \in [Item -> Nat] /\ g.toDecay \in Seq(Item)
        /\ g.lists \in [0..3 -> Seq(Item)] /\ g.last \in 0..3
        /\ g.releasing \in [Item -> Nat] /\ g.age \in [Item -> Int]
    <3>1. <<>> \in Seq(Item)
      OBVIOUS
    <3>2. g.kind \in [Item -> Kinds]
      BY <1>2 DEF Kinds
    <3> QED
      BY <1>2, <3>1, <3>2
  <2>2. g = [kind |-> g.kind, placed |-> g.placed, decaying |-> g.decaying,
             duration |-> g.duration, refs |-> g.refs, toDecay |-> g.toDecay,
             lists |-> g.lists, last |-> g.last, releasing |-> g.releasing, age |-> g.age]
    BY <1>1 DEF Held
  <2> QED
    BY <2>1, <2>2 DEF DecayRecord
<1>4. ASSUME NEW j \in Item PROVE Counts(g, j, 0, 0) /\ Marked(g, j, 0) /\ Fresh(g, j)
  <2>1. /\ Times(g.toDecay, j) = 0 /\ Times(g.lists[0], j) = 0 /\ Times(g.lists[1], j) = 0
        /\ Times(g.lists[2], j) = 0 /\ Times(g.lists[3], j) = 0
    BY <1>2, TimesNone
  <2>2. EntriesIn(g, j) = 0
    BY <2>1 DEF EntriesIn
  <2> QED
    BY <1>2, <2>2 DEF Counts, Marked, Fresh, KindsOf
<1> QED
  BY <1>1, <1>3, <1>4 DEF Sound

\* Every step keeps it.
LEMMA DecayStepSound == Sound(Held) /\ [DecayNext]_decayVars => Sound(Held')
<1> SUFFICES ASSUME Sound(Held), [DecayNext]_decayVars PROVE Sound(Held')
  OBVIOUS
<1>1. CASE CheckDecay
  BY <1>1, CheckDecayKeeps
<1>2. CASE CleanupBetween
  BY <1>2, CleanupBetweenKeeps
<1>3. ASSUME NEW i \in Item, DropCorpse(i) PROVE Sound(Held')
  BY <1>3, DropCorpseKeeps
<1>4. ASSUME NEW i \in Item, AddRing(i) PROVE Sound(Held')
  BY <1>4, AddRingKeeps
<1>5. ASSUME NEW i \in Item, Equip(i) PROVE Sound(Held')
  BY <1>5, EquipKeeps
<1>6. ASSUME NEW i \in Item, DeEquip(i) PROVE Sound(Held')
  BY <1>6, DeEquipKeeps
<1>7. ASSUME NEW i \in Item, RemoveItem(i) PROVE Sound(Held')
  BY <1>7, RemoveItemKeeps
<1>8. CASE UNCHANGED decayVars
  <2>1. Held' = Held
    BY <1>8 DEF decayVars, Held
  <2> QED
    BY <2>1
<1> QED
  BY <1>1, <1>2, <1>3, <1>4, <1>5, <1>6, <1>7, <1>8 DEF DecayNext

\* It is what the property says.
LEMMA SoundIsListed == Sound(Held) => ItemsListed
<1> SUFFICES ASSUME Sound(Held), NEW i \in Item
             PROVE  /\ itemRefs[i] = (IF placed[i] THEN 1 ELSE 0) + Entries(i) + toReleaseItems[i]
                    /\ CanDecay(Held, i) /\ decaying[i] => Entries(i) = 1
                    /\ Entries(i) <= 1
  BY DEF ItemsListed, ItemsCounted, DecayingIsListed
<1>1. PICK g : g = Held
  OBVIOUS
<1>2. /\ g.refs[i] = (IF g.placed[i] THEN 1 ELSE 0) + EntriesIn(g, i) + g.releasing[i]
      /\ EntriesIn(g, i) \in {0, 1}
      /\ g.decaying[i] /\ EntriesIn(g, i) = 0 => ~g.placed[i]
  BY <1>1, SoundIs
<1>3. /\ g.refs = itemRefs /\ g.placed = placed /\ g.releasing = toReleaseItems
      /\ g.decaying = decaying /\ g.toDecay = toDecayItems /\ g.lists = decayItems
  BY <1>1 DEF Held
<1>4. EntriesIn(g, i) = Entries(i)
  BY <1>3 DEF EntriesIn, Entries
<1>5. CanDecay(Held, i) => placed[i]
  BY DEF CanDecay, Held
<1> QED
  BY <1>2, <1>3, <1>4, <1>5

\* What decays is held once by exactly one list, and every item is counted by
\* whoever holds it, for any items and times (Game::startDecay, checkDecay,
\* cleanup): no list holds an item that has been freed.
THEOREM DecayingStaysListed == DecaySpec => []ItemsListed
<1>1. DecayInit => Sound(Held)
  BY DecayStartSound
<1>2. Sound(Held) /\ [DecayNext]_decayVars => Sound(Held)'
  BY DecayStepSound DEF Sound
<1>3. Sound(Held) => ItemsListed
  BY SoundIsListed
<1> QED
  BY <1>1, <1>2, <1>3, PTL DEF DecaySpec

=============================================================================
