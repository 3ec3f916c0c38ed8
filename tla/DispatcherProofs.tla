-------------------------- MODULE DispatcherProofs --------------------------
(***************************************************************************)
(* No wake-up of the dispatcher is lost, a server that came up leaves no   *)
(* accepted task behind, and its list is the queue that TaskQueue promises *)
(* to the threads, for every set of threads and tasks.                     *)
(* Then what its tasks do to the creatures, which they check, remove and   *)
(* free, for every set of them.                                            *)
(***************************************************************************)
EXTENDS Dispatcher, Creatures, Facts

AllTasks == Tasks \cup {Terminate}

-----------------------------------------------------------------------------
\* The type invariant, its last two conjuncts in the words of the lemmas above.
TypeInv ==
    /\ taskState \in {"running", "closing", "terminated"}
    /\ taskList \in Seq(AllTasks)
    /\ dispatcher \in {"check", "lock", "asleep", "woken", "run", "ended"}
    /\ running \in Tasks \cup {Terminate, NoTask}
    /\ signalling \subseteq Threads \cup {Self}
    /\ fate \in [AllTasks -> {"new", "queued", "deleted", "run", "expired"}]
    /\ online \in BOOLEAN
    /\ dispatcher = "run" <=> running # NoTask
    /\ NoDuplicate(taskList)
    /\ \A t \in AllTasks : fate[t] = "queued" <=> In(t, taskList)

\* It is the type invariant.
LEMMA TypeWords == TypeOK <=> TypeInv
  BY DEF TypeOK, TypeInv, AllTasks, NoDuplicate, In

\* The type invariant holds in every step.
LEMMA TypeStep == TypeInv /\ [Next]_vars => TypeInv'
<1> SUFFICES ASSUME TypeInv, [Next]_vars PROVE TypeInv'
  OBVIOUS
<1>t. /\ taskState \in {"running", "closing", "terminated"}
      /\ taskList \in Seq(AllTasks)
      /\ dispatcher \in {"check", "lock", "asleep", "woken", "run", "ended"}
      /\ running \in Tasks \cup {Terminate, NoTask}
      /\ signalling \subseteq Threads \cup {Self}
      /\ fate \in [AllTasks -> {"new", "queued", "deleted", "run", "expired"}]
      /\ online \in BOOLEAN
      /\ dispatcher = "run" <=> running # NoTask
      /\ NoDuplicate(taskList)
      /\ \A t \in AllTasks : fate[t] = "queued" <=> In(t, taskList)
  BY DEF TypeInv
<1>a. Terminate \notin Tasks /\ NoTask \notin AllTasks /\ Tasks \subseteq AllTasks
      /\ Terminate \in AllTasks /\ Timed \subseteq AllTasks
  BY DispatcherAssumption DEF AllTasks, Tasks
<1>1. ASSUME NEW th \in Threads \cup {Self}, NEW t \in Tasks, AddTask(th, t)
      PROVE  TypeInv'
  <2>1. CASE taskState = "running"
    <3>1. ~In(t, taskList) /\ t \in AllTasks
      BY <1>1, <1>t, <1>a DEF AddTask
    <3>2. /\ Pushed(t) \in Seq(AllTasks) /\ NoDuplicate(Pushed(t))
          /\ \A u : In(u, Pushed(t)) <=> u = t \/ In(u, taskList)
      BY <3>1, <1>t, PushFront, PushBack DEF Pushed
    <3>3. taskList' = Pushed(t) /\ fate' = [fate EXCEPT ![t] = "queued"]
          /\ signalling' = Signal(th, t)
          /\ UNCHANGED <<taskState, dispatcher, running, online>>
      BY <1>1, <2>1 DEF AddTask
    <3>4. Signal(th, t) \subseteq Threads \cup {Self}
      BY <1>t DEF Signal
    <3>5. \A u \in AllTasks : fate'[u] = "queued" <=> In(u, Pushed(t))
      BY <3>1, <3>2, <3>3, <1>t
    <3> QED
      BY <1>t, <3>1, <3>2, <3>3, <3>4, <3>5 DEF TypeInv
  <2>2. CASE taskState # "running"
    <3>1. fate' = [fate EXCEPT ![t] = "deleted"] /\ fate[t] = "new" /\ t \in AllTasks
          /\ UNCHANGED <<taskList, signalling, taskState, dispatcher, running, online>>
      BY <1>1, <1>a, <2>2 DEF AddTask
    <3>2. \A u \in AllTasks : fate'[u] = "queued" <=> In(u, taskList)
      BY <3>1, <1>t
    <3> QED
      BY <1>t, <3>1, <3>2 DEF TypeInv
  <2> QED
    BY <2>1, <2>2
<1>2. ASSUME NEW th \in Threads \cup {Self}, Notify(th)
      PROVE  TypeInv'
  BY <1>2, <1>t DEF Notify, Woken, TypeInv
<1>3. CASE CheckState
  BY <1>3, <1>t DEF CheckState, TypeInv
<1>4. CASE Sleep
  BY <1>4, <1>t DEF Sleep, TypeInv
<1>5. CASE FindNothing
  BY <1>5, <1>t DEF FindNothing, TypeInv
<1>6. CASE TakeTask
  <2> DEFINE h == Head(taskList)
  <2>1. taskList # <<>> /\ dispatcher \in {"lock", "woken"}
        /\ taskList' = Tail(taskList)
        /\ UNCHANGED <<taskState, signalling, online>>
    BY <1>6 DEF TakeTask, WithoutFront
  <2>2. /\ Tail(taskList) \in Seq(AllTasks) /\ h \in AllTasks
        /\ NoDuplicate(Tail(taskList))
        /\ \A u : In(u, Tail(taskList)) <=> In(u, taskList) /\ u # h
    BY <2>1, <1>t, TakeFront
  <2>3. \/ dispatcher' = "run" /\ running' = h /\ fate' = [fate EXCEPT ![h] = "run"]
        \/ dispatcher' = "check" /\ running' = running
           /\ fate' = [fate EXCEPT ![h] = "expired"]
    BY <1>6 DEF TakeTask
  <2> HIDE DEF h
  <2>4. fate' \in [AllTasks -> {"new", "queued", "deleted", "run", "expired"}]
        /\ \A u \in AllTasks : fate'[u] = "queued" <=> In(u, Tail(taskList))
    BY <2>2, <2>3, <1>t
  <2>5. h # NoTask /\ h \in Tasks \cup {Terminate, NoTask}
    BY <2>2, <1>a DEF AllTasks
  <2> QED
    BY <1>t, <2>1, <2>2, <2>3, <2>4, <2>5 DEF TypeInv
<1>7. CASE Return
  BY <1>7, <1>t DEF Return, TypeInv
<1>8. CASE Stop
  BY <1>8, <1>t DEF Stop, TypeInv
<1>9. ASSUME NEW th \in {Self, Starter}, Shutdown(th)
      PROVE  TypeInv'
  <2>1. /\ fate[Terminate] = "new" /\ fate' = [fate EXCEPT ![Terminate] = "queued"]
        /\ taskList' = Append(taskList, Terminate) /\ dispatcher' = Woken
        /\ UNCHANGED <<taskState, running, signalling, online>>
    BY <1>9 DEF Shutdown, PushTerminate
  <2>2. ~In(Terminate, taskList)
    BY <2>1, <1>t, <1>a
  <2>3. /\ taskList' \in Seq(AllTasks) /\ NoDuplicate(taskList')
        /\ \A u : In(u, taskList') <=> u = Terminate \/ In(u, taskList)
    BY <2>1, <2>2, <1>t, <1>a, PushBack
  <2>4. \A u \in AllTasks : fate'[u] = "queued" <=> In(u, taskList')
    BY <2>1, <2>3, <1>t, <1>a
  <2>5. dispatcher' \in {"check", "lock", "asleep", "woken", "run", "ended"}
        /\ (dispatcher' = "run" <=> running' # NoTask)
    BY <2>1, <1>t DEF Woken
  <2> QED
    BY <1>t, <1>a, <2>1, <2>3, <2>4, <2>5 DEF TypeInv
<1>10. CASE SpuriousWakeUp
  BY <1>10, <1>t DEF SpuriousWakeUp, TypeInv
<1>11. CASE UNCHANGED vars
  BY <1>11, <1>t DEF vars, TypeInv
<1> QED
  BY <1>1, <1>2, <1>3, <1>4, <1>5, <1>6, <1>7, <1>8, <1>9, <1>10, <1>11
     DEF Next, ThreadMain, Ended

\* The type invariant, and in particular that the list holds each accepted
\* task once, in every reachable state.
THEOREM TypeCorrect == Spec => []TypeOK
<1>1. Init => TypeInv
  BY DispatcherAssumption DEF Init, TypeInv, AllTasks, Tasks, NoDuplicate, In
<1>2. TypeInv /\ [Next]_vars => TypeInv'
  BY TypeStep
<1>3. TypeInv => TypeOK
  BY TypeWords
<1> QED
  BY <1>1, <1>2, <1>3, PTL DEF Spec

-----------------------------------------------------------------------------
\* No wake-up is lost: the dispatcher never sleeps beside a list with tasks
\* unless a notification is still under way.  The property is inductive: the
\* push into an empty list, which alone announces itself, is the only step
\* that can make the list of a sleeping thread non-empty.
THEOREM NoLostWakeUp == Spec => []NeverSleepsOnWork
<1>1. Init => NeverSleepsOnWork
  BY DEF Init, NeverSleepsOnWork
<1>2. NeverSleepsOnWork /\ [Next]_vars => NeverSleepsOnWork'
  <2> SUFFICES ASSUME NeverSleepsOnWork, [Next]_vars, dispatcher' = "asleep",
                      taskList' # <<>>
               PROVE  signalling' # {}
    BY DEF NeverSleepsOnWork
  <2>1. ASSUME NEW th \in Threads \cup {Self}, NEW t \in Tasks, AddTask(th, t)
        PROVE  signalling' # {}
    <3>1. CASE taskList = <<>> /\ taskState = "running"
      BY <2>1, <3>1 DEF AddTask, Signal
    <3>2. CASE ~(taskList = <<>> /\ taskState = "running")
      BY <2>1, <3>2 DEF AddTask, Signal, NeverSleepsOnWork
    <3> QED
      BY <3>1, <3>2
  <2>2. ASSUME NEW th \in Threads \cup {Self}, Notify(th)
        PROVE  FALSE
    BY <2>2 DEF Notify, Woken
  <2>3. CASE Sleep
    BY <2>3 DEF Sleep
  <2>4. ASSUME NEW th \in {Self, Starter}, Shutdown(th)
        PROVE  FALSE
    BY <2>4 DEF Shutdown, PushTerminate, Woken
  <2>5. CASE CheckState \/ FindNothing \/ TakeTask \/ Return \/ SpuriousWakeUp
    BY <2>5 DEF CheckState, FindNothing, TakeTask, Return, SpuriousWakeUp
  <2>6. CASE Stop \/ UNCHANGED vars
    BY <2>6 DEF Stop, vars, NeverSleepsOnWork
  <2> QED
    BY <2>1, <2>2, <2>3, <2>4, <2>5, <2>6 DEF Next, ThreadMain, Ended
<1> QED
  BY <1>1, <1>2, PTL DEF Spec

-----------------------------------------------------------------------------
\* While GameShutdown waits in a list that is still open, the task that queued
\* it runs; once it has run the list is closed.
StopsBeforeShutdown ==
    online =>
        /\ fate[GameShutdown] = "queued" /\ taskState = "running"
           => dispatcher = "run" /\ running # GameShutdown
        /\ fate[GameShutdown] = "run" => taskState # "running"

\* Terminate comes into a closed list, as its last task, and nothing is left
\* when it runs; only Terminate ends the thread.
TerminateIsLast ==
    /\ running # NoTask => fate[running] = "run"
    /\ taskState = "terminated" \/ dispatcher = "ended"
         => fate[Terminate] = "run"
    /\ online =>
        /\ fate[Terminate] # "new" => taskState # "running"
        /\ fate[Terminate] = "queued" => taskList[Len(taskList)] = Terminate
        /\ fate[Terminate] = "run" => taskList = <<>>

IInv == TypeInv /\ StopsBeforeShutdown /\ TerminateIsLast

\* Whoever calls addTask, both parts stay true.
LEMMA AddTaskKeeps ==
    ASSUME IInv, NEW th \in Threads \cup {Self}, NEW t \in Tasks, AddTask(th, t)
    PROVE  StopsBeforeShutdown' /\ TerminateIsLast'
<1>a. /\ Terminate \notin Tasks /\ NoTask \notin AllTasks /\ t \in AllTasks
      /\ Terminate \in AllTasks /\ GameShutdown \in AllTasks
      /\ fate \in [AllTasks -> {"new", "queued", "deleted", "run", "expired"}]
      /\ running \in AllTasks \cup {NoTask} /\ fate[t] = "new"
      /\ dispatcher = "run" <=> running # NoTask
  BY DispatcherAssumption DEF AllTasks, Tasks, IInv, TypeInv, AddTask
<1>b. /\ UNCHANGED <<taskState, dispatcher, running, online>>
      /\ t = GameShutdown => dispatcher = "run"
  BY DEF AddTask, MayAdd
<1>c. \A u \in AllTasks : u # t => fate'[u] = fate[u]
  BY <1>a DEF AddTask
<1>d. fate'[t] \in {"queued", "deleted"} /\ (fate'[t] = "queued" => taskState = "running")
  BY <1>a DEF AddTask
<1>e. taskState # "running" => taskList' = taskList
  BY DEF AddTask
<1>f. running # NoTask => running # t
  BY <1>a DEF IInv, TerminateIsLast
<1>1. StopsBeforeShutdown'
  BY <1>a, <1>b, <1>c, <1>d, <1>f DEF IInv, StopsBeforeShutdown
<1>2. TerminateIsLast'
  <2>1. running' # NoTask => fate'[running'] = "run"
    BY <1>a, <1>b, <1>c, <1>f DEF IInv, TerminateIsLast
  <2>2. fate'[Terminate] = fate[Terminate]
    BY <1>a, <1>c
  <2>3. online => (fate[Terminate] # "new" => taskList' = taskList)
    BY <1>e DEF IInv, TerminateIsLast
  <2> QED
    BY <1>b, <2>1, <2>2, <2>3 DEF IInv, TerminateIsLast
<1> QED
  BY <1>1, <1>2

\* The task at the front leaves the list.
LEMMA TakeTaskKeeps ==
    ASSUME IInv, TakeTask
    PROVE  StopsBeforeShutdown' /\ TerminateIsLast'
<1> DEFINE h == Head(taskList)
<1>a. /\ Terminate \notin Tasks /\ NoTask \notin AllTasks
      /\ Terminate \in AllTasks /\ GameShutdown \in AllTasks
      /\ GameShutdown # Terminate /\ GameShutdown \notin Timed /\ Terminate \notin Timed
      /\ fate \in [AllTasks -> {"new", "queued", "deleted", "run", "expired"}]
      /\ running \in AllTasks \cup {NoTask}
      /\ dispatcher = "run" <=> running # NoTask
  BY DispatcherAssumption DEF AllTasks, Tasks, IInv, TypeInv
<1>b. /\ dispatcher \in {"lock", "woken"} /\ taskList # <<>>
      /\ taskList' = Tail(taskList) /\ UNCHANGED <<taskState, online>>
  BY DEF TakeTask, WithoutFront
<1>c. /\ h \in AllTasks /\ fate[h] = "queued"
      /\ Tail(taskList) # <<>> =>
           Tail(taskList)[Len(Tail(taskList))] = taskList[Len(taskList)]
      /\ h = taskList[Len(taskList)] => Tail(taskList) = <<>>
      /\ \A u : In(u, Tail(taskList)) => u # h
      /\ \A u \in AllTasks : fate[u] = "queued" => In(u, taskList)
      /\ \A u \in AllTasks : In(u, taskList) /\ u # h => In(u, Tail(taskList))
  BY <1>b, TakeFront DEF IInv, TypeInv
<1>d. \/ dispatcher' = "run" /\ running' = h /\ fate' = [fate EXCEPT ![h] = "run"]
      \/ /\ dispatcher' = "check" /\ running' = running
         /\ h \in Timed /\ fate' = [fate EXCEPT ![h] = "expired"]
  BY DEF TakeTask
<1>t. In(Terminate, Tail(taskList)) => Tail(taskList) # <<>>
  BY DEF In
<1> HIDE DEF h
<1>e. dispatcher # "run" /\ dispatcher # "ended" /\ running = NoTask
  BY <1>a, <1>b
<1>1. StopsBeforeShutdown'
  BY <1>a, <1>b, <1>c, <1>d, <1>e DEF IInv, StopsBeforeShutdown
<1>2. TerminateIsLast'
  <2>1. running' # NoTask => fate'[running'] = "run"
    BY <1>a, <1>c, <1>d, <1>e
  <2>2. CASE h = Terminate
    BY <1>a, <1>b, <1>c, <1>d, <1>e, <2>1, <2>2 DEF IInv, TerminateIsLast
  <2>3. CASE h # Terminate
    <3>1. fate'[Terminate] = fate[Terminate] /\ dispatcher' # "ended"
      BY <1>a, <1>c, <1>d, <2>3
    <3>2. fate[Terminate] = "queued" => Tail(taskList) # <<>>
      BY <1>a, <1>c, <1>t, <2>3
    <3>3. online /\ fate[Terminate] = "run" => FALSE
      BY <1>b DEF IInv, TerminateIsLast
    <3> QED
      BY <1>b, <1>c, <2>1, <3>1, <3>2, <3>3 DEF IInv, TerminateIsLast
  <2> QED
    BY <2>2, <2>3
<1> QED
  BY <1>1, <1>2

\* Dispatcher::shutdown is called in a closed list, or of a server that never
\* came up.
LEMMA ShutdownKeeps ==
    ASSUME IInv, NEW th \in {Self, Starter}, Shutdown(th)
    PROVE  StopsBeforeShutdown' /\ TerminateIsLast'
<1>a. /\ Terminate \notin Tasks /\ NoTask \notin AllTasks
      /\ Terminate \in AllTasks /\ GameShutdown \in AllTasks
      /\ GameShutdown # Terminate /\ GameShutdown # NoTask
      /\ fate \in [AllTasks -> {"new", "queued", "deleted", "run", "expired"}]
      /\ running \in AllTasks \cup {NoTask} /\ taskList \in Seq(AllTasks)
      /\ Self # Starter
  BY DispatcherAssumption DEF AllTasks, Tasks, IInv, TypeInv
<1>b. /\ fate[Terminate] = "new" /\ fate' = [fate EXCEPT ![Terminate] = "queued"]
      /\ taskList' = Append(taskList, Terminate) /\ dispatcher' = Woken
      /\ UNCHANGED <<taskState, running, online>>
      /\ online => running = GameShutdown
  BY DEF Shutdown, PushTerminate
<1>c. Append(taskList, Terminate)[Len(Append(taskList, Terminate))] = Terminate
  BY <1>a
<1>d. online => taskState # "running"
  BY <1>a, <1>b DEF IInv, StopsBeforeShutdown, TerminateIsLast
<1>e. running # NoTask => running # Terminate
  BY <1>b DEF IInv, TerminateIsLast
<1>f. taskState # "terminated" /\ dispatcher' # "ended"
  BY <1>b DEF IInv, TerminateIsLast, Woken
<1>1. StopsBeforeShutdown'
  BY <1>a, <1>b, <1>d DEF IInv, StopsBeforeShutdown
<1>2. TerminateIsLast'
  BY <1>a, <1>b, <1>c, <1>d, <1>e, <1>f DEF IInv, TerminateIsLast
<1> QED
  BY <1>1, <1>2

\* The strengthened invariant is inductive.
LEMMA Inductive == IInv /\ [Next]_vars => IInv'
<1> SUFFICES ASSUME IInv, [Next]_vars PROVE IInv'
  OBVIOUS
<1>0. TypeInv'
  BY TypeStep DEF IInv
<1> SUFFICES StopsBeforeShutdown' /\ TerminateIsLast'
  BY <1>0 DEF IInv
<1>a. /\ Terminate \in AllTasks /\ GameShutdown \in AllTasks /\ NoTask \notin AllTasks
      /\ dispatcher = "run" <=> running # NoTask
  BY DispatcherAssumption DEF AllTasks, Tasks, IInv, TypeInv
<1>1. ASSUME NEW th \in Threads \cup {Self}, NEW t \in Tasks, AddTask(th, t)
      PROVE  StopsBeforeShutdown' /\ TerminateIsLast'
  BY <1>1, AddTaskKeeps
<1>2. ASSUME NEW th \in Threads \cup {Self}, Notify(th)
      PROVE  StopsBeforeShutdown' /\ TerminateIsLast'
  BY <1>2, <1>a DEF Notify, Woken, IInv, StopsBeforeShutdown, TerminateIsLast
<1>3. CASE CheckState \/ Sleep \/ FindNothing \/ SpuriousWakeUp
  BY <1>3, <1>a DEF CheckState, Sleep, FindNothing, SpuriousWakeUp, IInv,
     StopsBeforeShutdown, TerminateIsLast
<1>4. CASE TakeTask
  BY <1>4, TakeTaskKeeps
<1>5. CASE Return
  <2>1. /\ UNCHANGED <<taskList, fate, online>> /\ running' = NoTask
        /\ dispatcher' = "check" /\ running # NoTask
        /\ taskState' = IF running = Terminate THEN "terminated" ELSE taskState
        /\ ~(fate[GameShutdown] = "queued" /\ taskState = "running")
    BY <1>5, <1>a DEF Return, Closing
  <2>2. running = Terminate => fate[Terminate] = "run"
    BY <2>1 DEF IInv, TerminateIsLast
  <2>3. StopsBeforeShutdown'
    BY <2>1 DEF IInv, StopsBeforeShutdown
  <2>4. TerminateIsLast'
    BY <2>1, <2>2 DEF IInv, TerminateIsLast
  <2> QED
    BY <2>3, <2>4
<1>6. CASE Stop
  BY <1>6 DEF Stop, IInv, StopsBeforeShutdown, TerminateIsLast
<1>7. ASSUME NEW th \in {Self, Starter}, Shutdown(th)
      PROVE  StopsBeforeShutdown' /\ TerminateIsLast'
  BY <1>7, ShutdownKeeps
<1>8. CASE UNCHANGED vars
  BY <1>8 DEF vars, IInv, StopsBeforeShutdown, TerminateIsLast
<1> QED
  BY <1>1, <1>2, <1>3, <1>4, <1>5, <1>6, <1>7, <1>8 DEF Next, ThreadMain, Ended

\* A server that came up has run or dropped every accepted task when its
\* dispatcher ends: setGameState closes the list before Game::shutdown runs,
\* and Dispatcher::shutdown pushes behind everything accepted.
THEOREM NothingLeft == Spec => []NothingLeftBehind
<1>1. Init => IInv
  BY DispatcherAssumption DEF Init, IInv, TypeInv, StopsBeforeShutdown,
     TerminateIsLast, AllTasks, Tasks, NoDuplicate, In
<1>2. IInv /\ [Next]_vars => IInv'
  BY Inductive
<1>3. IInv => NothingLeftBehind
  <2>1. IInv /\ dispatcher = "ended" /\ online => taskList = <<>>
    BY DEF IInv, TerminateIsLast
  <2> QED
    BY <2>1 DEF IInv, TypeInv, NothingLeftBehind, AllTasks, In
<1> QED
  BY <1>1, <1>2, <1>3, PTL DEF Spec

\* No accepted task waits for a wake-up that will not come, nor for a thread
\* that has ended.
THEOREM NothingWaitsTheorem == Spec => []NothingWaits
BY NoLostWakeUp, NothingLeft, PTL DEF NothingWaits

-----------------------------------------------------------------------------
Later == Messages \cup {Terminate}

\* The list is the urgent tasks before all others.
Lanes == TwoLanesOf(taskList, Events, Later)

\* The thread that has run Terminate does nothing but end.
EndsAtOnce == taskState = "terminated" => dispatcher \in {"check", "ended"}

LanesInv == TypeInv /\ Lanes /\ EndsAtOnce

\* The two lanes hold all tasks, and no task twice.
LEMMA LanesApart == Events \cap Later = {} /\ AllTasks = Events \cup Later
  BY DispatcherAssumption DEF Later, AllTasks, Tasks

\* A task of either kind is accepted.
LEMMA AddTaskAccepts ==
    ASSUME LanesInv, NEW th \in Threads \cup {Self}, NEW t \in Tasks, AddTask(th, t)
    PROVE  Lanes' /\ EndsAtOnce' /\ [Queue!TQNext]_(Queue!lanes)
<1>1. taskList \in Seq(AllTasks) /\ t \in AllTasks /\ TwoLanesOf(taskList, Events, Later)
  BY DEF LanesInv, TypeInv, Lanes, AllTasks
<1>2. /\ t \in Events => /\ Chosen(<<t>> \o taskList, Events) = <<t>> \o Chosen(taskList, Events)
                         /\ Chosen(<<t>> \o taskList, Later) = Chosen(taskList, Later)
                         /\ TwoLanesOf(<<t>> \o taskList, Events, Later)
      /\ t \in Later => /\ Chosen(Append(taskList, t), Events) = Chosen(taskList, Events)
                        /\ Chosen(Append(taskList, t), Later) = Append(Chosen(taskList, Later), t)
                        /\ TwoLanesOf(Append(taskList, t), Events, Later)
  BY <1>1, LanesApart, LanesPushedFront, LanesPushedBack
<1>3. EndsAtOnce' /\ taskState' = taskState
  BY DEF LanesInv, EndsAtOnce, AddTask
<1>4. CASE taskState = "running" /\ t \in Events
  <2>1. taskList' = <<t>> \o taskList
    BY <1>4 DEF AddTask, Pushed, IsUrgent
  <2>2. Lanes'
    BY <1>2, <1>4, <2>1 DEF Lanes
  <2>3. Queue!AcceptUrgent(t)
    BY <1>2, <1>3, <1>4, <2>1 DEF Queue!AcceptUrgent, Later
  <2> QED
    BY <1>3, <1>4, <2>2, <2>3 DEF Queue!TQNext
<1>5. CASE taskState = "running" /\ t \notin Events
  <2>1. taskList' = Append(taskList, t) /\ t \in Later
    BY <1>5 DEF AddTask, Pushed, IsUrgent, Tasks, Later
  <2>2. Lanes'
    BY <1>2, <2>1 DEF Lanes
  <2>3. Queue!AcceptOrdinary(t)
    BY <1>2, <1>3, <2>1 DEF Queue!AcceptOrdinary, Later
  <2> QED
    BY <1>3, <2>1, <2>2, <2>3 DEF Queue!TQNext, Later
<1>6. CASE taskState # "running"
  <2>1. taskList' = taskList
    BY <1>6 DEF AddTask
  <2> QED
    BY <1>1, <1>3, <2>1 DEF Lanes, Queue!lanes
<1> QED
  BY <1>4, <1>5, <1>6

\* Dispatcher::shutdown accepts Terminate into the lane behind.
LEMMA ShutdownAccepts ==
    ASSUME LanesInv, NEW th \in {Self, Starter}, Shutdown(th)
    PROVE  Lanes' /\ EndsAtOnce' /\ Queue!TQNext
<1>1. taskList \in Seq(AllTasks) /\ Terminate \in AllTasks
      /\ TwoLanesOf(taskList, Events, Later)
  BY DEF LanesInv, TypeInv, Lanes, AllTasks
<1>2. /\ taskList' = Append(taskList, Terminate) /\ dispatcher' = Woken
      /\ taskState' = taskState /\ Terminate \in Later
  BY DEF Shutdown, PushTerminate, Later
<1>3. /\ Chosen(Append(taskList, Terminate), Events) = Chosen(taskList, Events)
      /\ Chosen(Append(taskList, Terminate), Later) = Append(Chosen(taskList, Later), Terminate)
      /\ TwoLanesOf(Append(taskList, Terminate), Events, Later)
  BY <1>1, <1>2, LanesApart, LanesPushedBack
<1>4. Lanes'
  BY <1>2, <1>3 DEF Lanes
<1>5. EndsAtOnce'
  BY <1>2 DEF LanesInv, EndsAtOnce, Woken
<1>6. Queue!AcceptOrdinary(Terminate)
  BY <1>2, <1>3 DEF Queue!AcceptOrdinary, Later
<1> QED
  BY <1>2, <1>4, <1>5, <1>6 DEF Queue!TQNext, Later

\* The thread takes from the urgent lane, and if that is empty from the other.
LEMMA TakeTaskTakes ==
    ASSUME LanesInv, TakeTask
    PROVE  Lanes' /\ EndsAtOnce' /\ Queue!TQNext
<1>1. taskList \in Seq(AllTasks) /\ TwoLanesOf(taskList, Events, Later)
  BY DEF LanesInv, TypeInv, Lanes
<1>2. /\ taskList # <<>> /\ taskList' = Tail(taskList) /\ taskState' = taskState
      /\ dispatcher \in {"lock", "woken"}
  BY DEF TakeTask, WithoutFront
<1>3. AllTasks \subseteq Events \cup Later /\ Events \cap Later = {}
  BY LanesApart
<1>4. /\ TwoLanesOf(Tail(taskList), Events, Later)
      /\ Head(taskList) \in Events =>
           /\ Chosen(taskList, Events) # <<>>
           /\ Chosen(Tail(taskList), Events) = Tail(Chosen(taskList, Events))
           /\ Chosen(Tail(taskList), Later) = Chosen(taskList, Later)
      /\ Head(taskList) \notin Events =>
           /\ Chosen(taskList, Events) = <<>> /\ Chosen(taskList, Later) # <<>>
           /\ Chosen(Tail(taskList), Events) = Chosen(taskList, Events)
           /\ Chosen(Tail(taskList), Later) = Tail(Chosen(taskList, Later))
  BY <1>1, <1>2, <1>3, LanesTaken
<1>5. taskState # "terminated"
  BY <1>2 DEF LanesInv, EndsAtOnce
<1>6. Lanes' /\ EndsAtOnce'
  BY <1>2, <1>4, <1>5 DEF Lanes, EndsAtOnce
<1>7. CASE Head(taskList) \in Events
  <2>1. Queue!TakeUrgent
    BY <1>2, <1>4, <1>5, <1>7 DEF Queue!TakeUrgent, Later
  <2> QED
    BY <1>6, <2>1 DEF Queue!TQNext, Queue!Take
<1>8. CASE Head(taskList) \notin Events
  <2>1. Queue!TakeOrdinary
    BY <1>2, <1>4, <1>5, <1>8 DEF Queue!TakeOrdinary, Later
  <2> QED
    BY <1>6, <2>1 DEF Queue!TQNext, Queue!Take
<1> QED
  BY <1>7, <1>8

\* Every step of the program is a step of the abstract queue, or none.
LEMMA StepServes ==
    ASSUME LanesInv, [Next]_vars PROVE Lanes' /\ EndsAtOnce' /\ [Queue!TQNext]_(Queue!lanes)
<1>1. ASSUME NEW th \in Threads \cup {Self}, NEW t \in Tasks, AddTask(th, t)
      PROVE  Lanes' /\ EndsAtOnce' /\ [Queue!TQNext]_(Queue!lanes)
  BY <1>1, AddTaskAccepts
<1>2. ASSUME taskList' = taskList, taskState' = taskState, EndsAtOnce'
      PROVE  Lanes' /\ EndsAtOnce' /\ [Queue!TQNext]_(Queue!lanes)
  BY <1>2 DEF LanesInv, Lanes, Queue!lanes
<1>3. ASSUME NEW th \in Threads \cup {Self}, Notify(th)
      PROVE  Lanes' /\ EndsAtOnce' /\ [Queue!TQNext]_(Queue!lanes)
  <2>1. taskList' = taskList /\ taskState' = taskState /\ EndsAtOnce'
    BY <1>3 DEF Notify, Woken, LanesInv, EndsAtOnce
  <2> QED
    BY <1>2, <2>1
<1>4. CASE CheckState \/ Sleep \/ FindNothing \/ SpuriousWakeUp
  <2>1. taskList' = taskList /\ taskState' = taskState /\ EndsAtOnce'
    BY <1>4 DEF CheckState, Sleep, FindNothing, SpuriousWakeUp, LanesInv, EndsAtOnce
  <2> QED
    BY <1>2, <2>1
<1>5. CASE TakeTask
  BY <1>5, TakeTaskTakes
<1>6. CASE Return
  <2>1. /\ taskList' = taskList /\ taskState # "terminated" /\ EndsAtOnce'
        /\ taskState' \in {taskState, "terminated"}
    BY <1>6 DEF Return, LanesInv, EndsAtOnce
  <2>2. CASE taskState' = taskState
    BY <1>2, <2>1, <2>2
  <2>3. CASE taskState' = "terminated"
    <3>1. Queue!StopServing
      BY <2>1, <2>3 DEF Queue!StopServing
    <3> QED
      BY <2>1, <3>1 DEF LanesInv, Lanes, Queue!TQNext
  <2> QED
    BY <2>1, <2>2, <2>3
<1>7. CASE Stop
  <2>1. taskList' = taskList /\ taskState = "running" /\ taskState' = "closing"
    BY <1>7 DEF Stop, Closing
  <2> QED
    BY <2>1 DEF LanesInv, Lanes, EndsAtOnce, Queue!lanes
<1>8. ASSUME NEW th \in {Self, Starter}, Shutdown(th)
      PROVE  Lanes' /\ EndsAtOnce' /\ [Queue!TQNext]_(Queue!lanes)
  BY <1>8, ShutdownAccepts
<1>9. CASE UNCHANGED vars
  <2>1. taskList' = taskList /\ taskState' = taskState /\ EndsAtOnce'
    BY <1>9 DEF vars, LanesInv, EndsAtOnce
  <2> QED
    BY <1>2, <2>1
<1> QED
  BY <1>1, <1>3, <1>4, <1>5, <1>6, <1>7, <1>8, <1>9 DEF Next, ThreadMain, Ended

\* The dispatcher's list implements the task queue that the threads are
\* promised: it is the two lanes, and each critical section accepts a task
\* into one of them, takes one from the right one, or leaves them alone.
THEOREM LanesServed == Spec => Queue!TQInit /\ [][Queue!TQNext]_(Queue!lanes)
<1>1. Init => Queue!TQInit /\ LanesInv
  <2> SUFFICES ASSUME Init PROVE Queue!TQInit /\ LanesInv
    OBVIOUS
  <2>1. taskList = <<>> /\ taskState = "running"
    BY DEF Init
  <2>2. TypeInv
    BY DispatcherAssumption DEF Init, TypeInv, AllTasks, Tasks, NoDuplicate, In
  <2>3. Chosen(<<>>, Events) = <<>> /\ Chosen(<<>>, Later) = <<>>
    BY ChosenEmpty
  <2>4. Queue!TQInit
    BY <2>1, <2>3 DEF Queue!TQInit, Later
  <2>5. Lanes
    BY <2>1, <2>3 DEF Lanes, TwoLanesOf
  <2> QED
    BY <2>1, <2>2, <2>4, <2>5 DEF LanesInv, EndsAtOnce
<1>2. LanesInv /\ [Next]_vars => LanesInv' /\ [Queue!TQNext]_(Queue!lanes)
  <2> SUFFICES ASSUME LanesInv, [Next]_vars
               PROVE  LanesInv' /\ [Queue!TQNext]_(Queue!lanes)
    OBVIOUS
  <2>1. TypeInv'
    BY TypeStep DEF LanesInv
  <2>2. Lanes' /\ EndsAtOnce' /\ [Queue!TQNext]_(Queue!lanes)
    BY StepServes
  <2> QED
    BY <2>1, <2>2 DEF LanesInv
<1> QED
  BY <1>1, <1>2, PTL DEF Spec

-----------------------------------------------------------------------------
(***************************************************************************)
(* The records the handlers work on, and what they keep true of them       *)
(* between any two steps of a handler.  k has the references a handler     *)
(* still has to let go of, and N a creature whose summons it is sending    *)
(* away, or is empty.                                                      *)
(***************************************************************************)
Records ==
    [refs : [Creature -> Int], world : SUBSET Creature, alive : SUBSET Creature,
     listed : SUBSET Creature, checked : SUBSET Creature,
     master : [Creature -> Creature \cup {Nobody}], summons : [Creature -> SUBSET Creature],
     spawned : SUBSET (Nat \X Creature), ofSpawn : SUBSET Creature, event : BOOLEAN,
     releasing : [Creature -> Int]]

OfSpawn(g) == {e[2] : e \in g.spawned}

\* Each reference has one who holds it, or is about to be let go of: the game,
\* the list of checks, a master and the spawn hold it once or not at all.
CountedOf(g, k, c) ==
    /\ k[c] \in Nat /\ g.releasing[c] \in Nat
    /\ \E w, x, y, z \in {0, 1} :
          /\ w = 1 <=> c \in g.world
          /\ x = 1 <=> c \in g.listed
          /\ y = 1 <=> g.master[c] # Nobody
          /\ z = 1 <=> c \in OfSpawn(g)
          /\ g.refs[c] = w + x + y + z + g.releasing[c] + k[c]

Counted(g, k) == \A c \in Creature : CountedOf(g, k, c)

\* A master and its summons know each other, neither of them is freed, and a
\* summon has no summons and no spawn.
Related(g, N) ==
    /\ \A x \in Creature \ N : g.summons[x] = {c \in Creature : g.master[c] = x}
    /\ \A c \in Creature : g.master[c] # Nobody =>
          /\ c \in Monsters /\ g.master[c] # c /\ g.refs[g.master[c]] > 0
          /\ g.master[c] \notin N => g.master[g.master[c]] = Nobody
          /\ c \notin N => c \notin g.ofSpawn
          /\ c \notin g.world => g.master[c] \notin g.world

\* Those who are looked after are in the game, and so are the dead.
LookedAfter(g) ==
    /\ g.alive \subseteq g.world /\ g.checked \subseteq g.listed
    /\ g.checked \subseteq g.world /\ g.world \ g.alive \subseteq g.checked

\* The spawn and its monsters know each other; it has each of them once; a
\* check is due if one was removed.
SpawnKnows(g) ==
    /\ OfSpawn(g) \subseteq g.ofSpawn /\ g.ofSpawn \cap g.world \subseteq OfSpawn(g)
    /\ \A c \in g.ofSpawn : g.refs[c] > 0
    /\ \A d, e \in g.spawned : d[2] = e[2] => d = e
    /\ ~g.event => OfSpawn(g) \subseteq g.world

Orderly(g, k, N) ==
    g \in Records /\ Counted(g, k) /\ Related(g, N) /\ LookedAfter(g) /\ SpawnKnows(g)

NothingOwed == [c \in Creature |-> 0]

\* A place that is announced is empty, and announced once, and one that is not
\* has one monster; but for the crowded.
PlacesKnown(S, A, C) ==
    /\ A \in [Places -> Nat] /\ C \subseteq Places
    /\ \A id \in Blockable : A[id] = 0
    /\ \A d, e \in S : d[1] = e[1] /\ d[1] # 0 /\ d[1] \notin C => d = e
    /\ \A id \in Places \ C : A[id] = 0 \/ (A[id] = 1 /\ \A e \in S : e[1] # id)

CreaturesInv ==
    /\ Orderly(Live, NothingOwed, {})
    /\ PlacesKnown(Live.spawned, appearing, crowded)

-----------------------------------------------------------------------------
\* The fields that an operation on a record leaves alone.
SameSpawn(g, r) == r.spawned = g.spawned /\ r.event = g.event
SameLists(g, r) ==
    r.world = g.world /\ r.alive = g.alive /\ r.listed = g.listed /\ r.checked = g.checked

\* Letting go of a creature, and of its summons if nobody else holds it.
Decremented(g, c, r) ==
    /\ r \in Records /\ SameLists(g, r) /\ SameSpawn(g, r) /\ r.releasing = g.releasing
    /\ \A d \in Creature :
          /\ r.refs[d] = g.refs[d] - (IF d = c \/ (g.refs[c] = 1 /\ d \in g.summons[c])
                                      THEN 1 ELSE 0)
          /\ r.master[d] = IF g.refs[c] = 1 /\ (d = c \/ d \in g.summons[c])
                           THEN Nobody ELSE g.master[d]
          /\ r.summons[d] = IF d = c /\ g.refs[c] = 1 THEN {} ELSE g.summons[d]
    /\ r.ofSpawn = IF g.refs[c] = 1 THEN g.ofSpawn \ {c} ELSE g.ofSpawn

\* It does.
LEMMA DecrementIs ==
    ASSUME NEW g \in Records, NEW c \in Creature, NEW r, r = Decrement(g, c)
    PROVE  Decremented(g, c, r)
<1>1. CASE g.refs[c] = 1
  <2>1. r = [g EXCEPT
            !.refs = [d \in Creature |->
                       g.refs[d] - (IF d = c \/ d \in g.summons[c] THEN 1 ELSE 0)],
            !.master = [d \in Creature |->
                IF d \in g.summons[c] \/ d = c THEN Nobody ELSE g.master[d]],
            !.summons[c] = {},
            !.ofSpawn = g.ofSpawn \ {c}]
    BY <1>1 DEF Decrement, Records
  <2>2. /\ r.refs = [d \in Creature |->
                        g.refs[d] - (IF d = c \/ d \in g.summons[c] THEN 1 ELSE 0)]
        /\ r.master = [d \in Creature |->
                          IF d \in g.summons[c] \/ d = c THEN Nobody ELSE g.master[d]]
        /\ r.summons = [g.summons EXCEPT ![c] = {}] /\ r.ofSpawn = g.ofSpawn \ {c}
        /\ SameLists(g, r) /\ SameSpawn(g, r) /\ r.releasing = g.releasing
    BY <2>1 DEF Records, SameLists, SameSpawn
  <2>3. /\ r.refs \in [Creature -> Int] /\ r.master \in [Creature -> Creature \cup {Nobody}]
        /\ r.summons \in [Creature -> SUBSET Creature] /\ r.ofSpawn \in SUBSET Creature
    BY <2>2 DEF Records
  <2>4. r \in Records
    BY <2>1, <2>3 DEF Records
  <2>5. \A d \in Creature : r.summons[d] = IF d = c THEN {} ELSE g.summons[d]
    BY <2>2 DEF Records
  <2> QED
    BY <1>1, <2>2, <2>4, <2>5 DEF Decremented
<1>2. CASE g.refs[c] # 1
  <2>1. r = [g EXCEPT
            !.refs = [d \in Creature |-> g.refs[d] - (IF d = c THEN 1 ELSE 0)]]
    BY <1>2 DEF Decrement, Records
  <2> QED
    BY <1>2, <2>1 DEF Decremented, Records, SameLists, SameSpawn
<1> QED
  BY <1>1, <1>2

\* A check of a creature.
CheckAdded(g, c, r) ==
    /\ r \in Records /\ SameSpawn(g, r) /\ r.releasing = g.releasing
    /\ r.world = g.world /\ r.alive = g.alive /\ r.master = g.master
    /\ r.summons = g.summons /\ r.ofSpawn = g.ofSpawn
    /\ r.checked = g.checked \cup {c} /\ r.listed = g.listed \cup {c}
    /\ \A d \in Creature :
          r.refs[d] = g.refs[d] + (IF d = c /\ c \notin g.listed THEN 1 ELSE 0)

\* It is in the list, which holds it once.
LEMMA AddCheckIs ==
    ASSUME NEW g \in Records, NEW c \in Creature, NEW r, r = AddCreatureCheck(g, c)
    PROVE  CheckAdded(g, c, r)
<1>1. CASE c \in g.listed
  BY <1>1 DEF CheckAdded, AddCreatureCheck, Records, SameSpawn
<1>2. CASE c \notin g.listed
  <2>1. r = [g EXCEPT !.checked = g.checked \cup {c}, !.listed = g.listed \cup {c},
                      !.refs = [g.refs EXCEPT ![c] = g.refs[c] + 1]]
    BY <1>2 DEF AddCreatureCheck, Records
  <2>2. /\ r.refs = [g.refs EXCEPT ![c] = g.refs[c] + 1] /\ r.refs \in [Creature -> Int]
        /\ g.checked \cup {c} \in SUBSET Creature /\ g.listed \cup {c} \in SUBSET Creature
    BY <2>1 DEF Records
  <2>3. r \in Records
    BY <2>1, <2>2 DEF Records
  <2>4. \A d \in Creature : r.refs[d] = g.refs[d] + (IF d = c THEN 1 ELSE 0)
    BY <2>2 DEF Records
  <2> QED
    BY <1>2, <2>1, <2>3, <2>4 DEF CheckAdded, Records, SameSpawn
<1> QED
  BY <1>1, <1>2


-----------------------------------------------------------------------------
\* Whoever holds a creature counts.
LEMMA AtLeast ==
    ASSUME NEW g, NEW k, Counted(g, k), NEW c \in Creature
    PROVE  /\ g.refs[c] \in Nat /\ g.refs[c] >= k[c] + g.releasing[c]
           /\ c \in g.world \/ c \in g.listed \/ g.master[c] # Nobody \/ c \in OfSpawn(g)
                => g.refs[c] > k[c] + g.releasing[c]
  BY DEF Counted, CountedOf

\* A reference that is to be let go of is, and what is held goes on as before.
LEMMA DecrementSound ==
    ASSUME NEW g, NEW k, NEW N \in SUBSET Creature, Orderly(g, k, N),
           NEW c \in Creature \ N, k[c] > 0, NEW l,
           \A d \in Creature : l[d] = IF d = c THEN k[d] - 1 ELSE k[d],
           \A n \in N : g.master[n] # c,
           NEW r, r = Decrement(g, c)
    PROVE  Orderly(r, l, N)
<1>1. g \in Records /\ Counted(g, k) /\ Related(g, N) /\ LookedAfter(g) /\ SpawnKnows(g)
  BY DEF Orderly
<1> c \in Creature
  OBVIOUS
<1>2. /\ r \in Records /\ SameLists(g, r) /\ SameSpawn(g, r) /\ r.releasing = g.releasing
      /\ \A d \in Creature :
            /\ r.refs[d] = g.refs[d] - (IF d = c \/ (g.refs[c] = 1 /\ d \in g.summons[c])
                                        THEN 1 ELSE 0)
            /\ r.master[d] = IF g.refs[c] = 1 /\ (d = c \/ d \in g.summons[c])
                             THEN Nobody ELSE g.master[d]
            /\ r.summons[d] = IF d = c /\ g.refs[c] = 1 THEN {} ELSE g.summons[d]
      /\ r.ofSpawn = IF g.refs[c] = 1 THEN g.ofSpawn \ {c} ELSE g.ofSpawn
  <2>1. Decremented(g, c, r)
    BY <1>1, DecrementIs
  <2> QED
    BY <2>1 DEF Decremented
<1>3. g.summons[c] = {d \in Creature : g.master[d] = c}
  BY <1>1 DEF Related
<1>4. g.master[c] # c
  BY <1>1, CreatureAssumption DEF Related, Creature
<1>5. CASE g.refs[c] = 1
  <2>1. /\ c \notin g.world /\ c \notin g.listed /\ g.master[c] = Nobody /\ c \notin OfSpawn(g)
        /\ k[c] = 1 /\ g.releasing[c] = 0
    BY <1>1, <1>5 DEF Counted, CountedOf
  <2>2. Counted(r, l)
    <3>1. OfSpawn(r) = OfSpawn(g)
      BY <1>2 DEF SameSpawn, OfSpawn
    <3>2. ASSUME NEW d \in Creature PROVE CountedOf(r, l, d)
      <4>1. CountedOf(g, k, d)
        BY <1>1 DEF Counted
      <4>2. CASE d = c
        <5>1. r.refs[c] = 0 /\ r.master[c] = Nobody /\ l[c] = 0 /\ r.releasing[c] = 0
          BY <1>2, <1>5, <2>1
        <5>2. c \notin r.world /\ c \notin r.listed /\ c \notin OfSpawn(r)
          BY <1>2, <2>1, <3>1 DEF SameLists
        <5> QED
          BY <4>2, <5>1, <5>2 DEF CountedOf
      <4>3. CASE d # c /\ d \in g.summons[c]
        <5>1. g.master[d] = c /\ r.master[d] = Nobody /\ c # Nobody
          BY <1>2, <1>3, <1>5, <4>3, CreatureAssumption
        <5> QED
          BY <1>2, <1>5, <3>1, <4>1, <4>3, <5>1 DEF SameLists, CountedOf
      <4>4. CASE d # c /\ d \notin g.summons[c]
        BY <1>1, <1>2, <1>5, <3>1, <4>1, <4>4 DEF SameLists, CountedOf, Records
      <4> QED
        BY <4>2, <4>3, <4>4
    <3> QED
      BY <3>2 DEF Counted
  <2>3. Related(r, N)
    <3>1. ASSUME NEW d \in Creature, r.master[d] # Nobody
          PROVE  /\ d \in Monsters /\ r.master[d] # d /\ r.refs[r.master[d]] > 0
                 /\ r.master[d] \notin N => r.master[r.master[d]] = Nobody
                 /\ d \notin N => d \notin r.ofSpawn
                 /\ d \notin r.world => r.master[d] \notin r.world
      <4>1. r.master[d] = g.master[d] /\ g.master[d] # c /\ g.master[d] \in Creature
        BY <1>1, <1>2, <1>3, <1>5, <3>1 DEF Records
      <4>2. /\ d \in Monsters /\ g.master[d] # d /\ g.refs[g.master[d]] > 0
            /\ g.master[d] \notin N => g.master[g.master[d]] = Nobody
            /\ d \notin N => d \notin g.ofSpawn
            /\ d \notin g.world => g.master[d] \notin g.world
        BY <1>1, <3>1, <4>1 DEF Related
      <4>3. g.master[d] \notin g.summons[c]
        <5>1. SUFFICES ASSUME g.master[g.master[d]] = c PROVE FALSE
          BY <1>3
        <5> QED
          BY <4>2, <5>1, CreatureAssumption
      <4>4. r.master[g.master[d]] = g.master[g.master[d]] \/ r.master[g.master[d]] = Nobody
        BY <1>2, <4>1
      <4>5. r.refs[g.master[d]] = g.refs[g.master[d]]
        BY <1>1, <1>2, <4>1, <4>3 DEF Records
      <4> QED
        BY <1>2, <4>1, <4>2, <4>4, <4>5 DEF SameLists
    <3>2. ASSUME NEW x \in Creature \ N PROVE r.summons[x] = {d \in Creature : r.master[d] = x}
      <4>1. g.summons[x] = {d \in Creature : g.master[d] = x}
        BY <1>1 DEF Related
      <4>2. x # Nobody /\ c # Nobody
        BY CreatureAssumption
      <4>3. CASE x = c
        <5>1. \A d \in Creature : r.master[d] # c
          BY <1>2, <1>3, <1>4, <1>5, <4>2
        <5> QED
          BY <1>2, <1>5, <4>3, <5>1
      <4>4. CASE x # c
        <5>1. \A d \in Creature : r.master[d] = x <=> g.master[d] = x
          BY <1>2, <1>3, <1>5, <2>1, <4>2, <4>4
        <5> QED
          BY <1>2, <4>1, <4>4, <5>1
      <4> QED
        BY <4>3, <4>4
    <3> QED
      BY <3>1, <3>2 DEF Related
  <2>4. LookedAfter(r)
    BY <1>1, <1>2 DEF LookedAfter, SameLists
  <2>5. SpawnKnows(r)
    <3>1. OfSpawn(r) = OfSpawn(g)
      BY <1>2 DEF SameSpawn, OfSpawn
    <3>2. \A d \in r.ofSpawn : d # c /\ g.refs[d] > 0 /\ d \in g.ofSpawn /\ d \in Creature
      BY <1>1, <1>2, <1>5 DEF SpawnKnows, Records
    <3>3. ASSUME NEW d \in r.ofSpawn PROVE r.refs[d] > 0
      <4>1. d \notin g.summons[c]
        BY <1>1, <1>3, <3>2, CreatureAssumption DEF Related
      <4> QED
        BY <1>1, <1>2, <3>2, <4>1 DEF Records
    <3> QED
      BY <1>1, <1>2, <2>1, <3>1, <3>3, <1>5 DEF SpawnKnows, SameSpawn, SameLists
  <2> QED
    BY <1>2, <2>2, <2>3, <2>4, <2>5 DEF Orderly
<1>6. CASE g.refs[c] # 1
  <2>1. /\ \A d \in Creature : /\ r.refs[d] = IF d = c THEN g.refs[d] - 1 ELSE g.refs[d]
                               /\ r.master[d] = g.master[d] /\ r.summons[d] = g.summons[d]
        /\ r.ofSpawn = g.ofSpawn
    BY <1>1, <1>2, <1>6 DEF Records
  <2>2. Counted(r, l)
    <3>1. OfSpawn(r) = OfSpawn(g)
      BY <1>2 DEF SameSpawn, OfSpawn
    <3>2. ASSUME NEW d \in Creature PROVE CountedOf(r, l, d)
      <4>1. CountedOf(g, k, d)
        BY <1>1 DEF Counted
      <4> QED
        BY <1>2, <2>1, <3>1, <4>1 DEF SameLists, CountedOf
    <3> QED
      BY <3>2 DEF Counted
  <2>3. r.refs[c] > 0
    <3>1. g.refs[c] \in Nat /\ g.refs[c] >= k[c] /\ k[c] \in Nat
      BY <1>1, AtLeast DEF Counted, CountedOf
    <3> QED
      BY <1>6, <2>1, <3>1
  <2>4. Related(r, N)
    <3>1. \A d \in Creature : r.refs[d] = IF d = c THEN r.refs[c] ELSE g.refs[d]
      BY <2>1
    <3> QED
      BY <1>1, <1>2, <2>1, <2>3, <3>1 DEF Related, SameLists, Records
  <2>5. LookedAfter(r)
    BY <1>1, <1>2 DEF LookedAfter, SameLists
  <2>6. SpawnKnows(r)
    <3>1. \A d \in Creature : r.refs[d] = IF d = c THEN r.refs[c] ELSE g.refs[d]
      BY <2>1
    <3> QED
      BY <1>1, <1>2, <2>1, <2>3, <3>1 DEF SpawnKnows, SameLists, SameSpawn, Records, OfSpawn
  <2> QED
    BY <1>2, <2>2, <2>4, <2>5, <2>6 DEF Orderly
<1> QED
  BY <1>5, <1>6


-----------------------------------------------------------------------------
\* One in the game is looked after.
LEMMA AddCheckSound ==
    ASSUME NEW g, NEW k, NEW N \in SUBSET Creature, Orderly(g, k, N),
           NEW c \in Creature, c \in g.world, NEW r, r = AddCreatureCheck(g, c)
    PROVE  Orderly(r, k, N) /\ CheckAdded(g, c, r)
<1>1. g \in Records /\ Counted(g, k) /\ Related(g, N) /\ LookedAfter(g) /\ SpawnKnows(g)
  BY DEF Orderly
<1>2. CheckAdded(g, c, r)
  BY <1>1, AddCheckIs
<1>3. /\ r \in Records /\ r.spawned = g.spawned /\ r.event = g.event
      /\ r.releasing = g.releasing
      /\ r.world = g.world /\ r.alive = g.alive /\ r.master = g.master
      /\ r.summons = g.summons /\ r.ofSpawn = g.ofSpawn
      /\ r.checked = g.checked \cup {c} /\ r.listed = g.listed \cup {c}
      /\ \A d \in Creature :
            r.refs[d] = g.refs[d] + (IF d = c /\ c \notin g.listed THEN 1 ELSE 0)
  BY <1>2 DEF CheckAdded, SameSpawn
<1>4. OfSpawn(r) = OfSpawn(g)
  BY <1>3 DEF OfSpawn
<1>5. Counted(r, k)
  <2>1. ASSUME NEW d \in Creature PROVE CountedOf(r, k, d)
    <3>1. CountedOf(g, k, d)
      BY <1>1 DEF Counted
    <3>2. CASE d = c /\ c \notin g.listed
      BY <1>3, <1>4, <3>1, <3>2 DEF CountedOf
    <3>3. CASE ~(d = c /\ c \notin g.listed)
      <4>1. r.refs[d] = g.refs[d] /\ (d \in r.listed <=> d \in g.listed)
        BY <1>1, <1>3, <3>3 DEF Records
      <4> QED
        BY <1>3, <1>4, <3>1, <4>1 DEF CountedOf
    <3> QED
      BY <3>2, <3>3
  <2> QED
    BY <2>1 DEF Counted
<1>6. \A d \in Creature : g.refs[d] > 0 => r.refs[d] > 0
  BY <1>1, <1>3 DEF Records
<1>7. Related(r, N)
  BY <1>1, <1>3, <1>6 DEF Related, Records
<1>8. LookedAfter(r)
  BY <1>1, <1>3 DEF LookedAfter
<1>9. SpawnKnows(r)
  BY <1>1, <1>3, <1>4, <1>6 DEF SpawnKnows, Records
<1> QED
  BY <1>2, <1>3, <1>5, <1>7, <1>8, <1>9 DEF Orderly

\* What a check of one that lives leaves.
Roused(g, c, r) ==
    /\ r.spawned = g.spawned /\ r.event = g.event /\ r.releasing = g.releasing
    /\ r.world = g.world /\ r.alive = g.alive /\ r.master = g.master
    /\ r.summons = g.summons /\ r.ofSpawn = g.ofSpawn /\ g.listed \subseteq r.listed
    /\ c \in g.world => c \in r.checked

\* One who lives is looked after, and whoever has died is already.
LEMMA WakeSound ==
    ASSUME NEW g, NEW k, NEW N \in SUBSET Creature, Orderly(g, k, N),
           NEW c \in Creature, NEW r, r = Wake(g, c)
    PROVE  Orderly(r, k, N) /\ Roused(g, c, r)
<1>1. CASE c \in g.alive
  <2>1. c \in g.world /\ r = AddCreatureCheck(g, c)
    BY <1>1 DEF Orderly, LookedAfter, Wake
  <2>2. Orderly(r, k, N) /\ CheckAdded(g, c, r)
    BY <2>1, AddCheckSound
  <2> QED
    BY <2>2 DEF CheckAdded, SameSpawn, Roused
<1>2. CASE c \notin g.alive
  <2>1. r = g /\ (c \in g.world => c \in g.checked)
    BY <1>2 DEF Orderly, LookedAfter, Wake
  <2> QED
    BY <2>1 DEF Roused
<1> QED
  BY <1>1, <1>2

\* A master, or a summon, is told that they have parted.
Parted(g, m, c, r) ==
    /\ r \in Records /\ SameLists(g, r) /\ SameSpawn(g, r) /\ r.releasing = g.releasing
    /\ r.refs = g.refs /\ r.ofSpawn = g.ofSpawn
    /\ \A d \in Creature : /\ r.master[d] = IF d = c THEN Nobody ELSE g.master[d]
                           /\ r.summons[d] = IF d = m THEN g.summons[d] \ {c} ELSE g.summons[d]

\* The reference of the master is still to be let go of.
LEMMA PartedSound ==
    ASSUME NEW g, NEW k, Orderly(g, k, {}), NEW c \in Creature, NEW m \in Creature,
           g.master[c] = m, NEW r, Parted(g, m, c, r),
           NEW l, \A d \in Creature : l[d] = IF d = c THEN k[d] + 1 ELSE k[d]
    PROVE  Orderly(r, l, {})
<1>1. g \in Records /\ Counted(g, k) /\ Related(g, {}) /\ LookedAfter(g) /\ SpawnKnows(g)
  BY DEF Orderly
<1>2. /\ r \in Records /\ SameLists(g, r) /\ SameSpawn(g, r) /\ r.releasing = g.releasing
      /\ r.refs = g.refs /\ r.ofSpawn = g.ofSpawn
      /\ \A d \in Creature : /\ r.master[d] = IF d = c THEN Nobody ELSE g.master[d]
                             /\ r.summons[d] = IF d = m THEN g.summons[d] \ {c} ELSE g.summons[d]
  BY DEF Parted
<1>3. OfSpawn(r) = OfSpawn(g) /\ m # Nobody
  BY <1>2, CreatureAssumption DEF OfSpawn, SameSpawn
<1>4. Counted(r, l)
  <2>1. ASSUME NEW d \in Creature PROVE CountedOf(r, l, d)
    <3>1. CountedOf(g, k, d)
      BY <1>1 DEF Counted
    <3>2. CASE d = c
      <4>1. r.master[c] = Nobody /\ g.master[c] # Nobody /\ l[c] = k[c] + 1
        BY <1>2, <1>3
      <4> QED
        BY <1>2, <1>3, <3>1, <3>2, <4>1 DEF CountedOf, SameLists
    <3>3. CASE d # c
      BY <1>2, <1>3, <3>1, <3>3 DEF CountedOf, SameLists
    <3> QED
      BY <3>2, <3>3
  <2> QED
    BY <2>1 DEF Counted
<1>5. Related(r, {})
  <2>1. ASSUME NEW x \in Creature PROVE r.summons[x] = {d \in Creature : r.master[d] = x}
    <3>1. g.summons[x] = {d \in Creature : g.master[d] = x} /\ x # Nobody
      BY <1>1, CreatureAssumption DEF Related
    <3>2. CASE x = m
      <4>1. \A d \in Creature : r.master[d] = x <=> d # c /\ g.master[d] = x
        BY <1>2, <3>1
      <4>2. r.summons[x] = g.summons[x] \ {c}
        BY <1>2, <3>2
      <4> QED
        BY <3>1, <4>1, <4>2
    <3>3. CASE x # m
      <4>1. \A d \in Creature : r.master[d] = x <=> g.master[d] = x
        BY <1>2, <3>1, <3>3
      <4>2. r.summons[x] = g.summons[x]
        BY <1>2, <3>3
      <4> QED
        BY <3>1, <4>1, <4>2
    <3> QED
      BY <3>2, <3>3
  <2>2. ASSUME NEW d \in Creature, r.master[d] # Nobody
        PROVE  /\ d \in Monsters /\ r.master[d] # d /\ r.refs[r.master[d]] > 0
               /\ r.master[r.master[d]] = Nobody
               /\ d \notin r.ofSpawn
               /\ d \notin r.world => r.master[d] \notin r.world
    <3>1. r.master[d] = g.master[d] /\ g.master[d] \in Creature
      BY <1>1, <1>2, <2>2 DEF Records
    <3>2. /\ d \in Monsters /\ g.master[d] # d /\ g.refs[g.master[d]] > 0
          /\ g.master[g.master[d]] = Nobody /\ d \notin g.ofSpawn
          /\ d \notin g.world => g.master[d] \notin g.world
      BY <1>1, <2>2, <3>1 DEF Related
    <3> QED
      BY <1>2, <3>1, <3>2 DEF SameLists
  <2> QED
    BY <2>1, <2>2 DEF Related
<1>6. LookedAfter(r)
  BY <1>1, <1>2 DEF LookedAfter, SameLists
<1>7. SpawnKnows(r)
  BY <1>1, <1>2, <1>3 DEF SpawnKnows, SameLists, SameSpawn
<1> QED
  BY <1>2, <1>4, <1>5, <1>6, <1>7 DEF Orderly


\* What letting go of one by one leaves of those who are held otherwise.
LetGo(g, r) ==
    /\ SameLists(g, r) /\ SameSpawn(g, r) /\ r.releasing = g.releasing
    /\ r.ofSpawn \subseteq g.ofSpawn
    /\ \A d \in Creature : r.master[d] = g.master[d] \/ r.master[d] = Nobody

\* A master who lets go of a summon keeps the others.
LEMMA RemoveSummonSound ==
    ASSUME NEW g, NEW k, Orderly(g, k, {}), NEW c \in Creature, NEW m \in Creature,
           g.master[c] = m, NEW r, r = RemoveSummon(g, m, c)
    PROVE  Orderly(r, k, {}) /\ LetGo(g, r) /\ r.master[c] = Nobody
<1>1. g \in Records
  BY DEF Orderly
<1>2. PICK h : h = [g EXCEPT !.master[c] = Nobody, !.summons[m] = @ \ {c}]
  OBVIOUS
<1>3. Parted(g, m, c, h)
  <2>1. /\ h.master \in [Creature -> Creature \cup {Nobody}]
        /\ h.summons \in [Creature -> SUBSET Creature]
    BY <1>1, <1>2 DEF Records
  <2>2. h \in Records
    BY <1>1, <1>2, <2>1 DEF Records
  <2> QED
    BY <1>1, <1>2, <2>2 DEF Parted, Records, SameLists, SameSpawn
<1>4. PICK l : l = [d \in Creature |-> IF d = c THEN k[d] + 1 ELSE k[d]]
  OBVIOUS
<1>5. Orderly(h, l, {})
  BY <1>3, <1>4, PartedSound
<1>6. k[c] \in Nat
  BY DEF Orderly, Counted, CountedOf
<1>7. l[c] > 0 /\ \A d \in Creature : k[d] = IF d = c THEN l[d] - 1 ELSE l[d]
  BY <1>4, <1>6
<1>8. r = Decrement(h, c)
  BY <1>2 DEF RemoveSummon
<1>9. Orderly(r, k, {})
  BY <1>5, <1>7, <1>8, DecrementSound
<1>10. Decremented(h, c, r)
  BY <1>3, <1>8, DecrementIs DEF Parted
<1>11. /\ SameLists(h, r) /\ SameSpawn(h, r) /\ r.releasing = h.releasing
       /\ r.ofSpawn \subseteq h.ofSpawn
       /\ \A d \in Creature : r.master[d] = h.master[d] \/ r.master[d] = Nobody
  BY <1>10 DEF Decremented
<1>12. /\ SameLists(g, h) /\ SameSpawn(g, h) /\ h.releasing = g.releasing /\ h.ofSpawn = g.ofSpawn
       /\ \A d \in Creature : h.master[d] = IF d = c THEN Nobody ELSE g.master[d]
  BY <1>3 DEF Parted
<1>13. SameLists(g, r) /\ SameSpawn(g, r)
  BY <1>11, <1>12 DEF SameLists, SameSpawn
<1> QED
  BY <1>9, <1>11, <1>12, <1>13 DEF LetGo

\* What is left of a creature that is removed.
Removed(g, c, left, r) ==
    /\ r \in Records /\ r.refs = left.refs /\ r.master = left.master
    /\ r.summons = left.summons /\ r.spawned = left.spawned /\ r.ofSpawn = left.ofSpawn
    /\ r.event = (left.event \/ c \in g.ofSpawn)
    /\ r.world = left.world \ {c} /\ r.alive = left.alive \ {c}
    /\ r.listed = left.listed /\ r.checked = left.checked \ (g.listed \cap {c})
    /\ \A d \in Creature :
          r.releasing[d] = IF d = c THEN left.releasing[d] + 1 ELSE left.releasing[d]

\* One of those in the game leaves it: what held it in the game is released.
LEMMA RemoveOneSound ==
    ASSUME NEW g, NEW k, Orderly(g, k, {}), NEW c \in Creature, c \in g.world,
           NEW r, r = RemoveOne(g, c)
    PROVE  Orderly(r, k, {}) /\ r.listed = g.listed /\ r.spawned = g.spawned
<1>1. g \in Records /\ Nobody \notin Creature
  BY CreatureAssumption DEF Orderly
<1>2. PICK left : left = IF g.master[c] # Nobody /\ g.master[c] \in g.world
                         THEN RemoveSummon(g, g.master[c], c) ELSE g
  OBVIOUS
<1>3. /\ Orderly(left, k, {}) /\ LetGo(g, left)
      /\ left.master[c] # Nobody => left.master[c] \notin g.world
  <2>1. CASE g.master[c] # Nobody /\ g.master[c] \in g.world
    <3>1. PICK m \in Creature : m = g.master[c]
      BY <1>1, <2>1 DEF Records
    <3>2. left = RemoveSummon(g, m, c)
      BY <1>2, <2>1, <3>1
    <3> QED
      BY <3>1, <3>2, RemoveSummonSound
  <2>2. CASE ~(g.master[c] # Nobody /\ g.master[c] \in g.world)
    BY <1>2, <2>2 DEF LetGo, SameLists, SameSpawn
  <2> QED
    BY <2>1, <2>2
<1>4. /\ left \in Records /\ Counted(left, k) /\ Related(left, {})
      /\ LookedAfter(left) /\ SpawnKnows(left)
  BY <1>3 DEF Orderly
<1>5. r = [left EXCEPT !.event = @ \/ c \in g.ofSpawn,
                     !.world = @ \ {c}, !.alive = @ \ {c},
                     !.checked = @ \ (g.listed \cap {c}),
                     !.releasing[c] = @ + 1]
  BY <1>2 DEF RemoveOne
<1>6. Removed(g, c, left, r)
  <2>1. r.releasing = [left.releasing EXCEPT ![c] = left.releasing[c] + 1]
        /\ r.event = (left.event \/ c \in g.ofSpawn)
    BY <1>4, <1>5 DEF Records
  <2>2. r.releasing \in [Creature -> Int] /\ r.event \in BOOLEAN
    BY <1>4, <2>1 DEF Records
  <2>3. /\ left.world \ {c} \in SUBSET Creature /\ left.alive \ {c} \in SUBSET Creature
        /\ left.checked \ (g.listed \cap {c}) \in SUBSET Creature
    BY <1>4 DEF Records
  <2>4. r \in Records
    BY <1>4, <1>5, <2>2, <2>3 DEF Records
  <2> QED
    BY <1>4, <1>5, <2>1, <2>4 DEF Removed, Records
<1>7. /\ r \in Records /\ r.refs = left.refs /\ r.master = left.master
      /\ r.summons = left.summons /\ r.spawned = left.spawned /\ r.ofSpawn = left.ofSpawn
      /\ r.event = (left.event \/ c \in g.ofSpawn)
      /\ r.world = left.world \ {c} /\ r.alive = left.alive \ {c}
      /\ r.listed = left.listed /\ r.checked = left.checked \ (g.listed \cap {c})
      /\ \A d \in Creature :
            r.releasing[d] = IF d = c THEN left.releasing[d] + 1 ELSE left.releasing[d]
  BY <1>6 DEF Removed
<1>8. OfSpawn(r) = OfSpawn(left) /\ left.world = g.world /\ left.listed = g.listed
      /\ left.checked = g.checked /\ left.ofSpawn \subseteq g.ofSpawn
      /\ left.spawned = g.spawned
  BY <1>3, <1>7 DEF OfSpawn, LetGo, SameLists, SameSpawn
<1>9. Counted(r, k)
  <2>1. ASSUME NEW d \in Creature PROVE CountedOf(r, k, d)
    <3>1. CountedOf(left, k, d)
      BY <1>4 DEF Counted
    <3>2. CASE d = c
      <4>1. c \in left.world /\ c \notin r.world /\ r.releasing[c] = left.releasing[c] + 1
        BY <1>7, <1>8
      <4> QED
        BY <1>7, <1>8, <3>1, <3>2, <4>1 DEF CountedOf
    <3>3. CASE d # c
      BY <1>7, <1>8, <3>1, <3>3 DEF CountedOf
    <3> QED
      BY <3>2, <3>3
  <2> QED
    BY <2>1 DEF Counted
<1>10. Related(r, {})
  <2>1. \A d \in Creature : r.master[d] # Nobody /\ d \notin r.world => r.master[d] \notin r.world
    BY <1>3, <1>4, <1>7, <1>8 DEF Related
  <2> QED
    BY <1>4, <1>7, <2>1 DEF Related
<1>11. LookedAfter(r)
  BY <1>4, <1>7, <1>8 DEF LookedAfter
<1>12. SpawnKnows(r)
  BY <1>4, <1>7, <1>8 DEF SpawnKnows
<1> QED
  BY <1>7, <1>8, <1>9, <1>10, <1>11, <1>12 DEF Orderly


-----------------------------------------------------------------------------
(***************************************************************************)
(* The loops: what each makes of a creature, and that it is a record of    *)
(* them again.                                                             *)
(***************************************************************************)
\* There are no more creatures than addresses.
LEMMA CreaturesFinite == IsFiniteSet(Creature) /\ \A S \in SUBSET Creature : IsFiniteSet(S)
<1>1. IsFiniteSet(Creature)
  BY CreatureAssumption, FS_AddElement DEF Creature
<1> QED
  BY <1>1, FS_Subset

\* A summon loses its master, and its health.
DestroySummon(h, s) ==
    LET woken == Wake(h, s)
    IN  Decrement([woken EXCEPT !.alive = @ \ {s}, !.master[s] = Nobody], s)

\* It is a record again.
LEMMA DestroySummonTyped ==
    ASSUME NEW h \in Records, NEW s \in Creature PROVE DestroySummon(h, s) \in Records
<1>1. PICK woken : woken = Wake(h, s)
  OBVIOUS
<1>2. woken \in Records
  BY <1>1, AddCheckIs DEF Wake, CheckAdded
<1>3. PICK u : u = [woken EXCEPT !.alive = @ \ {s}, !.master[s] = Nobody]
  OBVIOUS
<1>4. u \in Records
  <2>1. u.master = [woken.master EXCEPT ![s] = Nobody] /\ u.alive = woken.alive \ {s}
    BY <1>2, <1>3 DEF Records
  <2>2. u.master \in [Creature -> Creature \cup {Nobody}] /\ u.alive \in SUBSET Creature
    BY <1>2, <2>1 DEF Records
  <2> QED
    BY <1>2, <1>3, <2>2 DEF Records
<1>5. Decrement(u, s) \in Records
  BY <1>4, DecrementIs DEF Decremented
<1> QED
  BY <1>1, <1>3, <1>5 DEF DestroySummon

\* h has the record when each part of the summons has been destroyed.
Destroys(b, S, h) ==
    h = [s \in SUBSET S |-> IF s = {} THEN b ELSE DestroySummon(h[s \ {SomeOf(s)}], SomeOf(s))]

Destruction(b, S) == CHOOSE h : Destroys(b, S, h)

\* It is the fold of the code's loop.
LEMMA DestroySummonsIs ==
    ASSUME NEW g, NEW m
    PROVE  DestroySummons(g, m)
             = Destruction([g EXCEPT !.summons[m] = {}], g.summons[m])[g.summons[m]]
  BY DEF DestroySummons, FoldSet, MapThenFoldSet, Destroys, Destruction, DestroySummon, SomeOf

\* One by one.
LEMMA DestroyedOneByOne ==
    ASSUME NEW b \in Records, NEW S \in SUBSET Creature, NEW f, f = Destruction(b, S)
    PROVE  /\ f[{}] = b
           /\ \A s \in SUBSET S : \A x \in s :
                x = SomeOf(s) => f[s] = DestroySummon(f[s \ {x}], x)
<1>1. PICK e : e = [x \in S \X Records |-> DestroySummon(x[2], x[1])]
  OBVIOUS
<1>2. ASSUME NEW c \in S, NEW x \in Records PROVE DestroySummon(x, c) \in Records
  BY DestroySummonTyped
<1>3. e \in [S \X Records -> Records]
  BY <1>1, <1>2
<1>4. PICK h \in [SUBSET S -> Records] : FoldsBy(e, b, S, h)
  BY <1>3, FoldInExists, CreaturesFinite
<1>5. ASSUME NEW s \in SUBSET S, s # {}
      PROVE  e[<<SomeOf(s), h[s \ {SomeOf(s)}]>>] = DestroySummon(h[s \ {SomeOf(s)}], SomeOf(s))
  <2>1. SomeOf(s) \in S /\ h[s \ {SomeOf(s)}] \in Records
    BY <1>4, <1>5 DEF SomeOf
  <2> QED
    BY <1>1, <2>1
<1>6. Destroys(b, S, h)
  <2>1. h = [s \in SUBSET S |-> IF s = {} THEN b ELSE e[<<SomeOf(s), h[s \ {SomeOf(s)}]>>]]
    BY <1>4 DEF FoldsBy
  <2> QED
    BY <1>5, <2>1 DEF Destroys
<1>7. Destroys(b, S, f)
  BY <1>6 DEF Destruction
<1> QED
  BY <1>7 DEF Destroys


\* What is taken from a summon before its master lets go of it.
Bereft(h, x, u) ==
    /\ u \in Records /\ u.refs = h.refs /\ u.world = h.world /\ u.alive = h.alive \ {x}
    /\ u.listed = h.listed /\ u.checked = h.checked /\ u.summons = h.summons
    /\ u.spawned = h.spawned /\ u.event = h.event /\ u.ofSpawn = h.ofSpawn
    /\ u.releasing = h.releasing
    /\ \A d \in Creature : u.master[d] = IF d = x THEN Nobody ELSE h.master[d]

\* It is.
LEMMA BereftIs ==
    ASSUME NEW h \in Records, NEW x \in Creature,
           NEW u, u = [h EXCEPT !.alive = @ \ {x}, !.master[x] = Nobody]
    PROVE  Bereft(h, x, u)
<1>1. u.master = [h.master EXCEPT ![x] = Nobody] /\ u.alive = h.alive \ {x}
  BY DEF Records
<1>2. u.master \in [Creature -> Creature \cup {Nobody}] /\ u.alive \in SUBSET Creature
  BY <1>1 DEF Records
<1>3. u \in Records
  BY <1>2 DEF Records
<1> QED
  BY <1>1, <1>3 DEF Bereft, Records

\* Its master still has to let go of it; if it is in the game it is looked after.
LEMMA BereftSound ==
    ASSUME NEW h, NEW k, NEW m \in Creature, Orderly(h, k, {m}), NEW x \in Creature \ {m},
           h.master[x] = m, x \in h.world => x \in h.checked, NEW u, Bereft(h, x, u),
           NEW l, \A d \in Creature : l[d] = IF d = x THEN k[d] + 1 ELSE k[d]
    PROVE  Orderly(u, l, {m})
<1>1. h \in Records /\ Counted(h, k) /\ Related(h, {m}) /\ LookedAfter(h) /\ SpawnKnows(h)
  BY DEF Orderly
<1>2. /\ u \in Records /\ u.refs = h.refs /\ u.world = h.world /\ u.alive = h.alive \ {x}
      /\ u.listed = h.listed /\ u.checked = h.checked /\ u.summons = h.summons
      /\ u.spawned = h.spawned /\ u.event = h.event /\ u.ofSpawn = h.ofSpawn
      /\ u.releasing = h.releasing
      /\ \A d \in Creature : u.master[d] = IF d = x THEN Nobody ELSE h.master[d]
  BY DEF Bereft
<1>3. OfSpawn(u) = OfSpawn(h) /\ m # Nobody /\ x \in Creature /\ x # m
  BY <1>2, CreatureAssumption DEF OfSpawn
<1>4. Counted(u, l)
  <2>1. ASSUME NEW d \in Creature PROVE CountedOf(u, l, d)
    <3>1. CountedOf(h, k, d)
      BY <1>1 DEF Counted
    <3>2. CASE d = x
      <4>1. u.master[x] = Nobody /\ h.master[x] # Nobody /\ l[x] = k[x] + 1
        BY <1>2, <1>3
      <4> QED
        BY <1>2, <1>3, <3>1, <3>2, <4>1 DEF CountedOf
    <3>3. CASE d # x
      BY <1>2, <1>3, <3>1, <3>3 DEF CountedOf
    <3> QED
      BY <3>2, <3>3
  <2> QED
    BY <2>1 DEF Counted
<1>5. Related(u, {m})
  <2>1. ASSUME NEW y \in Creature \ {m} PROVE u.summons[y] = {d \in Creature : u.master[d] = y}
    <3>1. h.summons[y] = {d \in Creature : h.master[d] = y}
      BY <1>1 DEF Related
    <3>2. \A d \in Creature : u.master[d] = y <=> h.master[d] = y
      BY <1>2, CreatureAssumption
    <3> QED
      BY <1>2, <3>1, <3>2
  <2>2. ASSUME NEW d \in Creature, u.master[d] # Nobody
        PROVE  /\ d \in Monsters /\ u.master[d] # d /\ u.refs[u.master[d]] > 0
               /\ u.master[d] \notin {m} => u.master[u.master[d]] = Nobody
               /\ d \notin {m} => d \notin u.ofSpawn
               /\ d \notin u.world => u.master[d] \notin u.world
    <3>1. u.master[d] = h.master[d] /\ h.master[d] \in Creature
      BY <1>1, <1>2, <2>2 DEF Records
    <3>2. /\ d \in Monsters /\ h.master[d] # d /\ h.refs[h.master[d]] > 0
          /\ h.master[d] \notin {m} => h.master[h.master[d]] = Nobody
          /\ d \notin {m} => d \notin h.ofSpawn
          /\ d \notin h.world => h.master[d] \notin h.world
      BY <1>1, <2>2, <3>1 DEF Related
    <3> QED
      BY <1>2, <3>1, <3>2
  <2> QED
    BY <2>1, <2>2 DEF Related
<1>6. LookedAfter(u)
  BY <1>1, <1>2 DEF LookedAfter
<1>7. SpawnKnows(u)
  BY <1>1, <1>2, <1>3 DEF SpawnKnows
<1> QED
  BY <1>2, <1>4, <1>5, <1>6, <1>7 DEF Orderly

\* What the loop has left to do when the summons of m in P are still its own.
Destroying(g, k, m, P, h) ==
    /\ h \in Records /\ Orderly(h, k, {m}) /\ h.summons[m] = {} /\ h.master[m] = g.master[m]
    /\ \A d \in Creature : h.master[d] = m <=> d \in P
    /\ h.world = g.world /\ h.spawned = g.spawned /\ h.event = g.event
    /\ h.releasing = g.releasing /\ h.ofSpawn \subseteq g.ofSpawn /\ g.listed \subseteq h.listed

\* It does one of them.
LEMMA DestroyingGoesOn ==
    ASSUME NEW g, NEW k, NEW m \in Creature, NEW P, NEW x \in P \cap Creature, NEW h,
           Destroying(g, k, m, P, h), NEW r, r = DestroySummon(h, x)
    PROVE  Destroying(g, k, m, P \ {x}, r)
<1>1. /\ h \in Records /\ Orderly(h, k, {m}) /\ h.summons[m] = {} /\ h.master[m] = g.master[m]
      /\ \A d \in Creature : h.master[d] = m <=> d \in P
      /\ h.world = g.world /\ h.spawned = g.spawned /\ h.event = g.event
      /\ h.releasing = g.releasing /\ h.ofSpawn \subseteq g.ofSpawn /\ g.listed \subseteq h.listed
  BY DEF Destroying
<1>2. x \in Creature /\ h.master[x] = m /\ m # Nobody
  BY <1>1, CreatureAssumption
<1>3. x # m /\ h.master[m] # x /\ Counted(h, k)
  <2>1. Related(h, {m})
    BY <1>1 DEF Orderly
  <2>2. x # m
    BY <1>2, <2>1 DEF Related
  <2>3. h.master[m] = x => h.master[h.master[m]] = Nobody
    BY <2>1, <2>2, <1>2, CreatureAssumption DEF Related
  <2> QED
    BY <1>1, <1>2, <2>2, <2>3 DEF Orderly
<1>4. PICK w : w = Wake(h, x)
  OBVIOUS
<1>5. Orderly(w, k, {m}) /\ Roused(h, x, w)
  BY <1>1, <1>2, <1>4, WakeSound
<1>6. PICK u : u = [w EXCEPT !.alive = @ \ {x}, !.master[x] = Nobody]
  OBVIOUS
<1>7. Bereft(w, x, u)
  BY <1>2, <1>5, <1>6, BereftIs DEF Orderly
<1>8. PICK l : l = [d \in Creature |-> IF d = x THEN k[d] + 1 ELSE k[d]]
  OBVIOUS
<1>9. Orderly(u, l, {m})
  <2>1. w.master[x] = m /\ (x \in w.world => x \in w.checked) /\ x \in Creature \ {m}
    BY <1>2, <1>3, <1>5 DEF Roused
  <2> QED
    BY <1>5, <1>7, <1>8, <2>1, BereftSound
<1>10. r = Decrement(u, x)
  BY <1>4, <1>6 DEF DestroySummon
<1>11. /\ u.master[m] = h.master[m] /\ \A n \in {m} : u.master[n] # x
       /\ u.summons = h.summons /\ u.ofSpawn = h.ofSpawn /\ h.listed \subseteq u.listed
       /\ u.world = h.world /\ u.spawned = h.spawned /\ u.event = h.event
       /\ u.releasing = h.releasing
       /\ \A d \in Creature : u.master[d] = IF d = x THEN Nobody ELSE h.master[d]
  BY <1>3, <1>5, <1>7 DEF Roused, Bereft
<1>12. Orderly(r, k, {m})
  <2>1. k[x] \in Nat /\ x \in Creature \ {m}
    BY <1>2, <1>3 DEF Counted, CountedOf
  <2>2. l[x] > 0 /\ \A d \in Creature : k[d] = IF d = x THEN l[d] - 1 ELSE l[d]
    BY <1>8, <2>1
  <2> QED
    BY <1>9, <1>10, <1>11, <2>1, <2>2, DecrementSound
<1>13. Decremented(u, x, r) /\ u.summons[x] = {d \in Creature : u.master[d] = x}
  BY <1>2, <1>3, <1>9, <1>10, DecrementIs DEF Orderly, Related
<1>14. \A d \in Creature : r.master[d] = u.master[d] \/ (r.master[d] = Nobody /\ u.master[d] = x)
                           \/ (d = x /\ r.master[x] = Nobody)
  BY <1>2, <1>11, <1>13 DEF Decremented
<1>15. \A d \in Creature : r.master[d] = m <=> d \in P \ {x}
  BY <1>1, <1>2, <1>3, <1>11, <1>14
<1>16. r.master[m] = g.master[m]
  BY <1>1, <1>3, <1>11, <1>14
<1>17. r.summons[m] = {} /\ SameLists(u, r) /\ SameSpawn(u, r) /\ r.releasing = u.releasing
       /\ r.ofSpawn \subseteq u.ofSpawn /\ r \in Records
  BY <1>1, <1>3, <1>11, <1>13 DEF Decremented
<1> QED
  BY <1>1, <1>11, <1>12, <1>15, <1>16, <1>17 DEF Destroying, SameLists, SameSpawn

\* When it has done all of them there are none, and nothing else is different.
LEMMA DestroySummonsSound ==
    ASSUME NEW g, NEW k, NEW m \in Creature, NEW N \in SUBSET {m}, Orderly(g, k, N),
           g.summons[m] = {d \in Creature : g.master[d] = m},
           NEW r, r = DestroySummons(g, m)
    PROVE  Destroying(g, k, m, {}, r)
<1>1. g \in Records /\ Counted(g, k) /\ Related(g, N) /\ LookedAfter(g) /\ SpawnKnows(g)
  BY DEF Orderly
<1>2. PICK S \in SUBSET Creature : S = g.summons[m]
  BY <1>1 DEF Records
<1>3. PICK b : b = [g EXCEPT !.summons[m] = {}]
  OBVIOUS
<1>4. b \in Records /\ b = [g EXCEPT !.summons = b.summons] /\ b.summons[m] = {}
      /\ \A x \in Creature \ {m} : b.summons[x] = g.summons[x]
  <2>1. b.summons = [g.summons EXCEPT ![m] = {}]
    BY <1>1, <1>3 DEF Records
  <2>2. b.summons \in [Creature -> SUBSET Creature]
    BY <1>1, <2>1 DEF Records
  <2> QED
    BY <1>1, <1>3, <2>1, <2>2 DEF Records
<1>5. /\ b.refs = g.refs /\ b.world = g.world /\ b.alive = g.alive /\ b.listed = g.listed
      /\ b.checked = g.checked /\ b.master = g.master /\ b.spawned = g.spawned
      /\ b.event = g.event /\ b.ofSpawn = g.ofSpawn /\ b.releasing = g.releasing
  BY <1>1, <1>3 DEF Records
<1>6. Orderly(b, k, {m})
  <2>1. Counted(b, k)
    BY <1>1, <1>5 DEF Counted, CountedOf, OfSpawn
  <2>2. Related(b, {m})
    BY <1>1, <1>4, <1>5 DEF Related
  <2>3. LookedAfter(b) /\ SpawnKnows(b)
    BY <1>1, <1>5 DEF LookedAfter, SpawnKnows, OfSpawn
  <2> QED
    BY <1>4, <2>1, <2>2, <2>3 DEF Orderly
<1>7. PICK f : f = Destruction(b, S)
  OBVIOUS
<1>8. r = f[S]
  <2>1. r = Destruction([g EXCEPT !.summons[m] = {}], g.summons[m])[g.summons[m]]
    BY DestroySummonsIs
  <2> QED
    BY <1>2, <1>3, <1>7, <2>1
<1>9. /\ f[{}] = b
      /\ \A s \in SUBSET S : \A x \in s :
           x = SomeOf(s) => f[s] = DestroySummon(f[s \ {x}], x)
  BY <1>4, <1>7, DestroyedOneByOne
<1>10. PICK Good : Good = [s \in SUBSET S |-> {h \in Records : Destroying(g, k, m, S \ s, h)}]
  OBVIOUS
<1>11. f[{}] \in Good[{}]
  <2>1. Destroying(g, k, m, S \ {}, b)
    BY <1>2, <1>4, <1>5, <1>6 DEF Destroying
  <2> QED
    BY <1>4, <1>9, <1>10, <2>1
<1>12. ASSUME NEW s \in SUBSET S, NEW x \in s, x = SomeOf(s), f[s \ {x}] \in Good[s \ {x}]
       PROVE  f[s] \in Good[s]
  <2>1. PICK P : P = S \ (s \ {x})
    OBVIOUS
  <2>2. Destroying(g, k, m, P, f[s \ {x}]) /\ x \in P \cap Creature
    BY <1>10, <1>12, <2>1
  <2>3. f[s] = DestroySummon(f[s \ {x}], x)
    BY <1>9, <1>12
  <2>4. Destroying(g, k, m, P \ {x}, f[s])
    BY <2>2, <2>3, DestroyingGoesOn
  <2>5. P \ {x} = S \ s
    BY <2>1
  <2> QED
    BY <1>10, <2>4, <2>5 DEF Destroying
<1>13. f[S] \in Good[S]
  BY <1>11, <1>12, CreaturesFinite, FoldIsGood
<1>14. Destroying(g, k, m, S \ S, f[S])
  BY <1>10, <1>13
<1>15. S \ S = {}
  OBVIOUS
<1> QED
  BY <1>8, <1>14, <1>15


-----------------------------------------------------------------------------
\* What a creature and its summons leave is a record.
LEMMA RemoveSummonTyped ==
    ASSUME NEW g \in Records, NEW m \in Creature, NEW c \in Creature
    PROVE  RemoveSummon(g, m, c) \in Records
<1>1. PICK h : h = [g EXCEPT !.master[c] = Nobody, !.summons[m] = @ \ {c}]
  OBVIOUS
<1>2. /\ h.master \in [Creature -> Creature \cup {Nobody}]
      /\ h.summons \in [Creature -> SUBSET Creature]
  BY <1>1 DEF Records
<1>3. h \in Records
  BY <1>1, <1>2 DEF Records
<1>4. Decrement(h, c) \in Records
  BY <1>3, DecrementIs DEF Decremented
<1> QED
  BY <1>1, <1>4 DEF RemoveSummon

\* So is what is left when one has left the game.
LEMMA RemoveOneTyped ==
    ASSUME NEW g \in Records, NEW c \in Creature PROVE RemoveOne(g, c) \in Records
<1>1. PICK left : left = IF g.master[c] # Nobody /\ g.master[c] \in g.world
                         THEN RemoveSummon(g, g.master[c], c) ELSE g
  OBVIOUS
<1>2. left \in Records
  <2>1. g.master[c] \in Creature \/ g.master[c] = Nobody
    BY DEF Records
  <2> QED
    BY <1>1, <2>1, RemoveSummonTyped
<1>3. PICK r : r = RemoveOne(g, c)
  OBVIOUS
<1>4. r = [left EXCEPT !.event = @ \/ c \in g.ofSpawn,
                     !.world = @ \ {c}, !.alive = @ \ {c},
                     !.checked = @ \ (g.listed \cap {c}),
                     !.releasing[c] = @ + 1]
  BY <1>1, <1>3 DEF RemoveOne
<1>5. r.releasing = [left.releasing EXCEPT ![c] = left.releasing[c] + 1]
      /\ r.event = (left.event \/ c \in g.ofSpawn)
  BY <1>2, <1>4 DEF Records
<1>6. r.releasing \in [Creature -> Int] /\ r.event \in BOOLEAN
  BY <1>2, <1>5 DEF Records
<1>7. /\ left.world \ {c} \in SUBSET Creature /\ left.alive \ {c} \in SUBSET Creature
      /\ left.checked \ (g.listed \cap {c}) \in SUBSET Creature
  BY <1>2 DEF Records
<1>8. r \in Records
  BY <1>2, <1>4, <1>6, <1>7 DEF Records
<1> QED
  BY <1>3, <1>8

\* One of those a removed creature had summoned follows it.
RemoveSummoned(h, s) == IF s \in h.world THEN RemoveOne(h, s) ELSE h

\* h has the record when each part of them has.
Removes(b, S, h) ==
    h = [s \in SUBSET S |-> IF s = {} THEN b ELSE RemoveSummoned(h[s \ {SomeOf(s)}], SomeOf(s))]

Removal(b, S) == CHOOSE h : Removes(b, S, h)

\* It is the fold of the code's loop.
LEMMA RemoveCreatureIs ==
    ASSUME NEW g, NEW c
    PROVE  RemoveCreature(g, c)
             = Removal(RemoveOne(g, c), RemoveOne(g, c).summons[c])[RemoveOne(g, c).summons[c]]
  BY DEF RemoveCreature, FoldSet, MapThenFoldSet, Removes, Removal, RemoveSummoned, SomeOf

\* One by one.
LEMMA RemovedOneByOne ==
    ASSUME NEW b \in Records, NEW S \in SUBSET Creature, NEW f, f = Removal(b, S)
    PROVE  /\ f[{}] = b
           /\ \A s \in SUBSET S : \A x \in s :
                x = SomeOf(s) => f[s] = RemoveSummoned(f[s \ {x}], x)
<1>1. PICK e : e = [x \in S \X Records |-> RemoveSummoned(x[2], x[1])]
  OBVIOUS
<1>2. ASSUME NEW c \in S, NEW x \in Records PROVE RemoveSummoned(x, c) \in Records
  BY RemoveOneTyped DEF RemoveSummoned
<1>3. e \in [S \X Records -> Records]
  BY <1>1, <1>2
<1>4. PICK h \in [SUBSET S -> Records] : FoldsBy(e, b, S, h)
  BY <1>3, FoldInExists, CreaturesFinite
<1>5. ASSUME NEW s \in SUBSET S, s # {}
      PROVE  e[<<SomeOf(s), h[s \ {SomeOf(s)}]>>] = RemoveSummoned(h[s \ {SomeOf(s)}], SomeOf(s))
  <2>1. SomeOf(s) \in S /\ h[s \ {SomeOf(s)}] \in Records
    BY <1>4, <1>5 DEF SomeOf
  <2> QED
    BY <1>1, <2>1
<1>6. Removes(b, S, h)
  <2>1. h = [s \in SUBSET S |-> IF s = {} THEN b ELSE e[<<SomeOf(s), h[s \ {SomeOf(s)}]>>]]
    BY <1>4 DEF FoldsBy
  <2> QED
    BY <1>5, <2>1 DEF Removes
<1>7. Removes(b, S, f)
  BY <1>6 DEF Removal
<1> QED
  BY <1>7 DEF Removes

\* So a creature's leaving with its summons leaves a record.
LEMMA RemoveCreatureTyped ==
    ASSUME NEW g \in Records, NEW c \in Creature PROVE RemoveCreature(g, c) \in Records
<1>1. PICK b \in Records : b = RemoveOne(g, c)
  BY RemoveOneTyped
<1>2. PICK S \in SUBSET Creature : S = b.summons[c]
  BY DEF Records
<1>3. PICK f : f = Removal(b, S)
  OBVIOUS
<1>4. RemoveCreature(g, c) = f[S]
  BY <1>1, <1>2, <1>3, RemoveCreatureIs
<1>5. /\ f[{}] = b
      /\ \A s \in SUBSET S : \A x \in s :
           x = SomeOf(s) => f[s] = RemoveSummoned(f[s \ {x}], x)
  BY <1>3, RemovedOneByOne
<1>6. PICK Good : Good = [s \in SUBSET S |-> Records]
  OBVIOUS
<1>7. ASSUME NEW s \in SUBSET S, NEW x \in s, x = SomeOf(s), f[s \ {x}] \in Good[s \ {x}]
      PROVE  f[s] \in Good[s]
  BY <1>5, <1>6, <1>7, RemoveOneTyped DEF RemoveSummoned
<1>8. f[S] \in Good[S]
  BY <1>5, <1>6, <1>7, CreaturesFinite, FoldIsGood
<1> QED
  BY <1>4, <1>6, <1>8

\* So does the end of a creature's summons.
LEMMA DestroySummonsTyped ==
    ASSUME NEW g \in Records, NEW m \in Creature PROVE DestroySummons(g, m) \in Records
<1>1. PICK b : b = [g EXCEPT !.summons[m] = {}]
  OBVIOUS
<1>2. b \in Records
  <2>1. b.summons \in [Creature -> SUBSET Creature]
    BY <1>1 DEF Records
  <2> QED
    BY <1>1, <2>1 DEF Records
<1>3. PICK S \in SUBSET Creature : S = g.summons[m]
  BY DEF Records
<1>4. PICK f : f = Destruction(b, S)
  OBVIOUS
<1>5. DestroySummons(g, m) = f[S]
  BY <1>1, <1>3, <1>4, DestroySummonsIs
<1>6. /\ f[{}] = b
      /\ \A s \in SUBSET S : \A x \in s :
           x = SomeOf(s) => f[s] = DestroySummon(f[s \ {x}], x)
  BY <1>2, <1>4, DestroyedOneByOne
<1>7. PICK Good : Good = [s \in SUBSET S |-> Records]
  OBVIOUS
<1>8. ASSUME NEW s \in SUBSET S, NEW x \in s, x = SomeOf(s), f[s \ {x}] \in Good[s \ {x}]
      PROVE  f[s] \in Good[s]
  BY <1>6, <1>7, <1>8, DestroySummonTyped
<1>9. f[S] \in Good[S]
  BY <1>2, <1>6, <1>7, <1>8, CreaturesFinite, FoldIsGood
<1> QED
  BY <1>5, <1>7, <1>9

\* A creature that leaves the game takes its summons in the game with it.
LEMMA RemoveCreatureSound ==
    ASSUME NEW g, NEW k, Orderly(g, k, {}), NEW c \in Creature, c \in g.world,
           NEW r, r = RemoveCreature(g, c)
    PROVE  Orderly(r, k, {}) /\ r.listed = g.listed /\ r.spawned = g.spawned
<1>1. PICK b : b = RemoveOne(g, c)
  OBVIOUS
<1>2. Orderly(b, k, {}) /\ b.listed = g.listed /\ b.spawned = g.spawned /\ b \in Records
  BY <1>1, RemoveOneSound DEF Orderly
<1>3. PICK S \in SUBSET Creature : S = b.summons[c]
  BY <1>2 DEF Records
<1>4. PICK f : f = Removal(b, S)
  OBVIOUS
<1>5. r = f[S]
  BY <1>1, <1>3, <1>4, RemoveCreatureIs
<1>6. /\ f[{}] = b
      /\ \A s \in SUBSET S : \A x \in s :
           x = SomeOf(s) => f[s] = RemoveSummoned(f[s \ {x}], x)
  BY <1>2, <1>4, RemovedOneByOne
<1>7. PICK Good : Good = [s \in SUBSET S |->
                       {h \in Records : /\ Orderly(h, k, {})
                                        /\ h.listed = g.listed /\ h.spawned = g.spawned}]
  OBVIOUS
<1>8. ASSUME NEW s \in SUBSET S, NEW x \in s, x = SomeOf(s), f[s \ {x}] \in Good[s \ {x}]
      PROVE  f[s] \in Good[s]
  <2>1. PICK h : h = f[s \ {x}]
    OBVIOUS
  <2>2. Orderly(h, k, {}) /\ h.listed = g.listed /\ h.spawned = g.spawned /\ x \in Creature
    BY <1>7, <1>8, <2>1
  <2>3. f[s] = RemoveSummoned(h, x)
    BY <1>6, <1>8, <2>1
  <2>4. CASE x \in h.world
    <3>1. f[s] = RemoveOne(h, x)
      BY <2>3, <2>4 DEF RemoveSummoned
    <3>2. Orderly(f[s], k, {}) /\ f[s].listed = g.listed /\ f[s].spawned = g.spawned
      BY <2>2, <2>4, <3>1, RemoveOneSound
    <3> QED
      BY <1>7, <3>2 DEF Orderly
  <2>5. CASE x \notin h.world
    BY <1>7, <2>2, <2>3, <2>5 DEF RemoveSummoned, Orderly
  <2> QED
    BY <2>4, <2>5
<1>9. f[{}] \in Good[{}]
  BY <1>2, <1>6, <1>7
<1>10. f[S] \in Good[S]
  BY <1>8, <1>9, CreaturesFinite, FoldIsGood
<1> QED
  BY <1>5, <1>7, <1>10


-----------------------------------------------------------------------------
(***************************************************************************)
(* The check of a list.                                                    *)
(***************************************************************************)
\* A loop over the summons of one who keeps no others leaves nothing to do.
LEMMA DestroyedSound ==
    ASSUME NEW g, NEW k, NEW m \in Creature, NEW h, Destroying(g, k, m, {}, h),
           h.master[m] # Nobody => m \notin h.ofSpawn
    PROVE  Orderly(h, k, {})
<1>1. /\ h \in Records /\ Orderly(h, k, {m}) /\ h.summons[m] = {}
      /\ \A d \in Creature : h.master[d] # m
  BY DEF Destroying
<1>2. Counted(h, k) /\ Related(h, {m}) /\ LookedAfter(h) /\ SpawnKnows(h)
  BY <1>1 DEF Orderly
<1>3. Related(h, {})
  <2>1. \A x \in Creature : h.summons[x] = {c \in Creature : h.master[c] = x}
    BY <1>1, <1>2 DEF Related
  <2>2. ASSUME NEW c \in Creature, h.master[c] # Nobody
        PROVE  /\ c \in Monsters /\ h.master[c] # c /\ h.refs[h.master[c]] > 0
               /\ h.master[h.master[c]] = Nobody /\ c \notin h.ofSpawn
               /\ c \notin h.world => h.master[c] \notin h.world
    BY <1>1, <1>2, <2>2 DEF Related
  <2> QED
    BY <2>1, <2>2 DEF Related
<1> QED
  BY <1>1, <1>2, <1>3 DEF Orderly

\* A creature in the game that is dead is taken out of it; its list is the same.
LEMMA OnDeathSound ==
    ASSUME NEW g, NEW k, Orderly(g, k, {}), NEW m \in Creature, m \in g.world,
           NEW r, r = OnDeath(g, m)
    PROVE  Orderly(r, k, {}) /\ g.listed \subseteq r.listed /\ r.spawned = g.spawned
<1>1. g \in Records /\ Related(g, {}) /\ Nobody \notin Creature
  BY CreatureAssumption DEF Orderly
<1>2. PICK died : died = DestroySummons(g, m)
  OBVIOUS
<1>3. Destroying(g, k, m, {}, died)
  <2>1. g.summons[m] = {d \in Creature : g.master[d] = m}
    BY <1>1 DEF Related
  <2> QED
    BY <1>2, <2>1, DestroySummonsSound
<1>4. died.world = g.world /\ died.spawned = g.spawned /\ g.listed \subseteq died.listed
      /\ died.master[m] = g.master[m] /\ died.ofSpawn \subseteq g.ofSpawn
  BY <1>3 DEF Destroying
<1>5. Orderly(died, k, {})
  <2>1. died.master[m] # Nobody => m \notin died.ofSpawn
    BY <1>1, <1>4 DEF Related
  <2> QED
    BY <1>3, <2>1, DestroyedSound
<1>6. PICK left : left = IF died.master[m] # Nobody THEN RemoveSummon(died, died.master[m], m)
                         ELSE died
  OBVIOUS
<1>7. Orderly(left, k, {}) /\ left.world = g.world /\ g.listed \subseteq left.listed
      /\ left.spawned = g.spawned
  <2>1. CASE died.master[m] = Nobody
    BY <1>4, <1>5, <1>6, <2>1
  <2>2. CASE died.master[m] # Nobody
    <3>1. PICK n \in Creature : n = died.master[m]
      BY <1>5, <2>2 DEF Orderly, Records
    <3>2. left = RemoveSummon(died, n, m)
      BY <1>6, <2>2, <3>1
    <3>3. Orderly(left, k, {}) /\ LetGo(died, left)
      BY <1>5, <3>1, <3>2, RemoveSummonSound
    <3> QED
      BY <1>4, <3>3 DEF LetGo, SameLists, SameSpawn
  <2> QED
    BY <2>1, <2>2
<1>8. r = RemoveCreature(left, m)
  BY <1>2, <1>6 DEF OnDeath
<1>9. Orderly(r, k, {}) /\ r.listed = left.listed /\ r.spawned = left.spawned
  BY <1>7, <1>8, RemoveCreatureSound
<1> QED
  BY <1>7, <1>9

\* And a record is left.
LEMMA OnDeathTyped ==
    ASSUME NEW g \in Records, NEW m \in Creature PROVE OnDeath(g, m) \in Records
<1>1. PICK died \in Records : died = DestroySummons(g, m)
  BY DestroySummonsTyped
<1>2. PICK left : left = IF died.master[m] # Nobody THEN RemoveSummon(died, died.master[m], m)
                         ELSE died
  OBVIOUS
<1>3. left \in Records
  <2>1. died.master[m] \in Creature \/ died.master[m] = Nobody
    BY DEF Records
  <2> QED
    BY <1>2, <2>1, RemoveSummonTyped
<1>4. OnDeath(g, m) = RemoveCreature(left, m)
  BY <1>1, <1>2 DEF OnDeath
<1> QED
  BY <1>3, <1>4, RemoveCreatureTyped

\* One who is no longer looked after leaves the list, which lets go of it later.
Unlisted(g, c, r) ==
    /\ r \in Records /\ r.refs = g.refs /\ r.world = g.world /\ r.alive = g.alive
    /\ r.listed = g.listed \ {c} /\ r.checked = g.checked /\ r.master = g.master
    /\ r.summons = g.summons /\ r.spawned = g.spawned /\ r.event = g.event
    /\ r.ofSpawn = g.ofSpawn
    /\ \A d \in Creature : r.releasing[d] = IF d = c THEN g.releasing[d] + 1 ELSE g.releasing[d]

\* It does.
LEMMA UnlistIs ==
    ASSUME NEW g \in Records, NEW c \in Creature, NEW r, r = Unlist(g, c)
    PROVE  Unlisted(g, c, r)
<1>1. r = [g EXCEPT !.listed = g.listed \ {c},
                    !.releasing = [g.releasing EXCEPT ![c] = g.releasing[c] + 1]]
  BY DEF Unlist, Records
<1>2. r.releasing = [g.releasing EXCEPT ![c] = g.releasing[c] + 1] /\ r.listed = g.listed \ {c}
  BY <1>1 DEF Records
<1>3. r.releasing \in [Creature -> Int] /\ r.listed \in SUBSET Creature
  BY <1>2 DEF Records
<1>4. r \in Records
  BY <1>1, <1>3 DEF Records
<1> QED
  BY <1>1, <1>2, <1>4 DEF Unlisted, Records

\* The reference of the list is released.
LEMMA UnlistSound ==
    ASSUME NEW g, NEW k, Orderly(g, k, {}), NEW c \in Creature, c \in g.listed, c \notin g.checked,
           NEW r, r = Unlist(g, c)
    PROVE  Orderly(r, k, {}) /\ r.listed = g.listed \ {c} /\ r.spawned = g.spawned
<1>1. g \in Records /\ Counted(g, k) /\ Related(g, {}) /\ LookedAfter(g) /\ SpawnKnows(g)
  BY DEF Orderly
<1>2. Unlisted(g, c, r)
  BY <1>1, UnlistIs
<1>3. /\ r \in Records /\ r.refs = g.refs /\ r.world = g.world /\ r.alive = g.alive
      /\ r.listed = g.listed \ {c} /\ r.checked = g.checked /\ r.master = g.master
      /\ r.summons = g.summons /\ r.spawned = g.spawned /\ r.event = g.event
      /\ r.ofSpawn = g.ofSpawn
      /\ \A d \in Creature : r.releasing[d] = IF d = c THEN g.releasing[d] + 1 ELSE g.releasing[d]
  BY <1>2 DEF Unlisted
<1>4. OfSpawn(r) = OfSpawn(g)
  BY <1>3 DEF OfSpawn
<1>5. Counted(r, k)
  <2>1. ASSUME NEW d \in Creature PROVE CountedOf(r, k, d)
    <3>1. CountedOf(g, k, d)
      BY <1>1 DEF Counted
    <3>2. CASE d = c
      <4>1. c \in g.listed /\ c \notin r.listed /\ r.releasing[c] = g.releasing[c] + 1
        BY <1>3
      <4> QED
        BY <1>3, <1>4, <3>1, <3>2, <4>1 DEF CountedOf
    <3>3. CASE d # c
      BY <1>3, <1>4, <3>1, <3>3 DEF CountedOf
    <3> QED
      BY <3>2, <3>3
  <2> QED
    BY <2>1 DEF Counted
<1>6. Related(r, {}) /\ LookedAfter(r) /\ SpawnKnows(r)
  BY <1>1, <1>3, <1>4 DEF Related, LookedAfter, SpawnKnows
<1> QED
  BY <1>3, <1>5, <1>6 DEF Orderly

\* Whatever one of the list is found to be, the others stay in it.
LEMMA CheckCreatureSound ==
    ASSUME NEW g, NEW k, Orderly(g, k, {}), NEW c \in Creature, c \in g.listed,
           NEW r, r = CheckCreature(g, c)
    PROVE  Orderly(r, k, {}) /\ g.listed \ {c} \subseteq r.listed /\ r.spawned = g.spawned
<1>1. CASE c \notin g.checked
  BY <1>1, UnlistSound DEF CheckCreature
<1>2. CASE c \in g.checked /\ c \in g.world \ g.alive
  BY <1>2, OnDeathSound DEF CheckCreature
<1>3. CASE c \in g.checked /\ c \notin g.world \ g.alive
  BY <1>3 DEF CheckCreature
<1> QED
  BY <1>1, <1>2, <1>3


\* h has the record when each part of a list has been checked.
Checks(b, S, h) ==
    h = [s \in SUBSET S |-> IF s = {} THEN b ELSE CheckCreature(h[s \ {SomeOf(s)}], SomeOf(s))]

Checkup(b, S) == CHOOSE h : Checks(b, S, h)

CheckAll(g, list) == FoldSet(LAMBDA c, x : CheckCreature(x, c), g, list)

\* It is the fold of the code's loop.
LEMMA CheckAllIs == ASSUME NEW g, NEW list PROVE CheckAll(g, list) = Checkup(g, list)[list]
  BY DEF CheckAll, FoldSet, MapThenFoldSet, Checks, Checkup, SomeOf

\* One by one.
LEMMA CheckedOneByOne ==
    ASSUME NEW b \in Records, NEW S \in SUBSET Creature, NEW f, f = Checkup(b, S)
    PROVE  /\ f[{}] = b
           /\ \A s \in SUBSET S : \A x \in s :
                x = SomeOf(s) => f[s] = CheckCreature(f[s \ {x}], x)
<1>1. PICK e : e = [x \in S \X Records |-> CheckCreature(x[2], x[1])]
  OBVIOUS
<1>2. ASSUME NEW c \in S, NEW x \in Records PROVE CheckCreature(x, c) \in Records
  <2>1. Unlist(x, c) \in Records
    BY UnlistIs DEF Unlisted
  <2> QED
    BY <2>1, OnDeathTyped DEF CheckCreature
<1>3. e \in [S \X Records -> Records]
  BY <1>1, <1>2
<1>4. PICK h \in [SUBSET S -> Records] : FoldsBy(e, b, S, h)
  BY <1>3, FoldInExists, CreaturesFinite
<1>5. ASSUME NEW s \in SUBSET S, s # {}
      PROVE  e[<<SomeOf(s), h[s \ {SomeOf(s)}]>>] = CheckCreature(h[s \ {SomeOf(s)}], SomeOf(s))
  <2>1. SomeOf(s) \in S /\ h[s \ {SomeOf(s)}] \in Records
    BY <1>4, <1>5 DEF SomeOf
  <2> QED
    BY <1>1, <2>1
<1>6. Checks(b, S, h)
  <2>1. h = [s \in SUBSET S |-> IF s = {} THEN b ELSE e[<<SomeOf(s), h[s \ {SomeOf(s)}]>>]]
    BY <1>4 DEF FoldsBy
  <2> QED
    BY <1>5, <2>1 DEF Checks
<1>7. Checks(b, S, f)
  BY <1>6 DEF Checkup
<1> QED
  BY <1>7 DEF Checks

\* A check of all who are in a list.
LEMMA CheckAllSound ==
    ASSUME NEW g, NEW k, Orderly(g, k, {}), NEW list \in SUBSET Creature, list \subseteq g.listed,
           NEW r, r = CheckAll(g, list)
    PROVE  Orderly(r, k, {}) /\ r.spawned = g.spawned
<1>1. PICK f : f = Checkup(g, list)
  OBVIOUS
<1>2. r = f[list] /\ g \in Records
  BY <1>1, CheckAllIs DEF Orderly
<1>3. /\ f[{}] = g
      /\ \A s \in SUBSET list : \A x \in s :
           x = SomeOf(s) => f[s] = CheckCreature(f[s \ {x}], x)
  BY <1>1, <1>2, CheckedOneByOne
<1>4. PICK Good : Good = [s \in SUBSET list |->
                             {h \in Records : /\ Orderly(h, k, {}) /\ list \ s \subseteq h.listed
                                              /\ h.spawned = g.spawned}]
  OBVIOUS
<1>5. ASSUME NEW s \in SUBSET list, NEW x \in s, x = SomeOf(s), f[s \ {x}] \in Good[s \ {x}]
      PROVE  f[s] \in Good[s]
  <2>1. PICK h : h = f[s \ {x}]
    OBVIOUS
  <2>2. Orderly(h, k, {}) /\ list \ (s \ {x}) \subseteq h.listed /\ x \in Creature /\ x \in h.listed
        /\ h.spawned = g.spawned
    BY <1>4, <1>5, <2>1
  <2>3. f[s] = CheckCreature(h, x)
    BY <1>3, <1>5, <2>1
  <2>4. Orderly(f[s], k, {}) /\ h.listed \ {x} \subseteq f[s].listed /\ f[s].spawned = h.spawned
    BY <2>2, <2>3, CheckCreatureSound
  <2>5. list \ s \subseteq f[s].listed
    BY <1>5, <2>2, <2>4
  <2> QED
    BY <1>4, <2>2, <2>4, <2>5 DEF Orderly
<1>6. f[{}] \in Good[{}]
  BY <1>2, <1>3, <1>4
<1>7. f[list] \in Good[list]
  BY <1>5, <1>6, CreaturesFinite, FoldIsGood
<1> QED
  BY <1>2, <1>4, <1>7

-----------------------------------------------------------------------------
\* A creature is let go of as often as it was released.
Release(g, h, c) ==
    IF g.releasing[c] = 0 THEN h
    ELSE Decrement([h EXCEPT !.refs[c] = @ - (g.releasing[c] - 1)], c)

\* h has the record when each part of those released has been.
Releases(g, b, S, h) ==
    h = [s \in SUBSET S |-> IF s = {} THEN b ELSE Release(g, h[s \ {SomeOf(s)}], SomeOf(s))]

Releasing(g, b, S) == CHOOSE h : Releases(g, b, S, h)

\* It is the fold of the code's loop.
LEMMA CleanupIs ==
    ASSUME NEW g
    PROVE  Cleanup(g)
             = Releasing(g, [g EXCEPT !.releasing = [c \in Creature |-> 0]], Creature)[Creature]
  BY DEF Cleanup, FoldSet, MapThenFoldSet, Releases, Releasing, Release, SomeOf

\* The references that are let go of at once.
Lessened(h, c, n, u) ==
    /\ u \in Records /\ SameLists(h, u) /\ SameSpawn(h, u) /\ u.releasing = h.releasing
    /\ u.master = h.master /\ u.summons = h.summons /\ u.ofSpawn = h.ofSpawn
    /\ \A d \in Creature : u.refs[d] = IF d = c THEN h.refs[d] - n ELSE h.refs[d]

\* They are.
LEMMA LessenedIs ==
    ASSUME NEW h \in Records, NEW c \in Creature, NEW n \in Int,
           NEW u, u = [h EXCEPT !.refs[c] = @ - n]
    PROVE  Lessened(h, c, n, u)
<1>1. u.refs = [h.refs EXCEPT ![c] = h.refs[c] - n]
  BY DEF Records
<1>2. u.refs \in [Creature -> Int]
  BY <1>1 DEF Records
<1>3. u \in Records
  BY <1>2 DEF Records
<1> QED
  BY <1>1, <1>3 DEF Lessened, Records, SameLists, SameSpawn

\* One is kept to be let go of.
LEMMA LessenedSound ==
    ASSUME NEW h, NEW k, Orderly(h, k, {}), NEW c \in Creature, NEW n \in Nat, n < k[c],
           NEW u, Lessened(h, c, n, u),
           NEW l, \A d \in Creature : l[d] = IF d = c THEN k[d] - n ELSE k[d]
    PROVE  Orderly(u, l, {})
<1>1. h \in Records /\ Counted(h, k) /\ Related(h, {}) /\ LookedAfter(h) /\ SpawnKnows(h)
  BY DEF Orderly
<1>2. /\ u \in Records /\ SameLists(h, u) /\ SameSpawn(h, u) /\ u.releasing = h.releasing
      /\ u.master = h.master /\ u.summons = h.summons /\ u.ofSpawn = h.ofSpawn
      /\ \A d \in Creature : u.refs[d] = IF d = c THEN h.refs[d] - n ELSE h.refs[d]
  BY DEF Lessened
<1>3. OfSpawn(u) = OfSpawn(h)
  BY <1>2 DEF OfSpawn, SameSpawn
<1>4. Counted(u, l)
  <2>1. ASSUME NEW d \in Creature PROVE CountedOf(u, l, d)
    <3>1. CountedOf(h, k, d)
      BY <1>1 DEF Counted
    <3>2. CASE d = c
      <4>1. u.refs[c] = h.refs[c] - n /\ l[c] = k[c] - n
        BY <1>2
      <4> QED
        BY <1>2, <1>3, <3>1, <3>2, <4>1 DEF CountedOf, SameLists
    <3>3. CASE d # c
      BY <1>2, <1>3, <3>1, <3>3 DEF CountedOf, SameLists
    <3> QED
      BY <3>2, <3>3
  <2> QED
    BY <2>1 DEF Counted
<1>5. u.refs[c] > 0
  <2>1. k[c] \in Nat /\ l[c] = k[c] - n /\ u.refs[c] \in Nat /\ u.refs[c] >= l[c] + u.releasing[c]
    BY <1>1, <1>4, AtLeast DEF Counted, CountedOf
  <2>2. u.releasing[c] \in Nat
    BY <1>4 DEF Counted, CountedOf
  <2> QED
    BY <2>1, <2>2
<1>6. \A d \in Creature : h.refs[d] > 0 => u.refs[d] > 0
  BY <1>2, <1>5
<1>7. Related(u, {})
  BY <1>1, <1>2, <1>6 DEF Related, SameLists, Records
<1>8. LookedAfter(u) /\ SpawnKnows(u)
  BY <1>1, <1>2, <1>3, <1>6 DEF LookedAfter, SpawnKnows, SameLists, SameSpawn, Records
<1> QED
  BY <1>2, <1>4, <1>7, <1>8 DEF Orderly

\* A record is left.
LEMMA ReleaseTyped ==
    ASSUME NEW g \in Records, NEW h \in Records, NEW c \in Creature
    PROVE  Release(g, h, c) \in Records
<1>1. PICK n \in Int : n = g.releasing[c] - 1
  BY DEF Records
<1>2. PICK u : u = [h EXCEPT !.refs[c] = @ - n]
  OBVIOUS
<1>3. u \in Records
  BY <1>2, LessenedIs DEF Lessened
<1>4. Decrement(u, c) \in Records
  BY <1>3, DecrementIs DEF Decremented
<1> QED
  BY <1>1, <1>2, <1>4 DEF Release

\* One by one.
LEMMA ReleasedOneByOne ==
    ASSUME NEW g \in Records, NEW b \in Records, NEW f, f = Releasing(g, b, Creature)
    PROVE  /\ f[{}] = b
           /\ \A s \in SUBSET Creature : \A x \in s :
                x = SomeOf(s) => f[s] = Release(g, f[s \ {x}], x)
<1>1. PICK e : e = [x \in Creature \X Records |-> Release(g, x[2], x[1])]
  OBVIOUS
<1>2. e \in [Creature \X Records -> Records]
  BY <1>1, ReleaseTyped
<1>3. PICK h \in [SUBSET Creature -> Records] : FoldsBy(e, b, Creature, h)
  BY <1>2, FoldInExists, CreaturesFinite
<1>4. ASSUME NEW s \in SUBSET Creature, s # {}
      PROVE  e[<<SomeOf(s), h[s \ {SomeOf(s)}]>>] = Release(g, h[s \ {SomeOf(s)}], SomeOf(s))
  <2>1. SomeOf(s) \in Creature /\ h[s \ {SomeOf(s)}] \in Records
    BY <1>3, <1>4 DEF SomeOf
  <2> QED
    BY <1>1, <2>1
<1>5. Releases(g, b, Creature, h)
  <2>1. h = [s \in SUBSET Creature |->
               IF s = {} THEN b ELSE e[<<SomeOf(s), h[s \ {SomeOf(s)}]>>]]
    BY <1>3 DEF FoldsBy
  <2> QED
    BY <1>4, <2>1 DEF Releases
<1>6. Releases(g, b, Creature, f)
  BY <1>5 DEF Releasing
<1> QED
  BY <1>6 DEF Releases

\* A cleanup lets go of all that were released, and of nobody else.
LEMMA CleanupSound ==
    ASSUME NEW g, Orderly(g, NothingOwed, {}), NEW r, r = Cleanup(g)
    PROVE  Orderly(r, NothingOwed, {}) /\ r.spawned = g.spawned
<1>1. g \in Records /\ Counted(g, NothingOwed) /\ Related(g, {}) /\ LookedAfter(g) /\ SpawnKnows(g)
  BY DEF Orderly
<1>2. PICK b : b = [g EXCEPT !.releasing = [c \in Creature |-> 0]]
  OBVIOUS
<1>3. /\ b \in Records /\ SameLists(g, b) /\ SameSpawn(g, b) /\ b.refs = g.refs
      /\ b.master = g.master /\ b.summons = g.summons /\ b.ofSpawn = g.ofSpawn
      /\ \A c \in Creature : b.releasing[c] = 0
  <2>1. b \in Records
    BY <1>1, <1>2 DEF Records
  <2> QED
    BY <1>1, <1>2, <2>1 DEF Records, SameLists, SameSpawn
<1>4. PICK K : K = [s \in SUBSET Creature |->
                       [c \in Creature |-> IF c \in s THEN 0 ELSE g.releasing[c]]]
  OBVIOUS
<1>5. Orderly(b, K[{}], {})
  <2>1. OfSpawn(b) = OfSpawn(g) /\ \A c \in Creature : K[{}][c] = g.releasing[c]
    BY <1>3, <1>4 DEF OfSpawn, SameSpawn
  <2>2. ASSUME NEW c \in Creature PROVE CountedOf(b, K[{}], c)
    <3>1. CountedOf(g, NothingOwed, c) /\ NothingOwed[c] = 0
      BY <1>1 DEF Counted, NothingOwed
    <3> QED
      BY <1>3, <2>1, <3>1 DEF CountedOf, SameLists
  <2>3. Related(b, {}) /\ LookedAfter(b) /\ SpawnKnows(b)
    BY <1>1, <1>3, <2>1 DEF Related, LookedAfter, SpawnKnows, SameLists, SameSpawn
  <2> QED
    BY <1>3, <2>2, <2>3 DEF Orderly, Counted
<1>6. PICK f : f = Releasing(g, b, Creature)
  OBVIOUS
<1>7. r = f[Creature]
  <2>1. r = Releasing(g, [g EXCEPT !.releasing = [c \in Creature |-> 0]], Creature)[Creature]
    BY CleanupIs
  <2> QED
    BY <1>2, <1>6, <2>1
<1>8. /\ f[{}] = b
      /\ \A s \in SUBSET Creature : \A x \in s :
           x = SomeOf(s) => f[s] = Release(g, f[s \ {x}], x)
  BY <1>1, <1>3, <1>6, ReleasedOneByOne
<1>9. PICK Good : Good = [s \in SUBSET Creature |->
                            {h \in Records : Orderly(h, K[s], {}) /\ h.spawned = g.spawned}]
  OBVIOUS
<1>10. ASSUME NEW s \in SUBSET Creature, NEW x \in s, x = SomeOf(s), f[s \ {x}] \in Good[s \ {x}]
       PROVE  f[s] \in Good[s]
  <2>1. PICK h : h = f[s \ {x}]
    OBVIOUS
  <2>2. PICK k : k = K[s \ {x}]
    OBVIOUS
  <2>3. PICK l : l = K[s]
    OBVIOUS
  <2>4. Orderly(h, k, {}) /\ x \in Creature /\ h.spawned = g.spawned
    BY <1>9, <1>10, <2>1, <2>2
  <2>5. f[s] = Release(g, h, x)
    BY <1>8, <1>10, <2>1
  <2>6. /\ k = [c \in Creature |-> IF c \in s \ {x} THEN 0 ELSE g.releasing[c]]
        /\ l = [c \in Creature |-> IF c \in s THEN 0 ELSE g.releasing[c]]
    BY <1>4, <2>2, <2>3
  <2>7. CASE g.releasing[x] = 0
    <3>1. k = l
      BY <2>6, <2>7
    <3> QED
      BY <1>9, <2>3, <2>4, <2>5, <2>7, <3>1 DEF Release, Orderly
  <2>8. CASE g.releasing[x] # 0
    <3>1. k[x] = g.releasing[x] /\ k[x] \in Nat
      BY <2>4, <2>6 DEF Orderly, Counted, CountedOf
    <3>2. PICK n \in Nat : n = g.releasing[x] - 1
      BY <2>8, <3>1
    <3>3. PICK u : u = [h EXCEPT !.refs[x] = @ - n]
      OBVIOUS
    <3>4. Lessened(h, x, n, u)
      BY <2>4, <3>3, LessenedIs DEF Orderly
    <3>5. PICK o : o = [c \in Creature |-> IF c = x THEN k[c] - n ELSE k[c]]
      OBVIOUS
    <3>6. Orderly(u, o, {})
      <4>1. n < k[x] /\ \A c \in Creature : o[c] = IF c = x THEN k[c] - n ELSE k[c]
        BY <3>1, <3>2, <3>5
      <4> QED
        BY <2>4, <3>4, <4>1, LessenedSound
    <3>7. o[x] > 0 /\ \A c \in Creature : l[c] = IF c = x THEN o[c] - 1 ELSE o[c]
      BY <2>6, <3>1, <3>2, <3>5
    <3>8. f[s] = Decrement(u, x)
      BY <2>5, <2>8, <3>2, <3>3 DEF Release
    <3>9. Orderly(f[s], l, {})
      BY <2>4, <3>6, <3>7, <3>8, DecrementSound
    <3>10. f[s].spawned = u.spawned
      <4>1. Decremented(u, x, f[s])
        BY <2>4, <3>4, <3>8, DecrementIs DEF Lessened
      <4> QED
        BY <4>1 DEF Decremented, SameSpawn
    <3> QED
      BY <1>9, <2>3, <2>4, <3>4, <3>9, <3>10 DEF Orderly, Lessened, SameSpawn
  <2> QED
    BY <2>7, <2>8
<1>11. f[{}] \in Good[{}]
  BY <1>3, <1>5, <1>8, <1>9 DEF SameSpawn
<1>12. f[Creature] \in Good[Creature]
  BY <1>10, <1>11, CreaturesFinite, FoldIsGood
<1>13. K[Creature] = NothingOwed
  BY <1>4 DEF NothingOwed
<1> QED
  BY <1>7, <1>9, <1>12, <1>13


-----------------------------------------------------------------------------
(***************************************************************************)
(* Those who come into the game.                                           *)
(***************************************************************************)
\* Nothing is held of one that was freed, and nothing points to it.
Unheld(g, c) ==
    /\ c \notin g.world /\ c \notin g.listed /\ c \notin OfSpawn(g) /\ c \notin g.ofSpawn
    /\ g.master[c] = Nobody /\ \A d \in Creature : g.master[d] # c

\* It is as if it were new.
LEMMA FreedIsFresh ==
    ASSUME NEW g, NEW k, Orderly(g, k, {}), NEW c \in Creature, g.refs[c] = 0 PROVE Unheld(g, c)
<1>1. g \in Records /\ Counted(g, k) /\ Related(g, {}) /\ SpawnKnows(g)
  BY DEF Orderly
<1>2. c \notin g.world /\ c \notin g.listed /\ c \notin OfSpawn(g) /\ g.master[c] = Nobody
  BY <1>1 DEF Counted, CountedOf
<1>3. c \notin g.ofSpawn
  BY <1>1 DEF SpawnKnows
<1>4. \A d \in Creature : g.master[d] # c
  BY <1>1, CreatureAssumption DEF Related
<1> QED
  BY <1>2, <1>3, <1>4 DEF Unheld

\* A new one in the game, alive and looked after.
PutInGame(g, c, r) ==
    /\ r \in Records /\ SameSpawn(g, r) /\ r.releasing = g.releasing
    /\ r.master = g.master /\ r.summons = g.summons /\ r.ofSpawn = g.ofSpawn
    /\ r.world = g.world \cup {c} /\ r.alive = g.alive \cup {c}
    /\ r.listed = g.listed \cup {c} /\ r.checked = g.checked \cup {c}
    /\ \A d \in Creature : r.refs[d] = IF d = c THEN g.refs[d] + 2 ELSE g.refs[d]

\* It is.
LEMMA PlacedIs ==
    ASSUME NEW g \in Records, NEW c \in Creature, c \notin g.listed, NEW r, r = PlaceCreature(g, c)
    PROVE  PutInGame(g, c, r)
<1>1. PICK u : u = [g EXCEPT !.world = @ \cup {c}, !.alive = @ \cup {c}, !.refs[c] = @ + 1]
  OBVIOUS
<1>2. u.refs = [g.refs EXCEPT ![c] = g.refs[c] + 1] /\ u.world = g.world \cup {c}
      /\ u.alive = g.alive \cup {c}
  BY <1>1 DEF Records
<1>3. u.refs \in [Creature -> Int] /\ u.world \in SUBSET Creature /\ u.alive \in SUBSET Creature
  BY <1>2 DEF Records
<1>4. u \in Records
  BY <1>1, <1>3 DEF Records
<1>5. r = AddCreatureCheck(u, c)
  BY <1>1 DEF PlaceCreature
<1>6. CheckAdded(u, c, r)
  BY <1>4, <1>5, AddCheckIs
<1>7. /\ u.spawned = g.spawned /\ u.event = g.event /\ u.releasing = g.releasing
      /\ u.master = g.master /\ u.summons = g.summons /\ u.ofSpawn = g.ofSpawn
      /\ u.listed = g.listed /\ u.checked = g.checked
      /\ \A d \in Creature : u.refs[d] = IF d = c THEN g.refs[d] + 1 ELSE g.refs[d]
  BY <1>1, <1>2 DEF Records
<1>8. /\ r \in Records /\ SameSpawn(u, r) /\ r.releasing = u.releasing
      /\ r.world = u.world /\ r.alive = u.alive /\ r.master = u.master
      /\ r.summons = u.summons /\ r.ofSpawn = u.ofSpawn
      /\ r.checked = u.checked \cup {c} /\ r.listed = u.listed \cup {c}
      /\ \A d \in Creature :
            r.refs[d] = u.refs[d] + (IF d = c /\ c \notin u.listed THEN 1 ELSE 0)
  BY <1>6 DEF CheckAdded
<1>9. \A d \in Creature : r.refs[d] = IF d = c THEN g.refs[d] + 2 ELSE g.refs[d]
  <2>1. \A d \in Creature : g.refs[d] \in Int
    BY DEF Records
  <2> QED
    BY <1>7, <1>8, <2>1
<1> QED
  BY <1>2, <1>7, <1>8, <1>9 DEF PutInGame, SameSpawn

\* The game and the list hold it.
LEMMA PlaceSound ==
    ASSUME NEW g, NEW k, Orderly(g, k, {}), NEW c \in Creature, Unheld(g, c),
           NEW r, PutInGame(g, c, r)
    PROVE  Orderly(r, k, {})
<1>1. g \in Records /\ Counted(g, k) /\ Related(g, {}) /\ LookedAfter(g) /\ SpawnKnows(g)
  BY DEF Orderly
<1>2. /\ r \in Records /\ r.spawned = g.spawned /\ r.event = g.event /\ r.releasing = g.releasing
      /\ r.master = g.master /\ r.summons = g.summons /\ r.ofSpawn = g.ofSpawn
      /\ r.world = g.world \cup {c} /\ r.alive = g.alive \cup {c}
      /\ r.listed = g.listed \cup {c} /\ r.checked = g.checked \cup {c}
      /\ \A d \in Creature : r.refs[d] = IF d = c THEN g.refs[d] + 2 ELSE g.refs[d]
  BY DEF PutInGame, SameSpawn
<1>3. OfSpawn(r) = OfSpawn(g) /\ \A d \in Creature : g.refs[d] > 0 => r.refs[d] > 0
  BY <1>1, <1>2 DEF OfSpawn, Records
<1>4. Counted(r, k)
  <2>1. ASSUME NEW d \in Creature PROVE CountedOf(r, k, d)
    <3>1. CountedOf(g, k, d)
      BY <1>1 DEF Counted
    <3>2. CASE d = c
      <4>1. c \notin g.world /\ c \notin g.listed /\ c \in r.world /\ c \in r.listed
            /\ r.refs[c] = g.refs[c] + 2
        BY <1>2 DEF Unheld
      <4> QED
        BY <1>2, <1>3, <3>1, <3>2, <4>1 DEF CountedOf
    <3>3. CASE d # c
      BY <1>2, <1>3, <3>1, <3>3 DEF CountedOf
    <3> QED
      BY <3>2, <3>3
  <2> QED
    BY <2>1 DEF Counted
<1>5. Related(r, {})
  BY <1>1, <1>2, <1>3 DEF Related, Unheld, Records
<1>6. LookedAfter(r) /\ SpawnKnows(r)
  BY <1>1, <1>2, <1>3 DEF LookedAfter, SpawnKnows, Unheld, Records
<1> QED
  BY <1>2, <1>4, <1>5, <1>6 DEF Orderly

\* A master has one more summon.
SummonAdded(g, m, s, r) ==
    /\ r \in Records /\ SameLists(g, r) /\ SameSpawn(g, r) /\ r.releasing = g.releasing
    /\ r.ofSpawn = g.ofSpawn
    /\ \A d \in Creature :
          /\ r.master[d] = IF d = s THEN m ELSE g.master[d]
          /\ r.summons[d] = IF d = m THEN g.summons[d] \cup {s} ELSE g.summons[d]
          /\ r.refs[d] = IF d = s THEN g.refs[d] + 1 ELSE g.refs[d]

\* It has.
LEMMA AddSummonIs ==
    ASSUME NEW g \in Records, NEW m \in Creature, NEW s \in Creature,
           NEW r, r = AddSummon(g, m, s)
    PROVE  SummonAdded(g, m, s, r)
<1>1. r = [g EXCEPT !.master[s] = m, !.summons[m] = @ \cup {s}, !.refs[s] = @ + 1]
  BY DEF AddSummon
<1>2. /\ r.master = [g.master EXCEPT ![s] = m]
      /\ r.summons = [g.summons EXCEPT ![m] = g.summons[m] \cup {s}]
      /\ r.refs = [g.refs EXCEPT ![s] = g.refs[s] + 1]
  BY <1>1 DEF Records
<1>3. /\ r.master \in [Creature -> Creature \cup {Nobody}]
      /\ r.summons \in [Creature -> SUBSET Creature] /\ r.refs \in [Creature -> Int]
  BY <1>2 DEF Records
<1>4. r \in Records
  BY <1>1, <1>3 DEF Records
<1>5. \A d \in Creature :
          /\ r.master[d] = IF d = s THEN m ELSE g.master[d]
          /\ r.summons[d] = IF d = m THEN g.summons[d] \cup {s} ELSE g.summons[d]
          /\ r.refs[d] = IF d = s THEN g.refs[d] + 1 ELSE g.refs[d]
  BY <1>2 DEF Records
<1> QED
  BY <1>1, <1>4, <1>5 DEF SummonAdded, Records, SameLists, SameSpawn

\* One in the game becomes the summon of another; what it summoned itself, and
\* its spawn, go in what follows.
LEMMA SummonAddedSound ==
    ASSUME NEW g, NEW k, Orderly(g, k, {}), NEW m \in Creature, NEW s \in Monsters, s # m,
           g.master[m] = Nobody, g.master[s] = Nobody, m \in g.world, s \in g.world,
           NEW N, s \in N \/ (s \notin g.ofSpawn /\ \A d \in Creature : g.master[d] # s),
           NEW r, SummonAdded(g, m, s, r)
    PROVE  Orderly(r, k, N) /\ r.summons[s] = {d \in Creature : r.master[d] = s}
<1>1. g \in Records /\ Counted(g, k) /\ Related(g, {}) /\ LookedAfter(g) /\ SpawnKnows(g)
  BY DEF Orderly
<1>2. /\ r \in Records /\ SameLists(g, r) /\ SameSpawn(g, r) /\ r.releasing = g.releasing
      /\ r.ofSpawn = g.ofSpawn
      /\ \A d \in Creature :
            /\ r.master[d] = IF d = s THEN m ELSE g.master[d]
            /\ r.summons[d] = IF d = m THEN g.summons[d] \cup {s} ELSE g.summons[d]
            /\ r.refs[d] = IF d = s THEN g.refs[d] + 1 ELSE g.refs[d]
  BY DEF SummonAdded
<1>3. OfSpawn(r) = OfSpawn(g) /\ s \in Creature /\ m # Nobody /\ m \in g.world /\ s \in g.world
  BY <1>2, CreatureAssumption DEF OfSpawn, SameSpawn, Creature
<1>4. Counted(r, k)
  <2>1. ASSUME NEW d \in Creature PROVE CountedOf(r, k, d)
    <3>1. CountedOf(g, k, d)
      BY <1>1 DEF Counted
    <3>2. CASE d = s
      <4>1. r.master[s] # Nobody /\ r.refs[s] = g.refs[s] + 1
        BY <1>2, <1>3
      <4> QED
        BY <1>2, <1>3, <3>1, <3>2, <4>1 DEF CountedOf, SameLists
    <3>3. CASE d # s
      BY <1>2, <1>3, <3>1, <3>3 DEF CountedOf, SameLists
    <3> QED
      BY <3>2, <3>3
  <2> QED
    BY <2>1 DEF Counted
<1>5. ASSUME NEW d \in Creature, g.refs[d] > 0 PROVE r.refs[d] > 0
  <2>1. g.refs[d] \in Int /\ r.refs[d] = IF d = s THEN g.refs[d] + 1 ELSE g.refs[d]
    BY <1>1, <1>2 DEF Records
  <2> QED
    BY <1>5, <2>1
<1>6. g.refs[m] > 0
  <2>1. k[m] \in Nat /\ g.releasing[m] \in Nat
    BY <1>1 DEF Counted, CountedOf
  <2> QED
    BY <1>1, <1>3, <2>1, AtLeast
<1>7. ASSUME NEW x \in Creature PROVE r.summons[x] = {d \in Creature : r.master[d] = x}
  <2>1. g.summons[x] = {d \in Creature : g.master[d] = x} /\ x # Nobody
    BY <1>1, CreatureAssumption DEF Related
  <2>2. CASE x = m
    <3>1. \A d \in Creature : r.master[d] = x <=> d = s \/ g.master[d] = x
      BY <1>2, <2>2
    <3>2. r.summons[x] = g.summons[x] \cup {s}
      BY <1>2, <2>2
    <3> QED
      BY <1>3, <2>1, <3>1, <3>2
  <2>3. CASE x # m
    <3>1. \A d \in Creature : r.master[d] = x <=> g.master[d] = x
      BY <1>2, <2>1, <2>3
    <3>2. r.summons[x] = g.summons[x]
      BY <1>2, <2>3
    <3> QED
      BY <2>1, <3>1, <3>2
  <2> QED
    BY <2>2, <2>3
<1>8. ASSUME NEW d \in Creature, r.master[d] # Nobody
      PROVE  /\ d \in Monsters /\ r.master[d] # d /\ r.refs[r.master[d]] > 0
             /\ r.master[d] \notin N => r.master[r.master[d]] = Nobody
             /\ d \notin N => d \notin r.ofSpawn
             /\ d \notin r.world => r.master[d] \notin r.world
  <2>1. CASE d = s
    <3>1. r.master[d] = m /\ r.master[m] = Nobody /\ r.refs[m] > 0
      BY <1>2, <1>5, <1>6, <2>1
    <3> QED
      BY <1>2, <1>3, <2>1, <3>1 DEF SameLists
  <2>2. CASE d # s
    <3>1. r.master[d] = g.master[d] /\ g.master[d] \in Creature
      BY <1>1, <1>2, <1>8, <2>2 DEF Records
    <3>2. /\ d \in Monsters /\ g.master[d] # d /\ g.refs[g.master[d]] > 0
          /\ g.master[g.master[d]] = Nobody /\ d \notin g.ofSpawn
          /\ d \notin g.world => g.master[d] \notin g.world
      BY <1>1, <1>8, <3>1 DEF Related
    <3>3. r.refs[g.master[d]] > 0 /\ (g.master[d] \notin N => g.master[d] # s)
      BY <1>5, <3>1, <3>2
    <3> QED
      BY <1>2, <3>1, <3>2, <3>3 DEF SameLists
  <2> QED
    BY <2>1, <2>2
<1>9. Related(r, N)
  BY <1>7, <1>8 DEF Related
<1>10. LookedAfter(r) /\ SpawnKnows(r)
  BY <1>1, <1>2, <1>3, <1>5 DEF LookedAfter, SpawnKnows, SameLists, SameSpawn, Records
<1> QED
  BY <1>2, <1>3, <1>4, <1>7, <1>9, <1>10 DEF Orderly


-----------------------------------------------------------------------------
(***************************************************************************)
(* The spawn.                                                              *)
(***************************************************************************)
\* A new monster of the spawn.
Spawned(g, id, m, r) ==
    /\ r \in Records /\ SameLists(g, r) /\ r.event = g.event /\ r.releasing = g.releasing
    /\ r.master = g.master /\ r.summons = g.summons
    /\ r.spawned = g.spawned \cup {<<id, m>>} /\ r.ofSpawn = g.ofSpawn \cup {m}
    /\ \A d \in Creature : r.refs[d] = IF d = m THEN g.refs[d] + 1 ELSE g.refs[d]

\* The spawn holds it.
LEMMA SpawnedSound ==
    ASSUME NEW g, NEW k, Orderly(g, k, {}), NEW m \in Monsters, m \in g.world, m \notin g.ofSpawn,
           g.master[m] = Nobody, NEW id, NEW r, Spawned(g, id, m, r)
    PROVE  Orderly(r, k, {})
<1>1. g \in Records /\ Counted(g, k) /\ Related(g, {}) /\ LookedAfter(g) /\ SpawnKnows(g)
  BY DEF Orderly
<1>2. /\ r \in Records /\ SameLists(g, r) /\ r.event = g.event /\ r.releasing = g.releasing
      /\ r.master = g.master /\ r.summons = g.summons
      /\ r.spawned = g.spawned \cup {<<id, m>>} /\ r.ofSpawn = g.ofSpawn \cup {m}
      /\ \A d \in Creature : r.refs[d] = IF d = m THEN g.refs[d] + 1 ELSE g.refs[d]
  BY DEF Spawned
<1>3. m \in Creature /\ OfSpawn(r) = OfSpawn(g) \cup {m} /\ m \notin OfSpawn(g)
  <2>1. <<id, m>>[2] = m /\ m \notin OfSpawn(g) /\ m \in Creature
    BY <1>1 DEF Creature, SpawnKnows
  <2>2. OfSpawn(r) = OfSpawn(g) \cup {<<id, m>>[2]}
    BY <1>2 DEF OfSpawn
  <2> QED
    BY <2>1, <2>2
<1>4. Counted(r, k)
  <2>1. ASSUME NEW d \in Creature PROVE CountedOf(r, k, d)
    <3>1. CountedOf(g, k, d)
      BY <1>1 DEF Counted
    <3>2. CASE d = m
      <4>1. r.refs[m] = g.refs[m] + 1 /\ m \in OfSpawn(r) /\ m \notin OfSpawn(g)
        BY <1>2, <1>3
      <4> QED
        BY <1>2, <3>1, <3>2, <4>1 DEF CountedOf, SameLists
    <3>3. CASE d # m
      BY <1>2, <1>3, <3>1, <3>3 DEF CountedOf, SameLists
    <3> QED
      BY <3>2, <3>3
  <2> QED
    BY <2>1 DEF Counted
<1>5. ASSUME NEW d \in Creature, g.refs[d] > 0 PROVE r.refs[d] > 0
  <2>1. g.refs[d] \in Int /\ r.refs[d] = IF d = m THEN g.refs[d] + 1 ELSE g.refs[d]
    BY <1>1, <1>2 DEF Records
  <2> QED
    BY <1>5, <2>1
<1>6. Related(r, {})
  <2>1. \A d \in Creature : g.master[d] # Nobody => d \notin r.ofSpawn /\ g.master[d] \in Creature
    BY <1>1, <1>2 DEF Related, Records
  <2> QED
    BY <1>1, <1>2, <1>5, <2>1 DEF Related, SameLists
<1>7. LookedAfter(r)
  BY <1>1, <1>2 DEF LookedAfter, SameLists
<1>8. SpawnKnows(r)
  <2>1. r.refs[m] > 0
    <3>1. k[m] \in Nat /\ g.releasing[m] \in Nat
      BY <1>1, <1>3 DEF Counted, CountedOf
    <3> QED
      BY <1>1, <1>3, <1>5, <3>1, AtLeast
  <2>2. \A d \in r.ofSpawn : r.refs[d] > 0
    BY <1>1, <1>2, <1>5, <2>1 DEF SpawnKnows, Records
  <2>3. \A d \in g.spawned : d[2] # m
    BY <1>3 DEF OfSpawn
  <2>4. ASSUME NEW d \in r.spawned, NEW e \in r.spawned, d[2] = e[2]
        PROVE  d = e
    <3>1. CASE d \in g.spawned /\ e \in g.spawned
      BY <1>1, <2>4, <3>1 DEF SpawnKnows
    <3>2. CASE d = <<id, m>> /\ e = <<id, m>>
      BY <3>2
    <3>3. CASE d = <<id, m>> /\ e \in g.spawned
      BY <2>3, <2>4, <3>3
    <3>4. CASE d \in g.spawned /\ e = <<id, m>>
      BY <2>3, <2>4, <3>4
    <3> QED
      BY <1>2, <3>1, <3>2, <3>3, <3>4
  <2> QED
    BY <1>1, <1>2, <1>3, <2>2, <2>4 DEF SpawnKnows, SameLists
<1> QED
  BY <1>2, <1>4, <1>6, <1>7, <1>8 DEF Orderly

\* A new monster, at whatever place.
LEMMA SpawnMonsterSound ==
    ASSUME NEW g, Orderly(g, NothingOwed, {}), NEW m \in Monsters, g.refs[m] = 0,
           NEW id \in Nat, NEW r, r = SpawnMonster(g, id, m)
    PROVE  /\ Orderly(r, NothingOwed, {}) /\ r.spawned = g.spawned \cup {<<id, m>>}
           /\ r.event = g.event /\ r.world = g.world \cup {m}
<1>1. m \in Creature /\ g \in Records
  BY DEF Creature, Orderly
<1>2. Unheld(g, m)
  BY <1>1, FreedIsFresh
<1>3. PICK p : p = PlaceCreature(g, m)
  OBVIOUS
<1>4. PutInGame(g, m, p)
  BY <1>1, <1>2, <1>3, PlacedIs DEF Unheld
<1>5. Orderly(p, NothingOwed, {})
  BY <1>1, <1>2, <1>4, PlaceSound
<1>6. r = [p EXCEPT !.spawned = @ \cup {<<id, m>>}, !.ofSpawn = @ \cup {m}, !.refs[m] = @ + 1]
  BY <1>3 DEF SpawnMonster
<1>7. Spawned(p, id, m, r)
  <2>1. p \in Records
    BY <1>5 DEF Orderly
  <2>2. r.refs = [p.refs EXCEPT ![m] = p.refs[m] + 1] /\ r.ofSpawn = p.ofSpawn \cup {m}
        /\ r.spawned = p.spawned \cup {<<id, m>>}
    BY <1>6, <2>1 DEF Records
  <2>3. r.refs \in [Creature -> Int] /\ r.ofSpawn \in SUBSET Creature
        /\ r.spawned \in SUBSET (Nat \X Creature)
    BY <1>1, <2>1, <2>2 DEF Records
  <2>4. r \in Records
    BY <1>6, <2>1, <2>3 DEF Records
  <2>5. \A d \in Creature : r.refs[d] = IF d = m THEN p.refs[d] + 1 ELSE p.refs[d]
    BY <2>1, <2>2 DEF Records
  <2> QED
    BY <1>6, <2>1, <2>2, <2>4, <2>5 DEF Spawned, Records, SameLists
<1>8. m \in p.world /\ m \notin p.ofSpawn /\ p.master[m] = Nobody
      /\ p.spawned = g.spawned /\ p.event = g.event /\ p.world = g.world \cup {m}
  BY <1>2, <1>4 DEF PutInGame, Unheld, SameSpawn
<1>9. Orderly(r, NothingOwed, {})
  BY <1>5, <1>7, <1>8, SpawnedSound
<1> QED
  BY <1>7, <1>8, <1>9 DEF Spawned, SameLists

\* The spawn is looked after again, or not, when all it holds are in the game.
LEMMA EventSound ==
    ASSUME NEW g, Orderly(g, NothingOwed, {}), OfSpawn(g) \subseteq g.world, NEW p \in BOOLEAN,
           NEW r, r = [g EXCEPT !.event = p]
    PROVE  Orderly(r, NothingOwed, {}) /\ r.spawned = g.spawned
<1>1. g \in Records /\ Counted(g, NothingOwed) /\ Related(g, {}) /\ LookedAfter(g) /\ SpawnKnows(g)
  BY DEF Orderly
<1>2. /\ r \in Records /\ r.refs = g.refs /\ r.world = g.world /\ r.alive = g.alive
      /\ r.listed = g.listed /\ r.checked = g.checked /\ r.master = g.master
      /\ r.summons = g.summons /\ r.spawned = g.spawned /\ r.ofSpawn = g.ofSpawn
      /\ r.releasing = g.releasing
  BY <1>1 DEF Records
<1>3. OfSpawn(r) = OfSpawn(g)
  BY <1>2 DEF OfSpawn
<1>4. Counted(r, NothingOwed)
  BY <1>1, <1>2, <1>3 DEF Counted, CountedOf
<1>5. Related(r, {}) /\ LookedAfter(r) /\ SpawnKnows(r)
  BY <1>1, <1>2, <1>3 DEF Related, LookedAfter, SpawnKnows
<1> QED
  BY <1>2, <1>4, <1>5 DEF Orderly

\* h has the record when each part of those who are gone has been let go of.
LetsGo(b, S, h) ==
    h = [s \in SUBSET S |-> IF s = {} THEN b ELSE Decrement(h[s \ {SomeOf(s)}], SomeOf(s))]

LettingGo(b, S) == CHOOSE h : LetsGo(b, S, h)

Strayed(g, far, gone) ==
    [g EXCEPT !.spawned = {IF e[2] \in far THEN <<0, e[2]>> ELSE e
                             : e \in {e \in g.spawned : e[2] \notin gone}}]

\* It is the fold of the code's loop.
LEMMA SpawnCleanupIs ==
    ASSUME NEW g, NEW far
    PROVE  SpawnCleanup(g, far)
             = LettingGo(Strayed(g, far, OfSpawn(g) \ g.world),
                         OfSpawn(g) \ g.world)[OfSpawn(g) \ g.world]
  BY DEF SpawnCleanup, FoldSet, MapThenFoldSet, LetsGo, LettingGo, Strayed, OfSpawn, SomeOf

\* One by one.
LEMMA LetGoOneByOne ==
    ASSUME NEW b \in Records, NEW S \in SUBSET Creature, NEW f, f = LettingGo(b, S)
    PROVE  /\ f[{}] = b
           /\ \A s \in SUBSET S : \A x \in s : x = SomeOf(s) => f[s] = Decrement(f[s \ {x}], x)
<1>1. PICK e : e = [x \in S \X Records |-> Decrement(x[2], x[1])]
  OBVIOUS
<1>2. ASSUME NEW c \in S, NEW x \in Records PROVE Decrement(x, c) \in Records
  BY DecrementIs DEF Decremented
<1>3. e \in [S \X Records -> Records]
  BY <1>1, <1>2
<1>4. PICK h \in [SUBSET S -> Records] : FoldsBy(e, b, S, h)
  BY <1>3, FoldInExists, CreaturesFinite
<1>5. ASSUME NEW s \in SUBSET S, s # {}
      PROVE  e[<<SomeOf(s), h[s \ {SomeOf(s)}]>>] = Decrement(h[s \ {SomeOf(s)}], SomeOf(s))
  <2>1. SomeOf(s) \in S /\ h[s \ {SomeOf(s)}] \in Records
    BY <1>4, <1>5 DEF SomeOf
  <2> QED
    BY <1>1, <2>1
<1>6. LetsGo(b, S, h)
  <2>1. h = [s \in SUBSET S |-> IF s = {} THEN b ELSE e[<<SomeOf(s), h[s \ {SomeOf(s)}]>>]]
    BY <1>4 DEF FoldsBy
  <2> QED
    BY <1>5, <2>1 DEF LetsGo
<1>7. LetsGo(b, S, f)
  BY <1>6 DEF LettingGo
<1> QED
  BY <1>7 DEF LetsGo


\* What the spawn holds once those who are gone have made room.
StrayedFrom(g, gone, b) ==
    /\ b \in Records /\ SameLists(g, b) /\ b.event = g.event /\ b.releasing = g.releasing
    /\ b.refs = g.refs /\ b.master = g.master /\ b.summons = g.summons /\ b.ofSpawn = g.ofSpawn
    /\ OfSpawn(b) = OfSpawn(g) \ gone
    /\ \A d, e \in g.spawned : d[2] = e[2] => d = e
    /\ \A d, e \in b.spawned : d[2] = e[2] => d = e
    /\ \A d \in b.spawned : d \in g.spawned \/ d[1] = 0

\* Each of those who stay is held once, as before.
LEMMA StrayedIs ==
    ASSUME NEW g \in Records, NEW far, NEW gone,
           \A d, e \in g.spawned : d[2] = e[2] => d = e,
           NEW b, b = Strayed(g, far, gone)
    PROVE  StrayedFrom(g, gone, b)
<1> DEFINE Goes(e) == IF e[2] \in far THEN <<0, e[2]>> ELSE e
<1>1. b = [g EXCEPT !.spawned = {Goes(e) : e \in {e \in g.spawned : e[2] \notin gone}}]
  BY DEF Strayed
<1>2. b.spawned = {Goes(e) : e \in {e \in g.spawned : e[2] \notin gone}}
  BY <1>1 DEF Records
<1>3. ASSUME NEW e \in g.spawned
      PROVE  /\ Goes(e) \in Nat \X Creature /\ Goes(e)[2] = e[2]
             /\ Goes(e) = e \/ Goes(e)[1] = 0
  BY DEF Records
<1> HIDE DEF Goes
<1>4. b.spawned \in SUBSET (Nat \X Creature)
  BY <1>2, <1>3
<1>5. b \in Records
  BY <1>1, <1>2, <1>4 DEF Records
<1>6. OfSpawn(b) = OfSpawn(g) \ gone
  BY <1>2, <1>3 DEF OfSpawn
<1>7. ASSUME NEW d \in b.spawned, NEW e \in b.spawned, d[2] = e[2]
      PROVE  d = e
  <2>1. PICK x \in g.spawned, y \in g.spawned : d = Goes(x) /\ e = Goes(y)
    BY <1>2
  <2>2. x[2] = y[2]
    BY <1>3, <1>7, <2>1
  <2> QED
    BY <2>1, <2>2
<1>8. \A d \in b.spawned : d \in g.spawned \/ d[1] = 0
  BY <1>2, <1>3
<1> QED
  BY <1>1, <1>5, <1>6, <1>7, <1>8 DEF StrayedFrom, Records, SameLists

\* A spawn that has let go of those who are gone holds monsters of the game.
LEMMA SpawnCleanupSound ==
    ASSUME NEW g, Orderly(g, NothingOwed, {}), NEW far, NEW r,
           r = SpawnCleanup([g EXCEPT !.event = FALSE], far)
    PROVE  /\ Orderly(r, NothingOwed, {}) /\ OfSpawn(r) \subseteq r.world
           /\ \A d \in r.spawned : d \in g.spawned \/ d[1] = 0
<1>1. g \in Records /\ Counted(g, NothingOwed) /\ Related(g, {}) /\ LookedAfter(g) /\ SpawnKnows(g)
  BY DEF Orderly
<1>2. PICK q : q = [g EXCEPT !.event = FALSE]
  OBVIOUS
<1>3. /\ q \in Records /\ SameLists(g, q) /\ q.spawned = g.spawned /\ q.releasing = g.releasing
      /\ q.refs = g.refs /\ q.master = g.master /\ q.summons = g.summons /\ q.ofSpawn = g.ofSpawn
  <2>1. q \in Records
    BY <1>1, <1>2 DEF Records
  <2> QED
    BY <1>1, <1>2, <2>1 DEF Records, SameLists
<1>4. PICK gone \in SUBSET Creature : gone = OfSpawn(q) \ q.world
  <2>1. \A e \in q.spawned : e[2] \in Creature
    BY <1>3 DEF Records
  <2>2. OfSpawn(q) \ q.world \in SUBSET Creature
    BY <2>1 DEF OfSpawn
  <2> QED
    BY <2>2
<1>5. PICK b : b = Strayed(q, far, gone)
  OBVIOUS
<1>6. StrayedFrom(q, gone, b)
  BY <1>1, <1>3, <1>5, StrayedIs DEF SpawnKnows
<1>7. /\ b \in Records /\ SameLists(q, b) /\ b.releasing = q.releasing
      /\ b.refs = q.refs /\ b.master = q.master /\ b.summons = q.summons /\ b.ofSpawn = q.ofSpawn
      /\ OfSpawn(b) = OfSpawn(q) \ gone
      /\ \A d, e \in b.spawned : d[2] = e[2] => d = e
      /\ \A d \in b.spawned : d \in g.spawned \/ d[1] = 0
  BY <1>3, <1>6 DEF StrayedFrom
<1>8. OfSpawn(q) = OfSpawn(g) /\ OfSpawn(b) \subseteq b.world /\ gone \cap b.world = {}
  BY <1>3, <1>4, <1>7 DEF OfSpawn, SameLists
<1>9. PICK K : K = [s \in SUBSET gone |-> [c \in Creature |-> IF c \in gone \ s THEN 1 ELSE 0]]
  OBVIOUS
<1>10. Orderly(b, K[{}], {})
  <2>1. \A c \in Creature : K[{}][c] = IF c \in gone THEN 1 ELSE 0
    BY <1>9
  <2>2. ASSUME NEW c \in Creature PROVE CountedOf(b, K[{}], c)
    <3>1. CountedOf(g, NothingOwed, c) /\ NothingOwed[c] = 0
      BY <1>1 DEF Counted, NothingOwed
    <3>2. b.refs[c] = g.refs[c] /\ b.master[c] = g.master[c] /\ b.releasing[c] = g.releasing[c]
          /\ (c \in b.world <=> c \in g.world) /\ (c \in b.listed <=> c \in g.listed)
      BY <1>3, <1>7 DEF SameLists
    <3>3. CASE c \in gone
      <4>1. c \in OfSpawn(g) /\ c \notin OfSpawn(b) /\ K[{}][c] = 1
        BY <1>4, <1>7, <1>8, <2>1, <3>3
      <4> QED
        BY <3>1, <3>2, <4>1 DEF CountedOf
    <3>4. CASE c \notin gone
      <4>1. (c \in OfSpawn(g) <=> c \in OfSpawn(b)) /\ K[{}][c] = 0
        BY <1>7, <1>8, <2>1, <3>4
      <4> QED
        BY <3>1, <3>2, <4>1 DEF CountedOf
    <3> QED
      BY <3>3, <3>4
  <2>3. Related(b, {}) /\ LookedAfter(b)
    BY <1>1, <1>3, <1>7 DEF Related, LookedAfter, SameLists
  <2>4. SpawnKnows(b)
    BY <1>1, <1>3, <1>4, <1>7, <1>8 DEF SpawnKnows, SameLists
  <2> QED
    BY <1>7, <2>2, <2>3, <2>4 DEF Orderly, Counted
<1>11. PICK f : f = LettingGo(b, gone)
  OBVIOUS
<1>12. r = f[gone]
  <2>1. r = LettingGo(Strayed(q, far, OfSpawn(q) \ q.world),
                      OfSpawn(q) \ q.world)[OfSpawn(q) \ q.world]
    BY <1>2, SpawnCleanupIs
  <2> QED
    BY <1>4, <1>5, <1>11, <2>1
<1>13. /\ f[{}] = b
       /\ \A s \in SUBSET gone : \A x \in s : x = SomeOf(s) => f[s] = Decrement(f[s \ {x}], x)
  BY <1>7, <1>11, LetGoOneByOne
<1>14. PICK Good : Good = [s \in SUBSET gone |->
                              {h \in Records : /\ Orderly(h, K[s], {})
                                               /\ h.spawned = b.spawned /\ h.world = b.world}]
  OBVIOUS
<1>15. ASSUME NEW s \in SUBSET gone, NEW x \in s, x = SomeOf(s), f[s \ {x}] \in Good[s \ {x}]
       PROVE  f[s] \in Good[s]
  <2>1. PICK h : h = f[s \ {x}]
    OBVIOUS
  <2>2. PICK k, l : k = K[s \ {x}] /\ l = K[s]
    OBVIOUS
  <2>3. Orderly(h, k, {}) /\ x \in Creature /\ h.spawned = b.spawned /\ h.world = b.world
    BY <1>14, <1>15, <2>1, <2>2
  <2>4. f[s] = Decrement(h, x)
    BY <1>13, <1>15, <2>1
  <2>5. /\ k = [c \in Creature |-> IF c \in gone \ (s \ {x}) THEN 1 ELSE 0]
        /\ l = [c \in Creature |-> IF c \in gone \ s THEN 1 ELSE 0]
    BY <1>9, <2>2
  <2>6. k[x] > 0 /\ \A c \in Creature : l[c] = IF c = x THEN k[c] - 1 ELSE k[c]
    BY <1>15, <2>3, <2>5
  <2>7. Orderly(f[s], l, {})
    BY <2>3, <2>4, <2>6, DecrementSound
  <2>8. Decremented(h, x, f[s])
    BY <2>3, <2>4, DecrementIs DEF Orderly
  <2> QED
    BY <1>14, <2>2, <2>3, <2>7, <2>8 DEF Decremented, SameLists, SameSpawn
<1>16. f[{}] \in Good[{}]
  BY <1>7, <1>10, <1>13, <1>14
<1>17. f[gone] \in Good[gone]
  BY <1>15, <1>16, CreaturesFinite, FoldIsGood
<1>18. K[gone] = NothingOwed
  BY <1>9 DEF NothingOwed
<1>19. Orderly(r, NothingOwed, {}) /\ r.spawned = b.spawned /\ r.world = b.world
  BY <1>12, <1>14, <1>17, <1>18
<1> QED
  BY <1>7, <1>8, <1>19 DEF OfSpawn


-----------------------------------------------------------------------------
(***************************************************************************)
(* The actions, and the theorem.                                           *)
(***************************************************************************)
\* What the handlers leave is the state.
LEMMA BecomeIs == ASSUME NEW g \in Records, Become(g) PROVE Live' = g
  BY DEF Become, Live, Records

\* A handler that leaves a sound record, and places that are known, keeps the
\* invariant.
LEMMA InvariantKept ==
    ASSUME NEW g, Orderly(g, NothingOwed, {}), Become(g),
           PlacesKnown(g.spawned, appearing', crowded')
    PROVE  CreaturesInv'
<1>1. Live' = g
  BY BecomeIs DEF Orderly
<1> QED
  BY <1>1 DEF CreaturesInv

\* Monsters that leave their places change nothing there.
LEMMA PlacesStay ==
    ASSUME NEW S, NEW T, NEW A, NEW C, PlacesKnown(S, A, C), \A d \in T : d \in S \/ d[1] = 0
    PROVE  PlacesKnown(T, A, C)
BY CreatureAssumption DEF PlacesKnown

\* The fields of the state.
LEMMA LiveIs ==
    /\ Live.refs = refs /\ Live.world = world /\ Live.alive = alive /\ Live.listed = listed
    /\ Live.checked = checked /\ Live.master = master /\ Live.summons = summons
    /\ Live.spawned = spawned /\ Live.ofSpawn = ofSpawn /\ Live.event = checkSpawnEvent
    /\ Live.releasing = releasing
  BY DEF Live

\* One who keeps the monsters of the spawn where they are keeps what is announced.
LEMMA InvariantGoesOn ==
    ASSUME CreaturesInv, NEW g, Orderly(g, NothingOwed, {}), Become(g), UNCHANGED announceVars,
           g.spawned \subseteq spawned
    PROVE  CreaturesInv'
<1>1. PlacesKnown(g.spawned, appearing, crowded)
  BY PlacesStay, LiveIs DEF CreaturesInv
<1>2. PlacesKnown(g.spawned, appearing', crowded')
  BY <1>1 DEF announceVars
<1> QED
  BY <1>2, InvariantKept

\* A login.
LEMMA TamerEntersKeeps == ASSUME CreaturesInv, TamerEnters PROVE CreaturesInv'
<1>1. Orderly(Live, NothingOwed, {}) /\ Tamer \in Creature /\ refs[Tamer] = 0 /\ UNCHANGED announceVars
  BY DEF CreaturesInv, TamerEnters, Creature
<1>2. Unheld(Live, Tamer)
  BY <1>1, FreedIsFresh, LiveIs
<1>3. PICK g : g = PlaceCreature(Live, Tamer)
  OBVIOUS
<1>4. PutInGame(Live, Tamer, g)
  BY <1>1, <1>2, <1>3, PlacedIs DEF Unheld, Orderly
<1>5. Orderly(g, NothingOwed, {}) /\ g.spawned = spawned
  BY <1>1, <1>2, <1>4, PlaceSound, LiveIs DEF PutInGame, SameSpawn
<1>6. Become(g)
  BY <1>3 DEF TamerEnters
<1> QED
  BY <1>1, <1>5, <1>6, InvariantGoesOn

\* A creature of the game summons one that was freed.
LEMMA SummonKeeps ==
    ASSUME CreaturesInv, NEW m \in Creature, NEW s \in Monsters, Summon(m, s) PROVE CreaturesInv'
<1>1. /\ Orderly(Live, NothingOwed, {}) /\ Live \in Records /\ s \in Creature /\ UNCHANGED announceVars
      /\ m \in alive /\ master[m] = Nobody /\ refs[s] = 0
  BY DEF CreaturesInv, Summon, Creature, Freed, Orderly
<1>2. Unheld(Live, s)
  BY <1>1, FreedIsFresh, LiveIs
<1>3. m \in world /\ s # m
  BY <1>1, <1>2, LiveIs DEF Orderly, LookedAfter, Unheld
<1>4. PICK p : p = PlaceCreature(Live, s)
  OBVIOUS
<1>5. PutInGame(Live, s, p)
  BY <1>1, <1>2, <1>4, PlacedIs DEF Unheld
<1>6. Orderly(p, NothingOwed, {})
  BY <1>1, <1>2, <1>5, PlaceSound
<1>7. PICK q : q = AddSummon(Live, m, s)
  OBVIOUS
<1>8. SummonAdded(Live, m, s, q)
  BY <1>1, <1>7, AddSummonIs
<1>9. PICK r : r = PlaceCreature(q, s)
  OBVIOUS
<1>10. PutInGame(q, s, r)
  <2>1. s \notin q.listed /\ q \in Records
    BY <1>2, <1>8 DEF SummonAdded, SameLists, Unheld
  <2> QED
    BY <1>1, <1>9, <2>1, PlacedIs
<1>11. SummonAdded(p, m, s, r)
  <2>1. ASSUME NEW d \in Creature
        PROVE  /\ r.refs[d] = IF d = s THEN p.refs[d] + 1 ELSE p.refs[d]
               /\ r.master[d] = IF d = s THEN m ELSE p.master[d]
               /\ r.summons[d] = IF d = m THEN p.summons[d] \cup {s} ELSE p.summons[d]
    <3>1. Live.refs[d] \in Int
      BY <1>1 DEF Records
    <3>2. /\ p.refs[d] = IF d = s THEN Live.refs[d] + 2 ELSE Live.refs[d]
          /\ p.master = Live.master /\ p.summons = Live.summons
      BY <1>5 DEF PutInGame
    <3>3. /\ q.refs[d] = IF d = s THEN Live.refs[d] + 1 ELSE Live.refs[d]
          /\ q.master[d] = IF d = s THEN m ELSE Live.master[d]
          /\ q.summons[d] = IF d = m THEN Live.summons[d] \cup {s} ELSE Live.summons[d]
      BY <1>8 DEF SummonAdded
    <3>4. /\ r.refs[d] = IF d = s THEN q.refs[d] + 2 ELSE q.refs[d]
          /\ r.master = q.master /\ r.summons = q.summons
      BY <1>10 DEF PutInGame
    <3> QED
      BY <3>1, <3>2, <3>3, <3>4
  <2>2. SameLists(p, r) /\ SameSpawn(p, r) /\ r.releasing = p.releasing /\ r.ofSpawn = p.ofSpawn
        /\ r \in Records
    BY <1>5, <1>8, <1>10 DEF PutInGame, SummonAdded, SameLists, SameSpawn
  <2> QED
    BY <2>1, <2>2 DEF SummonAdded
<1>12. Orderly(r, NothingOwed, {})
  <2>1. p.master[m] = Nobody /\ p.master[s] = Nobody /\ m \in p.world /\ s \in p.world
        /\ s \notin p.ofSpawn /\ \A d \in Creature : p.master[d] # s
    BY <1>1, <1>2, <1>3, <1>5, LiveIs DEF PutInGame, Unheld
  <2> QED
    BY <1>3, <1>6, <1>11, <2>1, SummonAddedSound
<1>13. Become(r) /\ r.spawned = spawned
  BY <1>5, <1>7, <1>9, <1>11, LiveIs DEF Summon, PutInGame, SummonAdded, SameSpawn
<1> QED
  BY <1>1, <1>12, <1>13, InvariantGoesOn

\* A monster is woken.
LEMMA SetIdleFalseKeeps ==
    ASSUME CreaturesInv, NEW m \in Monsters, SetIdleFalse(m) PROVE CreaturesInv'
<1>1. PICK g : g = Wake(Live, m)
  OBVIOUS
<1>2. m \in Creature /\ Orderly(Live, NothingOwed, {}) /\ Become(g) /\ UNCHANGED announceVars
  BY <1>1 DEF CreaturesInv, SetIdleFalse, Creature
<1>3. Orderly(g, NothingOwed, {}) /\ Roused(Live, m, g)
  BY <1>1, <1>2, WakeSound
<1> QED
  BY <1>2, <1>3, InvariantGoesOn, LiveIs DEF Roused

\* A monster that lives is no longer looked after.
LEMMA SetIdleTrueKeeps ==
    ASSUME CreaturesInv, NEW m \in Monsters, SetIdleTrue(m) PROVE CreaturesInv'
<1>1. PICK g : g = [Live EXCEPT !.checked = @ \ (listed \cap {m})]
  OBVIOUS
<1>2. /\ Live \in Records /\ Counted(Live, NothingOwed) /\ Related(Live, {})
      /\ LookedAfter(Live) /\ SpawnKnows(Live)
      /\ Become(g) /\ UNCHANGED announceVars /\ m \in Live.alive
  BY <1>1, LiveIs DEF CreaturesInv, SetIdleTrue, Orderly
<1>3. /\ g \in Records /\ g.refs = Live.refs /\ g.world = Live.world /\ g.alive = Live.alive
      /\ g.listed = Live.listed /\ g.checked = Live.checked \ (Live.listed \cap {m})
      /\ g.master = Live.master /\ g.summons = Live.summons /\ g.spawned = Live.spawned
      /\ g.ofSpawn = Live.ofSpawn /\ g.event = Live.event /\ g.releasing = Live.releasing
  <2>1. Live.checked \ (Live.listed \cap {m}) \in SUBSET Creature
    BY <1>2 DEF Records
  <2> QED
    BY <1>1, <1>2, <2>1, LiveIs DEF Records
<1>4. OfSpawn(g) = OfSpawn(Live)
  BY <1>3 DEF OfSpawn
<1>5. Counted(g, NothingOwed)
  BY <1>2, <1>3, <1>4 DEF Counted, CountedOf
<1>6. Related(g, {}) /\ LookedAfter(g) /\ SpawnKnows(g)
  BY <1>2, <1>3, <1>4 DEF Related, LookedAfter, SpawnKnows
<1> QED
  BY <1>2, <1>3, <1>5, <1>6, InvariantGoesOn, LiveIs DEF Orderly

\* A monster is woken and dies.
LEMMA KilledKeeps == ASSUME CreaturesInv, NEW m \in Monsters, Killed(m) PROVE CreaturesInv'
<1>1. PICK w : w = Wake(Live, m)
  OBVIOUS
<1>2. PICK g : g = [w EXCEPT !.alive = @ \ {m}]
  OBVIOUS
<1>3. m \in Creature /\ Orderly(Live, NothingOwed, {}) /\ Become(g) /\ UNCHANGED announceVars
  BY <1>1, <1>2 DEF CreaturesInv, Killed, Creature
<1>4. Orderly(w, NothingOwed, {}) /\ Roused(Live, m, w)
  BY <1>1, <1>3, WakeSound
<1>5. /\ w \in Records /\ Counted(w, NothingOwed) /\ Related(w, {})
      /\ LookedAfter(w) /\ SpawnKnows(w)
      /\ m \in w.world => m \in w.checked
  BY <1>4 DEF Orderly, Roused
<1>6. /\ g \in Records /\ g.refs = w.refs /\ g.world = w.world /\ g.alive = w.alive \ {m}
      /\ g.listed = w.listed /\ g.checked = w.checked /\ g.master = w.master
      /\ g.summons = w.summons /\ g.spawned = w.spawned /\ g.ofSpawn = w.ofSpawn
      /\ g.event = w.event /\ g.releasing = w.releasing
  <2>1. w.alive \ {m} \in SUBSET Creature
    BY <1>5 DEF Records
  <2> QED
    BY <1>2, <1>5, <2>1 DEF Records
<1>7. OfSpawn(g) = OfSpawn(w)
  BY <1>6 DEF OfSpawn
<1>8. Counted(g, NothingOwed)
  BY <1>5, <1>6, <1>7 DEF Counted, CountedOf
<1>9. Related(g, {}) /\ LookedAfter(g) /\ SpawnKnows(g)
  BY <1>5, <1>6, <1>7 DEF Related, LookedAfter, SpawnKnows
<1> QED
  BY <1>3, <1>4, <1>6, <1>8, <1>9, InvariantGoesOn, LiveIs DEF Orderly, Roused

\* A script, or a logout, takes one out of the game.
LEMMA RemoveFromGameKeeps ==
    ASSUME CreaturesInv, NEW c \in Creature, RemoveFromGame(c) PROVE CreaturesInv'
<1>1. PICK g : g = RemoveCreature(Live, c)
  OBVIOUS
<1>2. Orderly(Live, NothingOwed, {}) /\ Become(g) /\ UNCHANGED announceVars /\ c \in Live.world
  BY <1>1, LiveIs DEF CreaturesInv, RemoveFromGame
<1>3. Orderly(g, NothingOwed, {}) /\ g.spawned = spawned
  BY <1>1, <1>2, RemoveCreatureSound, LiveIs
<1> QED
  BY <1>2, <1>3, InvariantGoesOn

\* The creatures of a list are checked, and what was released is freed.
LEMMA CheckCreaturesKeeps ==
    ASSUME CreaturesInv, NEW list \in SUBSET listed, CheckCreatures(list) PROVE CreaturesInv'
<1>1. PICK g : g = CheckAll(Live, list)
  OBVIOUS
<1>2. PICK r : r = Cleanup(g)
  OBVIOUS
<1>3. Orderly(Live, NothingOwed, {}) /\ Become(r) /\ UNCHANGED announceVars
  BY <1>1, <1>2 DEF CreaturesInv, CheckCreatures, CheckAll
<1>4. list \in SUBSET Creature /\ list \subseteq Live.listed
  BY <1>3, LiveIs DEF Orderly, Records
<1>5. Orderly(g, NothingOwed, {}) /\ g.spawned = spawned
  BY <1>1, <1>3, <1>4, CheckAllSound, LiveIs
<1>6. Orderly(r, NothingOwed, {}) /\ r.spawned = spawned
  BY <1>2, <1>5, CleanupSound
<1> QED
  BY <1>3, <1>6, InvariantGoesOn


\* A monster is convinced: it leaves its master, its summons and its spawn.
LEMMA ConvinceKeeps ==
    ASSUME CreaturesInv, NEW m \in Monsters, Convince(m) PROVE CreaturesInv'
<1>1. /\ Orderly(Live, NothingOwed, {}) /\ Live \in Records /\ Related(Live, {}) /\ SpawnKnows(Live)
      /\ m \in Creature /\ Tamer \in Creature
      /\ m \in Live.world /\ Tamer \in Live.world /\ Live.master[m] # Tamer /\ UNCHANGED announceVars
      /\ m # Tamer /\ Tamer \notin Monsters /\ Nobody \notin Creature
  BY CreatureAssumption, LiveIs DEF CreaturesInv, Convince, Creature, Orderly
<1>2. PICK freed : freed = IF Live.master[m] = Nobody THEN Live
                           ELSE RemoveSummon(Live, Live.master[m], m)
  OBVIOUS
<1>3. /\ Orderly(freed, NothingOwed, {}) /\ freed.master[m] = Nobody /\ freed.world = Live.world
      /\ freed.spawned = Live.spawned /\ freed.ofSpawn \subseteq Live.ofSpawn
  <2>1. CASE Live.master[m] = Nobody
    BY <1>1, <1>2, <2>1
  <2>2. CASE Live.master[m] # Nobody
    <3>1. PICK n \in Creature : n = Live.master[m]
      BY <1>1, <2>2 DEF Records
    <3>2. freed = RemoveSummon(Live, n, m)
      BY <1>2, <2>2, <3>1
    <3>3. Orderly(freed, NothingOwed, {}) /\ LetGo(Live, freed) /\ freed.master[m] = Nobody
      BY <1>1, <3>1, <3>2, RemoveSummonSound
    <3> QED
      BY <3>3 DEF LetGo, SameLists, SameSpawn
  <2> QED
    BY <2>1, <2>2
<1>4. freed.master[Tamer] = Nobody
  BY <1>1, <1>3 DEF Orderly, Related
<1>5. PICK q : q = AddSummon(freed, Tamer, m)
  OBVIOUS
<1>6. SummonAdded(freed, Tamer, m, q)
  BY <1>1, <1>3, <1>5, AddSummonIs DEF Orderly
<1>7. PICK N \in SUBSET {m} : N = {m}
  OBVIOUS
<1>8. Orderly(q, NothingOwed, N) /\ q.summons[m] = {d \in Creature : q.master[d] = m}
  <2>1. Tamer \in freed.world /\ m \in freed.world /\ m # Tamer /\ Tamer \in Creature /\ m \in N
    BY <1>1, <1>3, <1>7
  <2> QED
    BY <1>3, <1>4, <1>6, <2>1, SummonAddedSound
<1>9. PICK d : d = DestroySummons(q, m)
  OBVIOUS
<1>10. Destroying(q, NothingOwed, m, {}, d)
  BY <1>1, <1>8, <1>9, DestroySummonsSound
<1>11. /\ Orderly(d, NothingOwed, {m}) /\ d.summons[m] = {} /\ \A c \in Creature : d.master[c] # m
       /\ d.world = Live.world /\ d.spawned = Live.spawned /\ d.ofSpawn \subseteq Live.ofSpawn
  BY <1>3, <1>6, <1>10 DEF Destroying, SummonAdded, SameLists, SameSpawn
<1>12. PICK tamed : tamed = Wake(d, m)
  OBVIOUS
<1>13. /\ Orderly(tamed, NothingOwed, {m}) /\ tamed.summons[m] = {}
       /\ \A c \in Creature : tamed.master[c] # m
       /\ tamed.world = Live.world /\ tamed.spawned = Live.spawned
       /\ tamed.ofSpawn \subseteq Live.ofSpawn
  <2>1. Orderly(d, NothingOwed, N) /\ N \in SUBSET Creature
    BY <1>1, <1>7, <1>11
  <2>2. Orderly(tamed, NothingOwed, N) /\ Roused(d, m, tamed)
    BY <1>1, <1>12, <2>1, WakeSound
  <2>3. Orderly(tamed, NothingOwed, {m})
    BY <1>7, <2>2
  <2> QED
    BY <1>11, <2>2, <2>3 DEF Roused
<1>14. PICK places : places = {e \in spawned : e[2] = m}
  OBVIOUS
<1>15. PICK r : r = IF m \in ofSpawn
                    THEN Decrement([tamed EXCEPT !.spawned = @ \ places, !.ofSpawn = @ \ {m}], m)
                    ELSE tamed
  OBVIOUS
<1>16. Become(r)
  BY <1>2, <1>5, <1>9, <1>12, <1>14, <1>15, LiveIs DEF Convince
<1>17. /\ tamed \in Records /\ Counted(tamed, NothingOwed) /\ Related(tamed, {m})
       /\ LookedAfter(tamed) /\ SpawnKnows(tamed)
  BY <1>13 DEF Orderly
<1>18. \A x \in Creature : tamed.summons[x] = {c \in Creature : tamed.master[c] = x}
  BY <1>13, <1>17 DEF Related
<1>19. CASE m \notin ofSpawn
  <2>1. m \notin tamed.ofSpawn
    BY <1>13, <1>19, LiveIs
  <2>2. Related(tamed, {})
    BY <1>13, <1>17, <1>18, <2>1 DEF Related
  <2>3. Orderly(r, NothingOwed, {})
    BY <1>15, <1>17, <1>19, <2>2 DEF Orderly
  <2> QED
    BY <1>1, <1>13, <1>15, <1>16, <1>19, <2>3, InvariantGoesOn, LiveIs
<1>20. CASE m \in ofSpawn
  <2>1. PICK u : u = [tamed EXCEPT !.spawned = @ \ places, !.ofSpawn = @ \ {m}]
    OBVIOUS
  <2>2. /\ u \in Records /\ u.refs = tamed.refs /\ u.world = tamed.world /\ u.alive = tamed.alive
        /\ u.listed = tamed.listed /\ u.checked = tamed.checked /\ u.master = tamed.master
        /\ u.summons = tamed.summons /\ u.spawned = tamed.spawned \ places
        /\ u.ofSpawn = tamed.ofSpawn \ {m} /\ u.event = tamed.event
        /\ u.releasing = tamed.releasing
    <3>1. tamed.spawned \ places \in SUBSET (Nat \X Creature)
          /\ tamed.ofSpawn \ {m} \in SUBSET Creature
      BY <1>17 DEF Records
    <3> QED
      BY <1>17, <2>1, <3>1 DEF Records
  <2>3. OfSpawn(u) = OfSpawn(tamed) \ {m} /\ m \in OfSpawn(tamed)
    <3>1. m \in OfSpawn(Live) /\ OfSpawn(tamed) = OfSpawn(Live)
      BY <1>1, <1>13, <1>20, LiveIs DEF SpawnKnows, OfSpawn
    <3> QED
      BY <1>13, <1>14, <2>2, <3>1, LiveIs DEF OfSpawn
  <2>4. PICK l : l = [c \in Creature |-> IF c = m THEN 1 ELSE 0]
    OBVIOUS
  <2>5. Counted(u, l)
    <3>1. ASSUME NEW c \in Creature PROVE CountedOf(u, l, c)
      <4>1. CountedOf(tamed, NothingOwed, c) /\ NothingOwed[c] = 0
        BY <1>17 DEF Counted, NothingOwed
      <4>2. CASE c = m
        <5>1. m \in OfSpawn(tamed) /\ m \notin OfSpawn(u) /\ l[m] = 1
          BY <1>1, <2>3, <2>4
        <5> QED
          BY <2>2, <4>1, <4>2, <5>1 DEF CountedOf
      <4>3. CASE c # m
        <5>1. (c \in OfSpawn(tamed) <=> c \in OfSpawn(u)) /\ l[c] = 0
          BY <2>3, <2>4, <4>3
        <5> QED
          BY <2>2, <4>1, <4>3, <5>1 DEF CountedOf
      <4> QED
        BY <4>2, <4>3
    <3> QED
      BY <3>1 DEF Counted
  <2>6. Related(u, {})
    BY <1>13, <1>17, <1>18, <2>2 DEF Related
  <2>7. LookedAfter(u)
    BY <1>17, <2>2 DEF LookedAfter
  <2>8. SpawnKnows(u)
    BY <1>17, <2>2, <2>3 DEF SpawnKnows
  <2>9. Orderly(u, l, {})
    BY <2>2, <2>5, <2>6, <2>7, <2>8 DEF Orderly
  <2>10. r = Decrement(u, m)
    BY <1>15, <1>20, <2>1
  <2>11. Orderly(r, NothingOwed, {})
    <3>1. l[m] > 0 /\ \A c \in Creature : NothingOwed[c] = IF c = m THEN l[c] - 1 ELSE l[c]
      BY <1>1, <2>4 DEF NothingOwed
    <3> QED
      BY <1>1, <2>9, <2>10, <3>1, DecrementSound
  <2>12. r.spawned \subseteq spawned
    <3>1. Decremented(u, m, r)
      BY <1>1, <2>2, <2>10, DecrementIs
    <3> QED
      BY <1>13, <2>2, <3>1, LiveIs DEF Decremented, SameSpawn
  <2> QED
    BY <1>1, <1>16, <2>11, <2>12, InvariantGoesOn
<1> QED
  BY <1>19, <1>20

\* A place without a monster gets one that was not announced, or no more than is.
LEMMA FilledPlace ==
    ASSUME NEW S, NEW A, NEW C, PlacesKnown(S, A, C), NEW id \in Places, NEW m,
           id \notin C => A[id] = 0 /\ \A e \in S : e[1] # id,
           NEW T, T = S \cup {<<id, m>>}
    PROVE  PlacesKnown(T, A, C)
<1>1. <<id, m>>[1] = id
  OBVIOUS
<1>2. ASSUME NEW d \in T, NEW e \in T, d[1] = e[1] /\ d[1] # 0 /\ d[1] \notin C PROVE d = e
  <2>1. CASE d \in S /\ e \in S
    BY <1>2, <2>1 DEF PlacesKnown
  <2>2. CASE d = <<id, m>> /\ e = <<id, m>>
    BY <2>2
  <2>3. CASE d = <<id, m>> /\ e \in S
    BY <1>1, <1>2, <2>3
  <2>4. CASE d \in S /\ e = <<id, m>>
    BY <1>1, <1>2, <2>4
  <2> QED
    BY <2>1, <2>2, <2>3, <2>4
<1>3. ASSUME NEW i \in Places \ C PROVE A[i] = 0 \/ (A[i] = 1 /\ \A e \in T : e[1] # i)
  BY <1>1 DEF PlacesKnown
<1> QED
  BY <1>2, <1>3 DEF PlacesKnown

\* An empty place is announced, for the first time or again.
LEMMA AnnouncedPlace ==
    ASSUME NEW g, PlacesKnown(g.spawned, appearing, crowded),
           NEW id \in Places \ (Blockable \cup Filled(g)), Announce(id)
    PROVE  PlacesKnown(g.spawned, appearing', crowded')
<1>1. PICK S, A, B, C, D : S = g.spawned /\ A = appearing /\ B = appearing'
                           /\ C = crowded /\ D = crowded'
  OBVIOUS
<1>2. /\ PlacesKnown(S, A, C) /\ A \in [Places -> Nat] /\ C \subseteq Places
      /\ B = [A EXCEPT ![id] = A[id] + 1]
      /\ D = IF A[id] = 0 THEN C \ {id} ELSE C \cup {id}
      /\ \A e \in S : e[1] # id
  BY <1>1 DEF PlacesKnown, Announce, Filled
<1>3. B \in [Places -> Nat] /\ B[id] = A[id] + 1 /\ \A i \in Places : i # id => B[i] = A[i]
  BY <1>2
<1>4. D \subseteq Places /\ \A i : i # id => (i \in D <=> i \in C)
  BY <1>2
<1>5. \A i \in Blockable : B[i] = 0
  BY <1>2, <1>3, CreatureAssumption DEF PlacesKnown
<1>6. \A d, e \in S : d[1] = e[1] /\ d[1] # 0 /\ d[1] \notin D => d = e
  BY <1>2, <1>4 DEF PlacesKnown
<1>7. ASSUME NEW i \in Places \ D PROVE B[i] = 0 \/ (B[i] = 1 /\ \A e \in S : e[1] # i)
  <2>1. CASE i = id
    <3>1. A[id] = 0
      BY <1>2, <1>7, <2>1
    <3> QED
      BY <1>2, <1>3, <2>1, <3>1
  <2>2. CASE i # id
    BY <1>2, <1>3, <1>4, <1>7, <2>2 DEF PlacesKnown
  <2> QED
    BY <2>1, <2>2
<1>8. PlacesKnown(S, B, D)
  BY <1>3, <1>4, <1>5, <1>6, <1>7 DEF PlacesKnown
<1> QED
  BY <1>1, <1>8

\* The spawn lets go of those who are gone, and places or announces a monster.
LEMMA CheckSpawnKeeps ==
    ASSUME CreaturesInv, NEW far, CheckSpawn(far) PROVE CreaturesInv'
<1>1. PICK g : g = SpawnCleanup([Live EXCEPT !.event = FALSE], far)
  OBVIOUS
<1>2. Orderly(Live, NothingOwed, {}) /\ PlacesKnown(Live.spawned, appearing, crowded)
  BY DEF CreaturesInv
<1>3. /\ Orderly(g, NothingOwed, {}) /\ OfSpawn(g) \subseteq g.world
      /\ \A d \in g.spawned : d \in Live.spawned \/ d[1] = 0
  BY <1>1, <1>2, SpawnCleanupSound
<1>4. PlacesKnown(g.spawned, appearing, crowded)
  BY <1>2, <1>3, PlacesStay
<1> DEFINE again(h) == [h EXCEPT !.event = Cardinality(h.spawned) < Cardinality(Places)]
<1>5. ASSUME NEW h, Orderly(h, NothingOwed, {}), OfSpawn(h) \subseteq h.world
      PROVE  Orderly(again(h), NothingOwed, {}) /\ again(h).spawned = h.spawned
  <2>0. PICK p : p = (Cardinality(h.spawned) < Cardinality(Places))
    OBVIOUS
  <2>1. p \in BOOLEAN
    BY <2>0
  <2>2. again(h) = [h EXCEPT !.event = p]
    BY <2>0
  <2> HIDE DEF again
  <2> QED
    BY <1>5, <2>1, <2>2, EventSound
<1>6. \/ Become(again(g)) /\ UNCHANGED announceVars
      \/ \E id \in Places \ (Blockable \cup Filled(g)) : Become(again(g)) /\ Announce(id)
      \/ \E id \in Blockable \ Filled(g), m \in Monsters :
            /\ g.refs[m] = 0
            /\ Become(again(SpawnMonster(g, id, m)))
            /\ UNCHANGED announceVars
  BY <1>1 DEF CheckSpawn
<1>7. Orderly(again(g), NothingOwed, {}) /\ again(g).spawned = g.spawned
  BY <1>3, <1>5
<1> HIDE DEF again
<1>8. CASE Become(again(g)) /\ UNCHANGED announceVars
  BY <1>4, <1>7, <1>8, InvariantKept DEF announceVars
<1>9. ASSUME NEW id \in Places \ (Blockable \cup Filled(g)), Become(again(g)), Announce(id)
      PROVE  CreaturesInv'
  <2>1. PlacesKnown(g.spawned, appearing', crowded')
    BY <1>4, <1>9, AnnouncedPlace
  <2> QED
    BY <1>7, <1>9, <2>1, InvariantKept
<1>10. ASSUME NEW id \in Blockable \ Filled(g), NEW m \in Monsters, g.refs[m] = 0,
              Become(again(SpawnMonster(g, id, m))), UNCHANGED announceVars
       PROVE  CreaturesInv'
  <2>1. PICK h : h = SpawnMonster(g, id, m)
    OBVIOUS
  <2>2. id \in Nat /\ id \in Places
    BY CreatureAssumption
  <2>3. /\ Orderly(h, NothingOwed, {}) /\ h.spawned = g.spawned \cup {<<id, m>>}
        /\ h.world = g.world \cup {m}
    BY <1>3, <1>10, <2>1, <2>2, SpawnMonsterSound
  <2>4. OfSpawn(h) \subseteq h.world
    <3>1. OfSpawn(h) = OfSpawn(g) \cup {<<id, m>>[2]}
      BY <2>3 DEF OfSpawn
    <3>2. <<id, m>>[2] = m
      OBVIOUS
    <3> QED
      BY <1>3, <2>3, <3>1, <3>2
  <2>5. Orderly(again(h), NothingOwed, {}) /\ again(h).spawned = h.spawned
    BY <1>5, <2>3, <2>4
  <2>6. PlacesKnown(h.spawned, appearing, crowded)
    <3>1. appearing[id] = 0
      BY <1>4 DEF PlacesKnown
    <3> QED
      BY <1>4, <2>2, <2>3, <3>1, FilledPlace DEF Filled
  <2> QED
    BY <1>10, <2>1, <2>5, <2>6, InvariantKept DEF announceVars
<1> QED
  BY <1>6, <1>8, <1>9, <1>10

\* The announced monster appears, or its place is blocked.
LEMMA AppearKeeps == ASSUME CreaturesInv, NEW id \in Places, Appear(id) PROVE CreaturesInv'
<1>1. /\ Orderly(Live, NothingOwed, {}) /\ PlacesKnown(Live.spawned, appearing, crowded)
      /\ appearing[id] > 0 /\ id \in Nat /\ UNCHANGED crowded
      /\ appearing' = [appearing EXCEPT ![id] = appearing[id] - 1]
  BY CreatureAssumption DEF CreaturesInv, Appear
<1>2. PICK S, A, B, C : S = Live.spawned /\ A = appearing /\ B = appearing' /\ C = crowded
  OBVIOUS
<1>3. /\ PlacesKnown(S, A, C) /\ A \in [Places -> Nat] /\ B = [A EXCEPT ![id] = A[id] - 1]
      /\ A[id] > 0 /\ id \notin Blockable
  BY <1>1, <1>2 DEF PlacesKnown
<1>4. B \in [Places -> Nat] /\ B[id] = A[id] - 1 /\ \A i \in Places : i # id => B[i] = A[i]
  BY <1>3
<1>5. PlacesKnown(S, B, C)
  BY <1>3, <1>4, CreatureAssumption DEF PlacesKnown
<1>6. CASE Become(Live)
  BY <1>1, <1>2, <1>5, <1>6, InvariantKept
<1>7. ASSUME NEW m \in Monsters \cap Freed, Become(SpawnMonster(Live, id, m)) PROVE CreaturesInv'
  <2>1. PICK g : g = SpawnMonster(Live, id, m)
    OBVIOUS
  <2>2. Live.refs[m] = 0
    BY <1>7, LiveIs DEF Freed
  <2>3. Orderly(g, NothingOwed, {}) /\ g.spawned = Live.spawned \cup {<<id, m>>}
    BY <1>1, <1>7, <2>1, <2>2, SpawnMonsterSound
  <2>4. id \notin C => B[id] = 0 /\ \A e \in S : e[1] # id
    BY <1>3, <1>4 DEF PlacesKnown
  <2>5. PlacesKnown(g.spawned, B, C)
    BY <1>2, <1>5, <2>3, <2>4, FilledPlace
  <2> QED
    BY <1>1, <1>2, <1>7, <2>1, <2>3, <2>5, InvariantKept
<1> QED
  BY <1>6, <1>7 DEF Appear

\* Nobody is there at first.
LEMMA CreaturesBegin == CreatureInit => CreaturesInv
<1>1. SUFFICES ASSUME CreatureInit PROVE CreaturesInv
  OBVIOUS
<1>2. /\ refs = [c \in Creature |-> 0] /\ world = {} /\ alive = {} /\ listed = {} /\ checked = {}
      /\ master = [c \in Creature |-> Nobody] /\ summons = [c \in Creature |-> {}]
      /\ spawned = {} /\ ofSpawn = {} /\ checkSpawnEvent = TRUE
      /\ appearing = [id \in Places |-> 0] /\ crowded = {}
      /\ releasing = [c \in Creature |-> 0]
  BY <1>1 DEF CreatureInit
<1>3. Live \in Records
  BY <1>2 DEF Live, Records
<1>4. OfSpawn(Live) = {}
  BY <1>2, LiveIs DEF OfSpawn
<1>5. ASSUME NEW c \in Creature PROVE CountedOf(Live, NothingOwed, c)
  <2>1. NothingOwed[c] = 0 /\ Live.refs[c] = 0 /\ Live.master[c] = Nobody /\ Live.releasing[c] = 0
        /\ Live.world = {} /\ Live.listed = {}
    BY <1>2, LiveIs DEF NothingOwed
  <2> QED
    BY <1>4, <2>1 DEF CountedOf
<1>6. Related(Live, {})
  <2>1. \A c \in Creature : Live.master[c] = Nobody /\ Live.summons[c] = {} /\ c # Nobody
    BY <1>2, LiveIs, CreatureAssumption
  <2> QED
    BY <2>1 DEF Related
<1>7. LookedAfter(Live) /\ SpawnKnows(Live)
  BY <1>2, <1>4, LiveIs DEF LookedAfter, SpawnKnows
<1>8. PlacesKnown(Live.spawned, appearing, crowded)
  BY <1>2, LiveIs, CreatureAssumption DEF PlacesKnown
<1> QED
  BY <1>3, <1>5, <1>6, <1>7, <1>8 DEF CreaturesInv, Orderly, Counted

\* Every step of the creatures keeps the invariant.
LEMMA CreaturesStep == CreaturesInv /\ [CreatureNext]_creatureVars => CreaturesInv'
<1>1. SUFFICES ASSUME CreaturesInv, [CreatureNext]_creatureVars PROVE CreaturesInv'
  OBVIOUS
<1>2. CASE UNCHANGED creatureVars
  <2>1. Live' = Live /\ UNCHANGED announceVars
    BY <1>2 DEF creatureVars, announceVars, Live
  <2> QED
    BY <1>1, <2>1 DEF CreaturesInv, announceVars
<1>3. CASE TamerEnters
  BY <1>1, <1>3, TamerEntersKeeps
<1>4. ASSUME NEW list \in SUBSET listed, CheckCreatures(list) PROVE CreaturesInv'
  BY <1>1, <1>4, CheckCreaturesKeeps
<1>5. ASSUME NEW far \in SUBSET (world \cap Monsters), CheckSpawn(far) PROVE CreaturesInv'
  BY <1>1, <1>5, CheckSpawnKeeps
<1>6. ASSUME NEW id \in Places, Appear(id) PROVE CreaturesInv'
  BY <1>1, <1>6, AppearKeeps
<1>7. ASSUME NEW c \in Creature, RemoveFromGame(c) PROVE CreaturesInv'
  BY <1>1, <1>7, RemoveFromGameKeeps
<1>8. ASSUME NEW m \in Monsters,
             SetIdleFalse(m) \/ SetIdleTrue(m) \/ Killed(m) \/ Convince(m)
      PROVE  CreaturesInv'
  BY <1>1, <1>8, SetIdleFalseKeeps, SetIdleTrueKeeps, KilledKeeps, ConvinceKeeps
<1>9. ASSUME NEW m \in Creature, NEW s \in Monsters, Summon(m, s) PROVE CreaturesInv'
  BY <1>1, <1>9, SummonKeeps
<1> QED
  BY <1>1, <1>2, <1>3, <1>4, <1>5, <1>6, <1>7, <1>8, <1>9 DEF CreatureNext

\* The invariant has what the run checks.
LEMMA CreaturesInvAgrees == CreaturesInv => CreaturesAgree
<1>1. SUFFICES ASSUME CreaturesInv PROVE CreaturesAgree
  OBVIOUS
<1>2. /\ Live \in Records /\ Counted(Live, NothingOwed) /\ Related(Live, {})
      /\ LookedAfter(Live) /\ SpawnKnows(Live) /\ PlacesKnown(Live.spawned, appearing, crowded)
  BY <1>1 DEF CreaturesInv, Orderly
<1>3. OfSpawn(Live) = {e[2] : e \in spawned}
  BY LiveIs DEF OfSpawn
<1>4. ASSUME NEW c \in Creature
      PROVE  refs[c] = One(c \in world) + releasing[c] + One(c \in listed)
                       + Cardinality({m \in Creature : c \in summons[m]})
                       + Cardinality({e \in spawned : e[2] = c})
  <2>1. PICK M : M = {m \in Creature : c \in summons[m]}
    OBVIOUS
  <2>2. PICK E : E = {e \in spawned : e[2] = c}
    OBVIOUS
  <2>3. Cardinality(M) = IF master[c] # Nobody THEN 1 ELSE 0
    <3>1. M = {m \in Creature : master[c] = m}
      BY <1>2, <2>1, LiveIs DEF Related
    <3>2. CASE master[c] = Nobody
      <4>1. M = {}
        BY <3>1, <3>2, CreatureAssumption
      <4> QED
        BY <3>2, <4>1, FS_EmptySet
    <3>3. CASE master[c] # Nobody
      <4>1. master[c] \in Creature
        BY <1>2, <3>3, LiveIs DEF Records
      <4>2. M = {master[c]}
        BY <3>1, <4>1
      <4> QED
        BY <3>3, <4>2, FS_Singleton
    <3> QED
      BY <3>2, <3>3
  <2>4. Cardinality(E) = IF c \in OfSpawn(Live) THEN 1 ELSE 0
    <3>1. CASE c \notin OfSpawn(Live)
      <4>1. E = {}
        BY <1>3, <2>2, <3>1
      <4> QED
        BY <3>1, <4>1, FS_EmptySet
    <3>2. CASE c \in OfSpawn(Live)
      <4>1. PICK e \in spawned : e[2] = c
        BY <1>3, <3>2
      <4>2. \A d \in spawned : d[2] = c => d = e
        BY <1>2, <4>1, LiveIs DEF SpawnKnows
      <4>3. E = {e}
        BY <2>2, <4>1, <4>2
      <4> QED
        BY <3>2, <4>3, FS_Singleton
    <3> QED
      BY <3>1, <3>2
  <2>5. CountedOf(Live, NothingOwed, c) /\ NothingOwed[c] = 0
    BY <1>2 DEF Counted, NothingOwed
  <2>6. PICK w, x, y, z \in {0, 1} :
          /\ w = 1 <=> c \in world
          /\ x = 1 <=> c \in listed
          /\ y = 1 <=> master[c] # Nobody
          /\ z = 1 <=> c \in OfSpawn(Live)
          /\ refs[c] = w + x + y + z + releasing[c] + 0
    BY <2>5, LiveIs DEF CountedOf
  <2>7. w = One(c \in world) /\ x = One(c \in listed) /\ y = Cardinality(M) /\ z = Cardinality(E)
    BY <2>3, <2>4, <2>6 DEF One
  <2>8. releasing[c] \in Nat
    BY <2>5, LiveIs DEF CountedOf
  <2>9. refs[c] = w + releasing[c] + x + y + z
    BY <2>6, <2>8
  <2> QED
    BY <2>1, <2>2, <2>7, <2>9
<1>5. EachHolderCounts
  BY <1>4 DEF EachHolderCounts
<1>6. PointersLive
  <2>1. ASSUME NEW c \in Creature
        PROVE  /\ master[c] # Nobody => refs[master[c]] > 0 /\ c \in summons[master[c]]
               /\ c \in world => (c \in ofSpawn <=> c \in {e[2] : e \in spawned})
    <3>1. ASSUME master[c] # Nobody PROVE refs[master[c]] > 0 /\ c \in summons[master[c]]
      <4>1. master[c] \in Creature
        BY <1>2, <3>1, LiveIs DEF Records
      <4> QED
        BY <1>2, <3>1, <4>1, LiveIs DEF Related
    <3>2. c \in world => (c \in ofSpawn <=> c \in {e[2] : e \in spawned})
      BY <1>2, <1>3, LiveIs DEF SpawnKnows
    <3> QED
      BY <3>1, <3>2
  <2> QED
    BY <2>1 DEF PointersLive
<1>7. RemovedAreFreed
  <2>1. ASSUME NEW c \in Creature, c \notin world
        PROVE  /\ c \in listed => c \notin checked
               /\ c \in {e[2] : e \in spawned} => checkSpawnEvent
               /\ master[c] # Nobody => master[c] \notin world /\ master[master[c]] = Nobody
    <3>1. c \notin checked
      BY <1>2, <2>1, LiveIs DEF LookedAfter
    <3>2. c \in {e[2] : e \in spawned} => checkSpawnEvent
      BY <1>2, <1>3, <2>1, LiveIs DEF SpawnKnows
    <3>3. master[c] # Nobody => master[c] \notin world /\ master[master[c]] = Nobody
      BY <1>2, <2>1, LiveIs DEF Related
    <3> QED
      BY <3>1, <3>2, <3>3
  <2> QED
    BY <2>1 DEF RemovedAreFreed
<1>8. DeadAreChecked
  BY <1>2, LiveIs DEF LookedAfter, DeadAreChecked
<1>9. OneForEachPlace
  BY <1>2, LiveIs DEF PlacesKnown, OneForEachPlace
<1> QED
  BY <1>5, <1>6, <1>7, <1>8, <1>9 DEF CreaturesAgree

\* Whatever the creatures of the game do, and however many there are, they are
\* counted by those who hold them and sound between any two tasks.
THEOREM CreaturesSound == CreatureSpec => []CreaturesInv
  BY CreaturesBegin, CreaturesStep, PTL DEF CreatureSpec

\* A creature is freed when the last who counts it lets go, nobody points to
\* one that was freed, whoever has left the game does get freed, each place has
\* one monster of its own unless it was announced again before it had it, and
\* whoever dies is noticed (Game::removeCreature,
\* checkCreatures and cleanup, Monster::convinceCreature, Spawn::checkSpawn).
THEOREM CreaturesAlwaysAgree == CreatureSpec => []CreaturesAgree
  BY CreaturesSound, CreaturesInvAgrees, PTL

=============================================================================
