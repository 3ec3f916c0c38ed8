---------------------------- MODULE ServerThreads ----------------------------
(***************************************************************************)
(* The threads of the server together, from its start to its exit: the     *)
(* main thread serves the network and adds tasks and queries, the tasks    *)
(* the dispatcher runs add events and queries, events and callbacks come   *)
(* back as tasks.  A signal adds the task that closes the server: it stops *)
(* the three components, and Game::shutdown, which runs next, shuts them   *)
(* down one after the other while all threads go on.  At the end the main  *)
(* thread joins the others.                                                *)
(*                                                                         *)
(* Each step is a step of one component; where two components are involved *)
(* (an event handed over, a callback) it is a step of both.                *)
(***************************************************************************)
EXTENDS Naturals, Sequences, FiniteSets

CONSTANTS Messages, Queries, Answered, Events, Delays, MaxTime,
          SigTerm, GameShutdown, Terminate, None

ASSUME ServerThreadsAssumption ==
    /\ Answered \subseteq Queries /\ GameShutdown \notin Queries \cup {SigTerm}
    /\ Terminate \notin Events \cup Messages \cup Answered \cup {SigTerm, GameShutdown}
    /\ None \notin Events \cup Messages \cup Queries
                  \cup {SigTerm, GameShutdown, Terminate}

VARIABLES
    taskState, taskList, dispatcher, running, dSignalling, dFate, online,
    eventState, eventList, eventIds, due, scheduler, deadline, event,
    sSignalling, sClosed, sFate, now,
    queryState, queries, worker, query, qSignalling, qClosed, qFate,
    accepted, executed, callbacks,
    serving,            \* ServiceManager::running
    main                \* where the main thread is

Dispatching == INSTANCE Dispatcher WITH
    Threads <- {"network", "scheduler", "database"}, Self <- "dispatcher",
    Starter <- "network", Timed <- {}, NoTask <- None,
    Messages <- Messages \cup Answered \cup {SigTerm, GameShutdown},
    signalling <- dSignalling, fate <- dFate

Scheduling == INSTANCE Scheduler WITH
    Callers <- {"network", "dispatcher"}, Closer <- "dispatcher",
    NoEvent <- None, inHand <- event, signalling <- sSignalling,
    closed <- sClosed, fate <- sFate

Querying == INSTANCE DatabaseTasks WITH
    Callers <- {"network", "dispatcher"}, Closer <- "dispatcher",
    NoQuery <- None, tasks <- queries, inHand <- query,
    signalling <- qSignalling, closed <- qClosed, fate <- qFate

dVars == <<taskState, taskList, dispatcher, running, dSignalling, dFate, online>>
sVars == <<eventState, eventList, eventIds, due, scheduler, deadline, event,
           sSignalling, sClosed, sFate, now>>
qVars == <<queryState, queries, worker, query, qSignalling, qClosed, qFate,
           accepted, executed, callbacks>>
mVars == <<serving, main>>
vars == <<dVars, sVars, qVars, mVars>>

Init ==
    /\ Dispatching!Init /\ online
    /\ Scheduling!Init /\ Querying!Init
    /\ serving = TRUE /\ main = "serving"

Tasks(step) == step /\ UNCHANGED <<sVars, qVars, mVars>>
Timers(step) == step /\ UNCHANGED <<dVars, qVars, mVars>>
Database(step) == step /\ UNCHANGED <<dVars, sVars, mVars>>

\* Has the thread made the notifications it owes?
Free(th) == th \notin dSignalling \cup sSignalling \cup qSignalling

-----------------------------------------------------------------------------
\* The main thread: what clients send, the signal that ends the server.
Network ==
    /\ main = "serving" /\ Free("network")
    /\ \/ \E t \in Messages \cup {SigTerm} :
            Tasks(Dispatching!AddTask("network", t))
       \/ \E q \in Queries : Database(Querying!AddTask("network", q))

\* io_service::run returns, three seconds after ServiceManager::stop
StopServing ==
    /\ main = "serving" /\ ~serving /\ Free("network")
    /\ main' = "join scheduler"
    /\ UNCHANGED <<dVars, sVars, qVars, serving>>

Join ==
    /\ \/ main = "join scheduler" /\ scheduler = "ended"
          /\ main' = "join database"
       \/ main = "join database" /\ worker = "ended"
          /\ main' = "join dispatcher"
       \/ main = "join dispatcher" /\ dispatcher = "ended"
          /\ main' = "exit"
    /\ UNCHANGED <<dVars, sVars, qVars, serving>>

-----------------------------------------------------------------------------
\* The dispatcher: what an ordinary task may do
RunTask ==
    /\ dispatcher = "run" /\ running \in Messages /\ Free("dispatcher")
    /\ \/ \E e \in Events, d \in Delays :
            Timers(Scheduling!AddEvent("dispatcher", e, d))
       \/ \E e \in Events : Timers(Scheduling!StopEvent("dispatcher", e))
       \/ \E q \in Queries : Database(Querying!AddTask("dispatcher", q))

\* setGameState(GAME_STATE_SHUTDOWN), its statements in their order
Close ==
    /\ dispatcher = "run" /\ running = SigTerm /\ Free("dispatcher")
    /\ \/ Tasks(Dispatching!AddTask("dispatcher", GameShutdown))
       \/ Dispatching!Closing /\ Timers(Scheduling!Stop)
       \/ Dispatching!Closing /\ eventState = "closing"
          /\ Database(Querying!Stop)
       \/ eventState = "closing" /\ queryState = "closing"
          /\ Tasks(Dispatching!Stop)

\* Game::shutdown, likewise; a callback of the flush is a task of its own.
ShutDown ==
    /\ dispatcher = "run" /\ running = GameShutdown /\ Free("dispatcher")
    /\ \/ Timers(Scheduling!SetTerminated \/ Scheduling!Clear)
       \/ /\ sClosed = "done"
          /\ Database(Querying!BeginShutdown \/ Querying!FlushQuery
                      \/ Querying!EndShutdown)
       \/ /\ Querying!FlushAnswer
          /\ IF Head(queries) \in Answered
             THEN Dispatching!AddTask("dispatcher", Head(queries))
             ELSE UNCHANGED dVars
          /\ UNCHANGED <<sVars, mVars>>
       \/ qClosed = "done" /\ Tasks(Dispatching!Shutdown("dispatcher"))
       \/ /\ dFate[Terminate] # "new" /\ serving
          /\ serving' = FALSE
          /\ UNCHANGED <<dVars, sVars, qVars, main>>

Return ==
    /\ Free("dispatcher")
    /\ running = SigTerm => taskState # "running"
    /\ running = GameShutdown => ~serving
    /\ Tasks(Dispatching!Return)

DispatcherThread ==
    \/ Tasks(\/ Dispatching!CheckState \/ Dispatching!Sleep
             \/ Dispatching!FindNothing \/ Dispatching!TakeTask)
    \/ Close \/ ShutDown \/ Return

-----------------------------------------------------------------------------
\* The other two threads: their steps with no dispatcher in them, and the one
\* that adds a task.
SchedulerThread ==
    /\ Free("scheduler")
    /\ \/ Timers(\/ Scheduling!CheckState \/ Scheduling!Sleep
                 \/ Scheduling!TimeOut \/ Scheduling!NoTimeout
                 \/ Scheduling!TakeTop)
       \/ /\ Scheduling!HandOver
          /\ Dispatching!AddTask("scheduler", event)
          /\ UNCHANGED <<qVars, mVars>>

DatabaseThread ==
    /\ Free("database")
    /\ \/ Database(\/ Querying!CheckState \/ Querying!Sleep
                   \/ Querying!FindNothing \/ Querying!TakeQuery
                   \/ Querying!RunQuery)
       \/ /\ Querying!Answer
          /\ IF query \in Answered THEN Dispatching!AddTask("database", query)
             ELSE UNCHANGED dVars
          /\ UNCHANGED <<sVars, mVars>>

Notify(th) ==
    \/ Tasks(Dispatching!Notify(th))
    \/ Timers(Scheduling!Notify(th))
    \/ Database(Querying!Notify(th))

Tick == Timers(Scheduling!Tick)

WakeUp ==
    \/ Tasks(Dispatching!SpuriousWakeUp)
    \/ Timers(Scheduling!SpuriousWakeUp)
    \/ Database(Querying!SpuriousWakeUp)

\* The process is gone, or what it does is undefined.
Over == (main = "exit" \/ scheduler = "undefined") /\ UNCHANGED vars

NamedThreads == {"network", "dispatcher", "scheduler", "database"}

Next ==
    \/ scheduler # "undefined" /\ main # "exit" /\
         \/ Network \/ StopServing \/ Join
         \/ RunTask \/ DispatcherThread
         \/ SchedulerThread \/ DatabaseThread
         \/ \E th \in NamedThreads : Notify(th)
         \/ Tick \/ WakeUp
    \/ Over

\* Every thread goes on; a task that runs comes to its end; time passes.
Fairness ==
    /\ WF_vars(StopServing \/ Join)
    /\ WF_vars(DispatcherThread)
    /\ WF_vars(SchedulerThread)
    /\ WF_vars(DatabaseThread)
    /\ WF_vars(Tick)
    /\ \A th \in NamedThreads : WF_vars(Notify(th))

Spec == Init /\ [][Next]_vars /\ Fairness

-----------------------------------------------------------------------------
\* What the server accepted it has done when it exits: the tasks have run, the
\* events are handed over, stopped or deleted, the queries have reached the
\* database, those too that Game::shutdown and the worker shared out.
ExitLeavesNothing ==
    main = "exit" =>
        /\ \A t \in Dispatching!Tasks : dFate[t] # "queued"
        /\ \A e \in Events : sFate[e] # "pending"
        /\ \A q \in Queries : qFate[q] # "accepted"

\* signals.cpp: "Shuts the server down".
ServerStops == dFate[SigTerm] = "queued" ~> main = "exit"

\* shutdown sets the state after a thread has read it and before the thread
\* waits, and nobody will notify again.
SchedulerLost ==
    scheduler = "asleep" /\ sClosed = "done" /\ sSignalling = {}
WorkerLost ==
    worker = "asleep" /\ qClosed = "done" /\ qSignalling = {}

\* Nothing but these lost wake-ups (and the undefined step of the scheduler)
\* keeps the server from stopping: not the locks, the joins or the lists.
OnlyLostWakeUpsHang ==
    dFate[SigTerm] = "queued" ~>
        (main = "exit" \/ SchedulerLost \/ WorkerLost \/ scheduler = "undefined")

=============================================================================
