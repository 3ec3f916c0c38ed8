----------------------------- MODULE Dispatcher -----------------------------
(***************************************************************************)
(* The dispatcher: the thread that runs the whole game, and the list of    *)
(* tasks the other threads fill.                                           *)
(*                                                                         *)
(* A critical section of taskLock is one action; what happens between two  *)
(* of them is not.  addTask therefore has two steps, the push and the      *)
(* notification after the unlock, and the thread reads its state, takes    *)
(* the lock, sleeps, is woken and takes the lock again in steps of their   *)
(* own.  A condition variable may wake its thread for no reason.           *)
(***************************************************************************)
EXTENDS FiniteSets, Lists

CONSTANTS
    Threads,        \* the threads that add tasks, the dispatcher's not
    Self,           \* the dispatcher thread: a task may add tasks
    Starter,        \* the main thread, while the server is not yet online
    Events,         \* tasks the scheduler hands over, pushed to the front
    Messages,       \* all others
    Timed,          \* the messages that may expire
    GameShutdown,   \* Game::shutdown, which setGameState queues
    Terminate,      \* the lambda of Dispatcher::shutdown
    NoTask

Tasks == Events \cup Messages

ASSUME DispatcherAssumption ==
    /\ Self \notin Threads /\ Starter \in Threads
    /\ Events \cap Messages = {} /\ Timed \subseteq Messages \ {GameShutdown}
    /\ GameShutdown \in Messages
    /\ Terminate \notin Tasks /\ NoTask \notin Tasks \cup {Terminate}

VARIABLES
    taskState,      \* ThreadHolder::threadState of the dispatcher
    taskList,
    dispatcher,     \* where the thread is
    running,        \* the task it executes
    signalling,     \* the threads that still have to call notify_one
    fate,           \* of every task
    online          \* did mainLoader bring the services up?

vars == <<taskState, taskList, dispatcher, running, signalling, fate, online>>

Init ==
    /\ taskState = "running" /\ taskList = <<>>
    /\ dispatcher = "check" /\ running = NoTask
    /\ signalling = {}
    /\ fate = [t \in Tasks \cup {Terminate} |-> "new"]
    /\ online \in BOOLEAN

-----------------------------------------------------------------------------
IsUrgent(t) == t \in Events

\* mutant: everything at the back
PushedBack(t) == Append(taskList, t)

Pushed(t) == IF IsUrgent(t) THEN <<t>> \o taskList ELSE Append(taskList, t)
WithoutFront == Tail(taskList)

\* mutant: the test for an empty list comes after the push
SignalAfterPush(th, t) ==
    IF Pushed(t) = <<>> THEN signalling \cup {th} ELSE signalling

\* addTask notifies only if the list was empty, and only after the unlock.
Signal(th, t) ==
    IF taskList = <<>> THEN signalling \cup {th} ELSE signalling

\* A thread is in one call of addTask at a time; the dispatcher calls it from
\* the task it runs.
MayAdd(th) == th \notin signalling /\ (th = Self => dispatcher = "run")

AddTask(th, t) ==
    /\ MayAdd(th)
    /\ fate[t] = "new"
    /\ t = GameShutdown => th = Self /\ online
    /\ IF taskState = "running"
       THEN /\ taskList' = Pushed(t)
            /\ signalling' = Signal(th, t)
            /\ fate' = [fate EXCEPT ![t] = "queued"]
       ELSE /\ fate' = [fate EXCEPT ![t] = "deleted"]
            /\ UNCHANGED <<taskList, signalling>>
    /\ UNCHANGED <<taskState, dispatcher, running, online>>

Woken == IF dispatcher = "asleep" THEN "woken" ELSE dispatcher

Notify(th) ==
    /\ th \in signalling
    /\ signalling' = signalling \ {th}
    /\ dispatcher' = Woken
    /\ UNCHANGED <<taskState, taskList, running, fate, online>>

-----------------------------------------------------------------------------
\* The thread.  Its loop condition is read without the lock.
CheckState ==
    /\ dispatcher = "check"
    /\ dispatcher' = IF taskState = "terminated" THEN "ended" ELSE "lock"
    /\ UNCHANGED <<taskState, taskList, running, signalling, fate, online>>

Sleep ==
    /\ dispatcher = "lock" /\ taskList = <<>>
    /\ dispatcher' = "asleep"
    /\ UNCHANGED <<taskState, taskList, running, signalling, fate, online>>

SpuriousWakeUp ==
    /\ dispatcher = "asleep"
    /\ dispatcher' = "woken"
    /\ UNCHANGED <<taskState, taskList, running, signalling, fate, online>>

\* woken up, with the lock again, and the list is empty after all
FindNothing ==
    /\ dispatcher = "woken" /\ taskList = <<>>
    /\ dispatcher' = "check"
    /\ UNCHANGED <<taskState, taskList, running, signalling, fate, online>>

\* The first task is executed, unless its time is over.
TakeTask ==
    /\ dispatcher \in {"lock", "woken"} /\ taskList # <<>>
    /\ LET t == Head(taskList)
       IN  \/ /\ dispatcher' = "run" /\ running' = t
              /\ fate' = [fate EXCEPT ![t] = "run"]
           \/ /\ t \in Timed
              /\ dispatcher' = "check" /\ UNCHANGED running
              /\ fate' = [fate EXCEPT ![t] = "expired"]
    /\ taskList' = WithoutFront
    /\ UNCHANGED <<taskState, signalling, online>>

\* The state of the game goes to GAME_STATE_SHUTDOWN in a task that first adds
\* GameShutdown and then stops the dispatcher.
Closing == fate[GameShutdown] = "queued" /\ taskState = "running"

\* A task returns; Terminate is its own last step, GameShutdown has called
\* Dispatcher::shutdown.
Return ==
    /\ dispatcher = "run" /\ Self \notin signalling
    /\ ~Closing
    /\ running = GameShutdown => fate[Terminate] # "new"
    /\ taskState' = IF running = Terminate THEN "terminated" ELSE taskState
    /\ dispatcher' = "check" /\ running' = NoTask
    /\ UNCHANGED <<taskList, signalling, fate, online>>

-----------------------------------------------------------------------------
\* the rest of setGameState: from here on addTask accepts nothing
Stop ==
    /\ dispatcher = "run" /\ Self \notin signalling
    /\ Closing
    /\ taskState' = "closing"
    /\ UNCHANGED <<taskList, dispatcher, running, signalling, fate, online>>

\* mutants: the terminating task ahead of all others; without the notification
PushTerminateFirst == taskList' = <<Terminate>> \o taskList /\ dispatcher' = Woken
PushTerminateSilently ==
    taskList' = Append(taskList, Terminate) /\ UNCHANGED dispatcher

\* Dispatcher::shutdown pushes and notifies with the lock held.
PushTerminate == taskList' = Append(taskList, Terminate) /\ dispatcher' = Woken

\* GameShutdown calls it, or the main thread of a server that did not come up.
Shutdown(th) ==
    /\ \/ th = Self /\ dispatcher = "run" /\ running = GameShutdown
       \/ th = Starter /\ ~online
    /\ fate[Terminate] = "new"
    /\ fate' = [fate EXCEPT ![Terminate] = "queued"]
    /\ PushTerminate
    /\ UNCHANGED <<taskState, running, signalling, online>>

-----------------------------------------------------------------------------
Ended == dispatcher = "ended" /\ UNCHANGED vars

ThreadMain ==
    CheckState \/ Sleep \/ FindNothing \/ TakeTask \/ Return \/ Stop
    \/ Shutdown(Self)

Next ==
    \/ \E th \in Threads \cup {Self}, t \in Tasks : AddTask(th, t)
    \/ \E th \in Threads \cup {Self} : Notify(th)
    \/ ThreadMain
    \/ SpuriousWakeUp
    \/ Shutdown(Starter)
    \/ Ended

\* No thread stops between two of its statements, and a task that runs comes
\* to its end; a wake-up without a reason is never certain.
Fairness ==
    /\ WF_vars(ThreadMain)
    /\ \A th \in Threads \cup {Self} : WF_vars(Notify(th))

Spec == Init /\ [][Next]_vars /\ Fairness

-----------------------------------------------------------------------------
\* The values of the variables; the thread holds a task exactly while it runs
\* one, and the accepted tasks that have not left the list are in it, once.
TypeOK ==
    /\ taskState \in {"running", "closing", "terminated"}
    /\ taskList \in Seq(Tasks \cup {Terminate})
    /\ dispatcher \in {"check", "lock", "asleep", "woken", "run", "ended"}
    /\ running \in Tasks \cup {Terminate, NoTask}
    /\ signalling \subseteq Threads \cup {Self}
    /\ fate \in [Tasks \cup {Terminate} ->
                   {"new", "queued", "deleted", "run", "expired"}]
    /\ online \in BOOLEAN
    /\ dispatcher = "run" <=> running # NoTask
    /\ \A i, j \in DOMAIN taskList : taskList[i] = taskList[j] => i = j
    /\ \A t \in Tasks \cup {Terminate} :
         fate[t] = "queued" <=> \E i \in DOMAIN taskList : taskList[i] = t

\* A lost wake-up (Dispatcher::addTask, Dispatcher::threadMain): if the thread
\* sleeps beside a list with tasks, the notification that wakes it is still
\* under way, although only the push into the empty list announces itself.
NeverSleepsOnWork ==
    dispatcher = "asleep" /\ taskList # <<>> => signalling # {}

\* A server that came up runs or drops every task it accepted before its
\* thread ends (setGameState closes the list before Game::shutdown runs, and
\* Dispatcher::shutdown pushes behind everything accepted).
NothingLeftBehind ==
    dispatcher = "ended" /\ online =>
        \A t \in Tasks : fate[t] # "queued"

\* Whoever calls Dispatcher::shutdown, the thread comes to its end, so that
\* the join of the main thread returns.
ShutdownEnds == fate[Terminate] = "queued" ~> dispatcher = "ended"

\* The list is the two lanes of TaskQueue, one behind the other: what the
\* threads see is that queue, and with the fairness above it serves everyone.
Queue == INSTANCE TaskQueue WITH
    Urgent <- Events, Ordinary <- Messages \cup {Terminate},
    urgent <- Chosen(taskList, Events),
    ordinary <- Chosen(taskList, Messages \cup {Terminate}),
    stopped <- taskState = "terminated"

TwoLanes == Queue!Spec

\* No accepted task waits for a wake-up that will not come, nor for a thread
\* that has ended (Dispatcher::addTask, threadMain and shutdown).
NothingWaits == NeverSleepsOnWork /\ NothingLeftBehind

=============================================================================
