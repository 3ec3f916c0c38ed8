---------------------------- MODULE DatabaseTasks ----------------------------
(***************************************************************************)
(* The queries nobody waits for: other threads add them to a list, one     *)
(* worker thread runs them on a connection of its own and hands the answer *)
(* to the dispatcher.  The shutdown runs what is left itself, under the    *)
(* lock of the list, while the worker may still be busy with one query.    *)
(* As in Dispatcher a critical section of taskLock is one action; that of  *)
(* the shutdown is long and keeps the others out.                          *)
(***************************************************************************)
EXTENDS Sequences, SequencesExt, FiniteSets

CONSTANTS
    Callers,        \* the threads that add queries
    Closer,         \* the one that shuts the worker down
    Queries,
    Answered,       \* those with a callback
    NoQuery

ASSUME DatabaseTasksAssumption ==
    /\ Closer \in Callers /\ Answered \subseteq Queries
    /\ NoQuery \notin Queries

VARIABLES
    queryState,     \* ThreadHolder::threadState
    tasks,          \* the list of queries
    worker,         \* where the thread is
    inHand,         \* the query it has taken from the list
    signalling,     \* the callers that still have to call notify_one
    closed,         \* how far DatabaseTasks::shutdown has come
    fate,           \* of every query
    accepted,       \* history: the queries that were added,
    executed,       \* those the database has run,
    callbacks       \* and the callbacks given to the dispatcher

vars == <<queryState, tasks, worker, inHand, signalling, closed, fate,
          accepted, executed, callbacks>>

history == <<accepted, executed, callbacks>>

Init ==
    /\ queryState = "running" /\ tasks = <<>>
    /\ worker = "check" /\ inHand = NoQuery
    /\ signalling = {} /\ closed = "no"
    /\ fate = [q \in Queries |-> "new"]
    /\ accepted = <<>> /\ executed = <<>> /\ callbacks = <<>>

-----------------------------------------------------------------------------
\* mutant: the shutdown lets go of the lock while it runs the queries
LockNeverHeld == TRUE

\* The shutdown holds taskLock while it empties the list.
LockFree == closed \notin {"flushing", "answering"}

\* A thread is in one call at a time.
MayCall(c) == c \notin signalling /\ (c = Closer => closed \in {"no", "done"})

\* mutant: the test for an empty list comes after the push
SignalAfterPush(c, q) ==
    IF Append(tasks, q) = <<>> THEN signalling \cup {c} ELSE signalling

Signal(c, q) == IF tasks = <<>> THEN signalling \cup {c} ELSE signalling

Pushed(q) == Append(tasks, q)

Accepts == queryState = "running"

\* A query added after stop() disappears, and its callback with it.
AddTask(c, q) ==
    /\ MayCall(c) /\ LockFree
    /\ fate[q] = "new"
    /\ IF Accepts
       THEN /\ tasks' = Pushed(q)
            /\ signalling' = Signal(c, q)
            /\ fate' = [fate EXCEPT ![q] = "accepted"]
            /\ accepted' = Append(accepted, q)
       ELSE /\ fate' = [fate EXCEPT ![q] = "dropped"]
            /\ UNCHANGED <<tasks, signalling, accepted>>
    /\ UNCHANGED <<queryState, worker, inHand, closed, executed, callbacks>>

Notify(c) ==
    /\ c \in signalling
    /\ signalling' = signalling \ {c}
    /\ worker' = IF worker = "asleep" THEN "woken" ELSE worker
    /\ UNCHANGED <<queryState, tasks, inHand, closed, fate, history>>

-----------------------------------------------------------------------------
\* The worker.  Its loop condition is read without the lock.
CheckState ==
    /\ worker = "check"
    /\ worker' = IF queryState = "terminated" THEN "ended" ELSE "lock"
    /\ UNCHANGED <<queryState, tasks, inHand, signalling, closed, fate, history>>

Sleep ==
    /\ worker = "lock" /\ LockFree /\ tasks = <<>>
    /\ worker' = "asleep"
    /\ UNCHANGED <<queryState, tasks, inHand, signalling, closed, fate, history>>

SpuriousWakeUp ==
    /\ worker = "asleep"
    /\ worker' = "woken"
    /\ UNCHANGED <<queryState, tasks, inHand, signalling, closed, fate, history>>

FindNothing ==
    /\ worker = "woken" /\ LockFree /\ tasks = <<>>
    /\ worker' = "check"
    /\ UNCHANGED <<queryState, tasks, inHand, signalling, closed, fate, history>>

WithoutFront == Tail(tasks)

TakeQuery ==
    /\ worker \in {"lock", "woken"} /\ LockFree /\ tasks # <<>>
    /\ inHand' = Head(tasks) /\ tasks' = WithoutFront
    /\ worker' = "query"
    /\ UNCHANGED <<queryState, signalling, closed, fate, history>>

\* runTask, without the lock: the database serves one query at a time, and
\* the callback goes to the dispatcher once the answer is there.
RunQuery ==
    /\ worker = "query"
    /\ executed' = Append(executed, inHand)
    /\ fate' = [fate EXCEPT ![inHand] = "executed"]
    /\ worker' = "answer"
    /\ UNCHANGED <<queryState, tasks, inHand, signalling, closed, accepted,
                   callbacks>>

AnswerTo(q) == IF q \in Answered THEN Append(callbacks, q) ELSE callbacks

Answer ==
    /\ worker = "answer"
    /\ callbacks' = AnswerTo(inHand)
    /\ worker' = "check" /\ inHand' = NoQuery
    /\ UNCHANGED <<queryState, tasks, signalling, closed, fate, accepted, executed>>

-----------------------------------------------------------------------------
Stop ==
    /\ queryState = "running"
    /\ queryState' = "closing"
    /\ UNCHANGED <<tasks, worker, inHand, signalling, closed, fate, history>>

\* DatabaseTasks::shutdown takes the lock, stores the state, runs the list to
\* its end (flush), unlocks and notifies.
BeginShutdown ==
    /\ MayCall(Closer) /\ closed = "no"
    /\ queryState' = "terminated" /\ closed' = "flushing"
    /\ UNCHANGED <<tasks, worker, inHand, signalling, fate, history>>

FlushQuery ==
    /\ closed = "flushing" /\ tasks # <<>>
    /\ executed' = Append(executed, Head(tasks))
    /\ fate' = [fate EXCEPT ![Head(tasks)] = "executed"]
    /\ closed' = "answering"
    /\ UNCHANGED <<queryState, tasks, worker, inHand, signalling, accepted,
                   callbacks>>

FlushAnswer ==
    /\ closed = "answering"
    /\ callbacks' = AnswerTo(Head(tasks))
    /\ tasks' = Tail(tasks)
    /\ closed' = "flushing"
    /\ UNCHANGED <<queryState, worker, inHand, signalling, fate, accepted, executed>>

\* mutant: what is left in the list is given up
EndAtOnce == closed = "flushing"

FlushedAll == closed = "flushing" /\ tasks = <<>>

EndShutdown ==
    /\ FlushedAll
    /\ closed' = "done"
    /\ signalling' = signalling \cup {Closer}
    /\ UNCHANGED <<queryState, tasks, worker, inHand, fate, history>>

-----------------------------------------------------------------------------
Ended == worker = "ended" /\ UNCHANGED vars

ThreadMain ==
    CheckState \/ Sleep \/ FindNothing \/ TakeQuery \/ RunQuery \/ Answer

Flush == FlushQuery \/ FlushAnswer \/ EndShutdown

Next ==
    \/ \E c \in Callers : Notify(c) \/ \E q \in Queries : AddTask(c, q)
    \/ ThreadMain
    \/ SpuriousWakeUp
    \/ Stop \/ BeginShutdown \/ Flush
    \/ Ended

\* No thread stops between two of its statements and the database answers; a
\* wake-up without a reason is never certain.
Fairness ==
    /\ WF_vars(ThreadMain) /\ WF_vars(Flush)
    /\ \A c \in Callers : WF_vars(Notify(c))

Spec == Init /\ [][Next]_vars /\ Fairness

-----------------------------------------------------------------------------
\* The values of the variables; the worker holds a query exactly while it is
\* busy with it, and a query is in one place.
TypeOK ==
    /\ queryState \in {"running", "closing", "terminated"}
    /\ tasks \in Seq(Queries)
    /\ worker \in {"check", "lock", "asleep", "woken", "query", "answer", "ended"}
    /\ inHand \in Queries \cup {NoQuery}
    /\ signalling \subseteq Callers
    /\ closed \in {"no", "flushing", "answering", "done"}
    /\ fate \in [Queries -> {"new", "accepted", "dropped", "executed"}]
    /\ \A s \in {accepted, executed, callbacks} : s \in Seq(Queries)
    /\ worker \in {"query", "answer"} <=> inHand # NoQuery
    /\ IsInjective(tasks) /\ inHand \notin ToSet(tasks)

\* The database runs a query once, whether the worker (threadMain) or the
\* shutdown (flush) takes it from the list.
RunsOnce == IsInjective(executed)

\* The answers come in the order of the queries, and none is left out.
CallbacksFollow ==
    /\ IsInjective(callbacks)
    /\ ToSet(callbacks) \subseteq ToSet(accepted) \cap Answered
    /\ \A i, j \in DOMAIN accepted :
         i < j /\ accepted[i] \in Answered /\ accepted[j] \in ToSet(callbacks)
         => \E m, n \in DOMAIN callbacks :
               m < n /\ callbacks[m] = accepted[i] /\ callbacks[n] = accepted[j]

\* Until the server shuts down, queries run in the order in which they were
\* added, and their callbacks reach the dispatcher in that order.
InOrder == closed = "no" => IsPrefix(executed, accepted) /\ CallbacksFollow

\* flush runs beside the worker: it may overtake the query the worker has
\* taken but not yet run, and no other.
OvertakesOne ==
    \A i, j \in DOMAIN accepted :
        /\ i < j
        /\ fate[accepted[j]] = "executed" /\ fate[accepted[i]] # "executed"
        => accepted[i] = inHand /\ closed # "no"

\* No accepted query is lost: when the shutdown is done and the worker has
\* ended, so that the server exits, the database has run them all.
NoQueryLost ==
    closed = "done" /\ worker = "ended" => \A q \in Queries : fate[q] # "accepted"

\* An accepted query is run, by the one or the other.
AcceptedRuns == \A q \in Queries : fate[q] = "accepted" ~> fate[q] = "executed"

\* Whichever of the worker and the flush takes a query: it runs once, behind
\* those added before it but for the one in the worker's hands, and before
\* the server ends (threadMain, runTask, flush).
QueriesInTurn == RunsOnce /\ InOrder /\ OvertakesOne /\ NoQueryLost

=============================================================================
