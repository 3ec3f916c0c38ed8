----------------------------- MODULE WorldProofs -----------------------------
(***************************************************************************)
(* What the world keeps: the queries to the database that nobody waits     *)
(* for, for any number of callers and queries; the houses, for any         *)
(* players, houses and beds; and the items, for any bags in bags, players  *)
(* and stacks, and any street.                                             *)
(***************************************************************************)
EXTENDS DatabaseTasks, MCThings, Facts

-----------------------------------------------------------------------------
(***************************************************************************)
(* The queries: the list is the end of all that was accepted, and          *)
(* everything before it has run but for the query in the worker's hands.   *)
(***************************************************************************)
\* How many queries have left the list.
Taken == Len(accepted) - Len(tasks)

Values ==
    /\ queryState \in {"running", "closing", "terminated"}
    /\ worker \in {"check", "lock", "asleep", "woken", "query", "answer", "ended"}
    /\ closed \in {"no", "flushing", "answering", "done"}
    /\ fate \in [Queries -> {"new", "accepted", "dropped", "executed"}]
    /\ tasks \in Seq(Queries) /\ accepted \in Seq(Queries)
    /\ executed \in Seq(Queries) /\ callbacks \in Seq(Queries)

\* The list is the end of what was accepted.
ListIsRest ==
    /\ NoDuplicate(accepted)
    /\ Len(tasks) <= Len(accepted)
    /\ \A i \in 1..Len(tasks) : tasks[i] = accepted[Taken + i]

\* What the database has run, by name
RunIsFate ==
    /\ NoDuplicate(executed)
    /\ \A q \in Queries : /\ In(q, accepted) <=> fate[q] \in {"accepted", "executed"}
                          /\ In(q, executed) <=> fate[q] = "executed"

\* and by place: all before the list but for the query in hand, and the first
\* of the list while the flush answers it.
RunIsTaken ==
    \A i \in 1..Len(accepted) :
        fate[accepted[i]] = "executed"
        <=> \/ i <= Taken /\ ~(worker = "query" /\ inHand = accepted[i])
            \/ closed = "answering" /\ i = Taken + 1

HandIsTaken ==
    /\ worker \in {"query", "answer"} => \E i \in 1..Taken : inHand = accepted[i]
    /\ worker \in {"query", "answer"} /\ closed = "no" => inHand = accepted[Taken]

\* Before the shutdown what has run is the beginning of what was accepted.
RunIsPrefix ==
    closed = "no" =>
        /\ Len(executed) = IF worker = "query" THEN Taken - 1 ELSE Taken
        /\ \A i \in 1..Len(executed) : executed[i] = accepted[i]

\* how far the answers have come then
Replied == IF worker \in {"query", "answer"} THEN Taken - 1 ELSE Taken

RepliesFollow ==
    closed = "no" =>
        /\ NoDuplicate(callbacks)
        /\ \A q : In(q, callbacks)
                  <=> q \in Answered /\ \E i \in 1..Replied : q = accepted[i]
        /\ \A m, n \in 1..Len(callbacks), i, j \in 1..Len(accepted) :
             callbacks[m] = accepted[i] /\ callbacks[n] = accepted[j] /\ m < n => i < j

\* The shutdown ends with nothing in the list, and nothing is added to it.
ClosedWell ==
    /\ closed # "no" => queryState = "terminated"
    /\ closed = "answering" => tasks # <<>>
    /\ closed = "done" => tasks = <<>>

QueryInv ==
    /\ Values /\ ListIsRest /\ RunIsFate /\ RunIsTaken /\ HandIsTaken
    /\ RunIsPrefix /\ RepliesFollow /\ ClosedWell

\* Lists of queries have a length.
LEMMA Lengths ==
    ASSUME Values, ListIsRest
    PROVE  /\ Len(accepted) \in Nat /\ Len(tasks) \in Nat /\ Len(executed) \in Nat
           /\ Len(callbacks) \in Nat /\ Taken \in Nat /\ Taken + Len(tasks) = Len(accepted)
           /\ \A i \in 1..Len(accepted) : accepted[i] \in Queries
           /\ DOMAIN accepted = 1..Len(accepted) /\ DOMAIN executed = 1..Len(executed)
           /\ DOMAIN callbacks = 1..Len(callbacks) /\ DOMAIN tasks = 1..Len(tasks)
<1>1. Len(accepted) \in Nat /\ Len(tasks) \in Nat /\ Len(tasks) <= Len(accepted)
  BY DEF Values, ListIsRest
<1>2. Len(executed) \in Nat /\ Len(callbacks) \in Nat
  BY DEF Values
<1>3. Taken \in Nat /\ Taken + Len(tasks) = Len(accepted)
  BY <1>1 DEF Taken
<1>4. \A i \in 1..Len(accepted) : accepted[i] \in Queries
  BY DEF Values
<1> QED
  BY <1>1, <1>2, <1>3, <1>4 DEF Values

\* What a thread does that takes or runs no query keeps all that is said.
LEMMA Elsewhere ==
    ASSUME QueryInv, UNCHANGED <<tasks, inHand, fate, history>>,
           worker' \in {"check", "lock", "asleep", "woken", "query", "answer", "ended"},
           worker' = worker \/ {worker, worker'} \cap {"query", "answer"} = {},
           queryState' = queryState /\ closed' = closed
    PROVE  QueryInv'
<1>1. UNCHANGED <<accepted, executed, callbacks, tasks, inHand, fate, queryState, closed>>
  BY DEF history
<1>2. worker' = worker \/ (worker' \notin {"query", "answer"} /\ worker \notin {"query", "answer"})
  OBVIOUS
<1>3. Taken' = Taken /\ Replied' = Replied
  BY <1>1, <1>2 DEF Taken, Replied
<1>4. Values' /\ ListIsRest' /\ RunIsFate' /\ ClosedWell'
  BY <1>1, <1>3 DEF QueryInv, Values, ListIsRest, RunIsFate, ClosedWell
<1>5. RunIsTaken' /\ HandIsTaken'
  BY <1>1, <1>2, <1>3 DEF QueryInv, RunIsTaken, HandIsTaken
<1>6. RunIsPrefix'
  BY <1>1, <1>2, <1>3 DEF QueryInv, RunIsPrefix
<1>7. RepliesFollow'
  BY <1>1, <1>3 DEF QueryInv, RepliesFollow
<1> QED
  BY <1>4, <1>5, <1>6, <1>7 DEF QueryInv

\* The shutdown begins or ends, or the server no longer takes queries.
LEMMA ShutdownMoves ==
    ASSUME QueryInv, UNCHANGED <<tasks, worker, inHand, fate, history>>,
           queryState' \in {"running", "closing", "terminated"},
           \/ closed' = closed /\ (queryState' = queryState \/ closed = "no")
           \/ closed = "no" /\ closed' = "flushing" /\ queryState' = "terminated"
           \/ closed = "flushing" /\ closed' = "done" /\ tasks = <<>> /\ queryState' = queryState
    PROVE  QueryInv'
<1>1. UNCHANGED <<accepted, executed, callbacks, tasks, inHand, fate, worker>>
  BY DEF history
<1>2. Taken' = Taken /\ Replied' = Replied
  BY <1>1 DEF Taken, Replied
<1>3. closed' \in {"no", "flushing", "answering", "done"}
      /\ (closed' = "no" => closed = "no")
      /\ (closed' = "answering" <=> closed = "answering")
  BY DEF QueryInv, Values
<1>4. Values' /\ ListIsRest' /\ RunIsFate'
  BY <1>1, <1>2, <1>3 DEF QueryInv, Values, ListIsRest, RunIsFate
<1>5. ClosedWell'
  BY <1>1 DEF QueryInv, ClosedWell
<1>6. RunIsTaken' /\ HandIsTaken'
  BY <1>1, <1>2, <1>3 DEF QueryInv, RunIsTaken, HandIsTaken
<1>7. RunIsPrefix' /\ RepliesFollow'
  BY <1>1, <1>2, <1>3 DEF QueryInv, RunIsPrefix, RepliesFollow
<1> QED
  BY <1>4, <1>5, <1>6, <1>7 DEF QueryInv

\* A query is added behind all others, or disappears.
LEMMA Added ==
    ASSUME QueryInv, NEW c \in Callers, NEW q \in Queries, AddTask(c, q)
    PROVE  QueryInv'
<1>1. UNCHANGED <<queryState, worker, inHand, closed, executed, callbacks>> /\ fate[q] = "new"
  BY DEF AddTask
<1>2. ~In(q, accepted) /\ ~In(q, executed)
  BY <1>1 DEF QueryInv, RunIsFate
<1>3. /\ Len(accepted) \in Nat /\ Len(tasks) \in Nat /\ Taken \in Nat
      /\ Taken + Len(tasks) = Len(accepted)
      /\ \A i \in 1..Len(accepted) : accepted[i] \in Queries /\ accepted[i] # q
      /\ DOMAIN accepted = 1..Len(accepted)
  BY <1>2, Lengths DEF QueryInv, In
<1>4. fate \in [Queries -> {"new", "accepted", "dropped", "executed"}]
  BY DEF QueryInv, Values
<1>5. CASE queryState # "running"
  <2>1. UNCHANGED <<tasks, accepted>> /\ fate' = [fate EXCEPT ![q] = "dropped"]
    BY <1>5 DEF AddTask, Accepts
  <2>2. fate'[q] = "dropped" /\ \A r \in Queries \ {q} : fate'[r] = fate[r]
    BY <1>4, <2>1
  <2>3. Taken' = Taken /\ Replied' = Replied
    BY <1>1, <2>1 DEF Taken, Replied
  <2>4. Values'
    BY <1>1, <2>1 DEF QueryInv, Values
  <2>5. RunIsFate'
    BY <1>1, <1>2, <2>1, <2>2 DEF QueryInv, RunIsFate
  <2>6. RunIsTaken'
    <3>1. \A i \in 1..Len(accepted) : fate'[accepted[i]] = fate[accepted[i]]
      BY <1>3, <2>2
    <3> QED
      BY <1>1, <2>1, <2>3, <3>1 DEF QueryInv, RunIsTaken
  <2>7. ListIsRest' /\ HandIsTaken' /\ RunIsPrefix' /\ RepliesFollow' /\ ClosedWell'
    BY <1>1, <2>1, <2>3 DEF QueryInv, ListIsRest, HandIsTaken, RunIsPrefix, RepliesFollow, ClosedWell
  <2> QED
    BY <2>4, <2>5, <2>6, <2>7 DEF QueryInv
<1>6. CASE queryState = "running"
  <2>1. /\ tasks' = Append(tasks, q) /\ accepted' = Append(accepted, q)
        /\ fate' = [fate EXCEPT ![q] = "accepted"]
    BY <1>6 DEF AddTask, Accepts, Pushed
  <2>2. fate'[q] = "accepted" /\ \A r \in Queries \ {q} : fate'[r] = fate[r]
    BY <1>4, <2>1
  <2>3. closed = "no"
    BY <1>6 DEF QueryInv, ClosedWell
  <2>4. /\ accepted' \in Seq(Queries) /\ tasks' \in Seq(Queries)
        /\ NoDuplicate(accepted') /\ \A r : In(r, accepted') <=> r = q \/ In(r, accepted)
    BY <1>2, <2>1, PushBack DEF QueryInv, Values, ListIsRest
  <2>5. /\ Len(accepted') = Len(accepted) + 1 /\ Len(tasks') = Len(tasks) + 1
        /\ \A i \in 1..Len(accepted) : accepted'[i] = accepted[i]
        /\ accepted'[Len(accepted) + 1] = q
        /\ \A i \in 1..Len(tasks) : tasks'[i] = tasks[i]
        /\ tasks'[Len(tasks) + 1] = q
    BY <2>1 DEF QueryInv, Values
  <2>6. Taken' = Taken /\ Replied' = Replied
    <3>1. Taken' = Taken
      BY <1>3, <2>5 DEF Taken
    <3> QED
      BY <1>1, <3>1 DEF Replied
  <2>7. Values'
    BY <1>1, <2>1, <2>4 DEF QueryInv, Values
  <2>8. ListIsRest'
    <3>1. ASSUME NEW i \in 1..(Len(tasks) + 1) PROVE tasks'[i] = accepted'[Taken + i]
      <4>1. CASE i = Len(tasks) + 1
        <5>1. Taken + i = Len(accepted) + 1
          BY <1>3, <4>1
        <5> QED
          BY <2>5, <4>1, <5>1
      <4>2. CASE i # Len(tasks) + 1
        <5>1. i \in 1..Len(tasks) /\ Taken + i \in 1..Len(accepted)
          BY <1>3, <4>2
        <5>2. tasks[i] = accepted[Taken + i]
          BY <5>1 DEF QueryInv, ListIsRest
        <5> QED
          BY <2>5, <5>1, <5>2
      <4> QED
        BY <4>1, <4>2
    <3>2. Len(tasks') <= Len(accepted')
      BY <1>3, <2>5
    <3> QED
      BY <2>4, <2>5, <2>6, <3>1, <3>2 DEF ListIsRest
  <2>9. RunIsFate'
    BY <1>1, <1>2, <2>2, <2>4 DEF QueryInv, RunIsFate
  <2>10. RunIsTaken'
    <3>1. ASSUME NEW i \in 1..(Len(accepted) + 1)
          PROVE  fate'[accepted'[i]] = "executed"
                 <=> i <= Taken /\ ~(worker = "query" /\ inHand = accepted'[i])
      <4>1. CASE i = Len(accepted) + 1
        <5>1. ~(i <= Taken)
          BY <1>3, <4>1
        <5> QED
          BY <2>2, <2>5, <4>1, <5>1
      <4>2. CASE i # Len(accepted) + 1
        <5>1. i \in 1..Len(accepted)
          BY <1>3, <4>2
        <5>2. fate'[accepted'[i]] = fate[accepted[i]] /\ accepted'[i] = accepted[i]
          BY <1>3, <2>2, <2>5, <5>1
        <5> QED
          BY <2>3, <5>1, <5>2 DEF QueryInv, RunIsTaken
      <4> QED
        BY <4>1, <4>2
    <3> QED
      BY <1>1, <2>3, <2>5, <2>6, <3>1 DEF RunIsTaken
  <2>11. HandIsTaken'
    <3>1. \A i \in 1..Taken : accepted'[i] = accepted[i]
      BY <1>3, <2>5
    <3>2. worker \in {"query", "answer"} => Taken \in 1..Taken
      BY <1>3 DEF QueryInv, HandIsTaken
    <3> QED
      BY <1>1, <2>6, <3>1, <3>2 DEF QueryInv, HandIsTaken
  <2>12. RunIsPrefix'
    <3>1. Len(executed) <= Len(accepted) /\ Len(executed) \in Nat
      <4>1. Len(executed) = Taken - 1 \/ Len(executed) = Taken
        BY <2>3 DEF QueryInv, RunIsPrefix
      <4>2. Len(executed) \in Nat
        BY Lengths DEF QueryInv
      <4> QED
        BY <1>3, <4>1, <4>2
    <3>2. \A i \in 1..Len(executed) : executed[i] = accepted'[i]
      BY <1>3, <2>3, <2>5, <3>1 DEF QueryInv, RunIsPrefix
    <3> QED
      BY <1>1, <2>3, <2>6, <3>2 DEF QueryInv, RunIsPrefix
  <2>13. RepliesFollow'
    <3>1. Replied <= Len(accepted) /\ Replied \in Int
      BY <1>3 DEF Replied
    <3>2. \A i \in 1..Replied : accepted'[i] = accepted[i]
      BY <1>3, <2>5, <3>1
    <3>3. \A r : In(r, callbacks') <=> r \in Answered /\ \E i \in 1..Replied' : r = accepted'[i]
      BY <1>1, <2>3, <2>6, <3>2 DEF QueryInv, RepliesFollow
    <3>4. ASSUME NEW m \in 1..Len(callbacks), NEW n \in 1..Len(callbacks),
                 NEW i \in 1..Len(accepted'), NEW j \in 1..Len(accepted'),
                 callbacks[m] = accepted'[i], callbacks[n] = accepted'[j], m < n
          PROVE  i < j
      <4>1. In(callbacks[m], callbacks) /\ In(callbacks[n], callbacks)
        BY Lengths DEF In, QueryInv
      <4>2. callbacks[m] # q /\ callbacks[n] # q
        <5>1. \A r : In(r, callbacks) => \E k \in 1..Len(accepted) : r = accepted[k]
          <6>1. \A h \in 1..Replied : h \in 1..Len(accepted)
            BY <1>3, <3>1
          <6>2. \A r : In(r, callbacks) => \E k \in 1..Replied : r = accepted[k]
            BY <2>3 DEF QueryInv, RepliesFollow
          <6> QED
            BY <6>1, <6>2
        <5> QED
          BY <1>3, <4>1, <5>1
      <4>3. i \in 1..Len(accepted) /\ j \in 1..Len(accepted)
        BY <1>3, <2>5, <3>4, <4>2
      <4> QED
        BY <2>3, <2>5, <3>4, <4>3 DEF QueryInv, RepliesFollow
    <3> QED
      BY <1>1, <2>3, <3>3, <3>4 DEF QueryInv, RepliesFollow
  <2>14. ClosedWell'
    BY <1>1, <2>3 DEF ClosedWell
  <2> QED
    BY <2>7, <2>8, <2>9, <2>10, <2>11, <2>12, <2>13, <2>14 DEF QueryInv
<1> QED
  BY <1>5, <1>6

\* The worker takes the first of the list, before any shutdown.
LEMMA QueryTaken == ASSUME QueryInv, TakeQuery PROVE QueryInv'
<1>1. /\ UNCHANGED <<queryState, closed, fate, accepted, executed, callbacks>>
      /\ worker \notin {"query", "answer"} /\ worker' = "query" /\ tasks # <<>>
      /\ inHand' = Head(tasks) /\ tasks' = Tail(tasks)
  BY DEF TakeQuery, WithoutFront, history
<1>2. closed = "no"
  BY DEF TakeQuery, LockFree, QueryInv, Values, ClosedWell
<1>3. /\ Len(accepted) \in Nat /\ Len(tasks) \in Nat /\ Taken \in Nat
      /\ Taken + Len(tasks) = Len(accepted) /\ DOMAIN accepted = 1..Len(accepted)
  BY Lengths DEF QueryInv
<1>4. /\ tasks' \in Seq(Queries) /\ Len(tasks') = Len(tasks) - 1 /\ Len(tasks) \in Nat \ {0}
      /\ \A i \in 1..(Len(tasks) - 1) : tasks'[i] = tasks[i + 1]
      /\ inHand' = tasks[1]
  BY <1>1 DEF QueryInv, Values
<1>5. Taken' = Taken + 1
  BY <1>1, <1>3, <1>4 DEF Taken
<1>6. inHand' = accepted[Taken + 1] /\ Taken + 1 \in 1..Len(accepted)
  <2>1. 1 \in 1..Len(tasks)
    BY <1>4
  <2>2. tasks[1] = accepted[Taken + 1]
    BY <2>1 DEF QueryInv, ListIsRest
  <2> QED
    BY <1>3, <1>4, <2>2
<1>7. Replied' = Replied
  BY <1>1, <1>3, <1>5 DEF Replied
<1>8. Values' /\ RunIsFate'
  BY <1>1, <1>4 DEF QueryInv, Values, RunIsFate
<1>9. ListIsRest'
  <2>1. ASSUME NEW i \in 1..(Len(tasks) - 1) PROVE tasks'[i] = accepted[Taken' + i]
    <3>1. i + 1 \in 1..Len(tasks) /\ Taken + (i + 1) = Taken' + i
      <4>1. PICK t \in Nat : t = Len(tasks)
        BY <1>4
      <4>2. i + 1 \in 1..t
        BY <4>1
      <4>3. i \in Int
        BY <4>1
      <4> QED
        BY <1>3, <1>5, <4>1, <4>2, <4>3
    <3>2. tasks[i + 1] = accepted[Taken + (i + 1)]
      BY <3>1 DEF QueryInv, ListIsRest
    <3> QED
      BY <1>4, <3>1, <3>2
  <2>2. Len(tasks') <= Len(accepted)
    BY <1>3, <1>4
  <2> QED
    BY <1>1, <1>4, <2>1, <2>2 DEF QueryInv, ListIsRest
<1>10. RunIsTaken'
  <2>1. ASSUME NEW i \in 1..Len(accepted)
        PROVE  fate[accepted[i]] = "executed" <=> i <= Taken + 1 /\ accepted[Taken + 1] # accepted[i]
    <3>1. fate[accepted[i]] = "executed" <=> i <= Taken
      BY <1>1, <1>2 DEF QueryInv, RunIsTaken
    <3>2. accepted[Taken + 1] = accepted[i] <=> i = Taken + 1
      BY <1>3, <1>6 DEF QueryInv, ListIsRest, NoDuplicate
    <3> QED
      BY <1>3, <3>1, <3>2
  <2> QED
    BY <1>1, <1>2, <1>5, <1>6, <2>1 DEF RunIsTaken
<1>11. HandIsTaken'
  <2>1. Taken + 1 \in 1..(Taken + 1)
    BY <1>3
  <2> QED
    BY <1>1, <1>5, <1>6, <2>1 DEF HandIsTaken
<1>12. RunIsPrefix'
  <2>1. Len(executed) = Taken /\ \A i \in 1..Len(executed) : executed[i] = accepted[i]
    BY <1>1, <1>2 DEF QueryInv, RunIsPrefix
  <2>2. Taken' - 1 = Taken
    BY <1>3, <1>5
  <2> QED
    BY <1>1, <2>1, <2>2 DEF RunIsPrefix
<1>13. RepliesFollow' /\ ClosedWell'
  BY <1>1, <1>2, <1>7 DEF QueryInv, RepliesFollow, ClosedWell
<1> QED
  BY <1>8, <1>9, <1>10, <1>11, <1>12, <1>13 DEF QueryInv

\* One more query has run, which had not.
LEMMA Ran ==
    ASSUME QueryInv, NEW q \in Queries, fate[q] = "accepted",
           executed' = Append(executed, q), fate' = [fate EXCEPT ![q] = "executed"]
    PROVE  /\ executed' \in Seq(Queries) /\ Len(executed') = Len(executed) + 1
           /\ executed'[Len(executed) + 1] = q
           /\ \A i \in 1..Len(executed) : executed'[i] = executed[i]
           /\ fate' \in [Queries -> {"new", "accepted", "dropped", "executed"}]
           /\ fate'[q] = "executed" /\ \A r \in Queries \ {q} : fate'[r] = fate[r]
           /\ UNCHANGED accepted => RunIsFate'
<1>1. fate \in [Queries -> {"new", "accepted", "dropped", "executed"}]
      /\ executed \in Seq(Queries)
  BY DEF QueryInv, Values
<1>2. fate' \in [Queries -> {"new", "accepted", "dropped", "executed"}]
      /\ fate'[q] = "executed" /\ \A r \in Queries \ {q} : fate'[r] = fate[r]
  BY <1>1
<1>3. ~In(q, executed) /\ NoDuplicate(executed)
  BY DEF QueryInv, RunIsFate
<1>4. /\ executed' \in Seq(Queries) /\ NoDuplicate(executed')
      /\ \A r : In(r, executed') <=> r = q \/ In(r, executed)
  BY <1>1, <1>3, PushBack
<1>5. /\ Len(executed') = Len(executed) + 1
      /\ executed'[Len(executed) + 1] = q
      /\ \A i \in 1..Len(executed) : executed'[i] = executed[i]
  BY <1>1
<1>6. UNCHANGED accepted => RunIsFate'
  BY <1>2, <1>4 DEF QueryInv, RunIsFate
<1> QED
  BY <1>2, <1>4, <1>5, <1>6

\* The worker runs the query in its hands.
LEMMA QueryRun == ASSUME QueryInv, RunQuery PROVE QueryInv'
<1>1. /\ UNCHANGED <<queryState, tasks, inHand, closed, accepted, callbacks>>
      /\ worker = "query" /\ worker' = "answer"
      /\ executed' = Append(executed, inHand)
      /\ fate' = [fate EXCEPT ![inHand] = "executed"]
  BY DEF RunQuery
<1>2. /\ Len(accepted) \in Nat /\ Taken \in Nat /\ Taken <= Len(accepted)
      /\ Len(executed) \in Nat /\ DOMAIN accepted = 1..Len(accepted)
      /\ \A i \in 1..Len(accepted) : accepted[i] \in Queries
  BY Lengths DEF QueryInv
<1>3. PICK k \in 1..Taken : inHand = accepted[k]
  BY <1>1 DEF QueryInv, HandIsTaken
<1>4. k \in 1..Len(accepted) /\ inHand \in Queries
  BY <1>2, <1>3
<1>5. fate[inHand] = "accepted"
  <2>1. fate[accepted[k]] # "executed" \/ (closed = "answering" /\ k = Taken + 1)
    BY <1>1, <1>3, <1>4 DEF QueryInv, RunIsTaken
  <2>2. k # Taken + 1
    BY <1>2, <1>3
  <2>3. In(inHand, accepted)
    BY <1>2, <1>3, <1>4 DEF In
  <2> QED
    BY <1>3, <1>4, <2>1, <2>2, <2>3 DEF QueryInv, RunIsFate
<1>6. /\ executed' \in Seq(Queries) /\ Len(executed') = Len(executed) + 1
      /\ executed'[Len(executed) + 1] = inHand
      /\ \A i \in 1..Len(executed) : executed'[i] = executed[i]
      /\ fate' \in [Queries -> {"new", "accepted", "dropped", "executed"}]
      /\ fate'[inHand] = "executed" /\ \A r \in Queries \ {inHand} : fate'[r] = fate[r]
      /\ RunIsFate'
  BY <1>1, <1>4, <1>5, Ran
<1>7. Taken' = Taken /\ Replied' = Replied
  BY <1>1 DEF Taken, Replied
<1>8. Values' /\ ListIsRest' /\ HandIsTaken' /\ ClosedWell'
  BY <1>1, <1>6, <1>7 DEF QueryInv, Values, ListIsRest, HandIsTaken, ClosedWell
<1>9. RunIsTaken'
  <2>1. ASSUME NEW i \in 1..Len(accepted)
        PROVE  fate'[accepted[i]] = "executed"
               <=> i <= Taken \/ (closed = "answering" /\ i = Taken + 1)
    <3>1. CASE i = k
      BY <1>2, <1>3, <1>6, <3>1
    <3>2. CASE i # k
      <4>1. accepted[i] # inHand
        BY <1>2, <1>3, <1>4, <3>2 DEF QueryInv, ListIsRest, NoDuplicate
      <4>2. fate'[accepted[i]] = fate[accepted[i]]
        BY <1>2, <1>6, <4>1
      <4> QED
        BY <4>1, <4>2 DEF QueryInv, RunIsTaken
    <3> QED
      BY <3>1, <3>2
  <2> QED
    BY <1>1, <1>7, <2>1 DEF RunIsTaken
<1>10. RunIsPrefix'
  <2>1. ASSUME closed = "no"
        PROVE  /\ Len(executed') = Taken
               /\ \A i \in 1..Len(executed') : executed'[i] = accepted[i]
    <3>1. Len(executed) = Taken - 1 /\ inHand = accepted[Taken]
          /\ \A i \in 1..Len(executed) : executed[i] = accepted[i]
      BY <1>1, <2>1 DEF QueryInv, RunIsPrefix, HandIsTaken
    <3>2. Len(executed') = Taken
      BY <1>2, <1>6, <3>1
    <3>3. ASSUME NEW i \in 1..Taken PROVE executed'[i] = accepted[i]
      <4>1. CASE i = Taken
        BY <1>2, <1>6, <3>1, <4>1
      <4>2. CASE i # Taken
        <5>1. i \in 1..Len(executed)
          BY <1>2, <3>1, <4>2
        <5> QED
          BY <1>6, <3>1, <5>1
      <4> QED
        BY <4>1, <4>2
    <3> QED
      BY <3>2, <3>3
  <2> QED
    BY <1>1, <1>7, <2>1 DEF RunIsPrefix
<1>11. RepliesFollow'
  BY <1>1, <1>7 DEF QueryInv, RepliesFollow
<1> QED
  BY <1>6, <1>8, <1>9, <1>10, <1>11 DEF QueryInv

\* The answer to the query the worker has run goes to the dispatcher.
LEMMA QueryAnswered == ASSUME QueryInv, Answer PROVE QueryInv'
<1>1. /\ UNCHANGED <<queryState, tasks, closed, fate, accepted, executed>>
      /\ worker = "answer" /\ worker' = "check" /\ inHand' = NoQuery
      /\ callbacks' = IF inHand \in Answered THEN Append(callbacks, inHand) ELSE callbacks
  BY DEF Answer, AnswerTo
<1>2. /\ Len(accepted) \in Nat /\ Taken \in Nat /\ Taken <= Len(accepted)
      /\ Len(callbacks) \in Nat /\ DOMAIN callbacks = 1..Len(callbacks)
      /\ DOMAIN accepted = 1..Len(accepted)
      /\ \A i \in 1..Len(accepted) : accepted[i] \in Queries
  BY Lengths DEF QueryInv
<1>3. PICK k \in 1..Taken : inHand = accepted[k]
  BY <1>1 DEF QueryInv, HandIsTaken
<1>4. inHand \in Queries
  BY <1>2, <1>3
<1>5. Taken' = Taken /\ Replied = Taken - 1 /\ Replied' = Taken
  BY <1>1 DEF Taken, Replied
<1>6. callbacks' \in Seq(Queries)
  BY <1>1, <1>4 DEF QueryInv, Values
<1>7. Values' /\ ListIsRest' /\ RunIsFate' /\ HandIsTaken' /\ ClosedWell'
  BY <1>1, <1>5, <1>6 DEF QueryInv, Values, ListIsRest, RunIsFate, HandIsTaken, ClosedWell
<1>8. RunIsTaken' /\ RunIsPrefix'
  BY <1>1, <1>5 DEF QueryInv, RunIsTaken, RunIsPrefix
<1>9. ASSUME closed = "no"
      PROVE  /\ NoDuplicate(callbacks')
             /\ \A q : In(q, callbacks') <=> q \in Answered /\ \E i \in 1..Taken : q = accepted[i]
             /\ \A m, n \in 1..Len(callbacks'), i, j \in 1..Len(accepted) :
                  callbacks'[m] = accepted[i] /\ callbacks'[n] = accepted[j] /\ m < n => i < j
  <2>1. inHand = accepted[Taken] /\ Taken \in 1..Len(accepted)
    BY <1>1, <1>2, <1>3, <1>9 DEF QueryInv, HandIsTaken
  <2>2. /\ NoDuplicate(callbacks)
        /\ \A q : In(q, callbacks) <=> q \in Answered /\ \E i \in 1..(Taken - 1) : q = accepted[i]
        /\ \A m, n \in 1..Len(callbacks), i, j \in 1..Len(accepted) :
             callbacks[m] = accepted[i] /\ callbacks[n] = accepted[j] /\ m < n => i < j
    BY <1>5, <1>9 DEF QueryInv, RepliesFollow
  <2>3. \A q : (\E i \in 1..Taken : q = accepted[i])
               <=> q = inHand \/ \E i \in 1..(Taken - 1) : q = accepted[i]
    <3>1. ASSUME NEW i \in 1..Taken, i # Taken PROVE i \in 1..(Taken - 1)
      BY <1>2, <3>1
    <3>2. ASSUME NEW i \in 1..(Taken - 1) PROVE i \in 1..Taken
      BY <1>2
    <3> QED
      BY <2>1, <3>1, <3>2, <1>2
  <2>4. CASE inHand \notin Answered
    <3>1. callbacks' = callbacks
      BY <1>1, <2>4
    <3>2. \A q : In(q, callbacks) <=> q \in Answered /\ \E i \in 1..Taken : q = accepted[i]
      BY <2>2, <2>3, <2>4
    <3> QED
      BY <2>2, <3>1, <3>2
  <2>5. CASE inHand \in Answered
    <3>1. callbacks' = Append(callbacks, inHand)
      BY <1>1, <2>5
    <3>2. ~In(inHand, callbacks)
      <4>1. ASSUME NEW i \in 1..(Taken - 1) PROVE inHand # accepted[i]
        BY <1>2, <2>1 DEF QueryInv, ListIsRest, NoDuplicate
      <4> QED
        BY <2>2, <4>1
    <3>3. NoDuplicate(callbacks') /\ \A q : In(q, callbacks') <=> q = inHand \/ In(q, callbacks)
      BY <1>4, <2>2, <3>1, <3>2, PushBack DEF QueryInv, Values
    <3>4. /\ Len(callbacks') = Len(callbacks) + 1 /\ callbacks'[Len(callbacks) + 1] = inHand
          /\ \A i \in 1..Len(callbacks) : callbacks'[i] = callbacks[i]
      BY <3>1 DEF QueryInv, Values
    <3>5. ASSUME NEW m \in 1..Len(callbacks'), NEW n \in 1..Len(callbacks'),
                 NEW i \in 1..Len(accepted), NEW j \in 1..Len(accepted),
                 callbacks'[m] = accepted[i], callbacks'[n] = accepted[j], m < n
          PROVE  i < j
      <4>1. m \in 1..Len(callbacks) /\ callbacks[m] = accepted[i]
        BY <1>2, <3>4, <3>5
      <4>2. CASE n = Len(callbacks) + 1
        <5>1. j = Taken
          BY <1>2, <2>1, <3>4, <3>5, <4>2 DEF QueryInv, ListIsRest, NoDuplicate
        <5>2. In(accepted[i], callbacks)
          BY <1>2, <4>1 DEF In
        <5>3. PICK h \in 1..(Taken - 1) : accepted[i] = accepted[h]
          BY <2>2, <5>2
        <5>4. i = h
          <6>1. h \in 1..Len(accepted)
            BY <1>2
          <6>2. NoDuplicate(accepted)
            BY DEF QueryInv, ListIsRest
          <6> QED
            BY <1>2, <5>3, <6>1, <6>2 DEF NoDuplicate
        <5> QED
          BY <1>2, <5>1, <5>3, <5>4
      <4>3. CASE n # Len(callbacks) + 1
        <5>1. n \in 1..Len(callbacks) /\ callbacks[n] = accepted[j]
          BY <1>2, <3>4, <3>5, <4>3
        <5> QED
          BY <2>2, <3>5, <4>1, <5>1
      <4> QED
        BY <4>2, <4>3
    <3>6. \A q : In(q, callbacks') <=> q \in Answered /\ \E i \in 1..Taken : q = accepted[i]
      BY <2>2, <2>3, <2>5, <3>3
    <3> QED
      BY <3>3, <3>5, <3>6
  <2> QED
    BY <2>4, <2>5
<1>10. RepliesFollow'
  BY <1>1, <1>5, <1>9 DEF RepliesFollow
<1> QED
  BY <1>7, <1>8, <1>10 DEF QueryInv

\* The shutdown runs the first of the list, which stays in it.
LEMMA QueryFlushed == ASSUME QueryInv, FlushQuery PROVE QueryInv'
<1>1. /\ UNCHANGED <<queryState, tasks, worker, inHand, accepted, callbacks>>
      /\ closed = "flushing" /\ closed' = "answering" /\ tasks # <<>>
      /\ executed' = Append(executed, Head(tasks))
      /\ fate' = [fate EXCEPT ![Head(tasks)] = "executed"]
  BY DEF FlushQuery
<1>2. /\ Len(accepted) \in Nat /\ Taken \in Nat /\ Taken + Len(tasks) = Len(accepted)
      /\ DOMAIN accepted = 1..Len(accepted)
      /\ \A i \in 1..Len(accepted) : accepted[i] \in Queries
  BY Lengths DEF QueryInv
<1>3. PICK q \in Queries : q = Head(tasks) /\ q = tasks[1] /\ Len(tasks) \in Nat \ {0}
  BY <1>1 DEF QueryInv, Values
<1>4. q = accepted[Taken + 1] /\ Taken + 1 \in 1..Len(accepted)
  <2>1. 1 \in 1..Len(tasks)
    BY <1>3
  <2>2. tasks[1] = accepted[Taken + 1]
    BY <2>1 DEF QueryInv, ListIsRest
  <2> QED
    BY <1>2, <1>3, <2>2
<1>5. fate[q] = "accepted"
  <2>1. fate[accepted[Taken + 1]] # "executed"
    BY <1>1, <1>2, <1>4 DEF QueryInv, RunIsTaken
  <2>2. In(q, accepted)
    BY <1>2, <1>4 DEF In
  <2> QED
    BY <1>4, <2>1, <2>2 DEF QueryInv, RunIsFate
<1>6. /\ executed' \in Seq(Queries)
      /\ fate' \in [Queries -> {"new", "accepted", "dropped", "executed"}]
      /\ fate'[q] = "executed" /\ \A r \in Queries \ {q} : fate'[r] = fate[r]
      /\ RunIsFate'
  <2>1. executed' = Append(executed, q) /\ fate' = [fate EXCEPT ![q] = "executed"]
    BY <1>1, <1>3
  <2> QED
    BY <1>1, <1>5, <2>1, Ran
<1>7. Taken' = Taken
  BY <1>1 DEF Taken
<1>8. Values' /\ ListIsRest' /\ HandIsTaken' /\ RunIsPrefix' /\ RepliesFollow' /\ ClosedWell'
  BY <1>1, <1>6, <1>7 DEF QueryInv, Values, ListIsRest, HandIsTaken, RunIsPrefix, RepliesFollow,
     ClosedWell
<1>9. RunIsTaken'
  <2>1. ASSUME NEW i \in 1..Len(accepted)
        PROVE  fate'[accepted[i]] = "executed"
               <=> \/ i <= Taken /\ ~(worker = "query" /\ inHand = accepted[i])
                   \/ i = Taken + 1
    <3>1. CASE i = Taken + 1
      BY <1>4, <1>6, <3>1
    <3>2. CASE i # Taken + 1
      <4>1. accepted[i] # q
        BY <1>2, <1>4, <3>2 DEF QueryInv, ListIsRest, NoDuplicate
      <4>2. fate'[accepted[i]] = fate[accepted[i]]
        BY <1>2, <1>6, <4>1
      <4> QED
        BY <1>1, <3>2, <4>2 DEF QueryInv, RunIsTaken
    <3> QED
      BY <3>1, <3>2
  <2> QED
    BY <1>1, <1>7, <2>1 DEF RunIsTaken
<1> QED
  BY <1>6, <1>8, <1>9 DEF QueryInv

\* and lets go of it once it is answered.
LEMMA FlushAnswered == ASSUME QueryInv, FlushAnswer PROVE QueryInv'
<1>1. /\ UNCHANGED <<queryState, worker, inHand, fate, accepted, executed>>
      /\ closed = "answering" /\ closed' = "flushing" /\ tasks # <<>>
      /\ tasks' = Tail(tasks)
      /\ callbacks' = IF Head(tasks) \in Answered THEN Append(callbacks, Head(tasks))
                      ELSE callbacks
  BY DEF FlushAnswer, AnswerTo, QueryInv, ClosedWell
<1>2. /\ Len(accepted) \in Nat /\ Taken \in Nat /\ Taken + Len(tasks) = Len(accepted)
  BY Lengths DEF QueryInv
<1>3. /\ tasks' \in Seq(Queries) /\ Len(tasks') = Len(tasks) - 1 /\ Len(tasks) \in Nat \ {0}
      /\ \A i \in 1..(Len(tasks) - 1) : tasks'[i] = tasks[i + 1]
      /\ Head(tasks) \in Queries
  BY <1>1 DEF QueryInv, Values
<1>4. Taken' = Taken + 1
  BY <1>1, <1>2, <1>3 DEF Taken
<1>5. callbacks' \in Seq(Queries)
  BY <1>1, <1>3 DEF QueryInv, Values
<1>6. Values' /\ RunIsFate' /\ RunIsPrefix' /\ RepliesFollow' /\ ClosedWell'
  BY <1>1, <1>3, <1>5 DEF QueryInv, Values, RunIsFate, RunIsPrefix, RepliesFollow, ClosedWell
<1>7. ListIsRest'
  <2>1. ASSUME NEW i \in 1..(Len(tasks) - 1) PROVE tasks'[i] = accepted[Taken' + i]
    <3>1. i + 1 \in 1..Len(tasks) /\ Taken + (i + 1) = Taken' + i
      <4>1. PICK t \in Nat : t = Len(tasks)
        BY <1>3
      <4>2. i + 1 \in 1..t
        BY <4>1
      <4>3. i \in Int
        BY <4>1
      <4> QED
        BY <1>2, <1>4, <4>1, <4>2, <4>3
    <3>2. tasks[i + 1] = accepted[Taken + (i + 1)]
      BY <3>1 DEF QueryInv, ListIsRest
    <3> QED
      BY <1>3, <3>1, <3>2
  <2>2. Len(tasks') <= Len(accepted)
    BY <1>2, <1>3
  <2> QED
    BY <1>1, <1>3, <2>1, <2>2 DEF QueryInv, ListIsRest
<1>8. HandIsTaken'
  <2>1. \A i \in 1..Taken : i \in 1..(Taken + 1)
    BY <1>2
  <2> QED
    BY <1>1, <1>4, <2>1 DEF QueryInv, HandIsTaken
<1>9. RunIsTaken'
  <2>1. ASSUME NEW i \in 1..Len(accepted)
        PROVE  fate[accepted[i]] = "executed"
               <=> i <= Taken + 1 /\ ~(worker = "query" /\ inHand = accepted[i])
    <3>1. CASE i = Taken + 1
      <4>1. worker = "query" => inHand # accepted[i]
        <5>1. ASSUME NEW k \in 1..Taken PROVE accepted[k] # accepted[i]
          <6>1. DOMAIN accepted = 1..Len(accepted) /\ k \in 1..Len(accepted) /\ k # i
            BY <1>2, <3>1, Lengths DEF QueryInv
          <6> QED
            BY <6>1 DEF QueryInv, ListIsRest, NoDuplicate
        <5> QED
          BY <5>1 DEF QueryInv, HandIsTaken
      <4> QED
        BY <1>1, <1>2, <3>1, <4>1 DEF QueryInv, RunIsTaken
    <3>2. CASE i # Taken + 1
      <4>1. i <= Taken + 1 <=> i <= Taken
        BY <1>2, <3>2
      <4> QED
        BY <1>1, <3>2, <4>1 DEF QueryInv, RunIsTaken
    <3> QED
      BY <3>1, <3>2
  <2> QED
    BY <1>1, <1>4, <2>1 DEF RunIsTaken
<1> QED
  BY <1>6, <1>7, <1>8, <1>9 DEF QueryInv

\* Every step of the callers, the worker and the shutdown keeps all this.
LEMMA QueryStep == QueryInv /\ [Next]_vars => QueryInv'
<1> SUFFICES ASSUME QueryInv, [Next]_vars PROVE QueryInv'
  OBVIOUS
<1>1. worker \in {"check", "lock", "asleep", "woken", "query", "answer", "ended"}
      /\ queryState \in {"running", "closing", "terminated"}
  BY DEF QueryInv, Values
<1>2. ASSUME NEW c \in Callers, Notify(c) PROVE QueryInv'
  <2>1. UNCHANGED <<queryState, closed, tasks, inHand, fate, history>>
        /\ worker' = IF worker = "asleep" THEN "woken" ELSE worker
    BY <1>2 DEF Notify
  <2>2. worker' = worker \/ {worker, worker'} \cap {"query", "answer"} = {}
    BY <2>1
  <2>3. worker' \in {"check", "lock", "asleep", "woken", "query", "answer", "ended"}
    BY <1>1, <2>1
  <2> QED
    BY <2>1, <2>2, <2>3, Elsewhere
<1>3. CASE CheckState \/ Sleep \/ SpuriousWakeUp \/ FindNothing \/ Ended
  <2>1. UNCHANGED <<queryState, closed, tasks, inHand, fate, history>>
    BY <1>3 DEF CheckState, Sleep, SpuriousWakeUp, FindNothing, Ended, vars, history
  <2>2. worker' \in {"check", "lock", "asleep", "woken", "ended"}
        /\ worker \in {"check", "lock", "asleep", "woken", "ended"}
    BY <1>3 DEF CheckState, Sleep, SpuriousWakeUp, FindNothing, Ended, vars
  <2> QED
    BY <2>1, <2>2, Elsewhere
<1>4. CASE Stop \/ BeginShutdown \/ EndShutdown
  <2>1. UNCHANGED <<tasks, worker, inHand, fate, history>>
    BY <1>4 DEF Stop, BeginShutdown, EndShutdown
  <2>2. queryState' \in {"running", "closing", "terminated"}
    BY <1>1, <1>4 DEF Stop, BeginShutdown, EndShutdown
  <2>3. Stop => closed' = closed /\ closed = "no"
    BY DEF Stop, QueryInv, ClosedWell
  <2>4. BeginShutdown => closed = "no" /\ closed' = "flushing" /\ queryState' = "terminated"
    BY DEF BeginShutdown
  <2>5. EndShutdown => /\ closed = "flushing" /\ closed' = "done" /\ tasks = <<>>
                       /\ queryState' = queryState
    BY DEF EndShutdown, FlushedAll
  <2> QED
    BY <1>4, <2>1, <2>2, <2>3, <2>4, <2>5, ShutdownMoves
<1>5. CASE UNCHANGED vars
  <2>1. UNCHANGED <<queryState, closed, tasks, inHand, fate, history>> /\ worker' = worker
    BY <1>5 DEF vars, history
  <2> QED
    BY <1>1, <2>1, Elsewhere
<1> QED
  BY <1>2, <1>3, <1>4, <1>5, Added, QueryTaken, QueryRun, QueryAnswered, QueryFlushed,
     FlushAnswered DEF Next, ThreadMain, Flush

\* Nothing is in the list of a worker that starts.
LEMMA QueryStart == Init => QueryInv
<1> SUFFICES ASSUME Init PROVE QueryInv
  OBVIOUS
<1>1. accepted = <<>> /\ executed = <<>> /\ callbacks = <<>> /\ tasks = <<>>
      /\ Len(<<>>) = 0 /\ DOMAIN <<>> = 1..0 /\ <<>> \in Seq(Queries)
  BY DEF Init
<1>2. Taken = 0 /\ Replied = 0
  BY <1>1 DEF Taken, Replied, Init
<1>3. \A q : ~In(q, <<>>)
  BY DEF In
<1>4. NoDuplicate(<<>>)
  BY DEF NoDuplicate
<1>5. Values
  BY <1>1 DEF Init, Values
<1>6. ListIsRest /\ RunIsFate
  BY <1>1, <1>2, <1>3, <1>4 DEF Init, ListIsRest, RunIsFate
<1>7. RunIsTaken /\ HandIsTaken /\ RunIsPrefix /\ RepliesFollow /\ ClosedWell
  BY <1>1, <1>2, <1>3, <1>4 DEF Init, RunIsTaken, HandIsTaken, RunIsPrefix, RepliesFollow, ClosedWell
<1> QED
  BY <1>5, <1>6, <1>7 DEF QueryInv

\* The invariant says what the worker and the shutdown promise.
LEMMA QueryEnds == QueryInv => QueriesInTurn
<1> SUFFICES ASSUME QueryInv PROVE QueriesInTurn
  OBVIOUS
<1>1. /\ Len(accepted) \in Nat /\ Len(tasks) \in Nat /\ Len(executed) \in Nat
      /\ Len(callbacks) \in Nat /\ Taken \in Nat /\ Taken + Len(tasks) = Len(accepted)
      /\ \A i \in 1..Len(accepted) : accepted[i] \in Queries
      /\ DOMAIN accepted = 1..Len(accepted) /\ DOMAIN executed = 1..Len(executed)
      /\ DOMAIN callbacks = 1..Len(callbacks)
  BY Lengths DEF QueryInv
<1>2. RunsOnce
  BY DEF QueryInv, RunIsFate, NoDuplicate, RunsOnce, IsInjective
<1>3. NoQueryLost
  <2> SUFFICES ASSUME closed = "done", worker = "ended", NEW q \in Queries, fate[q] = "accepted"
               PROVE  FALSE
    BY DEF NoQueryLost
  <2>1. Len(tasks) = 0 /\ Taken = Len(accepted)
    BY <1>1 DEF QueryInv, ClosedWell
  <2>2. PICK i \in 1..Len(accepted) : accepted[i] = q
    BY <1>1 DEF QueryInv, RunIsFate, In
  <2> QED
    BY <1>1, <2>1, <2>2 DEF QueryInv, RunIsTaken
<1>4. OvertakesOne
  <2> SUFFICES ASSUME NEW i \in 1..Len(accepted), NEW j \in 1..Len(accepted), i < j,
                      fate[accepted[j]] = "executed", fate[accepted[i]] # "executed"
               PROVE  accepted[i] = inHand /\ closed # "no"
    BY <1>1 DEF OvertakesOne
  <2>1. j <= Taken \/ (closed = "answering" /\ j = Taken + 1)
    BY DEF QueryInv, RunIsTaken
  <2>2. i <= Taken
    BY <1>1, <2>1
  <2>3. worker = "query" /\ inHand = accepted[i]
    BY <2>2 DEF QueryInv, RunIsTaken
  <2>4. ASSUME closed = "no" PROVE FALSE
    <3>1. inHand = accepted[Taken] /\ Taken \in 1..Len(accepted)
      BY <1>1, <2>2, <2>3, <2>4 DEF QueryInv, HandIsTaken
    <3>2. i = Taken
      BY <1>1, <2>3, <3>1 DEF QueryInv, ListIsRest, NoDuplicate
    <3> QED
      BY <1>1, <2>1, <2>4, <3>2
  <2> QED
    BY <2>3, <2>4
<1>5. ASSUME closed = "no" PROVE IsPrefix(executed, accepted)
  <2>1. \A i \in 1..Len(executed) : executed[i] = accepted[i]
    BY <1>5 DEF QueryInv, RunIsPrefix
  <2>2. Len(executed) <= Len(accepted)
    <3>1. Len(executed) = Taken - 1 \/ Len(executed) = Taken
      BY <1>5 DEF QueryInv, RunIsPrefix
    <3>2. PICK a, t, e \in Nat : a = Len(accepted) /\ t = Len(tasks) /\ e = Len(executed)
      BY <1>1
    <3>3. Taken = a - t
      BY <3>2 DEF Taken
    <3>4. e = a - t - 1 \/ e = a - t
      BY <3>1, <3>2, <3>3
    <3>5. e <= a
      BY <3>4
    <3> QED
      BY <3>2, <3>5
  <2>3. SubSeq(executed, 1, Len(executed)) = SubSeq(accepted, 1, Len(executed))
    <3>1. executed \in Seq(Queries) /\ accepted \in Seq(Queries)
      BY DEF QueryInv, Values
    <3> QED
      BY <1>1, <2>1, <2>2, <3>1
  <2> QED
    BY <2>2, <2>3 DEF IsPrefix
<1>6. ASSUME closed = "no" PROVE CallbacksFollow
  <2>1. /\ NoDuplicate(callbacks)
        /\ \A q : In(q, callbacks) <=> q \in Answered /\ \E i \in 1..Replied : q = accepted[i]
        /\ \A m, n \in 1..Len(callbacks), i, j \in 1..Len(accepted) :
             callbacks[m] = accepted[i] /\ callbacks[n] = accepted[j] /\ m < n => i < j
    BY <1>6 DEF QueryInv, RepliesFollow
  <2>2. Replied \in Int /\ Replied <= Len(accepted)
    BY <1>1 DEF Replied
  <2>3. \A q : q \in ToSet(callbacks) <=> In(q, callbacks)
    BY DEF ToSet, In
  <2>4. ToSet(callbacks) \subseteq ToSet(accepted) \cap Answered
    <3>1. \A h \in 1..Replied : h \in DOMAIN accepted
      BY <1>1, <2>2
    <3> QED
      BY <2>1, <2>3, <3>1 DEF ToSet
  <2>5. ASSUME NEW i \in 1..Len(accepted), NEW j \in 1..Len(accepted), i < j,
               accepted[i] \in Answered, accepted[j] \in ToSet(callbacks)
        PROVE  \E m, n \in DOMAIN callbacks :
                  m < n /\ callbacks[m] = accepted[i] /\ callbacks[n] = accepted[j]
    <3>1. PICK n \in 1..Len(callbacks) : callbacks[n] = accepted[j]
      BY <1>1, <2>3, <2>5 DEF In
    <3>2. PICK h \in 1..Replied : accepted[j] = accepted[h]
      BY <2>1, <2>3, <2>5
    <3>3. h = j
      BY <1>1, <2>2, <3>2 DEF QueryInv, ListIsRest, NoDuplicate
    <3>4. i \in 1..Replied
      BY <1>1, <2>2, <2>5, <3>3
    <3>5. In(accepted[i], callbacks)
      BY <2>1, <2>5, <3>4
    <3>6. PICK m \in 1..Len(callbacks) : callbacks[m] = accepted[i]
      BY <1>1, <3>5 DEF In
    <3>7. m # n
      <4>1. accepted[i] # accepted[j]
        BY <1>1, <2>5 DEF QueryInv, ListIsRest, NoDuplicate
      <4> QED
        BY <3>1, <3>6, <4>1
    <3>8. ~(n < m)
      BY <1>1, <2>1, <2>5, <3>1, <3>6
    <3>9. m < n
      BY <1>1, <3>7, <3>8
    <3> QED
      BY <1>1, <3>1, <3>6, <3>9
  <2>6. IsInjective(callbacks)
    BY <2>1 DEF NoDuplicate, IsInjective
  <2> QED
    BY <1>1, <2>4, <2>5, <2>6 DEF CallbacksFollow
<1> QED
  BY <1>2, <1>3, <1>4, <1>5, <1>6 DEF QueriesInTurn, InOrder

\* A query runs once, behind those added before it but for the one in the
\* worker's hands while the server shuts down, and before the server ends; the
\* answers come in that order (DatabaseTasks::threadMain, runTask, flush).
THEOREM QueriesRunInTurn == Spec => []QueriesInTurn
  BY QueryStart, QueryStep, QueryEnds, PTL DEF Spec

-----------------------------------------------------------------------------
(***************************************************************************)
(* The houses: a house admits the invited only, every sleeper is found in  *)
(* their bed, and a change of owner leaves nothing of the owner before.    *)
(* The handlers are functions on a record of the variables, and the        *)
(* invariant is said of any such record.                                   *)
(***************************************************************************)
Guid == People \cup {Nobody}

AccessList == [names : SUBSET People, by : Guid]

HouseRow == [owner : Guid, lists : [ListIds -> AccessList], warnings : Nat, mixed : BOOLEAN]

HouseState ==
    [owner : Guid, lists : [ListIds -> AccessList], warnings : Nat,
     sleeper : [Beds -> Guid], bedOf : [People -> Beds \cup {NoBed}],
     where : [People -> {"offline", "street", "house"}], row : HouseRow, warned : Nat,
     mixed : BOOLEAN]

\* OnlyInvited, of a house in which those of kicks are about to be kicked.
Admits(h, kicks) ==
    \A p \in People : h.where[p] = "house" => Invited(h, p) \/ p \in kicks

\* SleepersAreFound, likewise; those of tired have lain down twice.
Finds(h, kicks, tired) ==
    /\ \A p \in People : h.bedOf[p] # NoBed => h.sleeper[h.bedOf[p]] = p
    /\ \A b \in Beds, p \in People \ tired :
         h.sleeper[b] = p => /\ h.bedOf[p] = b
                             /\ h.where[p] # "offline" => p \in kicks

\* One in two of the stored beds is one who lay down twice.
OneBedEach(beds, tired) ==
    \A a, b \in Beds : beds[a] = beds[b] /\ beds[a] \in People \ tired => a = b

\* Lists and warnings are those of the owner; nobody has none.
Tenure(h, warnings) ==
    ~h.mixed => /\ \A l \in ListIds : h.lists[l] # Empty => h.lists[l].by = h.owner
                /\ h.warnings <= warnings
                /\ h.owner = Nobody => h.warnings = 0 /\ \A l \in ListIds : h.lists[l] = Empty

\* What is stored is to be loaded again.
Tenures(h) == Tenure(h, h.warned) /\ Tenure(h.row, h.warned)

HouseInv ==
    /\ House \in HouseState
    /\ storedBeds \in [Beds -> Guid] /\ dialog \in [People -> Beds \cup {NoBed}]
    /\ editHouse \in [People -> ListIds \cup {"none"}]
    /\ kickDue \in SUBSET People /\ sale \in {<<>>} \cup (People \X People)
    /\ \A p \in People : dialog[p] # NoBed => Online(p)
    /\ Admits(House, kickDue) /\ Finds(House, kickDue, restless)
    /\ OneBedEach(storedBeds, restless)
    /\ Tenures(House)

\* Only the places of people differ.
ButWhere(h, d) ==
    /\ d.owner = h.owner /\ d.lists = h.lists /\ d.warnings = h.warnings
    /\ d.sleeper = h.sleeper /\ d.bedOf = h.bedOf /\ d.row = h.row
    /\ d.warned = h.warned /\ d.mixed = h.mixed

\* Who goes somewhere leaves the rest of the house alone.
LEMMA Goes ==
    ASSUME NEW h \in HouseState, NEW p \in People,
           NEW place \in {"offline", "street", "house"},
           NEW d, d = [h EXCEPT !.where[p] = place]
    PROVE  /\ d \in HouseState /\ ButWhere(h, d)
           /\ d.where[p] = place /\ \A q \in People \ {p} : d.where[q] = h.where[q]
<1>1. PICK w \in [People -> {"offline", "street", "house"}] : w = [h.where EXCEPT ![p] = place]
  BY DEF HouseState
<1>2. d = [h EXCEPT !.where = w]
  BY <1>1 DEF HouseState
<1>3. w[p] = place /\ \A q \in People \ {p} : w[q] = h.where[q]
  BY <1>1 DEF HouseState
<1> QED
  BY <1>2, <1>3 DEF HouseState, ButWhere

\* Who is invited is a matter of the owner and the lists.
LEMMA InvitedBy ==
    ASSUME NEW h, NEW d, d.owner = h.owner, d.lists = h.lists, NEW p
    PROVE  Invited(d, p) <=> Invited(h, p)
  BY DEF Invited, AccessLevel

\* So is what is left of an owner before.
LEMMA TenuresBy ==
    ASSUME NEW h, NEW d, d.owner = h.owner, d.lists = h.lists, d.warnings = h.warnings,
           d.mixed = h.mixed, d.row = h.row, d.warned = h.warned, Tenures(h)
    PROVE  Tenures(d)
  BY DEF Tenures, Tenure

\* Waking the sleeper of a bed frees the bed and clears their entry.
LEMMA Woken ==
    ASSUME NEW h \in HouseState, NEW b \in Beds, NEW d, d = WakeUp(h, b),
           NEW kicks, NEW tired, Finds(h, kicks, tired)
    PROVE  /\ d \in HouseState /\ Finds(d, kicks, tired)
           /\ d.where = h.where /\ d.owner = h.owner /\ d.lists = h.lists
           /\ d.warnings = h.warnings /\ d.mixed = h.mixed /\ d.row = h.row
           /\ d.warned = h.warned
           /\ \A p \in People : h.sleeper[b] = p => d.bedOf[p] = NoBed
           /\ d.sleeper[b] = Nobody
<1>1. PICK s \in [Beds -> Guid] : s = [h.sleeper EXCEPT ![b] = Nobody]
  BY DEF HouseState, Guid
<1>2. PICK m \in [People -> Beds \cup {NoBed}] :
        m = [p \in People |-> IF p = h.sleeper[b] THEN NoBed ELSE h.bedOf[p]]
  BY DEF HouseState
<1>3. d = [h EXCEPT !.sleeper = s, !.bedOf = m]
  BY <1>1, <1>2 DEF WakeUp, HouseState
<1>4. /\ d \in HouseState /\ d.sleeper = s /\ d.bedOf = m
      /\ d.where = h.where /\ d.owner = h.owner /\ d.lists = h.lists
      /\ d.warnings = h.warnings /\ d.mixed = h.mixed /\ d.row = h.row
      /\ d.warned = h.warned
  BY <1>3 DEF HouseState
<1>5. s[b] = Nobody /\ \A a \in Beds \ {b} : s[a] = h.sleeper[a]
  BY <1>1 DEF HouseState
<1>6. \A p \in People : m[p] = IF p = h.sleeper[b] THEN NoBed ELSE h.bedOf[p]
  BY <1>2
<1>7. ASSUME NEW p \in People, m[p] # NoBed PROVE s[m[p]] = p
  BY <1>5, <1>6, <1>7 DEF Finds
<1>8. ASSUME NEW a \in Beds, NEW p \in People \ tired, s[a] = p
      PROVE  m[p] = a /\ (h.where[p] # "offline" => p \in kicks)
  <2>1. a # b
    BY <1>5, <1>8, HousesAssumption
  <2>2. h.sleeper[a] = p /\ h.bedOf[p] = a /\ (h.where[p] # "offline" => p \in kicks)
    BY <1>5, <1>8, <2>1 DEF Finds
  <2>3. h.sleeper[b] # p
    BY <2>1, <2>2 DEF Finds
  <2> QED
    BY <1>6, <2>2, <2>3
<1>9. Finds(d, kicks, tired)
  BY <1>4, <1>7, <1>8 DEF Finds
<1> QED
  BY <1>4, <1>5, <1>6, <1>9

\* A new list sends home whom it no longer invites.
LEMMA ListSet ==
    ASSUME NEW h \in HouseState, NEW l \in ListIds, NEW names \in SUBSET People,
           NEW d, d = SetAccessList(h, l, names), NEW kicks
    PROVE  /\ d \in HouseState /\ Admits(d, kicks)
           /\ d.sleeper = h.sleeper /\ d.bedOf = h.bedOf /\ d.owner = h.owner
           /\ d.warnings = h.warnings /\ d.mixed = h.mixed /\ d.row = h.row
           /\ d.warned = h.warned
           /\ \A p \in People : d.where[p] = "offline" <=> h.where[p] = "offline"
           /\ d.lists[l] = [names |-> names, by |-> IF names = {} THEN Nobody ELSE h.owner]
           /\ \A k \in ListIds \ {l} : d.lists[k] = h.lists[k]
<1> DEFINE entry == [names |-> names, by |-> IF names = {} THEN Nobody ELSE h.owner]
<1>1. h.owner \in Guid /\ entry \in AccessList
  BY DEF HouseState, AccessList, Guid
<1>2. PICK m \in [ListIds -> AccessList] : m = [h.lists EXCEPT ![l] = entry]
  BY <1>1 DEF HouseState
<1>3. m[l] = entry /\ \A k \in ListIds \ {l} : m[k] = h.lists[k]
  BY <1>1, <1>2 DEF HouseState
<1>4. PICK new \in HouseState : new = [h EXCEPT !.lists = m]
  BY DEF HouseState
<1>5. /\ new.lists = m /\ new.owner = h.owner /\ new.where = h.where /\ new.sleeper = h.sleeper
      /\ new.bedOf = h.bedOf /\ new.warnings = h.warnings /\ new.mixed = h.mixed
      /\ new.row = h.row /\ new.warned = h.warned
  BY <1>4 DEF HouseState
<1>6. new = [h EXCEPT !.lists[l] = entry]
  BY <1>2, <1>4 DEF HouseState
<1> HIDE DEF entry
<1>7. PICK w : w = [p \in People |->
        IF h.where[p] = "house" /\ ~Invited(new, p) THEN "street" ELSE h.where[p]]
  OBVIOUS
<1>8. w \in [People -> {"offline", "street", "house"}]
  BY <1>7 DEF HouseState
<1>9. d = [new EXCEPT !.where = w]
  BY <1>6, <1>7 DEF SetAccessList, entry
<1>10. /\ d \in HouseState /\ d.where = w /\ d.lists = m /\ d.owner = h.owner
       /\ d.sleeper = h.sleeper /\ d.bedOf = h.bedOf /\ d.warnings = h.warnings
       /\ d.mixed = h.mixed /\ d.row = h.row /\ d.warned = h.warned
  BY <1>5, <1>8, <1>9 DEF HouseState
<1>11. \A p \in People : Invited(d, p) <=> Invited(new, p)
  BY <1>5, <1>10, InvitedBy
<1>12. Admits(d, kicks)
  BY <1>7, <1>10, <1>11 DEF Admits
<1>13. \A p \in People : d.where[p] = "offline" <=> h.where[p] = "offline"
  BY <1>7, <1>10
<1> QED
  BY <1>3, <1>10, <1>12, <1>13 DEF entry

\* d is h when its owner has gone.
Leaves(h, d, kicks, tired) ==
    /\ d \in HouseState /\ Admits(d, kicks) /\ Finds(d, kicks, tired)
    /\ d.owner = Nobody /\ d.warnings = 0 /\ d.row = h.row
    /\ \A l \in ListIds : d.lists[l] = Empty
    /\ \A p \in People : d.where[p] = "offline" <=> h.where[p] = "offline"

\* Whoever has the house no longer takes everybody and everything along.
LEMMA Vacated ==
    ASSUME NEW h \in HouseState, NEW d, d = Vacate(h),
           NEW kicks, NEW tired, Finds(h, kicks, tired)
    PROVE  Leaves(h, d, kicks, tired)
<1>1. PICK m : m = [l \in ListIds |-> Empty]
  OBVIOUS
<1>2. PICK s : s = [b \in Beds |-> Nobody]
  OBVIOUS
<1>3. PICK f : f = [p \in People |-> IF \E b \in Beds : h.sleeper[b] = p
                                     THEN NoBed ELSE h.bedOf[p]]
  OBVIOUS
<1>4. PICK w : w = [p \in People |-> IF h.where[p] = "house" THEN "street" ELSE h.where[p]]
  OBVIOUS
<1>5. m \in [ListIds -> AccessList]
  BY <1>1 DEF AccessList, Empty, Guid
<1>6. s \in [Beds -> Guid] /\ f \in [People -> Beds \cup {NoBed}]
  BY <1>2, <1>3 DEF HouseState, Guid
<1>7. w \in [People -> {"offline", "street", "house"}]
  BY <1>4 DEF HouseState
<1>8. PICK e : e = [h EXCEPT !.owner = Nobody, !.warnings = 0, !.mixed = FALSE, !.lists = m]
  OBVIOUS
<1>9. /\ e \in HouseState /\ e.owner = Nobody /\ e.warnings = 0 /\ e.mixed = FALSE
      /\ e.lists = m /\ e.row = h.row
  BY <1>5, <1>8 DEF HouseState, Guid
<1>10. d = [e EXCEPT !.sleeper = s, !.bedOf = f, !.where = w]
  BY <1>1, <1>2, <1>3, <1>4, <1>8 DEF Vacate, HouseState
<1>11. /\ d \in HouseState /\ d.owner = Nobody /\ d.warnings = 0 /\ d.mixed = FALSE
       /\ d.lists = m /\ d.row = h.row /\ d.sleeper = s /\ d.bedOf = f /\ d.where = w
  BY <1>6, <1>7, <1>9, <1>10 DEF HouseState
<1>12. \A p \in People : f[p] = NoBed
  <2>1. ASSUME NEW p \in People, h.bedOf[p] # NoBed PROVE \E b \in Beds : h.sleeper[b] = p
    BY <2>1 DEF Finds, HouseState
  <2> QED
    BY <1>3, <2>1
<1>13. Finds(d, kicks, tired)
  BY <1>2, <1>11, <1>12, HousesAssumption DEF Finds
<1>14. \A p \in People : w[p] # "house" /\ (w[p] = "offline" <=> h.where[p] = "offline")
  BY <1>4
<1>15. Admits(d, kicks)
  BY <1>11, <1>14 DEF Admits
<1> QED
  BY <1>1, <1>11, <1>13, <1>14, <1>15 DEF Leaves

\* The next owner finds the house as it is, or vacated.
LEMMA OwnerSet ==
    ASSUME NEW h \in HouseState, NEW g \in Guid, NEW d, d = SetOwner(h, g),
           NEW kicks, NEW tired, Admits(h, kicks), Finds(h, kicks, tired), Tenures(h)
    PROVE  /\ d \in HouseState /\ Admits(d, kicks) /\ Finds(d, kicks, tired) /\ Tenures(d)
           /\ \A p \in People : d.where[p] = "offline" <=> h.where[p] = "offline"
<1>1. CASE h.owner = g
  BY <1>1 DEF SetOwner
<1>2. CASE h.owner # g
  <2>1. PICK v : v = IF h.owner # Nobody THEN Vacate(h) ELSE h
    OBVIOUS
  <2>2. PICK forgets : forgets = (\/ h.row.mixed \/ h.row.warnings > 0
                                  \/ \E l \in ListIds : h.row.lists[l] # Empty)
    OBVIOUS
  <2>3. forgets \in BOOLEAN
    BY <2>2 DEF HouseState, HouseRow
  <2>4. /\ v \in HouseState /\ Admits(v, kicks) /\ Finds(v, kicks, tired) /\ v.row = h.row
        /\ v.owner = Nobody
        /\ ~v.mixed => v.warnings = 0 /\ \A l \in ListIds : v.lists[l] = Empty
        /\ \A p \in People : v.where[p] = "offline" <=> h.where[p] = "offline"
    <3>1. CASE h.owner # Nobody
      <4>1. v = Vacate(h)
        BY <2>1, <3>1
      <4>2. Leaves(h, v, kicks, tired)
        BY <4>1, Vacated
      <4> QED
        BY <4>2 DEF Leaves
    <3>2. CASE h.owner = Nobody
      BY <2>1, <3>2 DEF Tenures, Tenure
    <3> QED
      BY <3>1, <3>2
  <2>5. PICK r : r = [h.row EXCEPT !.owner = g, !.mixed = forgets]
    OBVIOUS
  <2>6. /\ r \in HouseRow /\ r.owner = g /\ r.mixed = forgets
        /\ r.warnings = h.row.warnings /\ r.lists = h.row.lists
    BY <2>3, <2>5 DEF HouseState, HouseRow
  <2>7. d = [v EXCEPT !.owner = g, !.warned = 0, !.row = r]
    BY <1>2, <2>1, <2>2, <2>4, <2>5 DEF SetOwner, HouseState
  <2>8. /\ d \in HouseState /\ d.owner = g /\ d.warned = 0 /\ d.row = r
        /\ d.lists = v.lists /\ d.warnings = v.warnings /\ d.sleeper = v.sleeper
        /\ d.bedOf = v.bedOf /\ d.where = v.where /\ d.mixed = v.mixed
    <3>1. v \in HouseState /\ r \in HouseRow /\ g \in Guid
      BY <2>4, <2>6
    <3>2. PICK e \in HouseState : e = [v EXCEPT !.owner = g, !.row = r]
      BY <3>1 DEF HouseState
    <3>3. /\ e.owner = g /\ e.row = r /\ e.lists = v.lists /\ e.warnings = v.warnings
          /\ e.sleeper = v.sleeper /\ e.bedOf = v.bedOf /\ e.where = v.where
          /\ e.mixed = v.mixed
      BY <3>1, <3>2 DEF HouseState
    <3>4. d = [e EXCEPT !.warned = 0]
      BY <2>7, <3>1, <3>2 DEF HouseState
    <3> QED
      BY <3>3, <3>4 DEF HouseState
  <2>9. Finds(d, kicks, tired)
    BY <2>4, <2>8 DEF Finds
  <2>10. Admits(d, kicks)
    <3>1. ASSUME NEW p \in People, Invited(v, p) PROVE Invited(d, p)
      BY <2>4, <2>8, <3>1, HousesAssumption DEF Invited, AccessLevel
    <3> QED
      BY <2>4, <2>8, <3>1 DEF Admits
  <2>11. Tenure(d, d.warned)
    BY <2>4, <2>8 DEF Tenure
  <2>12. Tenure(r, 0)
    <3>1. ~forgets => r.warnings = 0 /\ \A l \in ListIds : r.lists[l] = Empty
      <4>1. h.row.warnings \in Nat
        BY DEF HouseState, HouseRow
      <4> QED
        BY <2>2, <2>6, <4>1
    <3> QED
      BY <2>6, <3>1 DEF Tenure
  <2> QED
    BY <2>4, <2>8, <2>9, <2>10, <2>11, <2>12 DEF Tenures
<1> QED
  BY <1>1, <1>2

\* The variables after a step are the record the handler returned.
LEMMA HouseThen ==
    ASSUME NEW d \in HouseState, Becomes(d),
           storedBeds' \in [Beds -> Guid], dialog' \in [People -> Beds \cup {NoBed}],
           editHouse' \in [People -> ListIds \cup {"none"}],
           kickDue' \in SUBSET People, sale' \in {<<>>} \cup (People \X People),
           \A p \in People : dialog'[p] # NoBed => d.where[p] # "offline",
           Admits(d, kickDue'), Finds(d, kickDue', restless'),
           OneBedEach(storedBeds', restless'), Tenures(d)
    PROVE  HouseInv'
<1>1. House' = [owner |-> d.owner, lists |-> d.lists, warnings |-> d.warnings,
                sleeper |-> d.sleeper, bedOf |-> d.bedOf, where |-> d.where, row |-> d.row,
                warned |-> d.warned, mixed |-> d.mixed]
  BY DEF Becomes, House
<1>2. House' = d
  BY <1>1 DEF HouseState
<1>3. \A p \in People : dialog'[p] # NoBed => where'[p] # "offline"
  BY DEF Becomes
<1> QED
  BY <1>2, <1>3 DEF HouseInv, Online

\* The record holds the variables.
LEMMA HouseIs ==
    /\ House.owner = owner /\ House.lists = lists /\ House.warnings = rentWarnings
    /\ House.sleeper = sleeper /\ House.bedOf = bedSleepersMap /\ House.where = where
    /\ House.row = houseRow /\ House.warned = warned /\ House.mixed = mixed
  BY DEF House

\* Whoever comes back was woken, or did not sleep.
LEMMA LoginKeeps ==
    ASSUME HouseInv, NEW p \in People, HouseLogin(p) PROVE HouseInv'
<1>1. PICK place \in {"street", "house"} :
        /\ place = "house" => Invited(House, p)
        /\ LET h == [House EXCEPT !.where[p] = place]
           IN  Becomes(IF bedSleepersMap[p] # NoBed THEN WakeUp(h, bedSleepersMap[p]) ELSE h)
  BY DEF HouseLogin
<1>2. UNCHANGED <<dialog, editHouse, kickDue, sale, storedBeds, restless>> /\ where[p] = "offline"
  BY DEF HouseLogin, Online
<1>3. PICK h \in HouseState : h = House
  BY DEF HouseInv
<1>4. PICK w : w = [h EXCEPT !.where[p] = place]
  OBVIOUS
<1>5. PICK f \in HouseState :
        /\ Finds(f, kickDue, restless) /\ f.where = h.where /\ f.owner = h.owner
        /\ f.lists = h.lists /\ f.bedOf[p] = NoBed /\ Tenures(f)
        /\ Becomes([f EXCEPT !.where[p] = place])
  <2>1. Finds(h, kickDue, restless) /\ Tenures(h)
    BY <1>3 DEF HouseInv
  <2>2. CASE bedSleepersMap[p] = NoBed
    <3>1. h.bedOf[p] = NoBed
      BY <1>3, <2>2, HouseIs
    <3>2. Becomes([h EXCEPT !.where[p] = place])
      BY <1>1, <1>3, <2>2
    <3> QED
      BY <2>1, <3>1, <3>2
  <2>3. CASE bedSleepersMap[p] # NoBed
    <3>1. PICK b \in Beds : b = bedSleepersMap[p] /\ h.bedOf[p] = b /\ h.sleeper[b] = p
      BY <1>3, <2>1, <2>3, HouseIs DEF HouseState, Finds
    <3>2. PICK f : f = WakeUp(h, b)
      OBVIOUS
    <3>3. /\ f \in HouseState /\ Finds(f, kickDue, restless) /\ f.where = h.where
          /\ f.owner = h.owner /\ f.lists = h.lists /\ f.bedOf[p] = NoBed
          /\ f.warnings = h.warnings /\ f.mixed = h.mixed /\ f.row = h.row /\ f.warned = h.warned
      BY <2>1, <3>1, <3>2, Woken
    <3>4. Tenures(f)
      BY <2>1, <3>3, TenuresBy
    <3>5. WakeUp([h EXCEPT !.where[p] = place], b) = [f EXCEPT !.where[p] = place]
      BY <3>2 DEF WakeUp, HouseState
    <3>6. Becomes([f EXCEPT !.where[p] = place])
      BY <1>1, <1>3, <2>3, <3>1, <3>5
    <3> QED
      BY <3>3, <3>4, <3>6
  <2> QED
    BY <2>2, <2>3
<1>6. PICK d : d = [f EXCEPT !.where[p] = place]
  OBVIOUS
<1>7. /\ d \in HouseState /\ ButWhere(f, d)
      /\ d.where[p] = place /\ \A q \in People \ {p} : d.where[q] = f.where[q]
  BY <1>6, Goes
<1>8. Tenures(d)
  BY <1>5, <1>7, TenuresBy DEF ButWhere
<1>9. Finds(d, kickDue, restless)
  <2>1. \A b \in Beds : p \notin restless => f.sleeper[b] # p
    BY <1>5, HousesAssumption DEF Finds
  <2> QED
    BY <1>5, <1>7, <2>1 DEF Finds, ButWhere
<1>10. Admits(d, kickDue)
  <2>1. \A q : Invited(d, q) <=> Invited(h, q)
    BY <1>5, <1>7, InvitedBy DEF ButWhere
  <2>2. Admits(h, kickDue)
    BY <1>3 DEF HouseInv
  <2> QED
    BY <1>1, <1>3, <1>5, <1>7, <2>1, <2>2 DEF Admits
<1>11. \A q \in People : dialog'[q] # NoBed => d.where[q] # "offline"
  BY <1>2, <1>3, <1>5, <1>7, HouseIs DEF HouseInv, Online
<1> QED
  BY <1>2, <1>5, <1>6, <1>7, <1>8, <1>9, <1>10, <1>11, HouseThen DEF HouseInv

\* A logout, or a kick, takes along what one had begun.
LEMMA LogoutKeeps ==
    ASSUME HouseInv, NEW p \in People, HouseLogout(p) PROVE HouseInv'
<1>1. /\ Becomes([House EXCEPT !.where[p] = "offline"])
      /\ dialog' = [dialog EXCEPT ![p] = NoBed] /\ editHouse' = [editHouse EXCEPT ![p] = "none"]
      /\ kickDue' = kickDue \ {p} /\ sale' \in {<<>>, sale}
      /\ UNCHANGED <<storedBeds, restless>>
  BY DEF HouseLogout
<1>2. PICK h \in HouseState : h = House
  BY DEF HouseInv
<1>3. PICK d : d = [h EXCEPT !.where[p] = "offline"]
  OBVIOUS
<1>4. /\ d \in HouseState /\ ButWhere(h, d)
      /\ d.where[p] = "offline" /\ \A q \in People \ {p} : d.where[q] = h.where[q]
  BY <1>3, Goes
<1>5. Finds(h, kickDue, restless) /\ Admits(h, kickDue) /\ Tenures(h)
  BY <1>2 DEF HouseInv
<1>6. Tenures(d)
  BY <1>4, <1>5, TenuresBy DEF ButWhere
<1>7. Finds(d, kickDue', restless)
  BY <1>1, <1>4, <1>5 DEF Finds, ButWhere
<1>8. Admits(d, kickDue')
  <2>1. \A q : Invited(d, q) <=> Invited(h, q)
    BY <1>4, InvitedBy DEF ButWhere
  <2> QED
    BY <1>1, <1>4, <1>5, <2>1 DEF Admits
<1>9. dialog' \in [People -> Beds \cup {NoBed}] /\ editHouse' \in [People -> ListIds \cup {"none"}]
  BY <1>1 DEF HouseInv
<1>10. \A q \in People : dialog'[q] # NoBed => d.where[q] # "offline"
  BY <1>1, <1>2, <1>4, HouseIs DEF HouseInv, Online
<1>11. kickDue' \in SUBSET People /\ sale' \in {<<>>} \cup (People \X People)
  BY <1>1 DEF HouseInv
<1>12. Becomes(d)
  BY <1>1, <1>2, <1>3
<1> QED
  BY <1>1, <1>4, <1>6, <1>7, <1>8, <1>9, <1>10, <1>11, <1>12, HouseThen DEF HouseInv

\* Who walks in is invited; nobody minds who goes out.
LEMMA WalkKeeps ==
    ASSUME HouseInv, NEW p \in People, NEW place \in {"street", "house"},
           where[p] # "offline", place = "house" => Invited(House, p),
           Becomes([House EXCEPT !.where[p] = place]),
           UNCHANGED <<dialog, editHouse, kickDue, sale, storedBeds, restless>>
    PROVE  HouseInv'
<1>1. PICK h \in HouseState : h = House
  BY DEF HouseInv
<1>2. PICK d : d = [h EXCEPT !.where[p] = place]
  OBVIOUS
<1>3. /\ d \in HouseState /\ ButWhere(h, d)
      /\ d.where[p] = place /\ \A q \in People \ {p} : d.where[q] = h.where[q]
  BY <1>2, Goes
<1>4. Finds(h, kickDue, restless) /\ Admits(h, kickDue) /\ Tenures(h) /\ h.where[p] # "offline"
  BY <1>1, HouseIs DEF HouseInv
<1>5. Tenures(d)
  BY <1>3, <1>4, TenuresBy DEF ButWhere
<1>6. Finds(d, kickDue, restless)
  BY <1>3, <1>4 DEF Finds, ButWhere
<1>7. Admits(d, kickDue)
  <2>1. \A q : Invited(d, q) <=> Invited(h, q)
    BY <1>3, InvitedBy DEF ButWhere
  <2> QED
    BY <1>1, <1>3, <1>4, <2>1 DEF Admits
<1>8. \A q \in People : dialog'[q] # NoBed => d.where[q] # "offline"
  BY <1>1, <1>3, HouseIs DEF HouseInv, Online
<1> QED
  BY <1>1, <1>2, <1>3, <1>5, <1>6, <1>7, <1>8, HouseThen DEF HouseInv

\* What leaves the house as it is and opens no window about a bed.
LEMMA HouseRests ==
    ASSUME HouseInv, Becomes(House), UNCHANGED <<kickDue, storedBeds, restless>>,
           dialog' \in [People -> Beds \cup {NoBed}],
           \A p \in People : dialog'[p] # NoBed => where[p] # "offline",
           editHouse' \in [People -> ListIds \cup {"none"}],
           sale' \in {<<>>} \cup (People \X People)
    PROVE  HouseInv'
<1>1. PICK h \in HouseState : h = House
  BY DEF HouseInv
<1>2. h.where = where
  BY <1>1, HouseIs
<1> QED
  BY <1>1, <1>2, HouseThen DEF HouseInv

\* A handler that gives the house another owner, or takes it from one.
LEMMA OwnerKeeps ==
    ASSUME HouseInv, NEW g \in Guid, Becomes(SetOwner(House, g)),
           UNCHANGED <<dialog, editHouse, kickDue, storedBeds, restless>>,
           sale' \in {<<>>, sale}
    PROVE  HouseInv'
<1>1. PICK h \in HouseState : h = House
  BY DEF HouseInv
<1>2. PICK d : d = SetOwner(h, g)
  OBVIOUS
<1>3. Finds(h, kickDue, restless) /\ Admits(h, kickDue) /\ Tenures(h)
  BY <1>1 DEF HouseInv
<1>4. /\ d \in HouseState /\ Admits(d, kickDue) /\ Finds(d, kickDue, restless) /\ Tenures(d)
      /\ \A p \in People : d.where[p] = "offline" <=> h.where[p] = "offline"
  BY <1>2, <1>3, OwnerSet
<1>5. \A q \in People : dialog'[q] # NoBed => d.where[q] # "offline"
  BY <1>1, <1>4, HouseIs DEF HouseInv, Online
<1>6. sale' \in {<<>>} \cup (People \X People)
  BY DEF HouseInv
<1> QED
  BY <1>1, <1>2, <1>4, <1>5, <1>6, HouseThen DEF HouseInv

\* Only the owner, or a subowner they named, changes a list.
LEMMA UpdateKeeps ==
    ASSUME HouseInv, NEW p \in People, UpdateHouseWindow(p) PROVE HouseInv'
<1>1. PICK names \in Invitations :
        Becomes(IF MayUpdate(p) THEN SetAccessList(House, editHouse[p], names) ELSE House)
  BY DEF UpdateHouseWindow
<1>2. /\ editHouse[p] # "none" /\ editHouse' = [editHouse EXCEPT ![p] = "none"]
      /\ UNCHANGED <<dialog, kickDue, sale, storedBeds, restless>>
  BY DEF UpdateHouseWindow
<1>3. editHouse' \in [People -> ListIds \cup {"none"}]
  BY <1>2 DEF HouseInv
<1>4. CASE ~MayUpdate(p)
  <2>1. Becomes(House)
    BY <1>1, <1>4
  <2> QED
    BY <1>2, <1>3, <2>1, HouseRests DEF HouseInv, Online
<1>5. CASE MayUpdate(p)
  <2>1. PICK h \in HouseState : h = House
    BY DEF HouseInv
  <2>2. PICK l \in ListIds : l = editHouse[p]
    BY <1>2 DEF HouseInv
  <2>3. PICK d : d = SetAccessList(h, l, names)
    OBVIOUS
  <2>4. Becomes(d)
    BY <1>1, <1>5, <2>1, <2>2, <2>3
  <2>5. names \in SUBSET People
    BY HousesAssumption
  <2>6. /\ d \in HouseState /\ Admits(d, kickDue)
        /\ d.sleeper = h.sleeper /\ d.bedOf = h.bedOf /\ d.owner = h.owner
        /\ d.warnings = h.warnings /\ d.mixed = h.mixed /\ d.row = h.row
        /\ d.warned = h.warned
        /\ \A q \in People : d.where[q] = "offline" <=> h.where[q] = "offline"
        /\ d.lists[l] = [names |-> names, by |-> IF names = {} THEN Nobody ELSE h.owner]
        /\ \A k \in ListIds \ {l} : d.lists[k] = h.lists[k]
    BY <2>3, <2>5, ListSet
  <2>7. Finds(h, kickDue, restless) /\ Tenures(h)
    BY <2>1 DEF HouseInv
  <2>8. Finds(d, kickDue, restless)
    BY <2>6, <2>7 DEF Finds
  <2>9. AccessLevel(h, p) >= 2
    BY <1>5, <2>1 DEF MayUpdate, CanEditAccessList
  <2>10. ~h.mixed => h.owner # Nobody
    <3>1. ASSUME h.owner = Nobody, \A k \in ListIds : h.lists[k] = Empty PROVE FALSE
      <4>1. p # Nobody /\ h.lists["subowner"].names = {} /\ h.lists["guest"].names = {}
        BY <3>1, HousesAssumption DEF ListIds, Empty
      <4> QED
        BY <2>9, <3>1, <4>1 DEF AccessLevel
    <3> QED
      BY <2>7, <3>1 DEF Tenures, Tenure
  <2>11. d.lists[l] # Empty => d.lists[l].by = d.owner
    BY <2>6 DEF Empty
  <2>12. Tenure(d, d.warned)
    BY <2>6, <2>7, <2>10, <2>11 DEF Tenures, Tenure
  <2>13. Tenures(d)
    BY <2>6, <2>7, <2>12 DEF Tenures
  <2>14. \A q \in People : dialog'[q] # NoBed => d.where[q] # "offline"
    BY <1>2, <2>1, <2>6, HouseIs DEF HouseInv, Online
  <2> QED
    BY <1>2, <1>3, <2>4, <2>6, <2>8, <2>13, <2>14, HouseThen DEF HouseInv
<1> QED
  BY <1>4, <1>5

\* Who asks to sleep in a bed has a window; the owner wakes who is in it.
LEMMA UseBedKeeps ==
    ASSUME HouseInv, NEW p \in People, NEW b \in Beds, UseBed(p, b) PROVE HouseInv'
<1>1. Online(p) /\ UNCHANGED <<editHouse, kickDue, sale, storedBeds, restless>>
  BY DEF UseBed
<1>2. CASE dialog' = [dialog EXCEPT ![p] = b] /\ Becomes(House)
  <2>1. dialog' \in [People -> Beds \cup {NoBed}]
    BY <1>2 DEF HouseInv
  <2>2. \A q \in People : dialog'[q] # NoBed => where[q] # "offline"
    BY <1>1, <1>2 DEF HouseInv, Online
  <2> QED
    BY <1>1, <1>2, <2>1, <2>2, HouseRests DEF HouseInv
<1>3. CASE Becomes(WakeUp(House, b)) /\ UNCHANGED dialog
  <2>1. PICK h \in HouseState : h = House
    BY DEF HouseInv
  <2>2. PICK d : d = WakeUp(h, b)
    OBVIOUS
  <2>3. Finds(h, kickDue, restless) /\ Admits(h, kickDue) /\ Tenures(h)
    BY <2>1 DEF HouseInv
  <2>4. /\ d \in HouseState /\ Finds(d, kickDue, restless)
        /\ d.where = h.where /\ d.owner = h.owner /\ d.lists = h.lists
        /\ d.warnings = h.warnings /\ d.mixed = h.mixed /\ d.row = h.row
        /\ d.warned = h.warned
    BY <2>2, <2>3, Woken
  <2>5. Tenures(d)
    BY <2>3, <2>4, TenuresBy
  <2>6. Admits(d, kickDue)
    <3>1. \A q : Invited(d, q) <=> Invited(h, q)
      BY <2>4, InvitedBy
    <3> QED
      BY <2>3, <2>4, <3>1 DEF Admits
  <2>7. \A q \in People : dialog'[q] # NoBed => d.where[q] # "offline"
    BY <1>3, <2>1, <2>4, HouseIs DEF HouseInv, Online
  <2> QED
    BY <1>1, <1>3, <2>1, <2>2, <2>4, <2>5, <2>6, <2>7, HouseThen DEF HouseInv
<1> QED
  BY <1>2, <1>3 DEF UseBed

\* Whoever lies down is in one bed, and about to be kicked: or is restless.
LEMMA AnswerKeeps ==
    ASSUME HouseInv, NEW p \in People, AnswerDialog(p) PROVE HouseInv'
<1>1. /\ dialog[p] # NoBed /\ dialog' = [dialog EXCEPT ![p] = NoBed]
      /\ UNCHANGED <<editHouse, sale, storedBeds>>
  BY DEF AnswerDialog
<1>2. dialog' \in [People -> Beds \cup {NoBed}]
  BY <1>1 DEF HouseInv
<1>3. CASE Becomes(House) /\ UNCHANGED <<kickDue, restless>>
  <2>1. \A q \in People : dialog'[q] # NoBed => where[q] # "offline"
    BY <1>1 DEF HouseInv, Online
  <2> QED
    BY <1>1, <1>2, <1>3, <2>1, HouseRests DEF HouseInv
<1>4. CASE /\ MaySleep(dialog[p])
           /\ Becomes([House EXCEPT !.sleeper[dialog[p]] = p, !.bedOf[p] = dialog[p],
                                    !.where[p] = "house"])
           /\ kickDue' = kickDue \cup {p}
           /\ restless' = IF p \in kickDue THEN restless \cup {p} ELSE restless
  <2>1. PICK h \in HouseState : h = House
    BY DEF HouseInv
  <2>2. PICK b \in Beds : b = dialog[p] /\ h.sleeper[b] = Nobody
    BY <1>4, <2>1, HouseIs DEF HouseInv, MaySleep
  <2>3. PICK s : s = [h.sleeper EXCEPT ![b] = p]
    OBVIOUS
  <2>4. PICK m : m = [h.bedOf EXCEPT ![p] = b]
    OBVIOUS
  <2>5. PICK w : w = [h.where EXCEPT ![p] = "house"]
    OBVIOUS
  <2>6. /\ s \in [Beds -> Guid] /\ m \in [People -> Beds \cup {NoBed}]
        /\ w \in [People -> {"offline", "street", "house"}]
    BY <2>3, <2>4, <2>5 DEF HouseState, Guid
  <2>7. PICK d : d = [h EXCEPT !.sleeper = s, !.bedOf = m, !.where = w]
    OBVIOUS
  <2>8. /\ d \in HouseState /\ d.sleeper = s /\ d.bedOf = m /\ d.where = w
        /\ d.owner = h.owner /\ d.lists = h.lists /\ d.warnings = h.warnings
        /\ d.mixed = h.mixed /\ d.row = h.row /\ d.warned = h.warned
    BY <2>6, <2>7 DEF HouseState
  <2>9. d = [h EXCEPT !.sleeper[b] = p, !.bedOf[p] = b, !.where[p] = "house"]
    BY <2>3, <2>4, <2>5, <2>7 DEF HouseState
  <2>10. Becomes(d)
    BY <1>4, <2>1, <2>2, <2>9
  <2>11. Finds(h, kickDue, restless) /\ Admits(h, kickDue) /\ Tenures(h)
         /\ h.where[p] # "offline"
    BY <1>1, <2>1, HouseIs DEF HouseInv, Online
  <2>12. /\ s[b] = p /\ \A a \in Beds \ {b} : s[a] = h.sleeper[a]
         /\ m[p] = b /\ \A q \in People \ {p} : m[q] = h.bedOf[q]
         /\ w[p] = "house" /\ \A q \in People \ {p} : w[q] = h.where[q]
    BY <2>3, <2>4, <2>5 DEF HouseState
  <2>13. restless \subseteq restless' /\ (p \in kickDue => p \in restless')
    BY <1>4
  <2>14. ASSUME NEW q \in People, m[q] # NoBed PROVE s[m[q]] = q
    <3>1. CASE q = p
      BY <2>12, <3>1
    <3>2. CASE q # p
      <4>1. m[q] = h.bedOf[q] /\ m[q] \in Beds /\ h.sleeper[m[q]] = q
        BY <2>6, <2>11, <2>12, <2>14, <3>2 DEF Finds
      <4>2. m[q] # b
        BY <2>2, <4>1, HousesAssumption
      <4> QED
        BY <2>12, <4>1, <4>2
    <3> QED
      BY <3>1, <3>2
  <2>15. ASSUME NEW a \in Beds, NEW q \in People \ restless', s[a] = q
         PROVE  m[q] = a /\ (w[q] # "offline" => q \in kickDue')
    <3>1. CASE a = b
      BY <1>4, <2>12, <2>15, <3>1
    <3>2. CASE a # b
      <4>1. h.sleeper[a] = q /\ q \in People \ restless
        BY <2>12, <2>13, <2>15, <3>2
      <4>2. h.bedOf[q] = a /\ (h.where[q] # "offline" => q \in kickDue)
        BY <2>11, <4>1 DEF Finds
      <4>3. q # p
        BY <2>11, <2>13, <2>15, <4>2
      <4> QED
        BY <1>4, <2>12, <4>2, <4>3
    <3> QED
      BY <3>1, <3>2
  <2>16. Finds(d, kickDue', restless')
    BY <2>8, <2>14, <2>15 DEF Finds
  <2>17. Admits(d, kickDue')
    <3>1. \A q : Invited(d, q) <=> Invited(h, q)
      BY <2>8, InvitedBy
    <3> QED
      BY <1>4, <2>8, <2>11, <2>12, <3>1 DEF Admits
  <2>18. Tenures(d)
    BY <2>8, <2>11, TenuresBy
  <2>19. OneBedEach(storedBeds', restless')
    BY <1>1, <2>13 DEF HouseInv, OneBedEach
  <2>20. \A q \in People : dialog'[q] # NoBed => d.where[q] # "offline"
    BY <1>1, <2>1, <2>8, <2>12, HouseIs DEF HouseInv, Online
  <2>21. kickDue' \in SUBSET People
    BY <1>4 DEF HouseInv
  <2> QED
    BY <1>1, <1>2, <2>8, <2>10, <2>16, <2>17, <2>18, <2>19, <2>20, <2>21, HouseThen DEF HouseInv
<1> QED
  BY <1>3, <1>4 DEF AnswerDialog

\* What a save stores is what is; no two beds of it are of one sleeper who
\* lay down once.
LEMMA SaveKeeps ==
    ASSUME HouseInv, SaveMap PROVE HouseInv'
<1>1. PICK h \in HouseState : h = House
  BY DEF HouseInv
<1>2. PICK r : r = [owner |-> owner, lists |-> lists, warnings |-> rentWarnings, mixed |-> mixed]
  OBVIOUS
<1>3. /\ r \in HouseRow /\ r.owner = h.owner /\ r.lists = h.lists
      /\ r.warnings = h.warnings /\ r.mixed = h.mixed
  BY <1>1, <1>2, HouseIs DEF HouseRow, HouseState
<1>4. PICK d : d = [h EXCEPT !.row = r]
  OBVIOUS
<1>5. /\ d \in HouseState /\ d.row = r /\ d.sleeper = h.sleeper /\ d.bedOf = h.bedOf
      /\ d.where = h.where /\ d.owner = h.owner /\ d.lists = h.lists
      /\ d.warnings = h.warnings /\ d.mixed = h.mixed /\ d.warned = h.warned
  BY <1>3, <1>4 DEF HouseState
<1>6. /\ UNCHANGED <<dialog, editHouse, kickDue, sale, restless>>
      /\ storedBeds' \in {sleeper, storedBeds}
  BY DEF SaveMap
<1>7. Becomes(d)
  BY <1>1, <1>2, <1>5, HouseIs DEF SaveMap, SaveHouseInfo, Becomes
<1>8. Finds(h, kickDue, restless) /\ Admits(h, kickDue) /\ Tenures(h)
  BY <1>1 DEF HouseInv
<1>9. Finds(d, kickDue, restless)
  BY <1>5, <1>8 DEF Finds
<1>10. Admits(d, kickDue)
  <2>1. \A q : Invited(d, q) <=> Invited(h, q)
    BY <1>5, InvitedBy
  <2> QED
    BY <1>5, <1>8, <2>1 DEF Admits
<1>11. Tenures(d)
  BY <1>3, <1>5, <1>8 DEF Tenures, Tenure
<1>12. storedBeds' \in [Beds -> Guid] /\ OneBedEach(storedBeds', restless)
  <2>1. h.sleeper \in [Beds -> Guid] /\ OneBedEach(h.sleeper, restless)
    BY <1>8 DEF HouseState, Finds, OneBedEach
  <2> QED
    BY <1>1, <1>6, <2>1, HouseIs DEF HouseInv
<1>13. \A q \in People : dialog'[q] # NoBed => d.where[q] # "offline"
  BY <1>1, <1>5, <1>6, HouseIs DEF HouseInv, Online
<1> QED
  BY <1>5, <1>6, <1>7, <1>9, <1>10, <1>11, <1>12, <1>13, HouseThen DEF HouseInv

\* What is loaded is a house again, with nobody in it but who sleeps.
LEMMA LoadedIs ==
    ASSUME HouseInv, NEW found \in [People -> Beds \cup {NoBed}],
           \A p \in People : IF \E b \in Beds : storedBeds[b] = p
                             THEN found[p] # NoBed /\ storedBeds[found[p]] = p
                             ELSE found[p] = NoBed,
           NEW d, d = Loaded(found)
    PROVE  /\ d \in HouseState /\ Finds(d, {}, restless) /\ Admits(d, {}) /\ Tenures(d)
           /\ d.owner = houseRow.owner /\ d.row = houseRow
<1>1. PICK r \in HouseRow : r = houseRow /\ Tenure(r, warned) /\ warned \in Nat
  BY HouseIs DEF HouseInv, HouseState, Tenures
<1>2. PICK w : w = [p \in People |-> "offline"]
  OBVIOUS
<1>3. w \in [People -> {"offline", "street", "house"}]
  BY <1>2
<1>4. d = [owner |-> r.owner, lists |-> r.lists, warnings |-> r.warnings,
           sleeper |-> storedBeds, bedOf |-> found, where |-> w, row |-> r,
           warned |-> warned, mixed |-> r.mixed]
  BY <1>1, <1>2 DEF Loaded
<1>5. storedBeds \in [Beds -> Guid] /\ OneBedEach(storedBeds, restless)
  BY DEF HouseInv
<1>6. /\ d \in HouseState /\ d.owner = r.owner /\ d.lists = r.lists /\ d.warnings = r.warnings
      /\ d.sleeper = storedBeds /\ d.bedOf = found /\ d.where = w /\ d.row = r
      /\ d.warned = warned /\ d.mixed = r.mixed
  BY <1>1, <1>3, <1>4, <1>5 DEF HouseState, HouseRow
<1>7. ASSUME NEW p \in People, found[p] # NoBed PROVE storedBeds[found[p]] = p
  BY <1>7
<1>8. ASSUME NEW b \in Beds, NEW p \in People \ restless, storedBeds[b] = p PROVE found[p] = b
  BY <1>5, <1>8 DEF OneBedEach
<1>9. Finds(d, {}, restless) /\ Admits(d, {})
  BY <1>2, <1>6, <1>7, <1>8 DEF Finds, Admits
<1>10. Tenures(d)
  BY <1>1, <1>6 DEF Tenures, Tenure
<1> QED
  BY <1>1, <1>6, <1>9, <1>10

\* The next process has what was stored, and may take the house from its owner.
LEMMA RestartKeeps ==
    ASSUME HouseInv, Restart PROVE HouseInv'
<1>1. PICK found \in [People -> Beds \cup {NoBed}] :
        /\ \A p \in People : IF \E b \in Beds : storedBeds[b] = p
                             THEN found[p] # NoBed /\ storedBeds[found[p]] = p
                             ELSE found[p] = NoBed
        /\ \/ Becomes(Loaded(found))
           \/ houseRow.owner # Nobody /\ Becomes(RentOverdue(Loaded(found)))
  BY DEF Restart
<1>2. PICK h : h = Loaded(found)
  OBVIOUS
<1>3. /\ h \in HouseState /\ Finds(h, {}, restless) /\ Admits(h, {}) /\ Tenures(h)
      /\ h.owner = houseRow.owner
  BY <1>1, <1>2, LoadedIs
<1>4. PICK d : /\ d \in HouseState /\ Finds(d, {}, restless) /\ Admits(d, {}) /\ Tenures(d)
               /\ Becomes(d)
  <2>1. CASE Becomes(Loaded(found))
    BY <1>2, <1>3, <2>1
  <2>2. CASE h.owner # Nobody /\ Becomes(RentOverdue(h)) /\ h.warnings < MaxWarnings
    <3> DEFINE late == h.warnings + 1
               warning == Another(h.warned)
    <3>0. h.warnings \in Nat /\ h.warned \in Nat /\ MaxWarnings \in Nat
      BY <1>3, HousesAssumption DEF HouseState
    <3>1. /\ late \in Nat /\ warning \in Nat /\ h.warned <= warning
          /\ h.warnings <= h.warned => late <= warning
      BY <2>2, <3>0 DEF Another
    <3>2. PICK d : d = [h EXCEPT !.warnings = late, !.warned = warning]
      OBVIOUS
    <3>r. RentOverdue(h) = d
      BY <2>2, <3>2, <1>3 DEF RentOverdue, HouseState
    <3> HIDE DEF late, warning
    <3>3. /\ d \in HouseState /\ d.warnings = late /\ d.warned = warning
          /\ d.row = h.row /\ d.sleeper = h.sleeper /\ d.bedOf = h.bedOf
          /\ d.where = h.where /\ d.owner = h.owner /\ d.lists = h.lists /\ d.mixed = h.mixed
      BY <1>3, <3>1, <3>2 DEF HouseState
    <3>5. Finds(d, {}, restless)
      BY <1>3, <3>3 DEF Finds
    <3>6. Admits(d, {})
      <4>1. \A q : Invited(d, q) <=> Invited(h, q)
        BY <3>3, InvitedBy
      <4> QED
        BY <1>3, <3>3, <4>1 DEF Admits
    <3>7. Tenure(d, d.warned)
      BY <1>3, <2>2, <3>1, <3>3 DEF Tenures, Tenure
    <3>8. Tenure(d.row, d.warned)
      <4>1. h.row.warnings \in Nat /\ h.warned \in Nat
        BY <1>3 DEF HouseState, HouseRow
      <4> QED
        BY <1>3, <3>1, <3>3, <4>1 DEF Tenures, Tenure
    <3> QED
      BY <2>2, <3>r, <3>3, <3>5, <3>6, <3>7, <3>8 DEF Tenures
  <2>3. CASE Becomes(RentOverdue(h)) /\ ~(h.warnings < MaxWarnings)
    <3>1. PICK d : d = SetOwner(h, Nobody)
      OBVIOUS
    <3>2. Nobody \in Guid
      BY DEF Guid
    <3>3. d \in HouseState /\ Admits(d, {}) /\ Finds(d, {}, restless) /\ Tenures(d)
      BY <1>3, <3>1, <3>2, OwnerSet
    <3> QED
      BY <2>3, <3>1, <3>3 DEF RentOverdue
  <2> QED
    BY <1>1, <1>2, <1>3, <2>1, <2>2, <2>3
<1>5. /\ dialog' = [p \in People |-> NoBed] /\ editHouse' = [p \in People |-> "none"]
      /\ kickDue' = {} /\ sale' = <<>> /\ UNCHANGED <<storedBeds, restless>>
  BY DEF Restart
<1>6. /\ dialog' \in [People -> Beds \cup {NoBed}]
      /\ editHouse' \in [People -> ListIds \cup {"none"}]
      /\ \A q \in People : dialog'[q] # NoBed => d.where[q] # "offline"
  BY <1>5
<1> QED
  BY <1>4, <1>5, <1>6, HouseThen DEF HouseInv

-----------------------------------------------------------------------------
\* Every step of the house keeps all of it.
LEMMA HouseStep ==
    ASSUME HouseInv, [HouseNext]_houseVars PROVE HouseInv'
<1>1. CASE UNCHANGED houseVars
  BY <1>1, HouseRests DEF HouseInv, houseVars, House, Becomes, Online
<1>2. ASSUME NEW p \in People, LifeInHouse(p) PROVE HouseInv'
  <2>1. CASE HouseLogin(p)
    BY <2>1, LoginKeeps
  <2>2. CASE HouseLogout(p)
    BY <2>2, LogoutKeeps
  <2>3. CASE Walk(p)
    BY <2>3, WalkKeeps DEF Walk
  <2>4. CASE UpdateHouseWindow(p)
    BY <2>4, UpdateKeeps
  <2>5. ASSUME NEW l \in ListIds, EditList(p, l) PROVE HouseInv'
    <3>1. editHouse' \in [People -> ListIds \cup {"none"}]
      BY <2>5 DEF EditList, HouseInv
    <3> QED
      BY <2>5, <3>1, HouseRests DEF EditList, HouseInv, Online
  <2>6. ASSUME NEW q \in People, HouseKick(p, q) PROVE HouseInv'
    BY <2>6, WalkKeeps DEF HouseKick
  <2> QED
    BY <1>2, <2>1, <2>2, <2>3, <2>4, <2>5, <2>6 DEF LifeInHouse
<1>3. ASSUME NEW p \in People, InBed(p) PROVE HouseInv'
  <2>1. CASE AnswerDialog(p)
    BY <2>1, AnswerKeeps
  <2>2. CASE KickSleeper(p)
    BY <2>2, LogoutKeeps DEF KickSleeper
  <2>3. ASSUME NEW b \in Beds, UseBed(p, b) PROVE HouseInv'
    BY <2>3, UseBedKeeps
  <2> QED
    BY <1>3, <2>1, <2>2, <2>3 DEF InBed
<1>4. ASSUME NEW p \in People, Deed(p) PROVE HouseInv'
  <2>1. CASE BuyHouse(p)
    BY <2>1, OwnerKeeps DEF BuyHouse, Guid
  <2>2. CASE LeaveHouse(p)
    BY <2>2, OwnerKeeps DEF LeaveHouse, Guid
  <2>3. ASSUME NEW q \in People, SellHouse(p, q) PROVE HouseInv'
    BY <2>3, HouseRests DEF SellHouse, HouseInv, Online
  <2> QED
    BY <1>4, <2>1, <2>2, <2>3 DEF Deed
<1>5. CASE Passing
  <2>1. CASE CancelSale
    BY <2>1, HouseRests DEF CancelSale, HouseInv, Online
  <2>2. CASE AcceptSale
    <3>1. PICK g \in Guid : g = sale[2]
      BY <2>2 DEF AcceptSale, HouseInv, Guid
    <3> QED
      BY <2>2, <3>1, OwnerKeeps DEF AcceptSale
  <2>3. ASSUME NEW g \in People \cup {Nobody}, GiveHouse(g) PROVE HouseInv'
    BY <2>3, OwnerKeeps DEF GiveHouse, Guid
  <2> QED
    BY <1>5, <2>1, <2>2, <2>3 DEF Passing
<1>6. CASE Storage
  BY <1>6, SaveKeeps, RestartKeeps DEF Storage
<1> QED
  BY <1>1, <1>2, <1>3, <1>4, <1>5, <1>6 DEF HouseNext

\* A house begins with nobody in it.
LEMMA HouseStart ==
    ASSUME HouseInit PROVE HouseInv
<1>1. PICK m : m = [l \in ListIds |-> Empty]
  OBVIOUS
<1>2. m \in [ListIds -> AccessList]
  BY <1>1 DEF AccessList, Empty, Guid
<1>3. lists = m /\ owner = Nobody /\ rentWarnings = 0 /\ warned = 0 /\ mixed = FALSE
  BY <1>1 DEF HouseInit
<1>4. PICK r \in HouseRow : r = houseRow /\ r.lists = m /\ r.warnings = 0
  <2>1. PICK r : r = [owner |-> Nobody, lists |-> m, warnings |-> 0, mixed |-> mixed]
    OBVIOUS
  <2>2. r \in HouseRow /\ r.lists = m /\ r.warnings = 0
    BY <1>2, <1>3, <2>1 DEF HouseRow, Guid
  <2>3. r = houseRow
    BY <1>3, <2>1 DEF HouseInit
  <2> QED
    BY <2>2, <2>3
<1>5. /\ sleeper = [b \in Beds |-> Nobody] /\ bedSleepersMap = [p \in People |-> NoBed]
      /\ where = [p \in People |-> "offline"] /\ storedBeds = sleeper
  BY DEF HouseInit
<1>6. /\ sleeper \in [Beds -> Guid] /\ bedSleepersMap \in [People -> Beds \cup {NoBed}]
      /\ where \in [People -> {"offline", "street", "house"}]
  BY <1>5 DEF Guid
<1>7. House \in HouseState
  BY <1>2, <1>3, <1>4, <1>6 DEF House, HouseState, Guid
<1>8. Tenures(House)
  BY <1>1, <1>3, <1>4, HouseIs DEF Tenures, Tenure
<1>9. Admits(House, kickDue) /\ Finds(House, kickDue, restless)
  BY <1>5, HousesAssumption, HouseIs DEF Admits, Finds
<1>10. OneBedEach(storedBeds, restless)
  BY <1>5, HousesAssumption DEF OneBedEach
<1>11. /\ dialog \in [People -> Beds \cup {NoBed}] /\ editHouse \in [People -> ListIds \cup {"none"}]
       /\ kickDue = {} /\ sale = <<>> /\ \A p \in People : dialog[p] = NoBed
  BY DEF HouseInit
<1> QED
  BY <1>5, <1>6, <1>7, <1>8, <1>9, <1>10, <1>11 DEF HouseInv

\* What HouseInv says of the house at home, and of its tenure.
LEMMA HouseEnds ==
    ASSUME HouseInv PROVE HomeIsKept /\ TenureIsNew
<1>1. OnlyInvited
  BY HouseIs DEF HouseInv, Admits, OnlyInvited
<1>2. SleepersAreFound
  BY HouseIs DEF HouseInv, Finds, SleepersAreFound, Online
<1>3. TenureIsNew
  BY HouseIs DEF HouseInv, Tenures, Tenure, TenureIsNew, ListsAreTheOwners, WarnedBefore
<1> QED
  BY <1>1, <1>2, <1>3 DEF HomeIsKept

\* Nobody is in a house they are not invited to, but one led to bed who is
\* about to be kicked; and the beds and the map of sleepers agree
\* (House::setAccessList, setOwner, HouseTile::queryAdd, BedItem::sleep, wakeUp).
THEOREM HomeStaysKept == HouseSpec => []HomeIsKept
<1>1. HouseInit => HouseInv
  BY HouseStart
<1>2. HouseInv /\ [HouseNext]_houseVars => HouseInv'
  BY HouseStep
<1>3. HouseInv => HomeIsKept
  BY HouseEnds
<1> QED
  BY <1>1, <1>2, <1>3, PTL DEF HouseSpec

\* Whoever gets a house gets it without the lists and the warnings of the owner
\* before, unless the server ended before the change was saved
\* (House::setOwner, payHouses, IOMapSerialize::saveHouseInfo).
THEOREM TenureStaysNew == HouseSpec => []TenureIsNew
<1>1. HouseInit => HouseInv
  BY HouseStart
<1>2. HouseInv /\ [HouseNext]_houseVars => HouseInv'
  BY HouseStep
<1>3. HouseInv => TenureIsNew
  BY HouseEnds
<1> QED
  BY <1>1, <1>2, <1>3, PTL DEF HouseSpec

\* The house of players who also have items is this house: whatever else
\* happens leaves it alone.
THEOREM ThingsHaveAHouse == ThingsSpec => HouseSpec
<1>1. ThingsInit => HouseInit
  BY DEF ThingsInit
<1>2. ASSUME [ThingsNext]_thingVars PROVE [HouseNext]_houseVars
  <2>1. CASE UNCHANGED houseVars
    BY <2>1
  <2>2. CASE AtHome \/ Asleep \/ Deeds
    BY <2>2 DEF AtHome, Asleep, Deeds, LifeInHouse, HouseNext, InBed, Deed
  <2>3. UNCHANGED houseVars \/ AtHome \/ Asleep \/ Deeds
    BY <1>2 DEF ThingsNext, thingVars
  <2> QED
    BY <2>1, <2>2, <2>3
<1> QED
  BY <1>1, <1>2, PTL DEF ThingsSpec, HouseSpec

-----------------------------------------------------------------------------
(***************************************************************************)
(* Places in places.  Over(s, x) is x and what x is in, at any depth; Root *)
(* is the last of them.                                                    *)
(***************************************************************************)
Over(s, x) == {x} \cup {y \in Around(s, x) : x \in Bags}

\* S has the place of each bag in it.
Closed(s, S) == \A b \in S \cap Bags : s.parent[b] \in S

ClosedFor(s, i, S) == \A j \in S \cup {i} : s.parent[j] \in Bags => s.parent[j] \in S

\* What is around an item is the least set with its place that is closed.
LEMMA AroundIsLeast ==
    ASSUME NEW s, NEW i
    PROVE  /\ s.parent[i] \in Around(s, i) /\ Closed(s, Around(s, i))
           /\ \A S : s.parent[i] \in S /\ Closed(s, S) => Around(s, i) \subseteq S
<1>1. \A b \in Bags : b \in BagsAround(s, i)
                        <=> \A S \in SUBSET Bags : ClosedFor(s, i, S) => b \in S
  BY DEF BagsAround, ClosedFor
<1>2. BagsAround(s, i) \subseteq Bags
  BY DEF BagsAround
<1>3. \A x : x \in Around(s, i) <=> \E j \in BagsAround(s, i) \cup {i} : x = s.parent[j]
  BY DEF Around
<1>4. ASSUME NEW b \in Around(s, i) \cap Bags PROVE s.parent[b] \in Around(s, i)
  <2>1. PICK j \in BagsAround(s, i) \cup {i} : b = s.parent[j]
    BY <1>3, <1>4
  <2>2. ASSUME NEW S \in SUBSET Bags, ClosedFor(s, i, S) PROVE b \in S
    BY <1>1, <1>2, <1>4, <2>1, <2>2 DEF ClosedFor
  <2>3. b \in BagsAround(s, i)
    BY <1>1, <1>4, <2>2
  <2> QED
    BY <1>3, <2>3
<1>5. ASSUME NEW S, s.parent[i] \in S, Closed(s, S) PROVE Around(s, i) \subseteq S
  <2>1. ClosedFor(s, i, S \cap Bags)
    BY <1>5 DEF ClosedFor, Closed
  <2>2. BagsAround(s, i) \subseteq S
    BY <1>1, <1>2, <2>1
  <2> QED
    BY <1>2, <1>3, <1>5, <2>2 DEF Closed
<1>6. s.parent[i] \in Around(s, i)
  BY <1>3
<1> QED
  BY <1>4, <1>5, <1>6 DEF Closed

\* What is over a place is the least such set that has the place.
LEMMA OverIsLeast ==
    ASSUME NEW s, NEW x
    PROVE  /\ x \in Over(s, x) /\ Closed(s, Over(s, x))
           /\ \A S : x \in S /\ Closed(s, S) => Over(s, x) \subseteq S
<1>1. x \in Over(s, x)
  BY DEF Over
<1>2. Closed(s, Over(s, x))
  BY AroundIsLeast DEF Over, Closed
<1>3. ASSUME NEW S, x \in S, Closed(s, S) PROVE Over(s, x) \subseteq S
  <2>1. x \in Bags => Around(s, x) \subseteq S
    BY <1>3, AroundIsLeast DEF Closed
  <2> QED
    BY <1>3, <2>1 DEF Over
<1> QED
  BY <1>1, <1>2, <1>3

\* What is around an item is what is over its place.
LEMMA AroundIsOver == ASSUME NEW s, NEW i PROVE Around(s, i) = Over(s, s.parent[i])
<1>1. Over(s, s.parent[i]) \subseteq Around(s, i)
  BY AroundIsLeast, OverIsLeast
<1>2. Around(s, i) \subseteq Over(s, s.parent[i])
  BY AroundIsLeast, OverIsLeast
<1> QED
  BY <1>1, <1>2

\* What is over a place over x is over x.
LEMMA OverOver ==
    ASSUME NEW s, NEW x, NEW y \in Over(s, x) PROVE Over(s, y) \subseteq Over(s, x)
  BY OverIsLeast

\* Over a bag is the bag, and what is over its place.
LEMMA OverBag ==
    ASSUME NEW s, NEW b \in Bags
    PROVE  Over(s, b) = {b} \cup Over(s, s.parent[b]) /\ s.parent[b] \in Over(s, b)
  BY AroundIsOver, AroundIsLeast DEF Over

LEMMA OverOther == ASSUME NEW s, NEW x, x \notin Bags PROVE Over(s, x) = {x}
  BY DEF Over

\* Where no bag over x has moved, the same is over x as before.
LEMMA OverSame ==
    ASSUME NEW s, NEW r, NEW x, \A b \in Over(s, x) \cap Bags : r.parent[b] = s.parent[b]
    PROVE  Over(r, x) = Over(s, x)
<1>1. Over(r, x) \subseteq Over(s, x)
  <2>1. Closed(r, Over(s, x))
    BY OverIsLeast DEF Closed
  <2> QED
    BY <2>1, OverIsLeast
<1>2. Over(s, x) \subseteq Over(r, x)
  <2>1. Closed(s, Over(r, x))
    BY <1>1, OverIsLeast DEF Closed
  <2> QED
    BY <2>1, OverIsLeast
<1> QED
  BY <1>1, <1>2

\* No bag is in itself.
Acyclic(s) == \A b \in Bags : b \notin Over(s, s.parent[b])

\* Of two bags over x one is over the place of the other.
LEMMA OverChain ==
    ASSUME NEW s, NEW x, NEW d \in Over(s, x) \cap Bags, NEW e \in Over(s, x) \cap Bags, d # e
    PROVE  d \in Over(s, s.parent[e]) \/ e \in Over(s, s.parent[d])
<1> DEFINE S == {y \in Over(s, x) : y \in Over(s, d) \/ d \in Over(s, y)}
<1>1. x \in S
  BY OverIsLeast
<1>2. ASSUME NEW b \in S \cap Bags PROVE s.parent[b] \in S
  <2>1. s.parent[b] \in Over(s, x)
    BY <1>2, OverIsLeast DEF Closed
  <2>2. CASE b \in Over(s, d)
    BY <1>2, <2>1, <2>2, OverIsLeast DEF Closed
  <2>3. CASE d \in Over(s, b)
    <3>1. d = b \/ d \in Over(s, s.parent[b])
      BY <1>2, <2>3, OverBag
    <3> QED
      BY <1>2, <2>1, <3>1, OverBag
  <2> QED
    BY <1>2, <2>2, <2>3
<1>3. Closed(s, S)
  BY <1>2 DEF Closed
<1>4. e \in S
  <2> HIDE DEF S
  <2> QED
    BY <1>1, <1>3, OverIsLeast
<1> QED
  BY <1>4, OverBag

\* One of the things in a place that is over x leads to x.
LEMMA OneWayDown ==
    ASSUME NEW s, Acyclic(s), NEW x, NEW d \in Over(s, x) \cap Bags, NEW e \in Over(s, x) \cap Bags,
           s.parent[d] = s.parent[e]
    PROVE  d = e
  BY OverChain DEF Acyclic

\* There is one, unless the place is x itself.
LEMMA WayDown ==
    ASSUME NEW s, NEW x, NEW c \in Over(s, x), c # x
    PROVE  \E d \in Over(s, x) \cap Bags : s.parent[d] = c
<1>1. SUFFICES ASSUME \A d \in Over(s, x) \cap Bags : s.parent[d] # c PROVE FALSE
  OBVIOUS
<1>2. Closed(s, Over(s, x) \ {c})
  BY <1>1, OverIsLeast DEF Closed
<1>3. Over(s, x) \subseteq Over(s, x) \ {c}
  BY <1>2, OverIsLeast
<1> QED
  BY <1>3

\* Whatever is in bags has something that is none around them.
LEMMA RootExists ==
    ASSUME NEW s, Acyclic(s), NEW x PROVE \E r \in Over(s, x) : r \notin Bags
<1>1. SUFFICES ASSUME Over(s, x) \subseteq Bags PROVE FALSE
  OBVIOUS
<1> DEFINE T == {Over(s, b) : b \in Over(s, x)}
<1>2. PICK o \in T : \A t \in T : t \subseteq o => t = o
  <2>1. IsFiniteSet(Bags)
    BY InventoryAssumption, FS_Subset DEF Items
  <2>2. T \in SUBSET SUBSET Bags /\ T # {}
    BY <1>1, OverIsLeast, OverOver
  <2> HIDE DEF T
  <2> QED
    BY <2>1, <2>2, SmallestSet
<1>3. PICK b \in Over(s, x) : o = Over(s, b)
  BY <1>2
<1>4. b \in Bags /\ s.parent[b] \in Over(s, x)
  BY <1>1, <1>3, OverIsLeast DEF Closed
<1>5. Over(s, s.parent[b]) = Over(s, b)
  BY <1>2, <1>3, <1>4, OverBag
<1> QED
  BY <1>4, <1>5, OverIsLeast DEF Acyclic

\* All ways out of the bags end at one place.
LEMMA OneRoot ==
    ASSUME NEW s, NEW x, NEW r \in Over(s, x), NEW q \in Over(s, x), r \notin Bags, q \notin Bags
    PROVE  r = q
<1> DEFINE S == {y \in Over(s, x) : r \in Over(s, y)}
<1>1. x \in S
  BY OverIsLeast
<1>2. ASSUME NEW b \in S \cap Bags PROVE s.parent[b] \in S
  <2>1. s.parent[b] \in Over(s, x)
    BY <1>2, OverIsLeast DEF Closed
  <2>2. r \in Over(s, s.parent[b])
    BY <1>2, OverBag
  <2> QED
    BY <2>1, <2>2
<1>3. Closed(s, S)
  BY <1>2 DEF Closed
<1>4. q \in S
  <2> HIDE DEF S
  <2> QED
    BY <1>1, <1>3, OverIsLeast
<1> QED
  BY <1>4, OverOther

\* Root finds it.
LEMMA RootIs ==
    ASSUME NEW s, Acyclic(s), NEW x
    PROVE  /\ Root(s, x) \in Over(s, x) /\ Root(s, x) \notin Bags
           /\ \A r \in Over(s, x) \ Bags : r = Root(s, x)
<1>1. CASE x \in Bags
  <2>1. PICK r \in Over(s, x) : r \notin Bags
    BY RootExists
  <2>2. r \in Around(s, x)
    BY <1>1, <2>1 DEF Over
  <2>3. Root(s, x) \in Around(s, x) /\ Root(s, x) \notin Bags
    BY <1>1, <2>1, <2>2 DEF Root
  <2>4. Root(s, x) \in Over(s, x)
    BY <1>1, <2>3 DEF Over
  <2> QED
    BY <2>3, <2>4, OneRoot
<1>2. CASE x \notin Bags
  BY <1>2, OverOther DEF Root
<1> QED
  BY <1>1, <1>2

\* It is the same for a bag and its place.
LEMMA RootOfPlace ==
    ASSUME NEW s, Acyclic(s), NEW x, NEW y \in Over(s, x) PROVE Root(s, y) = Root(s, x)
<1>1. Root(s, y) \in Over(s, x) \ Bags
  BY RootIs, OverOver
<1> QED
  BY <1>1, RootIs

LEMMA RootSame ==
    ASSUME NEW s, NEW r, Acyclic(s), Acyclic(r), NEW x, Over(r, x) = Over(s, x)
    PROVE  Root(r, x) = Root(s, x)
<1>1. Root(r, x) \in Over(s, x) \ Bags
  BY RootIs
<1> QED
  BY <1>1, RootIs

\* An item that lies nowhere is taken out of the bags.
LEMMA TakenOutAcyclic ==
    ASSUME NEW s, Acyclic(s), NEW r, NEW i, r.parent[i] \notin Bags,
           \A b \in Bags \ {i} : r.parent[b] = s.parent[b]
    PROVE  Acyclic(r)
<1>1. SUFFICES ASSUME NEW b \in Bags, b \in Over(r, r.parent[b]) PROVE FALSE
  BY DEF Acyclic
<1>2. b # i
  BY <1>1, OverOther
<1>3. Closed(r, Over(s, s.parent[b]) \cup {r.parent[i]})
  BY OverIsLeast DEF Closed
<1>4. Over(r, r.parent[b]) \subseteq Over(s, s.parent[b]) \cup {r.parent[i]}
  BY <1>1, <1>2, <1>3, OverIsLeast
<1>5. b \in Over(s, s.parent[b])
  <2>1. CASE b = r.parent[i]
    BY <2>1
  <2>2. CASE b # r.parent[i]
    BY <1>1, <1>4, <2>2
  <2> QED
    BY <2>1, <2>2
<1> QED
  BY <1>1, <1>5 DEF Acyclic

\* It may go into a place that it is not over.
LEMMA PutInAcyclic ==
    ASSUME NEW s, Acyclic(s), NEW r, NEW i, i \notin Over(s, r.parent[i]),
           \A b \in Bags \ {i} : r.parent[b] = s.parent[b]
    PROVE  Acyclic(r)
<1>1. SUFFICES ASSUME NEW b \in Bags, b \in Over(r, r.parent[b]) PROVE FALSE
  BY DEF Acyclic
<1>2. Over(r, r.parent[i]) = Over(s, r.parent[i])
  BY OverSame
<1>3. CASE b = i
  BY <1>1, <1>2, <1>3
<1>4. CASE b # i
  <2>1. r.parent[b] = s.parent[b]
    BY <1>1, <1>4
  <2>2. i \in Over(s, s.parent[b])
    <3>1. SUFFICES ASSUME i \notin Over(s, s.parent[b]) PROVE FALSE
      OBVIOUS
    <3>2. Over(r, s.parent[b]) = Over(s, s.parent[b])
      BY <3>1, OverSame
    <3> QED
      BY <1>1, <2>1, <3>2 DEF Acyclic
  <2>3. Closed(r, Over(s, s.parent[b]) \cup Over(s, r.parent[i]))
    BY OverIsLeast DEF Closed
  <2>4. Over(r, s.parent[b]) \subseteq Over(s, s.parent[b]) \cup Over(s, r.parent[i])
    BY <2>3, OverIsLeast
  <2>5. b \in Over(s, r.parent[i])
    BY <1>1, <2>1, <2>4 DEF Acyclic
  <2>6. s.parent[b] \in Over(s, r.parent[i])
    BY <1>1, <2>5, OverIsLeast DEF Closed
  <2> QED
    BY <2>2, <2>6, OverOver
<1> QED
  BY <1>3, <1>4

-----------------------------------------------------------------------------
(***************************************************************************)
(* Weights.                                                                *)
(***************************************************************************)
Stores ==
    [parent : [Items -> Places \cup {Nothing}], slot : [Items -> Slots \cup {0}],
     count : [Items -> Nat], load : [Bags -> Int], carried : [Carriers -> Int],
     open : [Carriers -> [Windows -> Bags \cup {Nothing}]]]

\* What each item adds to the weight of x.
Pull(s, x) == [i \in Items |-> IF s.parent[i] = x THEN WeightOf(s, i) ELSE 0]

LEMMA WeightTyped == ASSUME NEW s \in Stores, NEW i \in Items PROVE WeightOf(s, i) \in Int
<1>1. Weight[i] \in Nat /\ s.count[i] \in Nat
  BY InventoryAssumption DEF Stores
<1>2. Weight[i] * s.count[i] \in Int
  BY <1>1
<1>3. i \in Bags => s.load[i] \in Int
  BY DEF Stores
<1> QED
  BY <1>1, <1>2, <1>3 DEF WeightOf

LEMMA PullTyped == ASSUME NEW s \in Stores, NEW x PROVE AllIntegers(Pull(s, x), Items)
  BY WeightTyped DEF Pull, AllIntegers

LEMMA ItemsFinite == IsFiniteSet(Items) /\ IsFiniteSet(Bags) /\ IsFiniteSet(Stacks)
  BY InventoryAssumption, FS_Subset DEF Items

\* The weight in x is the sum of these.
LEMMA WeightInIs ==
    ASSUME NEW s \in Stores, NEW x
    PROVE  WeightIn(s, x) = Total(Pull(s, x), Items) /\ WeightIn(s, x) \in Int
<1>1. PICK C : C = Contents(s, x)
  OBVIOUS
<1>2. PICK w : w = [i \in C |-> WeightOf(s, i)]
  OBVIOUS
<1>3. WeightIn(s, x) = Total(w, C)
  BY <1>1, <1>2 DEF WeightIn, Summed, Total
<1>4. C \in SUBSET Items
  BY <1>1 DEF Contents
<1>5. AllIntegers(w, C)
  BY <1>2, <1>4, WeightTyped DEF AllIntegers
<1>6. PICK g : g = Pull(s, x)
  OBVIOUS
<1>7. \A i \in Items : g[i] = IF i \in C THEN w[i] ELSE 0
  BY <1>1, <1>2, <1>6 DEF Pull, Contents
<1>8. Total(g, Items) = Total(w, C)
  BY <1>4, <1>5, <1>7, ItemsFinite, TotalWhere
<1>9. AllIntegers(g, Items)
  BY <1>6, PullTyped
<1>10. Total(g, Items) \in Int
  BY <1>9, ItemsFinite, TotalInt
<1> QED
  BY <1>3, <1>6, <1>8, <1>10

\* It depends on where things are, on how many, and on what is in the bags.
LEMMA WeightInSame ==
    ASSUME NEW s \in Stores, NEW r \in Stores, NEW x,
           r.parent = s.parent, r.count = s.count, r.load = s.load
    PROVE  WeightIn(r, x) = WeightIn(s, x)
<1>1. Pull(r, x) = Pull(s, x)
  BY DEF Pull, WeightOf
<1> QED
  BY <1>1, WeightInIs

\* What is over x, and only that, is heavier by w.
Heavier(s, r, x, w) ==
    \A c \in Bags \cup Carriers :
        WeightIn(r, c) = WeightIn(s, c) + (IF c \in Over(s, x) THEN w ELSE 0)

LoadsMore(s, r, x, w) ==
    \A c \in Bags : r.load[c] = s.load[c] + (IF c \in Over(s, x) THEN w ELSE 0)

\* One item more, fewer or of another count in x makes all that is over x
\* heavier, if the bags over x remember it.
LEMMA HeavierByOne ==
    ASSUME NEW s \in Stores, NEW r \in Stores, Acyclic(s), NEW x, NEW w \in Int,
           LoadsMore(s, r, x, w), NEW i \in Items, i \notin Over(s, x),
           \A j \in Items \ {i} : r.parent[j] = s.parent[j] /\ r.count[j] = s.count[j],
           \A y \in Bags \cup Carriers :
              Pull(r, y)[i] = Pull(s, y)[i] + (IF y = x THEN w ELSE 0)
    PROVE  Heavier(s, r, x, w)
<1>1. SUFFICES ASSUME NEW c \in Bags \cup Carriers
               PROVE  WeightIn(r, c) = WeightIn(s, c) + (IF c \in Over(s, x) THEN w ELSE 0)
  BY DEF Heavier
<1>2. PICK u, v : u = Pull(s, c) /\ v = Pull(r, c)
  OBVIOUS
<1>3. AllIntegers(u, Items) /\ AllIntegers(v, Items)
  BY <1>2, PullTyped
<1>4. WeightIn(s, c) = Total(u, Items) /\ WeightIn(r, c) = Total(v, Items)
      /\ Total(u, Items) \in Int
  BY <1>2, WeightInIs
<1>5. ASSUME NEW j \in Items \ {i}
      PROVE  v[j] = u[j] + (IF j \in Bags /\ j \in Over(s, x) /\ s.parent[j] = c THEN w ELSE 0)
  <2>1. CASE s.parent[j] # c
    BY <1>2, <1>3, <2>1 DEF Pull, AllIntegers
  <2>2. CASE s.parent[j] = c
    <3>1. u[j] = WeightOf(s, j) /\ v[j] = WeightOf(r, j)
      BY <1>2, <2>2 DEF Pull
    <3>2. CASE j \in Bags
      <4>1. r.load[j] = s.load[j] + (IF j \in Over(s, x) THEN w ELSE 0)
        BY <3>2 DEF LoadsMore
      <4>2. s.load[j] \in Int /\ Weight[j] \in Int
        BY <3>2, InventoryAssumption DEF Stores
      <4> QED
        BY <2>2, <3>1, <3>2, <4>1, <4>2 DEF WeightOf
    <3>3. CASE j \notin Bags
      BY <1>3, <3>1, <3>3 DEF WeightOf, AllIntegers
    <3> QED
      BY <3>2, <3>3
  <2> QED
    BY <2>1, <2>2
<1>6. v[i] = u[i] + (IF c = x THEN w ELSE 0)
  BY <1>1, <1>2
<1>7. CASE c = x
  <2>1. ASSUME NEW j \in Items \ {i} PROVE v[j] = u[j]
    <3>1. ~(j \in Bags /\ j \in Over(s, x) /\ s.parent[j] = c)
      <4>1. SUFFICES ASSUME j \in Bags, j \in Over(s, x), s.parent[j] = x PROVE FALSE
        BY <1>7
      <4> QED
        BY <4>1 DEF Acyclic
    <3> QED
      BY <1>3, <1>5, <3>1 DEF AllIntegers
  <2>2. Total(v, Items) = Total(u, Items) - u[i] + v[i]
    BY <1>3, <2>1, ItemsFinite, TotalMoved
  <2>3. u[i] \in Int /\ c \in Over(s, x)
    BY <1>3, <1>7, OverIsLeast DEF AllIntegers
  <2> QED
    BY <1>4, <1>6, <1>7, <2>2, <2>3
<1>8. CASE c # x /\ c \in Over(s, x)
  <2>1. PICK d \in Over(s, x) \cap Bags : s.parent[d] = c
    BY <1>8, WayDown
  <2>2. d \in Items \ {i}
    BY <2>1 DEF Items
  <2>3. v[d] = u[d] + w
    BY <1>5, <2>1, <2>2
  <2>4. ASSUME NEW j \in Items \ {d} PROVE v[j] = u[j]
    <3>1. CASE j = i
      BY <1>3, <1>6, <1>8, <3>1 DEF AllIntegers
    <3>2. CASE j # i
      <4>1. ~(j \in Bags /\ j \in Over(s, x) /\ s.parent[j] = c)
        BY <2>1, <2>4, OneWayDown
      <4> QED
        BY <1>3, <1>5, <3>2, <4>1 DEF AllIntegers
    <3> QED
      BY <3>1, <3>2
  <2>5. Total(v, Items) = Total(u, Items) - u[d] + v[d]
    BY <1>3, <2>2, <2>4, ItemsFinite, TotalMoved
  <2>6. u[d] \in Int
    BY <1>3, <2>2 DEF AllIntegers
  <2> QED
    BY <1>4, <1>8, <2>3, <2>5, <2>6
<1>9. CASE c # x /\ c \notin Over(s, x)
  <2>1. ASSUME NEW j \in Items PROVE v[j] = u[j]
    <3>1. CASE j = i
      BY <1>3, <1>6, <1>9, <3>1 DEF AllIntegers
    <3>2. CASE j # i
      <4>1. ~(j \in Bags /\ j \in Over(s, x) /\ s.parent[j] = c)
        BY <1>9, OverIsLeast DEF Closed
      <4> QED
        BY <1>3, <1>5, <3>2, <4>1 DEF AllIntegers
    <3> QED
      BY <3>1, <3>2
  <2>2. Total(v, Items) = Total(u, Items)
    BY <2>1, ItemsFinite, TotalSame
  <2> QED
    BY <1>4, <1>9, <2>2
<1> QED
  BY <1>7, <1>8, <1>9

-----------------------------------------------------------------------------
(***************************************************************************)
(* What is so between any two steps of a handler.  Nothing is in a thing   *)
(* that lies nowhere but in those of E, and what the players of D carry    *)
(* may be other than they remember.                                        *)
(***************************************************************************)
WornApart(s) ==
    /\ \A i, j \in Items : /\ s.parent[i] = s.parent[j] /\ s.slot[i] = s.slot[j]
                           /\ s.parent[i] \in Carriers
                           => i = j
    /\ \A i \in Items : s.parent[i] \in Carriers <=> s.slot[i] # 0

Counts(s) ==
    \A i \in Items : /\ s.count[i] = 0 <=> s.parent[i] = Nothing
                     /\ i \notin Stacks => s.count[i] <= 1

Weighed(s) == \A b \in Bags : s.load[b] = WeightIn(s, b)

NoneAdrift(s, E) ==
    \A j \in Items : s.parent[j] \in Bags \ E => s.parent[s.parent[j]] # Nothing

Remembered(s, D) == \A p \in Carriers \ D : s.carried[p] = WeightIn(s, p)

Tidy(s, E, D) ==
    /\ s \in Stores /\ Acyclic(s) /\ WornApart(s) /\ Counts(s) /\ Weighed(s)
    /\ NoneAdrift(s, E) /\ Remembered(s, D)

-----------------------------------------------------------------------------
\* What is in b, at any depth.
BagsIn(s, b) == {j \in Bags : b \in Over(s, s.parent[j])}

\* No bag remembers a negative weight.
LEMMA LoadsNat ==
    ASSUME NEW s \in Stores, Acyclic(s), Weighed(s)
    PROVE  /\ \A b \in Bags : s.load[b] \in Nat
           /\ \A i \in Items : WeightOf(s, i) \in Nat
           /\ \A x : WeightIn(s, x) \in Nat
<1>1. ASSUME NEW i \in Items, i \in Bags => s.load[i] \in Nat PROVE WeightOf(s, i) \in Nat
  <2>1. Weight[i] \in Nat /\ s.count[i] \in Nat
    BY InventoryAssumption DEF Stores
  <2>2. Weight[i] * s.count[i] \in Nat
    BY <2>1
  <2> QED
    BY <1>1, <2>1, <2>2 DEF WeightOf
<1>2. ASSUME NEW x, \A i \in Items : s.parent[i] = x => WeightOf(s, i) \in Nat
      PROVE  WeightIn(s, x) \in Nat
  <2>1. Pull(s, x) \in [Items -> Nat]
    BY <1>2 DEF Pull
  <2>2. Total(Pull(s, x), Items) \in Nat
    BY <2>1, ItemsFinite, TotalNat
  <2> QED
    BY <2>2, WeightInIs
<1>3. ASSUME NEW a \in Bags, s.load[a] \notin Nat PROVE FALSE
  <2> DEFINE T == {BagsIn(s, b) : b \in {c \in Bags : s.load[c] \notin Nat}}
  <2>1. PICK o \in T : \A t \in T : t \subseteq o => t = o
    <3>1. T \in SUBSET SUBSET Bags /\ T # {}
      BY <1>3 DEF BagsIn
    <3> HIDE DEF T
    <3> QED
      BY <3>1, ItemsFinite, SmallestSet
  <2>2. PICK b \in Bags : s.load[b] \notin Nat /\ o = BagsIn(s, b)
    BY <2>1
  <2>3. PICK j \in Items : s.parent[j] = b /\ WeightOf(s, j) \notin Nat
    BY <1>2, <2>2 DEF Weighed
  <2>4. j \in Bags /\ s.load[j] \notin Nat
    BY <1>1, <2>3
  <2>5. BagsIn(s, j) \in T
    BY <2>4
  <2>6. BagsIn(s, j) \subseteq BagsIn(s, b)
    BY <2>3, <2>4, OverIsLeast DEF BagsIn, Closed
  <2>7. j \in BagsIn(s, b) /\ j \notin BagsIn(s, j)
    BY <2>3, <2>4, OverIsLeast DEF BagsIn, Acyclic
  <2> QED
    BY <2>1, <2>2, <2>5, <2>6, <2>7
<1>4. \A b \in Bags : s.load[b] \in Nat
  BY <1>3
<1>5. \A i \in Items : WeightOf(s, i) \in Nat
  BY <1>1, <1>4
<1> QED
  BY <1>2, <1>4, <1>5

\* Only places are over a place.
LEMMA OverPlaces ==
    ASSUME NEW s \in Stores, NEW x \in Places \cup {Nothing}
    PROVE  Over(s, x) \subseteq Places \cup {Nothing}
<1>1. Closed(s, Places \cup {Nothing})
  BY DEF Closed, Stores, Items
<1> QED
  BY <1>1, OverIsLeast

\* An item is not over the place where it is.
LEMMA NotOverItself ==
    ASSUME NEW s \in Stores, Acyclic(s), NEW i \in Items PROVE i \notin Over(s, s.parent[i])
<1>1. CASE i \in Bags
  BY <1>1 DEF Acyclic
<1>2. CASE i \notin Bags
  <2>1. Over(s, s.parent[i]) \subseteq Places \cup {Nothing}
    BY OverPlaces DEF Stores
  <2>2. i \notin Places \cup {Nothing}
    BY <1>2, InventoryAssumption DEF Places, Items
  <2> QED
    BY <2>1, <2>2
<1> QED
  BY <1>1, <1>2

LEMMA AcyclicSame ==
    ASSUME NEW s, Acyclic(s), NEW r, \A b \in Bags : r.parent[b] = s.parent[b] PROVE Acyclic(r)
<1>1. ASSUME NEW b \in Bags PROVE Over(r, r.parent[b]) = Over(s, s.parent[b])
  BY OverSame
<1> QED
  BY <1>1 DEF Acyclic

\* What updateItemWeight does to the bags over a place.
Loading(s, x, w) == IF x \in Bags THEN UpdateItemWeight(s, x, w) ELSE s

LEMMA LoadingIs ==
    ASSUME NEW s \in Stores, NEW x, NEW w \in Int, NEW t, t = Loading(s, x, w)
    PROVE  /\ t \in Stores /\ LoadsMore(s, t, x, w)
           /\ t.parent = s.parent /\ t.slot = s.slot /\ t.count = s.count
           /\ t.carried = s.carried /\ t.open = s.open
<1>1. CASE x \in Bags
  <2>1. t = [s EXCEPT !.load = [c \in Bags |-> IF c = x \/ c \in Around(s, x)
                                               THEN s.load[c] + w ELSE s.load[c]]]
    BY <1>1 DEF Loading, UpdateItemWeight
  <2>2. /\ t.load = [c \in Bags |-> IF c = x \/ c \in Around(s, x)
                                    THEN s.load[c] + w ELSE s.load[c]]
        /\ t.parent = s.parent /\ t.slot = s.slot /\ t.count = s.count
        /\ t.carried = s.carried /\ t.open = s.open
    BY <2>1 DEF Stores
  <2>3. \A c \in Bags : s.load[c] \in Int
    BY DEF Stores
  <2>4. t.load \in [Bags -> Int]
    BY <2>2, <2>3
  <2>5. t \in Stores
    BY <2>1, <2>4 DEF Stores
  <2>6. LoadsMore(s, t, x, w)
    BY <1>1, <2>2, <2>3 DEF LoadsMore, Over
  <2> QED
    BY <2>2, <2>5, <2>6
<1>2. CASE x \notin Bags
  <2>1. \A c \in Bags : c \notin Over(s, x) /\ s.load[c] \in Int
    BY <1>2, OverOther DEF Stores
  <2> QED
    BY <1>2, <2>1 DEF LoadsMore, Loading
<1> QED
  BY <1>1, <1>2

-----------------------------------------------------------------------------
\* What n of i weigh.
Portion(s, i, n) == IF i \in Stacks THEN Weight[i] * n ELSE WeightOf(s, i)

LEMMA PortionNat ==
    ASSUME NEW s, NEW E, NEW D, Tidy(s, E, D), NEW i \in Items, NEW n \in Nat
    PROVE  /\ Portion(s, i, n) \in Nat
           /\ \A m \in 0..n : Portion(s, i, m) \in Nat /\ Portion(s, i, m) <= Portion(s, i, n)
<1>1. Weight[i] \in Nat
  BY InventoryAssumption
<1>2. WeightOf(s, i) \in Nat
  BY LoadsNat DEF Tidy
<1>3. ASSUME NEW m \in 0..n PROVE Weight[i] * m \in Nat /\ Weight[i] * m <= Weight[i] * n
  <2>1. PICK a \in Nat, d \in Nat : a = Weight[i] /\ d = n - m
    BY <1>1
  <2>2. a * n = a * m + a * d /\ a * d \in Nat /\ a * m \in Nat
    <3>1. n = m + d
      BY <2>1
    <3>2. a * (m + d) = a * m + a * d
      BY ONLY a \in Nat, m \in 0..n, d \in Nat, n \in Nat
    <3> QED
      BY <3>1, <3>2
  <2> QED
    BY <2>1, <2>2
<1> QED
  BY <1>2, <1>3 DEF Portion

\* What is taken from its place, and what it leaves.
Removed(s, r, i, n) ==
    /\ r.count = [s.count EXCEPT ![i] = @ - n]
    /\ r.parent = IF n < s.count[i] THEN s.parent ELSE [s.parent EXCEPT ![i] = Nothing]
    /\ r.slot = IF n < s.count[i] THEN s.slot ELSE [s.slot EXCEPT ![i] = 0]
    /\ r.carried = s.carried /\ r.open = s.open

LEMMA RemovedIs ==
    ASSUME NEW s \in Stores, NEW x, NEW i \in Items, NEW n \in 1..s.count[i], NEW r,
           r = RemoveThing(s, x, i, n), Portion(s, i, n) \in Int
    PROVE  r \in Stores /\ Removed(s, r, i, n) /\ LoadsMore(s, r, x, -Portion(s, i, n))
<1>1. PICK w \in Int : w = Portion(s, i, n)
  OBVIOUS
<1>2. PICK t : t = Loading(s, x, -w)
  OBVIOUS
<1>3. /\ t \in Stores /\ LoadsMore(s, t, x, -w)
      /\ t.parent = s.parent /\ t.slot = s.slot /\ t.count = s.count
      /\ t.carried = s.carried /\ t.open = s.open
  <2>1. PICK v \in Int : v = -w
    OBVIOUS
  <2>2. t = Loading(s, x, v)
    BY <1>2, <2>1
  <2>3. /\ t \in Stores /\ LoadsMore(s, t, x, v)
        /\ t.parent = s.parent /\ t.slot = s.slot /\ t.count = s.count
        /\ t.carried = s.carried /\ t.open = s.open
    BY <2>2, LoadingIs
  <2> QED
    BY <2>1, <2>3
<1>4. s.count[i] \in Nat
  BY DEF Stores
<1>5. r = IF n < s.count[i] THEN [t EXCEPT !.count[i] = @ - n]
          ELSE [t EXCEPT !.count[i] = 0, !.parent[i] = Nothing, !.slot[i] = 0]
  BY <1>1, <1>2 DEF RemoveThing, Portion, Loading
<1>6. CASE n < s.count[i]
  <2>1. /\ r.count = [s.count EXCEPT ![i] = @ - n] /\ r.parent = s.parent /\ r.slot = s.slot
        /\ r.carried = s.carried /\ r.open = s.open /\ r.load = t.load
    BY <1>3, <1>5, <1>6 DEF Stores
  <2>2. r.count \in [Items -> Nat]
    BY <1>4, <1>6, <2>1 DEF Stores
  <2>3. r \in Stores
    BY <1>3, <1>5, <1>6, <2>1, <2>2 DEF Stores
  <2> QED
    BY <1>1, <1>3, <1>6, <2>1, <2>3 DEF Removed, LoadsMore
<1>7. CASE ~(n < s.count[i])
  <2>1. n = s.count[i]
    BY <1>4, <1>7
  <2>2. /\ r.count = [s.count EXCEPT ![i] = 0] /\ r.parent = [s.parent EXCEPT ![i] = Nothing]
        /\ r.slot = [s.slot EXCEPT ![i] = 0]
        /\ r.carried = s.carried /\ r.open = s.open /\ r.load = t.load
    BY <1>3, <1>5, <1>7 DEF Stores
  <2>3. r.count = [s.count EXCEPT ![i] = @ - n]
    <3>1. s.count[i] - n = 0
      BY <1>4, <2>1
    <3> QED
      BY <2>2, <3>1 DEF Stores
  <2>4. /\ r.count \in [Items -> Nat] /\ r.parent \in [Items -> Places \cup {Nothing}]
        /\ r.slot \in [Items -> Slots \cup {0}]
    BY <2>2 DEF Stores
  <2>5. r \in Stores
    BY <1>3, <1>5, <1>7, <2>2, <2>4 DEF Stores
  <2> QED
    BY <1>1, <1>3, <1>7, <2>2, <2>3, <2>5 DEF Removed, LoadsMore
<1> QED
  BY <1>6, <1>7

\* Whatever keeps the weights right keeps the rest of what is remembered.
LEMMA WeighedOn ==
    ASSUME NEW s, NEW E, NEW D, Tidy(s, E, D), NEW r \in Stores, NEW x, NEW w \in Int,
           LoadsMore(s, r, x, w), Heavier(s, r, x, w), r.carried = s.carried
    PROVE  Weighed(r) /\ Remembered(r, D \cup Over(s, x))
<1>1. ASSUME NEW b \in Bags PROVE r.load[b] = WeightIn(r, b)
  BY DEF Tidy, Weighed, LoadsMore, Heavier
<1>2. ASSUME NEW p \in Carriers \ (D \cup Over(s, x)) PROVE r.carried[p] = WeightIn(r, p)
  <2>1. WeightIn(s, p) \in Int
    BY WeightInIs DEF Tidy
  <2>2. WeightIn(r, p) = WeightIn(s, p) + 0
    BY <1>2 DEF Heavier
  <2> QED
    BY <1>2, <2>1, <2>2 DEF Tidy, Remembered
<1> QED
  BY <1>1, <1>2 DEF Weighed, Remembered

\* removeThing keeps all in order but what is in i, if i is gone.
LEMMA RemoveKeeps ==
    ASSUME NEW s, NEW E, NEW D, Tidy(s, E, D), NEW i \in Items, NEW x \in Places,
           s.parent[i] = x, NEW n \in 1..s.count[i], NEW r, r = RemoveThing(s, x, i, n)
    PROVE  /\ Tidy(r, E \cup {i}, D \cup Over(s, x)) /\ Removed(s, r, i, n)
           /\ Heavier(s, r, x, -Portion(s, i, n)) /\ LoadsMore(s, r, x, -Portion(s, i, n))
           /\ n < s.count[i] => i \in Stacks
<1>1. s \in Stores /\ Acyclic(s) /\ s.count[i] \in Nat /\ n \in Nat
  BY DEF Tidy, Stores
<1>2. PICK w \in Nat : w = Portion(s, i, n)
  BY <1>1, PortionNat
<1>3. r \in Stores /\ Removed(s, r, i, n) /\ LoadsMore(s, r, x, -w)
  BY <1>1, <1>2, RemovedIs
<1>4. n < s.count[i] => i \in Stacks
  BY <1>1 DEF Tidy, Counts
<1>5. i \notin Over(s, x)
  BY <1>1, NotOverItself
<1>6. ASSUME NEW j \in Items \ {i}
      PROVE  r.parent[j] = s.parent[j] /\ r.count[j] = s.count[j] /\ r.slot[j] = s.slot[j]
  BY <1>1, <1>3 DEF Removed, Stores
<1>7. n < s.count[i] => r.parent[i] = x /\ r.slot[i] = s.slot[i]
  BY <1>3 DEF Removed
<1>8. ~(n < s.count[i]) => r.parent[i] = Nothing /\ r.slot[i] = 0 /\ n = s.count[i]
  <2>1. SUFFICES ASSUME ~(n < s.count[i])
                 PROVE  r.parent[i] = Nothing /\ r.slot[i] = 0 /\ n = s.count[i]
    OBVIOUS
  <2>2. r.parent = [s.parent EXCEPT ![i] = Nothing] /\ r.slot = [s.slot EXCEPT ![i] = 0]
    BY <1>3, <2>1 DEF Removed
  <2>3. DOMAIN s.parent = Items /\ DOMAIN s.slot = Items
    BY <1>1 DEF Stores
  <2> QED
    BY <1>1, <2>1, <2>2, <2>3
<1>9. r.count[i] = s.count[i] - n
  BY <1>1, <1>3 DEF Removed, Stores
<1>10. Nothing \notin Bags \cup Carriers /\ Nothing # x /\ Weight[i] \in Nat
  BY InventoryAssumption DEF Places, Items
<1>11. ASSUME NEW y \in Bags \cup Carriers
       PROVE  Pull(r, y)[i] = Pull(s, y)[i] + (IF y = x THEN -w ELSE 0)
  <2>1. CASE y # x
    <3>1. Pull(s, y)[i] = 0 /\ Pull(r, y)[i] = 0
      BY <1>7, <1>8, <1>10, <1>11, <2>1 DEF Pull
    <3> QED
      BY <2>1, <3>1
  <2>2. CASE y = x
    <3>1. Pull(s, y)[i] = WeightOf(s, i)
      BY <2>2 DEF Pull
    <3>2. CASE n < s.count[i]
      <4>1. i \in Stacks /\ i \notin Bags
        BY <1>4, <3>2, InventoryAssumption
      <4>2. Pull(r, y)[i] = Weight[i] * (s.count[i] - n)
        BY <1>7, <1>9, <2>2, <3>2, <4>1 DEF Pull, WeightOf
      <4>3. Pull(s, y)[i] = Weight[i] * s.count[i] /\ w = Weight[i] * n
        BY <1>2, <3>1, <4>1 DEF WeightOf, Portion
      <4>4. PICK a \in Nat, c \in Nat : a = Weight[i] /\ c = s.count[i]
        BY <1>1, <1>10
      <4>5. a * (c - n) = a * c - a * n
        BY ONLY a \in Nat, c \in Nat, n \in Nat
      <4>6. a * c \in Nat /\ a * n \in Nat
        BY ONLY a \in Nat, c \in Nat, n \in Nat
      <4> QED
        BY <2>2, <4>2, <4>3, <4>4, <4>5, <4>6
    <3>3. CASE ~(n < s.count[i])
      <4>1. Pull(r, y)[i] = 0
        BY <1>8, <1>10, <2>2, <3>3 DEF Pull
      <4>2. w = WeightOf(s, i)
        <5>1. i \in Stacks => i \notin Bags
          BY InventoryAssumption
        <5> QED
          BY <1>2, <1>8, <3>3, <5>1 DEF Portion, WeightOf
      <4> QED
        BY <2>2, <3>1, <4>1, <4>2
    <3> QED
      BY <3>2, <3>3
  <2> QED
    BY <2>1, <2>2
<1>12. Heavier(s, r, x, -w)
  <2>1. -w \in Int
    OBVIOUS
  <2> QED
    BY <1>1, <1>3, <1>5, <1>6, <1>11, <2>1, HeavierByOne
<1>13. Weighed(r) /\ Remembered(r, D \cup Over(s, x))
  <2>1. -w \in Int /\ r.carried = s.carried
    BY <1>3 DEF Removed
  <2> QED
    BY <1>3, <1>12, <2>1, WeighedOn
<1>14. Acyclic(r)
  <2>1. CASE n < s.count[i]
    <3>1. \A b \in Bags : r.parent[b] = s.parent[b]
      BY <1>3, <2>1 DEF Removed
    <3> QED
      BY <1>1, <3>1, AcyclicSame
  <2>2. CASE ~(n < s.count[i])
    <3>1. r.parent[i] \notin Bags /\ \A b \in Bags \ {i} : r.parent[b] = s.parent[b]
      BY <1>6, <1>8, <1>10, <2>2 DEF Items
    <3> QED
      BY <1>1, <3>1, TakenOutAcyclic
  <2> QED
    BY <2>1, <2>2
<1>15. WornApart(r)
  <2>1. WornApart(s)
    BY DEF Tidy
  <2>2. CASE n < s.count[i]
    <3>1. r.parent = s.parent /\ r.slot = s.slot
      BY <1>3, <2>2 DEF Removed
    <3> QED
      BY <2>1, <3>1 DEF WornApart
  <2>3. CASE ~(n < s.count[i])
    BY <1>6, <1>8, <1>10, <2>1, <2>3 DEF WornApart
  <2> QED
    BY <2>2, <2>3
<1>16. Counts(r)
  <2>1. ASSUME NEW j \in Items
        PROVE  (r.count[j] = 0 <=> r.parent[j] = Nothing) /\ (j \notin Stacks => r.count[j] <= 1)
    <3>1. (s.count[j] = 0 <=> s.parent[j] = Nothing) /\ (j \notin Stacks => s.count[j] <= 1)
      BY DEF Tidy, Counts
    <3>2. CASE j = i
      BY <1>1, <1>7, <1>8, <1>9, <1>10, <3>1, <3>2
    <3>3. CASE j # i
      BY <1>6, <3>1, <3>3
    <3> QED
      BY <3>2, <3>3
  <2> QED
    BY <2>1 DEF Counts
<1>17. NoneAdrift(r, E \cup {i})
  <2>1. SUFFICES ASSUME NEW j \in Items, r.parent[j] \in Bags \ (E \cup {i})
                 PROVE  r.parent[r.parent[j]] # Nothing
    BY DEF NoneAdrift
  <2>2. r.parent[j] = s.parent[j]
    BY <1>6, <1>7, <1>8, <1>10, <2>1
  <2>3. s.parent[s.parent[j]] # Nothing
    BY <2>1, <2>2 DEF Tidy, NoneAdrift
  <2> QED
    BY <1>6, <2>1, <2>2, <2>3 DEF Items
<1> QED
  BY <1>2, <1>3, <1>4, <1>12, <1>13, <1>14, <1>15, <1>16, <1>17 DEF Tidy

-----------------------------------------------------------------------------
\* What i weighs where there are n of it.
Gross(s, i, n) == IF i \in Bags THEN Weight[i] + s.load[i] ELSE Weight[i] * n

\* What is put into a place.
PutIn(s, r, x, k, i, n) ==
    /\ r.count = [s.count EXCEPT ![i] = n] /\ r.parent = [s.parent EXCEPT ![i] = x]
    /\ r.slot = [s.slot EXCEPT ![i] = k]
    /\ r.carried = s.carried /\ r.open = s.open

\* A place where i may go.
Free(s, x, k, i) ==
    /\ x \in Places /\ i \notin Over(s, x)
    /\ x \in Bags => s.parent[x] # Nothing
    /\ IF x \in Carriers THEN /\ k \in Slots
                              /\ \A j \in Items : s.parent[j] = x => s.slot[j] # k
       ELSE k = 0

LEMMA GrossNat ==
    ASSUME NEW s, NEW E, NEW D, Tidy(s, E, D), NEW i \in Items, NEW n \in Nat
    PROVE  Gross(s, i, n) \in Nat
<1>1. Weight[i] \in Nat /\ (i \in Bags => s.load[i] \in Nat)
  BY LoadsNat, InventoryAssumption DEF Tidy
<1>2. Weight[i] * n \in Nat
  BY <1>1
<1> QED
  BY <1>1, <1>2 DEF Gross

LEMMA AddedIs ==
    ASSUME NEW s \in Stores, NEW x \in Places, NEW k \in Slots \cup {0}, NEW i \in Items,
           NEW n \in Nat, i \notin Over(s, x), NEW r, r = AddThing(s, x, k, i, n),
           Gross(s, i, n) \in Int
    PROVE  r \in Stores /\ PutIn(s, r, x, k, i, n) /\ LoadsMore(s, r, x, Gross(s, i, n))
<1>1. PICK w \in Int : w = Gross(s, i, n)
  OBVIOUS
<1>2. PICK t : t = [s EXCEPT !.count[i] = n, !.parent[i] = x, !.slot[i] = k]
  OBVIOUS
<1>3. /\ t.count = [s.count EXCEPT ![i] = n] /\ t.parent = [s.parent EXCEPT ![i] = x]
      /\ t.slot = [s.slot EXCEPT ![i] = k] /\ t.load = s.load
      /\ t.carried = s.carried /\ t.open = s.open
  BY <1>2 DEF Stores
<1>4. /\ t.count \in [Items -> Nat] /\ t.parent \in [Items -> Places \cup {Nothing}]
      /\ t.slot \in [Items -> Slots \cup {0}]
  BY <1>3 DEF Stores
<1>5. t \in Stores
  BY <1>2, <1>3, <1>4 DEF Stores
<1>6. WeightOf(t, i) = w
  <2>1. t.count[i] = n
    BY <1>3 DEF Stores
  <2> QED
    BY <1>1, <1>3, <2>1 DEF WeightOf, Gross
<1>7. r = Loading(t, x, w)
  BY <1>2, <1>6 DEF AddThing, Loading
<1>8. /\ r \in Stores /\ LoadsMore(t, r, x, w)
      /\ r.parent = t.parent /\ r.slot = t.slot /\ r.count = t.count
      /\ r.carried = t.carried /\ r.open = t.open
  BY <1>5, <1>7, LoadingIs
<1>9. Over(t, x) = Over(s, x)
  <2>1. \A b \in Over(s, x) \cap Bags : t.parent[b] = s.parent[b]
    BY <1>3 DEF Stores, Items
  <2> QED
    BY <2>1, OverSame
<1>10. LoadsMore(s, r, x, w)
  BY <1>3, <1>8, <1>9 DEF LoadsMore
<1> QED
  BY <1>1, <1>3, <1>8, <1>10 DEF PutIn

\* addThing keeps all in order, and puts in order what is in i.
LEMMA AddKeeps ==
    ASSUME NEW s, NEW E, NEW D, Tidy(s, E, D), NEW i \in Items, s.parent[i] = Nothing,
           NEW x, NEW k, Free(s, x, k, i), NEW n \in Nat \ {0}, i \notin Stacks => n = 1,
           NEW r, r = AddThing(s, x, k, i, n)
    PROVE  /\ Tidy(r, E \ {i}, D \cup Over(s, x)) /\ PutIn(s, r, x, k, i, n)
           /\ Heavier(s, r, x, Gross(s, i, n)) /\ LoadsMore(s, r, x, Gross(s, i, n))
<1>1. s \in Stores /\ Acyclic(s) /\ s.count[i] \in Nat
  BY DEF Tidy, Stores
<1>2. /\ x \in Places /\ i \notin Over(s, x) /\ k \in Slots \cup {0}
      /\ x \in Bags => s.parent[x] # Nothing
      /\ x \in Carriers <=> k # 0
      /\ x \in Carriers => \A j \in Items : s.parent[j] = x => s.slot[j] # k
  BY InventoryAssumption DEF Free
<1>3. PICK w \in Nat : w = Gross(s, i, n)
  BY GrossNat
<1>4. r \in Stores /\ PutIn(s, r, x, k, i, n) /\ LoadsMore(s, r, x, w)
  <2>1. n \in Nat /\ Gross(s, i, n) \in Int
    BY <1>3
  <2>2. r \in Stores /\ PutIn(s, r, x, k, i, n) /\ LoadsMore(s, r, x, Gross(s, i, n))
    BY <1>1, <1>2, <2>1, AddedIs
  <2> QED
    BY <1>3, <2>2
<1>5. ASSUME NEW j \in Items \ {i}
      PROVE  r.parent[j] = s.parent[j] /\ r.count[j] = s.count[j] /\ r.slot[j] = s.slot[j]
  BY <1>1, <1>4 DEF PutIn, Stores
<1>6. r.parent[i] = x /\ r.slot[i] = k /\ r.count[i] = n
  BY <1>1, <1>4 DEF PutIn, Stores
<1>7. Nothing \notin Bags \cup Carriers /\ Nothing # x /\ Weight[i] \in Nat
  BY <1>2, InventoryAssumption DEF Places, Items
<1>8. i \in Bags => r.load[i] = s.load[i]
  <2>1. SUFFICES ASSUME i \in Bags PROVE r.load[i] = s.load[i]
    OBVIOUS
  <2>2. r.load[i] = s.load[i] + 0 /\ s.load[i] \in Int
    BY <1>1, <1>2, <1>4, <2>1 DEF LoadsMore, Stores
  <2> QED
    BY <2>2
<1>9. ASSUME NEW y \in Bags \cup Carriers
      PROVE  Pull(r, y)[i] = Pull(s, y)[i] + (IF y = x THEN w ELSE 0)
  <2>1. Pull(s, y)[i] = 0
    BY <1>7 DEF Pull
  <2>2. Pull(r, y)[i] = IF y = x THEN WeightOf(r, i) ELSE 0
    BY <1>6 DEF Pull
  <2>3. WeightOf(r, i) = w
    BY <1>3, <1>6, <1>8 DEF WeightOf, Gross
  <2> QED
    BY <2>1, <2>2, <2>3
<1>10. Heavier(s, r, x, w)
  <2>1. w \in Int
    OBVIOUS
  <2> QED
    BY <1>1, <1>2, <1>4, <1>5, <1>9, <2>1, HeavierByOne
<1>11. Weighed(r) /\ Remembered(r, D \cup Over(s, x))
  <2>1. w \in Int /\ r.carried = s.carried
    BY <1>4 DEF PutIn
  <2> QED
    BY <1>4, <1>10, <2>1, WeighedOn
<1>12. Acyclic(r)
  <2>1. i \notin Over(s, r.parent[i]) /\ \A b \in Bags \ {i} : r.parent[b] = s.parent[b]
    BY <1>2, <1>5, <1>6 DEF Items
  <2> QED
    BY <1>1, <2>1, PutInAcyclic
<1>13. WornApart(r)
  <2>1. WornApart(s)
    BY DEF Tidy
  <2>2. ASSUME NEW j \in Items, NEW h \in Items, r.parent[j] = r.parent[h],
               r.slot[j] = r.slot[h], r.parent[j] \in Carriers
        PROVE  j = h
    <3>1. CASE j = i
      BY <1>2, <1>5, <1>6, <2>2, <3>1
    <3>2. CASE h = i
      BY <1>2, <1>5, <1>6, <2>2, <3>2
    <3>3. CASE j # i /\ h # i
      BY <1>5, <2>1, <2>2, <3>3 DEF WornApart
    <3> QED
      BY <3>1, <3>2, <3>3
  <2>3. ASSUME NEW j \in Items PROVE r.parent[j] \in Carriers <=> r.slot[j] # 0
    BY <1>2, <1>5, <1>6, <2>1 DEF WornApart
  <2> QED
    BY <2>2, <2>3 DEF WornApart
<1>14. Counts(r)
  <2>1. ASSUME NEW j \in Items
        PROVE  (r.count[j] = 0 <=> r.parent[j] = Nothing) /\ (j \notin Stacks => r.count[j] <= 1)
    <3>1. (s.count[j] = 0 <=> s.parent[j] = Nothing) /\ (j \notin Stacks => s.count[j] <= 1)
      BY DEF Tidy, Counts
    <3>2. CASE j = i
      BY <1>6, <1>7, <3>2
    <3>3. CASE j # i
      BY <1>5, <3>1, <3>3
    <3> QED
      BY <3>2, <3>3
  <2> QED
    BY <2>1 DEF Counts
<1>15. NoneAdrift(r, E \ {i})
  <2>1. SUFFICES ASSUME NEW j \in Items, r.parent[j] \in Bags \ (E \ {i})
                 PROVE  r.parent[r.parent[j]] # Nothing
    BY DEF NoneAdrift
  <2>2. CASE r.parent[j] = i
    BY <1>6, <1>7, <2>2
  <2>3. CASE r.parent[j] # i
    <3>1. s.parent[r.parent[j]] # Nothing
      <4>1. CASE j = i
        BY <1>2, <1>6, <2>1, <4>1
      <4>2. CASE j # i
        BY <1>5, <2>1, <2>3, <4>2 DEF Tidy, NoneAdrift
      <4> QED
        BY <4>1, <4>2
    <3> QED
      BY <1>5, <2>1, <2>3, <3>1 DEF Items
  <2> QED
    BY <2>2, <2>3
<1> QED
  BY <1>3, <1>4, <1>10, <1>11, <1>12, <1>13, <1>14, <1>15 DEF Tidy

\* What is put on a stack.
PutOn(s, r, j, n) ==
    /\ r.count = [s.count EXCEPT ![j] = @ + n] /\ r.parent = s.parent /\ r.slot = s.slot
    /\ r.carried = s.carried /\ r.open = s.open

\* updateThing keeps all in order.
LEMMA MergeKeeps ==
    ASSUME NEW s, NEW E, NEW D, Tidy(s, E, D), NEW j \in Stacks, NEW x \in Places,
           s.parent[j] = x, NEW n \in Nat, NEW r, r = UpdateThing(s, x, j, n)
    PROVE  /\ Tidy(r, E, D \cup Over(s, x)) /\ PutOn(s, r, j, n)
           /\ Heavier(s, r, x, Weight[j] * n) /\ LoadsMore(s, r, x, Weight[j] * n)
<1>1. s \in Stores /\ Acyclic(s) /\ j \in Items /\ s.count[j] \in Nat /\ Weight[j] \in Nat
      /\ j \notin Bags
  BY InventoryAssumption DEF Tidy, Stores, Items
<1>2. PICK w \in Int : w = Weight[j] * n
  BY <1>1
<1>3. PICK t : t = [s EXCEPT !.count[j] = @ + n]
  OBVIOUS
<1>4. /\ t.count = [s.count EXCEPT ![j] = @ + n] /\ t.parent = s.parent /\ t.slot = s.slot
      /\ t.load = s.load /\ t.carried = s.carried /\ t.open = s.open
  BY <1>1, <1>3 DEF Stores
<1>5. t.count \in [Items -> Nat]
  BY <1>1, <1>4 DEF Stores
<1>6. t \in Stores
  BY <1>1, <1>3, <1>4, <1>5 DEF Stores
<1>7. r = Loading(t, x, w)
  BY <1>2, <1>3 DEF UpdateThing, Loading
<1>8. /\ r \in Stores /\ LoadsMore(t, r, x, w)
      /\ r.parent = t.parent /\ r.slot = t.slot /\ r.count = t.count
      /\ r.carried = t.carried /\ r.open = t.open
  BY <1>6, <1>7, LoadingIs
<1>9. Over(t, x) = Over(s, x)
  BY <1>4, OverSame
<1>10. LoadsMore(s, r, x, w) /\ PutOn(s, r, j, n)
  BY <1>4, <1>8, <1>9 DEF LoadsMore, PutOn
<1>11. r.count[j] = s.count[j] + n /\ \A h \in Items \ {j} : r.count[h] = s.count[h]
  BY <1>1, <1>10 DEF PutOn, Stores
<1>12. ASSUME NEW y \in Bags \cup Carriers
       PROVE  Pull(r, y)[j] = Pull(s, y)[j] + (IF y = x THEN w ELSE 0)
  <2>1. CASE y # x
    BY <1>1, <1>4, <1>8, <2>1 DEF Pull
  <2>2. CASE y = x
    <3>1. Pull(s, y)[j] = Weight[j] * s.count[j] /\ Pull(r, y)[j] = Weight[j] * (s.count[j] + n)
      BY <1>1, <1>4, <1>8, <1>11, <2>2 DEF Pull, WeightOf
    <3>2. PICK a \in Nat, c \in Nat : a = Weight[j] /\ c = s.count[j]
      BY <1>1
    <3>3. a * (c + n) = a * c + a * n
      BY ONLY a \in Nat, c \in Nat, n \in Nat
    <3>4. a * c \in Nat /\ a * n \in Nat
      BY ONLY a \in Nat, c \in Nat, n \in Nat
    <3> QED
      BY <1>2, <2>2, <3>1, <3>2, <3>3, <3>4
  <2> QED
    BY <2>1, <2>2
<1>13. j \notin Over(s, x)
  BY <1>1, NotOverItself
<1>14. Heavier(s, r, x, w)
  <2>1. \A h \in Items \ {j} : r.parent[h] = s.parent[h] /\ r.count[h] = s.count[h]
    BY <1>4, <1>8, <1>11
  <2> QED
    BY <1>1, <1>8, <1>10, <1>12, <1>13, <2>1, HeavierByOne
<1>15. Weighed(r) /\ Remembered(r, D \cup Over(s, x))
  <2>1. r.carried = s.carried
    BY <1>4, <1>8
  <2> QED
    BY <1>8, <1>10, <1>14, <2>1, WeighedOn
<1>16. Acyclic(r)
  BY <1>1, <1>4, <1>8, AcyclicSame
<1>17. WornApart(r) /\ NoneAdrift(r, E)
  BY <1>4, <1>8 DEF Tidy, WornApart, NoneAdrift
<1>18. Counts(r)
  <2>1. ASSUME NEW h \in Items
        PROVE  (r.count[h] = 0 <=> r.parent[h] = Nothing) /\ (h \notin Stacks => r.count[h] <= 1)
    <3>1. (s.count[h] = 0 <=> s.parent[h] = Nothing) /\ (h \notin Stacks => s.count[h] <= 1)
      BY DEF Tidy, Counts
    <3>2. Nothing # x
      BY InventoryAssumption DEF Places, Items
    <3>3. CASE h = j
      BY <1>1, <1>4, <1>8, <1>11, <3>1, <3>2, <3>3
    <3>4. CASE h # j
      BY <1>4, <1>8, <1>11, <3>1, <3>4
    <3> QED
      BY <3>3, <3>4
  <2> QED
    BY <2>1 DEF Counts
<1> QED
  BY <1>2, <1>8, <1>10, <1>14, <1>15, <1>16, <1>17, <1>18 DEF Tidy

-----------------------------------------------------------------------------
(***************************************************************************)
(* How much there is of everything, each counted as often as a says.       *)
(***************************************************************************)
Fair(a) == a \in [Items -> Nat] /\ \A i, j \in Stacks : a[i] = a[j]

Amount(a, s) == Total([i \in Items |-> a[i] * s.count[i]], Items)

LEMMA AmountChanged ==
    ASSUME NEW a \in [Items -> Nat], NEW s \in Stores, NEW r \in Stores, NEW i \in Items,
           NEW k \in Int, r.count[i] = s.count[i] + k,
           \A j \in Items \ {i} : r.count[j] = s.count[j]
    PROVE  Amount(a, r) = Amount(a, s) + a[i] * k /\ Amount(a, s) \in Int
<1>1. PICK u, v : u = [j \in Items |-> a[j] * s.count[j]] /\ v = [j \in Items |-> a[j] * r.count[j]]
  OBVIOUS
<1>2. \A j \in Items : a[j] \in Nat /\ s.count[j] \in Nat /\ r.count[j] \in Nat
  BY DEF Stores
<1>3. AllIntegers(u, Items) /\ AllIntegers(v, Items)
  BY <1>1, <1>2 DEF AllIntegers
<1>4. \A j \in Items \ {i} : v[j] = u[j]
  BY <1>1
<1>5. Total(v, Items) = Total(u, Items) - u[i] + v[i] /\ Total(u, Items) \in Int
  BY <1>3, <1>4, ItemsFinite, TotalMoved
<1>6. Amount(a, r) = Total(v, Items) /\ Amount(a, s) = Total(u, Items)
  BY <1>1 DEF Amount
<1>7. v[i] = u[i] + a[i] * k /\ u[i] \in Int /\ a[i] * k \in Int
  <2>1. PICK x \in Nat, c \in Nat : x = a[i] /\ c = s.count[i]
    BY <1>2
  <2>2. x * (c + k) = x * c + x * k /\ x * c \in Int /\ x * k \in Int
    BY ONLY x \in Nat, c \in Nat, k \in Int
  <2> QED
    BY <1>1, <2>1, <2>2
<1> QED
  BY <1>5, <1>6, <1>7

-----------------------------------------------------------------------------
(***************************************************************************)
(* A move.                                                                 *)
(***************************************************************************)
Movable(s, i, m, d, onto, moved) ==
    /\ i \in Items /\ s.parent[i] \in Places /\ m \in 1..s.count[i] /\ onto \in 0..m
    /\ d.to \in Places /\ i \notin Over(s, d.to) /\ (d.to \in Bags => s.parent[d.to] # Nothing)
    /\ onto > 0 => i \in Stacks /\ d.at \in Stacks \ {i} /\ s.parent[d.at] = d.to
    /\ onto < m =>
         /\ \/ m = s.count[i] /\ moved = i
            \/ m < s.count[i] /\ moved \in Stacks /\ s.parent[moved] = Nothing
         /\ IF d.to \in Carriers
            THEN d.slot \in Slots /\ \A j \in Items : s.parent[j] = d.to => s.slot[j] # d.slot
            ELSE d.slot = 0

\* What is over one place is lighter by what comes over another.
Shifted(s, r, x, y, w) ==
    \A c \in Carriers :
        WeightIn(r, c) = WeightIn(s, c) - (IF c \in Over(s, x) THEN w ELSE 0)
                                        + (IF c \in Over(s, y) THEN w ELSE 0)

\* i has left its place, and what moved is at d.
Relaid(s, r, i, onto, moved, d) ==
    /\ \A b \in Bags \ {i} : r.parent[b] = s.parent[b]
    /\ \A h \in Items \ {i, moved} :
         /\ r.parent[h] = s.parent[h] /\ r.slot[h] = s.slot[h]
         /\ h # d.at => r.count[h] = s.count[h]
    /\ moved = i /\ onto = 0 => r.parent[i] = d.to /\ r.slot[i] = d.slot
    /\ r.open = s.open

\* Nothing hangs in what is no bag.
LEMMA TidyWithout ==
    ASSUME NEW s, NEW E, NEW D, NEW i, i \notin Bags, Tidy(s, E \cup {i}, D)
    PROVE  Tidy(s, E, D)
<1>1. NoneAdrift(s, E)
  BY DEF Tidy, NoneAdrift
<1> QED
  BY <1>1 DEF Tidy

LEMMA CarryKeeps ==
    ASSUME NEW s, Tidy(s, {}, {}), NEW i, NEW m, NEW d, NEW onto, NEW moved,
           Movable(s, i, m, d, onto, moved), NEW r, r = Carry(s, i, m, d, onto, moved)
    PROVE  /\ Tidy(r, {}, Over(s, s.parent[i]) \cup Over(s, d.to))
           /\ Relaid(s, r, i, onto, moved, d)
           /\ Shifted(s, r, s.parent[i], d.to, Portion(s, i, m))
           /\ \A a : Fair(a) => Amount(a, r) = Amount(a, s)
<1>1. PICK x, y, k, j : x = s.parent[i] /\ y = d.to /\ k = d.slot /\ j = d.at
  OBVIOUS
<1>2. /\ i \in Items /\ x \in Places /\ m \in 1..s.count[i] /\ onto \in 0..m
      /\ y \in Places /\ i \notin Over(s, y) /\ (y \in Bags => s.parent[y] # Nothing)
      /\ onto > 0 => i \in Stacks /\ j \in Stacks \ {i} /\ s.parent[j] = y
      /\ onto < m =>
           /\ \/ m = s.count[i] /\ moved = i
              \/ m < s.count[i] /\ moved \in Stacks /\ s.parent[moved] = Nothing
           /\ IF y \in Carriers
              THEN k \in Slots /\ \A h \in Items : s.parent[h] = y => s.slot[h] # k
              ELSE k = 0
  BY <1>1 DEF Movable
<1>3. s \in Stores /\ Acyclic(s) /\ s.count[i] \in Nat /\ m \in Nat /\ onto \in Nat
  BY <1>2 DEF Tidy, Stores
<1>4. PICK o : o = RemoveThing(s, x, i, m)
  OBVIOUS
<1>5. /\ Tidy(o, {i}, Over(s, x)) /\ Removed(s, o, i, m)
      /\ Heavier(s, o, x, -Portion(s, i, m)) /\ LoadsMore(s, o, x, -Portion(s, i, m))
      /\ m < s.count[i] => i \in Stacks
  <2>1. /\ Tidy(o, {} \cup {i}, {} \cup Over(s, x)) /\ Removed(s, o, i, m)
        /\ Heavier(s, o, x, -Portion(s, i, m)) /\ LoadsMore(s, o, x, -Portion(s, i, m))
        /\ m < s.count[i] => i \in Stacks
    BY <1>1, <1>2, <1>4, RemoveKeeps
  <2>2. {} \cup {i} = {i} /\ {} \cup Over(s, x) = Over(s, x)
    OBVIOUS
  <2> QED
    BY <2>1, <2>2
<1>6. Nothing \notin Places /\ (i \in Stacks => i \notin Bags) /\ Stacks \subseteq Items
      /\ Stacks \cap Bags = {}
  BY InventoryAssumption DEF Places, Items
<1>7. Over(o, y) = Over(s, y)
  <2>1. \A b \in Over(s, y) \cap Bags : o.parent[b] = s.parent[b]
    <3>1. \A b \in Bags \ {i} : o.parent[b] = s.parent[b]
      BY <1>2, <1>3, <1>5 DEF Removed, Stores, Items
    <3> QED
      BY <1>2, <3>1
  <2> QED
    BY <2>1, OverSame
<1>8. PICK g \in Nat : g = Weight[i]
  BY <1>2, InventoryAssumption
<1>9. PICK w \in Nat : w = Portion(s, i, m)
  BY <1>2, <1>3, PortionNat
<1>10. PICK gz \in Nat : gz = g * onto
  BY <1>2, <1>3, <1>8
<1>11. PICK D : D = Over(s, x) \cup Over(s, y)
  OBVIOUS
<1>12. PICK u : u = IF onto > 0 THEN UpdateThing(o, y, j, onto) ELSE o
  OBVIOUS
<1>13. o.count = [s.count EXCEPT ![i] = @ - m] /\ o.carried = s.carried /\ o.open = s.open
       /\ o \in Stores /\ Acyclic(o)
  BY <1>5 DEF Removed, Tidy
<1>14. /\ Tidy(u, {i}, D) /\ Heavier(o, u, y, gz) /\ LoadsMore(o, u, y, gz)
       /\ u.parent = o.parent /\ u.slot = o.slot /\ u.open = o.open
       /\ u.count = IF onto > 0 THEN [o.count EXCEPT ![j] = @ + onto] ELSE o.count
  <2>1. CASE onto > 0
    <3>1. i \in Stacks /\ j \in Stacks /\ j # i /\ s.parent[j] = y
      BY <1>2, <2>1
    <3>2. o.parent[j] = y
      BY <1>2, <1>3, <1>5, <1>6, <3>1 DEF Removed, Stores
    <3>3. u = UpdateThing(o, y, j, onto)
      BY <1>12, <2>1
    <3>4. /\ Tidy(u, {i}, Over(s, x) \cup Over(o, y)) /\ PutOn(o, u, j, onto)
          /\ Heavier(o, u, y, Weight[j] * onto) /\ LoadsMore(o, u, y, Weight[j] * onto)
      BY <1>2, <1>3, <1>5, <3>1, <3>2, <3>3, MergeKeeps
    <3>5. Weight[j] * onto = gz
      BY <1>8, <1>10, <3>1, InventoryAssumption
    <3> QED
      BY <1>7, <1>11, <2>1, <3>4, <3>5 DEF PutOn
  <2>2. CASE ~(onto > 0)
    <3>1. onto = 0 /\ gz = 0 /\ u = o
      <4>1. onto = 0
        BY <1>3, <2>2
      <4>2. g * 0 = 0
        OBVIOUS
      <4> QED
        BY <1>10, <1>12, <2>2, <4>1, <4>2
    <3>2. Heavier(o, u, y, gz)
      <4>1. \A c : WeightIn(o, c) \in Int
        BY <1>13, WeightInIs
      <4> QED
        BY <3>1, <4>1 DEF Heavier
    <3>3. LoadsMore(o, u, y, gz)
      <4>1. \A c \in Bags : o.load[c] \in Int
        BY <1>13 DEF Stores
      <4> QED
        BY <3>1, <4>1 DEF LoadsMore
    <3>4. Tidy(u, {i}, D)
      <4>1. Remembered(o, D)
        BY <1>5, <1>11 DEF Tidy, Remembered
      <4> QED
        BY <1>5, <3>1, <4>1 DEF Tidy
    <3> QED
      BY <2>2, <3>1, <3>2, <3>3, <3>4
  <2> QED
    BY <2>1, <2>2
<1>15. Over(u, y) = Over(s, y)
  BY <1>7, <1>14, OverSame
<1>16. r = IF m > onto THEN AddThing(u, y, k, moved, m - onto) ELSE u
  BY <1>1, <1>4, <1>12 DEF Carry
<1>17. ASSUME NEW h \in Items PROVE s.count[h] \in Nat /\ o.count[h] \in Nat /\ u.count[h] \in Nat
  BY <1>3, <1>13, <1>14 DEF Tidy, Stores
<1>18. ASSUME NEW h \in Items \ {i}
       PROVE  u.parent[h] = s.parent[h] /\ u.slot[h] = s.slot[h]
              /\ (h # j \/ onto = 0 => u.count[h] = s.count[h])
  <2>1. o.parent[h] = s.parent[h] /\ o.slot[h] = s.slot[h] /\ o.count[h] = s.count[h]
    BY <1>3, <1>5 DEF Removed, Stores
  <2>2. u.parent[h] = s.parent[h] /\ u.slot[h] = s.slot[h]
    BY <1>14, <2>1
  <2>3. h # j \/ onto = 0 => u.count[h] = s.count[h]
    BY <1>13, <1>14, <2>1 DEF Stores
  <2> QED
    BY <2>2, <2>3
<1>19. /\ o.count[i] = s.count[i] - m
       /\ u.count[i] = o.count[i]
       /\ onto > 0 => u.count[j] = s.count[j] + onto /\ j \in Items \ {i}
  <2>1. o.count[i] = s.count[i] - m
    BY <1>2, <1>3, <1>5 DEF Removed, Stores
  <2>2. onto > 0 => j \in Items \ {i} /\ o.count[j] = s.count[j]
    BY <1>2, <1>3, <1>5, <1>6 DEF Removed, Stores
  <2> QED
    BY <1>2, <1>3, <1>13, <1>14, <2>1, <2>2 DEF Stores
<1>20. ASSUME NEW a, Fair(a)
       PROVE  Amount(a, u) = Amount(a, s) - a[i] * m + a[i] * onto
              /\ Amount(a, s) \in Int /\ a[i] \in Nat
  <2>1. a \in [Items -> Nat] /\ a[i] \in Nat /\ u \in Stores
    BY <1>2, <1>14, <1>20 DEF Fair, Tidy
  <2>2. PICK v \in Int : v = -m
    BY <1>3
  <2>3. Amount(a, o) = Amount(a, s) + a[i] * v /\ Amount(a, s) \in Int
    <3>1. o.count[i] = s.count[i] + v
      BY <1>2, <1>3, <1>17, <1>19, <2>2
    <3>2. \A h \in Items \ {i} : o.count[h] = s.count[h]
      BY <1>3, <1>13 DEF Stores
    <3> QED
      <4>1. s \in Stores /\ o \in Stores /\ i \in Items
        BY <1>2, <1>3, <1>13
      <4> QED
        BY <2>1, <2>2, <3>1, <3>2, <4>1, AmountChanged
  <2>4. Amount(a, u) = Amount(a, o) + a[i] * onto
    <3>1. CASE onto > 0
      <4>1. u.count[j] = o.count[j] + onto /\ j \in Items
        BY <1>13, <1>14, <1>19, <3>1 DEF Stores
      <4>2. \A h \in Items \ {j} : u.count[h] = o.count[h]
        BY <1>13, <1>14, <3>1 DEF Stores
      <4>3. Amount(a, u) = Amount(a, o) + a[j] * onto
        <5>1. o \in Stores /\ onto \in Int
          BY <1>3, <1>13
        <5> QED
          BY <2>1, <4>1, <4>2, <5>1, AmountChanged
      <4>4. a[j] = a[i]
        BY <1>2, <1>20, <3>1 DEF Fair
      <4> QED
        BY <4>3, <4>4
    <3>2. CASE ~(onto > 0)
      <4>1. onto = 0 /\ u = o
        BY <1>3, <1>12, <3>2
      <4>2. a[i] * 0 = 0
        BY <2>1
      <4>3. Amount(a, o) \in Int
        <5>1. a[i] * v \in Int
          BY <2>1, <2>2
        <5> QED
          BY <2>3, <5>1
      <4> QED
        BY <4>1, <4>2, <4>3
    <3> QED
      BY <3>1, <3>2
  <2>5. a[i] * v = -(a[i] * m) /\ a[i] * m \in Int /\ a[i] * onto \in Int
    <3>1. PICK b \in Nat : b = a[i]
      BY <2>1
    <3>2. b * v = -(b * m)
      <4>1. b * (m + v) = b * m + b * v /\ b * m \in Int /\ b * v \in Int
        BY ONLY <1>3, b \in Nat, v \in Int
      <4>2. m + v = 0 /\ b * 0 = 0
        BY <1>3, <2>2
      <4> QED
        BY <4>1, <4>2
    <3>3. b * m \in Int /\ b * onto \in Int
      BY <1>3
    <3> QED
      BY <3>1, <3>2, <3>3
  <2> QED
    BY <2>1, <2>3, <2>4, <2>5
<1>21. CASE onto = m
  <2>1. r = u /\ i \in Stacks
    BY <1>2, <1>3, <1>16, <1>21
  <2>2. w = gz
    BY <1>8, <1>9, <1>10, <1>21, <2>1 DEF Portion
  <2>3. Tidy(r, {}, D)
    <3>1. i \notin Bags /\ {} \cup {i} = {i}
      BY <1>6, <2>1
    <3> QED
      BY <1>14, <2>1, <3>1, TidyWithout
  <2>4. Relaid(s, r, i, onto, moved, d)
    <3>1. \A b \in Bags \ {i} : r.parent[b] = s.parent[b]
      BY <1>18, <2>1 DEF Items
    <3>2. \A h \in Items \ {i, moved} :
            /\ r.parent[h] = s.parent[h] /\ r.slot[h] = s.slot[h]
            /\ h # d.at => r.count[h] = s.count[h]
      BY <1>1, <1>18, <2>1
    <3>3. r.open = s.open /\ onto # 0
      BY <1>2, <1>3, <1>13, <1>14, <1>21, <2>1
    <3> QED
      BY <3>1, <3>2, <3>3 DEF Relaid
  <2>5. Shifted(s, r, x, y, w)
    <3>1. \A c : WeightIn(s, c) \in Int
      BY <1>3, WeightInIs
    <3> QED
      BY <1>5, <1>7, <1>9, <1>14, <2>1, <2>2, <3>1 DEF Heavier, Shifted
  <2>6. ASSUME NEW a, Fair(a) PROVE Amount(a, r) = Amount(a, s)
    <3>1. a[i] * m \in Int
      BY <1>3, <1>20, <2>6
    <3> QED
      BY <1>20, <1>21, <2>1, <2>6, <3>1
  <2> QED
    BY <1>1, <1>9, <1>11, <2>3, <2>4, <2>5, <2>6
<1>22. CASE onto < m
  <2>1. r = AddThing(u, y, k, moved, m - onto) /\ m - onto \in Nat \ {0}
    BY <1>3, <1>16, <1>22
  <2>2. PICK n \in Nat \ {0} : n = m - onto
    BY <2>1
  <2>3. \/ m = s.count[i] /\ moved = i
        \/ m < s.count[i] /\ moved \in Stacks /\ s.parent[moved] = Nothing /\ moved # i
    BY <1>1, <1>2, <1>6, <1>22
  <2>4. moved \in Items /\ (moved \notin Stacks => n = 1 /\ onto = 0 /\ moved = i)
    <3>1. i \notin Stacks => s.count[i] <= 1
      BY <1>2 DEF Tidy, Counts
    <3> QED
      BY <1>2, <1>3, <1>6, <2>2, <2>3, <3>1
  <2>5. u.parent[moved] = Nothing /\ u.count[moved] = 0
    <3>1. CASE moved = i
      <4>1. m = s.count[i]
        BY <1>2, <1>22, <2>3, <3>1
      <4>2. o.parent[i] = Nothing
        BY <1>2, <1>3, <1>5, <4>1 DEF Removed, Stores
      <4> QED
        BY <1>3, <1>14, <1>19, <3>1, <4>1, <4>2
    <3>2. CASE moved # i
      <4>1. s.parent[moved] = Nothing
        BY <2>3, <3>2
      <4>2. u.parent[moved] = Nothing
        BY <1>18, <2>4, <3>2, <4>1
      <4> QED
        BY <1>14, <2>4, <4>2 DEF Tidy, Counts
    <3> QED
      BY <3>1, <3>2
  <2>6. Free(u, y, k, moved)
    <3>1. moved \notin Over(u, y)
      <4>1. CASE moved = i
        BY <1>2, <1>15, <4>1
      <4>2. CASE moved # i
        <5>1. moved \in Stacks /\ moved \notin Places \cup {Nothing}
          BY <2>3, <4>2, InventoryAssumption DEF Places, Items
        <5> QED
          BY <1>2, <1>3, <1>15, <5>1, OverPlaces
      <4> QED
        BY <4>1, <4>2
    <3>2. y \in Bags => u.parent[y] # Nothing
      <4>1. y # i
        BY <1>2, OverIsLeast
      <4> QED
        BY <1>2, <1>18, <4>1 DEF Items
    <3>3. ASSUME y \in Carriers, NEW h \in Items, u.parent[h] = y PROVE u.slot[h] # k
      <4>1. CASE h = i
        <5>1. m < s.count[i]
          <6>1. ~(m = s.count[i])
            <7>1. SUFFICES ASSUME m = s.count[i] PROVE FALSE
              OBVIOUS
            <7>2. o.parent[i] = Nothing
              BY <1>2, <1>3, <1>5, <7>1 DEF Removed, Stores
            <7> QED
              BY <1>2, <1>6, <1>14, <3>3, <4>1, <7>2
          <6> QED
            BY <2>3, <6>1
        <5>2. o.parent = s.parent /\ o.slot = s.slot
          BY <1>5, <5>1 DEF Removed
        <5> QED
          BY <1>2, <1>14, <1>22, <3>3, <4>1, <5>2
      <4>2. CASE h # i
        BY <1>2, <1>18, <1>22, <3>3, <4>2
      <4> QED
        BY <4>1, <4>2
    <3> QED
      BY <1>2, <1>22, <3>1, <3>2, <3>3 DEF Free
  <2>7. PICK z \in Nat : z = Gross(u, moved, n)
    BY <1>14, <2>2, <2>4, GrossNat
  <2>8. /\ Tidy(r, {i} \ {moved}, D \cup Over(u, y)) /\ PutIn(u, r, y, k, moved, n)
        /\ Heavier(u, r, y, z)
    BY <1>14, <2>1, <2>2, <2>4, <2>5, <2>6, <2>7, AddKeeps
  <2>9. w = gz + z
    <3>1. CASE i \in Stacks
      <4>1. moved \in Stacks /\ moved \notin Bags /\ Weight[moved] = g
        BY <1>6, <1>8, <2>3, <3>1, InventoryAssumption
      <4>2. z = g * n
        BY <2>7, <4>1 DEF Gross
      <4>3. w = g * m
        BY <1>8, <1>9, <3>1 DEF Portion
      <4>4. g * (onto + n) = g * onto + g * n
        BY ONLY <1>3, g \in Nat, n \in Nat \ {0}
      <4>5. onto + n = m
        BY <1>3, <2>2
      <4> QED
        BY <1>10, <4>2, <4>3, <4>4, <4>5
    <3>2. CASE i \notin Stacks
      <4>1. onto = 0 /\ moved = i /\ n = 1 /\ m = 1 /\ s.count[i] = 1
        <5>1. s.count[i] <= 1
          BY <1>2, <3>2 DEF Tidy, Counts
        <5> QED
          BY <1>2, <1>3, <2>3, <2>4, <3>2, <5>1
      <4>2. gz = 0 /\ u = o
        <5>1. g * 0 = 0
          OBVIOUS
        <5> QED
          BY <1>10, <1>12, <4>1, <5>1
      <4>3. w = WeightOf(s, i)
        BY <1>9, <3>2 DEF Portion
      <4>4. i \in Bags => o.load[i] = s.load[i]
        <5>1. SUFFICES ASSUME i \in Bags PROVE o.load[i] = s.load[i]
          OBVIOUS
        <5>2. i \notin Over(s, x)
          BY <1>1, <1>2, <1>3, NotOverItself
        <5>3. o.load[i] = s.load[i] + 0 /\ s.load[i] \in Int
          BY <1>3, <1>5, <5>1, <5>2 DEF LoadsMore, Stores
        <5> QED
          BY <5>3
      <4>5. z = WeightOf(s, i)
        BY <1>8, <2>7, <4>1, <4>2, <4>4 DEF Gross, WeightOf
      <4> QED
        BY <4>2, <4>3, <4>5
    <3> QED
      BY <3>1, <3>2
  <2>10. Tidy(r, {}, D)
    <3>1. D \cup Over(u, y) = D
      BY <1>11, <1>15
    <3>2. CASE moved = i
      <4>1. {i} \ {moved} = {}
        BY <3>2
      <4> QED
        BY <2>8, <3>1, <4>1
    <3>3. CASE moved # i
      <4>1. {i} \ {moved} = {} \cup {i} /\ i \notin Bags
        BY <1>5, <1>6, <2>3, <3>3
      <4> QED
        BY <2>8, <3>1, <4>1, TidyWithout
    <3> QED
      BY <3>2, <3>3
  <2>11. Relaid(s, r, i, onto, moved, d)
    <3>1. u \in Stores
      BY <1>14 DEF Tidy
    <3>2. ASSUME NEW h \in Items \ {moved}
          PROVE  r.parent[h] = u.parent[h] /\ r.slot[h] = u.slot[h] /\ r.count[h] = u.count[h]
      BY <2>4, <2>8, <3>1 DEF PutIn, Stores
    <3>3. r.parent[moved] = y /\ r.slot[moved] = k
      BY <2>4, <2>8, <3>1 DEF PutIn, Stores
    <3>4. \A b \in Bags \ {i} : r.parent[b] = s.parent[b]
      <4>1. moved \in Bags => moved = i
        BY <1>6, <2>4
      <4> QED
        BY <1>18, <3>2, <4>1 DEF Items
    <3>5. \A h \in Items \ {i, moved} :
            /\ r.parent[h] = s.parent[h] /\ r.slot[h] = s.slot[h]
            /\ h # d.at => r.count[h] = s.count[h]
      BY <1>1, <1>18, <3>2
    <3>6. r.open = s.open
      BY <1>13, <1>14, <2>8 DEF PutIn
    <3> QED
      BY <1>1, <3>3, <3>4, <3>5, <3>6 DEF Relaid
  <2>12. Shifted(s, r, x, y, w)
    <3>1. \A c : WeightIn(s, c) \in Int
      BY <1>3, WeightInIs
    <3>2. ASSUME NEW c \in Carriers
          PROVE  WeightIn(r, c) = WeightIn(s, c) - (IF c \in Over(s, x) THEN w ELSE 0)
                                                 + (IF c \in Over(s, y) THEN w ELSE 0)
      <4>1. WeightIn(o, c) = WeightIn(s, c) + (IF c \in Over(s, x) THEN -w ELSE 0)
        BY <1>5, <1>9 DEF Heavier
      <4>2. WeightIn(u, c) = WeightIn(o, c) + (IF c \in Over(s, y) THEN gz ELSE 0)
        BY <1>7, <1>14 DEF Heavier
      <4>3. WeightIn(r, c) = WeightIn(u, c) + (IF c \in Over(s, y) THEN z ELSE 0)
        BY <1>15, <2>8 DEF Heavier
      <4> QED
        BY <2>9, <3>1, <4>1, <4>2, <4>3
    <3> QED
      BY <3>2 DEF Shifted
  <2>13. ASSUME NEW a, Fair(a) PROVE Amount(a, r) = Amount(a, s)
    <3>1. a \in [Items -> Nat] /\ a[moved] = a[i]
      BY <1>2, <1>5, <2>3, <2>13 DEF Fair
    <3>2. u \in Stores /\ r \in Stores
      BY <1>14, <2>8 DEF Tidy
    <3>3. r.count[moved] = u.count[moved] + n
          /\ \A h \in Items \ {moved} : r.count[h] = u.count[h]
      BY <2>2, <2>4, <2>5, <2>8, <3>2 DEF PutIn, Stores
    <3>4. n \in Int
      OBVIOUS
    <3>5. Amount(a, r) = Amount(a, u) + a[moved] * n
      BY <2>4, <3>1, <3>2, <3>3, <3>4, AmountChanged
    <3>6. /\ Amount(a, u) = Amount(a, s) - a[i] * m + a[i] * onto
          /\ Amount(a, s) \in Int /\ a[i] \in Nat
      BY <1>20, <2>13
    <3>7. PICK b \in Nat : b = a[i]
      BY <3>6
    <3>8. b * (onto + n) = b * onto + b * n /\ b * onto \in Nat /\ b * n \in Nat
      BY ONLY <1>3, b \in Nat, n \in Nat \ {0}
    <3>9. onto + n = m
      BY <1>3, <2>2
    <3> QED
      BY <3>1, <3>5, <3>6, <3>7, <3>8, <3>9
  <2> QED
    BY <1>1, <1>9, <1>11, <2>10, <2>11, <2>12, <2>13
<1> QED
  BY <1>2, <1>3, <1>21, <1>22

-----------------------------------------------------------------------------
(***************************************************************************)
(* Who is told.                                                            *)
(***************************************************************************)
\* The bag is in reach of p, where players stand as at says.
InReach(s, at, p, b) ==
    LET r == Root(s, b)
    IN  /\ r # Nothing /\ (r = p \/ r \in Tiles)
        /\ Beside(at[p], IF r \in Carriers THEN at[r] ELSE r)

OpenAt(s, at) ==
    \A p \in Carriers, w \in Windows :
        s.open[p][w] # Nothing => InReach(s, at, p, s.open[p][w])

LEMMA StaysIs ==
    ASSUME NEW s, NEW p, NEW b PROVE StaysOpen(s, p, b) <=> InReach(s, position, p, b)
  BY DEF StaysOpen, InReach, InRange, TileOf

\* Where things are as they were, what is over a place and its root are.
LEMMA SamePlaces ==
    ASSUME NEW s, Acyclic(s), NEW r, r.parent = s.parent
    PROVE  Acyclic(r) /\ \A x : Over(r, x) = Over(s, x) /\ Root(r, x) = Root(s, x)
<1>1. Acyclic(r)
  BY AcyclicSame
<1>2. \A x : Over(r, x) = Over(s, x)
  BY OverSame
<1> QED
  BY <1>1, <1>2, RootSame

LEMMA TidySame ==
    ASSUME NEW s, NEW E, NEW D, Tidy(s, E, D), NEW r \in Stores, r.parent = s.parent,
           r.slot = s.slot, r.count = s.count, r.load = s.load, NEW C, Remembered(r, C)
    PROVE  Tidy(r, E, C)
<1>1. s \in Stores /\ Acyclic(s)
  BY DEF Tidy
<1>2. \A x : WeightIn(r, x) = WeightIn(s, x)
  BY <1>1, WeightInSame
<1>3. Acyclic(r)
  BY <1>1, SamePlaces
<1> QED
  BY <1>2, <1>3 DEF Tidy, WornApart, Counts, Weighed, NoneAdrift

\* A player weighs what it carries.
Weighing(s, p) == IF p \in Carriers THEN UpdateInventoryWeight(s, p) ELSE s

LEMMA WeighingIs ==
    ASSUME NEW s, NEW E, NEW D, Tidy(s, E, D), NEW p, NEW t, t = Weighing(s, p)
    PROVE  /\ Tidy(t, E, D \ {p})
           /\ t.parent = s.parent /\ t.slot = s.slot /\ t.count = s.count
           /\ t.load = s.load /\ t.open = s.open
<1>1. s \in Stores
  BY DEF Tidy
<1>2. CASE p \in Carriers
  <2>1. PICK v \in Int : v = WeightIn(s, p)
    BY <1>1, WeightInIs
  <2>2. t = [s EXCEPT !.carried[p] = v]
    BY <1>2, <2>1 DEF Weighing, UpdateInventoryWeight
  <2>3. /\ t.parent = s.parent /\ t.slot = s.slot /\ t.count = s.count
        /\ t.load = s.load /\ t.open = s.open /\ t.carried = [s.carried EXCEPT ![p] = v]
    BY <1>1, <2>2 DEF Stores
  <2>4. t.carried \in [Carriers -> Int]
    BY <1>1, <2>3 DEF Stores
  <2>5. t \in Stores
    BY <1>1, <2>2, <2>3, <2>4 DEF Stores
  <2>6. Remembered(t, D \ {p})
    <3>1. ASSUME NEW c \in Carriers \ (D \ {p}) PROVE t.carried[c] = WeightIn(t, c)
      <4>1. WeightIn(t, c) = WeightIn(s, c)
        BY <1>1, <2>3, <2>5, WeightInSame
      <4>2. CASE c = p
        BY <1>1, <1>2, <2>1, <2>3, <4>1, <4>2 DEF Stores
      <4>3. CASE c # p
        BY <1>1, <2>3, <4>1, <4>3 DEF Stores, Tidy, Remembered
      <4> QED
        BY <4>2, <4>3
    <3> QED
      BY <3>1 DEF Remembered
  <2> QED
    BY <2>3, <2>5, <2>6, TidySame
<1>3. CASE p \notin Carriers
  BY <1>3 DEF Weighing, Tidy, Remembered
<1> QED
  BY <1>2, <1>3

\* Where only i may have moved, what had i over it has it still.
LEMMA StillOver ==
    ASSUME NEW s, NEW r, NEW i, \A b \in Bags \ {i} : r.parent[b] = s.parent[b], NEW x
    PROVE  /\ i \in Over(s, x) => i \in Over(r, x)
           /\ i \notin Over(s, x) => Over(r, x) = Over(s, x)
<1>1. ASSUME i \in Over(s, x), i \notin Over(r, x) PROVE FALSE
  <2>1. \A b \in Over(r, x) \cap Bags : s.parent[b] = r.parent[b]
    BY <1>1
  <2>2. Over(s, x) = Over(r, x)
    BY <2>1, OverSame
  <2> QED
    BY <1>1, <2>2
<1>2. ASSUME i \notin Over(s, x) PROVE Over(r, x) = Over(s, x)
  BY <1>2, OverSame
<1> QED
  BY <1>1, <1>2

LEMMA AutoClosesIs ==
    ASSUME NEW s \in Stores, NEW p \in Carriers, NEW b
    PROVE  AutoCloseContainers(s, p, b).open[p] =
               [w \in Windows |->
                  IF s.open[p][w] # Nothing
                     /\ (s.open[p][w] = b \/ Around(s, s.open[p][w]) \cap {b, Nothing} # {})
                  THEN Nothing ELSE s.open[p][w]]
<1>1. PICK f : f = [w \in Windows |->
                  IF s.open[p][w] # Nothing
                     /\ (s.open[p][w] = b \/ Around(s, s.open[p][w]) \cap {b, Nothing} # {})
                  THEN Nothing ELSE s.open[p][w]]
  OBVIOUS
<1>2. AutoCloseContainers(s, p, b) = [s EXCEPT !.open[p] = f]
  BY <1>1 DEF AutoCloseContainers
<1> QED
  BY <1>1, <1>2 DEF Stores

\* Who is told that i left closes what is out of reach with it.
LEMMA PostRemoveKeeps ==
    ASSUME NEW s \in Stores, Acyclic(s), OpenAt(s, position), NEW i \in Items, NEW x \in Places,
           s.parent[i] = x, NEW r, NEW E, NEW D, Tidy(r, E, D), r.open = s.open,
           \A b \in Bags \ {i} : r.parent[b] = s.parent[b],
           i \notin Bags => \A b \in Bags : r.parent[b] = s.parent[b],
           NEW q, q = PostRemoveNotification(r, x, i)
    PROVE  /\ Tidy(q, E, D \ {Root(s, x)}) /\ OpenAt(q, position)
           /\ q.parent = r.parent /\ q.slot = r.slot /\ q.count = r.count /\ q.load = r.load
<1>1. r \in Stores /\ Acyclic(r)
  BY DEF Tidy
<1>2. Over(r, x) = Over(s, x) /\ Root(r, x) = Root(s, x)
  <2>1. i \notin Over(s, x)
    BY NotOverItself
  <2>2. Over(r, x) = Over(s, x)
    BY <2>1, StillOver
  <2> QED
    BY <1>1, <2>2, RootSame
<1>3. PICK c : c = Root(s, x)
  OBVIOUS
<1>4. PICK t : t = Weighing(r, c)
  OBVIOUS
<1>5. /\ Tidy(t, E, D \ {c}) /\ t \in Stores /\ Acyclic(t)
      /\ t.parent = r.parent /\ t.slot = r.slot /\ t.count = r.count
      /\ t.load = r.load /\ t.open = r.open
  BY <1>4, WeighingIs DEF Tidy
<1>6. PICK told : told = {p \in IF c \in Carriers THEN {c} ELSE Carriers :
                            i \in Bags /\ ~StaysOpen(t, p, i)}
  OBVIOUS
<1>7. PICK open : open = [p \in Carriers |->
            IF p \in told THEN AutoCloseContainers(t, p, i).open[p] ELSE t.open[p]]
  OBVIOUS
<1>8. q = [t EXCEPT !.open = open]
  BY <1>2, <1>3, <1>4, <1>6, <1>7 DEF PostRemoveNotification, Weighing
<1>9. /\ q.parent = t.parent /\ q.slot = t.slot /\ q.count = t.count /\ q.load = t.load
      /\ q.carried = t.carried /\ q.open = open
  BY <1>5, <1>8 DEF Stores
<1>10. ASSUME NEW p \in Carriers, NEW w \in Windows, open[p][w] # Nothing
       PROVE  /\ open[p][w] = t.open[p][w]
              /\ p \in told => open[p][w] # i /\ i \notin Around(t, open[p][w])
  <2>1. CASE p \notin told
    <3>1. open[p] = t.open[p]
      BY <1>7, <2>1
    <3> QED
      BY <2>1, <3>1
  <2>2. CASE p \in told
    <3>1. open[p] = AutoCloseContainers(t, p, i).open[p]
      BY <1>7, <2>2
    <3>2. open[p] = [v \in Windows |->
                    IF t.open[p][v] # Nothing
                       /\ (t.open[p][v] = i \/ Around(t, t.open[p][v]) \cap {i, Nothing} # {})
                    THEN Nothing ELSE t.open[p][v]]
      BY <1>5, <3>1, AutoClosesIs
    <3> QED
      BY <1>10, <3>2
  <2> QED
    BY <2>1, <2>2
<1>11. open \in [Carriers -> [Windows -> Bags \cup {Nothing}]]
  <2>1. ASSUME NEW p \in Carriers PROVE open[p] \in [Windows -> Bags \cup {Nothing}]
    <3>1. t.open[p] \in [Windows -> Bags \cup {Nothing}]
      BY <1>5 DEF Stores
    <3>2. p \notin told => open[p] = t.open[p]
      BY <1>7
    <3>3. p \in told => open[p] = [v \in Windows |->
                    IF t.open[p][v] # Nothing
                       /\ (t.open[p][v] = i \/ Around(t, t.open[p][v]) \cap {i, Nothing} # {})
                    THEN Nothing ELSE t.open[p][v]]
      BY <1>5, <1>7, AutoClosesIs
    <3> QED
      BY <3>1, <3>2, <3>3
  <2> QED
    BY <1>7, <2>1
<1>12. q \in Stores
  BY <1>5, <1>8, <1>9, <1>11 DEF Stores
<1>13. Tidy(q, E, D \ {c})
  <2>1. Remembered(q, D \ {c})
    <3>1. \A p : WeightIn(q, p) = WeightIn(t, p)
      BY <1>5, <1>9, <1>12, WeightInSame
    <3> QED
      BY <1>5, <1>9, <3>1 DEF Tidy, Remembered
  <2> QED
    BY <1>5, <1>9, <1>12, <2>1, TidySame
<1>14. \A y : Over(q, y) = Over(r, y) /\ Root(q, y) = Root(r, y)
              /\ Over(t, y) = Over(r, y) /\ Root(t, y) = Root(r, y)
  <2>1. q.parent = r.parent
    BY <1>5, <1>9
  <2> QED
    BY <1>1, <1>5, <2>1, SamePlaces
<1>15. ASSUME NEW p \in Carriers, NEW w \in Windows, q.open[p][w] # Nothing
       PROVE  InReach(q, position, p, q.open[p][w])
  <2>1. PICK b : b = q.open[p][w]
    OBVIOUS
  <2>2. b = t.open[p][w] /\ b = s.open[p][w] /\ b \in Bags
        /\ (p \in told => b # i /\ i \notin Around(t, b))
    <3>1. b = t.open[p][w] /\ (p \in told => b # i /\ i \notin Around(t, b))
      BY <1>9, <1>10, <1>15, <2>1
    <3>2. b = s.open[p][w]
      BY <1>5, <3>1
    <3>3. b \in Bags \cup {Nothing} /\ b # Nothing
      BY <1>15, <2>1, <3>2 DEF Stores
    <3> QED
      BY <3>1, <3>2, <3>3
  <2>3. InReach(s, position, p, b)
    BY <1>15, <2>1, <2>2 DEF OpenAt
  <2>4. CASE i \in Bags /\ i \in Over(s, b)
    <3>1. Root(s, i) = c /\ Root(s, b) = c
      <4>1. x \in Over(s, i)
        BY <2>4, OverBag
      <4> QED
        BY <1>3, <2>4, <4>1, RootOfPlace
    <3>2. i \in Over(r, b) /\ i \in Over(t, b) /\ Root(r, i) = Root(r, b)
      BY <1>1, <1>14, <2>4, StillOver, RootOfPlace
    <3>3. p \in IF c \in Carriers THEN {c} ELSE Carriers
      BY <2>3, <3>1, InventoryAssumption DEF InReach
    <3>4. p \notin told
      <4>1. b = i \/ i \in Around(t, b)
        BY <3>2 DEF Over
      <4> QED
        BY <2>2, <4>1
    <3>5. StaysOpen(t, p, i)
      BY <1>6, <2>4, <3>3, <3>4
    <3>6. InReach(t, position, p, i)
      BY <3>5, StaysIs
    <3> QED
      BY <1>14, <2>1, <3>2, <3>6 DEF InReach
  <2>5. CASE ~(i \in Bags /\ i \in Over(s, b))
    <3>1. Over(r, b) = Over(s, b)
      <4>1. CASE i \in Bags
        BY <2>5, <4>1, StillOver
      <4>2. CASE i \notin Bags
        BY <4>2, OverSame
      <4> QED
        BY <4>1, <4>2
    <3>2. Root(q, b) = Root(s, b)
      BY <1>1, <1>14, <3>1, RootSame
    <3> QED
      BY <2>1, <2>3, <3>2 DEF InReach
  <2> QED
    BY <2>4, <2>5
<1>16. OpenAt(q, position)
  BY <1>15 DEF OpenAt
<1> QED
  BY <1>3, <1>5, <1>9, <1>13, <1>16

-----------------------------------------------------------------------------
(***************************************************************************)
(* What is so between handlers.                                            *)
(***************************************************************************)
Able(s) == \A p \in Carriers : WeightIn(s, p) <= Capacity

Whole(s) == Tidy(s, {}, {}) /\ OpenAt(s, position) /\ Able(s)

\* What the one who moves n of i to d, where there is room for most, has made
\* sure of.
Transferable(s, i, n, d, most, new) ==
    /\ i \in Items /\ s.parent[i] \in Places /\ n \in 1..s.count[i] /\ most \in Nat \ {0}
    /\ d.to \in Places /\ i \notin Over(s, d.to) /\ (d.to \in Bags => s.parent[d.to] # Nothing)
    /\ n < s.count[i] \/ most < s.count[i] => new \in Stacks /\ s.parent[new] = Nothing
    /\ IF d.to \in Carriers
       THEN /\ d.slot \in Slots
            /\ \/ \A j \in Items : s.parent[j] = d.to => s.slot[j] # d.slot
               \/ d.at \in Mates(s, d.to, i) /\ most <= FullStack - s.count[d.at]
       ELSE d.slot = 0
    /\ \A c \in Carriers : c \in Over(s, d.to) /\ c \notin Over(s, s.parent[i])
                           => WeightIn(s, c) + Portion(s, i, n) <= Capacity

LEMMA TransferKeeps ==
    ASSUME NEW s, Whole(s), NEW i, NEW n, NEW d, NEW most, NEW new,
           Transferable(s, i, n, d, most, new), NEW r, r = Transfer(s, i, n, d, most, new)
    PROVE  /\ Whole(r) /\ \A a : Fair(a) => Amount(a, r) = Amount(a, s)
           /\ d.at = Nothing /\ n = s.count[i] /\ n <= most =>
                /\ r.parent[i] = d.to /\ r.slot[i] = d.slot
                /\ \A h \in Items \ {i} : r.parent[h] = s.parent[h] /\ r.slot[h] = s.slot[h]
                                          /\ r.count[h] = s.count[h]
<1>1. /\ i \in Items /\ s.parent[i] \in Places /\ n \in 1..s.count[i] /\ most \in Nat \ {0}
      /\ d.to \in Places /\ i \notin Over(s, d.to) /\ (d.to \in Bags => s.parent[d.to] # Nothing)
      /\ n < s.count[i] \/ most < s.count[i] => new \in Stacks /\ s.parent[new] = Nothing
      /\ IF d.to \in Carriers
         THEN /\ d.slot \in Slots
              /\ \/ \A j \in Items : s.parent[j] = d.to => s.slot[j] # d.slot
                 \/ d.at \in Mates(s, d.to, i) /\ most <= FullStack - s.count[d.at]
         ELSE d.slot = 0
      /\ \A c \in Carriers : c \in Over(s, d.to) /\ c \notin Over(s, s.parent[i])
                             => WeightIn(s, c) + Portion(s, i, n) <= Capacity
  BY DEF Transferable
<1>2. /\ Tidy(s, {}, {}) /\ s \in Stores /\ Acyclic(s) /\ OpenAt(s, position) /\ Able(s)
      /\ s.count[i] \in Nat /\ n \in Nat
  BY <1>1 DEF Whole, Tidy, Stores
<1>3. PICK x, y : x = s.parent[i] /\ y = d.to
  OBVIOUS
<1>4. PICK m \in 1..n : m = (IF most < n THEN most ELSE n)
  BY <1>1, <1>2
<1>5. PICK onto \in 0..m :
        onto = (IF d.at \in Mates(s, d.to, i)
                THEN IF FullStack - s.count[d.at] < m THEN FullStack - s.count[d.at] ELSE m
                ELSE 0)
  <2>1. d.at \in Mates(s, d.to, i) => s.count[d.at] \in Nat /\ s.count[d.at] < FullStack
    BY <1>2 DEF Mates, Contents, Stores
  <2>2. FullStack \in Nat
    BY InventoryAssumption
  <2> QED
    BY <1>4, <2>1, <2>2
<1>6. PICK moved : moved = (IF m = s.count[i] THEN i ELSE new)
  OBVIOUS
<1>7. PICK in : in = Carry(s, i, m, d, onto, moved)
  OBVIOUS
<1>8. r = PostAddNotification(PostRemoveNotification(in, x, i), y)
  BY <1>3, <1>4, <1>5, <1>6, <1>7 DEF Transfer
<1>9. onto > 0 => i \in Stacks /\ d.at \in Stacks \ {i} /\ s.parent[d.at] = d.to
  BY <1>5 DEF Mates, Contents
<1>10. Movable(s, i, m, d, onto, moved)
  <2>1. onto < m =>
         /\ \/ m = s.count[i] /\ moved = i
            \/ m < s.count[i] /\ moved \in Stacks /\ s.parent[moved] = Nothing
    BY <1>1, <1>2, <1>4, <1>6
  <2>2. onto < m =>
         IF d.to \in Carriers
         THEN d.slot \in Slots /\ \A j \in Items : s.parent[j] = d.to => s.slot[j] # d.slot
         ELSE d.slot = 0
    <3>1. SUFFICES ASSUME onto < m, d.to \in Carriers
                   PROVE  \A j \in Items : s.parent[j] = d.to => s.slot[j] # d.slot
      BY <1>1
    <3>2. ~(d.at \in Mates(s, d.to, i) /\ most <= FullStack - s.count[d.at])
      <4>1. SUFFICES ASSUME d.at \in Mates(s, d.to, i), most <= FullStack - s.count[d.at]
                     PROVE  FALSE
        OBVIOUS
      <4>2. s.count[d.at] \in Nat /\ FullStack \in Nat
        BY <1>2, <4>1, InventoryAssumption DEF Mates, Contents, Stores
      <4> QED
        BY <1>1, <1>2, <1>4, <1>5, <3>1, <4>1, <4>2
    <3> QED
      BY <1>1, <3>1, <3>2
  <2>3. m \in 1..s.count[i]
    BY <1>1, <1>2, <1>4
  <2> QED
    BY <1>1, <1>5, <1>9, <2>1, <2>2, <2>3 DEF Movable
<1>11. /\ Tidy(in, {}, Over(s, x) \cup Over(s, y))
       /\ Relaid(s, in, i, onto, moved, d)
       /\ Shifted(s, in, x, y, Portion(s, i, m))
       /\ \A a : Fair(a) => Amount(a, in) = Amount(a, s)
  BY <1>2, <1>3, <1>7, <1>10, CarryKeeps
<1>12. PICK q : q = PostRemoveNotification(in, x, i)
  OBVIOUS
<1>13. /\ Tidy(q, {}, (Over(s, x) \cup Over(s, y)) \ {Root(s, x)}) /\ OpenAt(q, position)
       /\ q.parent = in.parent /\ q.slot = in.slot /\ q.count = in.count /\ q.load = in.load
  <2>1. in.open = s.open /\ \A b \in Bags \ {i} : in.parent[b] = s.parent[b]
    BY <1>11 DEF Relaid
  <2>2. i \notin Bags => \A b \in Bags : in.parent[b] = s.parent[b]
    BY <2>1
  <2> QED
    BY <1>1, <1>2, <1>3, <1>11, <1>12, <2>1, <2>2, PostRemoveKeeps
<1>14. Root(q, y) = Root(s, y)
  <2>1. Over(q, y) = Over(s, y)
    <3>1. \A b \in Over(s, y) \cap Bags : q.parent[b] = s.parent[b]
      BY <1>1, <1>3, <1>11, <1>13 DEF Relaid
    <3> QED
      BY <3>1, OverSame
  <2>2. Acyclic(q)
    BY <1>13 DEF Tidy
  <2> QED
    BY <1>2, <2>1, <2>2, RootSame
<1>15. /\ Tidy(r, {}, ((Over(s, x) \cup Over(s, y)) \ {Root(s, x)}) \ {Root(s, y)})
       /\ r.parent = q.parent /\ r.slot = q.slot /\ r.count = q.count
       /\ r.load = q.load /\ r.open = q.open
  <2>1. r = Weighing(q, Root(q, y))
    BY <1>8, <1>12 DEF PostAddNotification, Weighing
  <2> QED
    BY <1>13, <1>14, <2>1, WeighingIs
<1>16. Tidy(r, {}, {})
  <2>1. \A p \in Carriers \ {} :
            p \notin ((Over(s, x) \cup Over(s, y)) \ {Root(s, x)}) \ {Root(s, y)}
    <3>1. \A p \in Carriers : p \notin Bags
      BY InventoryAssumption DEF Items
    <3> QED
      BY <1>2, <3>1, RootIs
  <2> QED
    BY <1>15, <2>1 DEF Tidy, Remembered
<1>17. in \in Stores /\ q \in Stores /\ r \in Stores /\ Acyclic(q)
  BY <1>11, <1>13, <1>15 DEF Tidy
<1>18. OpenAt(r, position)
  <2>1. \A b : Root(r, b) = Root(q, b)
    BY <1>15, <1>17, SamePlaces
  <2> QED
    BY <1>13, <1>15, <2>1 DEF OpenAt, InReach
<1>19. Able(r)
  <2>1. SUFFICES ASSUME NEW c \in Carriers PROVE WeightIn(r, c) <= Capacity
    BY DEF Able
  <2>2. WeightIn(r, c) = WeightIn(in, c)
    <3>1. r.parent = in.parent /\ r.count = in.count /\ r.load = in.load
      BY <1>13, <1>15
    <3> QED
      BY <1>17, <3>1, WeightInSame
  <2>3. PICK w \in Nat, v \in Nat : w = Portion(s, i, m) /\ v = Portion(s, i, n) /\ w <= v
    BY <1>1, <1>2, <1>4, PortionNat
  <2>4. WeightIn(in, c) = WeightIn(s, c) - (IF c \in Over(s, x) THEN w ELSE 0)
                                         + (IF c \in Over(s, y) THEN w ELSE 0)
    BY <1>11, <2>3 DEF Shifted
  <2>5. WeightIn(s, c) \in Int /\ WeightIn(s, c) <= Capacity /\ Capacity \in Nat
    BY <1>2, WeightInIs, InventoryAssumption DEF Able
  <2>6. c \in Over(s, y) /\ c \notin Over(s, x) => WeightIn(s, c) + v <= Capacity
    BY <1>1, <1>3, <2>3
  <2> QED
    BY <2>2, <2>3, <2>4, <2>5, <2>6
<1>20. ASSUME NEW a, Fair(a) PROVE Amount(a, r) = Amount(a, s)
  <2>1. r.count = in.count
    BY <1>13, <1>15
  <2> QED
    BY <1>11, <1>20, <2>1 DEF Amount
<1>21. ASSUME d.at = Nothing, n = s.count[i], n <= most
       PROVE  /\ r.parent[i] = d.to /\ r.slot[i] = d.slot
              /\ \A h \in Items \ {i} : r.parent[h] = s.parent[h] /\ r.slot[h] = s.slot[h]
                                        /\ r.count[h] = s.count[h]
  <2>1. Nothing \notin Items
    BY InventoryAssumption
  <2>2. onto = 0 /\ m = n /\ moved = i
    BY <1>1, <1>2, <1>4, <1>5, <1>6, <1>21, <2>1 DEF Mates, Contents
  <2>3. r.parent = in.parent /\ r.slot = in.slot /\ r.count = in.count
    BY <1>13, <1>15
  <2> QED
    BY <1>11, <1>21, <2>1, <2>2, <2>3 DEF Relaid
<1> QED
  BY <1>16, <1>18, <1>19, <1>20, <1>21 DEF Whole

-----------------------------------------------------------------------------
(***************************************************************************)
(* Game::internalMoveItem.                                                 *)
(***************************************************************************)
\* An item that a place says yes to is not around it, and who carries the place
\* can carry the item.
LEMMA QueryYes ==
    ASSUME NEW s, Whole(s), NEW y \in Places, NEW k, NEW anywhere, NEW i \in Items, NEW n \in Nat,
           QueryAdd(s, y, k, anywhere, i, n) = "yes"
    PROVE  /\ i \notin Over(s, y)
           /\ \A c \in Carriers : c \in Over(s, y) /\ c \notin Over(s, s.parent[i])
                                  => WeightIn(s, c) + Portion(s, i, n) <= Capacity
<1>1. Tidy(s, {}, {}) /\ s \in Stores /\ Acyclic(s) /\ Capacity \in Nat
  BY InventoryAssumption DEF Whole, Tidy
<1>2. i \notin Over(s, y)
  <2>1. CASE y \in Bags
    <3>1. y \notin Tiles
      BY <2>1, InventoryAssumption DEF Items
    <3> QED
      BY <2>1, <3>1 DEF QueryAdd, BagQueryAdd, Over
  <2>2. CASE y \notin Bags
    <3>1. i # y
      BY <2>2, InventoryAssumption DEF Places
    <3> QED
      BY <2>2, <3>1, OverOther
  <2> QED
    BY <2>1, <2>2
<1>3. ASSUME NEW c \in Carriers, c \in Over(s, y), c \notin Over(s, s.parent[i])
      PROVE  WeightIn(s, c) + Portion(s, i, n) <= Capacity
  <2>1. c \notin Bags /\ c \notin Tiles
    BY InventoryAssumption DEF Items
  <2>2. c = Root(s, y)
    BY <1>1, <1>3, <2>1, RootIs
  <2>3. c # Root(s, s.parent[i])
    BY <1>1, <1>3, RootIs
  <2>4. HasCapacity(s, c, i, n)
    <3>1. CASE y \in Bags
      <4>1. y \notin Tiles
        BY <3>1, InventoryAssumption DEF Items
      <4> QED
        BY <2>2, <3>1, <4>1 DEF QueryAdd, BagQueryAdd
    <3>2. CASE y \notin Bags
      <4>1. c = y
        BY <1>3, <3>2, OverOther
      <4> QED
        BY <2>1, <3>2, <4>1 DEF QueryAdd, PlayerQueryAdd
    <3> QED
      BY <3>1, <3>2
  <2>5. Portion(s, i, n) <= Capacity - s.carried[c]
    BY <2>3, <2>4 DEF HasCapacity, Portion
  <2>6. s.carried[c] = WeightIn(s, c) /\ WeightIn(s, c) \in Int
    BY <1>1, WeightInIs DEF Tidy, Remembered
  <2>7. Portion(s, i, n) \in Nat
    BY <1>1, PortionNat
  <2> QED
    BY <1>1, <2>5, <2>6, <2>7
<1> QED
  BY <1>2, <1>3

LEMMA MaxCountNat ==
    ASSUME NEW s \in Stores, NEW d, NEW i, NEW n \in Nat PROVE QueryMaxCount(s, d, i, n) \in Nat
<1>1. FullStack \in Nat /\ BagSize \in Nat
  BY InventoryAssumption
<1>2. ASSUME NEW x, NEW j, j \in Mates(s, x, i) PROVE FullStack - s.count[j] \in Nat
  <2>1. s.count[j] \in Nat /\ s.count[j] < FullStack
    BY <1>2 DEF Mates, Contents, Stores
  <2> QED
    BY <1>1, <2>1
<1>3. BagQueryMaxCount(s, d, i) \in Nat
  <2>1. IsFiniteSet(Contents(s, d.to))
    <3>1. Contents(s, d.to) \in SUBSET Items
      BY DEF Contents
    <3> QED
      BY <3>1, ItemsFinite, FS_Subset
  <2>2. Cardinality(Contents(s, d.to)) \in Nat
    BY <2>1, FS_CardinalityType
  <2>3. FreeSlots(s, d.to) \in Nat
    BY <1>1, <2>2 DEF FreeSlots
  <2>4. Remainder(s, d.to, i, d.at) \in Nat
    BY <1>1, <1>2 DEF Remainder
  <2>5. PICK a \in Nat, b \in Nat : a = FreeSlots(s, d.to) /\ b = IF i \in Stacks THEN FullStack ELSE 1
    BY <1>1, <2>3
  <2>6. a * b \in Nat
    OBVIOUS
  <2> QED
    BY <2>4, <2>5, <2>6 DEF BagQueryMaxCount
<1>4. PlayerQueryMaxCount(s, d, i) \in Nat
  BY <1>1, <1>2 DEF PlayerQueryMaxCount
<1> QED
  BY <1>3, <1>4 DEF QueryMaxCount

\* Who wears what.
LEMMA OccupantIs ==
    ASSUME NEW s, WornApart(s), NEW p \in Carriers, NEW k
    PROVE  /\ Occupant(s, p, k) = Nothing => \A h \in Items : s.parent[h] = p => s.slot[h] # k
           /\ Occupant(s, p, k) # Nothing =>
                Occupant(s, p, k) \in Items /\ s.parent[Occupant(s, p, k)] = p
                /\ s.slot[Occupant(s, p, k)] = k
           /\ \A h \in Items : s.parent[h] = p /\ s.slot[h] = k => Occupant(s, p, k) = h
<1>1. PICK worn : worn = {h \in Items : s.parent[h] = p /\ s.slot[h] = k}
  OBVIOUS
<1>2. Occupant(s, p, k) = IF worn = {} THEN Nothing ELSE CHOOSE h \in worn : TRUE
  BY <1>1 DEF Occupant
<1>3. worn # {} => Occupant(s, p, k) \in worn
  BY <1>2
<1>4. Nothing \notin Items
  BY InventoryAssumption
<1>5. \A h, g \in worn : h = g
  BY <1>1 DEF WornApart
<1> QED
  BY <1>1, <1>2, <1>3, <1>4, <1>5

\* An exchange begins with a transfer of what lies at the destination.
LEMMA ExchangeIs ==
    ASSUME NEW s, NEW from, NEW i, NEW d, d.at \in Items, s.parent[d.at] = d.to,
           NEW n \in Nat \ {0}, n = s.count[d.at],
           NEW e, e = [to |-> from, slot |-> 0, at |-> Nothing]
    PROVE  Exchange(s, from, i, d) = Transfer(s, d.at, n, e, n, Nothing)
<1>1. PICK j : j = d.at
  OBVIOUS
<1>2. Nothing \notin Mates(s, e.to, j)
  BY InventoryAssumption DEF Mates, Contents
<1>3. e.to = from /\ e.slot = 0 /\ e.at = Nothing
  OBVIOUS
<1>4. (IF n < n THEN n ELSE n) = n /\ n > 0 /\ n - 0 = n
  OBVIOUS
<1>5. Carry(s, j, n, e, 0, j) = AddThing(RemoveThing(s, d.to, j, n), from, 0, j, n)
  BY <1>1, <1>3, <1>4 DEF Carry
<1>6. Transfer(s, j, n, e, n, Nothing)
        = PostAddNotification(PostRemoveNotification(Carry(s, j, n, e, 0, j), s.parent[j], j), from)
  BY <1>1, <1>2, <1>3, <1>4 DEF Transfer
<1> QED
  BY <1>1, <1>5, <1>6 DEF Exchange

LEMMA ExchangeKeeps ==
    ASSUME NEW s, Whole(s), NEW i \in Items, s.parent[i] \in Places, NEW d, NEW j, j = d.at,
           j \in Items \ Bags, d.to \in Carriers, s.parent[j] = d.to,
           i \notin Stacks \/ j \notin Stacks, NEW anywhere,
           QueryAdd(s, s.parent[i], s.slot[i], anywhere, j, s.count[j]) = "yes",
           NEW t, t = Exchange(s, s.parent[i], i, d)
    PROVE  /\ Whole(t) /\ \A a : Fair(a) => Amount(a, t) = Amount(a, s)
           /\ i # j /\ s.parent[i] \notin Carriers /\ t.parent[j] = s.parent[i]
           /\ \A h \in Items \ {j} : t.parent[h] = s.parent[h] /\ t.slot[h] = s.slot[h]
                                     /\ t.count[h] = s.count[h]
<1>1. PICK x, y : x = s.parent[i] /\ y = d.to
  OBVIOUS
<1>2. PICK n : n = s.count[j]
  OBVIOUS
<1>3. /\ Tidy(s, {}, {}) /\ s \in Stores /\ WornApart(s) /\ y \in Places /\ x \in Places
      /\ n \in Nat \ {0}
  <2>1. Tidy(s, {}, {}) /\ s \in Stores /\ WornApart(s) /\ Counts(s)
    BY DEF Whole, Tidy
  <2>2. y # Nothing /\ y \in Places /\ s.count[j] \in Nat
    BY <1>1, <2>1, InventoryAssumption DEF Stores, Places
  <2> QED
    BY <1>1, <1>2, <2>1, <2>2 DEF Counts
<1>4. x \notin Carriers
  <2>1. SUFFICES ASSUME x \in Carriers PROVE FALSE
    OBVIOUS
  <2>2. x \notin Bags /\ x \notin Tiles /\ Nothing \notin Items
    BY <2>1, InventoryAssumption DEF Items
  <2>3. Occupant(s, x, s.slot[i]) = i
    BY <1>1, <1>3, <2>1, OccupantIs
  <2>4. PlayerQueryAdd(s, x, s.slot[i], j, s.count[j]) = "yes"
    BY <1>1, <2>2 DEF QueryAdd
  <2>5. Occupant(s, x, s.slot[i]) # Nothing
        /\ ~({j, Occupant(s, x, s.slot[i])} \subseteq Stacks)
    BY <2>2, <2>3
  <2>6. PlayerQueryAdd(s, x, s.slot[i], j, s.count[j]) # "yes"
    BY <2>5 DEF PlayerQueryAdd
  <2> QED
    BY <2>4, <2>6
<1>5. PICK e : e = [to |-> x, slot |-> 0, at |-> Nothing]
  OBVIOUS
<1>6. e.to = x /\ e.slot = 0 /\ e.at = Nothing
  BY <1>5
<1>7. t = Transfer(s, j, n, e, n, Nothing)
  <2>1. Exchange(s, x, i, d) = Transfer(s, d.at, n, e, n, Nothing)
    BY <1>2, <1>3, <1>5, ExchangeIs
  <2> QED
    BY <1>1, <2>1
<1>8. Transferable(s, j, n, e, n, Nothing)
  <2>1. /\ j \notin Over(s, x)
        /\ \A c \in Carriers : c \in Over(s, x) /\ c \notin Over(s, s.parent[j])
                               => WeightIn(s, c) + Portion(s, j, n) <= Capacity
    BY <1>1, <1>2, <1>3, QueryYes
  <2>2. x \in Bags => s.parent[x] # Nothing
    BY <1>1, <1>3 DEF Tidy, NoneAdrift
  <2>3. n \in 1..s.count[j] /\ ~(n < s.count[j])
    BY <1>2, <1>3
  <2>4. j \in Items /\ s.parent[j] \in Places
    BY <1>1, <1>3
  <2> QED
    BY <1>3, <1>4, <1>6, <2>1, <2>2, <2>3, <2>4 DEF Transferable
<1>9. /\ Whole(t) /\ \A a : Fair(a) => Amount(a, t) = Amount(a, s)
      /\ t.parent[j] = x
      /\ \A h \in Items \ {j} : t.parent[h] = s.parent[h] /\ t.slot[h] = s.slot[h]
                                /\ t.count[h] = s.count[h]
  <2>1. n <= n
    BY <1>3
  <2>2. /\ Whole(t) /\ \A a : Fair(a) => Amount(a, t) = Amount(a, s)
        /\ e.at = Nothing /\ n = s.count[j] /\ n <= n =>
             /\ t.parent[j] = e.to /\ t.slot[j] = e.slot
             /\ \A h \in Items \ {j} : t.parent[h] = s.parent[h] /\ t.slot[h] = s.slot[h]
                                       /\ t.count[h] = s.count[h]
    BY <1>7, <1>8, TransferKeeps
  <2> QED
    BY <1>2, <1>6, <2>1, <2>2
<1> QED
  BY <1>1, <1>4, <1>9

\* Where a move may end, and what is split off there.
Aim(s, i, d, new) ==
    /\ d = [to |-> d.to, slot |-> d.slot, at |-> d.at]
    /\ d.to \in Places /\ (d.to \in Bags => s.parent[d.to] # Nothing)
    /\ IF d.to \in Carriers
       THEN d.slot \in Slots /\ d.at = Occupant(s, d.to, d.slot) /\ d.at \notin Bags
       ELSE d.slot = 0
    /\ s.count[i] > 1 => new \in Stacks /\ s.parent[new] = Nothing

\* A move keeps all in order and loses nothing.
LEMMA InternalMoveKeeps ==
    ASSUME NEW s, Whole(s), NEW i \in Items, s.parent[i] \in Places, NEW n \in 1..s.count[i],
           NEW d, NEW new, Aim(s, i, d, new), NEW r, r = InternalMoveItem(s, i, n, d, new)
    PROVE  Whole(r) /\ \A a : Fair(a) => Amount(a, r) = Amount(a, s)
<1>1. PICK x, y, k, j : x = s.parent[i] /\ y = d.to /\ k = d.slot /\ j = d.at
  OBVIOUS
<1>2. /\ d = [to |-> y, slot |-> k, at |-> j]
      /\ y \in Places /\ (y \in Bags => s.parent[y] # Nothing)
      /\ IF y \in Carriers THEN k \in Slots /\ j = Occupant(s, y, k) /\ j \notin Bags ELSE k = 0
      /\ s.count[i] > 1 => new \in Stacks /\ s.parent[new] = Nothing
  BY <1>1 DEF Aim
<1>3. /\ Tidy(s, {}, {}) /\ s \in Stores /\ WornApart(s) /\ x \in Places
      /\ s.count[i] \in Nat /\ n \in Nat
  <2>1. Tidy(s, {}, {}) /\ s \in Stores /\ WornApart(s)
    BY DEF Whole, Tidy
  <2> QED
    BY <1>1, <2>1 DEF Stores
<1>4. y \in Carriers => y \notin Bags /\ y \notin Tiles
  BY InventoryAssumption DEF Items
<1>5. PICK answer : answer = QueryAdd(s, y, k, j = Nothing, i, n)
  OBVIOUS
<1>6. PICK exchanges \in BOOLEAN :
        exchanges = (/\ answer = "exchange"
                     /\ QueryAdd(s, x, s.slot[i], FALSE, j, s.count[j]) = "yes"
                     /\ RoomForExchange(s, x, j))
  OBVIOUS
<1>7. PICK t : t = IF exchanges THEN Exchange(s, x, i, d) ELSE s
  OBVIOUS
<1>8. PICK e : e = IF exchanges THEN [d EXCEPT !.at = Nothing] ELSE d
  OBVIOUS
<1>9. PICK most : most = QueryMaxCount(t, e, i, n)
  OBVIOUS
<1>10. r = IF \/ j = i \/ most = 0
              \/ answer # "yes" /\ ~exchanges
              \/ exchanges /\ QueryAdd(t, y, k, FALSE, i, n) # "yes"
           THEN t ELSE Transfer(t, i, n, e, most, new)
  BY <1>1, <1>5, <1>6, <1>7, <1>8, <1>9 DEF InternalMoveItem
<1>11. CASE ~exchanges
  <2>1. t = s /\ e = d
    BY <1>7, <1>8, <1>11
  <2>2. CASE j # i /\ most # 0 /\ answer = "yes"
    <3>1. r = Transfer(s, i, n, d, most, new)
      BY <1>10, <1>11, <2>1, <2>2
    <3>2. most \in Nat \ {0}
      BY <1>3, <1>9, <2>1, <2>2, MaxCountNat
    <3>3. /\ i \notin Over(s, y)
          /\ \A c \in Carriers : c \in Over(s, y) /\ c \notin Over(s, s.parent[i])
                                 => WeightIn(s, c) + Portion(s, i, n) <= Capacity
      <4>1. PICK anywhere : anywhere = (j = Nothing)
        OBVIOUS
      <4>2. QueryAdd(s, y, k, anywhere, i, n) = "yes"
        BY <1>5, <2>2, <4>1
      <4> QED
        BY <1>2, <1>3, <4>2, QueryYes
    <3>4. ASSUME y \in Carriers
          PROVE  \/ \A h \in Items : s.parent[h] = y => s.slot[h] # k
                 \/ j \in Mates(s, y, i) /\ most <= FullStack - s.count[j]
      <4>1. CASE j = Nothing
        BY <1>2, <1>3, <3>4, <4>1, OccupantIs
      <4>2. CASE j # Nothing
        <5>1. most = PlayerQueryMaxCount(s, d, i)
          BY <1>1, <1>4, <1>9, <2>1, <3>4 DEF QueryMaxCount
        <5>2. j \in Mates(s, y, i) /\ most = FullStack - s.count[j]
          BY <1>1, <2>2, <4>2, <5>1 DEF PlayerQueryMaxCount
        <5> QED
          BY <3>2, <5>2
      <4> QED
        BY <4>1, <4>2
    <3>5. n < s.count[i] \/ most < s.count[i] => new \in Stacks /\ s.parent[new] = Nothing
      BY <1>2, <1>3, <3>2
    <3>6. Transferable(s, i, n, d, most, new)
      BY <1>1, <1>2, <1>3, <3>2, <3>3, <3>4, <3>5 DEF Transferable
    <3> QED
      BY <3>1, <3>6, TransferKeeps
  <2>3. CASE ~(j # i /\ most # 0 /\ answer = "yes")
    <3>1. r = s
      BY <1>10, <1>11, <2>1, <2>3
    <3> QED
      BY <3>1
  <2> QED
    BY <2>2, <2>3
<1>12. CASE exchanges
  <2>1. answer = "exchange" /\ QueryAdd(s, x, s.slot[i], FALSE, j, s.count[j]) = "yes"
    BY <1>6, <1>12
  <2>2. y \in Carriers /\ j # Nothing /\ ~({i, j} \subseteq Stacks)
    <3>1. y \notin Tiles
      BY <1>5, <2>1 DEF QueryAdd
    <3>2. y \notin Bags
      BY <1>5, <2>1, <3>1 DEF QueryAdd, BagQueryAdd
    <3>3. y \in Carriers
      BY <1>2, <3>1, <3>2 DEF Places
    <3>4. PlayerQueryAdd(s, y, k, i, n) = "exchange" /\ j = Occupant(s, y, k)
      BY <1>2, <1>5, <2>1, <3>1, <3>2, <3>3 DEF QueryAdd
    <3> QED
      BY <3>3, <3>4 DEF PlayerQueryAdd
  <2>3. j \in Items \ Bags /\ s.parent[j] = y /\ s.slot[j] = k
    BY <1>2, <1>3, <2>2, OccupantIs
  <2>4. t = Exchange(s, x, i, d)
    BY <1>7, <1>12
  <2>5. /\ Whole(t) /\ \A a : Fair(a) => Amount(a, t) = Amount(a, s)
        /\ i # j /\ x \notin Carriers /\ t.parent[j] = x
        /\ \A h \in Items \ {j} : t.parent[h] = s.parent[h] /\ t.slot[h] = s.slot[h]
                                  /\ t.count[h] = s.count[h]
    <3>1. PICK anywhere : anywhere = FALSE
      OBVIOUS
    <3>2. QueryAdd(s, s.parent[i], s.slot[i], anywhere, j, s.count[j]) = "yes"
      BY <1>1, <2>1, <3>1
    <3>3. j = d.at /\ d.to \in Carriers /\ s.parent[j] = d.to /\ s.parent[i] \in Places
          /\ t = Exchange(s, s.parent[i], i, d)
      BY <1>1, <1>3, <2>2, <2>3, <2>4
    <3> QED
      <4>1. i \notin Stacks \/ j \notin Stacks
        BY <2>2
      <4>2. j \in Items \ Bags
        BY <2>3
      <4>3. /\ Whole(t) /\ \A a : Fair(a) => Amount(a, t) = Amount(a, s)
            /\ i # j /\ s.parent[i] \notin Carriers /\ t.parent[j] = s.parent[i]
            /\ \A h \in Items \ {j} : t.parent[h] = s.parent[h] /\ t.slot[h] = s.slot[h]
                                      /\ t.count[h] = s.count[h]
        BY <3>2, <3>3, <4>1, <4>2, ExchangeKeeps
      <4> QED
        BY <1>1, <4>3
  <2>6. CASE most # 0 /\ QueryAdd(t, y, k, FALSE, i, n) = "yes"
    <3>1. r = Transfer(t, i, n, e, most, new)
      BY <1>10, <1>12, <2>5, <2>6
    <3>2. t \in Stores /\ t.parent[i] = x /\ t.count[i] = s.count[i]
      BY <1>1, <2>5 DEF Whole, Tidy
    <3>3. e.to = y /\ e.slot = k /\ e.at = Nothing
      BY <1>2, <1>8, <1>12
    <3>4. most \in Nat \ {0}
      BY <1>3, <1>9, <2>6, <3>2, MaxCountNat
    <3>5. /\ i \notin Over(t, y)
          /\ \A c \in Carriers : c \in Over(t, y) /\ c \notin Over(t, t.parent[i])
                                 => WeightIn(t, c) + Portion(t, i, n) <= Capacity
      BY <1>2, <1>3, <2>5, <2>6, QueryYes
    <3>6. \A h \in Items : t.parent[h] = y => t.slot[h] # k
      <4>1. SUFFICES ASSUME NEW h \in Items, t.parent[h] = y, t.slot[h] = k PROVE FALSE
        OBVIOUS
      <4>2. h # j
        BY <2>2, <2>5, <4>1
      <4> QED
        BY <1>3, <2>2, <2>3, <2>5, <4>1, <4>2 DEF WornApart
    <3>7. n < t.count[i] \/ most < t.count[i] => new \in Stacks /\ t.parent[new] = Nothing
      <4>1. SUFFICES ASSUME n < t.count[i] \/ most < t.count[i]
                     PROVE  new \in Stacks /\ t.parent[new] = Nothing
        OBVIOUS
      <4>2. new \in Stacks /\ s.parent[new] = Nothing
        BY <1>2, <1>3, <3>2, <3>4, <4>1
      <4>3. new # j
        BY <2>2, <2>3, <4>2, InventoryAssumption
      <4> QED
        BY <2>5, <4>2, <4>3 DEF Items
    <3>8. Transferable(t, i, n, e, most, new)
      <4>1. y \notin Bags
        BY <1>4, <2>2
      <4> QED
        BY <1>2, <1>3, <2>2, <3>2, <3>3, <3>4, <3>5, <3>6, <3>7, <4>1 DEF Transferable
    <3> QED
      BY <2>5, <3>1, <3>8, TransferKeeps
  <2>7. CASE ~(most # 0 /\ QueryAdd(t, y, k, FALSE, i, n) = "yes")
    <3>1. r = t
      BY <1>10, <1>12, <2>7
    <3> QED
      BY <2>5, <3>1
  <2> QED
    BY <2>6, <2>7
<1> QED
  BY <1>11, <1>12

-----------------------------------------------------------------------------
(***************************************************************************)
(* The invariant, and the actions.                                         *)
(***************************************************************************)
Coin == [i \in Items |-> IF i \in Stacks THEN 1 ELSE 0]

InventoryInv ==
    /\ Tidy(Store, {}, {}) /\ OpenAt(Store, position) /\ Able(Store)
    /\ made = Amount(Weight, Store) /\ Amount(Coin, Store) <= MaxCoins
    /\ position \in [Carriers -> Tiles]

LEMMA FairOnes == Fair(Weight) /\ Fair(Coin)
<1>1. \A i \in Items : Weight[i] \in Nat
  BY InventoryAssumption
<1>2. Weight \in [Items -> Nat]
  BY <1>1, InventoryAssumption
<1>3. Fair(Weight)
  BY <1>2, InventoryAssumption DEF Fair
<1>4. Fair(Coin)
  <2>1. Coin \in [Items -> Nat]
    BY DEF Coin
  <2>2. \A i, j \in Stacks : Coin[i] = Coin[j]
    BY DEF Coin, Items
  <2> QED
    BY <2>1, <2>2 DEF Fair
<1> QED
  BY <1>3, <1>4

LEMMA StoreIs ==
    /\ Store.parent = parent /\ Store.slot = slot /\ Store.count = count
    /\ Store.load = totalWeight /\ Store.carried = inventoryWeight
    /\ Store.open = openContainers
  BY DEF Store

LEMMA BecomeIs == ASSUME NEW s \in Stores, Become(s) PROVE Store' = s
  BY DEF Become, Store, Stores

\* A handler that leaves all in order, and accounts for what is gone.
LEMMA Handled ==
    ASSUME InventoryInv, NEW r, Whole(r), Become(r), position' = position,
           made' = Amount(Weight, r), Amount(Coin, r) <= MaxCoins
    PROVE  InventoryInv'
<1>1. Store' = r
  BY BecomeIs DEF Whole, Tidy
<1>2. Tidy(r, {}, {}) /\ OpenAt(r, position) /\ Able(r)
  BY DEF Whole
<1>3. position \in [Carriers -> Tiles]
  BY DEF InventoryInv
<1> QED
  BY <1>1, <1>2, <1>3 DEF InventoryInv

\* The sums are those of all the coins.
LEMMA CoinsAre ==
    ASSUME NEW s \in Stores
    PROVE  /\ Amount(Coin, s) = Total(s.count, Stacks) /\ Summed(s.count, Stacks) = Amount(Coin, s)
           /\ Amount(Coin, s) \in Int /\ AllIntegers(s.count, Stacks)
<1>1. PICK f, g : f = s.count /\ g = [i \in Items |-> Coin[i] * s.count[i]]
  OBVIOUS
<1>2. Stacks \in SUBSET Items
  BY DEF Items
<1>3. \A i \in Items : f[i] \in Nat
  BY <1>1 DEF Stores
<1>4. AllIntegers(f, Stacks)
  BY <1>2, <1>3 DEF AllIntegers
<1>5. ASSUME NEW i \in Items PROVE g[i] = IF i \in Stacks THEN f[i] ELSE 0
  <2>1. g[i] = (IF i \in Stacks THEN 1 ELSE 0) * f[i] /\ f[i] \in Nat
    BY <1>1, <1>3 DEF Coin
  <2>2. PICK c \in Nat : c = f[i]
    BY <2>1
  <2>3. 1 * c = c /\ 0 * c = 0
    OBVIOUS
  <2> QED
    BY <2>1, <2>2, <2>3
<1>6. Total(g, Items) = Total(f, Stacks)
  BY <1>2, <1>4, <1>5, ItemsFinite, TotalWhere
<1>7. Total(f, Stacks) \in Int
  BY <1>4, ItemsFinite, TotalInt
<1>8. Summed(f, Stacks) = Total(f, Stacks)
  BY DEF Summed, Total
<1> QED
  BY <1>1, <1>4, <1>6, <1>7, <1>8 DEF Amount

LEMMA WeightsAre ==
    ASSUME NEW s
    PROVE  Summed([i \in Items |-> Weight[i] * s.count[i]], Items) = Amount(Weight, s)
  BY DEF Summed, Total, Amount

\* There is an address for what is split off.
LEMMA FreeAddress ==
    ASSUME NEW s, Tidy(s, {}, {}), Amount(Coin, s) <= MaxCoins, NEW i \in Items, s.count[i] > 1
    PROVE  \E g \in Stacks : s.parent[g] = Nothing
<1>1. SUFFICES ASSUME \A g \in Stacks : s.parent[g] # Nothing PROVE FALSE
  OBVIOUS
<1>2. s \in Stores /\ Counts(s) /\ i \in Stacks
  <2>1. s \in Stores /\ Counts(s) /\ s.count[i] \in Nat
    BY DEF Tidy, Stores
  <2> QED
    BY <2>1 DEF Counts
<1>3. \A g \in Stacks : s.count[g] \in Nat /\ s.count[g] # 0
  BY <1>1, <1>2 DEF Counts, Stores, Items
<1>4. PICK f, u : f = s.count /\ u = [g \in Stacks |-> IF g = i THEN s.count[g] - 1 ELSE s.count[g]]
  OBVIOUS
<1>5. \A g \in Stacks : u[g] \in Nat /\ u[g] >= 1
  BY <1>3, <1>4
<1>6. AllIntegers(f, Stacks) /\ AllIntegers(u, Stacks)
  BY <1>3, <1>4, <1>5 DEF AllIntegers
<1>7. Total(u, Stacks) >= Cardinality(Stacks)
  BY <1>5, ItemsFinite, TotalAtLeast
<1>8. Total(f, Stacks) = Total(u, Stacks) - u[i] + f[i] /\ Total(u, Stacks) \in Int
  <2>1. \A g \in Stacks \ {i} : f[g] = u[g]
    BY <1>4
  <2> QED
    BY <1>2, <1>6, <2>1, ItemsFinite, TotalMoved
<1>9. f[i] = u[i] + 1 /\ u[i] \in Nat
  BY <1>2, <1>3, <1>4, <1>5
<1>10. Total(f, Stacks) <= MaxCoins
  BY <1>2, <1>4, CoinsAre
<1>11. Cardinality(Stacks) \in Nat /\ Cardinality(Stacks) >= MaxCoins /\ MaxCoins \in Nat
  BY ItemsFinite, FS_CardinalityType, InventoryAssumption
<1> QED
  BY <1>7, <1>8, <1>9, <1>10, <1>11

\* Whatever lies in reach lies somewhere.
LEMMA ReachedIs ==
    ASSUME NEW s, Tidy(s, {}, {}), NEW at, NEW p, NEW b \in Bags, InReach(s, at, p, b)
    PROVE  /\ s.parent[b] # Nothing /\ Root(s, s.parent[b]) = Root(s, b)
           /\ \A c \in Bags : s.parent[c] = b => InReach(s, at, p, c)
<1>1. Acyclic(s) /\ Nothing \notin Bags
  BY InventoryAssumption DEF Tidy, Items
<1>2. s.parent[b] \in Over(s, b)
  BY OverBag
<1>3. s.parent[b] # Nothing
  BY <1>1, <1>2, RootIs DEF InReach
<1>4. Root(s, s.parent[b]) = Root(s, b)
  BY <1>1, <1>2, RootOfPlace
<1>5. ASSUME NEW c \in Bags, s.parent[c] = b PROVE InReach(s, at, p, c)
  <2>1. b \in Over(s, c)
    BY <1>5, OverBag
  <2>2. Root(s, c) = Root(s, b)
    BY <1>1, <2>1, RootOfPlace
  <2> QED
    BY <2>2 DEF InReach
<1> QED
  BY <1>3, <1>4, <1>5

LEMMA AnywhereIs ==
    ASSUME NEW s, NEW i, NEW b, NEW d \in Anywhere(s, i, b)
    PROVE  d = [to |-> d.to, slot |-> d.slot, at |-> d.at] /\ d.to = b /\ d.slot = 0
<1>1. PICK j : d = [to |-> b, slot |-> 0, at |-> j]
  BY DEF Anywhere
<1> QED
  BY <1>1

\* The handler aims at a place in reach.
LEMMA AimIs ==
    ASSUME NEW s, Tidy(s, {}, {}), OpenAt(s, position), NEW p \in Carriers, NEW i, NEW x, NEW k, NEW at,
           x \in {p} \cup Bags \cup Tiles,
           x \in Bags => s.parent[x] # Nothing,
           IF x = p THEN k \in Slots ELSE k = 0,
           at \in PointedAt(s, i, x) \cup {Nothing},
           NEW d \in QueryDestination(s, i, x, k, at)
    PROVE  /\ d = [to |-> d.to, slot |-> d.slot, at |-> d.at]
           /\ d.to \in Places /\ (d.to \in Bags => s.parent[d.to] # Nothing)
           /\ IF d.to \in Carriers
              THEN d.slot \in Slots /\ d.at = Occupant(s, d.to, d.slot) /\ d.at \notin Bags
              ELSE d.slot = 0
<1>1. \A c \in Carriers : c \notin Bags /\ c \notin Tiles
  BY InventoryAssumption DEF Items
<1>2. \A b \in Bags : b \notin Tiles /\ b # Nothing
  BY InventoryAssumption DEF Items
<1>3. WornApart(s) /\ \A c \in Carriers \cup Bags : c # Nothing
  BY InventoryAssumption DEF Tidy, Items
<1>4. ASSUME NEW b \in Bags, s.parent[b] # Nothing, d \in Anywhere(s, i, b)
      PROVE  /\ d = [to |-> d.to, slot |-> d.slot, at |-> d.at]
             /\ d.to \in Places /\ (d.to \in Bags => s.parent[d.to] # Nothing)
             /\ d.to \notin Carriers /\ d.slot = 0
  BY <1>1, <1>4, AnywhereIs DEF Places
<1>5. CASE x \in Tiles
  <2>1. d = [to |-> x, slot |-> 0, at |-> at]
    BY <1>5 DEF QueryDestination
  <2> QED
    BY <1>1, <1>2, <1>5, <2>1 DEF Places
<1>6. CASE x \in Bags
  <2>1. x \notin Tiles /\ x \notin Carriers
    BY <1>1, <1>2, <1>6
  <2>2. d \in BagQueryDestination(s, i, x, at)
    BY <1>6, <2>1 DEF QueryDestination
  <2>3. at \in Bags => s.parent[at] = x
    <3>1. SUFFICES ASSUME at \in Bags PROVE s.parent[at] = x
      OBVIOUS
    <3>2. at \notin Mates(s, x, i) /\ at # Nothing
      BY <1>3, <3>1, InventoryAssumption DEF Mates
    <3> QED
      BY <1>6, <2>1, <3>2 DEF PointedAt, Contents
  <2>4. CASE d \in Anywhere(s, i, x)
    BY <1>4, <1>6, <2>4
  <2>5. CASE at \in Bags /\ d \in Anywhere(s, i, at)
    <3>1. s.parent[at] # Nothing
      BY <1>3, <1>6, <2>3, <2>5
    <3> QED
      BY <1>4, <2>5, <3>1
  <2>6. CASE d = [to |-> x, slot |-> 0, at |-> at]
    BY <1>6, <2>1, <2>6 DEF Places
  <2> QED
    BY <2>2, <2>4, <2>5, <2>6 DEF BagQueryDestination
<1>7. CASE x = p
  <2>1. d \in PlayerQueryDestination(s, i, p, k)
    BY <1>1, <1>7 DEF QueryDestination
  <2>2. CASE Occupant(s, p, k) \in Bags
    <3>1. s.parent[Occupant(s, p, k)] = p
      BY <1>3, <2>2, OccupantIs
    <3> QED
      BY <1>3, <1>4, <2>1, <2>2, <3>1 DEF PlayerQueryDestination
  <2>3. CASE Occupant(s, p, k) \notin Bags
    <3>1. d = [to |-> p, slot |-> k, at |-> Occupant(s, p, k)]
      BY <2>1, <2>3 DEF PlayerQueryDestination
    <3> QED
      BY <1>1, <1>7, <2>3, <3>1 DEF Places
  <2> QED
    BY <2>2, <2>3
<1> QED
  BY <1>5, <1>6, <1>7

\* Game::playerMoveItem.
LEMMA MoveItemKeeps ==
    ASSUME InventoryInv, NEW p \in Carriers, PlayerMoveItem(p) PROVE InventoryInv'
<1>1. PICK s : s = Store
  OBVIOUS
<1>2. /\ s.parent = parent /\ s.slot = slot /\ s.count = count /\ s.open = openContainers
  BY <1>1, StoreIs
<1>3. /\ Tidy(s, {}, {}) /\ OpenAt(s, position) /\ Able(s) /\ made = Amount(Weight, s)
      /\ Amount(Coin, s) <= MaxCoins
  BY <1>1 DEF InventoryInv
<1>4. PICK i \in {j \in Items : /\ parent[j] # Nothing /\ Named(p, parent[j])
                                /\ InRange(p, Root(s, parent[j]))},
           x \in {p} \cup Bags \cup Tiles :
        /\ Named(p, x) \/ \E b \in Bags : parent[b] = x /\ IsOpen(p, b)
        /\ \E k \in (IF x = p THEN Slots ELSE {0}),
              at \in (IF Named(p, x) THEN PointedAt(s, i, x) ELSE {Nothing}),
              n \in 1..count[i] :
             \E d \in QueryDestination(s, i, x, k, at),
               new \in (IF FreeAddresses = {} THEN {Nothing} ELSE FreeAddresses) :
                 Become(InternalMoveItem(s, i, n, d, new))
  BY <1>1 DEF PlayerMoveItem
<1>5. PICK k \in (IF x = p THEN Slots ELSE {0}),
           at \in (IF Named(p, x) THEN PointedAt(s, i, x) ELSE {Nothing}),
           n \in 1..count[i] :
             \E d \in QueryDestination(s, i, x, k, at),
               new \in (IF FreeAddresses = {} THEN {Nothing} ELSE FreeAddresses) :
                 Become(InternalMoveItem(s, i, n, d, new))
  BY <1>4
<1>6. PICK d \in QueryDestination(s, i, x, k, at),
            new \in (IF FreeAddresses = {} THEN {Nothing} ELSE FreeAddresses) :
              Become(InternalMoveItem(s, i, n, d, new))
  BY <1>5
<1>7. i \in Items /\ s.parent[i] \in Places /\ n \in 1..s.count[i]
  <2>1. s.parent[i] \in Places \cup {Nothing} /\ s.parent[i] # Nothing
    BY <1>2, <1>3, <1>4 DEF Tidy, Stores
  <2> QED
    BY <1>2, <1>4, <1>5, <2>1
<1>8. x \in Bags => s.parent[x] # Nothing
  <2>1. SUFFICES ASSUME x \in Bags PROVE s.parent[x] # Nothing
    OBVIOUS
  <2>2. CASE \E b \in Bags : parent[b] = x
    BY <1>2, <1>3, <2>1, <2>2 DEF Tidy, NoneAdrift, Items
  <2>3. CASE Named(p, x)
    <3>1. x # p /\ x \notin Tiles /\ x # Nothing
      BY <2>1, InventoryAssumption DEF Items
    <3>2. PICK w \in Windows : openContainers[p][w] = x
      BY <2>3, <3>1 DEF Named, IsOpen
    <3>3. InReach(s, position, p, x)
      BY <1>2, <1>3, <3>1, <3>2 DEF OpenAt
    <3> QED
      BY <1>3, <2>1, <3>3, ReachedIs
  <2> QED
    BY <1>4, <2>2, <2>3
<1>9. s.count[i] > 1 => new \in Stacks /\ s.parent[new] = Nothing
  <2>1. SUFFICES ASSUME s.count[i] > 1 PROVE new \in Stacks /\ s.parent[new] = Nothing
    OBVIOUS
  <2>2. \E g \in Stacks : s.parent[g] = Nothing
    BY <1>3, <1>7, <2>1, FreeAddress
  <2>3. FreeAddresses # {}
    BY <1>2, <2>2 DEF FreeAddresses
  <2>4. new \in FreeAddresses
    BY <1>6, <2>3
  <2> QED
    BY <1>2, <2>4 DEF FreeAddresses
<1>10. Aim(s, i, d, new)
  <2>1. at \in PointedAt(s, i, x) \cup {Nothing}
    BY <1>5
  <2>2. IF x = p THEN k \in Slots ELSE k = 0
    BY <1>5
  <2>3. /\ d = [to |-> d.to, slot |-> d.slot, at |-> d.at]
        /\ d.to \in Places /\ (d.to \in Bags => s.parent[d.to] # Nothing)
        /\ IF d.to \in Carriers
           THEN d.slot \in Slots /\ d.at = Occupant(s, d.to, d.slot) /\ d.at \notin Bags
           ELSE d.slot = 0
    BY <1>3, <1>4, <1>6, <1>8, <2>1, <2>2, AimIs
  <2> QED
    BY <1>9, <2>3 DEF Aim
<1>11. PICK r : r = InternalMoveItem(s, i, n, d, new)
  OBVIOUS
<1>12. Whole(r) /\ \A a : Fair(a) => Amount(a, r) = Amount(a, s)
  BY <1>3, <1>7, <1>10, <1>11, InternalMoveKeeps DEF Whole
<1>13. position' = position /\ made' = made
  BY DEF PlayerMoveItem
<1>14. Become(r)
  BY <1>6, <1>11
<1>15. made' = Amount(Weight, r) /\ Amount(Coin, r) <= MaxCoins
  BY <1>3, <1>12, <1>13, FairOnes
<1> QED
  BY <1>12, <1>13, <1>14, <1>15, Handled

\* Where only windows and players change, what is open is to be in reach.
LEMMA WindowsKeep ==
    ASSUME InventoryInv,
           UNCHANGED <<parent, slot, count, totalWeight, inventoryWeight, made>>,
           openContainers' \in [Carriers -> [Windows -> Bags \cup {Nothing}]],
           position' \in [Carriers -> Tiles],
           \A p \in Carriers, w \in Windows :
               openContainers'[p][w] # Nothing
               => InReach(Store, position', p, openContainers'[p][w])
    PROVE  InventoryInv'
<1>1. PICK s : s = Store
  OBVIOUS
<1>2. /\ Tidy(s, {}, {}) /\ Able(s) /\ made = Amount(Weight, s) /\ Amount(Coin, s) <= MaxCoins
      /\ s \in Stores /\ Acyclic(s)
  BY <1>1 DEF InventoryInv, Tidy
<1>3. /\ s.parent = parent /\ s.slot = slot /\ s.count = count /\ s.load = totalWeight
      /\ s.carried = inventoryWeight
  BY <1>1, StoreIs
<1>4. PICK r : r = [parent |-> s.parent, slot |-> s.slot, count |-> s.count, load |-> s.load,
                    carried |-> s.carried, open |-> openContainers']
  OBVIOUS
<1>5. /\ r.parent = s.parent /\ r.slot = s.slot /\ r.count = s.count /\ r.load = s.load
      /\ r.carried = s.carried /\ r.open = openContainers'
  BY <1>4
<1>6. Store' = r
  BY <1>3, <1>4 DEF Store
<1>7. r \in Stores
  BY <1>2, <1>4 DEF Stores
<1>8. \A x : WeightIn(r, x) = WeightIn(s, x)
  BY <1>2, <1>5, <1>7, WeightInSame
<1>9. Tidy(r, {}, {})
  <2>1. Remembered(r, {})
    BY <1>2, <1>5, <1>8 DEF Tidy, Remembered
  <2> QED
    BY <1>2, <1>5, <1>7, <2>1, TidySame
<1>10. Able(r)
  BY <1>2, <1>8 DEF Able
<1>11. OpenAt(r, position')
  <2>1. \A b : Root(r, b) = Root(s, b)
    BY <1>2, <1>5, SamePlaces
  <2> QED
    BY <1>1, <1>5, <2>1 DEF OpenAt, InReach
<1>12. Amount(Weight, r) = Amount(Weight, s) /\ Amount(Coin, r) = Amount(Coin, s)
  BY <1>5 DEF Amount
<1> QED
  BY <1>2, <1>6, <1>9, <1>10, <1>11, <1>12 DEF InventoryInv

\* What follows from the invariant of the windows.
LEMMA OpenIs ==
    ASSUME InventoryInv, NEW p \in Carriers, NEW w \in Windows
    PROVE  /\ openContainers[p][w] \in Bags \cup {Nothing}
           /\ openContainers[p][w] # Nothing => InReach(Store, position, p, openContainers[p][w])
  BY StoreIs DEF InventoryInv, Tidy, Stores, OpenAt

LEMMA OpenTyped ==
    ASSUME InventoryInv PROVE openContainers \in [Carriers -> [Windows -> Bags \cup {Nothing}]]
<1>1. Store.open \in [Carriers -> [Windows -> Bags \cup {Nothing}]]
  BY DEF InventoryInv, Tidy, Stores
<1> QED
  BY <1>1, StoreIs

\* One window of one player.
LEMMA OneWindow ==
    ASSUME InventoryInv, NEW p \in Carriers, NEW v, NEW b \in Bags \cup {Nothing},
           b # Nothing => InReach(Store, position, p, b),
           openContainers' = [openContainers EXCEPT ![p] = [@ EXCEPT ![v] = b]],
           UNCHANGED <<parent, slot, count, totalWeight, inventoryWeight, position, made>>
    PROVE  InventoryInv'
<1>1. openContainers \in [Carriers -> [Windows -> Bags \cup {Nothing}]]
  BY OpenTyped
<1>2. openContainers' \in [Carriers -> [Windows -> Bags \cup {Nothing}]]
  <2>1. [openContainers[p] EXCEPT ![v] = b] \in [Windows -> Bags \cup {Nothing}]
    BY <1>1
  <2> QED
    BY <1>1, <2>1
<1>3. ASSUME NEW q \in Carriers, NEW w \in Windows, openContainers'[q][w] # Nothing
      PROVE  InReach(Store, position', q, openContainers'[q][w])
  <2>1. CASE q = p /\ w = v
    <3>1. openContainers'[q][w] = b
      BY <1>1, <2>1
    <3> QED
      BY <1>3, <2>1, <3>1
  <2>2. CASE ~(q = p /\ w = v)
    <3>1. openContainers'[q][w] = openContainers[q][w]
      BY <1>1, <2>2
    <3> QED
      BY <1>3, <3>1, OpenIs
  <2> QED
    BY <2>1, <2>2
<1>4. position' \in [Carriers -> Tiles]
  BY DEF InventoryInv
<1> QED
  BY <1>2, <1>3, <1>4, WindowsKeep

\* Actions::internalUseItem of a bag.
LEMMA UseKeeps ==
    ASSUME InventoryInv, NEW p \in Carriers, NEW w \in Windows, UseContainer(p, w)
    PROVE  InventoryInv'
<1>1. PICK b \in Bags :
        /\ parent[b] # Nothing /\ Named(p, parent[b])
        /\ InRange(p, Root(Store, parent[b]))
        /\ LET opened == {v \in Windows : openContainers[p][v] = b}
           IN  openContainers' =
                 [openContainers EXCEPT ![p] =
                    IF opened = {} THEN [@ EXCEPT ![w] = b]
                    ELSE [@ EXCEPT ![CHOOSE v \in opened : \A u \in opened : v <= u] = Nothing]]
  BY DEF UseContainer
<1>2. UNCHANGED <<parent, slot, count, totalWeight, inventoryWeight, position, made>>
  BY DEF UseContainer
<1>3. PICK opened : opened = {v \in Windows : openContainers[p][v] = b}
  OBVIOUS
<1>4. CASE opened = {}
  <2>1. openContainers' = [openContainers EXCEPT ![p] = [@ EXCEPT ![w] = b]]
    BY <1>1, <1>3, <1>4
  <2>2. InReach(Store, position, p, b)
    <3>1. Tidy(Store, {}, {}) /\ Acyclic(Store) /\ Store.parent = parent
      BY StoreIs DEF InventoryInv, Tidy
    <3>2. PICK x : x = parent[b] /\ x # Nothing /\ Named(p, x) /\ InRange(p, Root(Store, x))
      BY <1>1
    <3>3. x \in Over(Store, b)
      BY <3>1, <3>2, OverBag
    <3>4. Root(Store, b) = Root(Store, x)
      BY <3>1, <3>3, RootOfPlace
    <3>5. Root(Store, x) # Nothing /\ (Root(Store, x) = p \/ Root(Store, x) \in Tiles)
      <4>1. CASE x = p \/ x \in Tiles
        <5>1. x \notin Bags
          BY <4>1, InventoryAssumption DEF Items
        <5> QED
          BY <3>2, <4>1, <5>1 DEF Root
      <4>2. CASE x \in Bags /\ IsOpen(p, x)
        <5>1. PICK v \in Windows : openContainers[p][v] = x
          BY <4>2 DEF IsOpen
        <5>2. InReach(Store, position, p, x)
          BY <3>2, <5>1, OpenIs
        <5> QED
          BY <5>2 DEF InReach
      <4> QED
        BY <3>2, <4>1, <4>2 DEF Named
    <3> QED
      BY <3>2, <3>4, <3>5 DEF InReach, InRange, TileOf
  <2> QED
    BY <1>2, <2>1, <2>2, OneWindow
<1>5. CASE opened # {}
  <2>1. PICK v : v = CHOOSE x \in opened : \A u \in opened : x <= u
    OBVIOUS
  <2>2. openContainers' = [openContainers EXCEPT ![p] = [@ EXCEPT ![v] = Nothing]]
    BY <1>1, <1>3, <1>5, <2>1
  <2>3. PICK c \in Bags \cup {Nothing} : c = Nothing
    OBVIOUS
  <2>4. openContainers' = [openContainers EXCEPT ![p] = [@ EXCEPT ![v] = c]]
    BY <2>2, <2>3
  <2> QED
    BY <1>2, <2>3, <2>4, OneWindow
<1> QED
  BY <1>4, <1>5

\* Game::playerMoveUpContainer and playerCloseContainer.
LEMMA MoveUpKeeps ==
    ASSUME InventoryInv, NEW p \in Carriers, NEW w \in Windows,
           PlayerMoveUpContainer(p, w) \/ PlayerCloseContainer(p, w)
    PROVE  InventoryInv'
<1>1. UNCHANGED <<parent, slot, count, totalWeight, inventoryWeight, position, made>>
  BY DEF PlayerMoveUpContainer, PlayerCloseContainer
<1>2. PICK b : b = openContainers[p][w]
  OBVIOUS
<1>3. b # Nothing
  BY <1>2 DEF PlayerMoveUpContainer, PlayerCloseContainer
<1>4. b \in Bags /\ InReach(Store, position, p, b)
  BY <1>2, <1>3, OpenIs
<1>5. openContainers \in [Carriers -> [Windows -> Bags \cup {Nothing}]]
  BY OpenTyped
<1>6. PICK c \in Bags \cup {Nothing} :
        /\ c # Nothing => c = parent[b]
        /\ openContainers' = [openContainers EXCEPT ![p] = [@ EXCEPT ![w] = c]]
  <2>1. CASE PlayerMoveUpContainer(p, w)
    <3>1. PICK c \in Bags \cup {Nothing} : c = IF parent[b] \in Bags THEN parent[b] ELSE Nothing
      OBVIOUS
    <3>2. openContainers' = [openContainers EXCEPT ![p] = [@ EXCEPT ![w] = c]]
      BY <1>2, <1>5, <2>1, <3>1 DEF PlayerMoveUpContainer
    <3> QED
      BY <3>1, <3>2
  <2>2. CASE PlayerCloseContainer(p, w)
    <3>1. openContainers' = [openContainers EXCEPT ![p] = [@ EXCEPT ![w] = Nothing]]
      BY <1>5, <2>2 DEF PlayerCloseContainer
    <3> QED
      BY <3>1
  <2> QED
    BY <2>1, <2>2
<1>7. c # Nothing => InReach(Store, position, p, c)
  <2>1. SUFFICES ASSUME c # Nothing PROVE InReach(Store, position, p, c)
    OBVIOUS
  <2>2. Tidy(Store, {}, {}) /\ Store.parent = parent
    BY StoreIs DEF InventoryInv
  <2>3. c \in Bags /\ c = parent[b]
    BY <1>6, <2>1
  <2>4. Root(Store, c) = Root(Store, b)
    BY <1>4, <2>2, <2>3, ReachedIs
  <2> QED
    BY <1>4, <2>4 DEF InReach
<1> QED
  BY <1>1, <1>6, <1>7, OneWindow

\* A step of a player: what lies out of reach then is closed.
LEMMA StepKeeps ==
    ASSUME InventoryInv, NEW p \in Carriers, Step(p) PROVE InventoryInv'
<1>1. PICK t \in Tiles \ {position[p]} :
         /\ position' = [position EXCEPT ![p] = t]
         /\ LET far == {b \in Bags : LET r == Root(Store, b)
                                    IN  r # p /\ IsOpen(p, b) /\ ~Beside(t, TileOf(r))}
            IN  openContainers' =
                  [openContainers EXCEPT ![p] =
                     [w \in Windows |->
                        IF @[w] # Nothing /\ (@[w] \in far \/ Around(Store, @[w]) \cap far # {})
                        THEN Nothing ELSE @[w]]]
  BY DEF Step
<1>2. PICK far : far = {b \in Bags : /\ Root(Store, b) # p /\ IsOpen(p, b)
                                     /\ ~Beside(t, TileOf(Root(Store, b)))}
  OBVIOUS
<1>3. UNCHANGED <<parent, slot, count, totalWeight, inventoryWeight, made>>
  BY DEF Step
<1>4. openContainers \in [Carriers -> [Windows -> Bags \cup {Nothing}]]
      /\ position \in [Carriers -> Tiles]
  BY OpenTyped DEF InventoryInv
<1>5. PICK f : f = [w \in Windows |->
                 IF openContainers[p][w] # Nothing
                    /\ (openContainers[p][w] \in far
                        \/ Around(Store, openContainers[p][w]) \cap far # {})
                 THEN Nothing ELSE openContainers[p][w]]
  OBVIOUS
<1>6. openContainers' = [openContainers EXCEPT ![p] = f]
  BY <1>1, <1>2, <1>5
<1>7. f \in [Windows -> Bags \cup {Nothing}]
  <2>1. \A w \in Windows : openContainers[p][w] \in Bags \cup {Nothing}
    BY <1>4
  <2> QED
    BY <1>5, <2>1
<1>8. openContainers' \in [Carriers -> [Windows -> Bags \cup {Nothing}]]
  BY <1>4, <1>6, <1>7
<1>9. position' \in [Carriers -> Tiles] /\ position'[p] = t
      /\ \A q \in Carriers \ {p} : position'[q] = position[q]
  BY <1>1, <1>4
<1>10. \A q \in Carriers : q \notin Tiles
  BY InventoryAssumption
<1>11. ASSUME NEW q \in Carriers, NEW w \in Windows, openContainers'[q][w] # Nothing
       PROVE  InReach(Store, position', q, openContainers'[q][w])
  <2>1. PICK b : b = openContainers'[q][w]
    OBVIOUS
  <2>2. CASE q # p
    <3>1. b = openContainers[q][w]
      BY <1>4, <1>6, <2>1, <2>2
    <3>2. InReach(Store, position, q, b)
      BY <1>11, <2>1, <3>1, OpenIs
    <3> QED
      BY <1>9, <1>10, <2>1, <2>2, <3>2 DEF InReach
  <2>3. CASE q = p
    <3>1. b = f[w]
      BY <1>4, <1>6, <2>1, <2>3
    <3>2. b = openContainers[p][w] /\ b \notin far
      BY <1>5, <1>11, <2>1, <3>1
    <3>3. InReach(Store, position, p, b) /\ b \in Bags
      BY <1>11, <2>1, <3>2, OpenIs
    <3>4. CASE Root(Store, b) = p
      <4>1. Beside(t, t)
        <5>1. PICK n \in DOMAIN Street : Street[n] = t
          BY DEF Tiles
        <5>2. DOMAIN Street = 1..Len(Street) /\ n \in Int
          <6>1. DOMAIN Street = 1..Len(Street)
            BY InventoryAssumption
          <6>2. Len(Street) \in Nat
            BY InventoryAssumption
          <6> QED
            BY <6>1, <6>2
        <5>3. n - n \in -1..1
          BY <5>2
        <5> QED
          BY <5>1, <5>3 DEF Beside
      <4> QED
        BY <1>9, <2>1, <2>3, <3>3, <3>4, <4>1 DEF InReach
    <3>5. CASE Root(Store, b) # p
      <4>1. Root(Store, b) \in Tiles
        BY <3>3, <3>5 DEF InReach
      <4>2. Beside(t, Root(Store, b))
        <5>1. IsOpen(p, b)
          BY <3>2 DEF IsOpen
        <5>2. TileOf(Root(Store, b)) = Root(Store, b)
          BY <1>10, <4>1 DEF TileOf
        <5> QED
          BY <1>2, <3>2, <3>3, <3>5, <5>1, <5>2
      <4> QED
        BY <1>9, <1>10, <2>1, <2>3, <3>3, <4>1, <4>2 DEF InReach
    <3> QED
      BY <3>4, <3>5
  <2> QED
    BY <2>2, <2>3
<1> QED
  BY <1>3, <1>8, <1>9, <1>11, WindowsKeep

-----------------------------------------------------------------------------
\* A new stack.
LEMMA AddLootKeeps ==
    ASSUME InventoryInv, NEW g \in Stacks, AddLoot(g) PROVE InventoryInv'
<1>1. PICK s : s = Store
  OBVIOUS
<1>2. /\ Tidy(s, {}, {}) /\ OpenAt(s, position) /\ Able(s) /\ made = Amount(Weight, s)
      /\ Amount(Coin, s) <= MaxCoins /\ s \in Stores /\ Acyclic(s) /\ Counts(s)
  BY <1>1 DEF InventoryInv, Tidy
<1>3. /\ s.parent = parent /\ s.slot = slot /\ s.count = count /\ s.open = openContainers
  BY <1>1, StoreIs
<1>4. PICK t \in Tiles : Become(PostAddNotification(AddThing(s, t, 0, g, 1), t))
  BY <1>1 DEF AddLoot
<1>5. s.parent[g] = Nothing /\ s.count[g] = 0 /\ g \in Items /\ g \notin Bags
  BY <1>2, <1>3, InventoryAssumption DEF AddLoot, Counts, Items
<1>6. t \notin Bags /\ t \notin Carriers /\ t \in Places /\ g # t
  BY <1>5, InventoryAssumption DEF Items, Places
<1>7. PICK r : r = AddThing(s, t, 0, g, 1)
  OBVIOUS
<1>8. Over(s, t) = {t}
  BY <1>6, OverOther
<1>9. Free(s, t, 0, g)
  BY <1>6, <1>8 DEF Free
<1>10. /\ Tidy(r, {} \ {g}, {} \cup Over(s, t)) /\ PutIn(s, r, t, 0, g, 1)
       /\ Heavier(s, r, t, Gross(s, g, 1))
  <2>1. PICK n \in Nat \ {0} : n = 1
    OBVIOUS
  <2>2. r = AddThing(s, t, 0, g, n)
    BY <1>7, <2>1
  <2>3. /\ Tidy(r, {} \ {g}, {} \cup Over(s, t)) /\ PutIn(s, r, t, 0, g, n)
        /\ Heavier(s, r, t, Gross(s, g, n))
    BY <1>2, <1>5, <1>9, <2>2, AddKeeps
  <2> QED
    BY <2>1, <2>3
<1>11. Tidy(r, {}, {}) /\ r \in Stores /\ Acyclic(r)
  <2>1. {} \ {g} = {} /\ {} \cup Over(s, t) = {t}
    BY <1>8
  <2>2. Tidy(r, {}, {t})
    BY <1>10, <2>1
  <2> QED
    BY <1>6, <2>2 DEF Tidy, Remembered
<1>12. Become(r)
  <2>1. Root(r, t) = t
    BY <1>6 DEF Root
  <2> QED
    BY <1>4, <1>6, <1>7, <2>1 DEF PostAddNotification
<1>13. Able(r)
  <2>1. SUFFICES ASSUME NEW c \in Carriers PROVE WeightIn(r, c) <= Capacity
    BY DEF Able
  <2>2. WeightIn(r, c) = WeightIn(s, c) + 0
    BY <1>6, <1>8, <1>10 DEF Heavier
  <2>3. WeightIn(s, c) \in Int /\ WeightIn(s, c) <= Capacity
    BY <1>2, WeightInIs DEF Able
  <2> QED
    BY <2>2, <2>3
<1>14. OpenAt(r, position)
  <2>1. r.open = s.open /\ \A b \in Bags : r.parent[b] = s.parent[b]
    BY <1>2, <1>5, <1>10 DEF PutIn, Stores, Items
  <2>2. \A b : Root(r, b) = Root(s, b)
    <3>1. \A b : Over(r, b) = Over(s, b)
      BY <2>1, OverSame
    <3> QED
      BY <1>2, <1>11, <3>1, RootSame
  <2> QED
    BY <1>2, <2>1, <2>2 DEF OpenAt, InReach
<1>15. ASSUME NEW a, Fair(a) PROVE Amount(a, r) = Amount(a, s) + a[g]
  <2>1. a \in [Items -> Nat] /\ a[g] \in Nat
    BY <1>5, <1>15 DEF Fair
  <2>2. r.count = [s.count EXCEPT ![g] = 1]
    BY <1>10 DEF PutIn
  <2>3. r.count[g] = 1 /\ \A j \in Items \ {g} : r.count[j] = s.count[j]
    BY <1>2, <1>5, <2>2 DEF Stores
  <2>4. PICK k \in Int : k = 1
    OBVIOUS
  <2>5. r.count[g] = s.count[g] + k
    BY <1>5, <2>3, <2>4
  <2>6. Amount(a, r) = Amount(a, s) + a[g] * k
    BY <1>2, <1>5, <1>11, <2>1, <2>3, <2>5, AmountChanged
  <2> QED
    BY <2>1, <2>4, <2>6
<1>16. position' = position /\ made' = made + Weight[g] /\ Summed(count, Stacks) < MaxCoins
  BY DEF AddLoot
<1>17. made' = Amount(Weight, r)
  BY <1>2, <1>15, <1>16, FairOnes
<1>18. Amount(Coin, r) <= MaxCoins
  <2>1. Amount(Coin, r) = Amount(Coin, s) + Coin[g] /\ Coin[g] = 1
    BY <1>5, <1>15, FairOnes DEF Coin
  <2>2. Summed(s.count, Stacks) = Amount(Coin, s) /\ Amount(Coin, s) \in Int
    BY <1>2, CoinsAre
  <2>3. MaxCoins \in Nat
    BY InventoryAssumption
  <2> QED
    BY <1>3, <1>16, <2>1, <2>2, <2>3
<1>19. Whole(r)
  BY <1>11, <1>13, <1>14 DEF Whole
<1> QED
  BY <1>12, <1>16, <1>17, <1>18, <1>19, Handled

-----------------------------------------------------------------------------
(***************************************************************************)
(* What is freed: all that hangs in nothing.                               *)
(***************************************************************************)
Lost(s, j) == Nothing \in Over(s, s.parent[j])

LEMMA FreedIs ==
    ASSUME NEW s \in Stores, NEW f, f = Freed(s)
    PROVE  /\ f \in Stores
           /\ \A j \in Items : /\ f.parent[j] = IF Lost(s, j) THEN Nothing ELSE s.parent[j]
                               /\ f.count[j] = IF Lost(s, j) THEN 0 ELSE s.count[j]
           /\ \A b \in Bags : f.load[b] = IF Lost(s, b) THEN 0 ELSE s.load[b]
           /\ f.slot = s.slot /\ f.carried = s.carried /\ f.open = s.open
<1>1. PICK lost : lost = {j \in Items : s.parent[j] = Nothing \/ Nothing \in Around(s, j)}
  OBVIOUS
<1>2. ASSUME NEW j \in Items PROVE j \in lost <=> Lost(s, j)
  <2>1. Around(s, j) = Over(s, s.parent[j]) /\ s.parent[j] \in Over(s, s.parent[j])
    BY AroundIsOver, OverIsLeast
  <2> QED
    BY <1>1, <2>1 DEF Lost
<1>3. PICK p, c, l :
        /\ p = [j \in Items |-> IF j \in lost THEN Nothing ELSE s.parent[j]]
        /\ c = [j \in Items |-> IF j \in lost THEN 0 ELSE s.count[j]]
        /\ l = [b \in Bags |-> IF b \in lost THEN 0 ELSE s.load[b]]
  OBVIOUS
<1>4. f = [s EXCEPT !.parent = p, !.count = c, !.load = l]
  BY <1>1, <1>3 DEF Freed
<1>5. /\ f.parent = p /\ f.count = c /\ f.load = l
      /\ f.slot = s.slot /\ f.carried = s.carried /\ f.open = s.open
  BY <1>4 DEF Stores
<1>6. p \in [Items -> Places \cup {Nothing}] /\ c \in [Items -> Nat] /\ l \in [Bags -> Int]
  <2>1. \A j \in Items : s.parent[j] \in Places \cup {Nothing} /\ s.count[j] \in Nat
    BY DEF Stores
  <2>2. \A b \in Bags : s.load[b] \in Int
    BY DEF Stores
  <2> QED
    BY <1>3, <2>1, <2>2
<1>7. f \in Stores
  BY <1>4, <1>5, <1>6 DEF Stores
<1> QED
  BY <1>2, <1>3, <1>5, <1>7 DEF Items

\* What is not lost is in nothing that is.
LEMMA LostIs ==
    ASSUME NEW s \in Stores, NEW j \in Items
    PROVE  /\ Lost(s, j) <=> s.parent[j] = Nothing \/ (s.parent[j] \in Bags /\ Lost(s, s.parent[j]))
           /\ j \in Bags => (Lost(s, j) <=> Nothing \in Over(s, j))
<1>1. Nothing \notin Bags
  BY InventoryAssumption DEF Items
<1>2. ASSUME NEW b \in Bags PROVE Lost(s, b) <=> Nothing \in Over(s, b)
  <2>1. Over(s, b) = {b} \cup Over(s, s.parent[b])
    BY OverBag
  <2> QED
    BY <1>1, <2>1 DEF Lost
<1>3. CASE s.parent[j] \in Bags
  BY <1>1, <1>2, <1>3 DEF Lost
<1>4. CASE s.parent[j] \notin Bags
  <2>1. Over(s, s.parent[j]) = {s.parent[j]}
    BY <1>4, OverOther
  <2> QED
    BY <1>2, <1>4, <2>1 DEF Lost
<1> QED
  BY <1>3, <1>4

LEMMA FreedKeeps ==
    ASSUME NEW s, NEW i, NEW D, Tidy(s, {i}, D), NEW f, f = Freed(s)
    PROVE  /\ Tidy(f, {}, D) /\ \A c \in Carriers : WeightIn(f, c) = WeightIn(s, c)
           /\ \A b \in Bags : ~Lost(s, b) => Over(f, b) = Over(s, b)
<1>1. s \in Stores /\ Acyclic(s) /\ WornApart(s) /\ Counts(s) /\ Weighed(s)
      /\ Nothing \notin Bags \cup Carriers /\ Bags \cap Carriers = {}
      /\ NoneAdrift(s, {i}) /\ Remembered(s, D)
  BY InventoryAssumption DEF Tidy, Items
<1>2. /\ f \in Stores
      /\ \A j \in Items : /\ f.parent[j] = IF Lost(s, j) THEN Nothing ELSE s.parent[j]
                          /\ f.count[j] = IF Lost(s, j) THEN 0 ELSE s.count[j]
      /\ \A b \in Bags : f.load[b] = IF Lost(s, b) THEN 0 ELSE s.load[b]
      /\ f.slot = s.slot /\ f.carried = s.carried /\ f.open = s.open
  BY <1>1, FreedIs
<1>3. \A j \in Items : Lost(s, j) <=> s.parent[j] = Nothing
                                      \/ (s.parent[j] \in Bags /\ Lost(s, s.parent[j]))
  BY <1>1, LostIs
<1>4. \A b \in Bags : b \in Items
  BY DEF Items
<1>5. ASSUME NEW b \in Bags, ~Lost(s, b) PROVE Over(f, b) = Over(s, b)
  <2>1. Nothing \notin Over(s, b)
    BY <1>1, <1>4, <1>5, LostIs
  <2>2. ASSUME NEW c \in Over(s, b) \cap Bags PROVE f.parent[c] = s.parent[c]
    <3>1. Nothing \notin Over(s, c)
      BY <2>1, <2>2, OverOver
    <3>2. ~Lost(s, c)
      BY <1>1, <1>4, <2>2, <3>1, LostIs
    <3> QED
      BY <1>2, <1>4, <2>2, <3>2
  <2> QED
    BY <2>2, OverSame
<1>6. Acyclic(f)
  <2>1. SUFFICES ASSUME NEW b \in Bags, b \in Over(f, f.parent[b]) PROVE FALSE
    BY DEF Acyclic
  <2>2. CASE Lost(s, b)
    BY <1>1, <1>2, <1>4, <2>1, <2>2, OverOther
  <2>3. CASE ~Lost(s, b)
    <3>1. f.parent[b] = s.parent[b]
      BY <1>2, <1>4, <2>3
    <3>2. CASE s.parent[b] \in Bags
      <4>1. ~Lost(s, s.parent[b])
        BY <1>3, <1>4, <2>3, <3>2
      <4> QED
        BY <1>1, <1>5, <2>1, <3>1, <3>2, <4>1 DEF Acyclic
    <3>3. CASE s.parent[b] \notin Bags
      BY <2>1, <3>1, <3>3, OverOther
    <3> QED
      BY <3>2, <3>3
  <2> QED
    BY <2>2, <2>3
<1>7. WornApart(f)
  <2>1. ASSUME NEW j \in Items PROVE f.parent[j] \in Carriers <=> s.parent[j] \in Carriers
    BY <1>1, <1>2, <1>3
  <2>2. ASSUME NEW j \in Items, f.parent[j] \in Carriers PROVE f.parent[j] = s.parent[j]
    BY <1>1, <1>2, <2>2
  <2> QED
    BY <1>1, <1>2, <2>1, <2>2 DEF WornApart
<1>8. Counts(f)
  BY <1>1, <1>2, <1>3 DEF Counts
<1>9. NoneAdrift(f, {})
  <2>1. SUFFICES ASSUME NEW j \in Items, f.parent[j] \in Bags \ {}
                 PROVE  f.parent[f.parent[j]] # Nothing
    BY DEF NoneAdrift
  <2>2. f.parent[j] = s.parent[j] /\ ~Lost(s, j)
    BY <1>1, <1>2, <2>1
  <2>3. ~Lost(s, s.parent[j]) /\ s.parent[j] \in Bags
    BY <1>3, <2>1, <2>2
  <2>4. s.parent[s.parent[j]] # Nothing
    BY <1>3, <1>4, <2>3
  <2> QED
    BY <1>2, <1>4, <2>2, <2>3, <2>4
<1>10. ASSUME NEW y, y \in Carriers \/ (y \in Bags /\ ~Lost(s, y))
       PROVE  WeightIn(f, y) = WeightIn(s, y)
  <2>1. ASSUME NEW j \in Items
        PROVE  /\ f.parent[j] = y <=> s.parent[j] = y
               /\ s.parent[j] = y => WeightOf(f, j) = WeightOf(s, j)
    <3>1. y # Nothing
      BY <1>1, <1>10
    <3>2. s.parent[j] = y => ~Lost(s, j)
      BY <1>1, <1>3, <1>10, <3>1
    <3>3. ~Lost(s, j) => WeightOf(f, j) = WeightOf(s, j)
      BY <1>2 DEF WeightOf
    <3> QED
      BY <1>2, <3>1, <3>2, <3>3
  <2>2. Pull(f, y) = Pull(s, y)
    BY <2>1 DEF Pull
  <2> QED
    BY <1>1, <1>2, <2>2, WeightInIs
<1>11. Weighed(f)
  <2>1. SUFFICES ASSUME NEW b \in Bags PROVE f.load[b] = WeightIn(f, b)
    BY DEF Weighed
  <2>2. CASE ~Lost(s, b)
    BY <1>1, <1>2, <1>10, <2>2 DEF Weighed
  <2>3. CASE Lost(s, b)
    <3>1. ASSUME NEW j \in Items PROVE Pull(f, b)[j] = 0
      <4>1. f.parent[j] # b
        BY <1>1, <1>2, <1>3, <2>3
      <4> QED
        BY <4>1 DEF Pull
    <3>2. Total(Pull(f, b), Items) = 0
      BY <3>1, ItemsFinite, TotalZero
    <3> QED
      BY <1>2, <2>3, <3>2, WeightInIs
  <2> QED
    BY <2>2, <2>3
<1>12. Remembered(f, D)
  BY <1>1, <1>2, <1>10 DEF Remembered
<1> QED
  BY <1>2, <1>5, <1>6, <1>7, <1>8, <1>9, <1>10, <1>11, <1>12 DEF Tidy

\* What there is of the items of some bags' insides is what the bags weigh that
\* are in none of them: where nothing is in a bag that lies nowhere but in i, what
\* is lost weighs what i remembers.
LEMMA FreedWeight ==
    ASSUME NEW s, NEW i \in Items, NEW D, Tidy(s, {i}, D), NEW f, f = Freed(s)
    PROVE  Amount(Weight, f) = Amount(Weight, s)
                               - (IF i \in Bags /\ s.parent[i] = Nothing THEN s.load[i] ELSE 0)
<1>1. s \in Stores /\ Counts(s) /\ Weighed(s) /\ Nothing \notin Bags /\ NoneAdrift(s, {i})
      /\ \A b \in Bags : s.load[b] \in Int /\ b \notin Stacks /\ b \in Items
  BY InventoryAssumption DEF Tidy, Items, Stores
<1>2. /\ f \in Stores
      /\ \A j \in Items : f.count[j] = IF Lost(s, j) THEN 0 ELSE s.count[j]
  BY <1>1, FreedIs
<1>3. \A j \in Items : Lost(s, j) <=> s.parent[j] = Nothing
                                      \/ (s.parent[j] \in Bags /\ Lost(s, s.parent[j]))
  BY <1>1, LostIs
<1>4. PICK L : L = {b \in Bags : Lost(s, b)}
  OBVIOUS
<1>5. L \in SUBSET Items /\ IsFiniteSet(L) /\ L \subseteq Bags
  <2>1. L \in SUBSET Items
    BY <1>1, <1>4
  <2> QED
    BY <1>4, <2>1, ItemsFinite, FS_Subset
<1>6. \A j \in Items : WeightOf(s, j) \in Int /\ Weight[j] * s.count[j] \in Int
                       /\ Weight[j] * f.count[j] \in Int
  <2>1. ASSUME NEW j \in Items PROVE Weight[j] * s.count[j] \in Int /\ Weight[j] * f.count[j] \in Int
    <3>1. Weight[j] \in Nat /\ s.count[j] \in Nat /\ f.count[j] \in Nat
      BY <1>1, <1>2, InventoryAssumption DEF Stores
    <3> QED
      BY <3>1
  <2> QED
    BY <1>1, <2>1, WeightTyped
\* what the things in lost bags weigh with what is in them
<1>7. PICK whole : whole = [j \in Items |-> IF s.parent[j] \in L THEN WeightOf(s, j) ELSE 0]
  OBVIOUS
\* without
<1>8. PICK bare : bare = [j \in Items |-> IF s.parent[j] \in L THEN Weight[j] * s.count[j] ELSE 0]
  OBVIOUS
\* what is in them
<1>9. PICK in : in = [j \in Items |-> IF s.parent[j] \in L /\ j \in Bags THEN s.load[j] ELSE 0]
  OBVIOUS
<1>10. PICK all : all = [j \in Items |-> IF j \in L THEN s.load[j] ELSE 0]
  OBVIOUS
<1>11. AllIntegers(whole, Items) /\ AllIntegers(bare, Items)
       /\ AllIntegers(in, Items) /\ AllIntegers(all, Items)
  BY <1>1, <1>5, <1>6, <1>7, <1>8, <1>9, <1>10 DEF AllIntegers
<1>12. Total(whole, Items) = Total(all, Items)
  <2>1. PICK k, p : k = ByClass(Items, whole, p, L) /\ p = s.parent
    OBVIOUS
  <2>2. \A j \in Items : p[j] \in L \/ whole[j] = 0
    BY <1>7, <2>1
  <2>3. Total(k, L) = Total(whole, Items) /\ AllIntegers(k, L)
    BY <1>5, <1>11, <2>1, <2>2, ItemsFinite, TotalByClass
  <2>4. ASSUME NEW c \in L PROVE k[c] = s.load[c]
    <3>1. PICK v : v = [j \in Items |-> IF p[j] = c THEN whole[j] ELSE 0]
      OBVIOUS
    <3>2. k[c] = Total(v, Items)
      BY <2>1, <3>1 DEF ByClass
    <3>3. \A j \in Items : v[j] = Pull(s, c)[j]
      BY <1>7, <2>1, <2>4, <3>1 DEF Pull
    <3>4. Total(v, Items) = Total(Pull(s, c), Items)
      BY <3>3, ItemsFinite, TotalSame
    <3> QED
      BY <1>1, <1>5, <2>4, <3>2, <3>4, WeightInIs DEF Weighed
  <2>5. \A j \in Items : all[j] = IF j \in L THEN k[j] ELSE 0
    BY <1>10, <2>4
  <2>6. Total(all, Items) = Total(k, L)
    BY <1>5, <2>3, <2>5, ItemsFinite, TotalWhere
  <2> QED
    BY <2>3, <2>6
<1>13. Total(whole, Items) = Total(bare, Items) + Total(in, Items)
  <2>1. ASSUME NEW j \in Items PROVE whole[j] = bare[j] + in[j]
    <3>1. CASE s.parent[j] \notin L
      BY <1>7, <1>8, <1>9, <3>1
    <3>2. CASE s.parent[j] \in L /\ j \notin Bags
      BY <1>6, <1>7, <1>8, <1>9, <3>2 DEF WeightOf
    <3>3. CASE s.parent[j] \in L /\ j \in Bags
      <4>1. s.count[j] = 1
        <5>1. s.parent[j] # Nothing /\ s.count[j] \in Nat
          BY <1>1, <1>5, <3>3 DEF Stores
        <5> QED
          BY <1>1, <3>3, <5>1 DEF Counts
      <4>2. Weight[j] * 1 = Weight[j]
        <5>1. Weight[j] \in Nat
          BY InventoryAssumption
        <5> QED
          BY <5>1
      <4> QED
        BY <1>7, <1>8, <1>9, <3>3, <4>1, <4>2 DEF WeightOf
    <3> QED
      BY <3>1, <3>2, <3>3
  <2> QED
    BY <1>11, <2>1, ItemsFinite, TotalAdded
<1>14. PICK out \in Int : out = (IF i \in Bags /\ s.parent[i] = Nothing THEN s.load[i] ELSE 0)
  BY <1>1
<1>15. Total(all, Items) = Total(in, Items) + out
  <2>1. ASSUME NEW j \in Items \ {i} PROVE all[j] = in[j]
    <3>1. CASE j \notin Bags
      BY <1>5, <1>9, <1>10, <3>1
    <3>2. CASE j \in Bags /\ s.parent[j] = Nothing
      <4>1. \A h \in Items : s.parent[h] # j
        BY <1>1, <2>1, <3>2 DEF NoneAdrift
      <4>2. \A h \in Items : Pull(s, j)[h] = 0
        BY <4>1 DEF Pull
      <4>3. s.load[j] = 0
        <5>1. Total(Pull(s, j), Items) = 0
          BY <4>2, ItemsFinite, TotalZero
        <5> QED
          BY <1>1, <3>2, <5>1, WeightInIs DEF Weighed
      <4> QED
        BY <1>9, <1>10, <3>2, <4>3
    <3>3. CASE j \in Bags /\ s.parent[j] # Nothing
      <4>1. j \in L <=> s.parent[j] \in L
        BY <1>3, <1>4, <3>3
      <4> QED
        BY <1>9, <1>10, <3>3, <4>1
    <3> QED
      BY <3>1, <3>2, <3>3
  <2>2. all[i] = in[i] + out
    <3>1. CASE i \in Bags /\ s.parent[i] = Nothing
      <4>1. i \in L /\ s.parent[i] \notin L
        BY <1>1, <1>3, <1>4, <1>5, <3>1
      <4> QED
        BY <1>1, <1>9, <1>10, <1>14, <3>1, <4>1
    <3>2. CASE i \in Bags /\ s.parent[i] # Nothing
      <4>1. i \in L <=> s.parent[i] \in L
        BY <1>3, <1>4, <3>2
      <4> QED
        BY <1>1, <1>9, <1>10, <1>14, <3>2, <4>1
    <3>3. CASE i \notin Bags
      BY <1>5, <1>9, <1>10, <1>14, <3>3
    <3> QED
      BY <3>1, <3>2, <3>3
  <2>3. Total(all, Items) = Total(in, Items) - in[i] + all[i] /\ Total(in, Items) \in Int
    BY <1>11, <2>1, ItemsFinite, TotalMoved
  <2>4. in[i] \in Int
    BY <1>11 DEF AllIntegers
  <2> QED
    BY <2>2, <2>3, <2>4
<1>16. Total(bare, Items) = out /\ Total(bare, Items) \in Int
  <2>1. Total(bare, Items) \in Int /\ Total(in, Items) \in Int
    BY <1>11, ItemsFinite, TotalInt
  <2>2. PICK b \in Int, n \in Int : b = Total(bare, Items) /\ n = Total(in, Items)
    BY <2>1
  <2>3. b + n = n + out
    BY <1>12, <1>13, <1>15, <2>2
  <2>4. b = out
    BY ONLY <2>3, b \in Int, n \in Int, out \in Int
  <2> QED
    BY <2>2, <2>4
<1>17. Amount(Weight, s) = Amount(Weight, f) + Total(bare, Items)
  <2>1. PICK u, v : u = [j \in Items |-> Weight[j] * s.count[j]]
                    /\ v = [j \in Items |-> Weight[j] * f.count[j]]
    OBVIOUS
  <2>2. AllIntegers(v, Items)
    BY <1>6, <2>1 DEF AllIntegers
  <2>3. ASSUME NEW j \in Items PROVE u[j] = v[j] + bare[j]
    <3>1. Weight[j] * 0 = 0 /\ s.count[j] \in Nat
      <4>1. Weight[j] \in Nat /\ s.count[j] \in Nat
        BY <1>1, InventoryAssumption DEF Stores
      <4> QED
        BY <4>1
    <3>2. CASE s.parent[j] \in L
      <4>1. Lost(s, j)
        BY <1>3, <1>4, <3>2
      <4> QED
        BY <1>2, <1>6, <1>8, <2>1, <3>1, <3>2, <4>1
    <3>3. CASE s.parent[j] \notin L /\ s.parent[j] = Nothing
      <4>1. s.count[j] = 0 /\ f.count[j] = 0
        BY <1>1, <1>2, <1>3, <3>3 DEF Counts
      <4> QED
        BY <1>8, <2>1, <3>1, <3>3, <4>1
    <3>4. CASE s.parent[j] \notin L /\ s.parent[j] # Nothing
      <4>1. ~Lost(s, j)
        BY <1>3, <1>4, <3>4
      <4> QED
        BY <1>2, <1>6, <1>8, <2>1, <3>4, <4>1
    <3> QED
      BY <3>2, <3>3, <3>4
  <2>4. Total(u, Items) = Total(v, Items) + Total(bare, Items)
    BY <1>11, <2>2, <2>3, ItemsFinite, TotalAdded
  <2> QED
    BY <2>1, <2>4 DEF Amount
<1>18. Amount(Weight, f) \in Int
  <2>1. PICK v : v = [j \in Items |-> Weight[j] * f.count[j]]
    OBVIOUS
  <2>2. AllIntegers(v, Items)
    BY <1>6, <2>1 DEF AllIntegers
  <2>3. Total(v, Items) \in Int
    BY <2>2, ItemsFinite, TotalInt
  <2> QED
    BY <2>1, <2>3 DEF Amount
<1> QED
  BY <1>14, <1>16, <1>17, <1>18

\* Fewer of each are fewer.
LEMMA AmountLess ==
    ASSUME NEW s \in Stores, NEW r \in Stores, \A j \in Items : r.count[j] <= s.count[j],
           NEW a, Fair(a)
    PROVE  Amount(a, r) <= Amount(a, s) /\ Amount(a, r) \in Int /\ Amount(a, s) \in Int
<1>1. PICK u, v, w : /\ u = [j \in Items |-> a[j] * s.count[j]]
                     /\ v = [j \in Items |-> a[j] * r.count[j]]
                     /\ w = [j \in Items |-> a[j] * (s.count[j] - r.count[j])]
  OBVIOUS
<1>2. ASSUME NEW j \in Items
      PROVE  u[j] = v[j] + w[j] /\ u[j] \in Int /\ v[j] \in Int /\ w[j] \in Nat
  <2>1. a[j] \in Nat /\ s.count[j] \in Nat /\ r.count[j] \in Nat /\ r.count[j] <= s.count[j]
    BY DEF Stores, Fair
  <2>2. PICK b \in Nat, m \in Nat, n \in Nat :
          b = a[j] /\ m = r.count[j] /\ n = s.count[j] - r.count[j]
    BY <2>1
  <2>3. b * (m + n) = b * m + b * n /\ b * m \in Nat /\ b * n \in Nat
    BY ONLY b \in Nat, m \in Nat, n \in Nat
  <2>4. s.count[j] = m + n
    BY <2>1, <2>2
  <2>5. u[j] = b * (m + n) /\ v[j] = b * m /\ w[j] = b * n
    BY <1>1, <2>2, <2>4
  <2> QED
    BY <2>3, <2>5
<1>3. AllIntegers(u, Items) /\ AllIntegers(v, Items) /\ AllIntegers(w, Items)
  BY <1>2 DEF AllIntegers
<1>4. Total(u, Items) = Total(v, Items) + Total(w, Items)
  BY <1>2, <1>3, ItemsFinite, TotalAdded
<1>5. w \in [Items -> Nat]
  BY <1>1, <1>2
<1>6. Total(w, Items) \in Nat
  BY <1>5, ItemsFinite, TotalNat
<1>7. Total(v, Items) \in Int
  BY <1>3, ItemsFinite, TotalInt
<1> QED
  BY <1>1, <1>4, <1>6, <1>7 DEF Amount

\* Game::internalRemoveItem: what was in the item is gone with it.
LEMMA RemoveItemKeeps ==
    ASSUME InventoryInv, NEW i \in Items, InternalRemoveItem(i) PROVE InventoryInv'
<1>1. PICK s, x : s = Store /\ x = s.parent[i]
  OBVIOUS
<1>2. /\ Tidy(s, {}, {}) /\ OpenAt(s, position) /\ Able(s) /\ made = Amount(Weight, s)
      /\ Amount(Coin, s) <= MaxCoins /\ s \in Stores /\ Acyclic(s) /\ Counts(s)
  BY <1>1 DEF InventoryInv, Tidy
<1>3. s.parent = parent /\ s.count = count
  BY <1>1, StoreIs
<1>4. PICK n \in 1..s.count[i] :
        /\ Become(Freed(PostRemoveNotification(RemoveThing(s, x, i, n), x, i)))
        /\ made' = made - (IF i \in Stacks THEN Weight[i] * n ELSE WeightOf(s, i))
  BY <1>1, <1>3 DEF InternalRemoveItem
<1>5. x \in Places /\ s.count[i] \in Nat /\ n \in Nat
  BY <1>1, <1>2, <1>3 DEF InternalRemoveItem, Stores
<1>6. PICK o, q, f : /\ o = RemoveThing(s, x, i, n)
                     /\ q = PostRemoveNotification(o, x, i)
                     /\ f = Freed(q)
  OBVIOUS
<1>7. PICK w \in Nat : w = Portion(s, i, n)
  BY <1>2, <1>5, PortionNat
<1>8. /\ Tidy(o, {i}, Over(s, x)) /\ Removed(s, o, i, n)
      /\ Heavier(s, o, x, -w) /\ LoadsMore(s, o, x, -w)
      /\ n < s.count[i] => i \in Stacks
  <2>1. /\ Tidy(o, {} \cup {i}, {} \cup Over(s, x)) /\ Removed(s, o, i, n)
        /\ Heavier(s, o, x, -Portion(s, i, n)) /\ LoadsMore(s, o, x, -Portion(s, i, n))
        /\ n < s.count[i] => i \in Stacks
    BY <1>1, <1>2, <1>5, <1>6, RemoveKeeps
  <2>2. {} \cup {i} = {i} /\ {} \cup Over(s, x) = Over(s, x)
    OBVIOUS
  <2> QED
    BY <1>7, <2>1, <2>2
<1>9. i \in Stacks => i \notin Bags
  BY InventoryAssumption
<1>10. o.open = s.open /\ \A b \in Bags \ {i} : o.parent[b] = s.parent[b]
  BY <1>2, <1>8 DEF Removed, Stores, Items
<1>11. /\ Tidy(q, {i}, Over(s, x) \ {Root(s, x)}) /\ OpenAt(q, position)
       /\ q.parent = o.parent /\ q.slot = o.slot /\ q.count = o.count /\ q.load = o.load
  <2>1. i \notin Bags => \A b \in Bags : o.parent[b] = s.parent[b]
    BY <1>10
  <2>2. PICK E, U : E = {i} /\ U = Over(s, x)
    OBVIOUS
  <2>3. Tidy(o, E, U)
    BY <1>8, <2>2
  <2>4. s \in Stores /\ Acyclic(s) /\ OpenAt(s, position) /\ x \in Places /\ s.parent[i] = x
    BY <1>1, <1>2, <1>5
  <2>5. o.open = s.open
    BY <1>10
  <2>6. \A b \in Bags \ {i} : o.parent[b] = s.parent[b]
    BY <1>10
  <2>7. q = PostRemoveNotification(o, x, i)
    BY <1>6
  <2>8. /\ Tidy(q, E, U \ {Root(s, x)}) /\ OpenAt(q, position)
        /\ q.parent = o.parent /\ q.slot = o.slot /\ q.count = o.count /\ q.load = o.load
    BY <2>1, <2>3, <2>4, <2>5, <2>6, <2>7, PostRemoveKeeps
  <2> QED
    BY <2>2, <2>8
<1>12. PICK D : D = Over(s, x) \ {Root(s, x)}
  OBVIOUS
<1>13. /\ Tidy(f, {}, D) /\ \A c \in Carriers : WeightIn(f, c) = WeightIn(q, c)
       /\ \A b \in Bags : ~Lost(q, b) => Over(f, b) = Over(q, b)
  BY <1>6, <1>11, <1>12, FreedKeeps
<1>14. o \in Stores /\ q \in Stores /\ f \in Stores /\ Acyclic(q) /\ Acyclic(f)
  BY <1>8, <1>11, <1>13 DEF Tidy
<1>15. Tidy(f, {}, {})
  <2>1. \A p \in Carriers : p \notin D
    <3>1. \A p \in Carriers : p \notin Bags
      BY InventoryAssumption DEF Items
    <3> QED
      BY <1>2, <1>12, <3>1, RootIs
  <2> QED
    BY <1>13, <2>1 DEF Tidy, Remembered
<1>16. /\ f.open = q.open
       /\ \A j \in Items : f.count[j] = IF Lost(q, j) THEN 0 ELSE q.count[j]
  BY <1>6, <1>14, FreedIs
<1>17. OpenAt(f, position)
  <2>1. SUFFICES ASSUME NEW p \in Carriers, NEW v \in Windows, f.open[p][v] # Nothing
                 PROVE  InReach(f, position, p, f.open[p][v])
    BY DEF OpenAt
  <2>2. PICK b \in Bags : b = f.open[p][v]
    BY <1>14, <2>1 DEF Stores
  <2>3. InReach(q, position, p, b)
    BY <1>11, <1>16, <2>1, <2>2 DEF OpenAt
  <2>4. ~Lost(q, b)
    <3>1. SUFFICES ASSUME Lost(q, b) PROVE FALSE
      OBVIOUS
    <3>2. Nothing \in Over(q, b) /\ Nothing \notin Bags
      BY <1>14, <3>1, LostIs, InventoryAssumption DEF Items
    <3>3. Nothing = Root(q, b)
      BY <1>14, <3>2, RootIs
    <3> QED
      BY <2>3, <3>3 DEF InReach
  <2>5. Root(f, b) = Root(q, b)
    BY <1>13, <1>14, <2>4, RootSame
  <2> QED
    BY <2>2, <2>3, <2>5 DEF InReach
<1>18. Able(f)
  <2>1. SUFFICES ASSUME NEW c \in Carriers PROVE WeightIn(f, c) <= Capacity
    BY DEF Able
  <2>2. WeightIn(q, c) = WeightIn(o, c)
    BY <1>11, <1>14, WeightInSame
  <2>3. WeightIn(o, c) = WeightIn(s, c) + (IF c \in Over(s, x) THEN -w ELSE 0)
    BY <1>8 DEF Heavier
  <2>4. WeightIn(s, c) \in Int /\ WeightIn(s, c) <= Capacity /\ Capacity \in Nat
    BY <1>2, WeightInIs, InventoryAssumption DEF Able
  <2> QED
    BY <1>13, <2>2, <2>3, <2>4
<1>19. o.count[i] = s.count[i] - n /\ \A j \in Items \ {i} : o.count[j] = s.count[j]
  BY <1>2, <1>5, <1>8 DEF Removed, Stores
<1>20. Amount(Weight, f) = Amount(Weight, s) - w
  <2>1. PICK g \in Nat : g = Weight[i]
    BY InventoryAssumption
  <2>2. PICK v \in Int : v = -n
    BY <1>5
  <2>3. Amount(Weight, o) = Amount(Weight, s) + Weight[i] * v /\ Amount(Weight, s) \in Int
    <3>1. o.count[i] = s.count[i] + v
      BY <1>5, <1>19, <2>2
    <3>2. Weight \in [Items -> Nat]
      BY FairOnes DEF Fair
    <3> QED
      BY <1>2, <1>14, <1>19, <3>1, <3>2, AmountChanged
  <2>4. g * v = -(g * n) /\ g * n \in Nat
    <3>1. g * (n + v) = g * n + g * v /\ g * n \in Nat /\ g * v \in Int
      BY ONLY <1>5, g \in Nat, v \in Int
    <3>2. n + v = 0 /\ g * 0 = 0
      BY <1>5, <2>2
    <3> QED
      BY <3>1, <3>2
  <2>5. Amount(Weight, q) = Amount(Weight, o)
    BY <1>11 DEF Amount
  <2>6. PICK out : out = (IF i \in Bags /\ q.parent[i] = Nothing THEN q.load[i] ELSE 0)
    OBVIOUS
  <2>7. Amount(Weight, f) = Amount(Weight, q) - out
    BY <1>6, <1>11, <2>6, FreedWeight
  <2>8. g * n + out = w /\ out \in Int
    <3>1. CASE i \in Stacks
      BY <1>7, <1>9, <2>1, <2>4, <2>6, <3>1 DEF Portion
    <3>2. CASE i \notin Stacks
      <4>1. n = s.count[i] /\ n = 1
        BY <1>2, <1>5, <1>8, <3>2 DEF Counts
      <4>2. w = WeightOf(s, i) /\ g * 1 = g
        BY <1>7, <2>1, <3>2 DEF Portion
      <4>3. CASE i \in Bags
        <5>1. q.parent[i] = Nothing
          BY <1>2, <1>5, <1>8, <1>11, <4>1 DEF Removed, Stores
        <5>2. i \notin Over(s, x)
          BY <1>1, <1>2, NotOverItself
        <5>3. q.load[i] = s.load[i] + 0 /\ s.load[i] \in Int
          BY <1>2, <1>8, <1>11, <4>3, <5>2 DEF LoadsMore, Stores
        <5> QED
          BY <2>1, <2>6, <4>1, <4>2, <4>3, <5>1, <5>3 DEF WeightOf
      <4>4. CASE i \notin Bags
        <5>1. out = 0
          BY <2>6, <4>4
        <5>2. WeightOf(s, i) = Weight[i] * s.count[i]
          BY <4>4 DEF WeightOf
        <5>3. w = g * n
          BY <2>1, <4>1, <4>2, <5>2
        <5> QED
          BY <1>7, <5>1, <5>3
      <4> QED
        BY <4>3, <4>4
    <3> QED
      BY <3>1, <3>2
  <2> QED
    BY <2>1, <2>3, <2>4, <2>5, <2>7, <2>8
<1>21. Amount(Coin, f) <= MaxCoins
  <2>1. \A j \in Items : f.count[j] <= s.count[j]
    <3>1. \A j \in Items : s.count[j] \in Nat
      BY <1>2 DEF Stores
    <3> QED
      BY <1>5, <1>11, <1>16, <1>19, <3>1
  <2>2. Amount(Coin, f) <= Amount(Coin, s) /\ Amount(Coin, f) \in Int /\ Amount(Coin, s) \in Int
    BY <1>2, <1>14, <2>1, FairOnes, AmountLess
  <2>3. MaxCoins \in Nat
    BY InventoryAssumption
  <2> QED
    BY <1>2, <2>2, <2>3
<1>22. position' = position
  BY DEF InternalRemoveItem
<1>23. made' = Amount(Weight, f)
  BY <1>2, <1>4, <1>7, <1>20 DEF Portion
<1>24. Whole(f) /\ Become(f)
  BY <1>4, <1>6, <1>15, <1>17, <1>18 DEF Whole
<1> QED
  BY <1>21, <1>22, <1>23, <1>24, Handled

-----------------------------------------------------------------------------
(***************************************************************************)
(* At the start some bags and rings lie on the street.                     *)
(***************************************************************************)
LEMMA InventoryStart ==
    ASSUME NEW lying \in SUBSET (Bags \cup Rings), InventoryInit(lying) PROVE InventoryInv
<1>1. PICK s, t : s = Store /\ t = Street[1]
  OBVIOUS
<1>2. /\ s.parent = [i \in Items |-> IF i \in lying THEN t ELSE Nothing]
      /\ s.slot = [i \in Items |-> 0]
      /\ s.count = [i \in Items |-> IF i \in lying THEN 1 ELSE 0]
      /\ s.load = [b \in Bags |-> 0] /\ s.carried = [p \in Carriers |-> 0]
      /\ s.open = [p \in Carriers |-> [w \in Windows |-> Nothing]]
      /\ position = [p \in Carriers |-> t] /\ s.count = count
  BY <1>1, StoreIs DEF InventoryInit
<1>3. t \in Tiles /\ t \in Places
  <2>1. 1 \in DOMAIN Street
    BY InventoryAssumption
  <2> QED
    BY <1>1, <2>1 DEF Tiles, Places
<1>4. t \notin Bags /\ t \notin Carriers /\ Nothing \notin Bags /\ Nothing \notin Carriers
      /\ t # Nothing
  BY <1>3, InventoryAssumption DEF Items
<1>5. s \in Stores
  <2>1. /\ s.parent \in [Items -> Places \cup {Nothing}] /\ s.slot \in [Items -> Slots \cup {0}]
        /\ s.count \in [Items -> Nat] /\ s.load \in [Bags -> Int]
        /\ s.carried \in [Carriers -> Int]
        /\ s.open \in [Carriers -> [Windows -> Bags \cup {Nothing}]]
    BY <1>2, <1>3
  <2> QED
    BY <1>1, <2>1 DEF Stores, Store
<1>6. \A i \in Items : s.parent[i] \in {t, Nothing}
  BY <1>2
<1>7. Acyclic(s)
  <2>1. ASSUME NEW b \in Bags PROVE b \notin Over(s, s.parent[b])
    <3>1. b \in Items
      BY DEF Items
    <3>2. s.parent[b] \in {t, Nothing}
      BY <1>6, <3>1
    <3>3. s.parent[b] \notin Bags
      BY <1>4, <3>2
    <3>4. Over(s, s.parent[b]) = {s.parent[b]}
      BY <3>3, OverOther
    <3> QED
      BY <3>3, <3>4
  <2> QED
    BY <2>1 DEF Acyclic
<1>8. ASSUME NEW x \in Bags \cup Carriers PROVE WeightIn(s, x) = 0
  <2>1. PICK g : g = Pull(s, x)
    OBVIOUS
  <2>2. \A i \in Items : g[i] = 0
    BY <1>4, <1>6, <2>1 DEF Pull
  <2>3. Total(g, Items) = 0
    BY <2>2, ItemsFinite, TotalZero
  <2> QED
    BY <1>5, <2>1, <2>3, WeightInIs
<1>9. WornApart(s) /\ Counts(s) /\ NoneAdrift(s, {})
  BY <1>2, <1>4, <1>6, InventoryAssumption DEF WornApart, Counts, NoneAdrift, Items
<1>10. Weighed(s) /\ Remembered(s, {}) /\ Able(s)
  <2>1. Capacity \in Nat
    BY InventoryAssumption
  <2> QED
    BY <1>2, <1>8, <2>1 DEF Weighed, Remembered, Able
<1>11. OpenAt(s, position)
  BY <1>2 DEF OpenAt
<1>12. made = Amount(Weight, s)
  BY <1>2, WeightsAre DEF InventoryInit
<1>13. Amount(Coin, s) <= MaxCoins
  <2>1. PICK f : f = s.count
    OBVIOUS
  <2>2. \A g \in Stacks : f[g] = 0
    BY <1>2, <2>1, InventoryAssumption DEF Items
  <2>3. Total(f, Stacks) = 0
    BY <2>2, ItemsFinite, TotalZero
  <2>4. MaxCoins \in Nat
    BY InventoryAssumption
  <2> QED
    BY <1>5, <2>1, <2>3, <2>4, CoinsAre
<1> QED
  BY <1>1, <1>2, <1>3, <1>5, <1>7, <1>9, <1>10, <1>11, <1>12, <1>13 DEF InventoryInv, Tidy

LEMMA InventoryStep == InventoryInv /\ [InventoryNext]_inventoryVars => InventoryInv'
<1> SUFFICES ASSUME InventoryInv, [InventoryNext]_inventoryVars PROVE InventoryInv'
  OBVIOUS
<1>1. CASE UNCHANGED inventoryVars
  <2>1. Store' = Store /\ position' = position /\ made' = made
    BY <1>1 DEF inventoryVars, Store
  <2> QED
    BY <2>1 DEF InventoryInv
<1>2. ASSUME NEW p \in Carriers, PlayerMoveItem(p) PROVE InventoryInv'
  BY <1>2, MoveItemKeeps
<1>3. ASSUME NEW p \in Carriers, NEW w \in Windows, UseContainer(p, w) PROVE InventoryInv'
  BY <1>3, UseKeeps
<1>4. ASSUME NEW p \in Carriers, NEW w \in Windows,
             PlayerMoveUpContainer(p, w) \/ PlayerCloseContainer(p, w)
      PROVE  InventoryInv'
  BY <1>4, MoveUpKeeps
<1>5. ASSUME NEW p \in Carriers, Step(p) PROVE InventoryInv'
  BY <1>5, StepKeeps
<1>6. ASSUME NEW i \in Items, InternalRemoveItem(i) PROVE InventoryInv'
  BY <1>6, RemoveItemKeeps
<1>7. ASSUME NEW g \in Stacks, AddLoot(g) PROVE InventoryInv'
  BY <1>7, AddLootKeeps
<1> QED
  BY <1>1, <1>2, <1>3, <1>4, <1>5, <1>6, <1>7 DEF InventoryNext, PlayerHandles

LEMMA InventoryEnds == InventoryInv => ItemsAgree /\ MovesAreSafe
<1> SUFFICES ASSUME InventoryInv PROVE ItemsAgree /\ MovesAreSafe
  OBVIOUS
<1>1. PICK s : s = Store
  OBVIOUS
<1>2. /\ s.parent = parent /\ s.slot = slot /\ s.count = count /\ s.load = totalWeight
      /\ s.carried = inventoryWeight /\ s.open = openContainers
  BY <1>1, StoreIs
<1>3. /\ Acyclic(s) /\ WornApart(s) /\ Weighed(s) /\ Remembered(s, {}) /\ OpenAt(s, position)
      /\ Able(s) /\ made = Amount(Weight, s)
  BY <1>1 DEF InventoryInv, Tidy
<1>4. \A b \in Bags : b \notin Around(Store, b)
  BY <1>1, <1>3, AroundIsOver DEF Acyclic
<1>5. ASSUME NEW p \in Carriers, NEW k \in Slots
      PROVE  Cardinality({i \in Items : parent[i] = p /\ slot[i] = k}) <= 1
  <2>1. PICK W : W = {i \in Items : parent[i] = p /\ slot[i] = k}
    OBVIOUS
  <2>2. \A i, j \in W : i = j
    BY <1>2, <1>3, <2>1 DEF WornApart
  <2>3. CASE W = {}
    BY <2>1, <2>3, FS_EmptySet
  <2>4. CASE W # {}
    <3>1. PICK i : i \in W
      BY <2>4
    <3>2. W = {i}
      BY <2>2, <3>1
    <3>3. Cardinality({i}) = 1
      BY FS_Singleton
    <3>4. Cardinality(W) = 1
      BY <3>2, <3>3
    <3> QED
      BY <2>1, <3>4
  <2> QED
    BY <2>3, <2>4
<1>6. \A i \in Items : parent[i] \in Carriers <=> slot[i] # 0
  BY <1>2, <1>3 DEF WornApart
<1>7. WeightsAgree
  BY <1>1, <1>2, <1>3 DEF WeightsAgree, Weighed, Remembered
<1>8. OpenInReach
  BY <1>1, <1>2, <1>3, StaysIs DEF OpenInReach, OpenAt
<1>9. CapacityKept
  BY <1>1, <1>3 DEF CapacityKept, Able
<1>10. NothingLost
  BY <1>2, <1>3, WeightsAre DEF NothingLost
<1> QED
  BY <1>4, <1>5, <1>6, <1>7, <1>8, <1>9, <1>10 DEF ItemsAgree, MovesAreSafe, ItemsInTrees

-----------------------------------------------------------------------------
(***************************************************************************)
(* The theorems about items.                                               *)
(***************************************************************************)
\* Bags, rings and stacks form trees, a slot holds one item, what bags and
\* players remember of the weight they hold is that weight, and a bag is open
\* to none but who carries it or stands by it
\* (Game::internalMoveItem, Container::updateItemWeight, postRemoveNotification).
THEOREM ItemsStayRight == InventorySpec => []ItemsAgree
<1>1. (\E lying \in SUBSET (Bags \cup Rings) : InventoryInit(lying)) => InventoryInv
  BY InventoryStart
<1>2. InventoryInv /\ [InventoryNext]_inventoryVars => InventoryInv'
  BY InventoryStep
<1>3. InventoryInv => ItemsAgree
  BY InventoryEnds
<1> QED
  BY <1>1, <1>2, <1>3, PTL DEF InventorySpec

\* However items are moved, merged, split and exchanged, none is lost or made,
\* and nobody comes to carry more than they can
\* (Game::internalMoveItem, Player::hasCapacity).
THEOREM MovesStaySafe == InventorySpec => []MovesAreSafe
<1>1. (\E lying \in SUBSET (Bags \cup Rings) : InventoryInit(lying)) => InventoryInv
  BY InventoryStart
<1>2. InventoryInv /\ [InventoryNext]_inventoryVars => InventoryInv'
  BY InventoryStep
<1>3. InventoryInv => MovesAreSafe
  BY InventoryEnds
<1> QED
  BY <1>1, <1>2, <1>3, PTL DEF InventorySpec

\* The items of players who also have a house are these items: each stage of
\* the run takes the steps of the component, and no others.
THEOREM ThingsHaveItems == ThingsSpec => InventorySpec
<1>1. ThingsInit => \E lying \in SUBSET (Bags \cup Rings) : InventoryInit(lying)
  <2> SUFFICES ASSUME ThingsInit
               PROVE  \E lying \in SUBSET (Bags \cup Rings) : InventoryInit(lying)
    OBVIOUS
  <2>1. PICK lying : lying = IF stage \in Carriers THEN Bags \cup Rings ELSE Bags
    OBVIOUS
  <2>2. InventoryInit(lying) /\ lying \in SUBSET (Bags \cup Rings)
    BY <2>1 DEF ThingsInit
  <2> QED
    BY <2>2
<1>2. ASSUME [ThingsNext]_thingVars PROVE [InventoryNext]_inventoryVars
  <2>1. CASE UNCHANGED inventoryVars
    BY <2>1
  <2>2. ASSUME NEW p \in Carriers, Alone(p) PROVE InventoryNext
    <3>1. CASE PlayerHandles(p, {1})
      BY <3>1, ThingsAssumption DEF PlayerHandles, InventoryNext
    <3>2. CASE (\E i \in Items : InternalRemoveItem(i)) \/ \E g \in Stacks : AddLoot(g)
      BY <3>2 DEF InventoryNext
    <3> QED
      BY <2>2, <3>1, <3>2 DEF Alone
  <2>3. CASE Together
    BY <2>3 DEF Together, InventoryNext
  <2>4. UNCHANGED inventoryVars \/ (\E p \in Carriers : Alone(p)) \/ Together
    BY <1>2 DEF ThingsNext, thingVars
  <2> QED
    BY <2>1, <2>2, <2>3, <2>4
<1> QED
  BY <1>1, <1>2, PTL DEF ThingsSpec, InventorySpec

=============================================================================
