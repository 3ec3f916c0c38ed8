----------------------------- MODULE Connections -----------------------------
(***************************************************************************)
(* Connections and their output.  The dispatcher writes messages into the  *)
(* output buffer of a protocol; every 10 ms an event of the scheduler, or  *)
(* a full buffer, hands it to the connection, whose queue has one write    *)
(* under way.  Handlers of the network thread complete writes and reads.   *)
(* Both threads change a connection under its lock, one method at a time.  *)
(***************************************************************************)
EXTENDS Integers, Sequences, SequencesExt, FiniteSets

CONSTANTS
    Connections,
    BufferSize,         \* messages an OutputMessage has room for
    LastMessage,        \* bound: messages written for each connection
    LastEvent           \* bound: sendAll events under way

ASSUME ConnectionAssumption ==
    BufferSize \in Nat \ {0} /\ LastMessage \in Nat /\ LastEvent \in Nat \ {0}

VARIABLES
    managed,            \* ConnectionManager::connections
    state,              \* "pending", "game" or "disconnected"
    socket,             \* is it open?
    messageQueue,       \* OutputMessages, each a sequence of messages
    writes, reading,    \* asynchronous writes under way; is there a read?
    outputBuffer,       \* of the protocol; <<>> is none
    bufferedProtocols,
    sendAllEvents,      \* sendAll events scheduled and not run
    releaseOwed,        \* release tasks not run: 0, 1 or more
    written, wire,      \* history: messages written, and those that were sent
    broken              \* history: an error, a timeout or a forced close

connectionVars == <<managed, state, socket, messageQueue, writes, reading, outputBuffer,
          bufferedProtocols, sendAllEvents, releaseOwed, written, wire, broken>>

ConnectionInit ==
    /\ managed = {}
    /\ state = [c \in Connections |-> "pending"]
    /\ socket = [c \in Connections |-> FALSE]
    /\ messageQueue = [c \in Connections |-> <<>>]
    /\ writes = [c \in Connections |-> 0]
    /\ reading = [c \in Connections |-> FALSE]
    /\ outputBuffer = [c \in Connections |-> <<>>]
    /\ bufferedProtocols = {}
    /\ sendAllEvents = 0
    /\ releaseOwed = [c \in Connections |-> FALSE]
    /\ written = [c \in Connections |-> 0]
    /\ wire = [c \in Connections |-> <<>>]
    /\ broken = {}

-----------------------------------------------------------------------------
outputVars == <<outputBuffer, bufferedProtocols, sendAllEvents, written>>

\* Someone holds the object: the manager or a handler that is to run
Exists(c) == c \in managed \/ reading[c] \/ writes[c] > 0

\* mutant: close does not wait for the messages of the queue
CloseAtOnce(c, force, queue) ==
    /\ managed' = managed \ {c}
    /\ state' = [state EXCEPT ![c] = "disconnected"]
    /\ releaseOwed' = [releaseOwed EXCEPT ![c] = TRUE]
    /\ socket' = [socket EXCEPT ![c] = FALSE]
    /\ broken' = IF force /\ socket[c] THEN broken \cup {c} ELSE broken

\* close, with the queue the method has left
Close(c, force, queue) ==
    /\ managed' = managed \ {c}
    /\ state' = [state EXCEPT ![c] = "disconnected"]
    /\ releaseOwed' = [releaseOwed EXCEPT ![c] = TRUE]
    /\ socket' = [socket EXCEPT ![c] = @ /\ queue # <<>> /\ ~force]
    /\ broken' = IF force /\ socket[c] THEN broken \cup {c} ELSE broken

\* send: what it makes of the queue, and whether it starts a write.  A socket
\* that closeAll has closed takes the message and reports the error later.
Sent(c, message) ==
    IF Exists(c) /\ state[c] # "disconnected" THEN Append(messageQueue[c], message)
    ELSE messageQueue[c]

WritesAfter(c, message) ==
    IF messageQueue[c] = <<>> /\ Sent(c, message) # <<>> THEN writes[c] + 1 ELSE writes[c]

-----------------------------------------------------------------------------
(***************************************************************************)
(* The network thread.                                                     *)
(***************************************************************************)
\* Nothing is left of the connection.
Over(c) == ~Exists(c) /\ ~socket[c] /\ ~releaseOwed[c] /\ c \notin bufferedProtocols

\* ServicePort::onAccept of a new connection, under a name that is free, and
\* the login of the game protocol, which asks for autosend
Accept(c) ==
    /\ Over(c)
    /\ sendAllEvents < LastEvent
    /\ managed' = managed \cup {c}
    /\ state' = [state EXCEPT ![c] = "game"]
    /\ socket' = [socket EXCEPT ![c] = TRUE]
    /\ messageQueue' = [messageQueue EXCEPT ![c] = <<>>]
    /\ reading' = [reading EXCEPT ![c] = TRUE]
    /\ outputBuffer' = [outputBuffer EXCEPT ![c] = <<>>]
    /\ bufferedProtocols' = bufferedProtocols \cup {c}
    /\ sendAllEvents' = IF bufferedProtocols = {} THEN sendAllEvents + 1 ELSE sendAllEvents
    /\ written' = [written EXCEPT ![c] = 0]
    /\ wire' = [wire EXCEPT ![c] = <<>>]
    /\ broken' = broken \ {c}
    /\ UNCHANGED <<writes, releaseOwed>>

\* parseHeader and parsePacket: a packet that is fine, the last of a connection
\* that is closed, a flood, and an error, which a closed socket always gives
ReadHandled(c) ==
    /\ reading[c]
    /\ \/ /\ state[c] # "disconnected" /\ socket[c]
          /\ UNCHANGED <<reading, managed, state, socket, releaseOwed, broken>>
       \/ /\ state[c] = "disconnected" /\ socket[c]
          /\ reading' = [reading EXCEPT ![c] = FALSE]
          /\ UNCHANGED <<managed, state, socket, releaseOwed, broken>>
       \/ /\ state[c] # "disconnected" /\ socket[c]
          /\ reading' = [reading EXCEPT ![c] = FALSE]
          /\ Close(c, FALSE, messageQueue[c])
       \/ /\ reading' = [reading EXCEPT ![c] = FALSE]
          /\ Close(c, TRUE, messageQueue[c])
    /\ UNCHANGED <<outputVars, messageQueue, writes, wire>>

\* onWriteOperation without an error
Written(c) ==
    /\ writes[c] > 0 /\ socket[c]
    /\ LET rest == Tail(messageQueue[c])
       IN  /\ wire' = [wire EXCEPT ![c] = @ \o Head(messageQueue[c])]
           /\ messageQueue' = [messageQueue EXCEPT ![c] = rest]
           /\ writes' = [writes EXCEPT ![c] = IF rest = <<>> THEN @ - 1 ELSE @]
           /\ socket' = [socket EXCEPT ![c] = rest # <<>> \/ state[c] # "disconnected"]
    /\ UNCHANGED <<managed, state, reading, outputVars, releaseOwed, broken>>

\* onWriteOperation with an error, which a closed socket always gives
WriteFails(c) ==
    /\ writes[c] > 0
    /\ writes' = [writes EXCEPT ![c] = @ - 1]
    /\ messageQueue' = [messageQueue EXCEPT ![c] = <<>>]
    /\ Close(c, TRUE, <<>>)
    /\ UNCHANGED <<reading, outputVars, wire>>

\* handleTimeout, 30 seconds after the operation began; it still waits.
Timeout(c) ==
    /\ (reading[c] \/ writes[c] > 0) /\ socket[c]
    /\ Close(c, TRUE, messageQueue[c])
    /\ UNCHANGED <<messageQueue, writes, reading, outputVars, wire>>

\* ~Connection
Destroyed(c) ==
    /\ ~Exists(c) /\ socket[c]
    /\ socket' = [socket EXCEPT ![c] = FALSE]
    /\ UNCHANGED <<managed, state, messageQueue, writes, reading, outputVars, releaseOwed,
                   wire, broken>>

\* writeToOutputBuffer, with getOutputBuffer
Write(c) ==
    /\ c \in bufferedProtocols
    /\ written[c] < LastMessage
    /\ written' = [written EXCEPT ![c] = @ + 1]
    /\ IF Len(outputBuffer[c]) < BufferSize
       THEN /\ outputBuffer' = [outputBuffer EXCEPT ![c] = Append(@, written[c] + 1)]
            /\ UNCHANGED <<messageQueue, writes>>
       ELSE /\ messageQueue' = [messageQueue EXCEPT ![c] = Sent(c, outputBuffer[c])]
            /\ writes' = [writes EXCEPT ![c] = WritesAfter(c, outputBuffer[c])]
            /\ outputBuffer' = [outputBuffer EXCEPT ![c] = <<written[c] + 1>>]
    /\ UNCHANGED <<managed, state, socket, reading, bufferedProtocols, sendAllEvents,
                   releaseOwed, wire, broken>>

\* mutant: sendAll ends at a protocol that has written nothing
SendAllStops ==
    /\ sendAllEvents > 0
    /\ LET full == IF \E c \in bufferedProtocols : outputBuffer[c] = <<>> THEN {} ELSE bufferedProtocols
       IN  /\ messageQueue' = [c \in Connections |->
                IF c \in full THEN Sent(c, outputBuffer[c]) ELSE messageQueue[c]]
           /\ writes' = [c \in Connections |->
                IF c \in full THEN WritesAfter(c, outputBuffer[c]) ELSE writes[c]]
           /\ outputBuffer' = [c \in Connections |->
                IF c \in full THEN <<>> ELSE outputBuffer[c]]
    /\ sendAllEvents' = IF bufferedProtocols = {} THEN sendAllEvents - 1 ELSE sendAllEvents
    /\ UNCHANGED <<managed, state, socket, reading, bufferedProtocols, releaseOwed, written,
                   wire, broken>>

\* OutputMessagePool::sendAll, which schedules the next one
SendAll ==
    /\ sendAllEvents > 0
    /\ LET full == {c \in bufferedProtocols : outputBuffer[c] # <<>>}
       IN  /\ messageQueue' = [c \in Connections |->
                IF c \in full THEN Sent(c, outputBuffer[c]) ELSE messageQueue[c]]
           /\ writes' = [c \in Connections |->
                IF c \in full THEN WritesAfter(c, outputBuffer[c]) ELSE writes[c]]
           /\ outputBuffer' = [c \in Connections |->
                IF c \in full THEN <<>> ELSE outputBuffer[c]]
    /\ sendAllEvents' = IF bufferedProtocols = {} THEN sendAllEvents - 1 ELSE sendAllEvents
    /\ UNCHANGED <<managed, state, socket, reading, bufferedProtocols, releaseOwed, written,
                   wire, broken>>

\* Protocol::disconnect, of a logout, a kick, an error of the protocol
Disconnect(c) ==
    /\ state[c] # "pending" /\ Exists(c)
    /\ Close(c, FALSE, messageQueue[c])
    /\ UNCHANGED <<messageQueue, writes, reading, outputVars, wire>>

\* ProtocolGame::release
ReleaseProtocol(c) ==
    /\ releaseOwed[c]
    /\ releaseOwed' = [releaseOwed EXCEPT ![c] = FALSE]
    /\ bufferedProtocols' = bufferedProtocols \ {c}
    /\ UNCHANGED <<managed, state, socket, messageQueue, writes, reading, outputBuffer,
                   sendAllEvents, written, wire, broken>>

\* ConnectionManager::closeAll, when the server shuts down
CloseAll ==
    /\ managed # {}
    /\ socket' = [c \in Connections |-> socket[c] /\ c \notin managed]
    /\ broken' = broken \cup managed
    /\ managed' = {}
    /\ UNCHANGED <<state, messageQueue, writes, reading, outputVars, releaseOwed, wire>>

ConnectionNext ==
    \/ SendAll \/ CloseAll
    \/ \E c \in Connections :
          \/ Accept(c) \/ ReadHandled(c) \/ Written(c) \/ WriteFails(c)
          \/ Timeout(c) \/ Destroyed(c) \/ Write(c) \/ Disconnect(c) \/ ReleaseProtocol(c)

\* A write ends, at the latest by its timer; the dispatcher runs its tasks and
\* events; the last reference takes the object with it.
ConnectionFairness ==
    /\ WF_connectionVars(SendAll)
    /\ \A c \in Connections :
         /\ WF_connectionVars(Written(c) \/ WriteFails(c))
         /\ WF_connectionVars(Destroyed(c)) /\ WF_connectionVars(ReleaseProtocol(c))

ConnectionSpec == ConnectionInit /\ [][ConnectionNext]_connectionVars /\ ConnectionFairness

-----------------------------------------------------------------------------
\* A connection in use has a write under way exactly when it has something to
\* write, so that no message waits for a handler that will not come; and no
\* handler takes the front of an empty queue.
OneWrite ==
    \A c \in Connections :
        /\ writes[c] > 0 => writes[c] = 1 /\ messageQueue[c] # <<>>
        /\ messageQueue[c] # <<>> /\ socket[c] => writes[c] = 1

\* A message holds the numbers that come after n.
Continues(message, n) == \A i \in DOMAIN message : message[i] = n + i

\* The last number of what was sent and of the first i messages of the queue
UpTo(c, i) == IF i = 0 THEN Len(wire[c]) ELSE Last(messageQueue[c][i])

\* What a client receives is what was written, in order, without a gap, up to
\* where the connection was closed: the queue goes on where the wire ends, each
\* message where the one before it does, and the buffer ends with the last.
InOrder ==
    \A c \in Connections :
        /\ Continues(wire[c], 0)
        /\ \A i \in DOMAIN messageQueue[c] :
             messageQueue[c][i] # <<>> /\ Continues(messageQueue[c][i], UpTo(c, i - 1))
        /\ state[c] = "game" =>
             LET sent == UpTo(c, Len(messageQueue[c]))
             IN  Continues(outputBuffer[c], sent) /\ written[c] = sent + Len(outputBuffer[c])

\* A close that is not forced lets the messages of the queue, the last of which
\* says why, reach the client before the socket is closed.
LastWords ==
    \A c \in Connections :
        state[c] = "disconnected" /\ ~socket[c] /\ c \notin broken => messageQueue[c] = <<>>

\* While a protocol is buffered a sendAll is on its way, however often the list
\* became empty in between.
SendAllComes == bufferedProtocols # {} => sendAllEvents > 0

\* A connection that was closed does not keep its socket, its queue being
\* written or given up, and its protocol is released.
ClosedForGood ==
    \A c \in Connections :
        state[c] = "disconnected" ~> ~socket[c] /\ c \notin bufferedProtocols

\* A message in the buffer of a protocol leaves it, unless the protocol ends.
BufferFlushed ==
    \A c \in Connections, n \in 1..LastMessage :
        n \in ToSet(outputBuffer[c])
            ~> n \notin ToSet(outputBuffer[c]) \/ c \notin bufferedProtocols

\* What a client is sent comes in order, one write at a time, up to the last
\* words before the close (Connection::send, onWriteOperation and close).
OutputInOrder == OneWrite /\ InOrder /\ LastWords

\* Buffered output is sent within the next round of sendAll and a connection
\* once closed is given up by everyone (OutputMessagePool, ConnectionManager).
OutputMoves == []SendAllComes /\ BufferFlushed /\ ClosedForGood

=============================================================================
