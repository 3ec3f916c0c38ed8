------------------------------ MODULE Sessions ------------------------------
(***************************************************************************)
(* Which client plays whom: ProtocolGame from its first message to its     *)
(* release, and the Player objects in the game.  A player whose client is  *)
(* lost stays in the game, and the next client for the same character      *)
(* takes it over; one who is still played is taken over a second later.    *)
(* Who is not heard of leaves at a later think, where one may: time counts *)
(* in the thinks of a player, one a second.                                *)
(*                                                                         *)
(* The network thread closes connections; logins, releases, the timed      *)
(* takeover and everything in the game are tasks of the dispatcher.  A     *)
(* Connection that is closed exists until its last handler has run.        *)
(***************************************************************************)
EXTENDS Integers, Players

CONSTANTS
    Protocols, NoProtocol,
    Gone,               \* a player id of an object that has left the game
    Staff,              \* isAccessPlayer
    PongLimit,          \* thinks without a pong: a minute of them
    IdleLimit           \* thinks without an action: sixteen minutes of them

ASSUME SessionAssumption ==
    /\ NoProtocol \notin Protocols /\ Gone \notin Players
    /\ Staff \subseteq Players /\ PongLimit \in Nat \ {0} /\ IdleLimit \in Nat

VARIABLES
    connection,         \* "new", "open", "closed" or "expired"
    loginTask,          \* the character of a login the dispatcher has not run
    releaseTask,        \* has it a release to run?
    playerOf,           \* ProtocolGame::player, or Gone
    clientOf,           \* Player::client, of those in the game
    isConnecting,       \* Player::isConnecting
    eventConnect,       \* the player a protocol will take over
    standing,           \* "free", in a "fight", or on a tile of "no logout"
    noPong,             \* the thinks since lastPong, up to PongLimit
    idleTime

thinkVars == <<standing, noPong, idleTime>>

sessionVars == <<online, connection, loginTask, releaseTask, playerOf, clientOf,
                 isConnecting, eventConnect, thinkVars>>

SessionInit ==
    /\ online = {}
    /\ connection = [c \in Protocols |-> "new"]
    /\ loginTask = [c \in Protocols |-> NoPlayer]
    /\ releaseTask = [c \in Protocols |-> FALSE]
    /\ playerOf = [c \in Protocols |-> NoPlayer]
    /\ clientOf = [p \in Players |-> NoProtocol]
    /\ isConnecting = [p \in Players |-> FALSE]
    /\ eventConnect = [c \in Protocols |-> NoPlayer]
    /\ standing = [p \in Players |-> "free"]
    /\ noPong = [p \in Players |-> 0]
    /\ idleTime = [p \in Players |-> 0]

-----------------------------------------------------------------------------
\* Connection::close of those of cs that still exist
Closed(cs) ==
    LET living == {c \in cs \ {NoProtocol} : connection[c] \in {"open", "closed"}}
    IN  /\ connection' = [c \in Protocols |-> IF c \in living THEN "closed" ELSE connection[c]]
        /\ releaseTask' = [c \in Protocols |-> c \in living \/ releaseTask[c]]

NothingClosed == UNCHANGED <<connection, releaseTask>>

\* ProtocolGame::onRecvFirstMessage
FirstMessage(c, p) ==
    /\ connection[c] = "new"
    /\ connection' = [connection EXCEPT ![c] = "open"]
    /\ loginTask' = [loginTask EXCEPT ![c] = p]
    /\ UNCHANGED <<online, releaseTask, playerOf, clientOf, isConnecting, eventConnect,
                   thinkVars>>

\* A lost or slow client, a flood of packets, an error; again by the handler
\* that was still waiting when it was closed.
ConnectionCloses(c) ==
    /\ connection[c] \in {"open", "closed"}
    /\ Closed({c})
    /\ UNCHANGED <<online, loginTask, playerOf, clientOf, isConnecting, eventConnect,
                   thinkVars>>

ConnectionExpires(c) ==
    /\ connection[c] = "closed"
    /\ connection' = [connection EXCEPT ![c] = "expired"]
    /\ UNCHANGED <<online, loginTask, releaseTask, playerOf, clientOf, isConnecting,
                   eventConnect, thinkVars>>

-----------------------------------------------------------------------------
\* mutant: whoever plays already is not asked for
ConnectAnyway(c, p) ==
    IF p \notin online
    THEN Closed({c}) /\ UNCHANGED <<playerOf, clientOf, isConnecting>>
    ELSE /\ playerOf' = [playerOf EXCEPT ![c] = p]
         /\ clientOf' = [clientOf EXCEPT ![p] = c]
         /\ isConnecting' = [isConnecting EXCEPT ![p] = FALSE]
         /\ NothingClosed

\* ProtocolGame::connect; a takeover that fails leaves isConnecting as it was,
\* and one that succeeds leaves lastPong and idleTime.
Connect(c, p) ==
    IF p \notin online \/ clientOf[p] # NoProtocol
    THEN Closed({c}) /\ UNCHANGED <<playerOf, clientOf, isConnecting>>
    ELSE IF connection[c] = "expired"
    THEN NothingClosed /\ UNCHANGED <<playerOf, clientOf, isConnecting>>
    ELSE /\ playerOf' = [playerOf EXCEPT ![c] = p]
         /\ clientOf' = [clientOf EXCEPT ![p] = c]
         /\ isConnecting' = [isConnecting EXCEPT ![p] = FALSE]
         /\ NothingClosed

\* A character who is not in the game: the new object is placed, or it cannot
\* be loaded, is banned, has to wait...
LoginNew(c, p) ==
    /\ p \notin online
    /\ \/ /\ online' = online \cup {p}
          /\ playerOf' = [playerOf EXCEPT ![c] = p]
          /\ clientOf' = [clientOf EXCEPT ![p] = c]
          /\ NothingClosed
       \/ /\ playerOf' = [playerOf EXCEPT ![c] = Gone]
          /\ Closed({c})
          /\ UNCHANGED <<online, clientOf>>
    /\ UNCHANGED <<isConnecting, eventConnect>>

LoginAgain(c, p) ==
    /\ p \in online
    /\ IF clientOf[p] # NoProtocol
       THEN /\ Closed({clientOf[p]})
            /\ isConnecting' = [isConnecting EXCEPT ![p] = TRUE]
            /\ eventConnect' = [eventConnect EXCEPT ![c] = p]
            /\ UNCHANGED <<playerOf, clientOf>>
       ELSE Connect(c, p) /\ UNCHANGED eventConnect
    /\ UNCHANGED online

Login(c) ==
    /\ loginTask[c] # NoPlayer
    /\ loginTask' = [loginTask EXCEPT ![c] = NoPlayer]
    /\ LoginNew(c, loginTask[c]) \/ LoginAgain(c, loginTask[c])
    /\ UNCHANGED thinkVars

\* the timed takeover, by the id of the object it was asked for
TakeOver(c) ==
    /\ eventConnect[c] # NoPlayer
    /\ eventConnect' = [eventConnect EXCEPT ![c] = NoPlayer]
    /\ Connect(c, eventConnect[c])
    /\ UNCHANGED <<online, loginTask, thinkVars>>

\* ProtocolGame::release; the dispatcher runs it after the login.
Release(c) ==
    /\ releaseTask[c] /\ loginTask[c] = NoPlayer
    /\ releaseTask' = [releaseTask EXCEPT ![c] = FALSE]
    /\ playerOf' = [playerOf EXCEPT ![c] = NoPlayer]
    /\ clientOf' = [p \in Players |-> IF clientOf[p] = c THEN NoProtocol ELSE clientOf[p]]
    /\ UNCHANGED <<online, connection, loginTask, isConnecting, eventConnect, thinkVars>>

-----------------------------------------------------------------------------
\* Game::removeCreature: the object lives on with the protocol that plays it;
\* the id is not used again, and a new object counts from nothing.
Removed(p) ==
    /\ online' = online \ {p}
    /\ clientOf' = [clientOf EXCEPT ![p] = NoProtocol]
    /\ isConnecting' = [isConnecting EXCEPT ![p] = FALSE]
    /\ playerOf' = [c \in Protocols |-> IF playerOf[c] = p THEN Gone ELSE playerOf[c]]
    /\ eventConnect' = [c \in Protocols |-> IF eventConnect[c] = p THEN Gone ELSE eventConnect[c]]
    /\ standing' = [standing EXCEPT ![p] = "free"]
    /\ noPong' = [noPong EXCEPT ![p] = 0]
    /\ idleTime' = [idleTime EXCEPT ![p] = 0]

\* The client stays, for its window of the dead.
Dies(p) ==
    /\ p \in online
    /\ Removed(p)
    /\ UNCHANGED <<connection, loginTask, releaseTask>>

\* ProtocolGame::logout, asked for by a client; also the dead end so.
Logout(c) ==
    /\ connection[c] = "open"
    /\ playerOf[c] # NoPlayer
    /\ Closed({c})
    /\ \/ /\ playerOf[c] \in online
          /\ playerOf[c] \in Staff \/ standing[playerOf[c]] = "free"
          /\ Removed(playerOf[c])
       \/ /\ playerOf[c] \notin online
          /\ UNCHANGED <<online, playerOf, clientOf, isConnecting, eventConnect, thinkVars>>
    /\ UNCHANGED loginTask

\* mutant: without a client there is nobody to throw out
LeavesClientOnly(p) ==
    /\ clientOf[p] # NoProtocol
    /\ Closed({clientOf[p]})
    /\ Removed(p)
    /\ UNCHANGED loginTask

\* What kickPlayer and sendPing do: logout of the client, or else removal.
Leaves(p) ==
    /\ Closed({clientOf[p]})
    /\ Removed(p)
    /\ UNCHANGED loginTask

\* Player::kickPlayer by the staff, a house, a script
Kick(p) == p \in online /\ Leaves(p)

\* Player::canLogout
CanLogout(p) == ~isConnecting[p] /\ standing[p] = "free"

\* sendPing: nothing heard for a minute
PongMissed(p) == noPong[p] + 1 >= PongLimit /\ CanLogout(p)

\* the idle time runs
Idles(p) == standing[p] # "no logout" /\ p \notin Staff

\* Player::onThink: sendPing, and the idle time after it
Think(p) ==
    /\ p \in online
    /\ IF PongMissed(p) \/ (Idles(p) /\ idleTime[p] + 1 > IdleLimit)
       THEN Leaves(p)
       ELSE /\ noPong' = [noPong EXCEPT ![p] = IF @ + 1 < PongLimit THEN @ + 1 ELSE PongLimit]
            /\ idleTime' = [idleTime EXCEPT ![p] = IF Idles(p) THEN @ + 1 ELSE @]
            /\ UNCHANGED <<online, connection, loginTask, releaseTask, playerOf, clientOf,
                           isConnecting, eventConnect, standing>>

\* Game::playerReceivePing; the packets of a client are run before its release.
Pong(p) ==
    /\ p \in online /\ clientOf[p] # NoProtocol
    /\ connection[clientOf[p]] = "open" \/ releaseTask[clientOf[p]]
    /\ noPong' = [noPong EXCEPT ![p] = 0]
    /\ UNCHANGED <<online, connection, loginTask, releaseTask, playerOf, clientOf,
                   isConnecting, eventConnect, standing, idleTime>>

\* Player::resetIdleTime: a request of the client, or one still to be repeated
\* when the client is gone.
Acts(p) ==
    /\ p \in online
    /\ idleTime' = [idleTime EXCEPT ![p] = 0]
    /\ UNCHANGED <<online, connection, loginTask, releaseTask, playerOf, clientOf,
                   isConnecting, eventConnect, standing, noPong>>

\* Walked, pushed or taken elsewhere, attacked, out of its fight.
Moves(p, place) ==
    /\ p \in online
    /\ standing' = [standing EXCEPT ![p] = place]
    /\ UNCHANGED <<online, connection, loginTask, releaseTask, playerOf, clientOf,
                   isConnecting, eventConnect, noPong, idleTime>>

SessionNext ==
    \/ \E c \in Protocols :
          \/ ConnectionCloses(c) \/ ConnectionExpires(c)
          \/ Login(c) \/ TakeOver(c) \/ Release(c) \/ Logout(c)
          \/ \E p \in Players : FirstMessage(c, p)
    \/ \E p \in Players :
          \/ Dies(p) \/ Kick(p) \/ Think(p) \/ Pong(p) \/ Acts(p)
          \/ \E place \in {"free", "fight", "no logout"} : Moves(p, place)

Played(p) == clientOf[p] # NoProtocol /\ connection[clientOf[p]] = "open"

\* The dispatcher runs its tasks and the scheduler its events, checkCreatures
\* among them, which has every player think.  Nobody need log in, act or kick.
SessionFairness ==
    /\ \A c \in Protocols : WF_sessionVars(Login(c)) /\ WF_sessionVars(TakeOver(c))
                            /\ WF_sessionVars(Release(c))
    /\ \A p \in Players : WF_sessionVars(Think(p))

SessionSpec == SessionInit /\ [][SessionNext]_sessionVars /\ SessionFairness

-----------------------------------------------------------------------------
\* A character has at most one client, and a player in the game and the
\* protocol that plays it know each other: release can always undo both.
OneClientEach ==
    /\ \A c \in Protocols :
         playerOf[c] \in Players => playerOf[c] \in online /\ clientOf[playerOf[c]] = c
    /\ \A p \in Players :
         clientOf[p] # NoProtocol => p \in online /\ playerOf[clientOf[p]] = p

\* A player whose client is gone is found by a new one, or leaves the game.
\* One who stays though nobody plays it is again and again kept from logging
\* out, by a fight, its tile or a takeover that failed (canLogout); and it is
\* of the staff, again and again where nobody may log out, or a request of it
\* is repeated again and again (onThink, resetIdleTime).
LostPlayersLeave ==
    \A p \in Players :
        <>[](p \in online /\ ~Played(p)) =>
            /\ []<>~CanLogout(p)
            /\ p \in Staff \/ []<>(standing[p] = "no logout") \/ []<>(idleTime[p] = 0)

=============================================================================
