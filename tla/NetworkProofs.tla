---------------------------- MODULE NetworkProofs ----------------------------
(***************************************************************************)
(* The network, for any characters, clients and connections: a character   *)
(* and the client that plays it know each other, the casts and those who   *)
(* watch them agree, a connection writes in order, and the waiting list    *)
(* keeps the places of those who wait.                                     *)
(***************************************************************************)
EXTENDS MCNetwork, Facts

-----------------------------------------------------------------------------
(***************************************************************************)
(* Sessions.                                                               *)
(***************************************************************************)
SessionType ==
    /\ online \subseteq Players
    /\ connection \in [Protocols -> {"new", "open", "closed", "expired"}]
    /\ loginTask \in [Protocols -> Players \cup {NoPlayer}]
    /\ releaseTask \in [Protocols -> BOOLEAN]
    /\ playerOf \in [Protocols -> Players \cup {NoPlayer, Gone}]
    /\ clientOf \in [Players -> Protocols \cup {NoProtocol}]
    /\ isConnecting \in [Players -> BOOLEAN]
    /\ eventConnect \in [Protocols -> Players \cup {NoPlayer, Gone}]

\* A protocol with a login or a takeover before it plays nobody yet: it could
\* not take a second player without losing the first.
WaitsForPlayer ==
    \A c \in Protocols :
        /\ connection[c] = "new" => loginTask[c] = NoPlayer /\ eventConnect[c] = NoPlayer
                                    /\ playerOf[c] \notin Players
        /\ loginTask[c] # NoPlayer => eventConnect[c] = NoPlayer
        /\ loginTask[c] # NoPlayer \/ eventConnect[c] # NoPlayer => playerOf[c] \notin Players

SessionInv == SessionType /\ WaitsForPlayer /\ OneClientEach

\* Closing connections changes nothing between players and protocols.
LEMMA ClosedKeeps ==
    ASSUME SessionType, NEW cs, Closed(cs)
    PROVE  /\ connection' \in [Protocols -> {"new", "open", "closed", "expired"}]
           /\ releaseTask' \in [Protocols -> BOOLEAN]
           /\ \A c \in Protocols : connection'[c] = "new" <=> connection[c] = "new"
<1>1. \A c \in Protocols : connection'[c] \in {connection[c], "closed"}
                           /\ (connection'[c] # connection[c] => connection[c] \in {"open", "closed"})
  BY DEF Closed
<1>2. connection' \in [Protocols -> {"new", "open", "closed", "expired"}]
  BY DEF Closed, SessionType
<1>3. releaseTask' \in [Protocols -> BOOLEAN]
  BY Zenon DEF Closed, SessionType
<1> QED
  BY <1>1, <1>2, <1>3

\* Who has left the game has no client, and no protocol plays them.
LEMMA RemovedKeeps ==
    ASSUME SessionInv, NEW p \in Players, p \in online, Removed(p), UNCHANGED loginTask,
           connection' \in [Protocols -> {"new", "open", "closed", "expired"}],
           releaseTask' \in [Protocols -> BOOLEAN],
           \A c \in Protocols : connection'[c] = "new" <=> connection[c] = "new"
    PROVE  SessionInv'
<1> USE PlayersAssumption, SessionAssumption DEF SessionInv
<1>1. SessionType'
  BY DEF SessionType, Removed
<1>2. WaitsForPlayer'
  BY DEF SessionType, WaitsForPlayer, Removed
<1>3. OneClientEach'
  BY DEF SessionType, OneClientEach, Removed
<1> QED
  BY <1>1, <1>2, <1>3

\* connect of a protocol that plays nobody, to a player nobody plays.
LEMMA ConnectKeeps ==
    ASSUME SessionInv, NEW c \in Protocols, NEW p, Connect(c, p), UNCHANGED online,
           playerOf[c] \notin Players, connection[c] # "new",
           loginTask' \in [Protocols -> Players \cup {NoPlayer}],
           eventConnect' \in [Protocols -> Players \cup {NoPlayer, Gone}],
           loginTask'[c] = NoPlayer, eventConnect'[c] = NoPlayer,
           \A d \in Protocols \ {c} : loginTask'[d] = loginTask[d] /\ eventConnect'[d] = eventConnect[d]
    PROVE  SessionInv'
<1> USE PlayersAssumption, SessionAssumption DEF SessionInv
<1>1. CASE p \in online /\ clientOf[p] = NoProtocol /\ connection[c] # "expired"
  <2>1. /\ playerOf' = [playerOf EXCEPT ![c] = p]
        /\ clientOf' = [clientOf EXCEPT ![p] = c]
        /\ isConnecting' = [isConnecting EXCEPT ![p] = FALSE]
        /\ UNCHANGED <<connection, releaseTask>>
    BY <1>1 DEF Connect, NothingClosed
  <2>2. SessionType'
    BY <1>1, <2>1 DEF SessionType
  <2>3. WaitsForPlayer'
    BY <1>1, <2>1 DEF SessionType, WaitsForPlayer
  <2>4. OneClientEach'
    BY <1>1, <2>1 DEF SessionType, OneClientEach
  <2> QED
    BY <2>2, <2>3, <2>4
<1>2. CASE ~(p \in online /\ clientOf[p] = NoProtocol /\ connection[c] # "expired")
  <2>1. UNCHANGED <<playerOf, clientOf, isConnecting>>
    BY <1>2 DEF Connect
  <2>2. /\ connection' \in [Protocols -> {"new", "open", "closed", "expired"}]
        /\ releaseTask' \in [Protocols -> BOOLEAN]
        /\ \A d \in Protocols : connection'[d] = "new" <=> connection[d] = "new"
    <3>1. CASE NothingClosed
      BY <3>1 DEF NothingClosed, SessionType
    <3>2. CASE Closed({c})
      BY <3>2, ClosedKeeps
    <3> QED
      BY <1>2, <3>1, <3>2 DEF Connect
  <2>3. SessionType'
    BY <2>1, <2>2 DEF SessionType
  <2>4. WaitsForPlayer'
    BY <2>1, <2>2 DEF SessionType, WaitsForPlayer
  <2>5. OneClientEach'
    BY <2>1 DEF OneClientEach
  <2> QED
    BY <2>3, <2>4, <2>5
<1> QED
  BY <1>1, <1>2

\* Every login, takeover, release, kick and removal keeps the invariant.
LEMMA SessionStep == ASSUME SessionInv, [SessionNext]_sessionVars PROVE SessionInv'
<1> USE PlayersAssumption, SessionAssumption DEF SessionInv
<1>1. ASSUME NEW c \in Protocols, ConnectionCloses(c) PROVE SessionInv'
  <2>1. Closed({c}) /\ UNCHANGED <<online, loginTask, playerOf, clientOf, isConnecting, eventConnect>>
    BY <1>1 DEF ConnectionCloses
  <2>2. SessionType' /\ WaitsForPlayer'
    BY <2>1, ClosedKeeps DEF SessionType, WaitsForPlayer
  <2>3. OneClientEach'
    BY <2>1 DEF OneClientEach
  <2> QED
    BY <2>2, <2>3
<1>2. ASSUME NEW c \in Protocols, ConnectionExpires(c) PROVE SessionInv'
  <2>1. SessionType' /\ WaitsForPlayer'
    BY <1>2 DEF ConnectionExpires, SessionType, WaitsForPlayer
  <2>2. OneClientEach'
    BY <1>2 DEF ConnectionExpires, OneClientEach
  <2> QED
    BY <2>1, <2>2
<1>3. ASSUME NEW c \in Protocols, NEW p \in Players, FirstMessage(c, p) PROVE SessionInv'
  <2>1. SessionType' /\ WaitsForPlayer'
    BY <1>3 DEF FirstMessage, SessionType, WaitsForPlayer
  <2>2. OneClientEach'
    BY <1>3 DEF FirstMessage, OneClientEach
  <2> QED
    BY <2>1, <2>2
<1>4. ASSUME NEW c \in Protocols, Login(c) PROVE SessionInv'
  <2> DEFINE p == loginTask[c]
  <2>1. /\ p \in Players /\ playerOf[c] \notin Players /\ connection[c] # "new"
        /\ eventConnect[c] = NoPlayer
        /\ loginTask' = [loginTask EXCEPT ![c] = NoPlayer]
    BY <1>4 DEF Login, SessionType, WaitsForPlayer
  <2>2. ASSUME p \notin online, online' = online \cup {p}, playerOf' = [playerOf EXCEPT ![c] = p],
               clientOf' = [clientOf EXCEPT ![p] = c], NothingClosed,
               UNCHANGED <<isConnecting, eventConnect>>
        PROVE  SessionInv'
    <3>1. SessionType'
      BY <2>1, <2>2 DEF SessionType, NothingClosed
    <3>2. WaitsForPlayer'
      BY <2>1, <2>2 DEF SessionType, WaitsForPlayer, NothingClosed
    <3>3. OneClientEach'
      BY <2>1, <2>2 DEF SessionType, OneClientEach
    <3> QED
      BY <3>1, <3>2, <3>3
  <2>3. ASSUME playerOf' = [playerOf EXCEPT ![c] = Gone], Closed({c}),
               UNCHANGED <<online, clientOf, isConnecting, eventConnect>>
        PROVE  SessionInv'
    <3>1. SessionType' /\ WaitsForPlayer'
      BY <2>1, <2>3, ClosedKeeps DEF SessionType, WaitsForPlayer
    <3>2. OneClientEach'
      BY <2>1, <2>3 DEF SessionType, OneClientEach
    <3> QED
      BY <3>1, <3>2
  <2>4. ASSUME p \in online, clientOf[p] # NoProtocol, Closed({clientOf[p]}),
               isConnecting' = [isConnecting EXCEPT ![p] = TRUE],
               eventConnect' = [eventConnect EXCEPT ![c] = p],
               UNCHANGED <<online, playerOf, clientOf>>
        PROVE  SessionInv'
    <3>1. SessionType'
      BY <2>1, <2>4, ClosedKeeps DEF SessionType
    <3>2. WaitsForPlayer'
      BY <2>1, <2>4, ClosedKeeps DEF SessionType, WaitsForPlayer
    <3>3. OneClientEach'
      BY <2>4 DEF OneClientEach
    <3> QED
      BY <3>1, <3>2, <3>3
  <2>5. ASSUME Connect(c, p), UNCHANGED <<online, eventConnect>> PROVE SessionInv'
    <3>1. /\ loginTask' \in [Protocols -> Players \cup {NoPlayer}]
          /\ eventConnect' \in [Protocols -> Players \cup {NoPlayer, Gone}]
          /\ loginTask'[c] = NoPlayer /\ eventConnect'[c] = NoPlayer
          /\ \A d \in Protocols \ {c} : loginTask'[d] = loginTask[d] /\ eventConnect'[d] = eventConnect[d]
      BY <2>1, <2>5 DEF SessionType
    <3> QED
      BY <2>1, <2>5, <3>1, ConnectKeeps
  <2>6. CASE LoginNew(c, p)
    BY <2>6, <2>2, <2>3 DEF LoginNew
  <2>7. CASE LoginAgain(c, p)
    BY <2>7, <2>4, <2>5 DEF LoginAgain
  <2> QED
    BY <1>4, <2>6, <2>7 DEF Login
<1>5. ASSUME NEW c \in Protocols, TakeOver(c) PROVE SessionInv'
  <2>1. /\ playerOf[c] \notin Players /\ connection[c] # "new"
        /\ loginTask[c] = NoPlayer
        /\ eventConnect' = [eventConnect EXCEPT ![c] = NoPlayer]
        /\ UNCHANGED <<online, loginTask>>
        /\ Connect(c, eventConnect[c])
    BY <1>5 DEF TakeOver, SessionType, WaitsForPlayer
  <2>2. /\ loginTask' \in [Protocols -> Players \cup {NoPlayer}]
        /\ eventConnect' \in [Protocols -> Players \cup {NoPlayer, Gone}]
        /\ loginTask'[c] = NoPlayer /\ eventConnect'[c] = NoPlayer
        /\ \A d \in Protocols \ {c} : loginTask'[d] = loginTask[d] /\ eventConnect'[d] = eventConnect[d]
    BY <2>1 DEF SessionType
  <2> QED
    BY <2>1, <2>2, ConnectKeeps
<1>6. ASSUME NEW c \in Protocols, Release(c) PROVE SessionInv'
  <2>1. SessionType'
    BY <1>6 DEF Release, SessionType
  <2>2. WaitsForPlayer'
    BY <1>6 DEF Release, SessionType, WaitsForPlayer
  <2>3. OneClientEach'
    BY <1>6 DEF Release, SessionType, OneClientEach
  <2> QED
    BY <2>1, <2>2, <2>3
<1>7. ASSUME NEW p \in Players, Dies(p) PROVE SessionInv'
  <2>1. /\ connection' \in [Protocols -> {"new", "open", "closed", "expired"}]
        /\ releaseTask' \in [Protocols -> BOOLEAN]
        /\ UNCHANGED <<connection, loginTask>>
    BY <1>7 DEF Dies, SessionType
  <2> QED
    BY <1>7, <2>1, RemovedKeeps DEF Dies
<1>8. ASSUME NEW p \in Players, p \in online, NEW cs, Closed(cs), Removed(p), UNCHANGED loginTask
      PROVE  SessionInv'
  BY <1>8, ClosedKeeps, RemovedKeeps
<1>9. ASSUME NEW c \in Protocols, Logout(c) PROVE SessionInv'
  <2>1. CASE playerOf[c] \in online
    BY <1>9, <2>1, <1>8 DEF Logout, SessionType
  <2>2. CASE playerOf[c] \notin online
    <3>1. Closed({c}) /\ UNCHANGED <<online, loginTask, playerOf, clientOf, isConnecting, eventConnect>>
      BY <1>9, <2>2 DEF Logout
    <3>2. SessionType' /\ WaitsForPlayer'
      BY <3>1, ClosedKeeps DEF SessionType, WaitsForPlayer
    <3>3. OneClientEach'
      BY <3>1 DEF OneClientEach
    <3> QED
      BY <3>2, <3>3
  <2> QED
    BY <2>1, <2>2
<1>10. ASSUME NEW p \in Players, p \in online, Leaves(p) PROVE SessionInv'
  BY <1>10, <1>8 DEF Leaves
<1>11. ASSUME NEW p \in Players, Kick(p) PROVE SessionInv'
  BY <1>11, <1>10 DEF Kick
<1>12. ASSUME UNCHANGED <<online, connection, loginTask, releaseTask, playerOf, clientOf,
                          isConnecting, eventConnect>>
       PROVE  SessionInv'
  BY <1>12 DEF SessionType, WaitsForPlayer, OneClientEach
<1>13. ASSUME NEW p \in Players, Think(p) PROVE SessionInv'
  <2>1. CASE Leaves(p)
    BY <1>10, <1>13, <2>1 DEF Think
  <2>2. CASE ~Leaves(p)
    BY <1>12, <1>13, <2>2 DEF Think
  <2> QED
    BY <2>1, <2>2
<1>14. ASSUME NEW p \in Players, NEW place, Pong(p) \/ Acts(p) \/ Moves(p, place)
       PROVE  SessionInv'
  BY <1>12, <1>14 DEF Pong, Acts, Moves
<1>15. CASE UNCHANGED sessionVars
  BY <1>12, <1>15 DEF sessionVars
<1> QED
  BY <1>1, <1>2, <1>3, <1>4, <1>5, <1>6, <1>7, <1>9, <1>11, <1>13, <1>14, <1>15 DEF SessionNext

\* Nobody plays and nobody is in the game when the server starts.
LEMMA SessionStart == ASSUME SessionInit PROVE SessionInv
BY PlayersAssumption, SessionAssumption
   DEF SessionInit, SessionInv, SessionType, WaitsForPlayer, OneClientEach

\* Whatever the order of logins, takeovers, releases, kicks and deaths: a
\* player in the game and the protocol that plays it know each other
\* (ProtocolGame::connect, release, Player::onRemoveCreature).
THEOREM SessionsKnowEachOther == SessionSpec => []OneClientEach
<1>1. SessionInit => SessionInv
  BY SessionStart
<1>2. SessionInv /\ [SessionNext]_sessionVars => SessionInv'
  BY SessionStep
<1>3. SessionInv => OneClientEach
  BY DEF SessionInv
<1> QED
  BY <1>1, <1>2, <1>3, PTL DEF SessionSpec

\* The same where the other parts of the network are composed with it.
THEOREM NetworkKnowsEachOther == NetworkSpec => []OneClientEach
<1>1. NetworkInit => SessionInv
  BY SessionStart DEF NetworkInit
<1>2. SessionInv /\ [NetworkNext]_networkVars => SessionInv'
  <2>1. [NetworkNext]_networkVars => [SessionNext]_sessionVars
    BY DEF NetworkNext, networkVars
  <2> QED
    BY <2>1, SessionStep
<1>3. SessionInv => OneClientEach
  BY DEF SessionInv
<1> QED
  BY <1>1, <1>2, <1>3, PTL DEF NetworkSpec

-----------------------------------------------------------------------------
(***************************************************************************)
(* Live casts.                                                             *)
(***************************************************************************)
CastType ==
    /\ inGame \subseteq Objects /\ toRelease \subseteq Objects
    /\ references \in [Objects -> Int]
    /\ played \in [Casters -> Objects \cup {NoObject}]
    /\ clients \in [Objects -> Casters \cup {NoCaster}]
    /\ isCaster \in [Casters -> BOOLEAN]
    /\ liveCasts \in [Objects -> Casters \cup {NoCaster}]
    /\ spectators \in [Casters -> SUBSET Spectators]
    /\ watched \in [Spectators -> Objects \cup {NoObject}]
    /\ watchedClient \in [Spectators -> Casters \cup {NoCaster}]

\* A player's client plays them, an object is either in the game or waits for
\* the cleanup, and who watches has a connection or a release to come.
CastersKnown ==
    /\ \A c \in Casters, p \in Objects : clients[p] = c <=> played[c] = p
    /\ inGame \cap toRelease = {}
    /\ \A s \in Spectators : watched[s] # NoObject => s \in open \cup releases

CastInv == CastType /\ CastersKnown /\ CastsConsistent

PlayedBy(p) == {c \in Casters : played[c] = p}
WatchedBy(p) == {s \in Spectators : watched[s] = p}
Kept(p) == IF p \in inGame \cup toRelease THEN 1 ELSE 0

\* What CountedOnce says of one object.
Counted(p) == references[p] = Cardinality(PlayedBy(p)) + Cardinality(WatchedBy(p)) + Kept(p)

\* The holders of an object are finitely many, before and after a step.
LEMMA CountsAreNumbers ==
    ASSUME NEW p
    PROVE  /\ IsFiniteSet(PlayedBy(p)) /\ Cardinality(PlayedBy(p)) \in Nat
           /\ IsFiniteSet(WatchedBy(p)) /\ Cardinality(WatchedBy(p)) \in Nat
           /\ IsFiniteSet(PlayedBy(p)') /\ Cardinality(PlayedBy(p)') \in Nat
           /\ IsFiniteSet(WatchedBy(p)') /\ Cardinality(WatchedBy(p)') \in Nat
<1>1. /\ PlayedBy(p) \in SUBSET Casters /\ PlayedBy(p)' \in SUBSET Casters
      /\ WatchedBy(p) \in SUBSET Spectators /\ WatchedBy(p)' \in SUBSET Spectators
  BY DEF PlayedBy, WatchedBy
<1>2. \A T \in SUBSET Casters : IsFiniteSet(T) /\ Cardinality(T) \in Nat
  BY CastAssumption, FS_Subset, FS_CardinalityType
<1>3. \A T \in SUBSET Spectators : IsFiniteSet(T) /\ Cardinality(T) \in Nat
  BY CastAssumption, FS_Subset, FS_CardinalityType
<1> QED
  BY <1>1, <1>2, <1>3

\* CountedOnce, object by object.
LEMMA CountedOnceIs == CountedOnce <=> \A p \in Objects : Counted(p)
BY DEF CountedOnce, Counted, PlayedBy, WatchedBy, Kept

\* Who begins to play, and who stops: one holder more or less.
LEMMA PlayedMore ==
    ASSUME CastType, NEW c \in Casters, NEW p \in Objects, played[c] = NoObject,
           played' = [played EXCEPT ![c] = p]
    PROVE  /\ Cardinality(PlayedBy(p)') = Cardinality(PlayedBy(p)) + 1
           /\ \A q \in Objects \ {p} : PlayedBy(q)' = PlayedBy(q)
<1>1. PlayedBy(p)' = PlayedBy(p) \cup {c} /\ c \notin PlayedBy(p)
  BY CastAssumption DEF CastType, PlayedBy
<1>2. \A q \in Objects \ {p} : PlayedBy(q)' = PlayedBy(q)
  BY CastAssumption DEF CastType, PlayedBy
<1> QED
  BY <1>1, <1>2, CountsAreNumbers, FS_AddElement

\* Who lets go of what is played: one holder less.
LEMMA PlayedLess ==
    ASSUME CastType, NEW c \in Casters, NEW p \in Objects, played[c] = p,
           played' = [played EXCEPT ![c] = NoObject]
    PROVE  /\ Cardinality(PlayedBy(p)') = Cardinality(PlayedBy(p)) - 1
           /\ \A q \in Objects \ {p} : PlayedBy(q)' = PlayedBy(q)
<1>1. PlayedBy(p)' = PlayedBy(p) \ {c} /\ c \in PlayedBy(p)
  BY CastAssumption DEF CastType, PlayedBy
<1>2. \A q \in Objects \ {p} : PlayedBy(q)' = PlayedBy(q)
  BY CastAssumption DEF CastType, PlayedBy
<1> QED
  BY <1>1, <1>2, CountsAreNumbers, FS_RemoveElement

\* Who begins to watch a cast: one holder more.
LEMMA WatchedMore ==
    ASSUME CastType, NEW s \in Spectators, NEW p \in Objects, watched[s] = NoObject,
           watched' = [watched EXCEPT ![s] = p]
    PROVE  /\ Cardinality(WatchedBy(p)') = Cardinality(WatchedBy(p)) + 1
           /\ \A q \in Objects \ {p} : WatchedBy(q)' = WatchedBy(q)
<1>1. WatchedBy(p)' = WatchedBy(p) \cup {s} /\ s \notin WatchedBy(p)
  BY CastAssumption DEF CastType, WatchedBy
<1>2. \A q \in Objects \ {p} : WatchedBy(q)' = WatchedBy(q)
  BY CastAssumption DEF CastType, WatchedBy
<1> QED
  BY <1>1, <1>2, CountsAreNumbers, FS_AddElement

\* Who stops watching: one holder less.
LEMMA WatchedLess ==
    ASSUME CastType, NEW s \in Spectators, NEW p \in Objects, watched[s] = p,
           watched' = [watched EXCEPT ![s] = NoObject]
    PROVE  /\ Cardinality(WatchedBy(p)') = Cardinality(WatchedBy(p)) - 1
           /\ \A q \in Objects \ {p} : WatchedBy(q)' = WatchedBy(q)
<1>1. WatchedBy(p)' = WatchedBy(p) \ {s} /\ s \in WatchedBy(p)
  BY CastAssumption DEF CastType, WatchedBy
<1>2. \A q \in Objects \ {p} : WatchedBy(q)' = WatchedBy(q)
  BY CastAssumption DEF CastType, WatchedBy
<1> QED
  BY <1>1, <1>2, CountsAreNumbers, FS_RemoveElement

\* A cast that ends takes its spectators with it, and only them.
LEMMA StopCounts ==
    ASSUME CastType, NEW c \in Casters, NEW p \in Objects, StopLiveCast(c)
    PROVE  /\ Dropped(c, p) \in Int
           /\ Cardinality(WatchedBy(p)') = Cardinality(WatchedBy(p)) - Dropped(c, p)
<1> DEFINE D == {s \in spectators[c] : watched[s] = p}
<1>1. spectators[c] \subseteq Spectators
  BY DEF CastType
<1>2. watched' = [s \in Spectators |-> IF s \in spectators[c] THEN NoObject ELSE watched[s]]
  BY DEF StopLiveCast
<1>3. WatchedBy(p)' = WatchedBy(p) \ D
  BY <1>1, <1>2, CastAssumption DEF WatchedBy
<1>4. D = WatchedBy(p) \cap D
  BY <1>1 DEF WatchedBy
<1>5. D \in SUBSET Spectators
  BY <1>1
<1> HIDE DEF D
<1>6. Cardinality(WatchedBy(p) \ D) = Cardinality(WatchedBy(p)) - Cardinality(WatchedBy(p) \cap D)
  BY CountsAreNumbers, FS_Difference
<1>7. Cardinality(D) \in Nat
  BY <1>5, CastAssumption, FS_Subset, FS_CardinalityType
<1> QED
  BY <1>3, <1>4, <1>6, <1>7 DEF D, Dropped

\* A stop ends one cast, and nothing of another.
LEMMA StopKeeps ==
    ASSUME CastInv, NEW c \in Casters, StopLiveCast(c)
    PROVE  /\ isCaster' \in [Casters -> BOOLEAN]
           /\ liveCasts' \in [Objects -> Casters \cup {NoCaster}]
           /\ spectators' \in [Casters -> SUBSET Spectators]
           /\ watched' \in [Spectators -> Objects \cup {NoObject}]
           /\ \A d \in Casters : isCaster'[d] <=> isCaster[d] /\ d # c
           /\ \A p \in Objects, d \in Casters : liveCasts'[p] = d <=> liveCasts[p] = d /\ d # c
           /\ \A d \in Casters : spectators'[d] = IF d = c THEN {} ELSE spectators[d]
           /\ \A s \in Spectators :
                watched'[s] = IF s \in spectators[c] THEN NoObject ELSE watched[s]
<1> USE CastAssumption DEF CastInv, CastType
<1>1. /\ isCaster' = [isCaster EXCEPT ![c] = FALSE]
      /\ liveCasts' = IF isCaster[c] THEN [liveCasts EXCEPT ![played[c]] = NoCaster] ELSE liveCasts
      /\ spectators' = [spectators EXCEPT ![c] = {}]
      /\ watched' = [s \in Spectators |-> IF s \in spectators[c] THEN NoObject ELSE watched[s]]
  BY DEF StopLiveCast
<1>2. \A d \in Casters : isCaster'[d] <=> isCaster[d] /\ d # c
  BY <1>1
<1>3. \A p \in Objects, d \in Casters : liveCasts[p] = d <=> isCaster[d] /\ played[d] = p
  BY DEF CastsConsistent, CastsAgree
<1>4. CASE isCaster[c]
  <2>1. played[c] \in Objects
    BY <1>4 DEF CastsConsistent, CastersPlay
  <2>2. liveCasts' = [liveCasts EXCEPT ![played[c]] = NoCaster]
    BY <1>1, <1>4
  <2>3. \A p \in Objects, d \in Casters : liveCasts'[p] = d <=> liveCasts[p] = d /\ d # c
    BY <2>1, <2>2, <1>3, <1>4
  <2> QED
    BY <1>1, <1>2, <2>1, <2>2, <2>3
<1>5. CASE ~isCaster[c]
  <2>1. liveCasts' = liveCasts
    BY <1>1, <1>5
  <2> QED
    BY <1>1, <1>2, <1>3, <1>5, <2>1
<1> QED
  BY <1>4, <1>5

\* What stays of the agreement when a cast has stopped, whoever else changes.
LEMMA StopAgrees ==
    ASSUME CastInv, NEW c \in Casters, StopLiveCast(c), UNCHANGED watchedClient,
           \A d \in Casters \ {c} : played'[d] = played[d],
           \A d \in Casters \ {c} : played[d] # NoObject => clients'[played[d]] = clients[played[d]]
    PROVE  CastsAgree' /\ CastersPlay'
<1> USE CastAssumption DEF CastInv, CastType
<1>1. ASSUME NEW p \in Objects, NEW d \in Casters
      PROVE  liveCasts'[p] = d <=> isCaster'[d] /\ played'[d] = p
  BY StopKeeps DEF CastsConsistent, CastsAgree
<1>2. ASSUME NEW s \in Spectators, NEW d \in Casters, s \in spectators'[d]
      PROVE  isCaster'[d] /\ watchedClient'[s] = d /\ watched'[s] = played'[d]
  <2>1. d # c /\ s \in spectators[d]
    BY <1>2, StopKeeps
  <2>2. isCaster[d] /\ watchedClient[s] = d /\ watched[s] = played[d]
    BY <2>1 DEF CastsConsistent, CastsAgree
  <2>3. s \notin spectators[c]
    BY <2>1, <2>2 DEF CastsConsistent, CastsAgree
  <2> QED
    BY <2>1, <2>2, <2>3, StopKeeps
<1>3. ASSUME NEW s \in Spectators, watched'[s] # NoObject
      PROVE  s \in spectators'[watchedClient'[s]]
  <2>1. s \notin spectators[c] /\ watched[s] # NoObject
    BY <1>3, StopKeeps
  <2>2. s \in spectators[watchedClient[s]]
    BY <2>1 DEF CastsConsistent, CastsAgree
  <2>3. CASE watchedClient[s] \in Casters
    BY <2>1, <2>2, <2>3, StopKeeps
  <2>4. CASE watchedClient[s] = NoCaster
    <3>1. watchedClient'[s] = NoCaster /\ spectators'[NoCaster] = spectators[NoCaster]
      BY <2>4 DEF StopLiveCast
    <3> QED
      BY <2>2, <2>4, <3>1
  <2> QED
    BY <2>3, <2>4
<1>4. CastersPlay'
  BY StopKeeps DEF CastsConsistent, CastersPlay
<1> QED
  BY <1>1, <1>2, <1>3, <1>4 DEF CastsAgree

\* The counts of the objects after a step, from those before it.
LEMMA CountedStep ==
    ASSUME CastInv
    PROVE  /\ \A p \in Objects : Counted(p)
           /\ \A p \in Objects : references[p] = 0 =>
                /\ p \notin inGame \cup toRelease
                /\ \A c \in Casters : played[c] # p /\ clients[p] # c
           /\ (\A p \in Objects : Counted(p)') => CountedOnce'
<1>1. \A p \in Objects : Counted(p)
  BY CountedOnceIs DEF CastInv, CastsConsistent
<1>2. ASSUME NEW p \in Objects, references[p] = 0
      PROVE  p \notin inGame \cup toRelease /\ \A c \in Casters : played[c] # p /\ clients[p] # c
  <2>1. Cardinality(PlayedBy(p)) = 0 /\ Kept(p) = 0
    BY <1>1, <1>2, CountsAreNumbers DEF Counted, Kept
  <2>2. PlayedBy(p) = {}
    BY <2>1, CountsAreNumbers, FS_EmptySet
  <2> QED
    BY <2>1, <2>2 DEF PlayedBy, Kept, CastInv, CastersKnown
<1>3. (\A p \in Objects : Counted(p)') => CountedOnce'
  BY DEF CountedOnce, Counted, PlayedBy, WatchedBy, Kept
<1> QED
  BY <1>1, <1>2, <1>3

\* A player gets a client, new or after the last was lost.
LEMMA PlayStep ==
    ASSUME CastInv, NEW c \in Casters, NEW p \in Objects,
           LoginCaster(c, p) \/ ConnectCaster(c, p)
    PROVE  CastInv'
<1> USE CastAssumption DEF CastInv, CastType
<1>1. /\ played[c] = NoObject /\ clients[p] = NoCaster
      /\ open' = open \cup {c}
      /\ played' = [played EXCEPT ![c] = p]
      /\ clients' = [clients EXCEPT ![p] = c]
      /\ UNCHANGED <<toRelease, releases, isCaster, liveCasts, spectators, watched, watchedClient>>
  BY CountedStep DEF LoginCaster, ConnectCaster, casts
<1>2. \/ /\ references[p] = 0 /\ references' = [references EXCEPT ![p] = 2]
         /\ inGame' = inGame \cup {p}
      \/ /\ references' = [references EXCEPT ![p] = @ + 1]
         /\ inGame' = inGame
  BY DEF LoginCaster, ConnectCaster
<1>3. CastType'
  BY <1>1, <1>2
<1>4. CastersKnown'
  BY <1>1, <1>2, CountedStep DEF CastersKnown
<1>5. ASSUME NEW q \in Objects PROVE Counted(q)'
  <2>1. WatchedBy(q)' = WatchedBy(q)
    BY <1>1 DEF WatchedBy
  <2>2. /\ Cardinality(PlayedBy(q)) \in Nat /\ Cardinality(WatchedBy(q)) \in Nat
        /\ references[q] \in Int /\ Counted(q)
    BY CountsAreNumbers, CountedStep
  <2>3. CASE q # p
    <3>1. PlayedBy(q)' = PlayedBy(q)
      BY <1>1, <2>3, PlayedMore
    <3>2. references'[q] = references[q] /\ Kept(q)' = Kept(q)
      BY <1>1, <1>2, <2>3 DEF Kept
    <3> QED
      BY <2>1, <2>2, <3>1, <3>2 DEF Counted
  <2>4. CASE q = p
    <3>1. Cardinality(PlayedBy(p)') = Cardinality(PlayedBy(p)) + 1
      BY <1>1, PlayedMore
    <3>2. \/ references'[p] = 2 /\ references[p] = 0 /\ Kept(p)' = 1 /\ Kept(p) = 0
          \/ references'[p] = references[p] + 1 /\ Kept(p)' = Kept(p)
      BY <1>1, <1>2, CountedStep DEF Kept
    <3>3. Kept(p) \in {0, 1}
      BY DEF Kept
    <3> QED
      BY <2>1, <2>2, <2>4, <3>1, <3>2, <3>3 DEF Counted
  <2> QED
    BY <2>3, <2>4
<1>6. CastsAgree' /\ CastersPlay'
  BY <1>1 DEF CastsConsistent, CastsAgree, CastersPlay
<1> QED
  BY <1>3, <1>4, <1>5, <1>6, CountedStep DEF CastsConsistent

\* What is left of the references when a cast has stopped.
LEMMA StopCounted ==
    ASSUME CastInv, NEW c \in Casters, NEW p \in Objects, StopLiveCast(c),
           Kept(p)' = Kept(p), NEW n \in {0, 1},
           Cardinality(PlayedBy(p)') = Cardinality(PlayedBy(p)) - n,
           references'[p] = references[p] - Dropped(c, p) - n
    PROVE  Counted(p)'
<1>1. /\ Cardinality(PlayedBy(p)) \in Nat /\ Cardinality(WatchedBy(p)) \in Nat
      /\ references[p] \in Int /\ Counted(p) /\ Kept(p) \in {0, 1}
  BY CountsAreNumbers, CountedStep DEF Kept, CastInv, CastType
<1>2. /\ Dropped(c, p) \in Int
      /\ Cardinality(WatchedBy(p)') = Cardinality(WatchedBy(p)) - Dropped(c, p)
  BY StopCounts DEF CastInv
<1> QED
  BY <1>1, <1>2 DEF Counted

\* A player begins a cast.
LEMMA StartCastStep ==
    ASSUME CastInv, NEW c \in Casters, StartLiveCast(c)
    PROVE  CastInv'
<1> USE CastAssumption DEF CastInv, CastType
<1>1. /\ ~isCaster[c] /\ played[c] \in Objects
      /\ isCaster' = [isCaster EXCEPT ![c] = TRUE]
      /\ liveCasts' = [liveCasts EXCEPT ![played[c]] = c]
      /\ UNCHANGED <<inGame, toRelease, played, clients, references, open, releases, spectators,
                     watched, watchedClient>>
  BY DEF StartLiveCast, sessions
<1>2. CastType' /\ CastersKnown'
  BY <1>1 DEF CastersKnown
<1>3. CountedOnce'
  BY <1>1 DEF CastsConsistent, CountedOnce
<1>4. CastersPlay'
  BY <1>1 DEF CastsConsistent, CastersPlay, CastersKnown
<1>5. ASSUME NEW p \in Objects, NEW d \in Casters
      PROVE  liveCasts'[p] = d <=> isCaster'[d] /\ played'[d] = p
  <2>1. liveCasts[p] = d <=> isCaster[d] /\ played[d] = p
    BY DEF CastsConsistent, CastsAgree
  <2>2. clients[p] = c <=> played[c] = p
    BY DEF CastersKnown
  <2>3. clients[p] = d <=> played[d] = p
    BY DEF CastersKnown
  <2>4. CASE p = played[c]
    BY <1>1, <2>1, <2>2, <2>3, <2>4
  <2>5. CASE p # played[c]
    BY <1>1, <2>1, <2>5
  <2> QED
    BY <2>4, <2>5
<1>6. CastsAgree'
  BY <1>1, <1>5 DEF CastsConsistent, CastsAgree
<1> QED
  BY <1>2, <1>3, <1>4, <1>6 DEF CastsConsistent

\* A cast ends, by its player, with the logout of its player, or with the
\* release of the protocol.
LEMMA EndCastStep ==
    ASSUME CastInv, NEW c \in Casters,
           EndLiveCast(c) \/ LogoutCaster(c) \/ ReleaseCaster(c)
    PROVE  CastInv'
<1> USE CastAssumption DEF CastInv, CastType
<1>1. StopLiveCast(c) /\ UNCHANGED watchedClient
  BY DEF EndLiveCast, LogoutCaster, ReleaseCaster
<1>2. spectators[c] \cap (open \cup releases) \subseteq open' \cup releases'
      /\ (open \cup releases) \ (open' \cup releases') \subseteq spectators[c] \cup {c}
  BY DEF EndLiveCast, LogoutCaster, ReleaseCaster, ClosedOf
<1>3. \A s \in Spectators : watched'[s] # NoObject => s \in open' \cup releases'
  BY <1>1, <1>2, StopKeeps DEF CastersKnown
<1>4. inGame' \cup toRelease' = inGame \cup toRelease /\ inGame' \cap toRelease' = {}
      /\ inGame' \subseteq Objects /\ toRelease' \subseteq Objects
  BY DEF EndLiveCast, LogoutCaster, ReleaseCaster, RemoveCreature, CastersKnown, sessions
<1>5. \A p \in Objects : Dropped(c, p) \in Int /\ Kept(p)' = Kept(p)
  BY <1>1, <1>4, StopCounts DEF Kept
<1>6. CASE UNCHANGED <<played, clients>> /\ references' = [p \in Objects |-> references[p] - Dropped(c, p)]
  <2>1. CastType'
    BY <1>1, <1>4, <1>5, <1>6, StopKeeps
  <2>2. CastersKnown'
    BY <1>3, <1>4, <1>6 DEF CastersKnown
  <2>3. ASSUME NEW p \in Objects PROVE Counted(p)'
    <3>1. PlayedBy(p)' = PlayedBy(p)
      BY <1>6 DEF PlayedBy
    <3>2. Cardinality(PlayedBy(p)') = Cardinality(PlayedBy(p)) - 0
          /\ references'[p] = references[p] - Dropped(c, p) - 0
      BY <1>5, <1>6, <3>1, CountsAreNumbers
    <3> QED
      BY <1>1, <1>5, <3>2, StopCounted
  <2>4. CastsAgree' /\ CastersPlay'
    BY <1>1, <1>6, StopAgrees
  <2> QED
    BY <2>1, <2>2, <2>3, <2>4, CountedStep DEF CastsConsistent
<1>7. CASE ReleaseCaster(c) /\ played[c] # NoObject
  <2>1. PICK p \in Objects : played[c] = p /\ clients[p] = c
    BY <1>7 DEF CastersKnown
  <2>2. /\ references' = [q \in Objects |->
                references[q] - Dropped(c, q) - (IF q = p THEN 1 ELSE 0)]
        /\ clients' = [clients EXCEPT ![p] = NoCaster]
        /\ played' = [played EXCEPT ![c] = NoObject]
    BY <1>7, <2>1 DEF ReleaseCaster
  <2>3. CastType'
    BY <1>1, <1>4, <1>5, <2>1, <2>2, StopKeeps
  <2>4. CastersKnown'
    BY <1>3, <1>4, <2>1, <2>2 DEF CastersKnown
  <2>7. /\ Cardinality(PlayedBy(p)') = Cardinality(PlayedBy(p)) - 1
        /\ \A q \in Objects \ {p} : PlayedBy(q)' = PlayedBy(q)
    <3>1. CastType
      OBVIOUS
    <3> HIDE DEF CastType, CastInv
    <3> QED
      BY <2>1, <2>2, <3>1, PlayedLess
  <2>5. ASSUME NEW q \in Objects PROVE Counted(q)'
    <3> DEFINE n == IF q = p THEN 1 ELSE 0
    <3> HIDE DEF n
    <3>1. Cardinality(PlayedBy(q)') = Cardinality(PlayedBy(q)) - n /\ n \in {0, 1}
      <4>1. CASE q = p
        <5>1. Cardinality(PlayedBy(p)') = Cardinality(PlayedBy(p)) - 1
          BY <2>7
        <5> QED
          BY <4>1, <5>1 DEF n
      <4>2. CASE q # p
        <5>1. PlayedBy(q)' = PlayedBy(q)
          BY <2>7, <4>2
        <5>2. Cardinality(PlayedBy(q)') = Cardinality(PlayedBy(q)) - 0
          BY <5>1, CountsAreNumbers
        <5> QED
          BY <4>2, <5>2 DEF n
      <4> QED
        BY <4>1, <4>2
    <3>2. references'[q] = references[q] - Dropped(c, q) - n
      BY <2>2 DEF n
    <3> QED
      BY <1>1, <1>5, <3>1, <3>2, StopCounted
  <2>6. CastsAgree' /\ CastersPlay'
    <3>1. \A d \in Casters \ {c} :
             played[d] # NoObject => clients'[played[d]] = clients[played[d]]
      BY <2>1, <2>2 DEF CastersKnown
    <3> QED
      BY <1>1, <2>2, <3>1, StopAgrees
  <2> QED
    BY <2>3, <2>4, <2>5, <2>6, CountedStep DEF CastsConsistent
<1>8. CASE ReleaseCaster(c) /\ played[c] = NoObject
  <2>1. references' = [q \in Objects |-> references[q] - Dropped(c, q)] /\ UNCHANGED <<played, clients>>
    <3>1. references' = [q \in Objects |-> references[q] - Dropped(c, q) - 0] /\ UNCHANGED <<played, clients>>
      BY <1>8 DEF ReleaseCaster
    <3> QED
      BY <1>5, <3>1
  <2> QED
    BY <1>6, <2>1
<1>9. CASE EndLiveCast(c) \/ LogoutCaster(c)
  BY <1>6, <1>9 DEF EndLiveCast, LogoutCaster, sessions
<1> QED
  BY <1>7, <1>8, <1>9

\* A removed player stays counted until the cleanup, which counts it down.
LEMMA CleanupStep ==
    ASSUME CastInv, CleanupCreatures
    PROVE  CastInv'
<1> USE CastAssumption DEF CastInv, CastType
<1>1. /\ references' = [p \in Objects |-> references[p] - (IF p \in toRelease THEN 1 ELSE 0)]
      /\ toRelease' = {}
      /\ clients' = [p \in Objects |-> IF references'[p] = 0 THEN NoCaster ELSE clients[p]]
      /\ UNCHANGED <<inGame, open, releases, played, isCaster, liveCasts, spectators, watched,
                     watchedClient>>
  BY DEF CleanupCreatures, casts
<1>2. ASSUME NEW p \in Objects PROVE Counted(p)'
  <2>1. PlayedBy(p)' = PlayedBy(p) /\ WatchedBy(p)' = WatchedBy(p)
    BY <1>1 DEF PlayedBy, WatchedBy
  <2>2. Kept(p)' = Kept(p) - (IF p \in toRelease THEN 1 ELSE 0)
    BY <1>1 DEF Kept, CastersKnown
  <2>3. Kept(p) \in {0, 1} /\ references'[p] = references[p] - (IF p \in toRelease THEN 1 ELSE 0)
    BY <1>1 DEF Kept
  <2>4. Counted(p) /\ Cardinality(PlayedBy(p)) \in Nat /\ Cardinality(WatchedBy(p)) \in Nat
    BY CountedStep, CountsAreNumbers
  <2> QED
    BY <2>1, <2>2, <2>3, <2>4 DEF Counted
<1>3. ASSUME NEW p \in Objects, references'[p] = 0
      PROVE  \A c \in Casters : played[c] # p
  <2>1. Cardinality(PlayedBy(p)') = 0
    BY <1>2, <1>3, CountsAreNumbers DEF Counted, Kept
  <2>2. PlayedBy(p)' = {}
    BY <2>1, CountsAreNumbers, FS_EmptySet
  <2> QED
    BY <1>1, <2>2 DEF PlayedBy
<1>4. CastType'
  BY <1>1
<1>5. CastersKnown'
  BY <1>1, <1>3 DEF CastersKnown
<1>6. CastsAgree' /\ CastersPlay'
  BY <1>1, <1>3 DEF CastsConsistent, CastsAgree, CastersPlay
<1> QED
  BY <1>2, <1>4, <1>5, <1>6, CountedStep DEF CastsConsistent

\* A spectator comes.
LEMMA SpectatorComes ==
    ASSUME CastInv, NEW s \in Spectators, NEW p \in Objects, SpectatorLogin(s, p)
    PROVE  CastInv'
<1> USE CastAssumption DEF CastInv, CastType
<1> DEFINE c == liveCasts[p]
<1>1. /\ s \notin open \cup releases /\ c \in Casters
      /\ s \in open' \cup releases' /\ open \cup releases \subseteq open' \cup releases'
      /\ references' = [references EXCEPT ![p] = @ + 1]
      /\ watched' = [watched EXCEPT ![s] = p]
      /\ watchedClient' = [watchedClient EXCEPT ![s] = c]
      /\ spectators' = [spectators EXCEPT ![c] = @ \cup {s}]
      /\ UNCHANGED <<inGame, toRelease, played, clients, isCaster, liveCasts>>
  BY DEF SpectatorLogin, sessions
<1>2. watched[s] = NoObject /\ isCaster[c] /\ played[c] = p
  BY <1>1 DEF CastersKnown, CastsConsistent, CastsAgree
<1>3. \A d \in Casters : s \notin spectators[d]
  BY <1>2 DEF CastsConsistent, CastsAgree, CastersPlay
<1> HIDE DEF c
<1>4. CastType' /\ CastersKnown'
  BY <1>1 DEF CastersKnown
<1>5. ASSUME NEW q \in Objects PROVE Counted(q)'
  <2>1. PlayedBy(q)' = PlayedBy(q) /\ Kept(q)' = Kept(q) /\ Kept(q) \in {0, 1}
    BY <1>1 DEF PlayedBy, Kept
  <2>2. Counted(q) /\ Cardinality(PlayedBy(q)) \in Nat /\ Cardinality(WatchedBy(q)) \in Nat
    BY CountedStep, CountsAreNumbers
  <2>3. CASE q = p
    <3>1. Cardinality(WatchedBy(q)') = Cardinality(WatchedBy(q)) + 1
      BY <1>1, <1>2, <2>3, WatchedMore
    <3>2. references'[q] = references[q] + 1
      BY <1>1, <2>3
    <3> QED
      BY <2>1, <2>2, <3>1, <3>2 DEF Counted
  <2>4. CASE q # p
    <3>1. WatchedBy(q)' = WatchedBy(q)
      <4>1. CastType /\ watched' = [watched EXCEPT ![s] = p]
        BY <1>1
      <4> HIDE DEF CastType, CastInv
      <4> QED
        BY <1>2, <2>4, <4>1, WatchedMore
    <3>2. references'[q] = references[q]
      BY <1>1, <2>4
    <3> QED
      BY <2>1, <2>2, <3>1, <3>2 DEF Counted
  <2> QED
    BY <2>3, <2>4
<1>6. CastsAgree' /\ CastersPlay'
  BY <1>1, <1>2, <1>3 DEF CastsConsistent, CastsAgree, CastersPlay
<1> QED
  BY <1>4, <1>5, <1>6, CountedStep DEF CastsConsistent

\* A spectator leaves.
LEMMA SpectatorLeaves ==
    ASSUME CastInv, NEW s \in Spectators, SpectatorRelease(s) \/ SpectatorLogout(s)
    PROVE  CastInv'
<1> USE CastAssumption DEF CastInv, CastType
<1>1. /\ Unwatch(s)
      /\ (open \cup releases) \ {s} \subseteq open' \cup releases'
      /\ UNCHANGED <<inGame, toRelease, played, clients, isCaster, liveCasts, watchedClient>>
  BY DEF SpectatorRelease, SpectatorLogout, sessions, ClosedOf
<1>2. CASE watched[s] = NoObject
  <2>1. UNCHANGED <<references, watched, spectators>>
    BY <1>1, <1>2 DEF Unwatch
  <2>2. CastType' /\ CastersKnown'
    BY <1>1, <1>2, <2>1 DEF CastersKnown
  <2>3. CastsConsistent'
    BY <1>1, <2>1 DEF CastsConsistent, CountedOnce, CastsAgree, CastersPlay
  <2> QED
    BY <2>2, <2>3
<1>3. CASE watched[s] # NoObject
  <2> DEFINE p == watched[s]
             c == watchedClient[s]
  <2>1. /\ p \in Objects
        /\ references' = [references EXCEPT ![p] = @ - 1]
        /\ watched' = [watched EXCEPT ![s] = NoObject]
        /\ spectators' = [spectators EXCEPT ![c] = @ \ {s}]
    BY <1>1, <1>3 DEF Unwatch
  <2>2. \A d \in Casters : s \notin spectators'[d]
    BY <2>1 DEF CastsConsistent, CastsAgree
  <2>3. \A d \in Casters, t \in Spectators : t \in spectators'[d] <=> t \in spectators[d] /\ t # s
    BY <2>1, <2>2
  <2>4. spectators' \in [Casters -> SUBSET Spectators]
    BY <2>1
  <2>5. CastType' /\ CastersKnown'
    BY <1>1, <2>1, <2>4 DEF CastersKnown
  <2>6. ASSUME NEW q \in Objects PROVE Counted(q)'
    <3>1. PlayedBy(q)' = PlayedBy(q) /\ Kept(q)' = Kept(q) /\ Kept(q) \in {0, 1}
      BY <1>1 DEF PlayedBy, Kept
    <3>2. Counted(q) /\ Cardinality(PlayedBy(q)) \in Nat /\ Cardinality(WatchedBy(q)) \in Nat
      BY CountedStep, CountsAreNumbers
    <3>3. CASE q = p
      <4>1. Cardinality(WatchedBy(q)') = Cardinality(WatchedBy(q)) - 1
        BY <2>1, <3>3, WatchedLess
      <4>2. references'[q] = references[q] - 1
        BY <2>1, <3>3
      <4> QED
        BY <3>1, <3>2, <4>1, <4>2 DEF Counted
    <3>4. CASE q # p
      <4>1. WatchedBy(q)' = WatchedBy(q)
        BY <2>1, <3>4, WatchedLess
      <4>2. references'[q] = references[q]
        BY <2>1, <3>4
      <4> QED
        BY <3>1, <3>2, <4>1, <4>2 DEF Counted
    <3> QED
      BY <3>3, <3>4
  <2>7. ASSUME NEW t \in Spectators, watched'[t] # NoObject
        PROVE  t \in spectators'[watchedClient'[t]]
    <3>1. t # s /\ watched[t] # NoObject
      BY <2>1, <2>7
    <3>2. t \in spectators[watchedClient[t]]
      BY <3>1 DEF CastsConsistent, CastsAgree
    <3> QED
      BY <1>1, <2>1, <3>1, <3>2
  <2>8. CastsAgree' /\ CastersPlay'
    BY <1>1, <2>1, <2>3, <2>7 DEF CastsConsistent, CastsAgree, CastersPlay
  <2> QED
    BY <2>5, <2>6, <2>8, CountedStep DEF CastsConsistent
<1> QED
  BY <1>2, <1>3

\* One case for each operation of a caster, of a spectator and of the game.
LEMMA CastStep == ASSUME CastInv, [CastNext]_castVars PROVE CastInv'
<1> USE DEF CastInv, CastType
<1>1. ASSUME NEW p \in Objects, RemovedCaster(p) PROVE CastInv'
  <2>1. /\ p \in inGame /\ inGame' = inGame \ {p} /\ toRelease' = toRelease \cup {p}
        /\ open \cup releases = open' \cup releases'
        /\ UNCHANGED <<references, played, clients, isCaster, liveCasts, spectators, watched,
                       watchedClient>>
    BY <1>1 DEF RemovedCaster, RemoveCreature, ClosedOf, casts
  <2>2. CastType' /\ CastersKnown'
    BY <2>1 DEF CastersKnown
  <2>3. inGame' \cup toRelease' = inGame \cup toRelease
    BY <2>1
  <2>4. CastsConsistent'
    BY <2>1, <2>3 DEF CastsConsistent, CountedOnce, CastsAgree, CastersPlay
  <2> QED
    BY <2>2, <2>4
<1>2. ASSUME NEW x \in Casters \cup Spectators, ConnectionLost(x) PROVE CastInv'
  <2>1. open' \cup releases' = open \cup releases
        /\ UNCHANGED <<inGame, toRelease, references, played, clients, isCaster, liveCasts,
                       spectators, watched, watchedClient>>
    BY <1>2 DEF ConnectionLost, ClosedOf, sessions, casts
  <2> QED
    BY <2>1 DEF CastersKnown, CastsConsistent, CountedOnce, CastsAgree, CastersPlay
<1>3. CASE UNCHANGED castVars
  BY <1>3 DEF castVars, CastersKnown, CastsConsistent, CountedOnce, CastsAgree, CastersPlay
<1> QED
  BY <1>1, <1>2, <1>3, PlayStep, StartCastStep, EndCastStep, CleanupStep, SpectatorComes,
     SpectatorLeaves DEF CastNext

\* There are no objects and no casts when the server starts.
LEMMA CastStart == ASSUME CastInit PROVE CastInv
<1> USE CastAssumption DEF CastInit
<1>1. CastType /\ CastersKnown /\ CastsAgree /\ CastersPlay
  BY DEF CastType, CastersKnown, CastsAgree, CastersPlay
<1>2. ASSUME NEW p \in Objects PROVE Counted(p)
  <2>1. PlayedBy(p) = {} /\ WatchedBy(p) = {} /\ Kept(p) = 0 /\ references[p] = 0
    BY DEF PlayedBy, WatchedBy, Kept
  <2> QED
    BY <2>1, FS_EmptySet DEF Counted
<1> QED
  BY <1>1, <1>2, CountedOnceIs DEF CastInv, CastsConsistent

\* Only a stop ends a cast, and it leaves nobody watching.
LEMMA CastEnds == ASSUME CastInv, CastNext PROVE CastEndsForAll
<1> USE CastAssumption DEF CastInv, CastType
<1> SUFFICES ASSUME NEW c \in Casters, NEW s \in Spectators,
                    isCaster[c], ~isCaster'[c], s \in spectators[c]
             PROVE  watched'[s] = NoObject /\ s \notin open'
  BY DEF CastEndsForAll
<1>1. ASSUME NEW d \in Casters, EndLiveCast(d) \/ LogoutCaster(d) \/ ReleaseCaster(d)
      PROVE  watched'[s] = NoObject /\ s \notin open'
  <2>1. StopLiveCast(d) /\ open' \subseteq open \ spectators[d]
    BY <1>1 DEF EndLiveCast, LogoutCaster, ReleaseCaster, ClosedOf
  <2>2. d = c
    BY <2>1, StopKeeps
  <2> QED
    BY <2>1, <2>2, StopKeeps
<1>2. ASSUME NEW d \in Casters, StartLiveCast(d) PROVE FALSE
  BY <1>2 DEF StartLiveCast
<1>3. ASSUME UNCHANGED isCaster PROVE FALSE
  BY <1>3
<1> QED
  BY <1>1, <1>2, <1>3 DEF CastNext, CleanupCreatures, LoginCaster, ConnectCaster, RemovedCaster,
     SpectatorLogout, SpectatorRelease, SpectatorLogin, ConnectionLost, casts

\* Casts, casters, spectators and the counts of the Player objects agree after
\* every step, and no cast ends with somebody watching (startLiveCast,
\* stopLiveCast, the releases of both protocols, Game::cleanup).
THEOREM CastsStayConsistent == CastSpec => CastsKept
<1>1. CastInit => CastInv
  BY CastStart
<1>2. CastInv /\ [CastNext]_castVars => CastInv' /\ [CastsConsistent' /\ CastEndsForAll]_castVars
  <2> SUFFICES ASSUME CastInv, [CastNext]_castVars
               PROVE  CastInv' /\ [CastsConsistent' /\ CastEndsForAll]_castVars
    OBVIOUS
  <2>1. CastInv'
    BY CastStep
  <2>2. CastNext => CastEndsForAll
    BY CastEnds
  <2>3. CastsConsistent'
    BY <2>1 DEF CastInv
  <2> QED
    BY <2>1, <2>2, <2>3
<1> QED
  BY <1>1, <1>2, PTL DEF CastSpec, CastsKept

-----------------------------------------------------------------------------
(***************************************************************************)
(* Connections.                                                            *)
(***************************************************************************)
ConnectionType ==
    /\ managed \subseteq Connections /\ broken \subseteq Connections
    /\ bufferedProtocols \subseteq Connections
    /\ state \in [Connections -> {"pending", "game", "disconnected"}]
    /\ socket \in [Connections -> BOOLEAN]
    /\ messageQueue \in [Connections -> Seq(Seq(Nat))]
    /\ writes \in [Connections -> Nat]
    /\ reading \in [Connections -> BOOLEAN]
    /\ outputBuffer \in [Connections -> Seq(Nat)]
    /\ sendAllEvents \in Nat
    /\ written \in [Connections -> Nat]
    /\ wire \in [Connections -> Seq(Nat)]

\* Nothing has happened to a name nobody connected under; a connection in the
\* game always has a read, so that someone holds it, and only an error or the
\* end of the server closes its socket.
StatesKnown ==
    \A c \in Connections :
        /\ state[c] = "pending" => /\ ~Exists(c) /\ ~socket[c] /\ messageQueue[c] = <<>>
                                   /\ c \notin bufferedProtocols
        /\ state[c] = "game" => reading[c] /\ (~socket[c] => c \in broken)

ConnectionInv == ConnectionType /\ StatesKnown /\ OutputInOrder /\ SendAllComes

\* What OneWrite, LastWords and StatesKnown say of one connection...
Orderly(c) ==
    /\ writes[c] > 0 => writes[c] = 1 /\ messageQueue[c] # <<>>
    /\ messageQueue[c] # <<>> /\ socket[c] => writes[c] = 1
    /\ state[c] = "disconnected" /\ ~socket[c] /\ c \notin broken => messageQueue[c] = <<>>
    /\ state[c] = "pending" => /\ ~Exists(c) /\ ~socket[c] /\ messageQueue[c] = <<>>
                               /\ c \notin bufferedProtocols
    /\ state[c] = "game" => reading[c] /\ (~socket[c] => c \in broken)

\* ...and InOrder.
Sequential(c) ==
    /\ Continues(wire[c], 0)
    /\ \A i \in DOMAIN messageQueue[c] :
         messageQueue[c][i] # <<>> /\ Continues(messageQueue[c][i], UpTo(c, i - 1))
    /\ state[c] = "game" =>
         /\ Continues(outputBuffer[c], UpTo(c, Len(messageQueue[c])))
         /\ written[c] = UpTo(c, Len(messageQueue[c])) + Len(outputBuffer[c])

\* The invariant is that of each connection.
LEMMA ByConnection ==
    ConnectionInv <=> /\ ConnectionType /\ SendAllComes
                      /\ \A c \in Connections : Orderly(c) /\ Sequential(c)
BY DEF ConnectionInv, StatesKnown, OutputInOrder, OneWrite, InOrder, LastWords, Orderly, Sequential

\* The same of the state after a step.
LEMMA ByConnectionNext ==
    ASSUME ConnectionType', SendAllComes', \A c \in Connections : Orderly(c)' /\ Sequential(c)'
    PROVE  ConnectionInv'
BY DEF ConnectionInv, StatesKnown, OutputInOrder, OneWrite, InOrder, LastWords, Orderly, Sequential

\* A queue that takes the buffer still goes on where the wire ends, and the
\* buffer goes on where the queue now does.
LEMMA SentContinues ==
    ASSUME NEW c \in Connections, Sequential(c), ConnectionType,
           NEW n \in Nat, n = Len(messageQueue[c]),
           outputBuffer[c] # <<>>, state[c] = "game",
           messageQueue'[c] = Append(messageQueue[c], outputBuffer[c]),
           UNCHANGED wire
    PROVE  /\ \A i \in DOMAIN messageQueue'[c] :
                messageQueue'[c][i] # <<>> /\ Continues(messageQueue'[c][i], UpTo(c, i - 1)')
           /\ Len(messageQueue'[c]) = n + 1 /\ UpTo(c, n + 1)' = written[c]
<1> DEFINE q == messageQueue[c]
           b == outputBuffer[c]
<1>1. q \in Seq(Seq(Nat)) /\ b \in Seq(Nat) /\ Len(wire[c]) \in Nat
  BY DEF ConnectionType
<1>2. /\ Len(messageQueue'[c]) = n + 1 /\ messageQueue'[c][n + 1] = b
      /\ \A i \in 1..n : messageQueue'[c][i] = q[i]
      /\ DOMAIN messageQueue'[c] = 1..(n + 1)
  BY <1>1
<1>3. \A i \in 0..n : UpTo(c, i)' = UpTo(c, i)
  BY <1>1, <1>2 DEF UpTo, Last
<1>4. Continues(b, UpTo(c, n)) /\ written[c] = UpTo(c, n) + Len(b)
  BY DEF Sequential
<1>5. \A i \in 1..n : q[i] # <<>> /\ Continues(q[i], UpTo(c, i - 1))
  BY <1>1 DEF Sequential
<1>6. \A i \in 1..(n + 1) :
        messageQueue'[c][i] # <<>> /\ Continues(messageQueue'[c][i], UpTo(c, i - 1)')
  <2> SUFFICES ASSUME NEW i \in 1..(n + 1)
               PROVE  messageQueue'[c][i] # <<>> /\ Continues(messageQueue'[c][i], UpTo(c, i - 1)')
    OBVIOUS
  <2>1. CASE i = n + 1
    <3>1. i - 1 = n
      BY <1>1, <2>1
    <3> QED
      BY <1>1, <1>2, <1>3, <1>4, <2>1, <3>1
  <2>2. CASE i # n + 1
    <3>1. i \in 1..n /\ i - 1 \in 0..n
      BY <1>1, <2>2
    <3> QED
      BY <1>2, <1>3, <1>5, <3>1
  <2> QED
    BY <2>1, <2>2
<1>7. UpTo(c, n + 1)' = Last(b)
  BY <1>1, <1>2 DEF UpTo, Last
<1>8. Last(b) = UpTo(c, n) + Len(b)
  BY <1>1, <1>4 DEF Last, Continues
<1> QED
  BY <1>1, <1>2, <1>3, <1>4, <1>6, <1>7, <1>8

\* A connection nobody touches, and one whose messages nobody touches.
LEMMA SameSequence ==
    ASSUME ConnectionType, NEW c \in Connections, Sequential(c),
           wire'[c] = wire[c], messageQueue'[c] = messageQueue[c],
           outputBuffer'[c] = outputBuffer[c], written'[c] = written[c],
           state'[c] = "game" => state[c] = "game"
    PROVE  Sequential(c)'
<1>1. ASSUME NEW i PROVE UpTo(c, i)' = UpTo(c, i)
  BY DEF UpTo
<1>2. UpTo(c, Len(messageQueue[c]))' = UpTo(c, Len(messageQueue[c]))
  BY DEF UpTo
<1>3. Continues(wire'[c], 0)
  BY DEF Sequential
<1>4. ASSUME NEW i \in DOMAIN messageQueue'[c]
      PROVE  messageQueue'[c][i] # <<>> /\ Continues(messageQueue'[c][i], UpTo(c, i - 1)')
  BY <1>1 DEF Sequential
<1> QED
  BY <1>2, <1>3, <1>4 DEF Sequential

\* A connection whose parts a step leaves alone stays in order.
LEMMA Untouched ==
    ASSUME ConnectionInv, NEW c \in Connections,
           wire'[c] = wire[c], messageQueue'[c] = messageQueue[c],
           outputBuffer'[c] = outputBuffer[c], written'[c] = written[c],
           state'[c] = state[c], socket'[c] = socket[c], writes'[c] = writes[c],
           reading'[c] = reading[c], c \in managed' <=> c \in managed,
           c \in broken' <=> c \in broken,
           c \in bufferedProtocols' => c \in bufferedProtocols
    PROVE  Orderly(c)' /\ Sequential(c)'
<1>1. ConnectionType /\ Orderly(c) /\ Sequential(c)
  BY ByConnection
<1>2. Exists(c)' <=> Exists(c)
  BY DEF Exists
<1> QED
  BY <1>1, <1>2, SameSequence DEF Orderly

\* close, by the reader, the timer, the dispatcher.
LEMMA CloseStep ==
    ASSUME ConnectionInv, NEW c \in Connections, NEW force \in BOOLEAN, state[c] # "pending",
           Close(c, force, messageQueue[c]),
           reading' \in [Connections -> BOOLEAN],
           \A d \in Connections \ {c} : reading'[d] = reading[d],
           UNCHANGED <<messageQueue, writes, outputVars, wire>>
    PROVE  ConnectionInv'
<1>1. ConnectionType
  BY ByConnection
<1>2. ConnectionType' /\ SendAllComes'
  BY <1>1, ByConnection DEF ConnectionType, Close, outputVars, SendAllComes
<1>3. ASSUME NEW d \in Connections, d # c PROVE Orderly(d)' /\ Sequential(d)'
  BY <1>1, <1>3, Untouched DEF ConnectionType, Close, outputVars
<1>4. Sequential(c)'
  BY <1>1, ByConnection, SameSequence DEF ConnectionType, Close, outputVars
<1>5. Orderly(c)'
  BY <1>1, ByConnection DEF Orderly, Close, outputVars, ConnectionType
<1> QED
  BY <1>2, <1>3, <1>4, <1>5, ByConnectionNext

\* A connection that is accepted has nothing to send.
LEMMA AcceptStep ==
    ASSUME ConnectionInv, NEW c \in Connections, Accept(c)
    PROVE  ConnectionInv'
<1> USE DEF ConnectionType
<1>1. ConnectionType
  BY ByConnection
<1>2. ConnectionType' /\ SendAllComes'
  BY <1>1, ByConnection DEF Accept, SendAllComes
<1>3. ASSUME NEW d \in Connections, d # c PROVE Orderly(d)' /\ Sequential(d)'
  BY <1>1, <1>3, Untouched DEF Accept
<1>4. /\ messageQueue'[c] = <<>> /\ wire'[c] = <<>> /\ outputBuffer'[c] = <<>> /\ written'[c] = 0
      /\ state'[c] = "game" /\ socket'[c] = TRUE /\ reading'[c] = TRUE /\ writes'[c] = 0
  BY <1>1 DEF Accept, Over, Exists
<1>5. Orderly(c)'
  BY <1>4 DEF Orderly
<1>6. Sequential(c)'
  BY <1>4 DEF Sequential, Continues, UpTo
<1> QED
  BY <1>2, <1>3, <1>5, <1>6, ByConnectionNext

\* A read, with or without an error, writes nothing; at most it closes.
LEMMA ReadStep ==
    ASSUME ConnectionInv, NEW c \in Connections, ReadHandled(c)
    PROVE  ConnectionInv'
<1> USE DEF ConnectionType
<1>1. ConnectionType /\ state[c] # "pending" /\ Orderly(c) /\ Sequential(c)
  BY ByConnection DEF ReadHandled, Orderly, Exists
<1>2. UNCHANGED <<outputVars, messageQueue, writes, wire>>
  BY DEF ReadHandled
<1>3. CASE UNCHANGED <<reading, managed, state, socket, releaseOwed, broken>>
  <2>1. ConnectionType' /\ SendAllComes'
    BY <1>1, <1>2, <1>3, ByConnection DEF outputVars, SendAllComes
  <2>2. ASSUME NEW d \in Connections PROVE Orderly(d)' /\ Sequential(d)'
    BY <1>2, <1>3, Untouched DEF outputVars
  <2> QED
    BY <2>1, <2>2, ByConnectionNext
<1>4. CASE /\ state[c] = "disconnected" /\ reading' = [reading EXCEPT ![c] = FALSE]
           /\ UNCHANGED <<managed, state, socket, releaseOwed, broken>>
  <2>1. ConnectionType' /\ SendAllComes'
    BY <1>1, <1>2, <1>4, ByConnection DEF outputVars, SendAllComes
  <2>2. ASSUME NEW d \in Connections, d # c PROVE Orderly(d)' /\ Sequential(d)'
    BY <1>1, <1>2, <1>4, <2>2, Untouched DEF outputVars
  <2>3. Orderly(c)'
    BY <1>1, <1>2, <1>4 DEF outputVars, Orderly
  <2>4. Sequential(c)'
    BY <1>1, <1>2, <1>4, SameSequence DEF outputVars
  <2> QED
    BY <2>1, <2>2, <2>3, <2>4, ByConnectionNext
<1>5. ASSUME NEW force \in BOOLEAN, reading' = [reading EXCEPT ![c] = FALSE],
             Close(c, force, messageQueue[c])
      PROVE  ConnectionInv'
  BY <1>1, <1>2, <1>5, CloseStep
<1> QED
  BY <1>3, <1>4, <1>5 DEF ReadHandled

\* A write that ended moves the front of the queue to the wire.
LEMMA WrittenStep ==
    ASSUME ConnectionInv, NEW c \in Connections, Written(c)
    PROVE  ConnectionInv'
<1> USE DEF ConnectionType
<1>1. ConnectionType /\ Orderly(c) /\ Sequential(c) /\ socket[c] /\ writes[c] = 1
      /\ messageQueue[c] \in Seq(Seq(Nat)) /\ messageQueue[c] # <<>> /\ wire[c] \in Seq(Nat)
  BY ByConnection DEF Written, Orderly
<1> DEFINE q == messageQueue[c]
           rest == Tail(messageQueue[c])
<1>2. /\ wire' = [wire EXCEPT ![c] = @ \o Head(messageQueue[c])]
      /\ messageQueue' = [messageQueue EXCEPT ![c] = rest]
      /\ writes' = [writes EXCEPT ![c] = IF rest = <<>> THEN @ - 1 ELSE @]
      /\ socket' = [socket EXCEPT ![c] = rest # <<>> \/ state[c] # "disconnected"]
      /\ UNCHANGED <<managed, state, reading, outputVars, releaseOwed, broken>>
  BY DEF Written
<1>3. rest \in Seq(Seq(Nat)) /\ Head(q) \in Seq(Nat) /\ wire[c] \o Head(q) \in Seq(Nat)
  BY <1>1
<1>4. ConnectionType' /\ SendAllComes'
  <2>1. wire' \in [Connections -> Seq(Nat)]
    BY <1>1, <1>2, <1>3
  <2>2. messageQueue' \in [Connections -> Seq(Seq(Nat))]
    BY <1>1, <1>2, <1>3
  <2>3. writes' \in [Connections -> Nat]
    BY <1>1, <1>2
  <2>4. socket' \in [Connections -> BOOLEAN]
    BY <1>1, <1>2
  <2> QED
    BY <1>1, <1>2, <2>1, <2>2, <2>3, <2>4, ByConnection DEF outputVars, SendAllComes
<1>5. ASSUME NEW d \in Connections, d # c PROVE Orderly(d)' /\ Sequential(d)'
  BY <1>1, <1>2, <1>5, Untouched DEF outputVars
<1>6. Orderly(c)'
  <2>1. /\ messageQueue'[c] = rest /\ writes'[c] = IF rest = <<>> THEN 0 ELSE 1
        /\ socket'[c] = (rest # <<>> \/ state[c] # "disconnected")
        /\ state'[c] = state[c] /\ reading'[c] = reading[c] /\ broken' = broken
    BY <1>1, <1>2
  <2>2. state[c] # "pending"
    BY <1>1 DEF Orderly
  <2> QED
    BY <1>1, <2>1, <2>2 DEF Orderly
<1>7. Sequential(c)'
  <2>0. Len(q) \in Nat \ {0}
    BY <1>1
  <2>1. PICK n \in Nat : Len(q) = n + 1
    <3>1. Len(q) - 1 \in Nat /\ Len(q) = (Len(q) - 1) + 1
      BY <2>0
    <3> QED
      BY <3>1
  <2>2. /\ messageQueue'[c] = rest /\ wire'[c] = wire[c] \o q[1] /\ q[1] \in Seq(Nat)
        /\ Len(rest) = n /\ DOMAIN rest = 1..n /\ \A i \in 1..n : rest[i] = q[i + 1]
        /\ DOMAIN q = 1..(n + 1)
    BY <1>1, <1>2, <1>3, <2>1
  <2>3. /\ Continues(wire[c], 0)
        /\ \A i \in 1..(n + 1) : q[i] # <<>> /\ Continues(q[i], UpTo(c, i - 1))
    BY <1>1, <2>2 DEF Sequential
  <2>4. q[1] # <<>> /\ Continues(q[1], Len(wire[c]))
    <3>1. UpTo(c, 1 - 1) = Len(wire[c])
      BY DEF UpTo
    <3>2. 1 \in 1..(n + 1)
      BY <2>1
    <3> QED
      BY <2>3, <3>1, <3>2
  <2>5. PICK w \in Nat, m \in Nat \ {0} :
           w = Len(wire[c]) /\ m = Len(q[1]) /\ Last(q[1]) = w + m
    <3>1. Len(wire[c]) \in Nat /\ Len(q[1]) \in Nat \ {0}
      BY <1>1, <2>2, <2>4
    <3>2. Last(q[1]) = Len(wire[c]) + Len(q[1])
      BY <1>1, <2>2, <2>4, <3>1 DEF Last, Continues
    <3> QED
      BY <3>1, <3>2
  <2>6. /\ Len(wire'[c]) = w + m
        /\ \A i \in 1..w : wire'[c][i] = wire[c][i]
        /\ \A i \in 1..m : wire'[c][w + i] = q[1][i]
        /\ DOMAIN wire'[c] = 1..(w + m)
    BY <1>1, <2>2, <2>5
  <2>7. Continues(wire'[c], 0)
    <3> SUFFICES ASSUME NEW i \in 1..(w + m) PROVE wire'[c][i] = i
      <4>1. \A i \in 1..(w + m) : i = 0 + i
        OBVIOUS
      <4> QED
        BY <2>6, <4>1 DEF Continues
    <3>1. CASE i <= w
      <4>1. i \in 1..w
        BY <3>1
      <4>2. i \in DOMAIN wire[c]
        BY <1>1, <2>5, <4>1
      <4>3. wire[c][i] = 0 + i
        BY <2>3, <4>2 DEF Continues
      <4> QED
        BY <2>6, <4>1, <4>3
    <3>2. CASE ~(i <= w)
      <4>1. i - w \in 1..m /\ w + (i - w) = i
        BY <3>2
      <4>2. DOMAIN q[1] = 1..m
        BY <2>2, <2>5
      <4>3. wire'[c][i] = q[1][i - w]
        BY <2>6, <4>1
      <4>4. q[1][i - w] = w + (i - w)
        BY <2>4, <2>5, <4>1, <4>2 DEF Continues
      <4> QED
        BY <4>1, <4>3, <4>4
    <3> QED
      BY <3>1, <3>2
  <2>8. \A i \in 0..n : UpTo(c, i)' = UpTo(c, i + 1)
    <3> SUFFICES ASSUME NEW i \in 0..n PROVE UpTo(c, i)' = UpTo(c, i + 1)
      OBVIOUS
    <3>1. CASE i = 0
      <4>1. UpTo(c, 0)' = Len(wire'[c])
        BY DEF UpTo
      <4>2. UpTo(c, 1) = Last(q[1])
        BY DEF UpTo
      <4>3. UpTo(c, 0)' = UpTo(c, 1)
        BY <2>5, <2>6, <4>1, <4>2
      <4> QED
        BY <3>1, <4>3
    <3>2. CASE i # 0
      <4>1. i \in 1..n /\ i + 1 # 0
        BY <2>1, <3>2
      <4>2. messageQueue'[c][i] = q[i + 1]
        BY <2>2, <4>1
      <4> QED
        BY <3>2, <4>1, <4>2 DEF UpTo, Last
    <3> QED
      BY <3>1, <3>2
  <2>9. ASSUME NEW i \in 1..n
        PROVE  messageQueue'[c][i] # <<>> /\ Continues(messageQueue'[c][i], UpTo(c, i - 1)')
    <3>1. i + 1 \in 1..(n + 1) /\ i - 1 \in 0..n /\ (i + 1) - 1 = i /\ (i - 1) + 1 = i
      BY <2>1
    <3>2. messageQueue'[c][i] = q[i + 1] /\ UpTo(c, i - 1)' = UpTo(c, i)
      BY <2>2, <2>8, <3>1
    <3> QED
      BY <2>3, <3>1, <3>2
  <2>10. UpTo(c, n)' = UpTo(c, n + 1) /\ Len(messageQueue'[c]) = n
    BY <2>1, <2>2, <2>8
  <2>11. state'[c] = state[c] /\ outputBuffer'[c] = outputBuffer[c] /\ written'[c] = written[c]
    BY <1>2 DEF outputVars
  <2>12. state[c] = "game" =>
            /\ Continues(outputBuffer[c], UpTo(c, n + 1))
            /\ written[c] = UpTo(c, n + 1) + Len(outputBuffer[c])
    BY <1>1, <2>1 DEF Sequential
  <2>13. DOMAIN messageQueue'[c] = 1..n
    BY <2>2
  <2> QED
    BY <2>7, <2>9, <2>10, <2>11, <2>12, <2>13 DEF Sequential
<1> QED
  BY <1>4, <1>5, <1>6, <1>7, ByConnectionNext

\* send, of a buffer that holds something.
LEMMA Flushed ==
    ASSUME ConnectionInv, NEW c \in Connections, c \in bufferedProtocols,
           outputBuffer[c] # <<>>,
           messageQueue'[c] = Sent(c, outputBuffer[c]),
           writes'[c] = WritesAfter(c, outputBuffer[c]),
           UNCHANGED <<managed, state, socket, reading, bufferedProtocols, wire, broken>>
    PROVE  /\ Orderly(c)' /\ messageQueue'[c] \in Seq(Seq(Nat)) /\ writes'[c] \in Nat
           /\ Continues(wire'[c], 0)
           /\ \A i \in DOMAIN messageQueue'[c] :
                messageQueue'[c][i] # <<>> /\ Continues(messageQueue'[c][i], UpTo(c, i - 1)')
           /\ state[c] = "game" => UpTo(c, Len(messageQueue[c]))' = written[c]
<1>1. /\ ConnectionType /\ Orderly(c) /\ Sequential(c)
      /\ messageQueue[c] \in Seq(Seq(Nat)) /\ outputBuffer[c] \in Seq(Nat) /\ writes[c] \in Nat
      /\ state[c] \in {"pending", "game", "disconnected"}
  BY ByConnection DEF ConnectionType
<1>4. /\ Append(messageQueue[c], outputBuffer[c]) \in Seq(Seq(Nat))
      /\ Append(messageQueue[c], outputBuffer[c]) # <<>>
  <2>1. ASSUME NEW q \in Seq(Seq(Nat)), NEW b \in Seq(Nat)
        PROVE  Append(q, b) \in Seq(Seq(Nat)) /\ Len(Append(q, b)) = Len(q) + 1 /\ Len(q) \in Nat
    OBVIOUS
  <2>2. ASSUME NEW q \in Seq(Seq(Nat)), NEW b \in Seq(Nat) PROVE Append(q, b) # <<>>
    <3>1. PICK r : r = Append(q, b)
      OBVIOUS
    <3>2. Len(r) # 0
      BY <2>1, <3>1
    <3>3. Len(<<>>) = 0
      OBVIOUS
    <3> QED
      BY <3>1, <3>2, <3>3, Zenon
  <2> QED
    BY <1>1, <2>1, <2>2
<1>2. CASE state[c] = "game"
  <2>1. /\ messageQueue'[c] = Append(messageQueue[c], outputBuffer[c])
        /\ writes'[c] = IF messageQueue[c] = <<>> THEN writes[c] + 1 ELSE writes[c]
    <3>1. Exists(c)
      BY <1>1, <1>2 DEF Orderly, Exists
    <3>2. Append(messageQueue[c], outputBuffer[c]) # <<>>
      BY <1>4
    <3> QED
      BY <1>2, <3>1, <3>2 DEF Sent, WritesAfter
  <2>2. messageQueue'[c] \in Seq(Seq(Nat)) /\ messageQueue'[c] # <<>> /\ writes'[c] \in Nat
    BY <1>1, <1>4, <2>1
  <2>3. /\ writes'[c] > 0 => writes'[c] = 1
        /\ socket[c] => writes'[c] = 1
    BY <1>1, <2>1 DEF Orderly
  <2>4. Orderly(c)'
    BY <1>1, <1>2, <2>2, <2>3 DEF Orderly
  <2>5. PICK n \in Nat : n = Len(messageQueue[c])
    <3>1. PICK q \in Seq(Seq(Nat)) : q = messageQueue[c]
      BY <1>1
    <3>2. Len(q) \in Nat
      OBVIOUS
    <3> QED
      BY <3>1, <3>2
  <2>6. /\ \A i \in DOMAIN messageQueue'[c] :
             messageQueue'[c][i] # <<>> /\ Continues(messageQueue'[c][i], UpTo(c, i - 1)')
        /\ Len(messageQueue'[c]) = n + 1 /\ UpTo(c, n + 1)' = written[c]
    BY <1>1, <1>2, <2>1, <2>5, SentContinues
  <2> QED
    BY <1>1, <2>2, <2>4, <2>6 DEF Sequential
<1>3. CASE state[c] = "disconnected"
  <2>1. messageQueue'[c] = messageQueue[c] /\ writes'[c] = writes[c]
    BY <1>3 DEF Sent, WritesAfter
  <2>2. Orderly(c)'
    BY <1>1, <1>3, <2>1 DEF Orderly
  <2>3. \A i : UpTo(c, i)' = UpTo(c, i)
    BY <2>1 DEF UpTo
  <2> QED
    BY <1>1, <1>3, <2>1, <2>2, <2>3 DEF Sequential
<1> QED
  BY <1>1, <1>2, <1>3 DEF Orderly

\* Every 10 ms all buffers that hold something are sent.
LEMMA SendAllStep ==
    ASSUME ConnectionInv, SendAll
    PROVE  ConnectionInv'
<1>1. ConnectionType
  BY ByConnection
<1> DEFINE full == {c \in bufferedProtocols : outputBuffer[c] # <<>>}
<1>2. /\ messageQueue' = [c \in Connections |->
                IF c \in full THEN Sent(c, outputBuffer[c]) ELSE messageQueue[c]]
      /\ writes' = [c \in Connections |->
                IF c \in full THEN WritesAfter(c, outputBuffer[c]) ELSE writes[c]]
      /\ outputBuffer' = [c \in Connections |-> IF c \in full THEN <<>> ELSE outputBuffer[c]]
      /\ sendAllEvents > 0
      /\ sendAllEvents' = IF bufferedProtocols = {} THEN sendAllEvents - 1 ELSE sendAllEvents
      /\ UNCHANGED <<managed, state, socket, reading, bufferedProtocols, releaseOwed, written,
                     wire, broken>>
  BY DEF SendAll
<1>3. ASSUME NEW c \in Connections, c \in full
      PROVE  /\ Orderly(c)' /\ Sequential(c)'
             /\ messageQueue'[c] \in Seq(Seq(Nat)) /\ writes'[c] \in Nat
  <2>1. /\ c \in bufferedProtocols /\ outputBuffer[c] # <<>>
        /\ messageQueue'[c] = Sent(c, outputBuffer[c])
        /\ writes'[c] = WritesAfter(c, outputBuffer[c])
        /\ outputBuffer'[c] = <<>>
    BY <1>2, <1>3
  <2>2. /\ Orderly(c)' /\ messageQueue'[c] \in Seq(Seq(Nat)) /\ writes'[c] \in Nat
        /\ Continues(wire'[c], 0)
        /\ \A i \in DOMAIN messageQueue'[c] :
             messageQueue'[c][i] # <<>> /\ Continues(messageQueue'[c][i], UpTo(c, i - 1)')
        /\ state[c] = "game" => UpTo(c, Len(messageQueue[c]))' = written[c]
    BY <1>2, <2>1, Flushed
  <2>3. Continues(outputBuffer'[c], UpTo(c, Len(messageQueue[c]))') /\ Len(outputBuffer'[c]) = 0
    BY <2>1 DEF Continues
  <2>4. written[c] \in Nat
    BY <1>1 DEF ConnectionType
  <2> QED
    BY <1>2, <2>2, <2>3, <2>4 DEF Sequential
<1>4. ASSUME NEW c \in Connections, c \notin full
      PROVE  /\ Orderly(c)' /\ Sequential(c)'
             /\ messageQueue'[c] \in Seq(Seq(Nat)) /\ writes'[c] \in Nat
  <2>1. messageQueue'[c] = messageQueue[c] /\ writes'[c] = writes[c]
        /\ outputBuffer'[c] = outputBuffer[c]
    BY <1>2, <1>4
  <2> HIDE DEF full
  <2> QED
    BY <1>1, <1>2, <2>1, Untouched DEF ConnectionType
<1> HIDE DEF full
<1>5. ConnectionType'
  <2>1. messageQueue' \in [Connections -> Seq(Seq(Nat))] /\ writes' \in [Connections -> Nat]
    BY <1>2, <1>3, <1>4
  <2>2. outputBuffer' \in [Connections -> Seq(Nat)]
    BY <1>1, <1>2 DEF ConnectionType
  <2> QED
    BY <1>1, <1>2, <2>1, <2>2 DEF ConnectionType
<1>6. SendAllComes'
  BY <1>1, <1>2, ByConnection DEF SendAllComes, ConnectionType
<1> QED
  BY <1>3, <1>4, <1>5, <1>6, ByConnectionNext

\* A message goes to the buffer, which is sent first if it is full.
LEMMA WriteStep ==
    ASSUME ConnectionInv, NEW c \in Connections, Write(c)
    PROVE  ConnectionInv'
<1>1. /\ ConnectionType /\ Orderly(c) /\ Sequential(c)
      /\ outputBuffer[c] \in Seq(Nat) /\ written[c] \in Nat /\ messageQueue[c] \in Seq(Seq(Nat))
      /\ Len(wire[c]) \in Nat
  BY ByConnection DEF ConnectionType
<1>2. /\ c \in bufferedProtocols
      /\ written' = [written EXCEPT ![c] = @ + 1]
      /\ UNCHANGED <<managed, state, socket, reading, bufferedProtocols, sendAllEvents,
                     releaseOwed, wire, broken>>
  BY DEF Write
<1>3. CASE Len(outputBuffer[c]) < BufferSize
  <2>1. /\ outputBuffer' = [outputBuffer EXCEPT ![c] = Append(@, written[c] + 1)]
        /\ UNCHANGED <<messageQueue, writes>>
    BY <1>3 DEF Write
  <2>2. ConnectionType'
    <3>1. Append(outputBuffer[c], written[c] + 1) \in Seq(Nat)
      BY <1>1
    <3> QED
      BY <1>1, <1>2, <2>1, <3>1 DEF ConnectionType
  <2>3. ASSUME NEW d \in Connections, d # c PROVE Orderly(d)' /\ Sequential(d)'
    BY <1>1, <1>2, <2>1, <2>3, Untouched DEF ConnectionType
  <2>4. Orderly(c)'
    BY <1>1, <1>2, <2>1 DEF Orderly, Exists
  <2>5. Sequential(c)'
    <3>1. \A i : UpTo(c, i)' = UpTo(c, i)
      BY <1>2, <2>1 DEF UpTo
    <3>2. UpTo(c, Len(messageQueue[c]))' = UpTo(c, Len(messageQueue[c]))
      BY <1>2, <2>1 DEF UpTo
    <3>3. /\ outputBuffer'[c] = Append(outputBuffer[c], written[c] + 1)
          /\ written'[c] = written[c] + 1
      BY <1>1, <1>2, <2>1 DEF ConnectionType
    <3>4. ASSUME state[c] = "game"
          PROVE  /\ Continues(outputBuffer'[c], UpTo(c, Len(messageQueue[c])))
                 /\ written'[c] = UpTo(c, Len(messageQueue[c])) + Len(outputBuffer'[c])
      <4>1. PICK n \in Nat : n = Len(outputBuffer[c])
        BY <1>1
      <4>2. PICK u : u = UpTo(c, Len(messageQueue[c]))
        OBVIOUS
      <4>3. Continues(outputBuffer[c], u) /\ written[c] = u + n
        BY <1>1, <3>4, <4>1, <4>2 DEF Sequential
      <4>4. u \in Nat
        <5>1. CASE messageQueue[c] = <<>>
          BY <1>1, <4>2, <5>1 DEF UpTo
        <5>2. CASE messageQueue[c] # <<>>
          <6>1. Len(messageQueue[c]) \in DOMAIN messageQueue[c] /\ Len(messageQueue[c]) # 0
            BY <1>1, <5>2
          <6>2. /\ messageQueue[c][Len(messageQueue[c])] \in Seq(Nat)
                /\ messageQueue[c][Len(messageQueue[c])] # <<>>
            BY <1>1, <6>1 DEF Sequential
          <6> QED
            BY <4>2, <6>1, <6>2 DEF UpTo, Last
        <5> QED
          BY <5>1, <5>2
      <4>5. /\ Len(outputBuffer'[c]) = n + 1 /\ DOMAIN outputBuffer'[c] = 1..(n + 1)
            /\ \A i \in 1..n : outputBuffer'[c][i] = outputBuffer[c][i]
            /\ outputBuffer'[c][n + 1] = written[c] + 1
            /\ DOMAIN outputBuffer[c] = 1..n
        BY <1>1, <3>3, <4>1
      <4>6. Continues(outputBuffer'[c], u)
        <5> SUFFICES ASSUME NEW i \in 1..(n + 1) PROVE outputBuffer'[c][i] = u + i
          BY <4>5 DEF Continues
        <5>1. CASE i = n + 1
          BY <4>3, <4>4, <4>5, <5>1
        <5>2. CASE i # n + 1
          <6>1. i \in 1..n
            BY <5>2
          <6> QED
            BY <4>3, <4>5, <6>1 DEF Continues
        <5> QED
          BY <5>1, <5>2
      <4>7. written'[c] = u + (n + 1)
        BY <1>1, <3>3, <4>3, <4>4
      <4> QED
        BY <4>2, <4>5, <4>6, <4>7
    <3>5. messageQueue'[c] = messageQueue[c] /\ wire'[c] = wire[c] /\ state'[c] = state[c]
      BY <1>2, <2>1
    <3> QED
      BY <1>1, <3>1, <3>2, <3>4, <3>5 DEF Sequential
  <2>6. SendAllComes'
    BY <1>2, ByConnection DEF SendAllComes
  <2> QED
    BY <2>2, <2>3, <2>4, <2>5, <2>6, ByConnectionNext
<1>4. CASE ~(Len(outputBuffer[c]) < BufferSize)
  <2>1. /\ messageQueue' = [messageQueue EXCEPT ![c] = Sent(c, outputBuffer[c])]
        /\ writes' = [writes EXCEPT ![c] = WritesAfter(c, outputBuffer[c])]
        /\ outputBuffer' = [outputBuffer EXCEPT ![c] = <<written[c] + 1>>]
    BY <1>4 DEF Write
  <2>2. outputBuffer[c] # <<>>
    BY <1>1, <1>4, ConnectionAssumption
  <2>3. /\ messageQueue'[c] = Sent(c, outputBuffer[c])
        /\ writes'[c] = WritesAfter(c, outputBuffer[c])
        /\ outputBuffer'[c] = <<written[c] + 1>> /\ written'[c] = written[c] + 1
    BY <1>1, <1>2, <2>1 DEF ConnectionType
  <2>4. /\ Orderly(c)' /\ messageQueue'[c] \in Seq(Seq(Nat)) /\ writes'[c] \in Nat
        /\ Continues(wire'[c], 0)
        /\ \A i \in DOMAIN messageQueue'[c] :
             messageQueue'[c][i] # <<>> /\ Continues(messageQueue'[c][i], UpTo(c, i - 1)')
        /\ state[c] = "game" => UpTo(c, Len(messageQueue[c]))' = written[c]
    BY <1>2, <2>2, <2>3, Flushed
  <2>5. Sequential(c)'
    <3>1. /\ Continues(outputBuffer'[c], written[c])
          /\ written'[c] = written[c] + Len(outputBuffer'[c])
      BY <1>1, <2>3 DEF Continues
    <3>2. state'[c] = state[c]
      BY <1>2
    <3> QED
      BY <2>4, <3>1, <3>2 DEF Sequential
  <2>6. ASSUME NEW d \in Connections, d # c PROVE Orderly(d)' /\ Sequential(d)'
    BY <1>1, <1>2, <2>1, <2>6, Untouched DEF ConnectionType
  <2>7. ConnectionType'
    <3>1. <<written[c] + 1>> \in Seq(Nat)
      BY <1>1
    <3>2. messageQueue' \in [Connections -> Seq(Seq(Nat))] /\ writes' \in [Connections -> Nat]
      BY <1>1, <2>1, <2>4 DEF ConnectionType
    <3> QED
      BY <1>1, <1>2, <2>1, <3>1, <3>2 DEF ConnectionType
  <2>8. SendAllComes'
    BY <1>2, ByConnection DEF SendAllComes
  <2> QED
    BY <2>4, <2>5, <2>6, <2>7, <2>8, ByConnectionNext
<1> QED
  BY <1>3, <1>4

\* One case for each method of a connection, a protocol and their managers.
LEMMA ConnectionStep ==
    ASSUME ConnectionInv, [ConnectionNext]_connectionVars
    PROVE  ConnectionInv'
<1> USE DEF ConnectionType
<1>1. ConnectionType /\ \A c \in Connections : Orderly(c) /\ Sequential(c)
  BY ByConnection
<1>2. ASSUME NEW c \in Connections, WriteFails(c) PROVE ConnectionInv'
  <2>1. state[c] # "pending"
    BY <1>1, <1>2 DEF WriteFails, Orderly, Exists
  <2>2. /\ writes' = [writes EXCEPT ![c] = @ - 1]
        /\ messageQueue' = [messageQueue EXCEPT ![c] = <<>>]
        /\ writes[c] = 1
        /\ managed' = managed \ {c} /\ state' = [state EXCEPT ![c] = "disconnected"]
        /\ socket' = [socket EXCEPT ![c] = FALSE]
        /\ broken' = IF socket[c] THEN broken \cup {c} ELSE broken
        /\ UNCHANGED <<reading, outputVars, wire>>
    <3>1. [socket EXCEPT ![c] = @ /\ <<>> # <<>> /\ ~TRUE] = [socket EXCEPT ![c] = FALSE]
      OBVIOUS
    <3> QED
      BY <1>1, <1>2, <3>1 DEF WriteFails, Close, Orderly
  <2>3. ConnectionType' /\ SendAllComes'
    BY <1>1, <2>2, ByConnection DEF outputVars, SendAllComes
  <2>4. ASSUME NEW d \in Connections, d # c PROVE Orderly(d)' /\ Sequential(d)'
    BY <1>1, <2>2, <2>4, Untouched DEF outputVars
  <2>5. messageQueue'[c] = <<>> /\ writes'[c] = 0 /\ state'[c] = "disconnected"
    BY <1>1, <2>2
  <2>6. Orderly(c)'
    BY <2>5 DEF Orderly
  <2>7. Sequential(c)'
    BY <1>1, <2>2, <2>5 DEF Sequential
  <2> QED
    BY <2>3, <2>4, <2>6, <2>7, ByConnectionNext
<1>3. ASSUME NEW c \in Connections, Timeout(c) \/ Disconnect(c) PROVE ConnectionInv'
  <2>1. state[c] # "pending"
    BY <1>1, <1>3 DEF Timeout, Disconnect, Orderly, Exists
  <2>2. PICK force \in BOOLEAN : Close(c, force, messageQueue[c])
    BY <1>3 DEF Timeout, Disconnect
  <2>3. UNCHANGED <<reading, messageQueue, writes, outputVars, wire>>
    BY <1>3 DEF Timeout, Disconnect
  <2> QED
    BY <1>1, <2>1, <2>2, <2>3, CloseStep
<1>4. ASSUME NEW c \in Connections, Destroyed(c) PROVE ConnectionInv'
  <2>1. /\ socket[c] /\ writes[c] = 0
        /\ socket' = [socket EXCEPT ![c] = FALSE]
        /\ UNCHANGED <<managed, state, messageQueue, writes, reading, outputVars, wire, broken>>
    BY <1>1, <1>4 DEF Destroyed, Exists
  <2>2. ConnectionType' /\ SendAllComes'
    BY <1>1, <2>1, ByConnection DEF outputVars, SendAllComes
  <2>3. ASSUME NEW d \in Connections, d # c PROVE Orderly(d)' /\ Sequential(d)'
    BY <1>1, <2>1, <2>3, Untouched DEF outputVars
  <2>4. messageQueue[c] = <<>> /\ state[c] = "disconnected"
    BY <1>1, <1>4, <2>1 DEF Orderly, Exists, Destroyed
  <2>5. Orderly(c)' /\ Sequential(c)'
    BY <1>1, <2>1, <2>4, SameSequence DEF Orderly, outputVars
  <2> QED
    BY <2>2, <2>3, <2>5, ByConnectionNext
<1>5. ASSUME NEW c \in Connections, ReleaseProtocol(c) PROVE ConnectionInv'
  <2>1. bufferedProtocols' = bufferedProtocols \ {c}
        /\ UNCHANGED <<managed, state, socket, messageQueue, writes, reading, outputBuffer,
                       sendAllEvents, written, wire, broken>>
    BY <1>5 DEF ReleaseProtocol
  <2>2. ConnectionType' /\ SendAllComes'
    BY <1>1, <2>1, ByConnection DEF SendAllComes
  <2>3. ASSUME NEW d \in Connections PROVE Orderly(d)' /\ Sequential(d)'
    BY <2>1, Untouched
  <2> QED
    BY <2>2, <2>3, ByConnectionNext
<1>6. ASSUME CloseAll PROVE ConnectionInv'
  <2>1. /\ socket' = [c \in Connections |-> socket[c] /\ c \notin managed]
        /\ broken' = broken \cup managed /\ managed' = {}
        /\ UNCHANGED <<state, messageQueue, writes, reading, outputVars, wire>>
    BY <1>6 DEF CloseAll
  <2>2. ConnectionType' /\ SendAllComes'
    <3>1. socket' \in [Connections -> BOOLEAN]
      BY <1>1, <2>1
    <3> QED
      BY <1>1, <2>1, <3>1, ByConnection DEF outputVars, SendAllComes
  <2>3. ASSUME NEW c \in Connections PROVE Orderly(c)' /\ Sequential(c)'
    <3>1. socket'[c] <=> socket[c] /\ c \notin managed
      BY <2>1
    <3>2. Sequential(c)'
      BY <1>1, <2>1, SameSequence DEF outputVars
    <3>3. Orderly(c)'
      BY <1>1, <2>1, <3>1 DEF outputVars, Orderly, Exists
    <3> QED
      BY <3>2, <3>3
  <2> QED
    BY <2>2, <2>3, ByConnectionNext
<1>7. CASE UNCHANGED connectionVars
  <2>1. UNCHANGED <<managed, state, socket, messageQueue, writes, reading, outputBuffer,
                    bufferedProtocols, sendAllEvents, written, wire, broken>>
    BY <1>7 DEF connectionVars
  <2>2. ConnectionType' /\ SendAllComes'
    BY <1>1, <2>1, ByConnection DEF SendAllComes
  <2>3. ASSUME NEW c \in Connections PROVE Orderly(c)' /\ Sequential(c)'
    BY <2>1, Untouched
  <2> QED
    BY <2>2, <2>3, ByConnectionNext
<1> QED
  BY <1>2, <1>3, <1>4, <1>5, <1>6, <1>7, SendAllStep, AcceptStep, ReadStep, WrittenStep, WriteStep
     DEF ConnectionNext

\* No connection exists when the server starts.
LEMMA ConnectionStart == ASSUME ConnectionInit PROVE ConnectionInv
<1> USE DEF ConnectionInit
<1>1. ConnectionType /\ SendAllComes
  BY DEF ConnectionType, SendAllComes
<1>2. ASSUME NEW c \in Connections PROVE Orderly(c) /\ Sequential(c)
  BY DEF Orderly, Sequential, Exists, Continues
<1> QED
  BY <1>1, <1>2, ByConnection

\* A client receives what was written for it in order and without a gap, one
\* write at a time, up to the last words before an orderly close, whatever the
\* order of reads, writes, errors, timeouts and closes (Connection::send,
\* close, onWriteOperation, OutputMessagePool::sendAll).
THEOREM OutputStaysInOrder == ConnectionSpec => [](OutputInOrder /\ SendAllComes)
<1>1. ConnectionInit => ConnectionInv
  BY ConnectionStart
<1>2. ConnectionInv /\ [ConnectionNext]_connectionVars => ConnectionInv'
  BY ConnectionStep
<1>3. ConnectionInv => OutputInOrder /\ SendAllComes
  BY DEF ConnectionInv
<1> QED
  BY <1>1, <1>2, <1>3, PTL DEF ConnectionSpec

-----------------------------------------------------------------------------
(***************************************************************************)
(* The waiting list.                                                       *)
(***************************************************************************)
LineEntry == [guid : Clients, left : Nat]

\* One entry for each who waits.
Single(list) == \A i, j \in 1..Len(list) : list[i].guid = list[j].guid => i = j

Separate(a, b) == \A x, y \in LineEntry : In(x, a) /\ In(y, b) => x.guid # y.guid

\* Those who may have to wait, and room for as many as there are players of them.
Waiters == {p \in Clients : ~Unlimited(p)}

Room(P) == MaxPlayers # 0 => Cardinality(P \ Privileged) <= MaxPlayers

\* p has an entry that lives longer than t
Expected(list, p, t) == \E x \in LineEntry : In(x, list) /\ x.guid = p /\ x.left > t

LineInv(P, a, b, t) ==
    /\ P \subseteq Clients /\ IsFiniteSet(P) /\ Room(P)
    /\ a \in Seq(LineEntry) /\ b \in Seq(LineEntry) /\ t \in [Clients -> Nat]
    /\ \A p \in P : t[p] = 0
    /\ Single(a) /\ Single(b) /\ Separate(a, b)
    /\ \A x \in LineEntry : In(x, a) \/ In(x, b) => x.guid \in Waiters \ P
    /\ \A p \in Clients : t[p] > 0 => Expected(a, p, t[p]) \/ Expected(b, p, t[p])

WaitingInv == misplaced \in Nat /\ LineInv(playing, priorityWaitList, waitList, told)

\* The lesser of two numbers, and one less than a number.
LEMMA LesserOfTwo == ASSUME NEW a \in Nat, NEW b \in Nat PROVE Min({a, b}) \in Nat
BY DEF Min

LEMMA OneLess ==
    ASSUME NEW a \in Nat PROVE Max({0, a - 1}) = IF a = 0 THEN 0 ELSE a - 1
<1> DEFINE m == IF a = 0 THEN 0 ELSE a - 1
<1>1. m \in {0, a - 1} /\ \A y \in {0, a - 1} : m >= y
  OBVIOUS
<1>2. \A x \in {0, a - 1} : (\A y \in {0, a - 1} : x >= y) => x = m
  OBVIOUS
<1> HIDE DEF m
<1>3. Max({0, a - 1}) = m
  BY <1>1, <1>2 DEF Max
<1> QED
  BY <1>3 DEF m

\* Who is further behind waits no less.
LEMMA TimesGrow ==
    ASSUME NEW a \in Nat, NEW b \in Nat, a <= b
    PROVE  GetTime(a) \in Nat /\ GetTime(b) \in Nat /\ GetTime(a) <= GetTime(b)
<1> DEFINE A == {i \in DOMAIN Limits : Limits[i] <= a}
           B == {i \in DOMAIN Limits : Limits[i] <= b}
<1>1. Limits \in Seq(Nat) /\ Len(Limits) \in 1..4 /\ DOMAIN Limits = 1..Len(Limits)
  BY WaitingAssumption
<1>2. IsFiniteSet(DOMAIN Limits) /\ Cardinality(DOMAIN Limits) <= 4
  <2>1. PICK n \in 1..4 : n = Len(Limits)
    BY <1>1
  <2>2. 1 \in Int /\ n \in Int
    OBVIOUS
  <2>3. IsFiniteSet(1..n) /\ Cardinality(1..n) = IF 1 > n THEN 0 ELSE n - 1 + 1
    BY <2>2, FS_Interval
  <2>4. Cardinality(1..n) <= 4
    BY <2>3
  <2> QED
    BY <1>1, <2>1, <2>3, <2>4
<1>3. A \subseteq B /\ B \subseteq DOMAIN Limits
  <2>1. \A i \in DOMAIN Limits : Limits[i] \in Nat
    BY <1>1
  <2> QED
    BY <2>1
<1>4. IsFiniteSet(B) /\ IsFiniteSet(A)
  BY <1>2, <1>3, FS_Subset
<1>5. Cardinality(A) <= Cardinality(B) /\ Cardinality(B) <= Cardinality(DOMAIN Limits)
  BY <1>2, <1>3, <1>4, FS_Subset
<1>6. Cardinality(A) \in Nat /\ Cardinality(B) \in Nat /\ Cardinality(DOMAIN Limits) \in Nat
  BY <1>2, <1>4, FS_CardinalityType
<1>7. PICK i \in 0..4, j \in 0..4 : i = Cardinality(A) /\ j = Cardinality(B) /\ i <= j
  BY <1>2, <1>5, <1>6
<1>8. GetTime(a) = <<1, 2, 4, 12, 24>>[1 + i] /\ GetTime(b) = <<1, 2, 4, 12, 24>>[1 + j]
  BY <1>7 DEF GetTime
<1>9. i \in {0, 1, 2, 3, 4} /\ j \in {0, 1, 2, 3, 4}
  OBVIOUS
<1> HIDE DEF A, B
<1> QED
  BY ONLY <1>7, <1>8, <1>9

\* The place in line: the first entry of p, none if there is no entry.
SlotIs(list, p, slot) ==
    /\ slot \in Nat
    /\ slot = 0 <=> \A x \in LineEntry : In(x, list) => x.guid # p
    /\ slot > 0 => slot \in 1..Len(list) /\ list[slot].guid = p
    /\ \A i \in 1..Len(list) : list[i].guid = p => slot > 0 /\ slot <= i

LEMMA SlotFound ==
    ASSUME NEW list \in Seq(LineEntry), NEW p PROVE SlotIs(list, p, SlotOf(list, p))
<1> DEFINE at == {i \in DOMAIN list : list[i].guid = p}
<1>1. DOMAIN list = 1..Len(list) /\ Len(list) \in Nat /\ \A i \in 1..Len(list) : list[i] \in LineEntry
  OBVIOUS
<1>2. CASE at = {}
  <2>1. SlotOf(list, p) = 0
    BY <1>2 DEF SlotOf
  <2> QED
    BY <1>1, <1>2, <2>1 DEF SlotIs, In
<1>3. CASE at # {}
  <2>1. at \in SUBSET Nat
    BY <1>1
  <2>2. \E i \in at : \A j \in at : i <= j
    <3> HIDE DEF at
    <3> QED
      BY <1>3, <2>1, LeastElement
  <2>3. PICK i \in at : i = Min(at) /\ \A j \in at : i <= j
    <3> HIDE DEF at
    <3> QED
      BY <2>2 DEF Min
  <2>4. SlotOf(list, p) = i /\ i \in 1..Len(list) /\ list[i].guid = p
    BY <1>1, <1>3, <2>3 DEF SlotOf
  <2>5. list[i] \in LineEntry /\ In(list[i], list) /\ i \in Nat \ {0}
    BY <1>1, <2>4 DEF In
  <2>6. \A k \in 1..Len(list) : list[k].guid = p => i <= k
    BY <1>1, <2>3
  <2> HIDE DEF at
  <2> QED
    BY <2>4, <2>5, <2>6 DEF SlotIs
<1> QED
  BY <1>2, <1>3

\* What is chosen of a list with single entries has single entries.
LEMMA ChosenSingle ==
    ASSUME NEW list \in Seq(LineEntry), NEW K, Single(list) PROVE Single(Chosen(list, K))
<1>1. PICK r \in Seq(LineEntry) : r = Chosen(list, K) /\ Placed(list, K, r)
  BY ChosenPlaced
<1>2. PICK p : PlacedBy(list, K, r, p)
  BY <1>1 DEF Placed
<1>3. ASSUME NEW i \in 1..Len(r), NEW j \in 1..Len(r), r[i].guid = r[j].guid PROVE i = j
  <2>1. r[i] = list[p[i]] /\ r[j] = list[p[j]] /\ p[i] \in 1..Len(list) /\ p[j] \in 1..Len(list)
    BY <1>2 DEF PlacedBy
  <2>2. p[i] = p[j]
    BY <1>3, <2>1 DEF Single
  <2>3. ~(i < j) /\ ~(j < i)
    BY <1>2, <2>1, <2>2 DEF PlacedBy
  <2> QED
    BY <2>3
<1> QED
  BY <1>1, <1>3 DEF Single

\* cleanupList keeps those whose time has not come, in their order.
LEMMA AliveIs ==
    ASSUME NEW list \in Seq(LineEntry)
    PROVE  /\ Alive(list) = Chosen(list, {e \in LineEntry : e.left > 0})
           /\ Alive(list) \in Seq(LineEntry)
           /\ \A x : In(x, Alive(list)) <=> In(x, list) /\ x.left > 0
           /\ Single(list) => Single(Alive(list))
<1> DEFINE K == {e \in LineEntry : e.left > 0}
<1>1. DOMAIN list = 1..Len(list) /\ \A i \in 1..Len(list) : list[i] \in LineEntry
  OBVIOUS
<1>2. \A x \in LineEntry : In(x, list) => (x \in {e \in ToSet(list) : e.left > 0} <=> x \in K)
  BY <1>1 DEF ToSet, In
<1> HIDE DEF K
<1>3. Alive(list) = Chosen(list, K)
  BY <1>2, ChosenSame DEF Alive
<1>4. /\ Alive(list) \in Seq(LineEntry)
      /\ \A x : In(x, Alive(list)) <=> x \in K /\ In(x, list)
  BY <1>3, ChosenIn
<1>5. \A x : In(x, list) => x \in LineEntry
  BY <1>1 DEF In
<1>6. ASSUME Single(list) PROVE Single(Alive(list))
  BY <1>3, <1>6, ChosenSingle
<1> QED
  BY <1>3, <1>4, <1>5, <1>6 DEF K

\* Who is let in leaves the line.
LEMMA WithoutIs ==
    ASSUME NEW list \in Seq(LineEntry), NEW p
    PROVE  /\ Without(list, p) \in Seq(LineEntry)
           /\ \A x : In(x, Without(list, p)) <=> In(x, list) /\ x.guid # p
           /\ Single(list) => Single(Without(list, p))
<1> DEFINE K == {e \in LineEntry : e.guid # p}
<1>1. DOMAIN list = 1..Len(list) /\ \A i \in 1..Len(list) : list[i] \in LineEntry
  OBVIOUS
<1>2. \A x \in LineEntry : In(x, list) => (x \in {e \in ToSet(list) : e.guid # p} <=> x \in K)
  BY <1>1 DEF ToSet, In
<1> HIDE DEF K
<1>3. Without(list, p) = Chosen(list, K)
  BY <1>2, ChosenSame DEF Without
<1>4. /\ Without(list, p) \in Seq(LineEntry)
      /\ \A x : In(x, Without(list, p)) <=> x \in K /\ In(x, list)
  BY <1>3, ChosenIn
<1>5. \A x : In(x, list) => x \in LineEntry
  BY <1>1 DEF In
<1>6. ASSUME Single(list) PROVE Single(Without(list, p))
  BY <1>3, <1>6, ChosenSingle
<1> QED
  BY <1>3, <1>4, <1>5, <1>6 DEF K

\* The clean-up of both lists drops nobody who is still expected.
LEMMA CleanLine ==
    ASSUME NEW P, NEW a, NEW b, NEW t, LineInv(P, a, b, t)
    PROVE  LineInv(P, Alive(a), Alive(b), t)
<1>1. /\ a \in Seq(LineEntry) /\ b \in Seq(LineEntry) /\ t \in [Clients -> Nat]
      /\ Single(a) /\ Single(b) /\ Separate(a, b)
      /\ \A x \in LineEntry : In(x, a) \/ In(x, b) => x.guid \in Waiters \ P
      /\ \A p \in Clients : t[p] > 0 => Expected(a, p, t[p]) \/ Expected(b, p, t[p])
  BY DEF LineInv
<1>2. /\ Alive(a) \in Seq(LineEntry) /\ Single(Alive(a))
      /\ \A x : In(x, Alive(a)) <=> In(x, a) /\ x.left > 0
  BY <1>1, AliveIs
<1>3. /\ Alive(b) \in Seq(LineEntry) /\ Single(Alive(b))
      /\ \A x : In(x, Alive(b)) <=> In(x, b) /\ x.left > 0
  BY <1>1, AliveIs
<1>4. Separate(Alive(a), Alive(b))
  BY <1>1, <1>2, <1>3 DEF Separate
<1>5. ASSUME NEW p \in Clients, t[p] > 0
      PROVE  Expected(Alive(a), p, t[p]) \/ Expected(Alive(b), p, t[p])
  <2>1. t[p] \in Nat /\ (Expected(a, p, t[p]) \/ Expected(b, p, t[p]))
    BY <1>1, <1>5
  <2>2. \A x \in LineEntry : x.left > t[p] => x.left > 0
    BY <2>1, <1>5 DEF LineEntry
  <2> QED
    BY <1>2, <1>3, <2>1, <2>2 DEF Expected
<1> QED
  BY <1>1, <1>2, <1>3, <1>4, <1>5 DEF LineInv

\* One player more, who leaves the line or was not in it.
LEMMA LetInKeeps ==
    ASSUME NEW P, NEW a, NEW b, NEW t, LineInv(P, a, b, t), NEW p \in Clients, p \notin P,
           Unlimited(p) \/ Cardinality(P) < MaxPlayers
    PROVE  /\ LineInv(P \cup {p}, Without(a, p), Without(b, p), [t EXCEPT ![p] = 0])
           /\ Unlimited(p) => LineInv(P \cup {p}, a, b, [t EXCEPT ![p] = 0])
           /\ Cardinality(P \cup {p}) = Cardinality(P) + 1 /\ Cardinality(P) \in Nat
<1>1. /\ a \in Seq(LineEntry) /\ b \in Seq(LineEntry) /\ t \in [Clients -> Nat]
      /\ Single(a) /\ Single(b) /\ Separate(a, b) /\ P \subseteq Clients /\ IsFiniteSet(P)
      /\ \A x \in LineEntry : In(x, a) \/ In(x, b) => x.guid \in Waiters \ P
      /\ \A q \in Clients : t[q] > 0 => Expected(a, q, t[q]) \/ Expected(b, q, t[q])
      /\ \A q \in P : t[q] = 0
  BY DEF LineInv
<1>2. /\ Without(a, p) \in Seq(LineEntry) /\ Single(Without(a, p))
      /\ \A x : In(x, Without(a, p)) <=> In(x, a) /\ x.guid # p
  BY <1>1, WithoutIs
<1>3. /\ Without(b, p) \in Seq(LineEntry) /\ Single(Without(b, p))
      /\ \A x : In(x, Without(b, p)) <=> In(x, b) /\ x.guid # p
  BY <1>1, WithoutIs
<1>4. Separate(Without(a, p), Without(b, p))
  BY <1>1, <1>2, <1>3 DEF Separate
<1>5. PICK u : u = [t EXCEPT ![p] = 0]
  OBVIOUS
<1>6. u \in [Clients -> Nat] /\ u[p] = 0 /\ \A q \in Clients : q # p => u[q] = t[q]
  BY <1>1, <1>5
<1>7. ASSUME NEW q \in Clients, u[q] > 0
      PROVE  /\ Expected(Without(a, p), q, u[q]) \/ Expected(Without(b, p), q, u[q])
             /\ Expected(a, q, u[q]) \/ Expected(b, q, u[q])
  <2>1. q # p /\ u[q] = t[q]
    BY <1>6, <1>7
  <2>2. Expected(Without(a, p), q, u[q]) \/ Expected(Without(b, p), q, u[q])
    BY <1>1, <1>2, <1>3, <1>7, <2>1 DEF Expected
  <2> QED
    BY <1>1, <1>7, <2>1, <2>2
<1>8. /\ IsFiniteSet(P \cup {p}) /\ Cardinality(P \cup {p}) = Cardinality(P) + 1
      /\ Cardinality(P) \in Nat
  BY <1>1, FS_AddElement, FS_CardinalityType
<1>9. Room(P \cup {p})
  <2>1. CASE p \in Privileged
    <3>1. (P \cup {p}) \ Privileged = P \ Privileged
      BY <2>1
    <3> QED
      BY <3>1 DEF LineInv, Room
  <2>2. CASE MaxPlayers = 0
    BY <2>2 DEF Room
  <2>3. CASE Cardinality(P) < MaxPlayers
    <3>1. /\ (P \cup {p}) \ Privileged \subseteq P \cup {p}
          /\ IsFiniteSet((P \cup {p}) \ Privileged)
          /\ Cardinality((P \cup {p}) \ Privileged) <= Cardinality(P \cup {p})
      BY <1>8, FS_Subset
    <3>2. Cardinality((P \cup {p}) \ Privileged) \in Nat /\ Cardinality(P \cup {p}) \in Nat
      BY <1>8, <3>1, FS_CardinalityType
    <3> QED
      BY <1>8, <2>3, <3>1, <3>2, WaitingAssumption DEF Room
  <2> QED
    BY <2>1, <2>2, <2>3 DEF Unlimited
<1>10. \A q \in P \cup {p} : u[q] = 0
  BY <1>1, <1>6
<1>11. \A x \in LineEntry : In(x, Without(a, p)) \/ In(x, Without(b, p))
                              => x.guid \in Waiters \ (P \cup {p})
  BY <1>1, <1>2, <1>3
<1>12. LineInv(P \cup {p}, Without(a, p), Without(b, p), u)
  BY <1>1, <1>2, <1>3, <1>4, <1>6, <1>7, <1>8, <1>9, <1>10, <1>11 DEF LineInv
<1>13. ASSUME Unlimited(p) PROVE LineInv(P \cup {p}, a, b, u)
  <2>1. \A x \in LineEntry : In(x, a) \/ In(x, b) => x.guid \in Waiters \ (P \cup {p})
    BY <1>1, <1>13 DEF Waiters
  <2> QED
    BY <1>1, <1>6, <1>7, <1>8, <1>9, <1>10, <2>1 DEF LineInv
<1> QED
  BY <1>5, <1>8, <1>12, <1>13

\* Entries of the same people, in their order.
SamePeople(new, old) ==
    /\ new \in Seq(LineEntry) /\ Len(new) = Len(old)
    /\ \A i \in 1..Len(old) : new[i].guid = old[i].guid

LEMMA PeopleStay ==
    ASSUME NEW old \in Seq(LineEntry), NEW new, SamePeople(new, old)
    PROVE  /\ Single(old) => Single(new)
           /\ \A x \in LineEntry : In(x, new) => \E y \in LineEntry : In(y, old) /\ y.guid = x.guid
<1>1. /\ new \in Seq(LineEntry) /\ Len(new) = Len(old) /\ DOMAIN new = 1..Len(old)
      /\ DOMAIN old = 1..Len(old)
      /\ \A i \in 1..Len(old) : new[i].guid = old[i].guid /\ old[i] \in LineEntry
  BY DEF SamePeople
<1>2. Single(old) => Single(new)
  BY <1>1 DEF Single
<1>3. ASSUME NEW x \in LineEntry, In(x, new) PROVE \E y \in LineEntry : In(y, old) /\ y.guid = x.guid
  BY <1>1, <1>3 DEF In
<1> QED
  BY <1>2, <1>3

\* What is kept of the line when its entries change but not their people.
LEMMA RenewedLine ==
    ASSUME NEW P, NEW a, NEW b, NEW t, LineInv(P, a, b, t), NEW c, NEW d, NEW u,
           SamePeople(c, a), SamePeople(d, b), u \in [Clients -> Nat],
           \A p \in P : u[p] = 0,
           \A p \in Clients : u[p] > 0 => Expected(c, p, u[p]) \/ Expected(d, p, u[p])
    PROVE  LineInv(P, c, d, u)
<1>1. /\ a \in Seq(LineEntry) /\ b \in Seq(LineEntry)
      /\ Single(a) /\ Single(b) /\ Separate(a, b)
      /\ P \subseteq Clients /\ IsFiniteSet(P) /\ Room(P)
      /\ \A x \in LineEntry : In(x, a) \/ In(x, b) => x.guid \in Waiters \ P
  BY DEF LineInv
<1>2. /\ Single(c) /\ c \in Seq(LineEntry)
      /\ \A x \in LineEntry : In(x, c) => \E y \in LineEntry : In(y, a) /\ y.guid = x.guid
  BY <1>1, PeopleStay DEF SamePeople
<1>3. /\ Single(d) /\ d \in Seq(LineEntry)
      /\ \A x \in LineEntry : In(x, d) => \E y \in LineEntry : In(y, b) /\ y.guid = x.guid
  BY <1>1, PeopleStay DEF SamePeople
<1>4. Separate(c, d)
  BY <1>1, <1>2, <1>3 DEF Separate
<1>5. \A x \in LineEntry : In(x, c) \/ In(x, d) => x.guid \in Waiters \ P
  BY <1>1, <1>2, <1>3
<1> QED
  BY <1>1, <1>2, <1>3, <1>4, <1>5 DEF LineInv

\* Five seconds pass for an entry and for the one it is compared with.
LEMMA PassedKeeps ==
    ASSUME NEW list \in Seq(LineEntry)
    PROVE  /\ SamePeople(Passed(list), list)
           /\ \A p \in Clients, s \in Nat :
                 s > 0 /\ Expected(list, p, s) => Expected(Passed(list), p, s - 1)
<1>1. DOMAIN list = 1..Len(list) /\ \A i \in 1..Len(list) : list[i] \in LineEntry
  OBVIOUS
<1>2. PICK r : r = Passed(list)
  OBVIOUS
<1>3. ASSUME NEW i \in 1..Len(list)
      PROVE  /\ r[i] \in LineEntry /\ r[i].guid = list[i].guid
             /\ r[i].left = IF list[i].left = 0 THEN 0 ELSE list[i].left - 1
  <2>1. r[i] = [list[i] EXCEPT !.left = Max({0, @ - 1})]
    BY <1>1, <1>2 DEF Passed
  <2>2. list[i].left \in Nat /\ list[i].guid \in Clients
    BY <1>1 DEF LineEntry
  <2>3. Max({0, list[i].left - 1}) = IF list[i].left = 0 THEN 0 ELSE list[i].left - 1
    BY <2>2, OneLess
  <2> QED
    BY <1>1, <2>1, <2>2, <2>3 DEF LineEntry
<1>4. r \in Seq(LineEntry) /\ Len(r) = Len(list) /\ DOMAIN r = 1..Len(list)
  <2>1. r \in [1..Len(list) -> LineEntry]
    BY <1>1, <1>2, <1>3 DEF Passed
  <2> QED
    BY <2>1
<1>5. SamePeople(r, list)
  BY <1>3, <1>4 DEF SamePeople
<1>6. ASSUME NEW p \in Clients, NEW s \in Nat, s > 0, Expected(list, p, s)
      PROVE  Expected(r, p, s - 1)
  <2>1. PICK i \in 1..Len(list) : list[i].guid = p /\ list[i].left > s
    BY <1>1, <1>6 DEF Expected, In
  <2>2. list[i].left \in Nat
    BY <1>1 DEF LineEntry
  <2>3. r[i].guid = p /\ r[i].left > s - 1 /\ r[i] \in LineEntry
    BY <1>3, <1>6, <2>1, <2>2
  <2> QED
    BY <1>4, <2>3 DEF Expected, In
<1> QED
  BY <1>2, <1>5, <1>6

\* The entry of p is renewed.
LEMMA RefreshKeeps ==
    ASSUME NEW list \in Seq(LineEntry), NEW p \in Clients, NEW e \in LineEntry, e.guid = p,
           NEW r, r = [i \in DOMAIN list |-> IF list[i].guid = p THEN e ELSE list[i]]
    PROVE  /\ SamePeople(r, list)
           /\ \A q \in Clients, s \in Nat : q # p /\ Expected(list, q, s) => Expected(r, q, s)
           /\ \A s \in Nat, x \in LineEntry :
                 In(x, list) /\ x.guid = p /\ e.left > s => Expected(r, p, s)
<1>1. DOMAIN list = 1..Len(list) /\ \A i \in 1..Len(list) : list[i] \in LineEntry
  OBVIOUS
<1>2. \A i \in 1..Len(list) : r[i] = IF list[i].guid = p THEN e ELSE list[i]
  BY <1>1
<1>3. r \in Seq(LineEntry) /\ Len(r) = Len(list) /\ DOMAIN r = 1..Len(list)
  <2>1. r \in [1..Len(list) -> LineEntry]
    BY <1>1, <1>2
  <2> QED
    BY <2>1
<1>4. SamePeople(r, list)
  BY <1>2, <1>3 DEF SamePeople
<1>5. ASSUME NEW q \in Clients, NEW s \in Nat, q # p, Expected(list, q, s)
      PROVE  Expected(r, q, s)
  BY <1>1, <1>2, <1>3, <1>5 DEF Expected, In
<1>6. ASSUME NEW s \in Nat, NEW x \in LineEntry, In(x, list), x.guid = p, e.left > s
      PROVE  Expected(r, p, s)
  BY <1>1, <1>2, <1>3, <1>6 DEF Expected, In
<1> QED
  BY <1>4, <1>5, <1>6

\* Who is in one list after the other is in one of them.
LEMMA InConcat ==
    ASSUME NEW S, NEW a \in Seq(S), NEW b \in Seq(S)
    PROVE  /\ a \o b \in Seq(S) /\ Len(a \o b) = Len(a) + Len(b)
           /\ \A i \in 1..Len(a) : (a \o b)[i] = a[i]
           /\ \A i \in 1..Len(b) : (a \o b)[Len(a) + i] = b[i]
           /\ \A x : In(x, a \o b) <=> In(x, a) \/ In(x, b)
<1>1. PICK m \in Nat, n \in Nat : m = Len(a) /\ n = Len(b)
  OBVIOUS
<1>2. PICK r : r = a \o b
  OBVIOUS
<1>3. /\ r \in Seq(S) /\ Len(r) = m + n
      /\ \A i \in 1..m : r[i] = a[i]
      /\ \A i \in 1..n : r[m + i] = b[i]
  BY <1>1, <1>2
<1>4. DOMAIN r = 1..(m + n) /\ DOMAIN a = 1..m /\ DOMAIN b = 1..n
  BY <1>1, <1>3
<1>5. ASSUME NEW i \in 1..(m + n) PROVE i \in 1..m \/ \E j \in 1..n : i = m + j
  <2>1. CASE ~(i \in 1..m)
    <3>1. i - m \in 1..n /\ i = m + (i - m)
      BY <2>1
    <3> QED
      BY <3>1
  <2> QED
    BY <2>1
<1>6. ASSUME NEW x, In(x, r) PROVE In(x, a) \/ In(x, b)
  <2>1. PICK i \in 1..(m + n) : r[i] = x
    BY <1>4, <1>6 DEF In
  <2> QED
    BY <1>3, <1>4, <1>5, <2>1 DEF In
<1>7. \A j \in 1..n : m + j \in 1..(m + n)
  OBVIOUS
<1>8. \A i \in 1..m : i \in 1..(m + n)
  OBVIOUS
<1>9. ASSUME NEW x, In(x, a) \/ In(x, b) PROVE In(x, r)
  BY <1>3, <1>4, <1>7, <1>8, <1>9 DEF In
<1> QED
  BY <1>1, <1>2, <1>3, <1>6, <1>9

\* Somebody new comes to the end of one of the lists.
LEMMA JoinedLine ==
    ASSUME NEW P, NEW a, NEW b, NEW t, LineInv(P, a, b, t), NEW p \in Clients,
           p \in Waiters \ P, NEW e \in LineEntry, e.guid = p, NEW s \in Nat, e.left > s,
           \A x \in LineEntry : In(x, a) \/ In(x, b) => x.guid # p
    PROVE  /\ LineInv(P, Append(a, e), b, [t EXCEPT ![p] = s])
           /\ LineInv(P, a, Append(b, e), [t EXCEPT ![p] = s])
<1>1. /\ a \in Seq(LineEntry) /\ b \in Seq(LineEntry) /\ t \in [Clients -> Nat]
      /\ Single(a) /\ Single(b) /\ Separate(a, b)
      /\ P \subseteq Clients /\ IsFiniteSet(P) /\ Room(P)
      /\ \A x \in LineEntry : In(x, a) \/ In(x, b) => x.guid \in Waiters \ P
      /\ \A q \in Clients : t[q] > 0 => Expected(a, q, t[q]) \/ Expected(b, q, t[q])
      /\ \A q \in P : t[q] = 0
  BY DEF LineInv
<1>2. PICK u : u = [t EXCEPT ![p] = s]
  OBVIOUS
<1>3. u \in [Clients -> Nat] /\ u[p] = s /\ \A q \in Clients : q # p => u[q] = t[q]
  BY <1>1, <1>2
<1>4. \A q \in P : u[q] = 0
  BY <1>1, <1>3
<1>5. ASSUME NEW l \in Seq(LineEntry), Single(l), \A x \in LineEntry : In(x, l) => x.guid # p
      PROVE  /\ Append(l, e) \in Seq(LineEntry) /\ Single(Append(l, e))
             /\ \A x : In(x, Append(l, e)) <=> x = e \/ In(x, l)
  <2>1. PICK r : r = Append(l, e)
    OBVIOUS
  <2>2. /\ r \in Seq(LineEntry) /\ Len(r) = Len(l) + 1 /\ r[Len(l) + 1] = e
        /\ \A i \in 1..Len(l) : r[i] = l[i]
        /\ \A x : In(x, r) <=> x = e \/ In(x, l)
    BY <2>1, Appended
  <2>3. PICK n \in Nat : n = Len(l)
    OBVIOUS
  <2>4. \A i \in 1..n : l[i].guid # p
    <3>1. DOMAIN l = 1..n /\ \A i \in 1..n : l[i] \in LineEntry
      BY <2>3
    <3> QED
      BY <1>5, <3>1 DEF In
  <2>5. \A i \in 1..(n + 1) : i = n + 1 \/ i \in 1..n
    OBVIOUS
  <2>6. \A i, j \in 1..n : l[i].guid = l[j].guid => i = j
    BY <1>5, <2>3 DEF Single
  <2>7. Single(r)
    BY <2>2, <2>3, <2>4, <2>5, <2>6 DEF Single
  <2> QED
    BY <2>1, <2>2, <2>7
<1>6. ASSUME NEW c \in Seq(LineEntry), NEW d \in Seq(LineEntry),
             \/ /\ d = b /\ \A x : In(x, c) <=> x = e \/ In(x, a)
             \/ /\ c = a /\ \A x : In(x, d) <=> x = e \/ In(x, b)
      PROVE  /\ Separate(c, d)
             /\ \A x \in LineEntry : In(x, c) \/ In(x, d) => x.guid \in Waiters \ P
             /\ \A q \in Clients : u[q] > 0 => Expected(c, q, u[q]) \/ Expected(d, q, u[q])
  <2>1. \A x : In(x, c) \/ In(x, d) <=> x = e \/ In(x, a) \/ In(x, b)
    BY <1>6
  <2>2. Separate(c, d)
    BY <1>1, <1>6 DEF Separate
  <2>3. \A x \in LineEntry : In(x, c) \/ In(x, d) => x.guid \in Waiters \ P
    BY <1>1, <2>1
  <2>4. ASSUME NEW q \in Clients, u[q] > 0
        PROVE  Expected(c, q, u[q]) \/ Expected(d, q, u[q])
    <3>1. CASE q = p
      BY <1>3, <2>1, <3>1 DEF Expected
    <3>2. CASE q # p
      BY <1>1, <1>3, <2>1, <2>4, <3>2 DEF Expected
    <3> QED
      BY <3>1, <3>2
  <2> QED
    BY <2>2, <2>3, <2>4
<1>7. LineInv(P, Append(a, e), b, u)
  <2>1. PICK c : c = Append(a, e)
    OBVIOUS
  <2>2. c \in Seq(LineEntry) /\ Single(c) /\ \A x : In(x, c) <=> x = e \/ In(x, a)
    BY <1>1, <1>5, <2>1
  <2>3. /\ Separate(c, b)
        /\ \A x \in LineEntry : In(x, c) \/ In(x, b) => x.guid \in Waiters \ P
        /\ \A q \in Clients : u[q] > 0 => Expected(c, q, u[q]) \/ Expected(b, q, u[q])
    BY <1>1, <1>6, <2>2
  <2> QED
    BY <1>1, <1>3, <1>4, <2>1, <2>2, <2>3 DEF LineInv
<1>8. LineInv(P, a, Append(b, e), u)
  <2>1. PICK d : d = Append(b, e)
    OBVIOUS
  <2>2. d \in Seq(LineEntry) /\ Single(d) /\ \A x : In(x, d) <=> x = e \/ In(x, b)
    BY <1>1, <1>5, <2>1
  <2>3. /\ Separate(a, d)
        /\ \A x \in LineEntry : In(x, a) \/ In(x, d) => x.guid \in Waiters \ P
        /\ \A q \in Clients : u[q] > 0 => Expected(a, q, u[q]) \/ Expected(d, q, u[q])
    BY <1>1, <1>6, <2>2
  <2> QED
    BY <1>1, <1>3, <1>4, <2>1, <2>2, <2>3 DEF LineInv
<1> QED
  BY <1>2, <1>7, <1>8

-----------------------------------------------------------------------------
\* The line of the two cleaned lists is what is alive of the line.
LEMMA AliveLine ==
    ASSUME NEW a \in Seq(LineEntry), NEW b \in Seq(LineEntry)
    PROVE  Alive(a \o b) = Alive(a) \o Alive(b)
<1> DEFINE K == {e \in LineEntry : e.left > 0}
<1>1. a \o b \in Seq(LineEntry)
  OBVIOUS
<1>2. Alive(a) = Chosen(a, K) /\ Alive(b) = Chosen(b, K) /\ Alive(a \o b) = Chosen(a \o b, K)
  BY <1>1, AliveIs
<1> HIDE DEF K
<1>3. Chosen(a \o b, K) = Chosen(a, K) \o Chosen(b, K)
  BY ChosenConcat
<1> QED
  BY <1>2, <1>3

\* Nobody waits: who comes is let in.
LEMMA NobodyWaitsStep ==
    ASSUME WaitingInv, NEW p \in Clients, p \notin playing, ~Unlimited(p), NobodyWaits(p)
    PROVE  WaitingInv' /\ LineRespected
<1>1. LineInv(playing, priorityWaitList, waitList, told) /\ misplaced \in Nat
  BY DEF WaitingInv
<1>2. /\ priorityWaitList = <<>> /\ waitList = <<>> /\ Cardinality(playing) < MaxPlayers
      /\ playing' = playing \cup {p} /\ told' = [told EXCEPT ![p] = 0]
      /\ UNCHANGED <<priorityWaitList, waitList, misplaced>>
  BY DEF NobodyWaits, LetIn
<1>3. /\ LineInv(playing \cup {p}, Without(priorityWaitList, p), Without(waitList, p),
                 [told EXCEPT ![p] = 0])
      /\ Cardinality(playing \cup {p}) = Cardinality(playing) + 1 /\ Cardinality(playing) \in Nat
  BY <1>1, <1>2, LetInKeeps
<1>4. Without(<<>>, p) = <<>>
  BY ChosenEmpty DEF Without
<1>5. WaitingInv'
  BY <1>1, <1>2, <1>3, <1>4 DEF WaitingInv
<1>6. Line = <<>>
  BY <1>2 DEF Line
<1>7. Alive(<<>>) = <<>> /\ SlotOf(<<>>, p) = 0 /\ Len(<<>>) = 0
  BY ChosenEmpty DEF Alive, SlotOf
<1>8. LineRespected
  <2>1. playing' \ playing = {p} /\ Cardinality(playing') + 0 <= MaxPlayers
    BY <1>2, <1>3, WaitingAssumption
  <2> QED
    BY <1>6, <1>7, <2>1 DEF LineRespected
<1> QED
  BY <1>5, <1>8

\* Those who can always log in change nothing in the line.
LEMMA PassesByStep ==
    ASSUME WaitingInv, NEW p \in Clients, p \notin playing, PassesBy(p)
    PROVE  WaitingInv' /\ LineRespected
<1>1. LineInv(playing, priorityWaitList, waitList, told) /\ misplaced \in Nat
  BY DEF WaitingInv
<1>2. /\ Unlimited(p) /\ playing' = playing \cup {p} /\ told' = [told EXCEPT ![p] = 0]
      /\ UNCHANGED <<priorityWaitList, waitList, misplaced>>
  BY DEF PassesBy, LetIn
<1>3. LineInv(playing \cup {p}, priorityWaitList, waitList, [told EXCEPT ![p] = 0])
  BY <1>1, <1>2, LetInKeeps
<1>4. WaitingInv'
  BY <1>1, <1>2, <1>3 DEF WaitingInv
<1>5. \A q \in playing' \ playing : Unlimited(q)
  BY <1>2
<1> QED
  BY <1>4, <1>5 DEF LineRespected

\* What the two cleaned lists are worth.
Cleaned(first, second) ==
    /\ LineInv(playing, first, second, told) /\ misplaced \in Nat
    /\ first \in Seq(LineEntry) /\ second \in Seq(LineEntry)
    /\ Alive(Line) = first \o second

\* There is room for all in front of p, and for p.
LEMMA ItsTurnStep ==
    ASSUME NEW p \in Clients, p \notin playing, NEW first, NEW second, Cleaned(first, second),
           NEW slot, SlotIs(first \o second, p, slot), slot = SlotOf(first \o second, p),
           ItsTurn(p, first, second, slot)
    PROVE  WaitingInv' /\ LineRespected
<1>1. /\ slot \in Nat \ {0} /\ Cardinality(playing) + slot <= MaxPlayers
      /\ playing' = playing \cup {p} /\ told' = [told EXCEPT ![p] = 0]
      /\ priorityWaitList' = Without(first, p) /\ waitList' = Without(second, p)
      /\ misplaced' = IF slot <= Len(first) THEN Min({misplaced + 1, Last(Limits)}) ELSE misplaced
  BY DEF ItsTurn, LetIn, SlotIs
<1>2. IsFiniteSet(playing) /\ misplaced \in Nat
  BY DEF Cleaned, LineInv
<1>3. Cardinality(playing) \in Nat
  BY <1>2, FS_CardinalityType
<1>4. Cardinality(playing) < MaxPlayers
  BY <1>1, <1>3, WaitingAssumption
<1>5. /\ LineInv(playing \cup {p}, Without(first, p), Without(second, p), [told EXCEPT ![p] = 0])
      /\ Cardinality(playing \cup {p}) = Cardinality(playing) + 1
  BY <1>4, LetInKeeps DEF Cleaned
<1>6. misplaced' \in Nat
  <2>1. Last(Limits) \in Nat
    BY WaitingAssumption DEF Last
  <2>2. Min({misplaced + 1, Last(Limits)}) \in Nat
    BY <1>2, <2>1, LesserOfTwo
  <2> QED
    BY <1>1, <1>2, <2>2
<1>7. WaitingInv'
  BY <1>1, <1>5, <1>6 DEF WaitingInv
<1>8. LineRespected
  <2>1. playing' \ playing = {p} /\ Cardinality(playing') + (slot - 1) <= MaxPlayers
    BY <1>1, <1>3, <1>5, WaitingAssumption
  <2>2. Alive(Line) = first \o second
    BY DEF Cleaned
  <2> QED
    BY <1>1, <2>1, <2>2 DEF LineRespected
<1> QED
  BY <1>7, <1>8

\* A client in line is told when to come again, and its entry lives longer.
LEMMA WaitStep ==
    ASSUME NEW p \in Clients, p \notin playing, NEW first, NEW second, Cleaned(first, second),
           NEW slot, SlotIs(first \o second, p, slot), Wait(p, first, second, slot)
    PROVE  WaitingInv' /\ LineRespected
<1>1. PICK c : c = [i \in DOMAIN first |-> IF first[i].guid = p THEN Entry(p, slot) ELSE first[i]]
  OBVIOUS
<1>2. PICK d : d = [i \in DOMAIN second |-> IF second[i].guid = p THEN Entry(p, slot) ELSE second[i]]
  OBVIOUS
<1>3. /\ slot \in Nat \ {0} /\ priorityWaitList' = c /\ waitList' = d
      /\ told' = [told EXCEPT ![p] = GetTime(slot)] /\ UNCHANGED <<playing, misplaced>>
  BY <1>1, <1>2 DEF Wait, SlotIs
<1>4. GetTime(slot) \in Nat
  BY <1>3, TimesGrow
<1>5. /\ Entry(p, slot) \in LineEntry /\ Entry(p, slot).guid = p
      /\ Entry(p, slot).left > GetTime(slot)
  BY <1>4 DEF Entry, GetTimeout, LineEntry
<1>6. /\ first \in Seq(LineEntry) /\ second \in Seq(LineEntry) /\ misplaced \in Nat
      /\ LineInv(playing, first, second, told)
  BY DEF Cleaned
<1>7. /\ SamePeople(c, first)
      /\ \A q \in Clients, s \in Nat : q # p /\ Expected(first, q, s) => Expected(c, q, s)
      /\ \A s \in Nat, x \in LineEntry :
            In(x, first) /\ x.guid = p /\ Entry(p, slot).left > s => Expected(c, p, s)
  BY <1>1, <1>5, <1>6, RefreshKeeps
<1>8. /\ SamePeople(d, second)
      /\ \A q \in Clients, s \in Nat : q # p /\ Expected(second, q, s) => Expected(d, q, s)
      /\ \A s \in Nat, x \in LineEntry :
            In(x, second) /\ x.guid = p /\ Entry(p, slot).left > s => Expected(d, p, s)
  BY <1>2, <1>5, <1>6, RefreshKeeps
<1>9. PICK u : u = [told EXCEPT ![p] = GetTime(slot)]
  OBVIOUS
<1>10. /\ told \in [Clients -> Nat] /\ \A q \in playing : told[q] = 0
       /\ \A q \in Clients : told[q] > 0 => Expected(first, q, told[q]) \/ Expected(second, q, told[q])
  BY <1>6 DEF LineInv
<1>11. /\ u \in [Clients -> Nat] /\ u[p] = GetTime(slot)
       /\ \A q \in Clients : q # p => u[q] = told[q]
  BY <1>4, <1>9, <1>10
<1>12. \A q \in playing : u[q] = 0
  BY <1>6, <1>10, <1>11 DEF LineInv
<1>13. PICK x \in LineEntry : (In(x, first) \/ In(x, second)) /\ x.guid = p
  <2>1. \A x : In(x, first \o second) <=> In(x, first) \/ In(x, second)
    BY <1>6, InConcat
  <2>2. PICK x \in LineEntry : In(x, first \o second) /\ x.guid = p
    BY <1>3 DEF SlotIs
  <2> QED
    BY <2>1, <2>2
<1>14. ASSUME NEW q \in Clients, u[q] > 0
       PROVE  Expected(c, q, u[q]) \/ Expected(d, q, u[q])
  <2>1. CASE q = p
    BY <1>4, <1>5, <1>7, <1>8, <1>11, <1>13, <2>1
  <2>2. CASE q # p
    BY <1>7, <1>8, <1>10, <1>11, <1>14, <2>2
  <2> QED
    BY <2>1, <2>2
<1>15. LineInv(playing, c, d, u)
  BY <1>6, <1>7, <1>8, <1>11, <1>12, <1>14, RenewedLine
<1>16. WaitingInv'
  BY <1>3, <1>6, <1>9, <1>15 DEF WaitingInv
<1>17. LineRespected
  BY <1>3 DEF LineRespected
<1> QED
  BY <1>16, <1>17

\* A client that is not in line comes to its end.
LEMMA QueueStep ==
    ASSUME NEW p \in Clients, p \notin playing, NEW first, NEW second, Cleaned(first, second),
           NEW slot, SlotIs(first \o second, p, slot), Queue(p, first, second, slot),
           ~Unlimited(p)
    PROVE  WaitingInv' /\ LineRespected
<1>1. /\ first \in Seq(LineEntry) /\ second \in Seq(LineEntry) /\ misplaced \in Nat
      /\ LineInv(playing, first, second, told)
  BY DEF Cleaned
<1>2. \A x \in LineEntry : In(x, first) \/ In(x, second) => x.guid # p
  <2>1. \A x : In(x, first \o second) <=> In(x, first) \/ In(x, second)
    BY <1>1, InConcat
  <2>2. \A x \in LineEntry : In(x, first \o second) => x.guid # p
    BY DEF Queue, SlotIs
  <2> QED
    BY <2>1, <2>2
<1>3. /\ told' = [told EXCEPT ![p] = GetTime(SlotOf(priorityWaitList' \o waitList', p))]
      /\ UNCHANGED <<playing, misplaced>>
  BY DEF Queue
<1>4. PICK m \in Nat, n \in Nat : m = Len(first) /\ n = Len(second)
  BY <1>1
<1> DEFINE c == priorityWaitList'
           d == waitList'
           Comes(est, i) ==
             /\ c \in Seq(LineEntry) /\ d \in Seq(LineEntry)
             /\ i \in 1..Len(c \o d) /\ i <= est /\ (c \o d)[i].guid = p
             /\ \/ c = Append(first, Entry(p, est)) /\ d = second
                \/ c = first /\ d = Append(second, Entry(p, est))
<1>5. ASSUME NEW est \in Nat, NEW i \in Nat, Comes(est, i)
      PROVE  WaitingInv'
  <2>1. PICK s : s = SlotOf(c \o d, p)
    OBVIOUS
  <2>2. c \o d \in Seq(LineEntry)
    BY <1>5
  <2>3. SlotIs(c \o d, p, s)
    BY <2>1, <2>2, SlotFound
  <2>4. s \in Nat /\ s <= i
    BY <1>5, <2>3 DEF SlotIs
  <2>5. s <= est
    BY <1>5, <2>4
  <2>6. GetTime(s) \in Nat /\ GetTime(est) \in Nat /\ GetTime(s) <= GetTime(est)
    BY <2>4, <2>5, TimesGrow
  <2>7. /\ Entry(p, est) \in LineEntry /\ Entry(p, est).guid = p
        /\ Entry(p, est).left > GetTime(s)
    BY <2>6 DEF Entry, GetTimeout, LineEntry
  <2>8. /\ LineInv(playing, Append(first, Entry(p, est)), second, [told EXCEPT ![p] = GetTime(s)])
        /\ LineInv(playing, first, Append(second, Entry(p, est)), [told EXCEPT ![p] = GetTime(s)])
    <3>1. p \in Waiters \ playing
      BY DEF Waiters
    <3> QED
      BY <1>1, <1>2, <2>6, <2>7, <3>1, JoinedLine
  <2>9. LineInv(playing, c, d, [told EXCEPT ![p] = GetTime(s)])
    BY ONLY <1>5, <2>8
  <2> QED
    BY <1>1, <1>3, <1>5, <2>1, <2>9 DEF WaitingInv
<1>6. ASSUME p \in PremiumClients PROVE WaitingInv'
  <2>1. PICK est \in Nat : est = m + misplaced + 1
    BY <1>1
  <2>2. PICK e : e = Entry(p, est)
    OBVIOUS
  <2>3. priorityWaitList' = Append(first, e) /\ waitList' = second
    BY <1>4, <1>6, <2>1, <2>2 DEF Queue
  <2>4. e \in LineEntry /\ e.guid = p
    <3>1. GetTime(est) \in Nat
      BY TimesGrow
    <3> QED
      BY <2>2, <3>1 DEF Entry, GetTimeout, LineEntry
  <2>5. c \in Seq(LineEntry) /\ c = Append(first, e)
    BY <1>1, <2>3, <2>4, Appended
  <2>6. Len(c) = m + 1 /\ c[m + 1] = e
    BY <1>1, <1>4, <2>4, <2>5
  <2>7. m + 1 \in 1..Len(c \o second) /\ (c \o second)[m + 1] = e
    BY <1>1, <1>4, <2>6
  <2>8. m + 1 <= est
    BY <1>1, <2>1
  <2>9. Comes(est, m + 1)
    BY <1>1, <2>2, <2>3, <2>4, <2>5, <2>7, <2>8
  <2> HIDE DEF Comes
  <2> QED
    BY <1>5, <2>9
<1>7. ASSUME p \notin PremiumClients PROVE WaitingInv'
  <2>1. PICK est \in Nat : est = m + n + 1
    OBVIOUS
  <2>2. PICK e : e = Entry(p, est)
    OBVIOUS
  <2>3. priorityWaitList' = first /\ waitList' = Append(second, e)
    BY <1>4, <1>7, <2>1, <2>2 DEF Queue
  <2>4. e \in LineEntry /\ e.guid = p
    <3>1. GetTime(est) \in Nat
      BY TimesGrow
    <3> QED
      BY <2>2, <3>1 DEF Entry, GetTimeout, LineEntry
  <2>5. d \in Seq(LineEntry) /\ d = Append(second, e)
    BY <1>1, <2>3, <2>4, Appended
  <2>6. Len(d) = n + 1 /\ d[n + 1] = e
    BY <1>1, <1>4, <2>4, <2>5
  <2>7. est \in 1..Len(first \o d) /\ (first \o d)[est] = e
    BY <1>1, <1>4, <2>1, <2>6
  <2>8. Comes(est, est)
    BY <1>1, <2>2, <2>3, <2>4, <2>5, <2>7
  <2> HIDE DEF Comes
  <2> QED
    BY ONLY <1>5, <2>8
<1>8. LineRespected
  BY <1>3 DEF LineRespected
<1> QED
  BY <1>6, <1>7, <1>8

\* A login, whatever it finds.
LEMMA ClientLoginStep ==
    ASSUME WaitingInv, NEW p \in Clients, ClientLogin(p)
    PROVE  WaitingInv' /\ LineRespected
<1>1. p \notin playing
  BY DEF ClientLogin
<1>2. CASE PassesBy(p)
  BY <1>1, <1>2, PassesByStep
<1>3. CASE ~Unlimited(p) /\ NobodyWaits(p)
  BY <1>1, <1>3, NobodyWaitsStep
<1>4. CASE ~PassesBy(p) /\ ~(~Unlimited(p) /\ NobodyWaits(p))
  <2>1. PICK first, second : first = Alive(priorityWaitList) /\ second = Alive(waitList)
    OBVIOUS
  <2>2. PICK slot : slot = SlotOf(first \o second, p)
    OBVIOUS
  <2>3. /\ \/ ItsTurn(p, first, second, slot)
           \/ Wait(p, first, second, slot)
           \/ Queue(p, first, second, slot)
        /\ ~Unlimited(p)
    BY <1>4, <2>1, <2>2 DEF ClientLogin
  <2>4. /\ LineInv(playing, priorityWaitList, waitList, told) /\ misplaced \in Nat
        /\ priorityWaitList \in Seq(LineEntry) /\ waitList \in Seq(LineEntry)
    BY DEF WaitingInv, LineInv
  <2>5. LineInv(playing, first, second, told)
    BY <2>1, <2>4, CleanLine
  <2>6. first \in Seq(LineEntry) /\ second \in Seq(LineEntry)
    BY <2>5 DEF LineInv
  <2>7. Alive(Line) = first \o second
    BY <2>1, <2>4, AliveLine DEF Line
  <2>8. Cleaned(first, second)
    BY <2>4, <2>5, <2>6, <2>7 DEF Cleaned
  <2>9. SlotIs(first \o second, p, slot)
    <3>1. first \o second \in Seq(LineEntry)
      BY <2>6
    <3> QED
      BY <2>2, <3>1, SlotFound
  <2> QED
    BY <1>1, <2>2, <2>3, <2>8, <2>9, ItsTurnStep, WaitStep, QueueStep
<1> QED
  BY <1>2, <1>3, <1>4

\* A player leaves the world.
LEMMA WaiterLogoutStep ==
    ASSUME WaitingInv, NEW p \in Clients, WaiterLogout(p)
    PROVE  WaitingInv' /\ LineRespected
<1>1. /\ playing' = playing \ {p}
      /\ UNCHANGED <<priorityWaitList, waitList, misplaced, told>>
  BY DEF WaiterLogout
<1>2. LineInv(playing, priorityWaitList, waitList, told) /\ misplaced \in Nat
  BY DEF WaitingInv
<1>3. /\ IsFiniteSet(playing \ {p}) /\ playing \ {p} \subseteq playing
      /\ Room(playing \ {p})
  <2>1. IsFiniteSet(playing) /\ Room(playing)
    BY <1>2 DEF LineInv
  <2> DEFINE A == playing \ Privileged
             B == (playing \ {p}) \ Privileged
  <2>2. IsFiniteSet(playing \ {p}) /\ IsFiniteSet(A) /\ B \subseteq A
    BY <2>1, FS_Subset
  <2>3. IsFiniteSet(B) /\ Cardinality(B) <= Cardinality(A)
    BY <2>2, FS_Subset
  <2>4. Cardinality(A) \in Nat /\ Cardinality(B) \in Nat
    BY <2>2, <2>3, FS_CardinalityType
  <2> QED
    BY <2>1, <2>2, <2>3, <2>4, WaitingAssumption DEF Room
<1>4. LineInv(playing \ {p}, priorityWaitList, waitList, told)
  BY <1>2, <1>3 DEF LineInv
<1>5. WaitingInv'
  BY <1>1, <1>2, <1>4 DEF WaitingInv
<1>6. playing' \ playing = {}
  BY <1>1
<1> QED
  BY <1>5, <1>6 DEF LineRespected

\* Time passes for every entry and for what everyone was told.
LEMMA TimeStep ==
    ASSUME WaitingInv, FiveSecondsPass PROVE WaitingInv' /\ LineRespected
<1>1. /\ priorityWaitList' = Passed(priorityWaitList) /\ waitList' = Passed(waitList)
      /\ told' = [p \in Clients |-> Max({0, told[p] - 1})]
      /\ UNCHANGED <<playing, misplaced>>
  BY DEF FiveSecondsPass
<1>2. LineInv(playing, priorityWaitList, waitList, told) /\ misplaced \in Nat
  BY DEF WaitingInv
<1>3. /\ priorityWaitList \in Seq(LineEntry) /\ waitList \in Seq(LineEntry)
      /\ told \in [Clients -> Nat] /\ playing \subseteq Clients
      /\ \A p \in playing : told[p] = 0
      /\ \A p \in Clients : told[p] > 0 => Expected(priorityWaitList, p, told[p])
                                           \/ Expected(waitList, p, told[p])
  BY <1>2 DEF LineInv
<1>4. PICK u : u = [p \in Clients |-> Max({0, told[p] - 1})]
  OBVIOUS
<1>5. \A p \in Clients : told[p] \in Nat /\ u[p] = IF told[p] = 0 THEN 0 ELSE told[p] - 1
  BY <1>3, <1>4, OneLess
<1>6. u \in [Clients -> Nat] /\ \A p \in playing : u[p] = 0
  BY <1>3, <1>4, <1>5
<1>7. PICK c : c = Passed(priorityWaitList)
  OBVIOUS
<1>8. PICK d : d = Passed(waitList)
  OBVIOUS
<1>9. /\ SamePeople(c, priorityWaitList)
      /\ \A p \in Clients, s \in Nat :
            s > 0 /\ Expected(priorityWaitList, p, s) => Expected(c, p, s - 1)
  BY <1>3, <1>7, PassedKeeps
<1>10. /\ SamePeople(d, waitList)
       /\ \A p \in Clients, s \in Nat :
             s > 0 /\ Expected(waitList, p, s) => Expected(d, p, s - 1)
  BY <1>3, <1>8, PassedKeeps
<1>11. ASSUME NEW p \in Clients, u[p] > 0 PROVE Expected(c, p, u[p]) \/ Expected(d, p, u[p])
  <2>1. told[p] \in Nat /\ told[p] > 0 /\ u[p] = told[p] - 1
    BY <1>5, <1>11
  <2> QED
    BY <1>3, <1>9, <1>10, <2>1
<1>12. LineInv(playing, c, d, u)
  BY <1>2, <1>6, <1>9, <1>10, <1>11, RenewedLine
<1>13. WaitingInv'
  BY <1>1, <1>2, <1>4, <1>7, <1>8, <1>12 DEF WaitingInv
<1> QED
  BY <1>1, <1>13 DEF LineRespected

\* Each step keeps the line, and lets in who may come.
LEMMA WaitingStep ==
    ASSUME WaitingInv, [WaitingNext]_waitingVars
    PROVE  WaitingInv' /\ (LineRespected \/ UNCHANGED waitingVars)
<1>1. CASE FiveSecondsPass
  BY <1>1, TimeStep
<1>2. ASSUME NEW p \in Clients, ClientLogin(p)
      PROVE  WaitingInv' /\ (LineRespected \/ UNCHANGED waitingVars)
  BY <1>2, ClientLoginStep
<1>3. ASSUME NEW p \in Clients, WaiterLogout(p)
      PROVE  WaitingInv' /\ (LineRespected \/ UNCHANGED waitingVars)
  BY <1>3, WaiterLogoutStep
<1>4. CASE UNCHANGED waitingVars
  BY <1>4 DEF waitingVars, WaitingInv
<1> QED
  BY <1>1, <1>2, <1>3, <1>4 DEF WaitingNext

\* The first line is empty.
LEMMA WaitingStart == ASSUME WaitingInit PROVE WaitingInv
<1>1. /\ playing = {} /\ priorityWaitList = <<>> /\ waitList = <<>> /\ misplaced = 0
      /\ told = [p \in Clients |-> 0]
  BY DEF WaitingInit
<1>2. IsFiniteSet({}) /\ Room({})
  <2>1. IsFiniteSet({}) /\ Cardinality({}) = 0 /\ {} \ Privileged = {}
    BY FS_EmptySet
  <2> QED
    BY <2>1, WaitingAssumption DEF Room
<1>3. told \in [Clients -> Nat] /\ \A p \in Clients : told[p] = 0
  BY <1>1
<1>4. /\ <<>> \in Seq(LineEntry) /\ Single(<<>>) /\ Separate(<<>>, <<>>)
      /\ \A x : ~In(x, <<>>)
  BY DEF Single, Separate, In
<1> QED
  BY <1>1, <1>2, <1>3, <1>4 DEF WaitingInv, LineInv

\* What the invariant says of the line.
LEMMA LineIsKept == ASSUME WaitingInv PROVE LimitKept /\ ReturnKeepsPlace
<1>1. /\ priorityWaitList \in Seq(LineEntry) /\ waitList \in Seq(LineEntry)
      /\ Single(priorityWaitList) /\ Single(waitList) /\ Separate(priorityWaitList, waitList)
      /\ \A x \in LineEntry :
            In(x, priorityWaitList) \/ In(x, waitList) => x.guid \in Waiters \ playing
      /\ \A p \in Clients : told[p] > 0 => Expected(priorityWaitList, p, told[p])
                                           \/ Expected(waitList, p, told[p])
      /\ Room(playing)
  BY DEF WaitingInv, LineInv
<1>2. PICK m \in Nat, n \in Nat : m = Len(priorityWaitList) /\ n = Len(waitList)
  BY <1>1
<1>3. PICK r : r = Line
  OBVIOUS
<1>4. /\ r \in Seq(LineEntry) /\ Len(r) = m + n /\ DOMAIN r = 1..(m + n)
      /\ \A i \in 1..m : r[i] = priorityWaitList[i]
      /\ \A i \in 1..n : r[m + i] = waitList[i]
      /\ \A x : In(x, r) <=> In(x, priorityWaitList) \/ In(x, waitList)
  <2>1. r = priorityWaitList \o waitList
    BY <1>3 DEF Line
  <2>2. r \in Seq(LineEntry) /\ Len(r) = m + n
    BY <1>1, <1>2, <2>1, InConcat
  <2>3. /\ \A i \in 1..m : r[i] = priorityWaitList[i]
        /\ \A i \in 1..n : r[m + i] = waitList[i]
        /\ \A x : In(x, r) <=> In(x, priorityWaitList) \/ In(x, waitList)
    BY <1>1, <1>2, <2>1, InConcat
  <2> QED
    BY <2>2, <2>3
<1>5. \A i \in 1..(m + n) : r[i] \in LineEntry /\ In(r[i], r)
  BY <1>4 DEF In
<1>6. \A i \in 1..(m + n) : r[i].guid \notin playing /\ ~Unlimited(r[i].guid)
  BY <1>1, <1>4, <1>5 DEF Waiters
<1>7. ASSUME NEW i \in 1..(m + n), NEW j \in 1..(m + n), r[i].guid = r[j].guid, i < j PROVE FALSE
  <2>1. CASE j \in 1..m
    <3>1. i \in 1..m /\ priorityWaitList[i].guid = priorityWaitList[j].guid
      BY <1>4, <1>7, <2>1
    <3> QED
      BY <1>1, <1>2, <1>7, <2>1, <3>1 DEF Single
  <2>2. CASE ~(i \in 1..m)
    <3>1. PICK k \in 1..n, l \in 1..n : i = m + k /\ j = m + l
      <4>1. i - m \in 1..n /\ j - m \in 1..n /\ i = m + (i - m) /\ j = m + (j - m)
        BY <1>7, <2>2
      <4> QED
        BY <4>1
    <3>2. waitList[k].guid = waitList[l].guid /\ k # l
      BY <1>4, <1>7, <3>1
    <3> QED
      BY <1>1, <1>2, <3>2 DEF Single
  <2>3. CASE i \in 1..m /\ ~(j \in 1..m)
    <3>1. PICK l \in 1..n : j = m + l
      <4>1. j - m \in 1..n /\ j = m + (j - m)
        BY <2>3
      <4> QED
        BY <4>1
    <3>2. DOMAIN priorityWaitList = 1..m /\ DOMAIN waitList = 1..n
      BY <1>1, <1>2
    <3>3. In(r[i], priorityWaitList) /\ In(r[j], waitList)
      BY <1>4, <2>3, <3>1, <3>2 DEF In
    <3> QED
      BY <1>1, <1>5, <1>7, <3>3 DEF Separate
  <2> QED
    BY <2>1, <2>2, <2>3
<1>8. \A i, j \in 1..(m + n) : r[i].guid = r[j].guid => i = j
  <2> SUFFICES ASSUME NEW i \in 1..(m + n), NEW j \in 1..(m + n), r[i].guid = r[j].guid, i # j
               PROVE  FALSE
    OBVIOUS
  <2>1. i < j \/ j < i
    OBVIOUS
  <2> QED
    BY <1>7, <2>1
<1>9. LimitKept
  BY <1>1, <1>3, <1>4, <1>6, <1>8 DEF LimitKept, Room
<1>10. ASSUME NEW p \in Clients, told[p] > 0
       PROVE  SlotOf(r, p) > 0 /\ r[SlotOf(r, p)].left > told[p]
  <2>1. PICK s : s = SlotOf(r, p)
    OBVIOUS
  <2>2. SlotIs(r, p, s)
    BY <1>4, <2>1, SlotFound
  <2>3. PICK x \in LineEntry : In(x, r) /\ x.guid = p /\ x.left > told[p]
    BY <1>1, <1>4, <1>10 DEF Expected
  <2>4. PICK i \in 1..(m + n) : r[i] = x
    BY <1>4, <2>3 DEF In
  <2>5. s > 0 /\ s \in 1..(m + n) /\ r[s].guid = p
    BY <1>4, <2>2, <2>3, <2>4 DEF SlotIs
  <2>6. s = i
    BY <1>8, <2>3, <2>4, <2>5
  <2> QED
    BY <2>1, <2>3, <2>4, <2>5, <2>6
<1>11. ReturnKeepsPlace
  BY <1>3, <1>10 DEF ReturnKeepsPlace
<1> QED
  BY <1>9, <1>11

\* The waiting list of a server with any limit or none, for any clients: but
\* for those who can always log in, it holds no more players than it may and
\* lets nobody in before those who wait in front; who comes back when told to
\* still has the place (clientLogin, cleanupList).
THEOREM LineStaysKept == WaitingSpec => LineKept
<1>1. WaitingInit => WaitingInv
  BY WaitingStart
<1>2. WaitingInv /\ [WaitingNext]_waitingVars => WaitingInv' /\ [LineRespected]_waitingVars
  BY WaitingStep
<1>3. WaitingInv => LimitKept /\ ReturnKeepsPlace
  BY LineIsKept
<1> QED
  BY <1>1, <1>2, <1>3, PTL DEF WaitingSpec, LineKept

\* The same where the other parts of the network are composed with it.
THEOREM NetworkKeepsLine == NetworkSpec => LineKept
<1>1. NetworkInit => WaitingInv
  BY WaitingStart DEF NetworkInit
<1>2. WaitingInv /\ [NetworkNext]_networkVars => WaitingInv' /\ [LineRespected]_waitingVars
  <2>1. [NetworkNext]_networkVars => [WaitingNext]_waitingVars
    BY DEF NetworkNext, networkVars
  <2> QED
    BY <2>1, WaitingStep
<1>3. WaitingInv => LimitKept /\ ReturnKeepsPlace
  BY LineIsKept
<1> QED
  BY <1>1, <1>2, <1>3, PTL DEF NetworkSpec, LineKept

=============================================================================
