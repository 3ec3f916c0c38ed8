------------------------------ MODULE LiveCasts ------------------------------
(***************************************************************************)
(* Live casts: a client of a player may let others watch.  A Player object *)
(* is counted by everyone who holds it: the game until the cleanup after   *)
(* its removal, its client, its spectators.  The address of one that was   *)
(* freed may be used again.  All of this runs in the dispatcher thread;    *)
(* the network thread only adds release tasks.                             *)
(***************************************************************************)
EXTENDS Integers, FiniteSets

CONSTANTS
    Objects, NoObject,  \* addresses of Player objects, and a null pointer
    Casters,            \* ProtocolGame objects, NoCaster a null pointer
    NoCaster,
    Spectators,         \* ProtocolSpectator objects
    MaxCasts            \* getMaxLiveCastCount

ASSUME CastAssumption ==
    /\ NoObject \notin Objects /\ NoCaster \notin Casters /\ MaxCasts \in Nat \ {0}
    /\ IsFiniteSet(Casters) /\ IsFiniteSet(Spectators) /\ Casters \cap Spectators = {}

VARIABLES
    inGame,             \* the objects of Game::players
    references,         \* Player::referenceCounter; freed at 0
    toRelease,          \* Game::ToReleaseCreatures
    open,               \* protocols with a connection in use
    releases,           \* protocols with a release task
    played,             \* ProtocolGame::player
    clients,            \* Player::client
    isCaster,
    liveCasts,          \* protocol by player
    spectators,         \* ProtocolGame::spectators
    watched,            \* ProtocolSpectator::player
    watchedClient       \* ProtocolSpectator::client

castVars == <<inGame, references, toRelease, open, releases, played, clients, isCaster,
              liveCasts, spectators, watched, watchedClient>>

CastInit ==
    /\ inGame = {}
    /\ references = [p \in Objects |-> 0]
    /\ toRelease = {}
    /\ open = {} /\ releases = {}
    /\ played = [c \in Casters |-> NoObject]
    /\ clients = [p \in Objects |-> NoCaster]
    /\ isCaster = [c \in Casters |-> FALSE]
    /\ liveCasts = [p \in Objects |-> NoCaster]
    /\ spectators = [c \in Casters |-> {}]
    /\ watched = [s \in Spectators |-> NoObject]
    /\ watchedClient = [s \in Spectators |-> NoCaster]

sessions == <<inGame, toRelease, played, clients>>
casts == <<isCaster, liveCasts, spectators, watched, watchedClient>>

-----------------------------------------------------------------------------
\* Connection::close of those in use
ClosedOf(protocols) ==
    /\ open' = open \ protocols
    /\ releases' = releases \cup (protocols \cap open)

\* ProtocolGame::stopLiveCast, with onLiveCastStop of its spectators; who calls
\* it closes their connections and counts their references down.
StopLiveCast(c) ==
    /\ isCaster' = [isCaster EXCEPT ![c] = FALSE]
    /\ liveCasts' = IF isCaster[c] THEN [liveCasts EXCEPT ![played[c]] = NoCaster] ELSE liveCasts
    /\ spectators' = [spectators EXCEPT ![c] = {}]
    /\ watched' = [s \in Spectators |-> IF s \in spectators[c] THEN NoObject ELSE watched[s]]

Dropped(c, p) == Cardinality({s \in spectators[c] : watched[s] = p})

\* Game::removeCreature; it stays counted until the cleanup.
RemoveCreature(p) ==
    /\ inGame' = inGame \ {p}
    /\ toRelease' = toRelease \cup {p}

-----------------------------------------------------------------------------
(***************************************************************************)
(* The client of a player.                                                 *)
(***************************************************************************)
\* ProtocolGame::login of a character who is not in the game: a new object,
\* counted for the protocol and for the game
LoginCaster(c, p) ==
    /\ c \notin open \cup releases /\ played[c] = NoObject
    /\ references[p] = 0
    /\ open' = open \cup {c}
    /\ inGame' = inGame \cup {p}
    /\ references' = [references EXCEPT ![p] = 2]
    /\ played' = [played EXCEPT ![c] = p]
    /\ clients' = [clients EXCEPT ![p] = c]
    /\ UNCHANGED <<toRelease, releases, casts>>

\* mutant: whoever plays already is not asked for
ConnectOverCaster(c, p) ==
    /\ c \notin open \cup releases /\ played[c] = NoObject
    /\ p \in inGame
    /\ open' = open \cup {c}
    /\ references' = [references EXCEPT ![p] = @ + 1]
    /\ played' = [played EXCEPT ![c] = p]
    /\ clients' = [clients EXCEPT ![p] = c]
    /\ UNCHANGED <<inGame, toRelease, releases, casts>>

\* ProtocolGame::connect to a player whose client was lost
ConnectCaster(c, p) ==
    /\ c \notin open \cup releases /\ played[c] = NoObject
    /\ p \in inGame /\ clients[p] = NoCaster
    /\ open' = open \cup {c}
    /\ references' = [references EXCEPT ![p] = @ + 1]
    /\ played' = [played EXCEPT ![c] = p]
    /\ clients' = [clients EXCEPT ![p] = c]
    /\ UNCHANGED <<inGame, toRelease, releases, casts>>

StartLiveCast(c) ==
    /\ c \in open /\ ~isCaster[c]
    /\ played[c] \in inGame
    /\ Cardinality({p \in Objects : liveCasts[p] # NoCaster}) < MaxCasts
    /\ isCaster' = [isCaster EXCEPT ![c] = TRUE]
    /\ liveCasts' = [liveCasts EXCEPT ![played[c]] = c]
    /\ UNCHANGED <<sessions, references, open, releases, spectators, watched, watchedClient>>

\* by the player, or with the first packet after their death
EndLiveCast(c) ==
    /\ c \in open /\ isCaster[c]
    /\ StopLiveCast(c)
    /\ ClosedOf(spectators[c])
    /\ references' = [p \in Objects |-> references[p] - Dropped(c, p)]
    /\ UNCHANGED <<sessions, watchedClient>>

\* ProtocolGame::logout; of the dead, the client's last request
LogoutCaster(c) ==
    /\ c \in open /\ played[c] # NoObject
    /\ StopLiveCast(c)
    /\ ClosedOf(spectators[c] \cup {c})
    /\ references' = [p \in Objects |-> references[p] - Dropped(c, p)]
    /\ IF played[c] \in inGame THEN RemoveCreature(played[c]) ELSE UNCHANGED <<inGame, toRelease>>
    /\ UNCHANGED <<played, clients, watchedClient>>

\* ProtocolGame::release
ReleaseCaster(c) ==
    /\ c \in releases
    /\ StopLiveCast(c)
    /\ open' = open \ spectators[c]
    /\ releases' = (releases \ {c}) \cup (spectators[c] \cap open)
    /\ LET p == played[c]
           mine == p # NoObject /\ clients[p] = c
       IN  /\ references' = [q \in Objects |->
                references[q] - Dropped(c, q) - (IF mine /\ q = p THEN 1 ELSE 0)]
           /\ clients' = IF mine THEN [clients EXCEPT ![p] = NoCaster] ELSE clients
           /\ played' = IF mine THEN [played EXCEPT ![c] = NoObject] ELSE played
    /\ UNCHANGED <<inGame, toRelease, watchedClient>>

\* A death, after which the client stays, or a kick
RemovedCaster(p) ==
    /\ p \in inGame
    /\ RemoveCreature(p)
    /\ ClosedOf({}) \/ ClosedOf({clients[p]})
    /\ UNCHANGED <<references, played, clients, casts>>

\* Game::cleanup
CleanupCreatures ==
    /\ toRelease # {}
    /\ references' = [p \in Objects |-> references[p] - (IF p \in toRelease THEN 1 ELSE 0)]
    /\ toRelease' = {}
    /\ clients' = [p \in Objects |-> IF references'[p] = 0 THEN NoCaster ELSE clients[p]]
    /\ UNCHANGED <<inGame, open, releases, played, casts>>

\* ProtocolSpectator::login; its connection may have been closed before.
SpectatorLogin(s, p) ==
    /\ s \notin open \cup releases
    /\ p \in inGame /\ liveCasts[p] # NoCaster
    /\ \/ open' = open \cup {s} /\ UNCHANGED releases
       \/ releases' = releases \cup {s} /\ UNCHANGED open
    /\ references' = [references EXCEPT ![p] = @ + 1]
    /\ watched' = [watched EXCEPT ![s] = p]
    /\ watchedClient' = [watchedClient EXCEPT ![s] = liveCasts[p]]
    /\ spectators' = [spectators EXCEPT ![liveCasts[p]] = @ \cup {s}]
    /\ UNCHANGED <<sessions, isCaster, liveCasts>>

\* ProtocolSpectator::release, which ends what it finds and may run twice
Unwatch(s) ==
    LET p == watched[s]
        c == watchedClient[s]
    IN  IF p = NoObject THEN UNCHANGED <<references, watched, spectators>>
        ELSE /\ references' = [references EXCEPT ![p] = @ - 1]
             /\ watched' = [watched EXCEPT ![s] = NoObject]
             /\ spectators' = [spectators EXCEPT ![c] = @ \ {s}]

SpectatorRelease(s) ==
    /\ s \in releases
    /\ releases' = releases \ {s}
    /\ Unwatch(s)
    /\ UNCHANGED <<sessions, open, isCaster, liveCasts, watchedClient>>

\* ProtocolSpectator::logout
SpectatorLogout(s) ==
    /\ s \in open
    /\ ClosedOf({s})
    /\ Unwatch(s)
    /\ UNCHANGED <<sessions, isCaster, liveCasts, watchedClient>>

\* by the network thread: of a caster or of a spectator
ConnectionLost(x) ==
    /\ x \in open
    /\ ClosedOf({x})
    /\ UNCHANGED <<sessions, references, casts>>

CastNext ==
    \/ CleanupCreatures
    \/ \E c \in Casters :
          \/ StartLiveCast(c) \/ EndLiveCast(c) \/ LogoutCaster(c) \/ ReleaseCaster(c)
          \/ \E p \in Objects : LoginCaster(c, p) \/ ConnectCaster(c, p)
    \/ \E p \in Objects : RemovedCaster(p)
    \/ \E s \in Spectators :
          \/ SpectatorLogout(s) \/ SpectatorRelease(s)
          \/ \E p \in Objects : SpectatorLogin(s, p)
    \/ \E x \in Casters \cup Spectators : ConnectionLost(x)

CastSpec == CastInit /\ [][CastNext]_castVars

-----------------------------------------------------------------------------
\* A Player is counted once for each who holds it, so that it is freed with the
\* last of them and never under one of them.
CountedOnce ==
    \A p \in Objects :
        references[p] = Cardinality({c \in Casters : played[c] = p})
                        + Cardinality({s \in Spectators : watched[s] = p})
                        + (IF p \in inGame \cup toRelease THEN 1 ELSE 0)

\* The list of casts names, for each caster, the player it plays, and nothing
\* else; who watches is a spectator of the cast it logged in to, also after
\* the player has died or the client was lost.
CastsAgree ==
    /\ \A p \in Objects, c \in Casters :
         liveCasts[p] = c <=> isCaster[c] /\ played[c] = p
    /\ \A s \in Spectators, c \in Casters :
         s \in spectators[c] => isCaster[c] /\ watchedClient[s] = c /\ watched[s] = played[c]
    /\ \A s \in Spectators :
         watched[s] # NoObject => s \in spectators[watchedClient[s]]

\* A caster's player has one client, and lists no object that was freed.
CastersPlay ==
    \A c \in Casters : isCaster[c] => played[c] # NoObject /\ clients[played[c]] = c

\* Nobody is left watching: a spectator stops in the step that ends the cast.
CastEndsForAll ==
    \A c \in Casters, s \in Spectators :
        isCaster[c] /\ ~isCaster'[c] /\ s \in spectators[c]
        => watched'[s] = NoObject /\ s \notin open'

\* The casts, the casters and their spectators agree, and a Player is freed
\* with the last who holds it (startLiveCast, stopLiveCast, release).
CastsConsistent == CountedOnce /\ CastsAgree /\ CastersPlay

\* After every step they agree, and nobody watches a cast that ended with it.
CastsKept == [][CastsConsistent' /\ CastEndsForAll]_castVars

=============================================================================
