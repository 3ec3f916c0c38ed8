------------------------------ MODULE MCNetwork ------------------------------
(***************************************************************************)
(* What clients have with the server: sessions, connections, live casts,   *)
(* and the waiting list.  One of them moves in a behaviour: the state      *)
(* space is the sum of theirs.  Each is fair when it is the one.  Of the   *)
(* sessions either those of one character move, with any of the clients,   *)
(* who stays where one may log out, or those of all with fewer clients.    *)
(***************************************************************************)
EXTENDS Sessions, Connections, LiveCasts, WaitingList

CONSTANT LateClients        \* they come only where one character is played

MCLimits == <<2>>

VARIABLE stage

networkVars == <<stage, sessionVars, connectionVars, castVars, waitingVars>>

NetworkInit ==
    /\ stage \in {"sessions", "connections", "casts", "waiting"} \cup (Players \ Staff)
    /\ SessionInit /\ ConnectionInit /\ CastInit /\ WaitingInit

NetworkNext ==
    /\ UNCHANGED stage
    /\ \/ /\ SessionNext
          /\ \/ /\ stage \in Players /\ UNCHANGED standing
                /\ \A c \in Protocols : loginTask'[c] \in {stage, NoPlayer}
             \/ stage = "sessions" /\ \A c \in LateClients : connection'[c] = "new"
          /\ UNCHANGED <<connectionVars, castVars, waitingVars>>
       \/ /\ stage = "connections" /\ ConnectionNext
          /\ UNCHANGED <<sessionVars, castVars, waitingVars>>
       \/ /\ stage = "casts" /\ CastNext
          /\ UNCHANGED <<sessionVars, connectionVars, waitingVars>>
       \/ /\ stage = "waiting" /\ WaitingNext
          /\ UNCHANGED <<sessionVars, connectionVars, castVars>>

NetworkFairness ==
    /\ \A c \in Protocols :
         /\ WF_sessionVars(Login(c))
         /\ WF_sessionVars(TakeOver(c))
         /\ WF_sessionVars(Release(c))
    /\ \A p \in Players : WF_sessionVars(Think(p))
    /\ WF_connectionVars(stage = "connections" /\ SendAll)
    /\ \A c \in Connections :
         /\ WF_connectionVars(stage = "connections" /\ (Written(c) \/ WriteFails(c)))
         /\ WF_connectionVars(stage = "connections" /\ Destroyed(c))
         /\ WF_connectionVars(stage = "connections" /\ ReleaseProtocol(c))

NetworkSpec == NetworkInit /\ [][NetworkNext]_networkVars /\ NetworkFairness

=============================================================================
