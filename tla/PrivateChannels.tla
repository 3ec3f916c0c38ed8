--------------------------- MODULE PrivateChannels ---------------------------
(***************************************************************************)
(* Private chat channels: a premium player opens one, invites, excludes;   *)
(* the invited join and leave.  The channel knows its owner by a guid, its *)
(* invited and its users by pointers to Player objects, and its id is the  *)
(* first that is free, used again after it.                                *)
(***************************************************************************)
EXTENDS Players

CONSTANT LastSlot       \* of the ids from 100, 9999 in the code

FirstSlot == 100

ASSUME PrivateAssumption == LastSlot \in Nat

VARIABLE privateChannels    \* Chat::privateChannels, by id

privateVars == <<online, privateChannels>>

Closed == [owner |-> NoPlayer, invites |-> {}, users |-> {}]

Slots == FirstSlot..LastSlot

PrivateInit == online = {} /\ privateChannels = [n \in Slots |-> Closed]

-----------------------------------------------------------------------------
\* Chat::getPrivateChannel, as the set of what the loop could return
ChannelsOf(p) == {n \in Slots : privateChannels[n].owner = p}

IsInvited(n, p) == p \in privateChannels[n].invites \cup {privateChannels[n].owner}

Dropped(c, p) == [owner |-> c.owner, invites |-> c.invites \ {p}, users |-> c.users \ {p}]

\* mutant: the invitation of a player who leaves the game is forgotten
RemoveUserOnly(p) ==
    [n \in Slots |->
       LET c == privateChannels[n]
       IN  IF c.owner = p THEN Closed ELSE [c EXCEPT !.users = @ \ {p}]]

RemoveUserFromAllChannels(p) ==
    [n \in Slots |->
       LET c == privateChannels[n]
       IN  IF c.owner = p THEN Closed ELSE Dropped(c, p)]

ChatterLogin(p) ==
    /\ p \notin online
    /\ online' = online \cup {p}
    /\ UNCHANGED privateChannels

ChatterLogout(p) ==
    /\ p \in online
    /\ online' = online \ {p}
    /\ privateChannels' = RemoveUserFromAllChannels(p)

\* ProtocolGame::connect, of a new client to a player in the game
ChatterReconnects(p) ==
    /\ p \in online
    /\ privateChannels' = RemoveUserFromAllChannels(p)
    /\ UNCHANGED online

PlayerCreatePrivateChannel(p) ==
    /\ p \in online \cap Premium
    /\ ChannelsOf(p) = {}
    /\ LET free == {n \in Slots : privateChannels[n].owner = NoPlayer}
       IN  /\ free # {}
           /\ privateChannels' = [privateChannels EXCEPT
                ![Min(free)] = [owner |-> p, invites |-> {}, users |-> {p}]]
    /\ UNCHANGED online

PlayerChannelInvite(p, q) ==
    /\ {p, q} \subseteq online /\ p # q
    /\ \E n \in ChannelsOf(p) :
         privateChannels' = [privateChannels EXCEPT ![n].invites = @ \cup {q}]
    /\ UNCHANGED online

PlayerChannelExclude(p, q) ==
    /\ {p, q} \subseteq online /\ p # q
    /\ \E n \in ChannelsOf(p) :
         /\ q \in privateChannels[n].invites
         /\ privateChannels' = [privateChannels EXCEPT ![n] = Dropped(@, q)]
    /\ UNCHANGED online

PlayerOpenChannel(p, n) ==
    /\ p \in online
    /\ privateChannels[n].owner # NoPlayer
    /\ IsInvited(n, p)
    /\ privateChannels' = [privateChannels EXCEPT ![n].users = @ \cup {p}]
    /\ UNCHANGED online

\* An owner who closes the window deletes the channel.
PlayerCloseChannel(p, n) ==
    /\ p \in online
    /\ IsInvited(n, p)
    /\ p \in privateChannels[n].users
    /\ LET c == privateChannels[n]
       IN  privateChannels' = [privateChannels EXCEPT ![n] =
               IF c.owner = p THEN Closed ELSE [c EXCEPT !.users = @ \ {p}]]
    /\ UNCHANGED online

PrivateNext ==
    \E p \in Players :
        \/ ChatterLogin(p) \/ ChatterLogout(p) \/ ChatterReconnects(p)
        \/ PlayerCreatePrivateChannel(p)
        \/ \E q \in Players : PlayerChannelInvite(p, q) \/ PlayerChannelExclude(p, q)
        \/ \E n \in Slots : PlayerOpenChannel(p, n) \/ PlayerCloseChannel(p, n)

PrivateSpec == PrivateInit /\ [][PrivateNext]_privateVars

-----------------------------------------------------------------------------
\* A channel has one owner in the game, who has no other, and only the owner
\* and the invited hear it; whoever has left the game, or was excluded, is out
\* of it, so that none of its pointers outlives a Player.
ChannelsKnowOnline ==
    \A n \in Slots :
        LET c == privateChannels[n]
        IN  /\ c.owner \in online \cup {NoPlayer}
            /\ c.invites \subseteq online \ {c.owner}
            /\ c.users \subseteq c.invites \cup {c.owner}
            /\ c.owner = NoPlayer => c.users = {}
            /\ c.owner # NoPlayer => ChannelsOf(c.owner) = {n}

=============================================================================
