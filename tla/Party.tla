-------------------------------- MODULE Party --------------------------------
(***************************************************************************)
(* Parties, their shared experience and their chat channel.                *)
(*                                                                         *)
(* A Party object is known by its address: a leader creates it, disband    *)
(* deletes it, and a later one may come to lie at the same address.  The   *)
(* members know it by Player::party, the invited by a list of their own,   *)
(* and the chat keeps a channel under its address.                         *)
(***************************************************************************)
EXTENDS Players

CONSTANTS
    Parties,            \* addresses
    NoParty,            \* a null pointer
    Level               \* the level of each player

ASSUME PartyAssumption ==
    /\ NoParty \notin Parties
    /\ Level \in [Players -> Nat]

VARIABLES
    partyOf,            \* Player::party
    invitations,        \* Player::invitePartyList
    parties,            \* the objects; an address without one holds Freed
    partyChannels       \* Chat::partyChannels: the users by address

partyVars == <<online, partyOf, invitations, parties, partyChannels>>

\* sharedActive is what the leader asked for, sharedEnabled what the members
\* allow: sharedExpActive and sharedExpEnabled
Freed == [leader |-> NoPlayer, members |-> <<>>, invitees |-> {},
          sharedActive |-> FALSE, sharedEnabled |-> FALSE]

Live(x) == parties[x].leader # NoPlayer

PartyInit ==
    /\ online = {}
    /\ partyOf = [p \in Players |-> NoParty]
    /\ invitations = [p \in Players |-> {}]
    /\ parties = [x \in Parties |-> Freed]
    /\ partyChannels = [x \in Parties |-> {}]

-----------------------------------------------------------------------------
(***************************************************************************)
(* The methods of Party, as functions on g, a record of the variables.     *)
(***************************************************************************)
Now == [of |-> partyOf, invited |-> invitations, parties |-> parties,
        channels |-> partyChannels]

Become(g) ==
    /\ partyOf' = g.of
    /\ invitations' = g.invited
    /\ parties' = g.parties
    /\ partyChannels' = g.channels

\* Player::isInviting
IsInviting(g, leader, p) ==
    LET x == g.of[leader]
    IN  x # NoParty /\ g.parties[x].leader = leader /\ p \in g.parties[x].invitees

\* canUseSharedExperience for all; distance and recent fights are not modelled
\* and may forbid what the levels allow.
LevelsFit(leader, members) ==
    LET levels == {Level[p] : p \in {leader} \cup Range(members)}
    IN  members # <<>> /\ \A l \in levels : 3 * l >= 2 * Max(levels)

UpdateSharedExperience(party, able) ==
    IF party.sharedActive
    THEN [party EXCEPT !.sharedEnabled = able /\ LevelsFit(party.leader, party.members)]
    ELSE party

\* sendClosePrivate(CHANNEL_PARTY): the channel is looked up by Player::party
ClosePartyChannel(g, left) ==
    [g EXCEPT !.channels = [x \in Parties |-> @[x] \ {p \in left : g.of[p] = x}]]

\* of those who leave or whose party ends
Dismiss(g, left) ==
    ClosePartyChannel(
        [g EXCEPT !.of = [p \in Players |-> IF p \in left THEN NoParty ELSE g.of[p]]], left)

Company(party) == Range(party.members) \cup {party.leader}

\* of the parties xs, no two of which share a player
Disband(g, xs) ==
    [Dismiss(g, UNION {Company(g.parties[x]) : x \in xs}) EXCEPT
        !.invited = [p \in Players |-> g.invited[p] \ {x \in xs : p \in g.parties[x].invitees}],
        !.parties = [x \in Parties |-> IF x \in xs THEN Freed ELSE g.parties[x]]]

IsEmpty(party) == party.members = <<>> /\ party.invitees = {}

DisbandIf(g, x, condition) == IF condition THEN Disband(g, {x}) ELSE g

PassPartyLeadership(party, p, able) ==
    UpdateSharedExperience(
        [party EXCEPT !.leader = p,
                      !.members = <<party.leader>> \o RemoveFirst(@, p)], able)

\* The member list is read before the leader is replaced: a leader with at
\* most one member and nobody invited ends the party.
MissingLeader(party, p) ==
    /\ party.leader = p
    /\ \/ party.members = <<>>
       \/ Len(party.members) = 1 /\ party.invitees = {}

LeaveParty(g, p, able) ==
    LET x == g.of[p]
        party == g.parties[x]
        passed == IF party.leader = p /\ ~MissingLeader(party, p)
                  THEN PassPartyLeadership(party, Head(party.members), able)
                  ELSE party
        left == UpdateSharedExperience(
                    [passed EXCEPT !.members = RemoveFirst(@, p)], able)
    IN  DisbandIf(Dismiss([g EXCEPT !.parties[x] = left], {p}), x,
                  MissingLeader(party, p) \/ IsEmpty(left))

JoinParty(g, x, p, able) ==
    LET party == g.parties[x]
    IN  [g EXCEPT
            !.of[p] = x,
            !.invited[p] = @ \ {x},
            !.parties[x] = UpdateSharedExperience(
                [party EXCEPT !.members = Append(@, p), !.invitees = @ \ {p}], able)]

\* the constructor
Founded(g, x, p) == [g EXCEPT !.of[p] = x, !.parties[x].leader = p]

InvitePlayer(g, x, p) ==
    IF p \in g.parties[x].invitees THEN g
    ELSE [g EXCEPT !.parties[x].invitees = @ \cup {p},
                   !.invited[p] = @ \cup {x}]

\* of p, from the parties xs; fromPlayer is false for one who is about to clear
\* the whole list
RemoveInvite(g, xs, p, fromPlayer) ==
    LET removed == [x \in Parties |->
                      IF x \in xs THEN [g.parties[x] EXCEPT !.invitees = @ \ {p}]
                      ELSE g.parties[x]]
    IN  Disband([g EXCEPT !.parties = removed,
                          !.invited[p] = IF fromPlayer THEN @ \ xs ELSE @],
                {x \in xs : IsEmpty(removed[x])})

ClearPartyInvitations(g, p) ==
    [RemoveInvite(g, g.invited[p], p, FALSE) EXCEPT !.invited[p] = {}]

-----------------------------------------------------------------------------
(***************************************************************************)
(* The handlers of the client's requests.  A request that finds its guard  *)
(* false does nothing.                                                     *)
(***************************************************************************)
PlayerLogin(p) ==
    /\ p \notin online
    /\ online' = online \cup {p}
    /\ UNCHANGED <<partyOf, invitations, parties, partyChannels>>

\* A first invitation makes the party, wherever the allocator puts it.
PlayerInviteToParty(p, q) ==
    /\ {p, q} \subseteq online
    /\ ~IsInviting(Now, q, p)
    /\ partyOf[q] = NoParty
    /\ \/ /\ partyOf[p] = NoParty
          /\ \E x \in Parties :
                /\ ~Live(x)
                /\ Become(InvitePlayer(Founded(Now, x, p), x, q))
       \/ /\ partyOf[p] # NoParty /\ parties[partyOf[p]].leader = p
          /\ Become(InvitePlayer(Now, partyOf[p], q))
    /\ UNCHANGED online

PlayerJoinParty(p, q) ==
    /\ {p, q} \subseteq online
    /\ IsInviting(Now, q, p)
    /\ partyOf[p] = NoParty
    /\ \E able \in BOOLEAN : Become(JoinParty(Now, partyOf[q], p, able))
    /\ UNCHANGED online

PlayerRevokePartyInvitation(p, q) ==
    /\ {p, q} \subseteq online
    /\ IsInviting(Now, p, q)
    /\ Become(RemoveInvite(Now, {partyOf[p]}, q, TRUE))
    /\ UNCHANGED online

PlayerPassPartyLeadership(p, q) ==
    /\ {p, q} \subseteq online /\ p # q
    /\ partyOf[p] # NoParty /\ partyOf[p] = partyOf[q]
    /\ parties[partyOf[p]].leader = p
    /\ \E able \in BOOLEAN :
         parties' = [parties EXCEPT ![partyOf[p]] = PassPartyLeadership(@, q, able)]
    /\ UNCHANGED <<online, partyOf, invitations, partyChannels>>

\* not in a fight
PlayerLeaveParty(p) ==
    /\ p \in online
    /\ partyOf[p] # NoParty
    /\ \E able \in BOOLEAN : Become(LeaveParty(Now, p, able))
    /\ UNCHANGED online

PlayerEnableSharedPartyExperience(p, active) ==
    /\ p \in online
    /\ partyOf[p] # NoParty
    /\ LET party == parties[partyOf[p]]
       IN  /\ party.leader = p
           /\ party.sharedActive # active
           /\ \E able \in BOOLEAN :
                parties' = [parties EXCEPT ![partyOf[p]] =
                    UpdateSharedExperience([party EXCEPT !.sharedActive = active], able)]
    /\ UNCHANGED <<online, partyOf, invitations, partyChannels>>

\* a step, a hit or a new level of a member
MemberActs(p) ==
    /\ p \in online
    /\ partyOf[p] # NoParty
    /\ \E able \in BOOLEAN :
         parties' = [parties EXCEPT ![partyOf[p]] = UpdateSharedExperience(@, able)]
    /\ UNCHANGED <<online, partyOf, invitations, partyChannels>>

PlayerOpenPartyChannel(p) ==
    /\ p \in online
    /\ partyOf[p] # NoParty
    /\ partyChannels' = [partyChannels EXCEPT ![partyOf[p]] = @ \cup {p}]
    /\ UNCHANGED <<online, partyOf, invitations, parties>>

PlayerClosePartyChannel(p) ==
    /\ p \in online
    /\ Become(ClosePartyChannel(Now, {p}))
    /\ UNCHANGED online

\* ProtocolGame::connect, of a new client to a player in the game
PartyMemberReconnects(p) ==
    /\ p \in online
    /\ partyChannels' = [x \in Parties |-> partyChannels[x] \ {p}]
    /\ UNCHANGED <<online, partyOf, invitations, parties>>

\* mutant: whoever left a party in the game is still in its channel
RemovedFromPartyOnly(g, p, able) ==
    LET cleared == ClearPartyInvitations(g, p)
    IN  IF cleared.of[p] = NoParty THEN cleared ELSE LeaveParty(cleared, p, able)

\* Player::onRemoveCreature: of a logout, a kick and a death
Removed(g, p, able) ==
    LET cleared == ClearPartyInvitations(g, p)
        left == IF cleared.of[p] = NoParty THEN cleared ELSE LeaveParty(cleared, p, able)
    IN  [left EXCEPT !.channels = [x \in Parties |-> @[x] \ {p}]]

PlayerLogout(p) ==
    /\ p \in online
    /\ online' = online \ {p}
    /\ \E able \in BOOLEAN : Become(Removed(Now, p, able))

PartyNext ==
    \E p \in Players :
        \/ PlayerLogin(p) \/ PartyMemberReconnects(p) \/ PlayerLogout(p)
        \/ PlayerLeaveParty(p) \/ MemberActs(p)
        \/ PlayerOpenPartyChannel(p) \/ PlayerClosePartyChannel(p)
        \/ \E active \in BOOLEAN : PlayerEnableSharedPartyExperience(p, active)
        \/ \E q \in Players :
              \/ PlayerInviteToParty(p, q) \/ PlayerJoinParty(p, q)
              \/ PlayerRevokePartyInvitation(p, q)
              \/ PlayerPassPartyLeadership(p, q)

PartySpec == PartyInit /\ [][PartyNext]_partyVars

-----------------------------------------------------------------------------
(***************************************************************************)
(* Properties.                                                             *)
(***************************************************************************)
InParty(x) == Company(parties[x])

\* Party and player know each other, as member and as invited, each once; what
\* joinParty, leaveParty, passPartyLeadership, removeInvite and disband write
\* on both sides agrees.
PartySymmetric ==
    \A x \in Parties, p \in Players :
        /\ partyOf[p] = x <=> p \in InParty(x)
        /\ x \in invitations[p] <=> p \in parties[x].invitees
        /\ parties[x].leader \notin Range(parties[x].members)
        /\ IsInjective(parties[x].members)

\* Nobody refers to a player who has been removed, not even the channel of a
\* party they have left.
PartyKnowsOnline ==
    \A x \in Parties :
        parties[x].members # <<>> \/ parties[x].invitees # {} \/ partyChannels[x] # {}
        => (InParty(x) \ {NoPlayer}) \cup parties[x].invitees \cup partyChannels[x]
               \subseteq online

\* A party of one, with nobody invited, does not stay.
PartyHasCompany == \A x \in Parties : Live(x) => ~IsEmpty(parties[x])

\* Who shares experience has two thirds of the highest level, whoever has
\* joined, left or taken the lead since the leader asked for it.
SharedLevelsFit ==
    \A x \in Parties :
        parties[x].sharedActive /\ parties[x].sharedEnabled
        => LevelsFit(parties[x].leader, parties[x].members)

\* A party and the players it names agree, each of them is in the game, a
\* party nobody else is in is disbanded, and experience is shared only within
\* the levels (leaveParty, removeInvite, disband, updateSharedExperience).
PartyAgrees == PartySymmetric /\ PartyKnowsOnline /\ PartyHasCompany /\ SharedLevelsFit

=============================================================================
