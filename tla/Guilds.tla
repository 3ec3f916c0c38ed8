------------------------------- MODULE Guilds -------------------------------
(***************************************************************************)
(* Guild objects: loaded with the first member to log in, shared by the    *)
(* members by pointer, deleted with the last to leave.                     *)
(***************************************************************************)
EXTENDS Players

CONSTANTS Guilds, NoGuild

ASSUME GuildAssumption == NoGuild \notin Guilds

VARIABLES
    guildOf,            \* Player::guild
    guilds,             \* Game::guilds: the guilds in memory
    membersOnline,      \* of each
    guildChannels       \* Chat::guildChannels: their users, by guild id

guildVars == <<online, guildOf, guilds, membersOnline, guildChannels>>

GuildInit ==
    /\ online = {}
    /\ guildOf = [p \in Players |-> NoGuild]
    /\ guilds = {}
    /\ membersOnline = [g \in Guilds |-> {}]
    /\ guildChannels = [g \in Guilds |-> {}]

-----------------------------------------------------------------------------
\* removeMember on the given member lists; the last one deletes the guild
RemoveMember(p, g, members) ==
    /\ membersOnline' = [members EXCEPT ![g] = @ \ {p}]
    /\ guilds' = IF membersOnline'[g] = {} THEN guilds \ {g} ELSE guilds

\* The guild is what the database says at this login, its ranks complete.
\* onCreatureAppear of the same call adds the member.
MemberLogin(p, g) ==
    /\ p \notin online
    /\ online' = online \cup {p}
    /\ guildOf' = [guildOf EXCEPT ![p] = g]
    /\ IF g = NoGuild THEN UNCHANGED <<guilds, membersOnline>>
       ELSE /\ guilds' = guilds \cup {g}
            /\ membersOnline' = [membersOnline EXCEPT ![g] = @ \cup {p}]
    /\ UNCHANGED guildChannels

MemberLogout(p) ==
    /\ p \in online
    /\ online' = online \ {p}
    /\ guildChannels' = [g \in Guilds |-> guildChannels[g] \ {p}]
    /\ IF guildOf[p] = NoGuild THEN UNCHANGED <<guilds, membersOnline>>
       ELSE RemoveMember(p, guildOf[p], membersOnline)
    /\ guildOf' = [guildOf EXCEPT ![p] = NoGuild]   \* the object is gone

\* mutant: who changes guilds stays a member of the first
JoinOnly(p, g) ==
    /\ p \in online /\ g \in guilds \cup {NoGuild} /\ g # guildOf[p]
    /\ guildOf' = [guildOf EXCEPT ![p] = g]
    /\ membersOnline' = IF g = NoGuild THEN membersOnline
                        ELSE [membersOnline EXCEPT ![g] = @ \cup {p}]
    /\ UNCHANGED <<online, guilds, guildChannels>>

\* setGuild, of scripts, to a guild in memory or to none
SetGuild(p, g) ==
    /\ p \in online
    /\ g \in guilds \cup {NoGuild}
    /\ g # guildOf[p]
    /\ guildOf' = [guildOf EXCEPT ![p] = g]
    /\ LET joined == IF g = NoGuild THEN membersOnline
                     ELSE [membersOnline EXCEPT ![g] = @ \cup {p}]
       IN  IF guildOf[p] = NoGuild THEN membersOnline' = joined /\ UNCHANGED guilds
           ELSE RemoveMember(p, guildOf[p], joined)
    /\ UNCHANGED <<online, guildChannels>>

PlayerOpenGuildChannel(p) ==
    /\ p \in online
    /\ guildOf[p] # NoGuild
    /\ guildChannels' = [guildChannels EXCEPT ![guildOf[p]] = @ \cup {p}]
    /\ UNCHANGED <<online, guildOf, guilds, membersOnline>>

PlayerCloseGuildChannel(p) ==
    /\ p \in online
    /\ guildOf[p] # NoGuild
    /\ guildChannels' = [guildChannels EXCEPT ![guildOf[p]] = @ \ {p}]
    /\ UNCHANGED <<online, guildOf, guilds, membersOnline>>

\* ProtocolGame::connect
MemberReconnects(p) ==
    /\ p \in online
    /\ guildChannels' = [g \in Guilds |-> guildChannels[g] \ {p}]
    /\ UNCHANGED <<online, guildOf, guilds, membersOnline>>

GuildNext ==
    \E p \in Players :
        \/ MemberLogout(p) \/ MemberReconnects(p)
        \/ PlayerOpenGuildChannel(p) \/ PlayerCloseGuildChannel(p)
        \/ \E g \in Guilds \cup {NoGuild} : MemberLogin(p, g) \/ SetGuild(p, g)

GuildSpec == GuildInit /\ [][GuildNext]_guildVars

-----------------------------------------------------------------------------
\* A guild is in memory as long as someone points to it, and no longer; it
\* lists the players in the game who point to it, and no one else.
GuildsSharedByMembers ==
    /\ guilds = {g \in Guilds : membersOnline[g] # {}}
    /\ \A g \in Guilds : membersOnline[g] = {p \in online : guildOf[p] = g}

\* A channel keeps its users when its guild is deleted and loaded again, or
\* when they change guilds; none of them has left the game.
GuildChannelsKnowOnline == \A g \in Guilds : guildChannels[g] \subseteq online

\* Members, the count of them and the channel of their guild agree, across
\* changes of guild, logins and logouts (setGuild, removeMember).
GuildsAgree == GuildsSharedByMembers /\ GuildChannelsKnowOnline

=============================================================================
