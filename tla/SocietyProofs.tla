---------------------------- MODULE SocietyProofs ----------------------------
(***************************************************************************)
(* What players have with each other, for every set of players, ids,       *)
(* guilds and things: the chat's private channels know players in the game *)
(* only, a guild and its members agree, so do a party and its players, and *)
(* so do two who trade, whose offers stay what they were.                  *)
(* The market makes and loses nothing, for any players and offers.  And a  *)
(* client shows the tiles in sight as they are, for any tiles, creatures   *)
(* and items.                                                              *)
(***************************************************************************)
EXTENDS MCSociety, Market, Facts

-----------------------------------------------------------------------------
(***************************************************************************)
(* Private channels.                                                       *)
(***************************************************************************)

\* The values of the variables of the private channels.
PrivateTypes ==
    /\ online \subseteq Players
    /\ privateChannels \in [Slots -> [owner : Players \cup {NoPlayer},
                                      invites : SUBSET Players, users : SUBSET Players]]

\* Two ids of one owner are one id.
OneChannelEach ==
    \A m, n \in Slots :
        /\ privateChannels[m].owner # NoPlayer
        /\ privateChannels[m].owner = privateChannels[n].owner
        => m = n

\* Channel c names players in the game, and who hears it may.
Knows(c, players) ==
    /\ c.owner \in players \cup {NoPlayer}
    /\ c.invites \subseteq players \ {c.owner}
    /\ c.users \subseteq c.invites \cup {c.owner}
    /\ c.owner = NoPlayer => c.users = {}

PrivateInv ==
    /\ PrivateTypes
    /\ \A n \in Slots : Knows(privateChannels[n], online)
    /\ OneChannelEach

\* The least id of a set of them is one of them, as Chat::createChannel finds it.
LEMMA FirstFree ==
    ASSUME NEW free \in SUBSET Slots, free # {}
    PROVE  Min(free) \in free
<1>1. Slots \subseteq Nat
  BY PrivateAssumption DEF Slots, FirstSlot
<1>2. \E i \in free : \A j \in free : i <= j
  BY <1>1, LeastElement
<1> QED
  BY <1>2 DEF Min

\* Writing one channel keeps the invariant when the channel does, and brings
\* no second one to an owner.
LEMMA ChannelWritten ==
    ASSUME PrivateInv, UNCHANGED online, NEW n \in Slots,
           NEW c \in [owner : Players \cup {NoPlayer},
                      invites : SUBSET Players, users : SUBSET Players],
           privateChannels' = [privateChannels EXCEPT ![n] = c],
           Knows(c, online),
           c.owner # NoPlayer =>
             \A m \in Slots \ {n} : privateChannels[m].owner # c.owner
    PROVE  PrivateInv'
<1>1. PrivateTypes'
  BY DEF PrivateInv, PrivateTypes
<1>2. \A m \in Slots : privateChannels'[m] = IF m = n THEN c ELSE privateChannels[m]
  BY DEF PrivateInv, PrivateTypes
<1>3. \A m \in Slots : Knows(privateChannels'[m], online)
  BY <1>2 DEF PrivateInv
<1>4. OneChannelEach'
  <2> SUFFICES ASSUME NEW k \in Slots, NEW m \in Slots,
                      privateChannels'[k].owner # NoPlayer,
                      privateChannels'[k].owner = privateChannels'[m].owner
               PROVE  k = m
    BY DEF OneChannelEach
  <2> QED
    BY <1>2 DEF PrivateInv, OneChannelEach
<1> QED
  BY <1>1, <1>3, <1>4 DEF PrivateInv

\* A player taken out of every channel, with the one of their own deleted.
LEMMA UserRemoved ==
    ASSUME PrivateInv, NEW p \in Players, online' \in {online, online \ {p}},
           privateChannels' = RemoveUserFromAllChannels(p)
    PROVE  PrivateInv'
<1>1. \A n \in Slots : privateChannels'[n] =
         IF privateChannels[n].owner = p THEN Closed ELSE Dropped(privateChannels[n], p)
  BY DEF RemoveUserFromAllChannels
<1> DEFINE Channel == [owner : Players \cup {NoPlayer},
                       invites : SUBSET Players, users : SUBSET Players]
<1>2. ASSUME NEW n \in Slots
      PROVE  /\ privateChannels'[n] \in Channel
             /\ Knows(privateChannels'[n], online')
             /\ privateChannels'[n].owner \in {NoPlayer, privateChannels[n].owner}
  <2>1. PICK d \in Channel : d = privateChannels[n]
    BY DEF PrivateInv, PrivateTypes
  <2>2. Knows(d, online) /\ p # NoPlayer /\ online' \in {online, online \ {p}}
    BY <2>1, PlayersAssumption DEF PrivateInv
  <2>3. CASE d.owner = p
    <3>1. privateChannels'[n] = Closed
      BY <1>1, <2>1, <2>3
    <3>2. Closed \in Channel /\ Closed.owner = NoPlayer /\ Knows(Closed, online')
      BY DEF Closed, Knows
    <3> QED
      BY <3>1, <3>2
  <2>4. CASE d.owner # p
    <3>1. privateChannels'[n] = Dropped(d, p)
      BY <1>1, <2>1, <2>4
    <3>2. Dropped(d, p) \in Channel /\ Dropped(d, p).owner = d.owner
      BY DEF Dropped
    <3>3. Knows(Dropped(d, p), online')
      BY <2>2, <2>4 DEF Dropped, Knows
    <3> QED
      BY <2>1, <3>1, <3>2, <3>3
  <2> QED
    BY <2>3, <2>4
<1>3. PrivateTypes'
  <2>1. online' \subseteq Players
    BY DEF PrivateInv, PrivateTypes
  <2>2. privateChannels' \in [Slots -> Channel]
    BY <1>2 DEF RemoveUserFromAllChannels
  <2> QED
    BY <2>1, <2>2 DEF PrivateTypes
<1>4. OneChannelEach'
  BY <1>2 DEF PrivateInv, OneChannelEach
<1> QED
  BY <1>2, <1>3, <1>4 DEF PrivateInv

\* The invariant holds in every step.
LEMMA PrivateStep == PrivateInv /\ [PrivateNext]_privateVars => PrivateInv'
<1> SUFFICES ASSUME PrivateInv, [PrivateNext]_privateVars PROVE PrivateInv'
  OBVIOUS
<1>t. /\ PrivateTypes
      /\ \A n \in Slots : Knows(privateChannels[n], online)
      /\ OneChannelEach
  BY DEF PrivateInv
<1>0. NoPlayer \notin Players
  BY PlayersAssumption
<1> DEFINE Channel == [owner : Players \cup {NoPlayer},
                       invites : SUBSET Players, users : SUBSET Players]
<1>1. ASSUME NEW p \in Players, ChatterLogin(p) PROVE PrivateInv'
  <2>1. online' = online \cup {p} /\ privateChannels' = privateChannels
    BY <1>1 DEF ChatterLogin
  <2>2. PrivateTypes'
    BY <2>1, <1>t DEF PrivateTypes
  <2>3. \A n \in Slots : Knows(privateChannels'[n], online')
    BY <2>1, <1>t DEF Knows
  <2>4. OneChannelEach'
    BY <2>1, <1>t DEF OneChannelEach
  <2> QED
    BY <2>2, <2>3, <2>4 DEF PrivateInv
<1>2. ASSUME NEW p \in Players, ChatterLogout(p) PROVE PrivateInv'
  BY <1>2, UserRemoved DEF ChatterLogout
<1>3. ASSUME NEW p \in Players, ChatterReconnects(p) PROVE PrivateInv'
  BY <1>3, UserRemoved DEF ChatterReconnects
<1>4. ASSUME NEW p \in Players, PlayerCreatePrivateChannel(p) PROVE PrivateInv'
  <2> DEFINE free == {n \in Slots : privateChannels[n].owner = NoPlayer}
             c == [owner |-> p, invites |-> {}, users |-> {p}]
  <2>1. Min(free) \in free
    <3> HIDE DEF free
    <3>1. free # {} /\ free \subseteq Slots
      BY <1>4 DEF PlayerCreatePrivateChannel, free
    <3> QED
      BY <3>1, FirstFree
  <2>2. PICK n \in Slots : n = Min(free)
    BY <2>1
  <2>3. privateChannels' = [privateChannels EXCEPT ![n] = c] /\ UNCHANGED online
    BY <1>4, <2>2 DEF PlayerCreatePrivateChannel
  <2>4. c \in Channel /\ Knows(c, online)
    BY <1>4, <1>0 DEF PlayerCreatePrivateChannel, Knows
  <2>5. \A m \in Slots \ {n} : privateChannels[m].owner # c.owner
    BY <1>4 DEF PlayerCreatePrivateChannel, ChannelsOf
  <2> HIDE DEF c
  <2> QED
    BY <2>3, <2>4, <2>5, ChannelWritten
<1>5. ASSUME NEW p \in Players, NEW q \in Players, PlayerChannelInvite(p, q) PROVE PrivateInv'
  <2>1. PICK n \in ChannelsOf(p) :
           privateChannels' = [privateChannels EXCEPT ![n].invites = @ \cup {q}]
    BY <1>5 DEF PlayerChannelInvite
  <2>2. n \in Slots /\ privateChannels[n].owner = p /\ p # q /\ q \in online
        /\ UNCHANGED online
    BY <1>5 DEF PlayerChannelInvite, ChannelsOf
  <2>3. PICK d \in Channel : d = privateChannels[n]
    BY <2>2, <1>t DEF PrivateTypes
  <2> DEFINE c == [d EXCEPT !.invites = @ \cup {q}]
  <2>4. privateChannels' = [privateChannels EXCEPT ![n] = c]
    BY <2>1, <2>3
  <2>5. c \in Channel /\ c.owner = d.owner /\ Knows(c, online)
    BY <2>2, <2>3, <1>t DEF Knows
  <2>6. c.owner # NoPlayer => \A m \in Slots \ {n} : privateChannels[m].owner # c.owner
    BY <2>2, <2>3, <2>5, <1>t DEF OneChannelEach
  <2> HIDE DEF c
  <2> QED
    BY <2>2, <2>4, <2>5, <2>6, ChannelWritten
<1>6. ASSUME NEW p \in Players, NEW q \in Players, PlayerChannelExclude(p, q) PROVE PrivateInv'
  <2>1. PICK n \in ChannelsOf(p) :
           privateChannels' = [privateChannels EXCEPT ![n] = Dropped(@, q)]
    BY <1>6 DEF PlayerChannelExclude
  <2>2. n \in Slots /\ privateChannels[n].owner = p /\ p # q /\ UNCHANGED online
    BY <1>6 DEF PlayerChannelExclude, ChannelsOf
  <2>3. PICK d \in Channel : d = privateChannels[n]
    BY <2>2, <1>t DEF PrivateTypes
  <2> DEFINE c == Dropped(d, q)
  <2>4. privateChannels' = [privateChannels EXCEPT ![n] = c]
    BY <2>1, <2>3
  <2>5. c \in Channel /\ c.owner = d.owner /\ Knows(c, online)
    BY <2>2, <2>3, <1>0, <1>t DEF Knows, Dropped
  <2>6. c.owner # NoPlayer => \A m \in Slots \ {n} : privateChannels[m].owner # c.owner
    BY <2>2, <2>3, <2>5, <1>t DEF OneChannelEach
  <2> HIDE DEF c
  <2> QED
    BY <2>2, <2>4, <2>5, <2>6, ChannelWritten
<1>7. ASSUME NEW p \in Players, NEW n \in Slots, PlayerOpenChannel(p, n) PROVE PrivateInv'
  <2>2. IsInvited(n, p) /\ UNCHANGED online /\ privateChannels[n].owner # NoPlayer
    BY <1>7 DEF PlayerOpenChannel
  <2>3. PICK d \in Channel : d = privateChannels[n]
    BY <1>t DEF PrivateTypes
  <2> DEFINE c == [d EXCEPT !.users = @ \cup {p}]
  <2>4. privateChannels' = [privateChannels EXCEPT ![n] = c]
    BY <1>7, <2>3 DEF PlayerOpenChannel
  <2>5. c \in Channel /\ c.owner = d.owner /\ Knows(c, online)
    BY <2>2, <2>3, <1>t DEF Knows, IsInvited
  <2>6. c.owner # NoPlayer => \A m \in Slots \ {n} : privateChannels[m].owner # c.owner
    BY <2>3, <2>5, <1>t DEF OneChannelEach
  <2> HIDE DEF c
  <2> QED
    BY <2>2, <2>4, <2>5, <2>6, ChannelWritten
<1>8. ASSUME NEW p \in Players, NEW n \in Slots, PlayerCloseChannel(p, n) PROVE PrivateInv'
  <2>3. PICK d \in Channel : d = privateChannels[n]
    BY <1>t DEF PrivateTypes
  <2> DEFINE c == IF d.owner = p THEN Closed ELSE [d EXCEPT !.users = @ \ {p}]
  <2>4. privateChannels' = [privateChannels EXCEPT ![n] = c] /\ UNCHANGED online
    BY <1>8, <2>3 DEF PlayerCloseChannel
  <2>5. c \in Channel /\ c.owner \in {NoPlayer, d.owner} /\ Knows(c, online)
    BY <2>3, <1>t DEF Knows, Closed
  <2>6. c.owner # NoPlayer => \A m \in Slots \ {n} : privateChannels[m].owner # c.owner
    BY <2>3, <2>5, <1>t DEF OneChannelEach
  <2> HIDE DEF c
  <2> QED
    BY <2>4, <2>5, <2>6, ChannelWritten
<1>9. CASE UNCHANGED privateVars
  BY <1>9, <1>t DEF privateVars, PrivateInv, PrivateTypes, OneChannelEach
<1> QED
  BY <1>1, <1>2, <1>3, <1>4, <1>5, <1>6, <1>7, <1>8, <1>9 DEF PrivateNext

\* No channel is there at the start.
LEMMA PrivateStart == PrivateInit => PrivateInv
  BY DEF PrivateInit, PrivateInv, PrivateTypes, OneChannelEach, Knows, Closed

\* The invariant says what the channels promise.
LEMMA PrivateEnds == PrivateInv => ChannelsKnowOnline
  BY DEF PrivateInv, PrivateTypes, OneChannelEach, Knows, ChannelsKnowOnline, ChannelsOf

-----------------------------------------------------------------------------
(***************************************************************************)
(* Guilds.                                                                 *)
(***************************************************************************)

\* The values of the variables of the guilds.
GuildTypes ==
    /\ online \subseteq Players
    /\ guildOf \in [Players -> Guilds \cup {NoGuild}]
    /\ guilds \subseteq Guilds
    /\ membersOnline \in [Guilds -> SUBSET Players]
    /\ guildChannels \in [Guilds -> SUBSET Players]

GuildInv == GuildTypes /\ GuildsAgree

\* The guilds in memory, guild by guild.
Loaded == \A g \in Guilds : g \in guilds <=> membersOnline[g] # {}

Listed == \A g \in Guilds : membersOnline[g] = {p \in online : guildOf[p] = g}

\* What GuildsSharedByMembers says, guild by guild.
LEMMA SharedWords == guilds \subseteq Guilds => (GuildsSharedByMembers <=> Loaded /\ Listed)
  BY DEF GuildsSharedByMembers, Loaded, Listed

\* A guild's list with one name less; it goes with the last.
LEMMA MemberRemoved ==
    ASSUME GuildTypes, NEW members \in [Guilds -> SUBSET Players], NEW p \in Players,
           NEW g \in Guilds, RemoveMember(p, g, members),
           \A h \in Guilds : h # g => (h \in guilds <=> members[h] # {})
    PROVE  /\ membersOnline' \in [Guilds -> SUBSET Players] /\ guilds' \subseteq Guilds
           /\ \A h \in Guilds :
                membersOnline'[h] = IF h = g THEN members[g] \ {p} ELSE members[h]
           /\ g \in guilds => Loaded'
<1>1. membersOnline' = [members EXCEPT ![g] = @ \ {p}]
  BY DEF RemoveMember
<1>2. membersOnline' \in [Guilds -> SUBSET Players]
      /\ \A h \in Guilds :
            membersOnline'[h] = IF h = g THEN members[g] \ {p} ELSE members[h]
  BY <1>1
<1>3. guilds' = IF membersOnline'[g] = {} THEN guilds \ {g} ELSE guilds
  BY DEF RemoveMember
<1>4. guilds' \subseteq Guilds
  BY <1>3 DEF GuildTypes
<1>5. ASSUME g \in guilds, NEW h \in Guilds
      PROVE  h \in guilds' <=> membersOnline'[h] # {}
  BY <1>2, <1>3, <1>5
<1> QED
  BY <1>2, <1>4, <1>5 DEF Loaded

\* The invariant holds in every step.
LEMMA GuildStep == GuildInv /\ [GuildNext]_guildVars => GuildInv'
<1> SUFFICES ASSUME GuildInv, [GuildNext]_guildVars PROVE GuildInv'
  OBVIOUS
<1>t. /\ online \subseteq Players
      /\ guildOf \in [Players -> Guilds \cup {NoGuild}]
      /\ guilds \subseteq Guilds
      /\ membersOnline \in [Guilds -> SUBSET Players]
      /\ guildChannels \in [Guilds -> SUBSET Players]
      /\ NoGuild \notin Guilds
  BY GuildAssumption DEF GuildInv, GuildTypes
<1>i. /\ \A g \in Guilds : g \in guilds <=> membersOnline[g] # {}
      /\ \A g \in Guilds : membersOnline[g] = {p \in online : guildOf[p] = g}
      /\ \A g \in Guilds : guildChannels[g] \subseteq online
  BY <1>t, SharedWords DEF GuildInv, GuildsAgree, GuildChannelsKnowOnline, Loaded, Listed
\* a step that leaves the lists, the guilds and the players to them
<1>c. ASSUME UNCHANGED <<online, guildOf, guilds, membersOnline>>,
             guildChannels' \in [Guilds -> SUBSET Players],
             \A g \in Guilds : guildChannels'[g] \subseteq online
      PROVE  GuildInv'
  BY <1>t, <1>i, <1>c, SharedWords
     DEF GuildInv, GuildTypes, GuildsAgree, GuildsSharedByMembers, GuildChannelsKnowOnline
\* any step, part by part
<1>p. ASSUME GuildTypes', Loaded', Listed',
             \A g \in Guilds : guildChannels'[g] \subseteq online'
      PROVE  GuildInv'
  <2>1. guilds' \subseteq Guilds
    BY <1>p DEF GuildTypes
  <2>2. GuildsSharedByMembers'
    BY <2>1, <1>p DEF Loaded, Listed, GuildsSharedByMembers
  <2> QED
    BY <2>2, <1>p DEF GuildInv, GuildsAgree, GuildChannelsKnowOnline
<1>1. ASSUME NEW p \in Players, NEW g \in Guilds \cup {NoGuild}, MemberLogin(p, g)
      PROVE  GuildInv'
  <2>1. /\ p \notin online /\ online' = online \cup {p}
        /\ guildOf' = [guildOf EXCEPT ![p] = g] /\ guildChannels' = guildChannels
    BY <1>1 DEF MemberLogin
  <2>2. CASE g = NoGuild
    <3>1. UNCHANGED <<guilds, membersOnline>>
      BY <1>1, <2>2 DEF MemberLogin
    <3>2. GuildTypes' /\ Loaded' /\ \A h \in Guilds : guildChannels'[h] \subseteq online'
      BY <2>1, <3>1, <1>t, <1>i DEF GuildTypes, Loaded
    <3>3. Listed'
      BY <2>1, <2>2, <3>1, <1>t, <1>i DEF Listed
    <3> QED
      BY <3>2, <3>3, <1>p
  <2>3. CASE g # NoGuild
    <3>1. g \in Guilds /\ guilds' = guilds \cup {g}
          /\ membersOnline' = [membersOnline EXCEPT ![g] = @ \cup {p}]
      BY <1>1, <2>3 DEF MemberLogin
    <3>2. \A h \in Guilds : membersOnline'[h] =
             IF h = g THEN membersOnline[g] \cup {p} ELSE membersOnline[h]
      BY <3>1, <1>t
    <3>3. membersOnline' \in [Guilds -> SUBSET Players]
      BY <3>1, <1>t
    <3>4. GuildTypes' /\ \A h \in Guilds : guildChannels'[h] \subseteq online'
      BY <2>1, <3>1, <3>3, <1>t, <1>i DEF GuildTypes
    <3>5. Loaded'
      BY <3>1, <3>2, <1>i DEF Loaded
    <3>6. Listed'
      <4> SUFFICES ASSUME NEW h \in Guilds
                   PROVE  membersOnline'[h] = {q \in online' : guildOf'[q] = h}
        BY DEF Listed
      <4> QED
        BY <2>1, <3>2, <1>t, <1>i
    <3> QED
      BY <3>4, <3>5, <3>6, <1>p
  <2> QED
    BY <2>2, <2>3
<1>2. ASSUME NEW p \in Players, MemberLogout(p)
      PROVE  GuildInv'
  <2>1. /\ p \in online /\ online' = online \ {p}
        /\ guildOf' = [guildOf EXCEPT ![p] = NoGuild]
        /\ guildChannels' = [g \in Guilds |-> guildChannels[g] \ {p}]
    BY <1>2 DEF MemberLogout
  <2>c. \A h \in Guilds : guildChannels'[h] \subseteq online'
    BY <2>1, <1>i
  <2>2. CASE guildOf[p] = NoGuild
    <3>1. UNCHANGED <<guilds, membersOnline>>
      BY <1>2, <2>2 DEF MemberLogout
    <3>2. GuildTypes' /\ Loaded'
      BY <2>1, <3>1, <1>t, <1>i DEF GuildTypes, Loaded
    <3>3. Listed'
      BY <2>1, <2>2, <3>1, <1>t, <1>i DEF Listed
    <3> QED
      BY <2>c, <3>2, <3>3, <1>p
  <2>3. CASE guildOf[p] # NoGuild
    <3>1. PICK g \in Guilds : g = guildOf[p]
      BY <2>3, <1>t
    <3>2. RemoveMember(p, g, membersOnline)
      BY <1>2, <2>3, <3>1 DEF MemberLogout
    <3>3. GuildTypes /\ g \in guilds
      BY <2>1, <3>1, <1>i DEF GuildInv
    <3>4. /\ membersOnline' \in [Guilds -> SUBSET Players] /\ guilds' \subseteq Guilds
          /\ \A h \in Guilds : membersOnline'[h] =
                IF h = g THEN membersOnline[g] \ {p} ELSE membersOnline[h]
          /\ Loaded'
      <4>1. PICK members \in [Guilds -> SUBSET Players] : members = membersOnline
        BY <1>t
      <4>2. \A h \in Guilds : h # g => (h \in guilds <=> members[h] # {})
        BY <4>1, <1>i
      <4>3. RemoveMember(p, g, members)
        BY <3>2, <4>1
      <4>4. /\ membersOnline' \in [Guilds -> SUBSET Players] /\ guilds' \subseteq Guilds
            /\ \A h \in Guilds :
                 membersOnline'[h] = IF h = g THEN members[g] \ {p} ELSE members[h]
            /\ g \in guilds => Loaded'
        BY <3>3, <4>2, <4>3, MemberRemoved
      <4> QED
        BY <3>3, <4>1, <4>4
    <3>5. GuildTypes'
      BY <2>1, <3>4, <1>t DEF GuildTypes
    <3>6. Listed'
      <4> SUFFICES ASSUME NEW h \in Guilds
                   PROVE  membersOnline'[h] = {q \in online' : guildOf'[q] = h}
        BY DEF Listed
      <4> QED
        BY <2>1, <3>1, <3>4, <1>t, <1>i
    <3> QED
      BY <2>c, <3>4, <3>5, <3>6, <1>p
  <2> QED
    BY <2>2, <2>3
<1>3. ASSUME NEW p \in Players, NEW g \in Guilds \cup {NoGuild}, SetGuild(p, g)
      PROVE  GuildInv'
  <2> DEFINE joined == IF g = NoGuild THEN membersOnline
                       ELSE [membersOnline EXCEPT ![g] = @ \cup {p}]
  <2>1. /\ p \in online /\ g \in guilds \cup {NoGuild} /\ g # guildOf[p]
        /\ guildOf' = [guildOf EXCEPT ![p] = g]
        /\ UNCHANGED <<online, guildChannels>>
        /\ IF guildOf[p] = NoGuild THEN membersOnline' = joined /\ UNCHANGED guilds
           ELSE RemoveMember(p, guildOf[p], joined)
    BY <1>3 DEF SetGuild
  <2>2. /\ joined \in [Guilds -> SUBSET Players]
        /\ \A h \in Guilds : joined[h] =
              IF h = g THEN membersOnline[h] \cup {p} ELSE membersOnline[h]
    BY <1>t
  <2>3. PICK members \in [Guilds -> SUBSET Players] : members = joined
    BY <2>2
  <2>4. \A h \in Guilds : h \in guilds <=> members[h] # {}
    BY <2>1, <2>2, <2>3, <1>i
  <2> HIDE DEF joined
  <2>5. CASE guildOf[p] = NoGuild
    <3>1. membersOnline' = members /\ UNCHANGED guilds
      BY <2>1, <2>3, <2>5
    <3>2. GuildTypes' /\ Loaded'
      BY <2>1, <2>4, <3>1, <1>t DEF GuildTypes, Loaded
    <3>3. Listed'
      <4> SUFFICES ASSUME NEW h \in Guilds
                   PROVE  membersOnline'[h] = {q \in online' : guildOf'[q] = h}
        BY DEF Listed
      <4> QED
        BY <2>1, <2>2, <2>3, <2>5, <3>1, <1>t, <1>i
    <3> QED
      BY <2>1, <3>2, <3>3, <1>i, <1>p
  <2>6. CASE guildOf[p] # NoGuild
    <3>1. PICK f \in Guilds : f = guildOf[p]
      BY <2>6, <1>t
    <3>2. RemoveMember(p, f, members)
      BY <2>1, <2>3, <2>6, <3>1
    <3>3. GuildTypes /\ f \in guilds
      BY <2>1, <3>1, <1>i DEF GuildInv
    <3>4. /\ membersOnline' \in [Guilds -> SUBSET Players] /\ guilds' \subseteq Guilds
          /\ \A h \in Guilds : membersOnline'[h] =
                IF h = f THEN members[f] \ {p} ELSE members[h]
          /\ Loaded'
      BY <2>4, <3>2, <3>3, MemberRemoved
    <3>5. GuildTypes'
      BY <2>1, <3>4, <1>t DEF GuildTypes
    <3>6. Listed'
      <4> SUFFICES ASSUME NEW h \in Guilds
                   PROVE  membersOnline'[h] = {q \in online' : guildOf'[q] = h}
        BY DEF Listed
      <4> QED
        BY <2>1, <2>2, <2>3, <3>1, <3>4, <1>t, <1>i
    <3> QED
      BY <2>1, <3>4, <3>5, <3>6, <1>i, <1>p
  <2> QED
    BY <2>5, <2>6
<1>4. ASSUME NEW p \in Players,
             PlayerOpenGuildChannel(p) \/ PlayerCloseGuildChannel(p) \/ MemberReconnects(p)
      PROVE  GuildInv'
  <2>1. UNCHANGED <<online, guildOf, guilds, membersOnline>> /\ p \in online
    BY <1>4 DEF PlayerOpenGuildChannel, PlayerCloseGuildChannel, MemberReconnects
  <2>2. guildChannels' \in [Guilds -> SUBSET Players]
    BY <1>4, <1>t DEF PlayerOpenGuildChannel, PlayerCloseGuildChannel, MemberReconnects
  <2>3. \A g \in Guilds : guildChannels'[g] \subseteq guildChannels[g] \cup {p}
    BY <1>4, <1>t DEF PlayerOpenGuildChannel, PlayerCloseGuildChannel, MemberReconnects
  <2> QED
    BY <2>1, <2>2, <2>3, <1>i, <1>c
<1>5. CASE UNCHANGED guildVars
  BY <1>5, <1>t, <1>i, <1>c DEF guildVars
<1> QED
  BY <1>1, <1>2, <1>3, <1>4, <1>5 DEF GuildNext

\* No guild is in memory at the start.
LEMMA GuildStart == GuildInit => GuildInv
  BY DEF GuildInit, GuildInv, GuildTypes, GuildsAgree, GuildsSharedByMembers,
         GuildChannelsKnowOnline

-----------------------------------------------------------------------------
(***************************************************************************)
(* Parties.  The methods of Party are functions on a record of the four    *)
(* variables, and the lemmas about them speak of any such record.          *)
(***************************************************************************)

\* std::find and erase on a list that holds the element once.
LEMMA FoundErased ==
    ASSUME NEW S, NEW s \in Seq(S), NEW p, NoDuplicate(s), In(p, s)
    PROVE  /\ RemoveFirst(s, p) \in Seq(S)
           /\ NoDuplicate(RemoveFirst(s, p))
           /\ \A u : In(u, RemoveFirst(s, p)) <=> In(u, s) /\ u # p
<1> DEFINE at == {i \in 1..Len(s) : s[i] = p}
<1>1. at # {} /\ at \subseteq Nat /\ \E i \in 1..Len(s) : s[i] = p
  BY DEF In
<1>2. SelectInSeq(s, LAMBDA v : v = p) = Min(at)
  BY <1>1 DEF SelectInSeq
<1>3. Min(at) \in at
  <2> HIDE DEF at
  <2>1. \E i \in at : \A j \in at : i <= j
    BY <1>1, LeastElement
  <2> QED
    BY <2>1 DEF Min
<1>4. PICK k \in at : k = Min(at)
  BY <1>3
<1>5. k \in 1..Len(s) /\ s[k] = p /\ Len(s) \in Nat /\ DOMAIN s = 1..Len(s)
  BY <1>4
<1>6. RemoveFirst(s, p) = RemoveAt(s, k)
  BY <1>1, <1>2, <1>4 DEF RemoveFirst
<1> DEFINE a == SubSeq(s, 1, k - 1)
           b == SubSeq(s, k + 1, Len(s))
           r == a \o b
<1>7. /\ a \in Seq(S) /\ Len(a) = k - 1 /\ \A i \in 1..(k - 1) : a[i] = s[i]
      /\ b \in Seq(S) /\ Len(b) = Len(s) - k /\ \A i \in 1..(Len(s) - k) : b[i] = s[k + i]
  <2>1. /\ a \in Seq(S) /\ Len(a) = IF 1 <= k - 1 THEN (k - 1) - 1 + 1 ELSE 0
        /\ \A i \in 1..((k - 1) - 1 + 1) : a[i] = s[1 + i - 1]
    <3>1. 1 \in Int /\ k - 1 \in Int /\ \A i \in 1..(k - 1) : s[i] \in S
      BY <1>5
    <3> QED
      BY <3>1, SubSeqProperties
  <2>2. /\ b \in Seq(S)
        /\ Len(b) = IF k + 1 <= Len(s) THEN Len(s) - (k + 1) + 1 ELSE 0
        /\ \A i \in 1..(Len(s) - (k + 1) + 1) : b[i] = s[(k + 1) + i - 1]
    <3>1. k + 1 \in Int /\ Len(s) \in Int /\ \A i \in (k + 1)..Len(s) : s[i] \in S
      BY <1>5
    <3> QED
      BY <3>1, SubSeqProperties
  <2> HIDE DEF a, b
  <2>3. Len(a) = k - 1 /\ \A i \in 1..(k - 1) : a[i] = s[i]
    BY <1>5, <2>1
  <2>4. Len(b) = Len(s) - k /\ \A i \in 1..(Len(s) - k) : b[i] = s[k + i]
    <3>1. Len(s) - (k + 1) + 1 = Len(s) - k
      BY <1>5
    <3>2. Len(b) = Len(s) - k
      <4>1. PICK n \in Nat : n = Len(s)
        BY <1>5
      <4>2. Len(b) = IF k + 1 <= n THEN n - (k + 1) + 1 ELSE 0
        BY <2>2, <4>1
      <4>3. k \in 1..n
        BY <1>5, <4>1
      <4> QED
        BY <4>1, <4>2, <4>3
    <3>3. ASSUME NEW i \in 1..(Len(s) - k)
          PROVE  b[i] = s[k + i]
      <4>1. (k + 1) + i - 1 = k + i
        BY <1>5
      <4> QED
        BY <2>2, <3>1, <4>1
    <3> QED
      BY <3>2, <3>3
  <2> QED
    BY <2>1, <2>2, <2>3, <2>4
<1>8. /\ r \in Seq(S) /\ Len(r) = Len(s) - 1 /\ DOMAIN r = 1..(Len(s) - 1)
      /\ \A i \in 1..(Len(s) - 1) : r[i] = IF i < k THEN s[i] ELSE s[i + 1]
  <2> HIDE DEF a, b
  <2>1. r \in Seq(S) /\ Len(r) = Len(s) - 1
    <3>1. r \in Seq(S) /\ Len(r) = Len(a) + Len(b)
      BY <1>7, ConcatProperties
    <3> QED
      BY <3>1, <1>5, <1>7
  <2>2. ASSUME NEW i \in 1..(Len(s) - 1)
        PROVE  r[i] = IF i < k THEN s[i] ELSE s[i + 1]
    <3>1. CASE i < k
      BY <1>5, <1>7, <3>1
    <3>2. CASE ~(i < k)
      <4>1. r[i] = b[i - (k - 1)] /\ i - (k - 1) \in 1..(Len(s) - k)
        BY <1>5, <1>7, <3>2
      <4>2. k + (i - (k - 1)) = i + 1
        BY <1>5
      <4> QED
        BY <1>7, <3>2, <4>1, <4>2
    <3> QED
      BY <3>1, <3>2
  <2> QED
    BY <2>1, <2>2
<1>9. RemoveFirst(s, p) = r
  BY <1>6 DEF RemoveAt
<1> HIDE DEF r
<1>10. NoDuplicate(r)
  <2> SUFFICES ASSUME NEW i \in 1..(Len(s) - 1), NEW j \in 1..(Len(s) - 1), r[i] = r[j]
               PROVE  i = j
    BY <1>8 DEF NoDuplicate
  <2>1. \A m, n \in 1..Len(s) : s[m] = s[n] => m = n
    BY <1>5 DEF NoDuplicate
  <2> QED
    BY <1>5, <1>8, <2>1
<1>11. ASSUME NEW u
       PROVE  In(u, r) <=> In(u, s) /\ u # p
  <2>1. ASSUME In(u, r) PROVE In(u, s) /\ u # p
    <3>1. PICK i \in 1..(Len(s) - 1) : r[i] = u
      BY <2>1, <1>8 DEF In
    <3>2. PICK j \in 1..Len(s) : j # k /\ s[j] = u
      BY <3>1, <1>5, <1>8
    <3> QED
      BY <3>2, <1>5 DEF In, NoDuplicate
  <2>2. ASSUME In(u, s), u # p PROVE In(u, r)
    <3>1. PICK j \in 1..Len(s) : s[j] = u /\ j # k
      BY <2>2, <1>5 DEF In
    <3>2. CASE j < k
      <4>1. j \in 1..(Len(s) - 1) /\ r[j] = u
        BY <3>1, <3>2, <1>5, <1>8
      <4> QED
        BY <4>1, <1>8 DEF In
    <3>3. CASE k < j
      <4>1. j - 1 \in 1..(Len(s) - 1) /\ ~(j - 1 < k) /\ (j - 1) + 1 = j
        BY <3>1, <3>3, <1>5
      <4>2. r[j - 1] = u
        BY <3>1, <4>1, <1>8
      <4> QED
        BY <4>1, <4>2, <1>8 DEF In
    <3> QED
      BY <3>1, <3>2, <3>3, <1>5
  <2> QED
    BY <2>1, <2>2
<1> QED
  BY <1>8, <1>9, <1>10, <1>11

\* std::find and erase on a list that does not hold the element.
LEMMA NothingErased ==
    ASSUME NEW S, NEW s \in Seq(S), NEW p, ~In(p, s)
    PROVE  RemoveFirst(s, p) = s
  BY DEF In, RemoveFirst

\* The values of a party and of the record of the four variables.
PartyRecord == [leader : Players \cup {NoPlayer}, members : Seq(Players),
                invitees : SUBSET Players, sharedActive : BOOLEAN, sharedEnabled : BOOLEAN]

PartyState == [of : [Players -> Parties \cup {NoParty}],
               invited : [Players -> SUBSET Parties],
               parties : [Parties -> PartyRecord],
               channels : [Parties -> SUBSET Players]]

\* A party by itself: who is in it is in it once, an address without a party
\* holds nobody, experience is shared within the levels.
Sound(party) ==
    /\ NoDuplicate(party.members) /\ ~In(party.leader, party.members)
    /\ party.leader = NoPlayer
       => party.members = <<>> /\ party.invitees = {} /\ ~party.sharedActive
    /\ party.sharedActive /\ party.sharedEnabled => LevelsFit(party.leader, party.members)

\* A party as its players see it.
Tied(g, x) ==
    \A p \in Players :
        /\ g.of[p] = x <=> p \in Company(g.parties[x])
        /\ x \in g.invited[p] <=> p \in g.parties[x].invitees

\* Who is in a party, invited, or in a channel is in the game.
Present(g, players) ==
    /\ \A p \in Players : g.of[p] # NoParty \/ g.invited[p] # {} => p \in players
    /\ \A x \in Parties : g.channels[x] \subseteq players

Consistent(g, players) ==
    /\ g \in PartyState
    /\ \A x \in Parties : Sound(g.parties[x]) /\ Tied(g, x)
    /\ Present(g, players)

WithCompany(g) ==
    \A x \in Parties : g.parties[x].leader # NoPlayer => ~IsEmpty(g.parties[x])

\* The company of a party in the words of lists.
LEMMA CompanyIs ==
    ASSUME NEW party, NEW p
    PROVE  p \in Company(party) <=> p = party.leader \/ In(p, party.members)
  BY DEF Company, Range, In

\* updateSharedExperience touches what the members allow, and nothing else.
LEMMA SharedUpdated ==
    ASSUME NEW party \in PartyRecord, NEW able \in BOOLEAN,
           NEW next, next = UpdateSharedExperience(party, able)
    PROVE  /\ next \in PartyRecord
           /\ next.leader = party.leader /\ next.members = party.members
           /\ next.invitees = party.invitees /\ next.sharedActive = party.sharedActive
           /\ next.sharedActive /\ next.sharedEnabled => LevelsFit(next.leader, next.members)
<1> DEFINE fit == able /\ LevelsFit(party.leader, party.members)
           r == [party EXCEPT !.sharedEnabled = fit]
<1>1. fit \in BOOLEAN
  BY DEF LevelsFit
<1>0. fit => LevelsFit(party.leader, party.members)
  OBVIOUS
<1>2. CASE party.sharedActive = TRUE
  <2>1. next = r
    BY <1>2 DEF UpdateSharedExperience
  <2>2. r \in PartyRecord /\ r.sharedEnabled = fit /\ r.leader = party.leader
        /\ r.members = party.members /\ r.invitees = party.invitees
        /\ r.sharedActive = party.sharedActive
    BY <1>1 DEF PartyRecord
  <2> HIDE DEF r
  <2> QED
    BY <1>0, <2>1, <2>2
<1>3. CASE party.sharedActive = FALSE
  BY <1>3 DEF UpdateSharedExperience
<1>4. party.sharedActive = TRUE \/ party.sharedActive = FALSE
  BY DEF PartyRecord
<1> HIDE DEF fit, r
<1> QED
  BY <1>2, <1>3, <1>4

\* Player::setParty(nullptr) for some; nobody leaves a channel, for the channel
\* is looked up by the party they no longer have.
LEMMA Dismissed ==
    ASSUME NEW g \in PartyState, NEW left \in SUBSET Players, NoParty \notin Parties
    PROVE  LET d == Dismiss(g, left)
           IN  /\ d \in PartyState
               /\ \A q \in Players : d.of[q] = IF q \in left THEN NoParty ELSE g.of[q]
               /\ d.invited = g.invited /\ d.parties = g.parties /\ d.channels = g.channels
<1> DEFINE of == [p \in Players |-> IF p \in left THEN NoParty ELSE g.of[p]]
           out == [g EXCEPT !.of = of]
<1>1. of \in [Players -> Parties \cup {NoParty}]
      /\ \A q \in Players : of[q] = IF q \in left THEN NoParty ELSE g.of[q]
  BY DEF PartyState
<1> HIDE DEF of
<1>2. out \in PartyState /\ out.of = of /\ out.invited = g.invited
      /\ out.parties = g.parties /\ out.channels = g.channels
  BY <1>1 DEF PartyState
<1> DEFINE rest == [x \in Parties |-> out.channels[x] \ {p \in left : out.of[p] = x}]
<1>3. rest = g.channels
  <2>1. \A x \in Parties : {p \in left : out.of[p] = x} = {}
    BY <1>1, <1>2
  <2>2. g.channels \in [Parties -> SUBSET Players]
    BY DEF PartyState
  <2> QED
    BY <1>2, <2>1, <2>2
<1>4. Dismiss(g, left) = [out EXCEPT !.channels = rest]
  BY DEF Dismiss, ClosePartyChannel, of
<1> HIDE DEF out, rest
<1>5. LET d == [out EXCEPT !.channels = rest]
      IN  d \in PartyState /\ d.of = out.of /\ d.invited = out.invited
          /\ d.parties = out.parties /\ d.channels = rest
  BY <1>2, <1>3 DEF PartyState
<1> QED
  BY <1>1, <1>2, <1>3, <1>4, <1>5

\* Party::disband, of parties that are there.
LEMMA Disbanded ==
    ASSUME NEW g \in PartyState, NEW xs \in SUBSET Parties, NoParty \notin Parties,
           \A x \in xs : g.parties[x].leader \in Players,
           NEW d, d = Disband(g, xs)
    PROVE  /\ d \in PartyState
           /\ \A q \in Players : d.of[q] =
                 IF \E x \in xs : q \in Company(g.parties[x]) THEN NoParty ELSE g.of[q]
           /\ \A q \in Players :
                 d.invited[q] = g.invited[q] \ {x \in xs : q \in g.parties[x].invitees}
           /\ \A y \in Parties : d.parties[y] = IF y \in xs THEN Freed ELSE g.parties[y]
           /\ d.channels = g.channels
<1> DEFINE left == UNION {Company(g.parties[x]) : x \in xs}
           invited == [p \in Players |->
                         g.invited[p] \ {x \in xs : p \in g.parties[x].invitees}]
           rest == [x \in Parties |-> IF x \in xs THEN Freed ELSE g.parties[x]]
<1>1. left \in SUBSET Players
      /\ \A q : q \in left <=> \E x \in xs : q \in Company(g.parties[x])
  <2>1. ASSUME NEW x \in xs PROVE Company(g.parties[x]) \subseteq Players
    <3>1. g.parties[x].members \in Seq(Players)
      BY DEF PartyState, PartyRecord
    <3> QED
      BY <3>1 DEF Company, Range
  <2> QED
    BY <2>1
<1>2. PICK h \in PartyState :
         /\ h = Dismiss(g, left)
         /\ \A q \in Players : h.of[q] = IF q \in left THEN NoParty ELSE g.of[q]
         /\ h.invited = g.invited /\ h.parties = g.parties /\ h.channels = g.channels
  <2> HIDE DEF left
  <2> QED
    BY <1>1, Dismissed
<1>3. invited \in [Players -> SUBSET Parties]
  BY DEF PartyState
<1>4. rest \in [Parties -> PartyRecord]
  <2>1. Freed \in PartyRecord
    BY DEF Freed, PartyRecord
  <2> QED
    BY <2>1 DEF PartyState
<1>5. d = [h EXCEPT !.invited = invited, !.parties = rest]
  BY <1>2 DEF Disband
<1>6. d \in PartyState /\ d.of = h.of /\ d.invited = invited /\ d.parties = rest
      /\ d.channels = h.channels
  <2> HIDE DEF invited, rest
  <2> QED
    BY <1>3, <1>4, <1>5 DEF PartyState
<1>7. \A q \in Players : d.of[q] =
         IF \E x \in xs : q \in Company(g.parties[x]) THEN NoParty ELSE g.of[q]
  <2> HIDE DEF left
  <2> QED
    BY <1>1, <1>2, <1>6
<1> QED
  BY <1>2, <1>6, <1>7

\* What disband leaves agrees with the players, if the other parties did, and
\* those that end are known to nobody outside them.
LEMMA AfterDisband ==
    ASSUME NEW g \in PartyState, NEW xs \in SUBSET Parties, NEW players, Present(g, players),
           \A x \in xs : g.parties[x].leader \in Players,
           \A y \in Parties \ xs : Sound(g.parties[y]) /\ Tied(g, y),
           \A x \in xs, q \in Players :
              /\ g.of[q] = x => q \in Company(g.parties[x])
              /\ q \in Company(g.parties[x]) => g.of[q] \in {x, NoParty}
              /\ x \in g.invited[q] => q \in g.parties[x].invitees,
           NEW d, d = Disband(g, xs)
    PROVE  /\ Consistent(d, players)
           /\ \A y \in Parties : d.parties[y] = IF y \in xs THEN Freed ELSE g.parties[y]
           /\ \A q \in Players : d.of[q] \in {g.of[q], NoParty} /\ d.invited[q] \subseteq g.invited[q]
<1>0. NoParty \notin Parties /\ NoPlayer \notin Players
  BY PartyAssumption, PlayersAssumption
<1>1. /\ d \in PartyState
      /\ \A q \in Players : d.of[q] =
            IF \E x \in xs : q \in Company(g.parties[x]) THEN NoParty ELSE g.of[q]
      /\ \A q \in Players :
            d.invited[q] = g.invited[q] \ {x \in xs : q \in g.parties[x].invitees}
      /\ \A y \in Parties : d.parties[y] = IF y \in xs THEN Freed ELSE g.parties[y]
      /\ d.channels = g.channels
  BY <1>0, Disbanded
<1>2. ASSUME NEW y \in xs PROVE Sound(d.parties[y]) /\ Tied(d, y)
  <2>1. d.parties[y] = Freed
    BY <1>1, <1>2
  <2>2. Sound(Freed) /\ Company(Freed) = {NoPlayer}
    BY DEF Sound, Freed, NoDuplicate, In, Company, Range
  <2>3. ASSUME NEW q \in Players
        PROVE  d.of[q] # y /\ y \notin d.invited[q] /\ q \notin Freed.invitees
    <3>1. d.of[q] # y
      <4>1. CASE g.of[q] = y
        BY <1>0, <1>1, <1>2, <4>1
      <4>2. CASE g.of[q] # y
        BY <1>0, <1>1, <1>2, <4>2
      <4> QED
        BY <4>1, <4>2
    <3>2. y \notin d.invited[q]
      BY <1>1, <1>2
    <3> QED
      BY <3>1, <3>2 DEF Freed
  <2> QED
    BY <1>0, <2>1, <2>2, <2>3 DEF Tied
<1>3. ASSUME NEW y \in Parties \ xs PROVE Sound(d.parties[y]) /\ Tied(d, y)
  <2>1. d.parties[y] = g.parties[y] /\ Sound(g.parties[y]) /\ Tied(g, y)
    BY <1>1, <1>3
  <2>2. ASSUME NEW q \in Players
        PROVE  (d.of[q] = y <=> g.of[q] = y) /\ (y \in d.invited[q] <=> y \in g.invited[q])
    <3>1. CASE \E x \in xs : q \in Company(g.parties[x])
      <4>1. d.of[q] = NoParty /\ g.of[q] # y
        BY <1>1, <1>3, <3>1, <1>0
      <4> QED
        BY <4>1, <1>0, <1>1, <1>3
    <3>2. CASE ~\E x \in xs : q \in Company(g.parties[x])
      BY <1>1, <1>3, <3>2
    <3> QED
      BY <3>1, <3>2
  <2> QED
    BY <2>1, <2>2 DEF Tied
<1>4. Present(d, players)
  BY <1>1 DEF Present
<1>5. \A q \in Players : d.of[q] \in {g.of[q], NoParty} /\ d.invited[q] \subseteq g.invited[q]
  BY <1>1
<1> QED
  BY <1>1, <1>2, <1>3, <1>4, <1>5 DEF Consistent

\* Who is invited by a party that is there, is invited by its leader.
LEMMA InviterIsThere ==
    ASSUME NEW g, NEW players, Consistent(g, players), NEW x \in Parties,
           \/ g.parties[x].invitees # {}
           \/ \E q \in Players : g.of[q] = x \/ x \in g.invited[q]
    PROVE  g.parties[x].leader \in Players
<1>1. g \in PartyState /\ Sound(g.parties[x]) /\ Tied(g, x)
  BY DEF Consistent
<1>2. g.parties[x] \in PartyRecord
  BY <1>1 DEF PartyState
<1> DEFINE party == g.parties[x]
<1>3. SUFFICES ASSUME party.leader = NoPlayer
               PROVE  FALSE
  BY <1>2 DEF PartyRecord
<1>4. party.members = <<>> /\ party.invitees = {}
  BY <1>1, <1>3 DEF Sound
<1>5. \A q \in Players : q \notin Company(party)
  BY <1>3, <1>4, PlayersAssumption DEF Company, Range
<1> QED
  BY <1>1, <1>4, <1>5 DEF Tied

\* removeInvite of p from parties that have invited them, the two sides at once.
LEMMA InviteRemoved ==
    ASSUME NEW g, NEW players, Consistent(g, players), WithCompany(g),
           NEW p \in Players,
           NEW xs, xs \subseteq {x \in Parties : p \in g.parties[x].invitees},
           NEW d, d = RemoveInvite(g, xs, p, TRUE)
    PROVE  /\ Consistent(d, players) /\ WithCompany(d)
           /\ d.invited[p] \subseteq g.invited[p] \ xs
<1> DEFINE removed == [x \in Parties |->
                         IF x \in xs THEN [g.parties[x] EXCEPT !.invitees = @ \ {p}]
                         ELSE g.parties[x]]
           less == [g.invited EXCEPT ![p] = @ \ xs]
           h == [g EXCEPT !.parties = removed, !.invited[p] = @ \ xs]
           ending == {x \in xs : IsEmpty(removed[x])}
<1>1. g \in PartyState /\ Present(g, players)
      /\ \A x \in Parties : Sound(g.parties[x]) /\ Tied(g, x) /\ g.parties[x] \in PartyRecord
  BY DEF Consistent, PartyState
<1>2. ASSUME NEW x \in Parties
      PROVE  /\ removed[x] \in PartyRecord
             /\ removed[x].leader = g.parties[x].leader
             /\ removed[x].members = g.parties[x].members
             /\ removed[x].sharedActive = g.parties[x].sharedActive
             /\ removed[x].sharedEnabled = g.parties[x].sharedEnabled
             /\ removed[x].invitees = g.parties[x].invitees \ (IF x \in xs THEN {p} ELSE {})
  <2>1. PICK party \in PartyRecord : party = g.parties[x]
    BY <1>1
  <2>2. CASE x \in xs
    <3>1. removed[x] = [party EXCEPT !.invitees = @ \ {p}]
      BY <2>1, <2>2
    <3> HIDE DEF removed
    <3> QED
      BY <2>1, <2>2, <3>1 DEF PartyRecord
  <2>3. CASE x \notin xs
    BY <2>1, <2>3
  <2> QED
    BY <2>2, <2>3
<1>3. removed \in [Parties -> PartyRecord] /\ less \in [Players -> SUBSET Parties]
      /\ \A q \in Players : less[q] = g.invited[q] \ (IF q = p THEN xs ELSE {})
  <2>1. g.invited \in [Players -> SUBSET Parties]
    BY <1>1 DEF PartyState
  <2> QED
    BY <1>2, <2>1
<1>4. d = Disband(h, ending)
  BY DEF RemoveInvite
<1> HIDE DEF removed
<1>5. h \in PartyState /\ h.of = g.of /\ h.channels = g.channels
      /\ h.parties = removed /\ h.invited = less
  BY <1>1, <1>3 DEF PartyState
<1> HIDE DEF h, less
<1>6. ending \in SUBSET Parties
  OBVIOUS
<1>7. ASSUME NEW x \in Parties
      PROVE  /\ Company(h.parties[x]) = Company(g.parties[x])
             /\ Sound(h.parties[x]) /\ Tied(h, x)
  <2>1. Company(h.parties[x]) = Company(g.parties[x])
    BY <1>2, <1>5 DEF Company
  <2>2. Sound(h.parties[x])
    BY <1>1, <1>2, <1>5 DEF Sound
  <2>3. Tied(h, x)
    BY <1>1, <1>2, <1>3, <1>5, <2>1 DEF Tied
  <2> QED
    BY <2>1, <2>2, <2>3
<1>8. Present(h, players)
  <2>1. \A q \in Players : h.invited[q] \subseteq g.invited[q]
    BY <1>3, <1>5
  <2> QED
    BY <1>1, <1>5, <2>1 DEF Present
<1>9. \A x \in ending : h.parties[x].leader \in Players
  <2> SUFFICES ASSUME NEW x \in ending
               PROVE  g.parties[x].leader \in Players
    BY <1>2, <1>5
  <2>1. g.parties[x].invitees # {} /\ x \in Parties
    OBVIOUS
  <2> QED
    BY <2>1, InviterIsThere
<1>10. NoParty \notin Parties
  BY PartyAssumption
<1>11. /\ Consistent(d, players)
       /\ \A y \in Parties : d.parties[y] = IF y \in ending THEN Freed ELSE h.parties[y]
       /\ \A q \in Players : d.of[q] \in {h.of[q], NoParty} /\ d.invited[q] \subseteq h.invited[q]
  <2>1. \A x \in ending, q \in Players :
          /\ h.of[q] = x => q \in Company(h.parties[x])
          /\ q \in Company(h.parties[x]) => h.of[q] \in {x, NoParty}
          /\ x \in h.invited[q] => q \in h.parties[x].invitees
    BY <1>7 DEF Tied
  <2>2. \A y \in Parties \ ending : Sound(h.parties[y]) /\ Tied(h, y)
    BY <1>7
  <2>3. h \in PartyState
    BY <1>5
  <2> HIDE DEF ending
  <2> QED
    BY ONLY <1>4, <1>6, <1>8, <1>9, <2>1, <2>2, <2>3, AfterDisband
<1>12. WithCompany(d)
  <2> SUFFICES ASSUME NEW y \in Parties, d.parties[y].leader # NoPlayer
               PROVE  ~IsEmpty(d.parties[y])
    BY DEF WithCompany
  <2>1. y \notin ending /\ d.parties[y] = removed[y]
    <3> HIDE DEF ending
    <3>1. CASE y \in ending
      <4>1. d.parties[y] = Freed
        BY <1>11, <3>1
      <4>2. Freed.leader = NoPlayer
        BY DEF Freed
      <4>3. d.parties[y].leader = NoPlayer
        BY <4>1, <4>2
      <4> QED
        BY <4>3
    <3>2. CASE y \notin ending
      <4>1. d.parties[y] = h.parties[y]
        BY <1>11, <3>2
      <4> QED
        BY <1>5, <3>2, <4>1
    <3> QED
      BY <3>1, <3>2
  <2>2. CASE y \in xs
    BY <2>1, <2>2
  <2>3. CASE y \notin xs
    BY <1>2, <2>1, <2>3 DEF WithCompany, IsEmpty
  <2> QED
    BY <2>2, <2>3
<1>13. d.invited[p] \subseteq g.invited[p] \ xs
  BY <1>3, <1>5, <1>11
<1> QED
  BY <1>11, <1>12, <1>13

\* Two records with the same four variables are the same.
LEMMA SameState ==
    ASSUME NEW g \in PartyState, NEW h \in PartyState,
           g.of = h.of, g.invited = h.invited, g.parties = h.parties, g.channels = h.channels
    PROVE  g = h
  BY DEF PartyState

\* The same of one party, as a leader takes an invitation back.
LEMMA InviteRevoked ==
    ASSUME NEW g, NEW players, Consistent(g, players), WithCompany(g),
           NEW p \in Players, NEW x \in Parties, p \in g.parties[x].invitees,
           NEW d, d = RemoveInvite(g, {x}, p, TRUE)
    PROVE  Consistent(d, players) /\ WithCompany(d)
<1>1. PICK xs : xs = {x}
  OBVIOUS
<1>2. xs \subseteq {y \in Parties : p \in g.parties[y].invitees}
  BY <1>1
<1>3. d = RemoveInvite(g, xs, p, TRUE)
  BY <1>1
<1> QED
  BY <1>2, <1>3, InviteRemoved, Zenon

\* clearPartyInvitations clears the player's side at the end, and all of it.
LEMMA InvitationsCleared ==
    ASSUME NEW g, NEW players, Consistent(g, players), WithCompany(g), NEW p \in Players,
           NEW d, d = ClearPartyInvitations(g, p)
    PROVE  Consistent(d, players) /\ WithCompany(d) /\ d.invited[p] = {}
<1> DEFINE xs == g.invited[p]
           removed == [x \in Parties |->
                         IF x \in xs THEN [g.parties[x] EXCEPT !.invitees = @ \ {p}]
                         ELSE g.parties[x]]
           ending == {x \in xs : IsEmpty(removed[x])}
           h(b) == [g EXCEPT !.parties = removed,
                             !.invited[p] = IF b THEN @ \ xs ELSE @]
<1>1. g \in PartyState /\ Present(g, players) /\ xs \in SUBSET Parties
      /\ \A x \in Parties : Sound(g.parties[x]) /\ Tied(g, x) /\ g.parties[x] \in PartyRecord
  BY DEF Consistent, PartyState
<1>2. \A x \in xs : p \in g.parties[x].invitees
  BY <1>1 DEF Tied
<1>3. removed \in [Parties -> PartyRecord]
      /\ \A x \in xs : removed[x].leader = g.parties[x].leader
  <2> SUFFICES ASSUME NEW x \in Parties
               PROVE  removed[x] \in PartyRecord /\ removed[x].leader = g.parties[x].leader
    BY <1>1
  <2>1. PICK party \in PartyRecord : party = g.parties[x]
    BY <1>1
  <2>2. CASE x \in xs
    <3>1. removed[x] = [party EXCEPT !.invitees = @ \ {p}]
      BY <2>1, <2>2
    <3> HIDE DEF removed
    <3> QED
      BY <2>1, <3>1 DEF PartyRecord
  <2>3. CASE x \notin xs
    BY <2>1, <2>3
  <2> QED
    BY <2>2, <2>3
<1>4. \A x \in ending : removed[x].leader \in Players
  <2> SUFFICES ASSUME NEW x \in ending
               PROVE  g.parties[x].leader \in Players
    BY <1>3
  <2>1. x \in Parties /\ g.parties[x].invitees # {}
    BY <1>1, <1>2
  <2> QED
    BY <2>1, InviterIsThere
<1>5. RemoveInvite(g, xs, p, TRUE) = Disband(h(TRUE), ending)
      /\ RemoveInvite(g, xs, p, FALSE) = Disband(h(FALSE), ending)
  BY DEF RemoveInvite
<1> HIDE DEF removed
<1>6. ASSUME NEW b \in BOOLEAN
      PROVE  h(b) \in PartyState /\ h(b).of = g.of /\ h(b).channels = g.channels
             /\ h(b).parties = removed
             /\ \A q \in Players \ {p} : h(b).invited[q] = g.invited[q]
             /\ h(b).invited[p] = IF b THEN {} ELSE xs
  BY <1>1, <1>3 DEF PartyState
<1>7. ending \in SUBSET Parties
  BY <1>1
<1>8. ASSUME NEW b \in BOOLEAN, NEW e, e = Disband(h(b), ending)
      PROVE  /\ e \in PartyState
             /\ \A q \in Players : e.of[q] =
                  IF \E x \in ending : q \in Company(removed[x]) THEN NoParty ELSE g.of[q]
             /\ \A q \in Players \ {p} : e.invited[q] =
                  g.invited[q] \ {x \in ending : q \in removed[x].invitees}
             /\ \A y \in Parties : e.parties[y] = IF y \in ending THEN Freed ELSE removed[y]
             /\ e.channels = g.channels
  <2>1. PICK k \in PartyState : k = h(b)
    BY <1>6
  <2>2. /\ k.of = g.of /\ k.channels = g.channels /\ k.parties = removed
        /\ \A q \in Players \ {p} : k.invited[q] = g.invited[q]
    BY <1>6, <2>1
  <2>3. \A x \in ending : k.parties[x].leader \in Players
    BY <1>4, <2>2
  <2>4. NoParty \notin Parties
    BY PartyAssumption
  <2> HIDE DEF ending, h
  <2>5. e = Disband(k, ending)
    BY <1>8, <2>1
  <2>6. /\ e \in PartyState
        /\ \A q \in Players : e.of[q] =
             IF \E x \in ending : q \in Company(k.parties[x]) THEN NoParty ELSE k.of[q]
        /\ \A q \in Players :
             e.invited[q] = k.invited[q] \ {x \in ending : q \in k.parties[x].invitees}
        /\ \A y \in Parties : e.parties[y] = IF y \in ending THEN Freed ELSE k.parties[y]
        /\ e.channels = k.channels
    BY ONLY <1>7, <2>3, <2>4, <2>5, Disbanded
  <2> QED
    BY <2>2, <2>6
<1> DEFINE kept == RemoveInvite(g, xs, p, FALSE)
           gone == RemoveInvite(g, xs, p, TRUE)
<1> HIDE DEF h
<1>9. /\ kept \in PartyState
      /\ \A q \in Players : kept.of[q] =
           IF \E x \in ending : q \in Company(removed[x]) THEN NoParty ELSE g.of[q]
      /\ \A q \in Players \ {p} : kept.invited[q] =
           g.invited[q] \ {x \in ending : q \in removed[x].invitees}
      /\ \A y \in Parties : kept.parties[y] = IF y \in ending THEN Freed ELSE removed[y]
      /\ kept.channels = g.channels
  <2> HIDE DEF ending, xs
  <2> QED BY <1>5, <1>8
<1>10.
      /\ gone \in PartyState
      /\ \A q \in Players : gone.of[q] =
           IF \E x \in ending : q \in Company(removed[x]) THEN NoParty ELSE g.of[q]
      /\ \A q \in Players \ {p} : gone.invited[q] =
           g.invited[q] \ {x \in ending : q \in removed[x].invitees}
      /\ \A y \in Parties : gone.parties[y] = IF y \in ending THEN Freed ELSE removed[y]
      /\ gone.channels = g.channels
  <2> HIDE DEF ending, xs
  <2> QED BY <1>5, <1>8
<1>11. Consistent(gone, players) /\ WithCompany(gone) /\ gone.invited[p] = {}
  <2> HIDE DEF xs
  <2>1. Consistent(gone, players) /\ WithCompany(gone) /\ gone.invited[p] \subseteq g.invited[p] \ xs
    <3>1. xs \subseteq {x \in Parties : p \in g.parties[x].invitees}
      BY <1>1, <1>2
    <3> QED
      BY <3>1, InviteRemoved
  <2> QED
    BY <2>1 DEF xs
<1>k. d = [kept EXCEPT !.invited[p] = {}]
  BY DEF ClearPartyInvitations
<1> HIDE DEF kept, gone, ending
<1>12. \A q \in Players \ {p} : kept.of[q] = gone.of[q] /\ kept.invited[q] = gone.invited[q]
  BY <1>9, <1>10
<1>13. kept.of[p] = gone.of[p] /\ kept.channels = gone.channels
       /\ \A y \in Parties : kept.parties[y] = gone.parties[y]
  BY <1>9, <1>10
<1>15. d \in PartyState /\ d.of = kept.of /\ d.parties = kept.parties
       /\ d.channels = kept.channels /\ d.invited[p] = {}
       /\ \A q \in Players \ {p} : d.invited[q] = kept.invited[q]
  <2> HIDE DEF xs
  <2> QED
    BY <1>k, <1>9 DEF PartyState
<1>16. d = gone
  <2>0. gone \in PartyState
    BY <1>10
  <2>1. d.of \in [Players -> Parties \cup {NoParty}] /\ gone.of \in [Players -> Parties \cup {NoParty}]
        /\ d.invited \in [Players -> SUBSET Parties] /\ gone.invited \in [Players -> SUBSET Parties]
        /\ d.parties \in [Parties -> PartyRecord] /\ gone.parties \in [Parties -> PartyRecord]
    BY <1>15, <2>0 DEF PartyState
  <2>2. \A q \in Players : d.of[q] = gone.of[q]
    BY <1>12, <1>13, <1>15
  <2>3. \A q \in Players : d.invited[q] = gone.invited[q]
    BY <1>11, <1>12, <1>15
  <2>4. \A y \in Parties : d.parties[y] = gone.parties[y]
    BY <1>13, <1>15
  <2>5. d.of = gone.of
    BY <2>1, <2>2
  <2>6. d.invited = gone.invited
    BY <2>1, <2>3
  <2>7. d.parties = gone.parties
    BY <2>1, <2>4
  <2> QED
    BY <1>13, <1>15, <2>0, <2>5, <2>6, <2>7, SameState
<1> QED
  BY <1>11, <1>16

\* The party that is left by one of its players: who leads it when the leader
\* goes, and that it holds the others, each once.
LEMMA PartyLeft ==
    ASSUME NEW party \in PartyRecord, Sound(party), NEW p \in Players, p \in Company(party),
           NEW able \in BOOLEAN, party.leader \in Players,
           NEW left,
           left = LET passed == IF party.leader = p /\ ~MissingLeader(party, p)
                                THEN PassPartyLeadership(party, Head(party.members), able)
                                ELSE party
                  IN  UpdateSharedExperience(
                          [passed EXCEPT !.members = RemoveFirst(@, p)], able)
    PROVE  /\ left \in PartyRecord /\ Sound(left)
           /\ left.leader \in Players /\ left.invitees = party.invitees
           /\ MissingLeader(party, p) => Company(left) = Company(party)
           /\ ~MissingLeader(party, p) => Company(left) = Company(party) \ {p}
<1>t. /\ party.members \in Seq(Players) /\ NoDuplicate(party.members)
      /\ ~In(party.leader, party.members) /\ party.invitees \in SUBSET Players
      /\ NoPlayer \notin Players
  BY PlayersAssumption DEF PartyRecord, Sound
\* when the members are known
<1>e. ASSUME NEW q \in PartyRecord, q.leader \in Players, q.invitees = party.invitees,
             left = UpdateSharedExperience([q EXCEPT !.members = RemoveFirst(@, p)], able),
             NEW m \in Seq(Players), m = RemoveFirst(q.members, p),
             NoDuplicate(m), ~In(q.leader, m)
      PROVE  /\ left \in PartyRecord /\ Sound(left) /\ left.leader = q.leader
             /\ left.members = m /\ left.invitees = party.invitees
  <2>1. PICK r : r = [q EXCEPT !.members = RemoveFirst(@, p)]
    OBVIOUS
  <2>2. r = [q EXCEPT !.members = m]
    BY <1>e, <2>1
  <2>3. r \in PartyRecord /\ r.leader = q.leader /\ r.members = m
        /\ r.invitees = q.invitees
    BY <2>2 DEF PartyRecord
  <2>4. left = UpdateSharedExperience(r, able)
    BY <1>e, <2>1
  <2>5. /\ left \in PartyRecord /\ left.leader = r.leader /\ left.members = r.members
        /\ left.invitees = r.invitees
        /\ left.sharedActive /\ left.sharedEnabled => LevelsFit(left.leader, left.members)
    BY <2>3, <2>4, SharedUpdated
  <2>6. Sound(left)
    BY <1>e, <1>t, <2>3, <2>5 DEF Sound
  <2> QED
    BY <1>e, <2>3, <2>5, <2>6
<1>1. CASE MissingLeader(party, p)
  <2>1. party.leader = p /\ ~In(p, party.members)
    BY <1>1, <1>t DEF MissingLeader
  <2>2. RemoveFirst(party.members, p) = party.members
    BY <1>t, <2>1, NothingErased
  <2>3. left = UpdateSharedExperience([party EXCEPT !.members = RemoveFirst(@, p)], able)
    BY <1>1
  <2>4. /\ left \in PartyRecord /\ Sound(left) /\ left.leader = party.leader
        /\ left.members = party.members /\ left.invitees = party.invitees
    BY <1>t, <1>e, <2>2, <2>3
  <2> QED
    BY <1>1, <2>4 DEF Company
<1>2. CASE ~MissingLeader(party, p) /\ party.leader # p
  <2>1. In(p, party.members)
    BY <1>2, CompanyIs
  <2>2. PICK m \in Seq(Players) : m = RemoveFirst(party.members, p)
    BY <1>t, <2>1, FoundErased
  <2>3. NoDuplicate(m) /\ \A u : In(u, m) <=> In(u, party.members) /\ u # p
    BY <1>t, <2>1, <2>2, FoundErased
  <2>4. left = UpdateSharedExperience([party EXCEPT !.members = RemoveFirst(@, p)], able)
    BY <1>2
  <2>5. /\ left \in PartyRecord /\ Sound(left) /\ left.leader = party.leader
        /\ left.members = m /\ left.invitees = party.invitees
    BY <1>t, <1>e, <2>2, <2>3, <2>4
  <2>6. \A u : u \in Company(left) <=> u \in Company(party) /\ u # p
    BY <1>2, <2>3, <2>5, CompanyIs
  <2>7. Company(left) = Company(party) \ {p}
    BY <2>6
  <2> QED
    BY <1>2, <2>5, <2>7
<1>3. CASE ~MissingLeader(party, p) /\ party.leader = p
  <2>1. party.members # <<>>
    BY <1>3 DEF MissingLeader
  <2>2. PICK n \in Players : n = Head(party.members) /\ In(n, party.members) /\ n # p
    <3>1. Len(party.members) # 0 /\ 1 \in DOMAIN party.members
      BY <1>t, <2>1
    <3>2. Head(party.members) = party.members[1] /\ party.members[1] \in Players
      BY <1>t, <2>1, <3>1
    <3> QED
      BY <1>3, <1>t, <3>1, <3>2 DEF In
  <2>3. PICK m \in Seq(Players) :
           /\ m = RemoveFirst(party.members, n)
           /\ NoDuplicate(m) /\ \A u : In(u, m) <=> In(u, party.members) /\ u # n
    BY <1>t, <2>2, FoundErased
  <2>4. PICK k \in Seq(Players) :
           /\ k = <<p>> \o m
           /\ NoDuplicate(k) /\ \A u : In(u, k) <=> u = p \/ In(u, m)
    <3>1. ~In(p, m)
      BY <1>3, <1>t, <2>3
    <3>2. /\ <<p>> \o m \in Seq(Players) /\ NoDuplicate(<<p>> \o m)
          /\ \A u : In(u, <<p>> \o m) <=> u = p \/ In(u, m)
      BY ONLY <2>3, <3>1, PushFront
    <3> QED
      BY ONLY <3>2
  <2>5. PICK o \in Seq(Players) :
           /\ o = RemoveFirst(k, p)
           /\ NoDuplicate(o) /\ \A u : In(u, o) <=> In(u, k) /\ u # p
    <3>1. In(p, k)
      BY <2>4
    <3>2. /\ RemoveFirst(k, p) \in Seq(Players) /\ NoDuplicate(RemoveFirst(k, p))
          /\ \A u : In(u, RemoveFirst(k, p)) <=> In(u, k) /\ u # p
      BY ONLY <2>4, <3>1, FoundErased
    <3> QED
      BY ONLY <3>2
  <2>6. PICK q : q = PassPartyLeadership(party, n, able)
    OBVIOUS
  <2>7. /\ q \in PartyRecord /\ q.leader = n /\ q.members = k /\ q.invitees = party.invitees
    <3>1. PICK r : r = [party EXCEPT !.leader = n,
                          !.members = <<party.leader>> \o RemoveFirst(@, n)]
      OBVIOUS
    <3>2. r = [party EXCEPT !.leader = n, !.members = k]
      BY <1>3, <2>3, <2>4, <3>1
    <3>3. r \in PartyRecord /\ r.leader = n /\ r.members = k /\ r.invitees = party.invitees
      BY <3>2 DEF PartyRecord
    <3>4. q = UpdateSharedExperience(r, able)
      BY <2>6, <3>1 DEF PassPartyLeadership
    <3> QED
      BY <3>3, <3>4, SharedUpdated
  <2>8. left = UpdateSharedExperience([q EXCEPT !.members = RemoveFirst(@, p)], able)
    BY <1>3, <2>2, <2>6
  <2>9. ~In(n, o)
    BY <2>2, <2>3, <2>4, <2>5
  <2>10. /\ left \in PartyRecord /\ Sound(left) /\ left.leader = n
         /\ left.members = o /\ left.invitees = party.invitees
    BY <1>t, <1>e, <2>5, <2>7, <2>8, <2>9
  <2>11. \A u : u \in Company(left) <=> u \in Company(party) /\ u # p
    BY <1>3, <1>t, <2>2, <2>3, <2>4, <2>5, <2>10, CompanyIs
  <2>12. Company(left) = Company(party) \ {p}
    BY <2>11
  <2> QED
    BY <1>3, <2>10, <2>12
<1> QED
  BY <1>1, <1>2, <1>3

\* leaveParty, with the party that may end by it.
LEMMA PartyLeftByPlayer ==
    ASSUME NEW g, NEW players, Consistent(g, players), WithCompany(g), NEW p \in Players,
           g.of[p] # NoParty, NEW able \in BOOLEAN,
           NEW d, d = LeaveParty(g, p, able)
    PROVE  /\ Consistent(d, players) /\ WithCompany(d)
           /\ d.of[p] = NoParty /\ d.invited[p] \subseteq g.invited[p]
<1>1. g \in PartyState /\ Present(g, players)
      /\ \A x \in Parties : Sound(g.parties[x]) /\ Tied(g, x) /\ g.parties[x] \in PartyRecord
  BY DEF Consistent, PartyState
<1>0. NoParty \notin Parties
  BY PartyAssumption
<1>2. PICK x \in Parties : x = g.of[p]
  BY <1>1 DEF PartyState
<1>3. PICK party \in PartyRecord : party = g.parties[x] /\ Sound(party) /\ p \in Company(party)
  BY <1>1, <1>2 DEF Tied
<1>4. party.leader \in Players
  BY <1>2, <1>3, InviterIsThere
<1> DEFINE passed == IF party.leader = p /\ ~MissingLeader(party, p)
                     THEN PassPartyLeadership(party, Head(party.members), able)
                     ELSE party
<1>5. PICK left \in PartyRecord :
         /\ left = UpdateSharedExperience([passed EXCEPT !.members = RemoveFirst(@, p)], able)
         /\ Sound(left) /\ left.leader \in Players /\ left.invitees = party.invitees
         /\ MissingLeader(party, p) => Company(left) = Company(party)
         /\ ~MissingLeader(party, p) => Company(left) = Company(party) \ {p}
  BY <1>3, <1>4, PartyLeft
<1> DEFINE all == [g EXCEPT !.parties[x] = left]
           h == Dismiss(all, {p})
<1>6. d = DisbandIf(h, x, MissingLeader(party, p) \/ IsEmpty(left))
  BY <1>2, <1>3, <1>5 DEF LeaveParty
<1>7. /\ all \in PartyState /\ all.of = g.of /\ all.invited = g.invited
      /\ all.channels = g.channels
      /\ \A y \in Parties : all.parties[y] = IF y = x THEN left ELSE g.parties[y]
  BY <1>1 DEF PartyState
<1> HIDE DEF all
<1>8. /\ h \in PartyState /\ h.invited = g.invited /\ h.channels = g.channels
      /\ \A q \in Players : h.of[q] = IF q = p THEN NoParty ELSE g.of[q]
      /\ \A y \in Parties : h.parties[y] = IF y = x THEN left ELSE g.parties[y]
  <2>1. PICK k : k = Dismiss(all, {p})
    OBVIOUS
  <2>2. {p} \in SUBSET Players
    OBVIOUS
  <2>3. /\ k \in PartyState /\ \A q \in Players : k.of[q] = IF q \in {p} THEN NoParty ELSE all.of[q]
        /\ k.invited = all.invited /\ k.parties = all.parties /\ k.channels = all.channels
    BY <1>0, <1>7, <2>1, <2>2, Dismissed
  <2> QED
    BY <1>7, <2>1, <2>3
<1> HIDE DEF h
<1>9. \A y \in Parties \ {x} : Sound(h.parties[y]) /\ Tied(h, y)
  <2> SUFFICES ASSUME NEW y \in Parties \ {x}
               PROVE  Sound(h.parties[y]) /\ Tied(h, y)
    OBVIOUS
  <2>1. h.parties[y] = g.parties[y] /\ Sound(g.parties[y]) /\ Tied(g, y)
    BY <1>1, <1>8
  <2>2. \A q \in Players : (h.of[q] = y <=> g.of[q] = y) /\ h.invited[q] = g.invited[q]
    BY <1>0, <1>2, <1>8
  <2> QED
    BY <2>1, <2>2 DEF Tied
<1>10. Present(h, players)
  BY <1>1, <1>8 DEF Present
<1>11. ASSUME NEW q \in Players
       PROVE  /\ h.of[q] = x => q \in Company(left)
              /\ q \in Company(left) => h.of[q] \in {x, NoParty}
              /\ x \in h.invited[q] <=> q \in left.invitees
              /\ ~MissingLeader(party, p) /\ q \in Company(left) => h.of[q] = x
  <2>1. /\ g.of[q] = x <=> q \in Company(party)
        /\ x \in g.invited[q] <=> q \in party.invitees
    BY <1>1, <1>3 DEF Tied
  <2> QED
    BY <1>0, <1>2, <1>5, <1>8, <2>1
<1>12. CASE MissingLeader(party, p) \/ IsEmpty(left)
  <2>1. d = Disband(h, {x})
    BY <1>6, <1>12 DEF DisbandIf
  <2>2. /\ {x} \in SUBSET Parties
        /\ \A y \in {x} : h.parties[y].leader \in Players
        /\ \A y \in {x}, q \in Players :
              /\ h.of[q] = y => q \in Company(h.parties[y])
              /\ q \in Company(h.parties[y]) => h.of[q] \in {y, NoParty}
              /\ y \in h.invited[q] => q \in h.parties[y].invitees
    BY <1>5, <1>8, <1>11
  <2>3. h \in PartyState
    BY <1>8
  <2>4. /\ Consistent(d, players)
        /\ \A y \in Parties : d.parties[y] = IF y \in {x} THEN Freed ELSE h.parties[y]
        /\ \A q \in Players : d.of[q] \in {h.of[q], NoParty} /\ d.invited[q] \subseteq h.invited[q]
    BY ONLY <1>9, <1>10, <2>1, <2>2, <2>3, AfterDisband
  <2>5. WithCompany(d)
    <3> SUFFICES ASSUME NEW y \in Parties, d.parties[y].leader # NoPlayer
                 PROVE  ~IsEmpty(d.parties[y])
      BY DEF WithCompany
    <3>1. y # x
      <4>1. CASE y = x
        <5>1. d.parties[y] = Freed
          BY <2>4, <4>1
        <5>2. Freed.leader = NoPlayer
          BY DEF Freed
        <5>3. d.parties[y].leader = NoPlayer
          BY <5>1, <5>2
        <5> QED
          BY <5>3
      <4> QED
        BY <4>1
    <3>2. d.parties[y] = g.parties[y]
      BY <1>8, <2>4, <3>1
    <3> QED
      BY <3>2 DEF WithCompany
  <2> QED
    BY <1>8, <2>4, <2>5
<1>13. CASE ~(MissingLeader(party, p) \/ IsEmpty(left))
  <2>1. d = h
    BY <1>6, <1>13 DEF DisbandIf
  <2>2. Sound(h.parties[x]) /\ Tied(h, x)
    <3>1. h.parties[x] = left
      BY <1>8
    <3>2. Tied(h, x)
      BY <1>11, <1>13, <3>1 DEF Tied
    <3> QED
      BY <1>5, <3>1, <3>2
  <2>3. Consistent(h, players)
    BY <1>8, <1>9, <1>10, <2>2 DEF Consistent
  <2>4. WithCompany(h)
    BY <1>8, <1>13 DEF WithCompany
  <2> QED
    BY <1>8, <2>1, <2>3, <2>4
<1> QED
  BY <1>12, <1>13

\* invitePlayer, by a party that is there, perhaps just founded.
LEMMA PlayerInvited ==
    ASSUME NEW g, NEW players, Consistent(g, players), NEW x \in Parties,
           g.parties[x].leader \in Players,
           \A y \in Parties \ {x} : g.parties[y].leader # NoPlayer => ~IsEmpty(g.parties[y]),
           NEW p \in Players, p \in players,
           NEW d, d = InvitePlayer(g, x, p)
    PROVE  Consistent(d, players) /\ WithCompany(d)
<1>1. g \in PartyState /\ Present(g, players)
      /\ \A y \in Parties : Sound(g.parties[y]) /\ Tied(g, y) /\ g.parties[y] \in PartyRecord
  BY DEF Consistent, PartyState
<1>2. CASE p \in g.parties[x].invitees
  <2>1. d = g
    BY <1>2 DEF InvitePlayer
  <2> QED
    BY <1>2, <2>1 DEF WithCompany, IsEmpty
<1>3. CASE p \notin g.parties[x].invitees
  <2>1. d = [g EXCEPT !.parties[x].invitees = @ \cup {p}, !.invited[p] = @ \cup {x}]
    BY <1>3 DEF InvitePlayer
  <2>2. PICK party \in PartyRecord : party = g.parties[x]
    BY <1>1
  <2> DEFINE q == [party EXCEPT !.invitees = @ \cup {p}]
  <2>3. q \in PartyRecord /\ q.leader = party.leader /\ q.members = party.members
        /\ q.sharedActive = party.sharedActive /\ q.sharedEnabled = party.sharedEnabled
        /\ q.invitees = party.invitees \cup {p}
    BY DEF PartyRecord
  <2>4. /\ d \in PartyState /\ d.of = g.of /\ d.channels = g.channels
        /\ \A y \in Parties : d.parties[y] = IF y = x THEN q ELSE g.parties[y]
        /\ \A r \in Players : d.invited[r] = g.invited[r] \cup (IF r = p THEN {x} ELSE {})
    <3>1. g.parties \in [Parties -> PartyRecord] /\ g.invited \in [Players -> SUBSET Parties]
      BY <1>1 DEF PartyState
    <3> DEFINE ps == [g.parties EXCEPT ![x] = q]
               is == [g.invited EXCEPT ![p] = @ \cup {x}]
    <3>2. ps \in [Parties -> PartyRecord] /\ is \in [Players -> SUBSET Parties]
      BY <2>3, <3>1
    <3>3. (\A y \in Parties : ps[y] = IF y = x THEN q ELSE g.parties[y])
          /\ \A r \in Players : is[r] = g.invited[r] \cup (IF r = p THEN {x} ELSE {})
      BY <3>1
    <3>4. d = [g EXCEPT !.parties = ps, !.invited = is]
      BY <2>1, <2>2, <1>1 DEF PartyState
    <3> HIDE DEF ps, is, q
    <3> QED
      BY <1>1, <3>2, <3>3, <3>4 DEF PartyState
  <2> HIDE DEF q
  <2>5. \A y \in Parties : Sound(d.parties[y]) /\ Tied(d, y)
    <3> SUFFICES ASSUME NEW y \in Parties
                 PROVE  Sound(d.parties[y]) /\ Tied(d, y)
      OBVIOUS
    <3>1. Sound(g.parties[y]) /\ Tied(g, y)
      BY <1>1
    <3>2. CASE y = x
      <4>1. d.parties[y] = q /\ g.parties[y] = party
        BY <2>2, <2>4, <3>2
      <4>2. Sound(q)
        BY <2>2, <2>3, <3>1, <4>1, PlayersAssumption DEF Sound
      <4>3. Company(q) = Company(party)
        BY <2>3 DEF Company
      <4>4. Tied(d, y)
        BY <2>3, <2>4, <3>1, <3>2, <4>1, <4>3 DEF Tied
      <4> QED
        BY <4>1, <4>2, <4>4
    <3>3. CASE y # x
      <4>1. d.parties[y] = g.parties[y]
        BY <2>4, <3>3
      <4>2. \A r \in Players : y \in d.invited[r] <=> y \in g.invited[r]
        BY <2>4, <3>3
      <4>3. Tied(d, y)
        BY <2>4, <3>1, <4>1, <4>2 DEF Tied
      <4> QED
        BY <3>1, <4>1, <4>3
    <3> QED
      BY <3>2, <3>3
  <2>6. Present(d, players)
    BY <1>1, <2>4 DEF Present
  <2>7. WithCompany(d)
    BY <2>3, <2>4 DEF WithCompany, IsEmpty
  <2> QED
    BY <2>4, <2>5, <2>6, <2>7 DEF Consistent
<1> QED
  BY <1>2, <1>3

\* The constructor of Party, at an address without one.
LEMMA PartyFounded ==
    ASSUME NEW g, NEW players, Consistent(g, players), NEW x \in Parties,
           g.parties[x].leader = NoPlayer,
           NEW p \in Players, p \in players, g.of[p] = NoParty,
           NEW d, d = Founded(g, x, p)
    PROVE  /\ Consistent(d, players)
           /\ d.parties[x].leader = p
           /\ \A y \in Parties \ {x} : d.parties[y] = g.parties[y]
<1>1. g \in PartyState /\ Present(g, players)
      /\ \A y \in Parties : Sound(g.parties[y]) /\ Tied(g, y) /\ g.parties[y] \in PartyRecord
  BY DEF Consistent, PartyState
<1>0. NoPlayer \notin Players /\ NoParty \notin Parties
  BY PlayersAssumption, PartyAssumption
<1>2. PICK party \in PartyRecord : party = g.parties[x]
  BY <1>1
<1> DEFINE q == [party EXCEPT !.leader = p]
<1>3. q \in PartyRecord /\ q.leader = p /\ q.members = party.members
      /\ q.sharedActive = party.sharedActive /\ q.invitees = party.invitees
  BY DEF PartyRecord
<1>4. party.members = <<>> /\ party.invitees = {} /\ ~party.sharedActive /\ party.leader = NoPlayer
  BY <1>1, <1>2 DEF Sound
<1>5. Company(party) = {NoPlayer} /\ Company(q) = {p}
  BY <1>3, <1>4 DEF Company, Range
<1>6. /\ d \in PartyState /\ d.invited = g.invited /\ d.channels = g.channels
      /\ \A y \in Parties : d.parties[y] = IF y = x THEN q ELSE g.parties[y]
      /\ \A r \in Players : d.of[r] = IF r = p THEN x ELSE g.of[r]
  <2>1. g.parties \in [Parties -> PartyRecord] /\ g.of \in [Players -> Parties \cup {NoParty}]
    BY <1>1 DEF PartyState
  <2> DEFINE ps == [g.parties EXCEPT ![x] = q]
             of == [g.of EXCEPT ![p] = x]
  <2>2. ps \in [Parties -> PartyRecord] /\ of \in [Players -> Parties \cup {NoParty}]
    BY <1>3, <2>1
  <2>3. (\A y \in Parties : ps[y] = IF y = x THEN q ELSE g.parties[y])
        /\ \A r \in Players : of[r] = IF r = p THEN x ELSE g.of[r]
    BY <2>1
  <2>4. d = [g EXCEPT !.of = of, !.parties = ps]
    BY <1>2, <1>1 DEF PartyState, Founded
  <2> HIDE DEF ps, of, q
  <2> QED
    BY <1>1, <2>2, <2>3, <2>4 DEF PartyState
<1> HIDE DEF q
<1>7. \A y \in Parties : Sound(d.parties[y]) /\ Tied(d, y)
  <2> SUFFICES ASSUME NEW y \in Parties
               PROVE  Sound(d.parties[y]) /\ Tied(d, y)
    OBVIOUS
  <2>1. Sound(g.parties[y]) /\ Tied(g, y)
    BY <1>1
  <2>2. CASE y = x
    <3>1. d.parties[y] = q /\ g.parties[y] = party
      BY <1>2, <1>6, <2>2
    <3>2. Sound(q)
      BY <1>0, <1>3, <1>4 DEF Sound, NoDuplicate, In
    <3>3. \A r \in Players : g.of[r] # x
      BY <1>0, <1>5, <2>1, <2>2, <3>1 DEF Tied
    <3>4. Tied(d, y)
      BY <1>3, <1>5, <1>6, <2>1, <2>2, <3>1, <3>3 DEF Tied
    <3> QED
      BY <3>1, <3>2, <3>4
  <2>3. CASE y # x
    <3>1. d.parties[y] = g.parties[y]
      BY <1>6, <2>3
    <3>2. \A r \in Players : d.of[r] = y <=> g.of[r] = y
      BY <1>0, <1>6, <2>3
    <3>3. Tied(d, y)
      BY <1>6, <2>1, <3>1, <3>2 DEF Tied
    <3> QED
      BY <2>1, <3>1, <3>3
  <2> QED
    BY <2>2, <2>3
<1>8. Present(d, players)
  BY <1>1, <1>6 DEF Present
<1> QED
  BY <1>3, <1>6, <1>7, <1>8 DEF Consistent

\* joinParty, of one who was invited.
LEMMA PlayerJoined ==
    ASSUME NEW g, NEW players, Consistent(g, players), WithCompany(g), NEW x \in Parties,
           NEW p \in Players, p \in players, g.of[p] = NoParty,
           p \in g.parties[x].invitees, NEW able \in BOOLEAN,
           NEW d, d = JoinParty(g, x, p, able)
    PROVE  Consistent(d, players) /\ WithCompany(d)
<1>1. g \in PartyState /\ Present(g, players)
      /\ \A y \in Parties : Sound(g.parties[y]) /\ Tied(g, y) /\ g.parties[y] \in PartyRecord
  BY DEF Consistent, PartyState
<1>0. NoPlayer \notin Players /\ NoParty \notin Parties
  BY PlayersAssumption, PartyAssumption
<1>2. PICK party \in PartyRecord : party = g.parties[x]
  BY <1>1
<1>3. /\ party.leader \in Players /\ party.members \in Seq(Players)
      /\ NoDuplicate(party.members) /\ ~In(party.leader, party.members)
      /\ p \notin Company(party)
  <2>1. party.leader \in Players
    BY <1>2, InviterIsThere
  <2>2. p \notin Company(party)
    BY <1>0, <1>1, <1>2 DEF Tied
  <2> QED
    BY <1>1, <1>2, <2>1, <2>2 DEF PartyRecord, Sound
<1>4. ~In(p, party.members) /\ p # party.leader
  BY <1>3, CompanyIs
<1> DEFINE more == Append(party.members, p)
<1>5. /\ more \in Seq(Players) /\ NoDuplicate(more) /\ more # <<>>
      /\ \A u : In(u, more) <=> u = p \/ In(u, party.members)
  <2>1. /\ more \in Seq(Players) /\ NoDuplicate(more)
        /\ \A u : In(u, more) <=> u = p \/ In(u, party.members)
    BY <1>3, <1>4, PushBack
  <2>2. In(p, more)
    BY <2>1
  <2>3. more # <<>>
    <3> HIDE DEF more
    <3>1. \E i \in DOMAIN more : TRUE
      BY <2>2 DEF In
    <3> QED
      BY <3>1
  <2> QED
    BY <2>1, <2>3
<1> HIDE DEF more
<1> DEFINE r == [party EXCEPT !.members = more, !.invitees = @ \ {p}]
           q == UpdateSharedExperience(r, able)
<1>6. r \in PartyRecord /\ r.leader = party.leader /\ r.members = more
      /\ r.invitees = party.invitees \ {p}
  BY <1>5 DEF PartyRecord
<1> HIDE DEF r
<1>7. /\ q \in PartyRecord /\ q.leader = party.leader /\ q.members = more
      /\ q.invitees = party.invitees \ {p}
      /\ q.sharedActive /\ q.sharedEnabled => LevelsFit(q.leader, q.members)
  BY <1>6, SharedUpdated
<1>8. d = [g EXCEPT !.of[p] = x, !.invited[p] = @ \ {x}, !.parties[x] = q]
  BY <1>2 DEF JoinParty, r, more
<1> HIDE DEF q
<1>9. /\ d \in PartyState /\ d.channels = g.channels
      /\ \A y \in Parties : d.parties[y] = IF y = x THEN q ELSE g.parties[y]
      /\ \A u \in Players : d.of[u] = IF u = p THEN x ELSE g.of[u]
      /\ \A u \in Players : d.invited[u] = g.invited[u] \ (IF u = p THEN {x} ELSE {})
  <2>1. g.parties \in [Parties -> PartyRecord] /\ g.of \in [Players -> Parties \cup {NoParty}]
        /\ g.invited \in [Players -> SUBSET Parties]
    BY <1>1 DEF PartyState
  <2> DEFINE ps == [g.parties EXCEPT ![x] = q]
             of == [g.of EXCEPT ![p] = x]
             is == [g.invited EXCEPT ![p] = @ \ {x}]
  <2>2. ps \in [Parties -> PartyRecord] /\ of \in [Players -> Parties \cup {NoParty}]
        /\ is \in [Players -> SUBSET Parties]
    BY <1>7, <2>1
  <2>3. /\ \A y \in Parties : ps[y] = IF y = x THEN q ELSE g.parties[y]
        /\ \A u \in Players : of[u] = IF u = p THEN x ELSE g.of[u]
        /\ \A u \in Players : is[u] = g.invited[u] \ (IF u = p THEN {x} ELSE {})
    BY <2>1
  <2>4. d = [g EXCEPT !.of = of, !.invited = is, !.parties = ps]
    BY <1>8, <1>1 DEF PartyState
  <2> HIDE DEF ps, of, is
  <2> QED
    BY <1>1, <2>2, <2>3, <2>4 DEF PartyState
<1>10. Sound(q)
  BY <1>0, <1>3, <1>4, <1>5, <1>7 DEF Sound
<1>11. \A u : u \in Company(q) <=> u = p \/ u \in Company(party)
  BY <1>5, <1>7, CompanyIs
<1>12. \A y \in Parties : Sound(d.parties[y]) /\ Tied(d, y)
  <2> SUFFICES ASSUME NEW y \in Parties
               PROVE  Sound(d.parties[y]) /\ Tied(d, y)
    OBVIOUS
  <2>1. Sound(g.parties[y]) /\ Tied(g, y)
    BY <1>1
  <2>2. CASE y = x
    <3>1. d.parties[y] = q /\ g.parties[y] = party
      BY <1>2, <1>9, <2>2
    <3>2. Tied(d, y)
      BY <1>7, <1>9, <1>11, <2>1, <2>2, <3>1 DEF Tied
    <3> QED
      BY <1>10, <3>1, <3>2
  <2>3. CASE y # x
    <3>1. d.parties[y] = g.parties[y]
      BY <1>9, <2>3
    <3>2. \A u \in Players : (d.of[u] = y <=> g.of[u] = y) /\ (y \in d.invited[u] <=> y \in g.invited[u])
      BY <1>0, <1>9, <2>3
    <3>3. Tied(d, y)
      BY <2>1, <3>1, <3>2 DEF Tied
    <3> QED
      BY <2>1, <3>1, <3>3
  <2> QED
    BY <2>2, <2>3
<1>13. Present(d, players)
  BY <1>1, <1>9 DEF Present
<1>14. WithCompany(d)
  BY <1>5, <1>7, <1>9 DEF WithCompany, IsEmpty
<1> QED
  BY <1>9, <1>12, <1>13, <1>14 DEF Consistent

\* A party that changes, with the same players in it and invited.
LEMMA PartyChanged ==
    ASSUME NEW g, NEW players, Consistent(g, players), WithCompany(g), NEW x \in Parties,
           NEW q \in PartyRecord, Sound(q), Company(q) = Company(g.parties[x]),
           q.invitees = g.parties[x].invitees, ~IsEmpty(q),
           NEW d \in PartyState, d.of = g.of, d.invited = g.invited, d.channels = g.channels,
           d.parties = [g.parties EXCEPT ![x] = q]
    PROVE  Consistent(d, players) /\ WithCompany(d)
<1>1. \A y \in Parties : d.parties[y] = IF y = x THEN q ELSE g.parties[y]
  BY DEF Consistent, PartyState
<1>2. \A y \in Parties : Sound(d.parties[y]) /\ Tied(d, y)
  BY <1>1 DEF Consistent, Tied
<1>3. Present(d, players)
  BY DEF Consistent, Present
<1>4. WithCompany(d)
  BY <1>1 DEF WithCompany
<1> QED
  BY <1>2, <1>3, <1>4 DEF Consistent

\* The players in the game and the users of the channels are others, and none
\* is missing who was in a party or invited.
LEMMA PlayersChanged ==
    ASSUME NEW g, NEW players, Consistent(g, players), WithCompany(g), NEW others,
           NEW d \in PartyState, d.of = g.of, d.invited = g.invited, d.parties = g.parties,
           \A x \in Parties : d.channels[x] \subseteq others,
           \A p \in Players : g.of[p] # NoParty \/ g.invited[p] # {} => p \in others
    PROVE  Consistent(d, others) /\ WithCompany(d)
  BY DEF Consistent, WithCompany, Present, Tied

\* passPartyLeadership to a member: the players of the party stay the same.
LEMMA LeadershipPassed ==
    ASSUME NEW party \in PartyRecord, Sound(party), party.leader \in Players,
           NEW p \in Players, In(p, party.members), NEW able \in BOOLEAN,
           NEW q, q = PassPartyLeadership(party, p, able)
    PROVE  /\ q \in PartyRecord /\ Sound(q) /\ q.leader = p /\ q.members # <<>>
           /\ Company(q) = Company(party) /\ q.invitees = party.invitees
<1>1. /\ party.members \in Seq(Players) /\ NoDuplicate(party.members)
      /\ ~In(party.leader, party.members)
  BY DEF PartyRecord, Sound
<1>2. PICK m \in Seq(Players) :
         /\ m = RemoveFirst(party.members, p)
         /\ NoDuplicate(m) /\ \A u : In(u, m) <=> In(u, party.members) /\ u # p
  BY <1>1, FoundErased
<1> DEFINE k == <<party.leader>> \o m
<1>3. /\ k \in Seq(Players) /\ NoDuplicate(k) /\ k # <<>>
      /\ \A u : In(u, k) <=> u = party.leader \/ In(u, m)
  <2>1. ~In(party.leader, m)
    BY <1>1, <1>2
  <2> QED
    BY ONLY <1>2, <2>1, PushFront, party.leader \in Players
<1> HIDE DEF k
<1>4. PICK r : r = [party EXCEPT !.leader = p,
                      !.members = <<party.leader>> \o RemoveFirst(@, p)]
  OBVIOUS
<1>5. r = [party EXCEPT !.leader = p, !.members = k]
  BY <1>2, <1>4 DEF k
<1>6. r \in PartyRecord /\ r.leader = p /\ r.members = k /\ r.invitees = party.invitees
  BY <1>3, <1>5 DEF PartyRecord
<1>7. q = UpdateSharedExperience(r, able)
  BY <1>4 DEF PassPartyLeadership
<1>8. /\ q \in PartyRecord /\ q.leader = p /\ q.members = k /\ q.invitees = party.invitees
      /\ q.sharedActive /\ q.sharedEnabled => LevelsFit(q.leader, q.members)
  BY <1>6, <1>7, SharedUpdated
<1>9. Sound(q)
  <2>1. ~In(p, k)
    BY <1>1, <1>2, <1>3
  <2> QED
    BY <1>3, <1>8, <2>1, PlayersAssumption DEF Sound
<1>10. \A u : u \in Company(q) <=> u \in Company(party)
  BY <1>2, <1>3, <1>8, CompanyIs
<1> QED
  BY <1>3, <1>8, <1>9, <1>10

PartyInv ==
    /\ online \subseteq Players
    /\ Consistent(Now, online)
    /\ WithCompany(Now)

\* The variables after a step are the record the methods returned.
LEMMA BecomeNow ==
    ASSUME NEW d \in PartyState, Become(d)
    PROVE  Now' = d
<1>1. Now' = [of |-> d.of, invited |-> d.invited, parties |-> d.parties, channels |-> d.channels]
  BY DEF Become, Now
<1> QED
  BY <1>1 DEF PartyState

\* The invariant in the next state, when the record there is known.
LEMMA PartyThen ==
    ASSUME NEW d, d = Now', online' \subseteq Players,
           Consistent(d, online'), WithCompany(d)
    PROVE  PartyInv'
  BY DEF PartyInv, Now, Consistent, WithCompany, Present, Tied, PartyState, IsEmpty, Company

\* A party of the state and the one that has it.
LEMMA OwnParty ==
    ASSUME PartyInv, NEW p \in Players, partyOf[p] # NoParty
    PROVE  /\ partyOf[p] \in Parties /\ p \in online
           /\ parties[partyOf[p]] \in PartyRecord /\ Sound(parties[partyOf[p]])
           /\ p \in Company(parties[partyOf[p]])
           /\ parties[partyOf[p]].leader \in Players
           /\ ~IsEmpty(parties[partyOf[p]])
<1>1. PICK g : g = Now
  OBVIOUS
<1>2. g.of = partyOf /\ g.invited = invitations /\ g.parties = parties /\ g.channels = partyChannels
  BY <1>1 DEF Now
<1>3. Consistent(g, online) /\ WithCompany(g)
  BY <1>1 DEF PartyInv
<1>4. /\ g.of[p] \in Parties /\ p \in online
      /\ g.parties[g.of[p]] \in PartyRecord /\ Sound(g.parties[g.of[p]])
      /\ p \in Company(g.parties[g.of[p]])
  BY <1>2, <1>3 DEF Consistent, PartyState, Present, Tied
<1>5. PICK x \in Parties : x = g.of[p]
  BY <1>4
<1>6. g.parties[x].leader \in Players
  BY <1>3, <1>5, InviterIsThere
<1>7. ~IsEmpty(g.parties[x])
  BY <1>3, <1>6, PlayersAssumption DEF WithCompany
<1> QED
  BY <1>2, <1>4, <1>5, <1>6, <1>7

\* A step that writes one party and nothing else.
LEMMA OnePartyWritten ==
    ASSUME PartyInv, NEW p \in Players, partyOf[p] # NoParty,
           NEW q \in PartyRecord, Sound(q), ~IsEmpty(q),
           Company(q) = Company(parties[partyOf[p]]),
           q.invitees = parties[partyOf[p]].invitees,
           parties' = [parties EXCEPT ![partyOf[p]] = q],
           UNCHANGED <<online, partyOf, invitations, partyChannels>>
    PROVE  PartyInv'
<1>1. PICK g : g = Now
  OBVIOUS
<1>2. g.of = partyOf /\ g.invited = invitations /\ g.parties = parties /\ g.channels = partyChannels
  BY <1>1 DEF Now
<1>3. Consistent(g, online) /\ WithCompany(g) /\ online \subseteq Players
  BY <1>1 DEF PartyInv
<1>4. PICK x \in Parties : x = partyOf[p]
  BY OwnParty
<1>5. PICK d : d = Now'
  OBVIOUS
<1>6. d.of = g.of /\ d.invited = g.invited /\ d.channels = g.channels
      /\ d.parties = [g.parties EXCEPT ![x] = q]
      /\ d = [of |-> d.of, invited |-> d.invited, parties |-> d.parties, channels |-> d.channels]
  BY <1>2, <1>4, <1>5 DEF Now
<1>7. d \in PartyState
  BY <1>3, <1>6 DEF Consistent, PartyState
<1>8. Consistent(d, online) /\ WithCompany(d)
  BY <1>2, <1>3, <1>4, <1>6, <1>7, PartyChanged
<1>9. Consistent(d, online') /\ online' \subseteq Players
  BY <1>3, <1>8
<1> QED
  BY <1>5, <1>8, <1>9, PartyThen

\* A step that writes who is in the game and who is in the channels.
LEMMA OnlyPlayersWritten ==
    ASSUME PartyInv, UNCHANGED <<partyOf, invitations, parties>>,
           online \subseteq online', online' \subseteq Players,
           partyChannels' \in [Parties -> SUBSET online']
    PROVE  PartyInv'
<1>1. PICK g : g = Now
  OBVIOUS
<1>2. g.of = partyOf /\ g.invited = invitations /\ g.parties = parties /\ g.channels = partyChannels
  BY <1>1 DEF Now
<1>3. Consistent(g, online) /\ WithCompany(g)
  BY <1>1 DEF PartyInv
<1>5. PICK d : d = Now'
  OBVIOUS
<1>6. d.of = g.of /\ d.invited = g.invited /\ d.parties = g.parties /\ d.channels = partyChannels'
      /\ d = [of |-> d.of, invited |-> d.invited, parties |-> d.parties, channels |-> d.channels]
  BY <1>2, <1>5 DEF Now
<1>7. d \in PartyState /\ \A x \in Parties : d.channels[x] \subseteq online'
  BY <1>3, <1>6 DEF Consistent, PartyState
<1>8. \A p \in Players : g.of[p] # NoParty \/ g.invited[p] # {} => p \in online'
  BY <1>3 DEF Consistent, Present
<1>9. PICK others : others = online'
  OBVIOUS
<1>10. Consistent(d, others) /\ WithCompany(d)
  BY <1>3, <1>6, <1>7, <1>8, <1>9, PlayersChanged
<1> QED
  BY <1>5, <1>9, <1>10, PartyThen

\* The invariant holds in every step.
LEMMA PartyStep == PartyInv /\ [PartyNext]_partyVars => PartyInv'
<1> SUFFICES ASSUME PartyInv, [PartyNext]_partyVars PROVE PartyInv'
  OBVIOUS
<1>1. PICK g : g = Now
  OBVIOUS
<1>2. g.of = partyOf /\ g.invited = invitations /\ g.parties = parties /\ g.channels = partyChannels
  BY <1>1 DEF Now
<1>3. PICK players \in SUBSET Players : players = online
  BY DEF PartyInv
<1>t. Consistent(g, players) /\ WithCompany(g) /\ g \in PartyState
  BY <1>1, <1>3 DEF PartyInv, Consistent
<1>c. /\ partyChannels \in [Parties -> SUBSET Players]
      /\ \A x \in Parties : partyChannels[x] \subseteq online
  BY <1>2, <1>3, <1>t DEF Consistent, Present, PartyState
\* of a step whose players stay in the game
<1>b. ASSUME UNCHANGED online, NEW d, Become(d), Consistent(d, players), WithCompany(d)
      PROVE  PartyInv'
  <2>1. d = Now'
    BY <1>b, BecomeNow DEF Consistent
  <2> QED
    BY <1>b, <1>3, <2>1, PartyThen
<1>4. ASSUME NEW p \in Players, PlayerLogin(p) PROVE PartyInv'
  <2>1. partyChannels' \in [Parties -> SUBSET online'] /\ online' = online \cup {p}
    BY <1>4, <1>c DEF PlayerLogin
  <2> QED
    BY <1>3, <1>4, <2>1, OnlyPlayersWritten DEF PlayerLogin
<1>5. ASSUME NEW p \in Players, PlayerOpenPartyChannel(p) \/ PartyMemberReconnects(p)
      PROVE  PartyInv'
  <2>1. partyChannels' \in [Parties -> SUBSET online'] /\ online' = online
    BY <1>5, <1>c DEF PlayerOpenPartyChannel, PartyMemberReconnects
  <2>2. UNCHANGED <<partyOf, invitations, parties>>
    BY <1>5 DEF PlayerOpenPartyChannel, PartyMemberReconnects
  <2> QED
    BY <1>3, <2>1, <2>2, OnlyPlayersWritten
<1>6. ASSUME NEW p \in Players, PlayerClosePartyChannel(p) PROVE PartyInv'
  <2>1. UNCHANGED online /\ Become(ClosePartyChannel(Now, {p}))
    BY <1>6 DEF PlayerClosePartyChannel
  <2> DEFINE rest == [x \in Parties |-> g.channels[x] \ {q \in {p} : g.of[q] = x}]
             d == [g EXCEPT !.channels = rest]
  <2>2. rest \in [Parties -> SUBSET Players]
        /\ \A x \in Parties : rest[x] \subseteq g.channels[x]
    BY <1>t DEF PartyState
  <2>3. d = ClosePartyChannel(Now, {p})
    BY <1>1 DEF ClosePartyChannel
  <2> HIDE DEF rest
  <2>4. d \in PartyState /\ d.of = g.of /\ d.invited = g.invited /\ d.parties = g.parties
        /\ \A x \in Parties : d.channels[x] \subseteq players
    BY <1>t, <2>2 DEF PartyState, Consistent, Present
  <2>5. \A q \in Players : g.of[q] # NoParty \/ g.invited[q] # {} => q \in players
    BY <1>t DEF Consistent, Present
  <2> HIDE DEF d
  <2>6. Consistent(d, players) /\ WithCompany(d)
    BY <1>t, <2>4, <2>5, PlayersChanged
  <2> QED
    BY <1>b, <2>1, <2>3, <2>6
<1>7. ASSUME NEW p \in Players, MemberActs(p) PROVE PartyInv'
  <2>1. PICK able \in BOOLEAN :
           parties' = [parties EXCEPT ![partyOf[p]] = UpdateSharedExperience(@, able)]
    BY <1>7 DEF MemberActs
  <2>2. partyOf[p] # NoParty /\ UNCHANGED <<online, partyOf, invitations, partyChannels>>
    BY <1>7 DEF MemberActs
  <2>3. PICK party \in PartyRecord :
           /\ party = parties[partyOf[p]] /\ Sound(party) /\ party.leader \in Players
           /\ ~IsEmpty(party)
    BY <2>2, OwnParty
  <2>4. PICK q : q = UpdateSharedExperience(party, able)
    OBVIOUS
  <2>5. /\ q \in PartyRecord
        /\ q.leader = party.leader /\ q.members = party.members
        /\ q.invitees = party.invitees /\ q.sharedActive = party.sharedActive
        /\ q.sharedActive /\ q.sharedEnabled => LevelsFit(q.leader, q.members)
    BY <2>4, SharedUpdated
  <2>6. Sound(q) /\ Company(q) = Company(party) /\ ~IsEmpty(q)
    BY <2>3, <2>5, PlayersAssumption DEF Sound, Company, IsEmpty
  <2>7. parties' = [parties EXCEPT ![partyOf[p]] = q]
    BY <2>1, <2>3, <2>4
  <2> QED
    BY <2>2, <2>3, <2>5, <2>6, <2>7, OnePartyWritten
<1>8. ASSUME NEW p \in Players, NEW active \in BOOLEAN, PlayerEnableSharedPartyExperience(p, active)
      PROVE  PartyInv'
  <2>2. partyOf[p] # NoParty /\ UNCHANGED <<online, partyOf, invitations, partyChannels>>
    BY <1>8 DEF PlayerEnableSharedPartyExperience
  <2>3. PICK party \in PartyRecord :
           /\ party = parties[partyOf[p]] /\ Sound(party) /\ party.leader \in Players
           /\ ~IsEmpty(party)
    BY <2>2, OwnParty
  <2> DEFINE r == [party EXCEPT !.sharedActive = active]
  <2>1. PICK able \in BOOLEAN :
           parties' = [parties EXCEPT ![partyOf[p]] = UpdateSharedExperience(r, able)]
    BY <1>8, <2>3 DEF PlayerEnableSharedPartyExperience
  <2>r. r \in PartyRecord /\ r.leader = party.leader /\ r.members = party.members
        /\ r.invitees = party.invitees
    BY DEF PartyRecord
  <2> HIDE DEF r
  <2>4. PICK q : q = UpdateSharedExperience(r, able)
    OBVIOUS
  <2>5. /\ q \in PartyRecord
        /\ q.leader = party.leader /\ q.members = party.members
        /\ q.invitees = party.invitees
        /\ q.sharedActive /\ q.sharedEnabled => LevelsFit(q.leader, q.members)
    BY <2>r, <2>4, SharedUpdated
  <2>6. Sound(q) /\ Company(q) = Company(party) /\ ~IsEmpty(q)
    BY <2>3, <2>5, PlayersAssumption DEF Sound, Company, IsEmpty
  <2>7. parties' = [parties EXCEPT ![partyOf[p]] = q]
    BY <2>1, <2>4
  <2> QED
    BY <2>2, <2>3, <2>5, <2>6, <2>7, OnePartyWritten
<1>9. ASSUME NEW p \in Players, NEW q \in Players, PlayerPassPartyLeadership(p, q)
      PROVE  PartyInv'
  <2>1. PICK able \in BOOLEAN :
           parties' = [parties EXCEPT ![partyOf[p]] = PassPartyLeadership(@, q, able)]
    BY <1>9 DEF PlayerPassPartyLeadership
  <2>2. /\ partyOf[p] # NoParty /\ UNCHANGED <<online, partyOf, invitations, partyChannels>>
        /\ partyOf[q] = partyOf[p] /\ p # q /\ parties[partyOf[p]].leader = p
    BY <1>9 DEF PlayerPassPartyLeadership
  <2>3. PICK party \in PartyRecord :
           /\ party = parties[partyOf[p]] /\ Sound(party) /\ party.leader = p
           /\ q \in Company(party)
    BY <2>2, OwnParty
  <2>4. In(q, party.members)
    BY <2>2, <2>3, CompanyIs
  <2>5. PICK r : r = PassPartyLeadership(party, q, able)
    OBVIOUS
  <2>6. /\ r \in PartyRecord /\ Sound(r) /\ r.leader = q /\ r.members # <<>>
        /\ Company(r) = Company(party) /\ r.invitees = party.invitees
    BY <2>3, <2>4, <2>5, LeadershipPassed
  <2>7. parties' = [parties EXCEPT ![partyOf[p]] = r] /\ ~IsEmpty(r)
    BY <2>1, <2>3, <2>5, <2>6 DEF IsEmpty
  <2> QED
    BY <2>2, <2>3, <2>6, <2>7, OnePartyWritten
<1>10. ASSUME NEW p \in Players, PlayerLeaveParty(p) PROVE PartyInv'
  <2>1. PICK able \in BOOLEAN : Become(LeaveParty(Now, p, able))
    BY <1>10 DEF PlayerLeaveParty
  <2>2. PICK d : d = LeaveParty(g, p, able)
    OBVIOUS
  <2>3. g.of[p] # NoParty /\ UNCHANGED online /\ Become(d)
    BY <1>1, <1>2, <1>10, <2>1, <2>2 DEF PlayerLeaveParty
  <2>4. Consistent(d, players) /\ WithCompany(d)
    BY <1>t, <2>2, <2>3, PartyLeftByPlayer
  <2> QED
    BY <1>b, <2>3, <2>4
<1>11. ASSUME NEW p \in Players, NEW q \in Players, PlayerRevokePartyInvitation(p, q)
       PROVE  PartyInv'
  <2>1. UNCHANGED online /\ Become(RemoveInvite(Now, {partyOf[p]}, q, TRUE)) /\ IsInviting(g, p, q)
    BY <1>1, <1>11 DEF PlayerRevokePartyInvitation
  <2>2. PICK x \in Parties : x = partyOf[p] /\ q \in g.parties[x].invitees
    BY <1>2, <1>t, <2>1 DEF IsInviting, PartyState
  <2>3. PICK d : d = RemoveInvite(g, {x}, q, TRUE)
    OBVIOUS
  <2>5. Consistent(d, players) /\ WithCompany(d)
    BY <1>t, <2>2, <2>3, InviteRevoked
  <2>6. Become(d)
    BY <1>1, <2>1, <2>2, <2>3
  <2> QED
    BY <1>b, <2>1, <2>5, <2>6
<1>12. ASSUME NEW p \in Players, NEW q \in Players, PlayerJoinParty(p, q)
       PROVE  PartyInv'
  <2>1. PICK able \in BOOLEAN : Become(JoinParty(Now, partyOf[q], p, able))
    BY <1>12 DEF PlayerJoinParty
  <2>2. UNCHANGED online /\ IsInviting(g, q, p) /\ g.of[p] = NoParty /\ p \in players
    BY <1>1, <1>2, <1>3, <1>12 DEF PlayerJoinParty
  <2>3. PICK x \in Parties : x = partyOf[q] /\ p \in g.parties[x].invitees
    BY <1>2, <1>t, <2>2 DEF IsInviting, PartyState
  <2>4. PICK d : d = JoinParty(g, x, p, able)
    OBVIOUS
  <2>5. Consistent(d, players) /\ WithCompany(d)
    BY <1>t, <2>2, <2>3, <2>4, PlayerJoined
  <2>6. Become(d)
    BY <1>1, <2>1, <2>3, <2>4
  <2> QED
    BY <1>b, <2>2, <2>5, <2>6
<1>13. ASSUME NEW p \in Players, NEW q \in Players, PlayerInviteToParty(p, q)
       PROVE  PartyInv'
  <2>1. UNCHANGED online /\ p \in players /\ q \in players
    BY <1>3, <1>13 DEF PlayerInviteToParty
  <2>2. CASE \E x \in Parties :
                /\ ~Live(x) /\ partyOf[p] = NoParty
                /\ Become(InvitePlayer(Founded(Now, x, p), x, q))
    <3>1. PICK x \in Parties :
             /\ ~Live(x) /\ partyOf[p] = NoParty
             /\ Become(InvitePlayer(Founded(Now, x, p), x, q))
      BY <2>2
    <3>2. g.parties[x].leader = NoPlayer /\ g.of[p] = NoParty
      BY <1>2, <3>1 DEF Live
    <3>3. PICK e : e = Founded(g, x, p)
      OBVIOUS
    <3>4. /\ Consistent(e, players) /\ e.parties[x].leader = p
          /\ \A y \in Parties \ {x} : e.parties[y] = g.parties[y]
      <4>1. Consistent(g, players) /\ p \in players /\ g.parties[x].leader = NoPlayer
            /\ g.of[p] = NoParty /\ e = Founded(g, x, p)
        BY <1>t, <2>1, <3>2, <3>3
      <4> QED
        BY ONLY <4>1, PartyFounded
    <3>5. PICK d : d = InvitePlayer(e, x, q)
      OBVIOUS
    <3>6. \A y \in Parties \ {x} : e.parties[y].leader # NoPlayer => ~IsEmpty(e.parties[y])
      BY <1>t, <3>4 DEF WithCompany
    <3>7. Consistent(d, players) /\ WithCompany(d)
      BY <2>1, <3>4, <3>5, <3>6, PlayerInvited
    <3>8. Become(d)
      BY <1>1, <3>1, <3>3, <3>5
    <3> QED
      BY <1>b, <2>1, <3>7, <3>8
  <2>3. CASE /\ partyOf[p] # NoParty /\ parties[partyOf[p]].leader = p
             /\ Become(InvitePlayer(Now, partyOf[p], q))
    <3>1. PICK x \in Parties : x = partyOf[p] /\ g.parties[x].leader \in Players
      BY <1>2, <2>3, OwnParty
    <3>2. PICK d : d = InvitePlayer(g, x, q)
      OBVIOUS
    <3>3. \A y \in Parties \ {x} : g.parties[y].leader # NoPlayer => ~IsEmpty(g.parties[y])
      BY <1>t DEF WithCompany
    <3>4. Consistent(d, players) /\ WithCompany(d)
      BY <1>t, <2>1, <3>1, <3>2, <3>3, PlayerInvited
    <3>5. Become(d)
      BY <1>1, <2>3, <3>1, <3>2
    <3> QED
      BY <1>b, <2>1, <3>4, <3>5
  <2> QED
    BY <1>13, <2>2, <2>3 DEF PlayerInviteToParty
<1>14. ASSUME NEW p \in Players, PlayerLogout(p) PROVE PartyInv'
  <2>1. PICK able \in BOOLEAN : Become(Removed(Now, p, able))
    BY <1>14 DEF PlayerLogout
  <2>2. PICK cleared : cleared = ClearPartyInvitations(g, p)
    OBVIOUS
  <2>3. Consistent(cleared, players) /\ WithCompany(cleared) /\ cleared.invited[p] = {}
    BY <1>t, <2>2, InvitationsCleared
  <2>4. PICK left : left = IF cleared.of[p] = NoParty THEN cleared ELSE LeaveParty(cleared, p, able)
    OBVIOUS
  <2>5. Consistent(left, players) /\ WithCompany(left) /\ left.invited[p] = {} /\ left.of[p] = NoParty
    <3>1. CASE cleared.of[p] = NoParty
      BY <2>3, <2>4, <3>1
    <3>2. CASE cleared.of[p] # NoParty
      <4>1. left = LeaveParty(cleared, p, able)
        BY <2>4, <3>2
      <4>2. /\ Consistent(left, players) /\ WithCompany(left)
            /\ left.of[p] = NoParty /\ left.invited[p] \subseteq cleared.invited[p]
        BY <2>3, <3>2, <4>1, PartyLeftByPlayer
      <4> QED
        BY <2>3, <4>2
    <3> QED
      BY <3>1, <3>2
  <2> DEFINE rest == [x \in Parties |-> left.channels[x] \ {p}]
             d == [left EXCEPT !.channels = rest]
  <2>6. left \in PartyState /\ Present(left, players)
    BY <2>5 DEF Consistent
  <2>7. rest \in [Parties -> SUBSET Players] /\ \A x \in Parties : rest[x] \subseteq players \ {p}
    BY <2>6 DEF PartyState, Present
  <2>8. d = Removed(g, p, able)
    BY <2>2, <2>4 DEF Removed
  <2> HIDE DEF rest
  <2>9. d \in PartyState /\ d.of = left.of /\ d.invited = left.invited /\ d.parties = left.parties
        /\ \A x \in Parties : d.channels[x] \subseteq players \ {p}
    BY <2>6, <2>7 DEF PartyState
  <2> HIDE DEF d
  <2>10. \A q \in Players : left.of[q] # NoParty \/ left.invited[q] # {} => q \in players \ {p}
    BY <2>5, <2>6 DEF Present
  <2>11. Consistent(d, players \ {p}) /\ WithCompany(d)
    BY <2>5, <2>9, <2>10, PlayersChanged
  <2>12. Become(d) /\ online' = players \ {p}
    BY <1>1, <1>3, <1>14, <2>1, <2>8 DEF PlayerLogout
  <2>13. d = Now'
    BY <2>9, <2>12, BecomeNow
  <2> QED
    BY <2>11, <2>12, <2>13, PartyThen
<1>15. CASE UNCHANGED partyVars
  <2>1. UNCHANGED <<online, partyOf, invitations, parties, partyChannels>>
    BY <1>15 DEF partyVars
  <2>2. partyChannels' \in [Parties -> SUBSET online']
    BY <1>c, <2>1
  <2> QED
    BY <1>3, <2>1, <2>2, OnlyPlayersWritten
<1> QED
  BY <1>4, <1>5, <1>6, <1>7, <1>8, <1>9, <1>10, <1>11, <1>12, <1>13, <1>14, <1>15 DEF PartyNext

\* The state before any player has a party.
PartyIdle ==
    /\ partyOf = [p \in Players |-> NoParty]
    /\ invitations = [p \in Players |-> {}]
    /\ parties = [x \in Parties |-> Freed]
    /\ partyChannels = [x \in Parties |-> {}]

\* Whoever is in the game then, the invariant holds.
LEMMA PartyStart == PartyIdle /\ online \subseteq Players => PartyInv
<1> SUFFICES ASSUME PartyIdle, online \subseteq Players PROVE PartyInv
  OBVIOUS
<1>1. PICK g : g = Now
  OBVIOUS
<1>2. g.of = partyOf /\ g.invited = invitations /\ g.parties = parties /\ g.channels = partyChannels
      /\ g = [of |-> partyOf, invited |-> invitations, parties |-> parties,
              channels |-> partyChannels]
  BY <1>1 DEF Now
<1>3. Freed \in PartyRecord /\ Freed.leader = NoPlayer /\ Freed.members = <<>>
      /\ Freed.invitees = {} /\ ~Freed.sharedActive
  BY DEF Freed, PartyRecord
<1>4. Sound(Freed) /\ \A p \in Players : p \notin Company(Freed)
  <2>1. \A p : ~In(p, <<>>)
    BY DEF In
  <2>2. NoDuplicate(<<>>)
    BY DEF NoDuplicate
  <2> QED
    BY <1>3, <2>1, <2>2, CompanyIs, PlayersAssumption DEF Sound
<1>5. /\ partyOf \in [Players -> Parties \cup {NoParty}] /\ \A p \in Players : partyOf[p] = NoParty
      /\ invitations \in [Players -> SUBSET Parties] /\ \A p \in Players : invitations[p] = {}
      /\ parties \in [Parties -> PartyRecord] /\ \A x \in Parties : parties[x] = Freed
      /\ partyChannels \in [Parties -> SUBSET Players] /\ \A x \in Parties : partyChannels[x] = {}
  BY <1>3 DEF PartyIdle
<1>6. g \in PartyState
  BY <1>2, <1>5 DEF PartyState
<1>7. \A x \in Parties : Tied(g, x)
  BY <1>2, <1>3, <1>4, <1>5, PartyAssumption DEF Tied
<1>8. Present(g, online) /\ WithCompany(g)
  BY <1>2, <1>3, <1>5 DEF Present, WithCompany
<1>9. Consistent(g, online)
  BY <1>2, <1>4, <1>5, <1>6, <1>7, <1>8 DEF Consistent
<1> QED
  BY <1>1, <1>8, <1>9 DEF PartyInv

\* The invariant says what the parties promise.
LEMMA PartyEnds == PartyInv => PartyAgrees
<1> SUFFICES ASSUME PartyInv PROVE PartyAgrees
  OBVIOUS
<1>1. PICK g : g = Now
  OBVIOUS
<1>2. g.of = partyOf /\ g.invited = invitations /\ g.parties = parties /\ g.channels = partyChannels
  BY <1>1 DEF Now
<1>3. Consistent(g, online) /\ WithCompany(g) /\ online \subseteq Players
  BY <1>1 DEF PartyInv
<1>4. /\ \A x \in Parties : Sound(parties[x]) /\ Tied(g, x) /\ parties[x] \in PartyRecord
      /\ partyOf \in [Players -> Parties \cup {NoParty}]
      /\ invitations \in [Players -> SUBSET Parties]
      /\ partyChannels \in [Parties -> SUBSET Players]
  BY <1>2, <1>3 DEF Consistent, PartyState
<1>5. \A x \in Parties :
        /\ Range(parties[x].members) \subseteq Players
        /\ parties[x].leader \in Players \cup {NoPlayer}
        /\ parties[x].invitees \subseteq Players
        /\ InParty(x) \ {NoPlayer} \subseteq Players
  <2> SUFFICES ASSUME NEW x \in Parties
               PROVE  /\ Range(parties[x].members) \subseteq Players
                      /\ parties[x].leader \in Players \cup {NoPlayer}
                      /\ parties[x].invitees \subseteq Players
                      /\ InParty(x) \ {NoPlayer} \subseteq Players
    OBVIOUS
  <2>1. /\ parties[x].members \in Seq(Players) /\ parties[x].leader \in Players \cup {NoPlayer}
        /\ parties[x].invitees \subseteq Players
    BY <1>4 DEF PartyRecord
  <2>2. Range(parties[x].members) \subseteq Players
    BY <2>1 DEF Range
  <2> QED
    BY <2>1, <2>2 DEF InParty, Company
<1>6. PartySymmetric
  <2> SUFFICES ASSUME NEW x \in Parties, NEW p \in Players
               PROVE  /\ partyOf[p] = x <=> p \in InParty(x)
                      /\ x \in invitations[p] <=> p \in parties[x].invitees
                      /\ parties[x].leader \notin Range(parties[x].members)
                      /\ IsInjective(parties[x].members)
    BY DEF PartySymmetric
  <2>1. partyOf[p] = x <=> p \in InParty(x)
    BY <1>2, <1>4 DEF Tied, InParty
  <2>2. x \in invitations[p] <=> p \in parties[x].invitees
    BY <1>2, <1>4 DEF Tied
  <2>3. parties[x].leader \notin Range(parties[x].members)
    BY <1>4 DEF Sound, In, Range
  <2>4. IsInjective(parties[x].members)
    BY <1>4 DEF Sound, NoDuplicate, IsInjective
  <2> QED
    BY <2>1, <2>2, <2>3, <2>4
<1>7. PartyKnowsOnline
  <2>1. \A x \in Parties :
          (InParty(x) \ {NoPlayer}) \cup parties[x].invitees \cup partyChannels[x] \subseteq online
    <3> SUFFICES ASSUME NEW x \in Parties
                 PROVE  /\ \A p \in Players : p \in InParty(x) \cup parties[x].invitees => p \in online
                        /\ partyChannels[x] \subseteq online
      BY <1>5
    <3>1. \A p \in Players : p \in InParty(x) \cup parties[x].invitees
                             => partyOf[p] = x \/ invitations[p] # {}
      BY <1>2, <1>4 DEF Tied, InParty
    <3> QED
      BY <1>2, <1>3, <3>1, PartyAssumption DEF Consistent, Present
  <2> QED
    BY <2>1 DEF PartyKnowsOnline
<1>8. PartyHasCompany
  BY <1>2, <1>3 DEF PartyHasCompany, WithCompany, Live
<1>9. SharedLevelsFit
  BY <1>4 DEF SharedLevelsFit, Sound
<1> QED
  BY <1>6, <1>7, <1>8, <1>9 DEF PartyAgrees

\* A party and its players agree, everyone in one is in the game, no party is
\* without company and experience is shared within the levels only, whatever
\* the players and the addresses of the parties (Party::leaveParty, removeInvite,
\* disband, passPartyLeadership).
THEOREM PartiesAgree == PartySpec => []PartyAgrees
<1>1. PartyInit => PartyInv
  BY PartyStart DEF PartyInit, PartyIdle
<1> QED
  BY <1>1, PartyStep, PartyEnds, PTL DEF PartySpec


-----------------------------------------------------------------------------
(***************************************************************************)
(* Trades.  What lies around an item is said of any placement of things.   *)
(***************************************************************************)
\* s has the bag of i and the bags of its members.
HoldsBags(at, i, s) == \A j \in s \cup {i} : at[j] \in Bags => at[j] \in s

\* s has what i lies in, and what the bags in it lie in.
HoldsAround(at, i, s) == at[i] \in s /\ \A b \in s \cap Bags : at[b] \in s

\* What lies around an item is the least such set.
LEMMA AroundIsLeast ==
    ASSUME NEW at, NEW i
    PROVE  /\ HoldsAround(at, i, Around(at, i))
           /\ \A s : HoldsAround(at, i, s) => Around(at, i) \subseteq s
<1>1. \A b \in Bags : b \in BagsAround(at, i)
                        <=> \A s \in SUBSET Bags : HoldsBags(at, i, s) => b \in s
  BY DEF BagsAround, HoldsBags
<1>2. BagsAround(at, i) \subseteq Bags
  BY DEF BagsAround
<1>3. \A x : x \in Around(at, i) <=> \E j \in BagsAround(at, i) \cup {i} : x = at[j]
  BY DEF Around
<1>4. ASSUME NEW b \in Around(at, i) \cap Bags PROVE at[b] \in Around(at, i)
  <2>1. PICK j \in BagsAround(at, i) \cup {i} : b = at[j]
    BY <1>3, <1>4
  <2>2. ASSUME NEW s \in SUBSET Bags, HoldsBags(at, i, s) PROVE b \in s
    BY <1>1, <1>2, <1>4, <2>1, <2>2 DEF HoldsBags
  <2>3. b \in BagsAround(at, i)
    BY <1>1, <1>4, <2>2
  <2> QED
    BY <1>3, <2>3
<1>5. ASSUME NEW s, HoldsAround(at, i, s) PROVE Around(at, i) \subseteq s
  <2>1. HoldsBags(at, i, s \cap Bags)
    BY <1>5 DEF HoldsBags, HoldsAround
  <2>2. BagsAround(at, i) \subseteq s
    BY <1>1, <1>2, <2>1
  <2> QED
    BY <1>2, <1>3, <1>5, <2>2 DEF HoldsAround
<1>6. at[i] \in Around(at, i)
  BY <1>3
<1> QED
  BY <1>4, <1>5, <1>6 DEF HoldsAround

\* What lies around what lies around i lies around i.
LEMMA AroundAround ==
    ASSUME NEW at, NEW i, NEW b \in Bags, b \in Around(at, i)
    PROVE  Around(at, b) \subseteq Around(at, i)
<1>1. HoldsAround(at, b, Around(at, i))
  BY AroundIsLeast DEF HoldsAround
<1> QED
  BY <1>1, AroundIsLeast

\* Only places lie around an item.
LEMMA AroundPlaces ==
    ASSUME NEW at \in [Items -> Places], NEW i \in Items
    PROVE  Around(at, i) \subseteq Places
<1>1. HoldsAround(at, i, Around(at, i) \cap Places)
  BY AroundIsLeast, TradeAssumption DEF HoldsAround
<1> QED
  BY <1>1, AroundIsLeast

\* i lies in one thing, and in what this lies in.
LEMMA AroundBegins ==
    ASSUME NEW at, NEW i, NEW x \in Around(at, i), x # at[i]
    PROVE  at[i] \in Bags /\ x \in Around(at, at[i])
<1> DEFINE s == {at[i]} \cup {y \in Around(at, at[i]) : at[i] \in Bags}
<1>1. HoldsAround(at, at[i], Around(at, at[i]))
  BY AroundIsLeast
<1>2. HoldsAround(at, i, s)
  BY <1>1 DEF HoldsAround
<1>3. x \in s
  BY <1>2, AroundIsLeast
<1> QED
  BY <1>3

\* All ways out of the bags end at one place.
LEMMA OneRoot ==
    ASSUME NEW at, NEW i, NEW r \in Around(at, i), NEW q \in Around(at, i),
           r \notin Bags, q \notin Bags
    PROVE  r = q
<1> DEFINE s == {r} \cup {b \in Bags : r \in Around(at, b)}
<1>1. ASSUME NEW j, r \in Around(at, j) PROVE at[j] \in s
  BY <1>1, AroundBegins
<1>2. HoldsAround(at, i, s)
  <2>1. at[i] \in s
    BY <1>1
  <2>2. ASSUME NEW b \in s \cap Bags PROVE at[b] \in s
    <3>1. r \in Around(at, b)
      BY <2>2
    <3> QED
      BY <1>1, <3>1
  <2> HIDE DEF s
  <2> QED
    BY <2>1, <2>2 DEF HoldsAround
<1>3. q \in s
  <2> HIDE DEF s
  <2> QED
    BY <1>2, AroundIsLeast
<1> QED
  BY <1>3

-----------------------------------------------------------------------------
\* i lies somewhere else, all else where it lay.
Relaid(old, new, i) ==
    /\ old \in [Items -> Places] /\ new \in [Items -> Places]
    /\ \A j \in Items \ {i} : new[j] = old[j]

\* What lies around another item did before, or lies around i now.
LEMMA AroundOthers ==
    ASSUME NEW old, NEW new, NEW i \in Items, Relaid(old, new, i), NEW j \in Items \ {i}
    PROVE  Around(new, j) \subseteq Around(old, j) \cup Around(new, i)
<1> DEFINE s == Around(old, j) \cup Around(new, i)
<1>1. HoldsAround(old, j, Around(old, j)) /\ HoldsAround(new, i, Around(new, i))
  BY AroundIsLeast
<1>2. Bags \subseteq Items
  BY TradeAssumption
<1>3. HoldsAround(new, j, s)
  <2>1. new[j] \in s
    BY <1>1 DEF Relaid, HoldsAround
  <2>2. ASSUME NEW b \in s \cap Bags PROVE new[b] \in s
    <3>1. CASE b = i
      BY <1>1, <3>1 DEF HoldsAround
    <3>2. CASE b # i
      BY <1>1, <1>2, <2>2, <3>2 DEF Relaid, HoldsAround
    <3> QED
      BY <3>1, <3>2
  <2> QED
    BY <2>1, <2>2 DEF HoldsAround
<1> QED
  BY <1>3, AroundIsLeast

\* An item that does not lie in i lies where it lay.
LEMMA AroundElsewhere ==
    ASSUME NEW old, NEW new, NEW i \in Items, Relaid(old, new, i), NEW j \in Items \ {i},
           i \notin Around(old, j)
    PROVE  Around(new, j) \subseteq Around(old, j)
<1>1. HoldsAround(old, j, Around(old, j)) /\ Bags \subseteq Items
  BY AroundIsLeast, TradeAssumption
<1>2. HoldsAround(new, j, Around(old, j))
  BY <1>1 DEF Relaid, HoldsAround
<1> QED
  BY <1>2, AroundIsLeast

\* Around i is where it lies now, and what lay around that.
LEMMA AroundMoved ==
    ASSUME NEW old, NEW new, NEW i \in Items, Relaid(old, new, i)
    PROVE  \A x \in Around(new, i) : x = new[i] \/ (new[i] \in Bags /\ x \in Around(old, new[i]))
<1> DEFINE s == {new[i]} \cup {x \in Around(old, new[i]) : new[i] \in Bags}
<1>1. HoldsAround(old, new[i], Around(old, new[i])) /\ Bags \subseteq Items
  BY AroundIsLeast, TradeAssumption
<1>2. HoldsAround(new, i, s)
  <2>1. ASSUME NEW b \in s \cap Bags PROVE new[b] \in s
    BY <1>1, <2>1 DEF Relaid, HoldsAround
  <2> QED
    BY <2>1 DEF HoldsAround
<1>3. Around(new, i) \subseteq s
  BY <1>2, AroundIsLeast
<1> QED
  BY <1>3

\* Nothing lies in itself.
Acyclic(at) == \A i \in Items : i \notin Around(at, i)

\* It still does not when i is put where it is not around.
LEMMA StaysAcyclic ==
    ASSUME NEW old, NEW new, NEW i \in Items, Relaid(old, new, i), Acyclic(old),
           new[i] # i, new[i] \in Bags => i \notin Around(old, new[i])
    PROVE  Acyclic(new)
<1>1. i \notin Around(new, i)
  BY AroundMoved
<1>2. ASSUME NEW j \in Items \ {i}, j \in Around(new, j) PROVE FALSE
  <2>1. j \notin Around(old, j)
    BY DEF Acyclic
  <2>2. i \in Around(old, j)
    BY <1>2, <2>1, AroundElsewhere
  <2>3. j \in Around(new, i)
    BY <1>2, <2>1, AroundOthers
  <2>4. j = new[i] \/ (new[i] \in Bags /\ j \in Around(old, new[i]))
    BY <2>3, AroundMoved
  <2>5. new[i] \in Places /\ Places \cap Items \subseteq Bags /\ old[j] \in Places
    BY TradeAssumption DEF Relaid, Places
  <2>6. CASE j = new[i]
    BY <2>2, <2>5, <2>6
  <2>7. CASE j # new[i] /\ j \in Bags
    BY <2>2, <2>4, <2>7, AroundAround
  <2>8. CASE j # new[i] /\ j \notin Bags
    BY <2>3, <2>5, <2>8, AroundPlaces DEF Relaid
  <2> QED
    BY <2>6, <2>7, <2>8
<1> QED
  BY <1>1, <1>2 DEF Acyclic

\* What a move of i changes about t: where it lies, or what is in it.
Untouched(old, new, t) ==
    new[t] = old[t] /\ \A j \in Items : Inside(new, j, t) <=> Inside(old, j, t)

\* t is untouched when neither i lay in it nor where i lies now is it or in it.
LEMMA LeftAlone ==
    ASSUME NEW old, NEW new, NEW i \in Items, Relaid(old, new, i), NEW t \in Items \ {i},
           t \notin Around(old, i), t \notin Around(new, i)
    PROVE  Untouched(old, new, t)
<1>1. Relaid(new, old, i)
  BY DEF Relaid
<1>2. ASSUME NEW j \in Items \ {i} PROVE t \in Around(new, j) <=> t \in Around(old, j)
  BY <1>1, AroundOthers
<1> QED
  BY <1>2 DEF Untouched, Inside, Relaid

\* What lies around t is the same, unless i did.
LEMMA LiesAsBefore ==
    ASSUME NEW old, NEW new, NEW i \in Items, Relaid(old, new, i), NEW t \in Items \ {i},
           i \notin Around(old, t)
    PROVE  Around(new, t) = Around(old, t)
<1>1. Around(new, t) \subseteq Around(old, t)
  BY AroundElsewhere
<1>2. Relaid(new, old, i) /\ i \notin Around(new, t)
  BY <1>1 DEF Relaid
<1>3. Around(old, t) \subseteq Around(new, t)
  BY <1>2, AroundElsewhere
<1> QED
  BY <1>1, <1>3

\* The callbacks tell of everything that touches an offer: who is not disturbed
\* by a move is not touched by it, and does not move along.
LEMMA UndisturbedIsUntouched ==
    ASSUME NEW old, NEW new, NEW i \in Items, Relaid(old, new, i), Acyclic(old),
           NEW t \in Items, ~DisturbedByRemoval(old, i, t), ~DisturbedByArrival(new, i, t)
    PROVE  /\ t # i /\ i \notin Around(old, t)
           /\ Untouched(old, new, t)
<1>1. t # i /\ t \notin Around(old, i)
  BY DEF DisturbedByRemoval, Inside
<1>2. t \notin Around(new, i)
  <2>1. new[i] \in Places /\ (new[i] \notin Bags => new[i] # t)
    BY TradeAssumption DEF Relaid, Places
  <2>2. CASE new[i] \in Bags
    BY <2>2 DEF DisturbedByArrival, Inside
  <2>3. CASE new[i] \notin Bags
    BY <2>1, <2>3, AroundMoved
  <2> QED
    BY <2>2, <2>3
<1>3. ASSUME i \in Around(old, t) PROVE FALSE
  <2>1. old[i] \in Bags
    BY <1>3 DEF DisturbedByRemoval, Inside
  <2>2. i \in Bags
    BY <1>3, AroundPlaces, TradeAssumption DEF Relaid, Places
  <2>3. old[i] \in Around(old, t)
    BY <1>3, <2>2, AroundIsLeast DEF HoldsAround
  <2>4. old[t] = old[i]
    BY <2>1, <2>3 DEF DisturbedByRemoval, Inside
  <2>5. i # old[i] /\ i \notin Around(old, i)
    BY AroundIsLeast DEF Acyclic, HoldsAround
  <2>6. i \in Around(old, old[t])
    BY <1>3, <2>4, <2>5, AroundBegins
  <2>7. i \in Around(old, i)
    BY <2>1, <2>4, <2>6, AroundIsLeast, AroundAround DEF HoldsAround
  <2> QED
    BY <2>5, <2>7
<1> QED
  BY <1>1, <1>2, <1>3, LeftAlone

-----------------------------------------------------------------------------
(***************************************************************************)
(* The states of traders, as a record.                                     *)
(***************************************************************************)
TradeRecords(on) ==
    [state : [Players -> {"none", "acknowledge", "initiated", "accept"}],
     partner : [Players -> on \cup {NoPlayer}],
     item : [Players -> Items \cup {NoItem}],
     offered : SUBSET Items]

Paired(t) ==
    \A p \in Players :
        IF t.state[p] = "none" THEN t.partner[p] = NoPlayer /\ t.item[p] = NoItem
        ELSE /\ t.partner[p] # NoPlayer /\ t.partner[t.partner[p]] = p
             /\ t.item[p] # NoItem \/ t.item[t.partner[p]] # NoItem

\* Who has only been asked offers nothing yet.
AskedFirst(t) == \A p \in Players : t.state[p] = "acknowledge" => t.item[p] = NoItem

OffersListed(t) ==
    /\ t.offered = {t.item[p] : p \in Players} \ {NoItem}
    /\ \A p, q \in Players : p # q /\ t.item[p] # NoItem => t.item[p] # t.item[q]

Traded(t, on) ==
    on \subseteq Players /\ t \in TradeRecords(on) /\ Paired(t) /\ AskedFirst(t) /\ OffersListed(t)

\* Player::checkTradeState of several players, Game::internalCloseTrade of one:
\* they and their partners trade no more, and the others as before.
LEMMA TradesClosed ==
    ASSUME NEW t, NEW on, Traded(t, on), NEW stopped \in SUBSET Players
    PROVE  /\ Traded(CloseTrades(t, stopped), on)
           /\ Traded(CloseTrades(t, stopped), on \ stopped)
           /\ \A p \in Players : CloseTrades(t, stopped).item[p] \in {t.item[p], NoItem}
           /\ \A p \in stopped : CloseTrades(t, stopped).item[p] = NoItem
<1>1. PICK both : both = (stopped \cup {t.partner[p] : p \in stopped}) \ {NoPlayer}
  OBVIOUS
<1>2. PICK u : u = [state |-> [q \in Players |-> IF q \in both THEN "none" ELSE t.state[q]],
         partner |-> [q \in Players |-> IF q \in both THEN NoPlayer ELSE t.partner[q]],
         item |-> [q \in Players |-> IF q \in both THEN NoItem ELSE t.item[q]],
         offered |-> t.offered \ {t.item[q] : q \in both}]
  OBVIOUS
<1>3. CloseTrades(t, stopped) = u
  BY <1>1, <1>2 DEF CloseTrades
<1>4. /\ t \in TradeRecords(on) /\ Paired(t) /\ AskedFirst(t) /\ OffersListed(t) /\ on \subseteq Players
      /\ NoPlayer \notin Players
  BY PlayersAssumption DEF Traded
<1>5. /\ \A p \in Players : t.partner[p] \in on \cup {NoPlayer}
      /\ \A p \in Players : t.item[p] \in Items \cup {NoItem}
      /\ \A p \in Players : t.state[p] \in {"none", "acknowledge", "initiated", "accept"}
      /\ t.offered \subseteq Items
  BY <1>4 DEF TradeRecords
<1>6. both \subseteq Players /\ stopped \subseteq both
  BY <1>1, <1>4, <1>5
<1>7. \A p \in Players : t.partner[p] # NoPlayer =>
        /\ t.partner[p] \in Players /\ t.partner[t.partner[p]] = p
        /\ (p \in both <=> t.partner[p] \in both)
  BY <1>1, <1>4, <1>5 DEF Paired
<1>8. /\ u \in TradeRecords(on) /\ u \in TradeRecords(on \ stopped)
  <2>1. \A q \in Players : q \notin both => t.partner[q] \in (on \ stopped) \cup {NoPlayer}
    BY <1>5, <1>6, <1>7
  <2>2. [q \in Players |-> IF q \in both THEN NoPlayer ELSE t.partner[q]]
          \in [Players -> (on \ stopped) \cup {NoPlayer}]
    BY <2>1
  <2>3. [q \in Players |-> IF q \in both THEN NoPlayer ELSE t.partner[q]]
          \in [Players -> on \cup {NoPlayer}]
    BY <1>5
  <2>4. [q \in Players |-> IF q \in both THEN "none" ELSE t.state[q]]
          \in [Players -> {"none", "acknowledge", "initiated", "accept"}]
    BY <1>5
  <2>5. [q \in Players |-> IF q \in both THEN NoItem ELSE t.item[q]]
          \in [Players -> Items \cup {NoItem}]
    BY <1>5
  <2>6. t.offered \ {t.item[q] : q \in both} \in SUBSET Items
    BY <1>5
  <2> QED
    BY <1>2, <2>2, <2>3, <2>4, <2>5, <2>6 DEF TradeRecords
<1>9. /\ \A q \in Players : u.state[q] = IF q \in both THEN "none" ELSE t.state[q]
      /\ \A q \in Players : u.partner[q] = IF q \in both THEN NoPlayer ELSE t.partner[q]
      /\ \A q \in Players : u.item[q] = IF q \in both THEN NoItem ELSE t.item[q]
      /\ u.offered = t.offered \ {t.item[q] : q \in both}
  BY <1>2
<1>10. Paired(u)
  BY <1>4, <1>5, <1>7, <1>9 DEF Paired
<1>11. AskedFirst(u)
  BY <1>4, <1>9 DEF AskedFirst
<1>12. OffersListed(u)
  <2>1. \A p, q \in Players : p # q /\ u.item[p] # NoItem => u.item[p] # u.item[q]
    BY <1>4, <1>9 DEF OffersListed
  <2>2. u.offered = {u.item[p] : p \in Players} \ {NoItem}
    BY <1>4, <1>6, <1>9 DEF OffersListed
  <2> QED
    BY <2>1, <2>2 DEF OffersListed
<1>13. Traded(u, on) /\ Traded(u, on \ stopped)
  BY <1>4, <1>8, <1>10, <1>11, <1>12 DEF Traded
<1> QED
  BY <1>3, <1>6, <1>9, <1>13

-----------------------------------------------------------------------------
\* No offer is another or in another, and each is where its owner reaches it.
OffersApart(at, item) ==
    \A p, q \in Players :
        p # q /\ item[p] # NoItem /\ item[q] # NoItem
        => item[p] # item[q] /\ ~Inside(at, item[p], item[q])

Reached(at, item) ==
    \A p \in Players : item[p] # NoItem =>
        p \in Around(at, item[p]) \/ Ground \in Around(at, item[p])

\* The record of the trades and where things are, together.
TradeInv ==
    /\ Traded(Trades, online)
    /\ place \in [Items -> Places] /\ Acyclic(place)
    /\ OffersApart(place, tradeItem) /\ Reached(place, tradeItem)

\* Nobody trades yet, and nothing is in a bag, so nothing is in itself.
LEMMA TradeInvInit == TradeInit => TradeInv
<1> SUFFICES ASSUME TradeInit PROVE TradeInv
  OBVIOUS
<1>1. /\ Trades.state = [p \in Players |-> "none"] /\ Trades.partner = [p \in Players |-> NoPlayer]
      /\ Trades.item = [p \in Players |-> NoItem] /\ Trades.offered = {} /\ online = {}
      /\ tradeItem = [p \in Players |-> NoItem]
  BY DEF TradeInit, NoTrades, Trades
<1>2. Trades \in TradeRecords(online)
  BY <1>1 DEF TradeRecords, Trades
<1>3. Traded(Trades, online)
  BY <1>1, <1>2 DEF Traded, Paired, AskedFirst, OffersListed
<1>4. place \in [Items -> Players \cup {Ground}] /\ place \in [Items -> Places]
  BY DEF TradeInit, Places
<1>5. ASSUME NEW i \in Items PROVE i \notin Around(place, i)
  <2>1. HoldsAround(place, i, {place[i]})
    BY <1>4, TradeAssumption DEF HoldsAround
  <2>2. i # place[i]
    BY <1>4, TradeAssumption
  <2> QED
    BY <2>1, <2>2, AroundIsLeast
<1> QED
  BY <1>1, <1>3, <1>4, <1>5 DEF TradeInv, Acyclic, OffersApart, Reached

\* An offer that goes on is not touched.
OffersLast ==
    \A p \in Players : tradeItem[p] # NoItem /\ tradeItem'[p] = tradeItem[p]
                       => Untouched(place, place', tradeItem[p])

\* What a handler makes of the record.
LEMMA TradesWritten ==
    ASSUME NEW on, NEW u, Traded(u, on), Settle(u)
    PROVE  Traded(Trades', on) /\ tradeItem' = u.item
<1>1. u \in TradeRecords(on)
  BY DEF Traded
<1>2. u = [state |-> u.state, partner |-> u.partner, item |-> u.item, offered |-> u.offered]
  BY <1>1 DEF TradeRecords
<1>3. Trades' = [state |-> u.state, partner |-> u.partner, item |-> u.item, offered |-> u.offered]
  BY DEF Trades, Settle
<1>4. Trades' = u
  BY <1>2, <1>3
<1> QED
  BY <1>4 DEF Settle

\* Trades end while everything stays where it is.
LEMMA OnlyTradesEnd ==
    ASSUME TradeInv, UNCHANGED place, NEW u, Traded(u, online'), Settle(u),
           \A p \in Players : u.item[p] \in {tradeItem[p], NoItem}
    PROVE  TradeInv' /\ OffersLast
<1>1. Traded(Trades', online') /\ tradeItem' = u.item
  BY TradesWritten
<1>2. OffersApart(place', tradeItem') /\ Reached(place', tradeItem')
  BY <1>1 DEF TradeInv, OffersApart, Reached
<1>3. OffersLast
  BY DEF OffersLast, Untouched
<1> QED
  BY <1>1, <1>2, <1>3 DEF TradeInv

\* Who comes into the game trades with nobody.
LEMMA LoginKeepsTrades ==
    ASSUME TradeInv, NEW p \in Players, TraderLogin(p)
    PROVE  TradeInv' /\ OffersLast
<1>1. /\ Traded(Trades, online) /\ online' = online \cup {p} /\ UNCHANGED place
      /\ Trades' = Trades /\ Trades.item = tradeItem
  BY DEF TradeInv, TraderLogin, Trades
<1>2. Trades \in TradeRecords(online')
  BY <1>1 DEF Traded, TradeRecords
<1>3. Traded(Trades, online')
  BY <1>1, <1>2 DEF Traded
<1>4. Settle(Trades)
  BY DEF TraderLogin, Settle, Trades
<1> QED
  BY <1>1, <1>3, <1>4, OnlyTradesEnd

\* Who leaves the game closes the trade, so no one is left with them as a partner.
LEMMA LogoutKeepsTrades ==
    ASSUME TradeInv, NEW p \in Players, TraderLogout(p)
    PROVE  TradeInv' /\ OffersLast
<1>1. /\ Traded(Trades, online) /\ online' = online \ {p} /\ UNCHANGED place
      /\ Trades.item = tradeItem /\ Trades.partner = tradePartner
  BY DEF TradeInv, TraderLogout, Trades
<1>2. CASE tradePartner[p] # NoPlayer
  <2>1. PICK u : u = CloseTrades(Trades, {p})
    OBVIOUS
  <2>2. /\ Traded(u, online \ {p})
        /\ \A q \in Players : u.item[q] \in {Trades.item[q], NoItem}
    BY <1>1, <2>1, TradesClosed
  <2>3. Settle(u)
    BY <1>2, <2>1 DEF TraderLogout, InternalCloseTrade
  <2> QED
    BY <1>1, <2>2, <2>3, OnlyTradesEnd
<1>3. CASE tradePartner[p] = NoPlayer
  <2>1. \A q \in Players : Trades.partner[q] \in (online \ {p}) \cup {NoPlayer}
    <3>1. \A q \in Players : Trades.partner[q] \in online \cup {NoPlayer}
      BY <1>1 DEF Traded, TradeRecords
    <3>2. \A q \in Players : Trades.partner[q] # NoPlayer => Trades.partner[Trades.partner[q]] = q
      BY <1>1 DEF Traded, Paired
    <3> QED
      BY <1>1, <1>3, <3>1, <3>2, PlayersAssumption
  <2>2. Trades \in TradeRecords(online \ {p})
    BY <1>1, <2>1 DEF Traded, TradeRecords
  <2>3. Traded(Trades, online \ {p})
    BY <1>1, <2>2 DEF Traded
  <2>4. Settle(Trades)
    BY <1>3 DEF TraderLogout
  <2> QED
    BY <1>1, <2>3, <2>4, OnlyTradesEnd
<1> QED
  BY <1>2, <1>3

\* To close a trade, or to walk away from it, ends it for both.
LEMMA CloseKeepsTrades ==
    ASSUME TradeInv, NEW p \in Players, PlayerCloseTrade(p) \/ TraderStepsAway(p)
    PROVE  TradeInv' /\ OffersLast
<1>1. /\ Traded(Trades, online) /\ online' = online /\ UNCHANGED place /\ Trades.item = tradeItem
  BY DEF TradeInv, PlayerCloseTrade, TraderStepsAway, Trades
<1>2. PICK u : u = CloseTrades(Trades, {p})
  OBVIOUS
<1>3. /\ Traded(u, online)
      /\ \A q \in Players : u.item[q] \in {Trades.item[q], NoItem}
  BY <1>1, <1>2, TradesClosed
<1>4. Settle(u)
  BY <1>2 DEF PlayerCloseTrade, TraderStepsAway, InternalCloseTrade
<1> QED
  BY <1>1, <1>3, <1>4, OnlyTradesEnd

\* Whatever a player moves ends the trades that it touches.
LEMMA MoveKeepsTrades ==
    ASSUME TradeInv, NEW p \in Players, NEW i \in Items, NEW to \in Places, PlayerMoveItem(p, i, to)
    PROVE  TradeInv' /\ OffersLast
<1>1. /\ Traded(Trades, online) /\ online' = online /\ Trades.item = tradeItem
      /\ place \in [Items -> Places] /\ Acyclic(place)
      /\ OffersApart(place, tradeItem) /\ Reached(place, tradeItem)
  BY DEF TradeInv, PlayerMoveItem, Trades
<1>2. /\ place' = [place EXCEPT ![i] = to]
      /\ to \in {p, Ground} \/ (to # i /\ ~Inside(place, to, i))
  BY DEF PlayerMoveItem
<1>3. Relaid(place, place', i) /\ place'[i] = to
  BY <1>1, <1>2 DEF Relaid
<1>4. Acyclic(place')
  <2>1. to # i /\ (to \in Bags => i \notin Around(place, to))
    BY <1>2, TradeAssumption DEF Inside
  <2> QED
    BY <1>1, <1>3, <2>1, StaysAcyclic
<1>5. PICK stopped \in SUBSET Players : stopped = Disturbed(i, place')
  BY DEF Disturbed, Offering
<1>6. PICK u : u = CloseTrades(Trades, stopped)
  OBVIOUS
<1>7. /\ Traded(u, online) /\ Settle(u)
      /\ \A q \in Players : u.item[q] \in {tradeItem[q], NoItem}
      /\ \A q \in stopped : u.item[q] = NoItem
  BY <1>1, <1>5, <1>6, TradesClosed DEF PlayerMoveItem
<1>8. Traded(Trades', online') /\ tradeItem' = u.item
  BY <1>1, <1>7, TradesWritten
<1>9. \A q \in Players : tradeItem[q] \in Items \cup {NoItem}
  BY <1>1 DEF Traded, TradeRecords
<1>10. ASSUME NEW q \in Players, tradeItem'[q] # NoItem
       PROVE  /\ tradeItem'[q] = tradeItem[q] /\ tradeItem[q] \in Items \ {i}
              /\ i \notin Around(place, tradeItem[q])
              /\ Untouched(place, place', tradeItem[q])
  <2>1. q \notin stopped /\ tradeItem'[q] = tradeItem[q] /\ tradeItem[q] # NoItem
    BY <1>7, <1>8, <1>10
  <2>2. tradeItem[q] \in Items
    BY <1>9, <2>1
  <2>3. /\ ~DisturbedByRemoval(place, i, tradeItem[q])
        /\ ~DisturbedByArrival(place', i, tradeItem[q])
    BY <1>5, <2>1 DEF Disturbed, Offering
  <2> QED
    BY <1>1, <1>3, <2>1, <2>2, <2>3, UndisturbedIsUntouched
<1>11. OffersApart(place', tradeItem')
  BY <1>1, <1>10 DEF OffersApart, Untouched
<1>12. Reached(place', tradeItem')
  <2>1. ASSUME NEW q \in Players, tradeItem'[q] # NoItem
        PROVE  Around(place', tradeItem'[q]) = Around(place, tradeItem[q])
    BY <1>3, <1>10, <2>1, LiesAsBefore
  <2> QED
    BY <1>1, <1>10, <2>1 DEF Reached
<1>13. place' \in [Items -> Places]
  BY <1>3 DEF Relaid
<1>14. OffersLast
  BY <1>10 DEF OffersLast
<1> QED
  BY <1>1, <1>4, <1>8, <1>11, <1>12, <1>13, <1>14 DEF TradeInv

\* A second player asks back, or the first asks one who does not trade.
LEMMA RequestKeepsTrades ==
    ASSUME TradeInv, NEW p \in Players, NEW q \in Players, NEW i \in Items,
           PlayerRequestTrade(p, q, i)
    PROVE  TradeInv' /\ OffersLast
<1>1. /\ Trades \in TradeRecords(online) /\ Paired(Trades) /\ AskedFirst(Trades) /\ OffersListed(Trades)
      /\ online \subseteq Players /\ NoPlayer \notin Players /\ NoItem \notin Items
      /\ place \in [Items -> Places] /\ Acyclic(place)
      /\ OffersApart(place, tradeItem) /\ Reached(place, tradeItem)
      /\ Trades.state = tradeState /\ Trades.partner = tradePartner /\ Trades.item = tradeItem
      /\ Trades.offered = tradeItems
  BY PlayersAssumption, TradeAssumption DEF TradeInv, Traded, Trades
<1>2. /\ tradeState \in [Players -> {"none", "acknowledge", "initiated", "accept"}]
      /\ tradePartner \in [Players -> online \cup {NoPlayer}]
      /\ tradeItem \in [Players -> Items \cup {NoItem}]
      /\ tradeItems \in SUBSET Items
  BY <1>1 DEF TradeRecords
<1>3. /\ p \in online /\ q \in online /\ p # q /\ UNCHANGED <<online, place>>
      /\ Reach(p, i) /\ ~AlreadyTraded(i) /\ MayStartTrade(p, q)
      /\ tradeItem' = [tradeItem EXCEPT ![p] = i]
      /\ tradeItems' = tradeItems \cup {i}
  BY DEF PlayerRequestTrade
<1>4. /\ tradeState' = [tradeState EXCEPT ![p] = "initiated",
                           ![q] = IF tradeState[q] = "none" THEN "acknowledge" ELSE @]
      /\ tradePartner' = [tradePartner EXCEPT ![p] = q,
                           ![q] = IF tradeState[q] = "none" THEN p ELSE @]
  BY DEF PlayerRequestTrade
<1>5. \A r \in Players :
        IF tradeState[r] = "none" THEN tradePartner[r] = NoPlayer /\ tradeItem[r] = NoItem
        ELSE /\ tradePartner[r] # NoPlayer /\ tradePartner[tradePartner[r]] = r
             /\ tradeItem[r] # NoItem \/ tradeItem[tradePartner[r]] # NoItem
  BY <1>1 DEF Paired
<1>6. \/ tradeState[p] = "none" /\ tradeState[q] = "none"
      \/ /\ tradeState[p] = "acknowledge" /\ tradeState[q] # "none"
         /\ tradePartner[p] = q /\ tradePartner[q] = p
  BY <1>1, <1>2, <1>3, <1>5 DEF MayStartTrade
<1>7. tradeItem[p] = NoItem
  BY <1>1, <1>5, <1>6 DEF AskedFirst
<1>8. \A r \in Players \ {p, q} :
        /\ tradeState'[r] = tradeState[r] /\ tradePartner'[r] = tradePartner[r]
        /\ tradeItem'[r] = tradeItem[r] /\ tradePartner[r] \notin {p, q}
  BY <1>1, <1>2, <1>3, <1>4, <1>5, <1>6
<1>9. /\ tradeState'[p] = "initiated" /\ tradePartner'[p] = q /\ tradePartner'[q] = p
      /\ tradeItem'[p] = i /\ tradeItem'[q] = tradeItem[q]
      /\ IF tradeState[q] = "none" THEN tradeState'[q] = "acknowledge"
         ELSE tradeState'[q] = tradeState[q]
  BY <1>2, <1>3, <1>4, <1>6
<1>10. Trades' \in TradeRecords(online')
  <2>1. /\ tradeState' \in [Players -> {"none", "acknowledge", "initiated", "accept"}]
        /\ tradePartner' \in [Players -> online \cup {NoPlayer}]
        /\ tradeItem' \in [Players -> Items \cup {NoItem}]
        /\ tradeItems' \in SUBSET Items
    BY <1>2, <1>3, <1>4
  <2> QED
    BY <1>3, <2>1 DEF TradeRecords, Trades
<1>11. Paired(Trades')
  <2>1. \A r \in Players :
          IF tradeState'[r] = "none" THEN tradePartner'[r] = NoPlayer /\ tradeItem'[r] = NoItem
          ELSE /\ tradePartner'[r] # NoPlayer /\ tradePartner'[tradePartner'[r]] = r
               /\ tradeItem'[r] # NoItem \/ tradeItem'[tradePartner'[r]] # NoItem
    <3>1. ASSUME NEW r \in Players \ {p, q}
          PROVE  IF tradeState'[r] = "none" THEN tradePartner'[r] = NoPlayer /\ tradeItem'[r] = NoItem
                 ELSE /\ tradePartner'[r] # NoPlayer /\ tradePartner'[tradePartner'[r]] = r
                      /\ tradeItem'[r] # NoItem \/ tradeItem'[tradePartner'[r]] # NoItem
      <4>1. tradePartner[r] # NoPlayer => tradePartner[r] \in Players \ {p, q}
        BY <1>1, <1>2, <1>8
      <4> QED
        BY <1>5, <1>8, <4>1
    <3>2. tradeState'[p] # "none" /\ tradeState'[q] # "none"
      BY <1>9
    <3> QED
      BY <1>1, <1>9, <3>1, <3>2
  <2> QED
    BY <2>1 DEF Paired, Trades
<1>12. AskedFirst(Trades')
  <2>1. \A r \in Players : tradeState'[r] = "acknowledge" => tradeItem'[r] = NoItem
    BY <1>1, <1>5, <1>8, <1>9 DEF AskedFirst
  <2> QED
    BY <2>1 DEF AskedFirst, Trades
<1>13. /\ i \notin tradeItems
       /\ \A t \in tradeItems : ~Inside(place, t, i) /\ ~Inside(place, i, t)
  BY <1>3 DEF AlreadyTraded
<1>14. /\ \A r \in Players \ {p} : tradeItem'[r] = tradeItem[r]
       /\ \A r \in Players : tradeItem[r] # NoItem => tradeItem[r] \in tradeItems
  BY <1>1, <1>8, <1>9 DEF OffersListed
<1>15. OffersListed(Trades')
  <2>1. tradeItems = {tradeItem[r] : r \in Players} \ {NoItem}
    BY <1>1 DEF OffersListed
  <2>2. tradeItems' = {tradeItem'[r] : r \in Players} \ {NoItem}
    BY <1>1, <1>3, <1>7, <1>9, <1>14, <2>1
  <2>3. \A r, s \in Players : r # s /\ tradeItem'[r] # NoItem => tradeItem'[r] # tradeItem'[s]
    BY <1>1, <1>9, <1>13, <1>14 DEF OffersListed
  <2> QED
    BY <2>2, <2>3 DEF OffersListed, Trades
<1>16. OffersApart(place, tradeItem')
  BY <1>1, <1>9, <1>13, <1>14 DEF OffersApart
<1>17. Reached(place, tradeItem')
  BY <1>1, <1>3, <1>9, <1>14 DEF Reached, Reach
<1>18. OffersLast
  BY <1>3 DEF OffersLast, Untouched
<1> QED
  BY <1>1, <1>3, <1>10, <1>11, <1>12, <1>15, <1>16, <1>17, <1>18 DEF TradeInv, Traded

-----------------------------------------------------------------------------
\* A place of q's own is q's hand or a bag around which q is.
LEMMA OwnPlace ==
    ASSUME NEW at \in [Items -> Places], NEW q \in Players, NEW i \in Items,
           NEW there \in OwnPlaces(at, q, i)
    PROVE  /\ there # i /\ there \in Places
           /\ there = q \/ (there \in Bags /\ q \in Around(at, there))
           /\ there \in Bags => i \notin Around(at, there)
<1>1. /\ q \in Places /\ Bags \subseteq Places /\ q \notin Bags /\ q \notin Items /\ Bags \subseteq Items
  BY TradeAssumption DEF Places
<1>2. CASE there = q
  BY <1>1, <1>2
<1>3. CASE there # q
  <2>1. \/ there \in Bags /\ at[there] = q /\ there # i
        \/ /\ there \in Bags /\ there # i /\ ~Inside(at, there, i)
           /\ \E b \in Bags : at[b] = q /\ b \in Around(at, there)
    BY <1>3 DEF OwnPlaces
  <2>2. CASE there \in Bags /\ at[there] = q /\ there # i
    BY <1>1, <2>2, AroundIsLeast, AroundBegins DEF HoldsAround
  <2>3. CASE /\ there \in Bags /\ there # i /\ ~Inside(at, there, i)
             /\ \E b \in Bags : at[b] = q /\ b \in Around(at, there)
    BY <1>1, <2>3, AroundIsLeast DEF HoldsAround, Inside
  <2> QED
    BY <2>1, <2>2, <2>3
<1> QED
  BY <1>2, <1>3

\* An item that is given to q leaves the offers of others as they are.
LEMMA GivenAway ==
    ASSUME NEW old, NEW new, NEW i \in Items, Relaid(old, new, i), Acyclic(old),
           NEW q \in Players, new[i] \in OwnPlaces(old, q, i)
    PROVE  /\ Acyclic(new)
           /\ \A t \in Items \ {i}, r \in (Players \ {q}) \cup {Ground} :
                 r \in Around(old, t) /\ i \notin Around(old, t) /\ t \notin Around(old, i)
                 => Untouched(old, new, t) /\ Around(new, t) = Around(old, t)
<1> DEFINE there == new[i]
<1>1. old \in [Items -> Places]
  BY DEF Relaid
<1>2. /\ there # i /\ there \in Places
      /\ there = q \/ (there \in Bags /\ q \in Around(old, there))
      /\ there \in Bags => i \notin Around(old, there)
  BY <1>1, OwnPlace
<1>3. Acyclic(new)
  BY <1>2, StaysAcyclic
<1>4. ASSUME NEW t \in Items \ {i}, NEW r \in (Players \ {q}) \cup {Ground},
             r \in Around(old, t), i \notin Around(old, t), t \notin Around(old, i)
      PROVE  Untouched(old, new, t) /\ Around(new, t) = Around(old, t)
  <2>1. /\ r \notin Bags /\ q \notin Bags /\ q \notin Items /\ r # q /\ Bags \subseteq Items
        /\ Places \cap Items \subseteq Bags
    BY TradeAssumption DEF Places
  <2>2. q \notin Around(old, t)
    BY <1>4, <2>1, OneRoot
  <2>3. ASSUME t \in Around(new, i) PROVE FALSE
    <3>1. t = there \/ (there \in Bags /\ t \in Around(old, there))
      BY <2>3, AroundMoved
    <3>2. there \in Bags /\ t \in Around(old, there)
      BY <1>2, <2>1, <2>2, <3>1
    <3>3. t \in Bags
      BY <1>1, <2>1, <3>2, AroundPlaces
    <3>4. r \in Around(old, there)
      BY <1>4, <3>2, <3>3, AroundAround
    <3> QED
      BY <1>2, <2>1, <3>2, <3>4, OneRoot
  <2> QED
    BY <1>4, <2>3, LeftAlone, LiesAsBefore
<1> QED
  BY <1>3, <1>4

\* The exchange gives both items away, or the first only.
LEMMA ExchangeKeepsTrades ==
    ASSUME TradeInv, NEW p \in Players, NEW q \in Players, p # q, Exchange(p, q),
           tradeItem[p] \in Items, tradeItem[q] \in Items,
           tradeItem'[p] = NoItem, tradeItem'[q] = NoItem,
           \A r \in Players : tradeItem'[r] \in {tradeItem[r], NoItem}
    PROVE  /\ place' \in [Items -> Places] /\ Acyclic(place')
           /\ OffersApart(place', tradeItem') /\ Reached(place', tradeItem') /\ OffersLast
<1>1. PICK i \in Items, j \in Items : i = tradeItem[p] /\ j = tradeItem[q]
  OBVIOUS
<1>2. PICK there \in OwnPlaces(place, q, i) :
         \/ place' = [place EXCEPT ![i] = there]
         \/ \E h \in OwnPlaces([place EXCEPT ![i] = there], p, j) :
                place' = [[place EXCEPT ![i] = there] EXCEPT ![j] = h]
  BY <1>1 DEF Exchange
<1>3. PICK moved : moved = [place EXCEPT ![i] = there]
  OBVIOUS
<1>4. /\ Acyclic(place) /\ place \in [Items -> Places] /\ NoItem \notin Items
      /\ OffersApart(place, tradeItem) /\ Reached(place, tradeItem)
      /\ \A r \in Players : tradeItem[r] \in Items \cup {NoItem}
  BY TradeAssumption DEF TradeInv, Traded, TradeRecords, Trades
<1>5. there \in Places
  BY <1>4, OwnPlace
<1>6. Relaid(place, moved, i) /\ moved[i] = there
  BY <1>3, <1>4, <1>5 DEF Relaid
<1>7. Acyclic(moved)
  BY <1>2, <1>4, <1>6, GivenAway
<1>8. ASSUME NEW r \in Players, tradeItem'[r] # NoItem
      PROVE  /\ r \notin {p, q} /\ tradeItem'[r] = tradeItem[r] /\ tradeItem[r] \in Items \ {i, j}
             /\ \A k \in {i, j} : k \notin Around(place, tradeItem[r])
                               /\ tradeItem[r] \notin Around(place, k)
             /\ r \in Around(place, tradeItem[r]) \/ Ground \in Around(place, tradeItem[r])
  <2>1. r \notin {p, q} /\ tradeItem'[r] = tradeItem[r] /\ tradeItem[r] # NoItem
    BY <1>8
  <2> QED
    BY <1>1, <1>4, <2>1 DEF OffersApart, Reached, Inside
<1>9. ASSUME NEW r \in Players, tradeItem'[r] # NoItem
      PROVE  /\ Untouched(place, moved, tradeItem[r])
             /\ Around(moved, tradeItem[r]) = Around(place, tradeItem[r])
  <2>1. PICK t : t = tradeItem[r]
    OBVIOUS
  <2>2. PICK root \in {r, Ground} : root \in Around(place, t)
    BY <1>8, <1>9, <2>1
  <2>3. root \in (Players \ {q}) \cup {Ground} /\ t \in Items \ {i}
        /\ i \notin Around(place, t) /\ t \notin Around(place, i)
    BY <1>8, <1>9, <2>1, <2>2
  <2> QED
    BY <1>2, <1>4, <1>6, <2>1, <2>2, <2>3, GivenAway
<1>10. /\ place' \in [Items -> Places] /\ Acyclic(place')
       /\ \A r \in Players : tradeItem'[r] # NoItem =>
             /\ Untouched(place, place', tradeItem[r])
             /\ Around(place', tradeItem[r]) = Around(place, tradeItem[r])
  <2>1. CASE place' = moved
    BY <1>6, <1>7, <1>9, <2>1 DEF Relaid
  <2>2. ASSUME NEW h \in OwnPlaces(moved, p, j), place' = [moved EXCEPT ![j] = h]
        PROVE  /\ place' \in [Items -> Places] /\ Acyclic(place')
               /\ \A r \in Players : tradeItem'[r] # NoItem =>
                     /\ Untouched(place, place', tradeItem[r])
                     /\ Around(place', tradeItem[r]) = Around(place, tradeItem[r])
    <3>1. PICK new : new = [moved EXCEPT ![j] = h]
      OBVIOUS
    <3>2. moved \in [Items -> Places] /\ h \in Places
      BY <1>6, OwnPlace DEF Relaid
    <3>3. Relaid(moved, new, j) /\ new[j] = h
      BY <3>1, <3>2 DEF Relaid
    <3>4. Acyclic(new)
      BY <1>7, <2>2, <3>3, GivenAway
    <3>5. ASSUME NEW r \in Players, tradeItem'[r] # NoItem
          PROVE  /\ Untouched(place, new, tradeItem[r])
                 /\ Around(new, tradeItem[r]) = Around(place, tradeItem[r])
      <4>1. PICK t : t = tradeItem[r]
        OBVIOUS
      <4>2. /\ t \in Items \ {j} /\ r \notin {p, q}
            /\ j \notin Around(place, t) /\ t \notin Around(place, j)
            /\ r \in Around(place, t) \/ Ground \in Around(place, t)
        BY <1>8, <3>5, <4>1
      <4>3. Untouched(place, moved, t) /\ Around(moved, t) = Around(place, t)
        BY <1>9, <3>5, <4>1
      <4>4. t \notin Around(moved, j)
        BY <4>2, <4>3 DEF Untouched, Inside
      <4>5. PICK root \in (Players \ {p}) \cup {Ground} : root \in Around(moved, t)
        BY <4>2, <4>3
      <4>6. j \notin Around(moved, t)
        BY <4>2, <4>3
      <4>7. Untouched(moved, new, t) /\ Around(new, t) = Around(moved, t)
        BY <1>7, <2>2, <3>3, <4>2, <4>4, <4>5, <4>6, GivenAway
      <4>8. Untouched(place, new, t)
        BY <4>3, <4>7 DEF Untouched
      <4> QED
        BY <4>1, <4>3, <4>7, <4>8
    <3> QED
      BY <2>2, <3>1, <3>3, <3>4, <3>5 DEF Relaid
  <2> QED
    BY <1>2, <1>3, <2>1, <2>2
<1>11. OffersApart(place', tradeItem')
  BY <1>4, <1>8, <1>10 DEF OffersApart, Untouched
<1>12. Reached(place', tradeItem')
  BY <1>8, <1>10 DEF Reached
<1>13. OffersLast
  BY <1>8, <1>10 DEF OffersLast
<1> QED
  BY <1>10, <1>11, <1>12, <1>13

\* Who accepts last ends both trades, and may exchange what was offered.
LEMMA AcceptKeepsTrades ==
    ASSUME TradeInv, NEW p \in Players, PlayerAcceptTrade(p)
    PROVE  TradeInv' /\ OffersLast
<1>1. /\ Traded(Trades, online) /\ Paired(Trades) /\ online' = online
      /\ NoPlayer \notin Players /\ NoItem \notin Items
      /\ Trades.state = tradeState /\ Trades.partner = tradePartner /\ Trades.item = tradeItem
      /\ Trades.offered = tradeItems
  BY PlayersAssumption, TradeAssumption DEF TradeInv, Traded, PlayerAcceptTrade, Trades
<1>2. /\ tradeState \in [Players -> {"none", "acknowledge", "initiated", "accept"}]
      /\ tradePartner \in [Players -> online \cup {NoPlayer}]
      /\ tradeItem \in [Players -> Items \cup {NoItem}]
      /\ tradeItems \in SUBSET Items /\ online \subseteq Players
  BY <1>1 DEF Traded, TradeRecords
<1>3. PICK q : q = tradePartner[p]
  OBVIOUS
<1>4. tradeState[p] \in {"acknowledge", "initiated"}
  BY DEF PlayerAcceptTrade
<1>5. q \in Players /\ tradePartner[q] = p
  BY <1>1, <1>2, <1>3, <1>4 DEF Paired
<1>6. CASE tradeState[q] # "accept"
  <2>1. /\ tradeState' = [tradeState EXCEPT ![p] = "accept"]
        /\ UNCHANGED <<tradePartner, tradeItem, tradeItems, place>>
    BY <1>3, <1>6 DEF PlayerAcceptTrade
  <2>2. PICK u : u = [state |-> [tradeState EXCEPT ![p] = "accept"], partner |-> tradePartner,
                      item |-> tradeItem, offered |-> tradeItems]
    OBVIOUS
  <2>3. /\ u.state = [tradeState EXCEPT ![p] = "accept"] /\ u.partner = tradePartner
        /\ u.item = tradeItem /\ u.offered = tradeItems
    BY <2>2
  <2>4. u \in TradeRecords(online)
    BY <1>2, <2>2 DEF TradeRecords
  <2>5. Paired(u)
    BY <1>1, <1>2, <1>4, <2>3 DEF Paired
  <2>6. AskedFirst(u) /\ OffersListed(u)
    BY <1>1, <1>2, <2>3 DEF Traded, AskedFirst, OffersListed
  <2>7. Traded(u, online') /\ Settle(u)
    BY <1>1, <2>1, <2>3, <2>4, <2>5, <2>6 DEF Traded, Settle
  <2> QED
    BY <2>1, <2>3, <2>7, OnlyTradesEnd
<1>7. CASE tradeState[q] = "accept"
  <2>1. p # q
    BY <1>4, <1>7
  <2>2. PICK u : u = CloseTrades(Trades, {p})
    OBVIOUS
  <2>3. /\ Traded(u, online) /\ \A r \in Players : u.item[r] \in {tradeItem[r], NoItem}
    BY <1>1, <2>2, TradesClosed
  <2>4. /\ u.state = [tradeState EXCEPT ![p] = "none", ![q] = "none"]
        /\ u.partner = [tradePartner EXCEPT ![p] = NoPlayer, ![q] = NoPlayer]
        /\ u.item = [tradeItem EXCEPT ![p] = NoItem, ![q] = NoItem]
        /\ u.offered = tradeItems \ {tradeItem[p], tradeItem[q]}
    <3>1. PICK both : both = ({p} \cup {Trades.partner[r] : r \in {p}}) \ {NoPlayer}
      OBVIOUS
    <3>2. u = [state |-> [r \in Players |-> IF r \in both THEN "none" ELSE Trades.state[r]],
               partner |-> [r \in Players |-> IF r \in both THEN NoPlayer ELSE Trades.partner[r]],
               item |-> [r \in Players |-> IF r \in both THEN NoItem ELSE Trades.item[r]],
               offered |-> Trades.offered \ {Trades.item[r] : r \in both}]
      BY <2>2, <3>1 DEF CloseTrades
    <3>3. both = {p, q}
      BY <1>1, <1>3, <1>5, <3>1
    <3>4. /\ [r \in Players |-> IF r \in {p, q} THEN "none" ELSE tradeState[r]]
                = [tradeState EXCEPT ![p] = "none", ![q] = "none"]
          /\ [r \in Players |-> IF r \in {p, q} THEN NoPlayer ELSE tradePartner[r]]
                = [tradePartner EXCEPT ![p] = NoPlayer, ![q] = NoPlayer]
          /\ [r \in Players |-> IF r \in {p, q} THEN NoItem ELSE tradeItem[r]]
                = [tradeItem EXCEPT ![p] = NoItem, ![q] = NoItem]
          /\ {tradeItem[r] : r \in {p, q}} = {tradeItem[p], tradeItem[q]}
      BY <1>2
    <3> QED
      BY <1>1, <3>2, <3>4, <3>3
  <2>5. Settle(u)
    <3>1. NoLongerTrading(p, q)
      BY <1>3, <1>7 DEF PlayerAcceptTrade
    <3> QED
      BY <2>4, <3>1 DEF NoLongerTrading, Settle
  <2>6. CASE UNCHANGED place
    BY <1>1, <2>3, <2>5, <2>6, OnlyTradesEnd
  <2>7. CASE WouldTake(q, tradeItem[p]) /\ WouldTake(p, tradeItem[q]) /\ Exchange(p, q)
    <3>1. Traded(Trades', online') /\ tradeItem' = u.item
      BY <1>1, <2>3, <2>5, TradesWritten
    <3>2. /\ tradeItem[p] \in Items /\ tradeItem[q] \in Items
          /\ tradeItem'[p] = NoItem /\ tradeItem'[q] = NoItem
          /\ \A r \in Players : tradeItem'[r] \in {tradeItem[r], NoItem}
      BY <1>2, <1>5, <2>3, <2>4, <2>7, <3>1 DEF WouldTake
    <3> QED
      BY <1>5, <2>1, <2>7, <3>1, <3>2, ExchangeKeepsTrades DEF TradeInv
  <2> QED
    BY <1>3, <1>7, <2>6, <2>7 DEF PlayerAcceptTrade
<1> QED
  BY <1>6, <1>7

-----------------------------------------------------------------------------
\* Each step of the trades keeps the invariant, and what is on offer as it is.
LEMMA TradeInvStep == TradeInv /\ [TradeNext]_tradeVars => TradeInv' /\ OffersLast
<1> SUFFICES ASSUME TradeInv, [TradeNext]_tradeVars PROVE TradeInv' /\ OffersLast
  OBVIOUS
<1>1. ASSUME NEW p \in Players, TraderLogin(p) PROVE TradeInv' /\ OffersLast
  BY <1>1, LoginKeepsTrades
<1>2. ASSUME NEW p \in Players, TraderLogout(p) PROVE TradeInv' /\ OffersLast
  BY <1>2, LogoutKeepsTrades
<1>3. ASSUME NEW p \in Players, PlayerAcceptTrade(p) PROVE TradeInv' /\ OffersLast
  BY <1>3, AcceptKeepsTrades
<1>4. ASSUME NEW p \in Players, PlayerCloseTrade(p) \/ TraderStepsAway(p)
      PROVE  TradeInv' /\ OffersLast
  BY <1>4, CloseKeepsTrades
<1>5. ASSUME NEW p \in Players, NEW q \in Players, NEW i \in Items, PlayerRequestTrade(p, q, i)
      PROVE  TradeInv' /\ OffersLast
  BY <1>5, RequestKeepsTrades
<1>6. ASSUME NEW p \in Players, NEW i \in Items, NEW to \in Places, PlayerMoveItem(p, i, to)
      PROVE  TradeInv' /\ OffersLast
  BY <1>6, MoveKeepsTrades
<1>7. CASE UNCHANGED tradeVars
  <2>1. UNCHANGED <<online, tradeState, tradePartner, tradeItem, tradeItems, place>>
    BY <1>7 DEF tradeVars
  <2>2. TradeInv'
    BY <2>1 DEF TradeInv, Trades
  <2> QED
    BY <2>1, <2>2 DEF OffersLast, Untouched
<1> QED
  BY <1>1, <1>2, <1>3, <1>4, <1>5, <1>6, <1>7 DEF TradeNext

\* The invariant says more than the property.
LEMMA TradeInvImplies == TradeInv => TradersAgree
<1> SUFFICES ASSUME TradeInv PROVE TradersAgree
  OBVIOUS
<1>1. /\ Trades \in TradeRecords(online) /\ Paired(Trades) /\ OffersListed(Trades)
      /\ place \in [Items -> Places] /\ OffersApart(place, tradeItem)
      /\ Trades.state = tradeState /\ Trades.partner = tradePartner /\ Trades.item = tradeItem
      /\ Trades.offered = tradeItems
  BY DEF TradeInv, Traded, Trades
<1>2. TradeTypeOK
  BY <1>1 DEF TradeTypeOK, TradeRecords
<1>3. TradersPaired
  BY <1>1 DEF TradersPaired, Paired
<1>4. OfferedOnce
  <2>1. tradeItems = {tradeItem[p] : p \in Offering}
    BY <1>1 DEF OffersListed, Offering
  <2> QED
    BY <1>1, <2>1 DEF OfferedOnce, Offering, OffersApart
<1> QED
  BY <1>2, <1>3, <1>4 DEF TradersAgree

\* Two who trade trade with each other, the game's list has what is offered,
\* and no item is offered twice, neither itself nor in a bag: for any players,
\* items, bags in bags and room.
THEOREM TradersStayAgreed == TradeSpec => []TradersAgree
BY TradeInvInit, TradeInvStep, TradeInvImplies, PTL DEF TradeSpec

\* While an offer lasts neither the item leaves its place nor anything enters or
\* leaves it: the callbacks of all kinds of moves end every trade they touch.
THEOREM OffersStayUntouched == TradeSpec => OfferUntouched
<1>1. TradeInv /\ [TradeNext]_tradeVars
        => [\A p \in Players :
             LET t == tradeItem[p]
             IN  t # NoItem /\ tradeItem'[p] = t =>
                   /\ place'[t] = place[t]
                   /\ \A i \in Items : Inside(place', i, t) <=> Inside(place, i, t)]_tradeVars
  BY TradeInvStep DEF OffersLast, Untouched
<1> QED
  BY <1>1, TradeInvInit, TradeInvStep, PTL DEF TradeSpec, OfferUntouched

-----------------------------------------------------------------------------
(***************************************************************************)
(* Where nothing stacks an exchange is whole.  What an item leaves has room *)
(* for the other, so the test before the exchange is the exchange's own.   *)
(***************************************************************************)
Holding(at, w) == {k \in Items : at[k] = w}

\* Nobody and no bag holds more than there is room for.
Fits(at) ==
    /\ \A p \in Players : Cardinality(Holding(at, p)) <= Hands
    /\ \A b \in Bags : Cardinality(Holding(at, b)) <= BagPlaces

\* Where an item may go there is room for it.
LEMMA StaysFitting ==
    ASSUME NEW old, NEW new, NEW i \in Items, Relaid(old, new, i), Fits(old), Room(old, new[i])
    PROVE  Fits(new)
<1>1. ASSUME NEW w PROVE /\ Cardinality(Holding(new, w)) \in Nat /\ Cardinality(Holding(old, w)) \in Nat
                         /\ Cardinality(Holding(new, w)) <= Cardinality(Holding(old, w)) + 1
                         /\ w # new[i] => Cardinality(Holding(new, w)) <= Cardinality(Holding(old, w))
  <2>1. IsFiniteSet(Holding(old, w)) /\ IsFiniteSet(Holding(new, w)) /\ IsFiniteSet(Holding(old, w) \cup {i})
    <3>1. /\ Holding(old, w) \subseteq Items /\ Holding(new, w) \subseteq Items
          /\ Holding(old, w) \cup {i} \subseteq Items
      BY DEF Holding
    <3> QED
      BY <3>1, TradeAssumption, FS_Subset
  <2>2. Holding(new, w) \subseteq Holding(old, w) \cup {i}
    BY DEF Holding, Relaid
  <2>3. w # new[i] => Holding(new, w) \subseteq Holding(old, w)
    BY DEF Holding, Relaid
  <2>4. Cardinality(Holding(old, w) \cup {i}) <= Cardinality(Holding(old, w)) + 1
    BY <2>1, FS_AddElement, FS_CardinalityType
  <2>5. /\ Cardinality(Holding(new, w)) \in Nat /\ Cardinality(Holding(old, w)) \in Nat
        /\ Cardinality(Holding(old, w) \cup {i}) \in Nat
    BY <2>1, FS_CardinalityType
  <2>6. Cardinality(Holding(new, w)) <= Cardinality(Holding(old, w) \cup {i})
    BY <2>1, <2>2, FS_Subset
  <2>7. w # new[i] => Cardinality(Holding(new, w)) <= Cardinality(Holding(old, w))
    BY <2>1, <2>3, FS_Subset
  <2> QED
    BY <2>4, <2>5, <2>6, <2>7
<1>2. /\ Hands \in Nat /\ BagPlaces \in Nat /\ Bags \cap Players = {}
      /\ Ground \notin Bags \cup Players
  BY TradeAssumption
<1>3. ASSUME NEW w \in Players \cup Bags, w = new[i]
      PROVE  Cardinality(Holding(old, w)) < IF w \in Players THEN Hands ELSE BagPlaces
  BY <1>2, <1>3 DEF Room, Holding
<1>4. ASSUME NEW p \in Players PROVE Cardinality(Holding(new, p)) <= Hands
  <2>1. Cardinality(Holding(old, p)) <= Hands
    BY DEF Fits
  <2> QED
    BY <1>1, <1>2, <1>3, <2>1
<1>5. ASSUME NEW b \in Bags PROVE Cardinality(Holding(new, b)) <= BagPlaces
  <2>1. Cardinality(Holding(old, b)) <= BagPlaces /\ b \notin Players
    BY <1>2 DEF Fits
  <2> QED
    BY <1>1, <1>2, <1>3, <2>1
<1> QED
  BY <1>4, <1>5 DEF Fits

\* There is room where there was, and in what an item has left.
LEMMA RoomThen ==
    ASSUME NEW old, NEW new, NEW i \in Items, Relaid(old, new, i), Fits(old),
           NEW w \in Players \cup Bags, w # new[i], Room(old, w) \/ old[i] = w
    PROVE  Room(new, w)
<1> DEFINE cap == IF w \in Players THEN Hands ELSE BagPlaces
<1>1. cap \in Nat /\ w # Ground /\ Bags \cap Players = {}
  BY TradeAssumption
<1>2. IsFiniteSet(Holding(old, w)) /\ Holding(new, w) \subseteq Holding(old, w)
  <2>1. Holding(old, w) \subseteq Items
    BY DEF Holding
  <2>2. Holding(new, w) \subseteq Holding(old, w)
    BY DEF Holding, Relaid
  <2> QED
    BY <2>1, <2>2, TradeAssumption, FS_Subset
<1>3. /\ Cardinality(Holding(new, w)) \in Nat /\ Cardinality(Holding(old, w)) \in Nat
      /\ Cardinality(Holding(new, w)) <= Cardinality(Holding(old, w))
      /\ Cardinality(Holding(new, w)) = Cardinality(Holding(old, w)) => Holding(new, w) = Holding(old, w)
  BY <1>2, FS_Subset, FS_CardinalityType
<1>4. Cardinality(Holding(old, w)) <= cap
  BY <1>1 DEF Fits
<1>5. CASE Room(old, w)
  <2>1. Cardinality(Holding(old, w)) < cap
    BY <1>1, <1>5 DEF Room, Holding
  <2>2. Cardinality(Holding(new, w)) < cap
    BY <1>1, <1>3, <2>1
  <2> QED
    BY <2>2 DEF Room, Holding
<1>6. CASE old[i] = w
  <2>1. i \in Holding(old, w) /\ i \notin Holding(new, w)
    BY <1>6 DEF Holding
  <2>2. Cardinality(Holding(new, w)) < cap
    BY <1>1, <1>3, <1>4, <2>1
  <2> QED
    BY <2>2 DEF Room, Holding
<1> QED
  BY <1>5, <1>6

\* A bag of p's own in which there is room for j: in the hands, or in one of these.
OwnBag(at, p, j, b) ==
    /\ b \in Bags /\ b # j /\ Room(at, b)
    /\ \/ at[b] = p /\ b # tradeItem[p]
       \/ /\ at[b] # p /\ j \notin Around(at, b)
          /\ \E c \in Bags : at[c] = p /\ c # j /\ c # tradeItem[p] /\ c \in Around(at, b)

\* A player's places for an item: the hands while there is room, or else these bags.
LEMMA OwnPlacesAre ==
    ASSUME NEW at, NEW p \in Players, NEW j \in Items
    PROVE  /\ Room(at, p) => OwnPlaces(at, p, j) = {p}
           /\ ~Room(at, p) => \A b : b \in OwnPlaces(at, p, j) <=> OwnBag(at, p, j, b)
<1>1. CASE Room(at, p)
  BY <1>1 DEF OwnPlaces
<1>2. CASE ~Room(at, p)
  <2>1. ASSUME NEW b
        PROVE  b \in OwnPlaces(at, p, j)
                 <=> \/ b \in {c \in Bags : at[c] = p /\ c \notin {j, tradeItem[p]} /\ Room(at, c)}
                     \/ b \in {d \in Bags :
                            /\ at[d] # p
                            /\ Around(at, d) \cap {c \in Bags : at[c] = p /\ c # j /\ c # tradeItem[p]} # {}
                            /\ d # j /\ ~Inside(at, d, j) /\ Room(at, d)}
    BY <1>2 DEF OwnPlaces
  <2> QED
    BY <1>2, <2>1 DEF OwnBag, Inside
<1> QED
  BY <1>1, <1>2

\* There is room in each of them.
LEMMA OwnPlaceHasRoom ==
    ASSUME NEW at, NEW p \in Players, NEW j \in Items, NEW w \in OwnPlaces(at, p, j)
    PROVE  Room(at, w)
<1>1. CASE Room(at, p)
  BY <1>1, OwnPlacesAre
<1>2. CASE ~Room(at, p)
  <2>1. OwnBag(at, p, j, w)
    BY <1>2, OwnPlacesAre
  <2> QED
    BY <2>1 DEF OwnBag
<1> QED
  BY <1>1, <1>2

\* What lies around an item lies around it as a bag of it, or a bag holds it.
LEMMA LastBag ==
    ASSUME NEW at, NEW i, NEW x \in Around(at, i), x # at[i]
    PROVE  \E b \in Bags : b \in Around(at, i) /\ at[b] = x
<1> DEFINE s == {y \in Around(at, i) : y = at[i] \/ \E b \in Bags : b \in Around(at, i) /\ at[b] = y}
<1>1. HoldsAround(at, i, Around(at, i))
  BY AroundIsLeast
<1>2. HoldsAround(at, i, s)
  BY <1>1 DEF HoldsAround
<1>3. x \in s
  <2> HIDE DEF s
  <2> QED
    BY <1>2, AroundIsLeast
<1> QED
  BY <1>3

\* When i has gone to q there is still room at p for j.
LEMMA StillRoom ==
    ASSUME NEW old, NEW new, NEW i \in Items, NEW j \in Items, NEW p \in Players, NEW q \in Players,
           p # q, i # j, i = tradeItem[p], Relaid(old, new, i), Acyclic(old), Fits(old),
           j \notin Around(old, i), p \in Around(old, i) \/ Ground \in Around(old, i),
           new[i] \in OwnPlaces(old, q, i), OwnPlaces(old, p, j) # {}
    PROVE  OwnPlaces(new, p, j) # {}
<1> DEFINE there == new[i]
<1>1. old \in [Items -> Places] /\ new \in [Items -> Places]
  BY DEF Relaid
<1>2. /\ there # i /\ there \in Places
      /\ there = q \/ (there \in Bags /\ q \in Around(old, there))
  BY <1>1, OwnPlace
<1>3. /\ Bags \cap Players = {} /\ Ground \notin Bags \cup Players /\ Bags \subseteq Items
      /\ Places = Players \cup Bags \cup {Ground} /\ Items \cap Players = {} /\ Ground \notin Items
  BY TradeAssumption DEF Places
<1>4. ASSUME NEW b \in Bags, p \in Around(old, b) PROVE b # there
  BY <1>2, <1>3, <1>4, OneRoot
<1>5. there # p
  BY <1>2, <1>3
<1>6. SUFFICES ASSUME ~Room(new, p) PROVE \E b : OwnBag(new, p, j, b)
  BY OwnPlacesAre
<1>7. ~Room(old, p) /\ old[i] # p
  BY <1>5, <1>6, RoomThen
<1>8. PICK b : OwnBag(old, p, j, b)
  BY <1>7, OwnPlacesAre
<1>9. CASE old[b] = p
  <2>1. b \in Bags /\ b # i /\ b # j /\ Room(old, b) /\ b # tradeItem[p]
    BY <1>8, <1>9 DEF OwnBag
  <2>2. new[b] = p
    BY <1>3, <1>9, <2>1 DEF Relaid
  <2>3. p \in Around(old, b)
    BY <1>9, AroundIsLeast DEF HoldsAround
  <2>4. Room(new, b)
    BY <1>4, <2>1, <2>3, RoomThen
  <2> QED
    BY <2>1, <2>2, <2>4 DEF OwnBag
<1>10. CASE old[b] # p
  <2>1. b \in Bags /\ b # j /\ Room(old, b) /\ j \notin Around(old, b)
    BY <1>8, <1>10 DEF OwnBag
  <2>2. PICK c \in Bags : old[c] = p /\ c # j /\ c # i /\ c \in Around(old, b)
    BY <1>8, <1>10 DEF OwnBag
  <2>3. p \in Around(old, b)
    BY <2>2, AroundIsLeast DEF HoldsAround
  <2>4. CASE b # i /\ i \notin Around(old, b)
    <3>1. Around(new, b) = Around(old, b)
      BY <1>3, <2>1, <2>4, LiesAsBefore
    <3>2. new[b] # p /\ new[c] = p
      BY <1>3, <1>10, <2>1, <2>2, <2>4 DEF Relaid
    <3>3. Room(new, b)
      BY <1>4, <2>1, <2>3, RoomThen
    <3> QED
      BY <2>1, <2>2, <3>1, <3>2, <3>3 DEF OwnBag
  <2>5. CASE b = i \/ i \in Around(old, b)
    <3>1. i \in Bags
      BY <1>1, <1>3, <2>1, <2>5, AroundPlaces
    <3>2. p \in Around(old, i)
      <4>1. Around(old, i) \subseteq Around(old, b)
        BY <2>5, <3>1, AroundAround
      <4>2. Ground \notin Around(old, b)
        BY <1>3, <2>3, OneRoot
      <4> QED
        BY <4>1, <4>2
    <3>3. PICK d : d = old[i]
      OBVIOUS
    <3>4. d \in Bags /\ p \in Around(old, d) /\ d \in Around(old, i)
      BY <1>7, <3>2, <3>3, AroundBegins, AroundIsLeast DEF HoldsAround
    <3>5. Around(old, d) \subseteq Around(old, i)
      BY <3>4, AroundAround
    <3>6. /\ i \notin Around(old, d) /\ j \notin Around(old, d) /\ d # j /\ d # i
      BY <3>4, <3>5 DEF Acyclic
    <3>7. Around(new, d) = Around(old, d) /\ new[d] = old[d]
      BY <1>3, <3>4, <3>6, LiesAsBefore DEF Relaid
    <3>8. Room(new, d)
      BY <1>4, <3>3, <3>4, RoomThen
    <3>9. CASE old[d] = p
      BY <3>4, <3>6, <3>7, <3>8, <3>9 DEF OwnBag
    <3>10. CASE old[d] # p
      <4>1. PICK e \in Bags : e \in Around(old, d) /\ old[e] = p
        BY <3>4, <3>10, LastBag
      <4>2. e # i /\ e # j
        BY <3>6, <4>1
      <4>3. new[e] = p
        BY <1>3, <4>1, <4>2 DEF Relaid
      <4> QED
        BY <3>4, <3>6, <3>7, <3>8, <3>10, <4>1, <4>2, <4>3 DEF OwnBag
    <3> QED
      BY <3>9, <3>10
  <2> QED
    BY <2>4, <2>5
<1> QED
  BY <1>8, <1>9, <1>10

\* i has gone to q and is there whatever else moves.
LEMMA GivenTo ==
    ASSUME NEW old, NEW new, NEW i \in Items, Relaid(old, new, i), NEW q \in Players,
           new[i] \in OwnPlaces(old, q, i)
    PROVE  /\ q \in Around(new, i)
           /\ \A j \in Items \ {i} :
                 new[i] # j /\ (new[i] \in Bags => j \notin Around(old, new[i]))
                 => j \notin Around(new, i)
<1> DEFINE there == new[i]
<1>1. /\ there = q \/ (there \in Bags /\ q \in Around(old, there))
      /\ there # i
      /\ there \in Bags => i \notin Around(old, there)
  BY OwnPlace DEF Relaid
<1>2. there \in Around(new, i)
  BY AroundIsLeast DEF HoldsAround
<1>3. CASE there \in Bags /\ q \in Around(old, there) /\ there # i
  <2>1. Around(new, there) = Around(old, there)
    BY <1>1, <1>3, LiesAsBefore, TradeAssumption
  <2>2. Around(new, there) \subseteq Around(new, i)
    BY <1>2, <1>3, AroundAround
  <2>3. q \in Around(new, i)
    BY <1>3, <2>1, <2>2
  <2> QED
    BY <2>3, AroundMoved
<1>4. CASE there = q
  BY <1>2, <1>4, AroundMoved
<1> QED
  BY <1>1, <1>3, <1>4

\* The one step that moves two items.
LEMMA ExchangeIsWholeNow ==
    ASSUME TradeInv, Fits(place), Coins = {}, NEW p \in Players, NEW q \in Players, p # q,
           WouldTake(q, tradeItem[p]), WouldTake(p, tradeItem[q]), Exchange(p, q)
    PROVE  /\ q \in Around(place', tradeItem[p]) /\ p \in Around(place', tradeItem[q])
           /\ Fits(place')
<1>1. /\ Acyclic(place) /\ place \in [Items -> Places]
      /\ OffersApart(place, tradeItem) /\ Reached(place, tradeItem)
      /\ \A r \in Players : tradeItem[r] \in Items \cup {NoItem}
  BY DEF TradeInv, Traded, TradeRecords, Trades
<1>2. tradeItem[p] # NoItem /\ tradeItem[q] # NoItem /\ OwnPlaces(place, p, tradeItem[q]) # {}
  BY DEF WouldTake
<1>3. PICK i \in Items, j \in Items : i = tradeItem[p] /\ j = tradeItem[q]
  BY <1>1, <1>2
<1>4. /\ i # j /\ j \notin Around(place, i) /\ i \notin Around(place, j)
      /\ p \in Around(place, i) \/ Ground \in Around(place, i)
      /\ OwnPlaces(place, p, j) # {}
  BY <1>1, <1>2, <1>3 DEF OffersApart, Reached, Inside
<1>5. PICK there \in OwnPlaces(place, q, i) :
         /\ there # j /\ (there \in Bags => j \notin Around(place, there))
         /\ LET moved == [place EXCEPT ![i] = there]
            IN  IF OwnPlaces(moved, p, j) = {} THEN place' = moved
                ELSE \E h \in OwnPlaces(moved, p, j) : place' = [moved EXCEPT ![j] = h]
  BY <1>3 DEF Exchange, Inside
<1>6. PICK moved : moved = [place EXCEPT ![i] = there]
  OBVIOUS
<1>7. there \in Places /\ Room(place, there)
  <2>1. there \in Places
    BY <1>1, OwnPlace
  <2>2. Room(place, there)
    BY OwnPlaceHasRoom
  <2> QED
    BY <2>1, <2>2
<1>8. Relaid(place, moved, i) /\ moved[i] = there
  BY <1>1, <1>6, <1>7 DEF Relaid
<1>9. Fits(moved) /\ OwnPlaces(moved, p, j) # {}
  BY <1>1, <1>3, <1>4, <1>7, <1>8, StaysFitting, StillRoom
<1>10. PICK h \in OwnPlaces(moved, p, j) : place' = [moved EXCEPT ![j] = h]
  BY <1>5, <1>6, <1>9
<1>11. PICK new : new = [moved EXCEPT ![j] = h]
  OBVIOUS
<1>12. moved \in [Items -> Places] /\ h \in Places /\ Room(moved, h)
  <2>1. moved \in [Items -> Places]
    BY <1>8 DEF Relaid
  <2>2. h \in Places
    BY <2>1, OwnPlace
  <2>3. Room(moved, h)
    BY OwnPlaceHasRoom
  <2> QED
    BY <2>1, <2>2, <2>3
<1>13. Relaid(moved, new, j) /\ new[j] = h
  BY <1>11, <1>12 DEF Relaid
<1>14. Fits(new) /\ p \in Around(new, j)
  BY <1>9, <1>12, <1>13, StaysFitting, GivenTo
<1>15. q \in Around(moved, i) /\ j \notin Around(moved, i)
  BY <1>4, <1>5, <1>8, GivenTo
<1>16. Around(new, i) = Around(moved, i)
  BY <1>4, <1>13, <1>15, LiesAsBefore
<1> QED
  BY <1>3, <1>10, <1>11, <1>14, <1>15, <1>16

\* An exchange in this step gives each of the two what the other offered.
WholeNow ==
    \A p \in Players :
        PlayerAcceptTrade(p) /\ place' # place
        => /\ Inside(place', tradeItem[p], tradePartner[p])
           /\ Inside(place', tradeItem[tradePartner[p]], p)

\* Where nothing stacks no step overfills a place, and an exchange gives both items.
LEMMA WholeStep ==
    ASSUME Coins = {}, TradeInv, Fits(place), [TradeNext]_tradeVars
    PROVE  Fits(place') /\ WholeNow
<1>1. ASSUME NEW p \in Players, PlayerAcceptTrade(p), place' # place
      PROVE  /\ Fits(place') /\ Inside(place', tradeItem[p], tradePartner[p])
             /\ Inside(place', tradeItem[tradePartner[p]], p)
  <2>1. PICK q : q = tradePartner[p]
    OBVIOUS
  <2>2. tradeState[q] = "accept" /\ tradeState[p] \in {"acknowledge", "initiated"}
    BY <1>1, <2>1 DEF PlayerAcceptTrade
  <2>3. q \in Players /\ p # q
    <3>1. /\ Trades \in TradeRecords(online) /\ Paired(Trades) /\ online \subseteq Players
          /\ Trades.state = tradeState /\ Trades.partner = tradePartner
      BY DEF TradeInv, Traded, Trades
    <3>2. tradePartner[p] \in online \cup {NoPlayer} /\ tradePartner[p] # NoPlayer
      BY <2>2, <3>1 DEF TradeRecords, Paired
    <3> QED
      BY <2>1, <2>2, <3>1, <3>2
  <2>4. WouldTake(q, tradeItem[p]) /\ WouldTake(p, tradeItem[q]) /\ Exchange(p, q)
    BY <1>1, <2>1, <2>2 DEF PlayerAcceptTrade
  <2> QED
    BY <2>1, <2>3, <2>4, ExchangeIsWholeNow DEF Inside
<1>2. ASSUME NEW p \in Players, NEW i \in Items, NEW to \in Places, PlayerMoveItem(p, i, to)
      PROVE  Fits(place')
  <2>1. place' = [place EXCEPT ![i] = to] /\ Room(place, to) /\ place \in [Items -> Places]
    BY <1>2 DEF PlayerMoveItem, TradeInv
  <2>2. Relaid(place, place', i) /\ place'[i] = to
    BY <2>1 DEF Relaid
  <2> QED
    BY <2>1, <2>2, StaysFitting
<1>3. CASE UNCHANGED place
  BY <1>3 DEF WholeNow
<1>4. CASE place' # place
  <2>1. \/ \E p \in Players : PlayerAcceptTrade(p)
        \/ \E p \in Players, i \in Items, to \in Places : PlayerMoveItem(p, i, to)
    BY <1>4 DEF TradeNext, TraderLogin, TraderLogout, PlayerCloseTrade, TraderStepsAway,
               PlayerRequestTrade, tradeVars
  <2>2. Fits(place')
    BY <1>1, <1>2, <1>4, <2>1
  <2> QED
    BY <1>1, <2>2 DEF WholeNow
<1> QED
  BY <1>3, <1>4

\* Where nothing stacks a trade is fair: the offers do not change while they
\* last, and who gives an item gets the other.  Where items stack the second
\* half fails.
THEOREM TradesStayFair == ASSUME Coins = {} PROVE TradeSpec => TradeIsFair
<1>1. TradeInit => Fits(place)
  <2> SUFFICES ASSUME TradeInit PROVE Fits(place)
    OBVIOUS
  <2>1. \A b \in Bags : Holding(place, b) = {}
    BY TradeAssumption DEF TradeInit, Holding
  <2>2. Cardinality({}) = 0 /\ BagPlaces \in Nat
    BY FS_EmptySet, TradeAssumption
  <2>3. \A p \in Players : Cardinality(Holding(place, p)) <= Hands
    BY DEF TradeInit, Holding
  <2> QED
    BY <2>1, <2>2, <2>3 DEF Fits
<1>2. TradeInv /\ Fits(place) /\ [TradeNext]_tradeVars => Fits(place)' /\ WholeNow
  BY WholeStep
<1>3. TradeInv /\ Fits(place) /\ [TradeNext]_tradeVars
        => [\A p \in Players :
             PlayerAcceptTrade(p) /\ place' # place
             => /\ Inside(place', tradeItem[p], tradePartner[p])
                /\ Inside(place', tradeItem[tradePartner[p]], p)]_tradeVars
  BY <1>2 DEF WholeNow
<1>4. TradeSpec => ExchangeIsWhole
  BY <1>1, <1>2, <1>3, TradeInvInit, TradeInvStep, PTL DEF TradeSpec, ExchangeIsWhole
<1> QED
  BY <1>4, OffersStayUntouched, PTL DEF TradeIsFair

-----------------------------------------------------------------------------
(***************************************************************************)
(* The parts together.  One of them moves in a behaviour and the others    *)
(* keep their first values; the players come and go for all of them.       *)
(***************************************************************************)
\* A player in a private channel is in the game, and none in two of one's own,
\* whatever the ids (Chat::createChannel, Chat::removeUserFromAllChannels).
THEOREM ChannelsStayKnown == PrivateSpec => []ChannelsKnowOnline
  BY PrivateStart, PrivateStep, PrivateEnds, PTL DEF PrivateSpec

\* A guild in memory lists the players in the game who point to it, and goes
\* with the last (Player::setGuild, Guild::addMember, Guild::removeMember).
THEOREM GuildsStayListed == GuildSpec => []GuildsAgree
<1>1. GuildInv => GuildsAgree
  BY DEF GuildInv
<1> QED
  BY <1>1, GuildStart, GuildStep, PTL DEF GuildSpec

\* The first values of the other parts.
PrivateIdle == privateChannels = [n \in Slots |-> Closed]

GuildIdle ==
    /\ guildOf = [p \in Players |-> NoGuild]
    /\ guilds = {}
    /\ membersOnline = [g \in Guilds |-> {}]
    /\ guildChannels = [g \in Guilds |-> {}]

\* With them, whoever is in the game, the invariants hold.
LEMMA IdleAgree ==
    ASSUME online \subseteq Players
    PROVE  /\ PrivateIdle => PrivateInv
           /\ GuildIdle => GuildInv
<1>1. PrivateIdle => PrivateInv
  BY DEF PrivateIdle, PrivateInv, PrivateTypes, OneChannelEach, Knows, Closed
<1>2. GuildIdle => GuildInv
  BY GuildAssumption DEF GuildIdle, GuildInv, GuildTypes, GuildsAgree, GuildsSharedByMembers,
     GuildChannelsKnowOnline
<1> QED
  BY <1>1, <1>2

\* Nobody trades, wherever things are.
TradeIdle == NoTrades /\ place \in [Items -> Places]

\* With no trades the players agree about them, and no offer changes.
LEMMA NoTradesAgree ==
    ASSUME TradeIdle PROVE TradersAgree
<1>1. TradeTypeOK
  BY DEF TradeIdle, NoTrades, TradeTypeOK
<1>2. TradersPaired
  BY DEF TradeIdle, NoTrades, TradersPaired
<1>3. OfferedOnce
  BY DEF TradeIdle, NoTrades, OfferedOnce, Offering
<1> QED
  BY <1>1, <1>2, <1>3 DEF TradersAgree

SocietyInv ==
    /\ online \subseteq Players
    /\ stage = "party" => PartyInv
    /\ stage # "party" => PartyIdle
    /\ stage = "channels" => PrivateInv
    /\ stage # "channels" => PrivateIdle
    /\ stage = "guilds" => GuildInv
    /\ stage # "guilds" => GuildIdle
    /\ stage = "trade" => TradeInv
    /\ stage # "trade" => TradeIdle

\* Each step of the society keeps it.
LEMMA SocietyStep == SocietyInv /\ [SocietyNext]_societyVars => SocietyInv' /\ OffersLast
<1> SUFFICES ASSUME SocietyInv, [SocietyNext]_societyVars PROVE SocietyInv' /\ OffersLast
  OBVIOUS
<1>1. ASSUME UNCHANGED partyOnly PROVE PartyIdle => PartyIdle'
  BY <1>1 DEF partyOnly, PartyIdle
<1>2. ASSUME UNCHANGED privateChannels PROVE PrivateIdle => PrivateIdle'
  BY <1>2 DEF PrivateIdle
<1>3. ASSUME UNCHANGED guildOnly PROVE GuildIdle => GuildIdle'
  BY <1>3 DEF guildOnly, GuildIdle
<1>4. ASSUME UNCHANGED tradeOnly PROVE (TradeIdle => TradeIdle') /\ OffersLast
  BY <1>4 DEF tradeOnly, TradeIdle, NoTrades, OffersLast, Untouched
<1>5. CASE /\ UNCHANGED stage /\ stage = "party" /\ PartyNext
           /\ UNCHANGED <<privateChannels, guildOnly, tradeOnly>>
  <2>1. PartyInv'
    BY <1>5, PartyStep DEF SocietyInv
  <2>2. online' \subseteq Players
    BY <2>1 DEF PartyInv
  <2> QED
    BY <1>2, <1>3, <1>4, <1>5, <2>1, <2>2 DEF SocietyInv
<1>6. CASE /\ UNCHANGED stage /\ stage = "channels" /\ PrivateNext
           /\ UNCHANGED <<partyOnly, guildOnly, tradeOnly>>
  <2>1. PrivateInv'
    BY <1>6, PrivateStep DEF SocietyInv
  <2>2. online' \subseteq Players
    BY <2>1 DEF PrivateInv, PrivateTypes
  <2> QED
    BY <1>1, <1>3, <1>6, <1>4, <2>1, <2>2 DEF SocietyInv
<1>7. CASE /\ UNCHANGED stage /\ stage = "guilds" /\ GuildNext
           /\ UNCHANGED <<partyOnly, privateChannels, tradeOnly>>
  <2>1. GuildInv'
    BY <1>7, GuildStep DEF SocietyInv
  <2>2. online' \subseteq Players
    BY <2>1 DEF GuildInv, GuildTypes
  <2> QED
    BY <1>1, <1>2, <1>7, <1>4, <2>1, <2>2 DEF SocietyInv
<1>8. CASE UNCHANGED stage /\ stage = "trade" /\ TradeNext
           /\ UNCHANGED <<partyOnly, privateChannels, guildOnly>>
  <2>1. TradeInv' /\ OffersLast
    BY <1>8, TradeInvStep DEF SocietyInv
  <2>2. online' \subseteq Players
    BY <2>1 DEF TradeInv, Traded
  <2> QED
    BY <1>1, <1>2, <1>3, <1>8, <2>1, <2>2 DEF SocietyInv
<1>9. CASE UNCHANGED <<stage, online, partyOnly, privateChannels, guildOnly, tradeOnly>>
  <2>1. /\ UNCHANGED partyVars /\ UNCHANGED privateVars /\ UNCHANGED guildVars
        /\ UNCHANGED tradeVars
    BY <1>9 DEF partyVars, privateVars, guildVars, tradeVars, partyOnly, guildOnly, tradeOnly
  <2> QED
    BY <1>1, <1>2, <1>3, <1>9, <1>4, <2>1, PartyStep, PrivateStep, GuildStep, TradeInvStep
    DEF SocietyInv
<1>10. CASE UNCHANGED societyVars
  BY <1>9, <1>10 DEF societyVars, partyVars, privateVars, guildVars, tradeVars,
     partyOnly, guildOnly, tradeOnly
<1>11. CASE SocietyNext
  BY <1>5, <1>6, <1>7, <1>8, <1>9, <1>11 DEF SocietyNext
<1> QED
  BY <1>10, <1>11

\* A society in which no one is in the game yet.
LEMMA SocietyStart == SocietyInit => SocietyInv
<1> SUFFICES ASSUME SocietyInit PROVE SocietyInv
  OBVIOUS
<1>1. online \subseteq Players /\ PartyIdle /\ PrivateIdle /\ GuildIdle
  BY DEF SocietyInit, PartyInit, PrivateInit, GuildInit, PartyIdle, PrivateIdle, GuildIdle
<1>2. TradeInit
  BY DEF SocietyInit
<1>3. TradeIdle
  BY <1>2 DEF TradeInit, TradeIdle, Places
<1> QED
  BY <1>1, <1>2, <1>3, PartyStart, IdleAgree, TradeInvInit DEF SocietyInv

\* Parties, private channels, guilds and trades agree with the players in the
\* game, whichever of them the behaviour is about: nobody is pointed to who has
\* left (Player::onRemoveCreature, Chat::removeUserFromAllChannels,
\* Player::setGuild), and no offer changes while it lasts (Player::checkTradeState).
THEOREM SocietyAgrees ==
    SocietySpec => [](PartyAgrees /\ ChatAgrees /\ TradersAgree) /\ OfferUntouched
<1>1. SocietyInv => PartyAgrees /\ ChatAgrees /\ TradersAgree
  <2> SUFFICES ASSUME SocietyInv PROVE PartyAgrees /\ ChatAgrees /\ TradersAgree
    OBVIOUS
  <2>1. PartyInv /\ PrivateInv /\ GuildInv
    BY PartyStart, IdleAgree DEF SocietyInv
  <2>2. TradersAgree
    BY NoTradesAgree, TradeInvImplies DEF SocietyInv
  <2> QED
    BY <2>1, <2>2, PartyEnds, PrivateEnds DEF ChatAgrees, GuildInv
<1>2. SocietyInv /\ [SocietyNext]_societyVars
        => [\A p \in Players :
             LET t == tradeItem[p]
             IN  t # NoItem /\ tradeItem'[p] = t =>
                   /\ place'[t] = place[t]
                   /\ \A i \in Items : Inside(place', i, t) <=> Inside(place, i, t)]_tradeVars
  BY SocietyStep DEF OffersLast, Untouched
<1> QED
  BY <1>1, <1>2, SocietyStart, SocietyStep, PTL DEF SocietySpec, OfferUntouched

-----------------------------------------------------------------------------
(***************************************************************************)
(* The market: what players own and what they have offered is as much as   *)
(* ever, and what a query has read of an offer is no less than is left.    *)
(***************************************************************************)
\* What a query may read.
Readings == UNION {[D -> Rows] : D \in SUBSET Offers}

Tables == [Offers -> Rows \cup {NoOffer}]

\* An offer that was read is the same as in the table, or is not there any
\* more, or has been accepted in part.
StillOf(table, row) ==
    \A o \in DOMAIN row : table[o] # NoOffer =>
        /\ table[o].player = row[o].player /\ table[o].type = row[o].type
        /\ table[o].amount <= row[o].amount

ReadBefore(table, list, next) ==
    \A k \in 1..Len(list) :
        StillOf(table, list[k]) /\ \A o \in DOMAIN list[k] : o < next

MarketInv ==
    /\ offers \in Tables /\ results \in Seq(Readings)
    /\ money \in [Players -> Int] /\ goods \in [Players -> Int] /\ fees \in Int
    /\ ware \in Wares /\ coinItems \in [Players -> Int]
    /\ inMarket \subseteq Players /\ nextId \in Nat
    /\ \A o \in Offers : ware = "missing" /\ offers[o] # NoOffer => offers[o].type = "buy"
    /\ \A o \in Offers : o >= nextId => offers[o] = NoOffer
    /\ ReadBefore(offers, results, nextId)

LEMMA SummedIs == ASSUME NEW f, NEW S PROVE Summed(f, S) = Total(f, S)
  BY DEF Summed, Total

LEMMA MarketFinite == IsFiniteSet(Players) /\ IsFiniteSet(Offers) /\ NoOffer \notin Rows
  BY MarketAssumption

LEMMA LockedTyped ==
    ASSUME NEW D, NEW rows \in [D -> Rows \cup {NoOffer}], NEW type, NEW worth \in Nat
    PROVE  AllIntegers(Locked(rows, type, worth), D)
<1>1. ASSUME NEW o \in D, rows[o] # NoOffer PROVE worth * rows[o].amount \in Int
  <2>1. PICK g \in Nat : g = rows[o].amount
    BY <1>1 DEF Rows
  <2> QED
    BY <2>1
<1> QED
  BY <1>1 DEF AllIntegers, Locked

\* The row of one offer changes.
LEMMA RowChanged ==
    ASSUME NEW rows \in Tables, NEW new \in Tables, NEW o \in Offers,
           \A x \in Offers \ {o} : new[x] = rows[x], NEW type, NEW worth \in Nat
    PROVE  /\ Summed(Locked(new, type, worth), Offers)
                = Summed(Locked(rows, type, worth), Offers) - Locked(rows, type, worth)[o]
                    + Locked(new, type, worth)[o]
           /\ Summed(Locked(rows, type, worth), Offers) \in Int
           /\ Locked(rows, type, worth)[o] \in Int /\ Locked(new, type, worth)[o] \in Int
<1>1. PICK w, u : w = Locked(rows, type, worth) /\ u = Locked(new, type, worth)
  OBVIOUS
<1>2. AllIntegers(w, Offers) /\ AllIntegers(u, Offers)
  BY <1>1, LockedTyped DEF Tables
<1>3. \A x \in Offers \ {o} : u[x] = w[x]
  BY <1>1 DEF Locked, Tables
<1>4. Total(u, Offers) = Total(w, Offers) - w[o] + u[o] /\ Total(w, Offers) \in Int
  BY <1>2, <1>3, MarketFinite, TotalMoved
<1> QED
  BY <1>1, <1>2, <1>4, SummedIs DEF AllIntegers

\* p gets d, or gives it.
Gets(f, g, p, d) ==
    g \in [Players -> Int] /\ g[p] = f[p] + d /\ \A q \in Players \ {p} : g[q] = f[q]

LEMMA PurseChanged ==
    ASSUME NEW f \in [Players -> Int], NEW p \in Players, NEW d \in Int, NEW g, Gets(f, g, p, d)
    PROVE  Summed(g, Players) = Summed(f, Players) + d /\ Summed(f, Players) \in Int
<1>1. AllIntegers(f, Players) /\ AllIntegers(g, Players) /\ f[p] \in Int
  BY DEF AllIntegers, Gets
<1>2. \A x \in Players \ {p} : g[x] = f[x]
  BY DEF Gets
<1>3. Total(g, Players) = Total(f, Players) - f[p] + g[p] /\ Total(f, Players) \in Int
  BY <1>1, <1>2, MarketFinite, TotalMoved
<1> QED
  BY <1>1, <1>3, SummedIs DEF Gets

LEMMA PurseMoved ==
    ASSUME NEW f \in [Players -> Int], NEW p \in Players, NEW q \in Players, NEW n \in Int
    PROVE  /\ Summed(Moved(f, p, q, n), Players) = Summed(f, Players)
           /\ Moved(f, p, q, n) \in [Players -> Int] /\ Summed(f, Players) \in Int
<1>1. PICK m \in Int : m = -n
  OBVIOUS
<1>2. PICK h : h = [f EXCEPT ![p] = f[p] + m]
  OBVIOUS
<1>3. Gets(f, h, p, m) /\ h \in [Players -> Int]
  BY <1>2 DEF Gets
<1>4. PICK g : g = Moved(f, p, q, n)
  OBVIOUS
<1>5. Gets(h, g, q, n) /\ g \in [Players -> Int]
  BY <1>1, <1>2, <1>4 DEF Gets, Moved
<1>6. Summed(h, Players) = Summed(f, Players) + m /\ Summed(f, Players) \in Int
  BY <1>3, PurseChanged
<1>7. Summed(g, Players) = Summed(h, Players) + n
  BY <1>3, <1>5, PurseChanged
<1> QED
  BY <1>1, <1>4, <1>5, <1>6, <1>7

\* Nobody has less in g than in f who has less than nothing.
OwesNoMore(f, g) == \A p \in Players : g[p] < 0 => g[p] >= f[p]

\* What a handler adds or takes leaves numbers.
LEMMA GoodsTyped ==
    ASSUME NEW f \in [Players -> Int], NEW p \in Players, NEW n \in Nat
    PROVE  GoodsTaken(f, p, n) \in [Players -> Int] /\ GoodsAdded(f, p, n) \in [Players -> Int]
<1>1. [f EXCEPT ![p] = @ - n] \in [Players -> Int] /\ [f EXCEPT ![p] = @ + n] \in [Players -> Int]
  OBVIOUS
<1> QED
  BY <1>1 DEF GoodsTaken, GoodsAdded

LEMMA GoodsMoved ==
    ASSUME NEW f \in [Players -> Int], NEW p \in Players, NEW q \in Players, NEW n \in Nat,
           n <= f[p], NEW g, g = GoodsAdded(GoodsTaken(f, p, n), q, n)
    PROVE  Summed(g, Players) = Summed(f, Players) /\ OwesNoMore(f, g)
<1>1. CASE ware = "missing"
  <2>1. g = f
    BY <1>1 DEF GoodsTaken, GoodsAdded
  <2> QED
    BY <2>1 DEF OwesNoMore
<1>2. CASE ware # "missing"
  <2>1. PICK m \in Int, k \in Int : m = -n /\ k = n
    OBVIOUS
  <2>2. PICK h : h = [f EXCEPT ![p] = f[p] - n]
    OBVIOUS
  <2>3. GoodsTaken(f, p, n) = h
    BY <1>2, <2>2 DEF GoodsTaken
  <2>4. Gets(f, h, p, m) /\ h \in [Players -> Int] /\ h[p] >= 0
    BY <2>1, <2>2 DEF Gets
  <2>5. g = [h EXCEPT ![q] = h[q] + n]
    BY <1>2, <2>3 DEF GoodsAdded
  <2>6. Gets(h, g, q, k) /\ g \in [Players -> Int]
    BY <2>1, <2>4, <2>5 DEF Gets
  <2>7. /\ Summed(h, Players) = Summed(f, Players) + m /\ Summed(f, Players) \in Int
        /\ Summed(g, Players) = Summed(h, Players) + k
    BY <2>4, <2>6, PurseChanged
  <2>8. OwesNoMore(f, g)
    <3>1. ASSUME NEW x \in Players PROVE g[x] < 0 => g[x] >= f[x]
      <4>1. CASE x = p
        BY <2>4, <2>5, <4>1
      <4>2. CASE x # p
        <5>1. h[x] = f[x] /\ f[x] \in Int
          BY <2>2, <4>2
        <5> QED
          BY <2>4, <2>5, <5>1
      <4> QED
        BY <4>1, <4>2
    <3> QED
      BY <3>1 DEF OwesNoMore
  <2> QED
    BY <2>1, <2>7, <2>8
<1> QED
  BY <1>1, <1>2

\* Each gets what the rows hold for them: in all, what the rows hold.
LEMMA Refunded ==
    ASSUME NEW f \in [Players -> Int], NEW D \in SUBSET Offers, NEW due \in [D -> Rows],
           NEW type, NEW worth \in Nat,
           NEW g, g = [p \in Players |-> f[p] + Refund(p, due, type, worth)]
    PROVE  /\ Summed(g, Players) = Summed(f, Players) + Summed(Locked(due, type, worth), D)
           /\ g \in [Players -> Int] /\ Summed(f, Players) \in Int
           /\ Summed(Locked(due, type, worth), D) \in Int
           /\ OwesNoMore(f, g)
<1>1. PICK w, c : w = Locked(due, type, worth) /\ c = [o \in D |-> due[o].player]
  OBVIOUS
<1>2. IsFiniteSet(D)
  BY MarketFinite, FS_Subset
<1>3. AllIntegers(w, D)
  <2>1. due \in [D -> Rows \cup {NoOffer}]
    OBVIOUS
  <2> QED
    BY <1>1, <2>1, LockedTyped
<1>4. \A o \in D : c[o] \in Players
  BY <1>1 DEF Rows
<1>5. PICK u : u = ByClass(D, w, c, Players)
  OBVIOUS
<1>6. Total(u, Players) = Total(w, D) /\ AllIntegers(u, Players)
  BY <1>2, <1>3, <1>4, <1>5, MarketFinite, TotalByClass
<1>7. ASSUME NEW p \in Players PROVE Refund(p, due, type, worth) = u[p]
  <2>1. [o \in DOMAIN due |-> IF due[o].player = p THEN w[o] ELSE 0]
        = [o \in D |-> IF c[o] = p THEN w[o] ELSE 0]
    BY <1>1
  <2> QED
    BY <1>1, <1>5, <2>1, SummedIs DEF Refund, ByClass
<1>8. AllIntegers(f, Players)
  BY DEF AllIntegers
<1>9. \A p \in Players : g[p] = f[p] + u[p]
  BY <1>7
<1>10. Total(g, Players) = Total(f, Players) + Total(u, Players)
  BY <1>6, <1>8, <1>9, MarketFinite, TotalAdded
<1>11. Total(f, Players) \in Int /\ Total(w, D) \in Int
  BY <1>2, <1>3, <1>8, MarketFinite, TotalInt
<1>12. g \in [Players -> Int]
  BY <1>6, <1>9 DEF AllIntegers
<1>13. ASSUME NEW p \in Players PROVE u[p] \in Nat
  <2>1. PICK v : v = [o \in D |-> IF c[o] = p THEN w[o] ELSE 0]
    OBVIOUS
  <2>2. ASSUME NEW o \in D PROVE w[o] \in Nat
    <3>1. PICK n \in Nat : n = due[o].amount
      BY DEF Rows
    <3>2. worth * n \in Nat
      OBVIOUS
    <3> QED
      BY <1>1, <3>1, <3>2 DEF Locked
  <2>3. v \in [D -> Nat]
    BY <2>1, <2>2
  <2> QED
    BY <1>2, <1>5, <2>1, <2>3, TotalNat DEF ByClass
<1>14. OwesNoMore(f, g)
  BY <1>9, <1>13 DEF OwesNoMore
<1> QED
  BY <1>1, <1>6, <1>10, <1>11, <1>12, <1>14, SummedIs

\* Rows that go, and held what was read of them.
Settled(rows, new, D, due) ==
    /\ new = [o \in Offers |-> IF o \in D THEN NoOffer ELSE rows[o]]
    /\ \A o \in D : /\ rows[o] # NoOffer /\ rows[o].type = due[o].type
                     /\ rows[o].amount = due[o].amount

LEMMA RowsSettled ==
    ASSUME NEW rows \in Tables, NEW D \in SUBSET Offers, NEW due \in [D -> Rows], NEW new,
           Settled(rows, new, D, due), NEW type, NEW worth \in Nat
    PROVE  /\ Summed(Locked(rows, type, worth), Offers)
                = Summed(Locked(new, type, worth), Offers) + Summed(Locked(due, type, worth), D)
           /\ Summed(Locked(new, type, worth), Offers) \in Int
<1> USE DEF Settled
<1>1. PICK w, u, v : /\ w = Locked(rows, type, worth) /\ u = Locked(new, type, worth)
                     /\ v = Locked(due, type, worth)
  OBVIOUS
<1>2. PICK g : g = [o \in Offers |-> IF o \in D THEN v[o] ELSE 0]
  OBVIOUS
<1>3. new \in Tables
  BY DEF Tables
<1>4. AllIntegers(w, Offers) /\ AllIntegers(u, Offers)
  BY <1>1, <1>3, LockedTyped DEF Tables
<1>5. AllIntegers(v, D)
  <2>1. due \in [D -> Rows \cup {NoOffer}]
    OBVIOUS
  <2> QED
    BY <1>1, <2>1, LockedTyped
<1>6. AllIntegers(g, Offers)
  BY <1>2, <1>5 DEF AllIntegers
<1>7. Total(g, Offers) = Total(v, D)
  BY <1>2, <1>5, MarketFinite, TotalWhere
<1>8. \A o \in Offers : w[o] = u[o] + g[o]
  <2>1. ASSUME NEW o \in Offers PROVE w[o] = u[o] + g[o]
    <3>1. CASE o \in D
      <4>1. due[o] # NoOffer
        BY <3>1, MarketFinite
      <4>2. v[o] = w[o]
        BY <1>1, <3>1, <4>1 DEF Locked, Tables
      <4>3. u[o] = 0 /\ g[o] = v[o] /\ v[o] \in Int
        BY <1>1, <1>2, <1>5, <3>1 DEF Locked, AllIntegers
      <4> QED
        BY <4>2, <4>3
    <3>2. CASE o \notin D
      <4>1. u[o] = w[o] /\ g[o] = 0 /\ u[o] \in Int
        BY <1>1, <1>2, <1>4, <3>2 DEF Locked, AllIntegers, Tables
      <4> QED
        BY <4>1
    <3> QED
      BY <3>1, <3>2
  <2> QED
    BY <2>1
<1>9. Total(w, Offers) = Total(u, Offers) + Total(g, Offers)
  BY <1>4, <1>6, <1>8, MarketFinite, TotalAdded
<1>10. Total(u, Offers) \in Int
  BY <1>4, MarketFinite, TotalInt
<1> QED
  BY <1>1, <1>7, <1>9, <1>10, SummedIs

\* What was read before stays what it was while the table changes like this.
Follows(table, new, next) ==
    \A o \in Offers : o < next /\ new[o] # NoOffer =>
        /\ table[o] # NoOffer
        /\ new[o].player = table[o].player /\ new[o].type = table[o].type
        /\ new[o].amount <= table[o].amount

LEMMA ReadingIs ==
    ASSUME NEW list \in Seq(Readings), NEW k \in 1..Len(list)
    PROVE  DOMAIN list[k] \subseteq Offers /\ list[k] \in [DOMAIN list[k] -> Rows]
<1>1. list[k] \in Readings
  OBVIOUS
<1> QED
  BY <1>1 DEF Readings

LEMMA ReadStays ==
    ASSUME NEW table \in Tables, NEW new \in Tables, NEW list \in Seq(Readings),
           NEW next \in Nat, NEW then \in Nat, next <= then,
           ReadBefore(table, list, next), Follows(table, new, next)
    PROVE  ReadBefore(new, list, then)
<1>1. ASSUME NEW k \in 1..Len(list), NEW o \in DOMAIN list[k]
      PROVE  /\ o < then
             /\ new[o] # NoOffer => /\ new[o].player = list[k][o].player
                                    /\ new[o].type = list[k][o].type
                                    /\ new[o].amount <= list[k][o].amount
  <2>1. o \in Offers /\ list[k][o] \in Rows
    BY ReadingIs
  <2>2. o \in Nat /\ o < next
    BY <2>1, MarketAssumption DEF ReadBefore
  <2>3. SUFFICES ASSUME new[o] # NoOffer
                 PROVE  /\ new[o].player = list[k][o].player
                        /\ new[o].type = list[k][o].type
                        /\ new[o].amount <= list[k][o].amount
    BY <2>2
  <2>4. /\ table[o] # NoOffer
        /\ new[o].player = table[o].player /\ new[o].type = table[o].type
        /\ new[o].amount <= table[o].amount
    BY <2>1, <2>2, <2>3 DEF Follows
  <2>5. /\ table[o].player = list[k][o].player /\ table[o].type = list[k][o].type
        /\ table[o].amount <= list[k][o].amount
    BY <2>4 DEF ReadBefore, StillOf
  <2>6. new[o] \in Rows /\ table[o] \in Rows
    BY <2>1, <2>3, <2>4 DEF Tables
  <2>7. new[o].amount \in Nat /\ table[o].amount \in Nat /\ list[k][o].amount \in Nat
    BY <2>1, <2>6 DEF Rows
  <2> QED
    BY <2>4, <2>5, <2>7
<1> QED
  BY <1>1 DEF ReadBefore, StillOf

\* Nothing comes into being or is lost, and nobody gives what is not there.
Conserved == TotalGoods' = TotalGoods /\ TotalMoney' = TotalMoney /\ NobodyOwesMore

\* Or it is done with coins that nobody has checked.
ConservedOrNot ==
    /\ TotalMoney' = TotalMoney
    /\ (TotalGoods' = TotalGoods /\ NobodyOwesMore) \/ CoinsUnchecked

\* The sums are numbers.
LEMMA PursesTyped ==
    ASSUME MarketInv, NEW type, NEW worth \in Nat
    PROVE  /\ Summed(money, Players) \in Int /\ Summed(goods, Players) \in Int
           /\ Summed(coinItems, Players) \in Int
           /\ Summed(Locked(offers, type, worth), Offers) \in Int
<1>1. /\ AllIntegers(money, Players) /\ AllIntegers(goods, Players)
      /\ AllIntegers(coinItems, Players)
  BY DEF MarketInv, AllIntegers
<1>2. AllIntegers(Locked(offers, type, worth), Offers)
  BY LockedTyped DEF MarketInv, Tables
<1> QED
  BY <1>1, <1>2, MarketFinite, TotalInt, SummedIs

LEMMA Numbers == /\ Price \in Nat /\ Fee \in Nat /\ 1 \in Nat
                 /\ \A n \in Amounts : n \in Nat /\ n # 0
                 /\ \A o \in Offers : o \in Nat
  BY MarketAssumption

\* The handlers that leave the offers and the purses alone.
LEMMA OthersKeep ==
    ASSUME MarketInv, UNCHANGED <<ware, coinItems, money, goods, offers, nextId, fees, results>>,
           inMarket' \subseteq Players
    PROVE  MarketInv' /\ Conserved
<1>1. MarketInv'
  BY DEF MarketInv
<1>2. TotalGoods' = TotalGoods /\ TotalMoney' = TotalMoney
  BY DEF TotalGoods, TotalMoney
<1>3. NobodyOwesMore
  <2>1. goods \in [Players -> Int] /\ goods' = goods
    BY DEF MarketInv
  <2> QED
    BY <2>1 DEF NobodyOwesMore
<1> QED
  BY <1>1, <1>2, <1>3 DEF Conserved

\* A handler that changes the row of o and the purses by as much.
LEMMA OneOfferKeeps ==
    ASSUME MarketInv, NEW o \in Offers, offers' \in Tables,
           \A x \in Offers \ {o} : offers'[x] = offers[x],
           money' \in [Players -> Int], goods' \in [Players -> Int], fees' \in Int,
           nextId' \in Nat, nextId <= nextId', o < nextId',
           Follows(offers, offers', nextId),
           UNCHANGED <<ware, coinItems, inMarket, results>>,
           ware = "missing" /\ offers'[o] # NoOffer => offers'[o].type = "buy",
           NEW b \in Int,
           Summed(money', Players) + fees' = Summed(money, Players) + fees + b,
           Locked(offers', "buy", Price)[o] + b = Locked(offers, "buy", Price)[o]
    PROVE  MarketInv' /\ TotalMoney' = TotalMoney
<1>1. /\ offers \in Tables /\ results \in Seq(Readings) /\ inMarket \subseteq Players
      /\ nextId \in Nat /\ ReadBefore(offers, results, nextId) /\ fees \in Int
      /\ \A x \in Offers : x >= nextId => offers[x] = NoOffer
      /\ ware \in Wares /\ coinItems \in [Players -> Int]
      /\ \A x \in Offers : ware = "missing" /\ offers[x] # NoOffer => offers[x].type = "buy"
  BY DEF MarketInv
<1>2. ReadBefore(offers', results, nextId')
  BY <1>1, ReadStays
<1>3. ASSUME NEW x \in Offers, x >= nextId' PROVE offers'[x] = NoOffer
  <2>1. x \in Nat /\ o \in Nat
    BY Numbers
  <2>2. x # o /\ x >= nextId
    BY <1>1, <1>3, <2>1
  <2> QED
    BY <1>1, <2>2
<1>4. MarketInv'
  <2>1. \A x \in Offers : ware' = "missing" /\ offers'[x] # NoOffer => offers'[x].type = "buy"
    BY <1>1
  <2> QED
    BY <1>1, <1>2, <1>3, <2>1 DEF MarketInv
<1>5. PICK table, new : table = offers /\ new = offers'
  OBVIOUS
<1>6. /\ table \in Tables /\ new \in Tables
      /\ \A x \in Offers \ {o} : new[x] = table[x]
  BY <1>1, <1>5
<1>7. PICK buy : buy = "buy"
  OBVIOUS
<1>8. PICK price \in Nat : price = Price
  BY Numbers
<1>9. PICK q, r : q = Locked(offers, "buy", Price) /\ r = Locked(offers', "buy", Price)
  OBVIOUS
<1>10. /\ Summed(r, Offers) = Summed(q, Offers) - q[o] + r[o] /\ Summed(q, Offers) \in Int
       /\ q[o] \in Int /\ r[o] \in Int
  <2>1. q = Locked(table, buy, price) /\ r = Locked(new, buy, price)
    BY <1>9, <1>5, <1>7, <1>8
  <2> QED
    BY <1>6, <2>1, RowChanged
<1>11. PICK B \in Int : B = Summed(money, Players)
  BY Numbers, PursesTyped
<1>12. AllIntegers(money', Players)
  BY DEF AllIntegers
<1>13. Summed(money', Players) \in Int
  BY <1>12, MarketFinite, TotalInt, SummedIs
<1>14. Summed(money', Players) + Summed(r, Offers) + fees'
       = Summed(money, Players) + Summed(q, Offers) + fees
  <2>1. PICK C, c, d \in Int : C = Summed(money', Players) /\ c = fees /\ d = fees'
    BY <1>1, <1>13
  <2>2. PICK Q, R \in Int : Q = Summed(q, Offers) /\ R = Summed(r, Offers)
    BY <1>10
  <2>3. PICK x, y \in Int : x = q[o] /\ y = r[o]
    BY <1>10
  <2>4. R = Q - x + y /\ y + b = x /\ C + d = B + c + b
    BY <1>9, <1>10, <1>11, <2>1, <2>2, <2>3
  <2>5. C + R + d = B + Q + c
    BY <2>4
  <2> QED
    BY <1>11, <2>1, <2>2, <2>5
<1> QED
  BY <1>4, <1>9, <1>14 DEF TotalMoney

LEMMA OneOfferEven ==
    ASSUME MarketInv, NEW o \in Offers, offers' \in Tables,
           \A x \in Offers \ {o} : offers'[x] = offers[x],
           UNCHANGED coinItems, NEW a \in Int,
           Summed(goods', Players) = Summed(goods, Players) + a,
           Locked(offers', "sell", 1)[o] + a = Locked(offers, "sell", 1)[o]
    PROVE  TotalGoods' = TotalGoods
<1>1. PICK table, new : table = offers /\ new = offers'
  OBVIOUS
<1>2. /\ table \in Tables /\ new \in Tables
      /\ \A x \in Offers \ {o} : new[x] = table[x]
  BY <1>1 DEF MarketInv
<1>3. PICK sell : sell = "sell"
  OBVIOUS
<1>4. PICK one \in Nat : one = 1
  OBVIOUS
<1>5. PICK s, t : s = Locked(offers, "sell", 1) /\ t = Locked(offers', "sell", 1)
  OBVIOUS
<1>6. /\ Summed(t, Offers) = Summed(s, Offers) - s[o] + t[o] /\ Summed(s, Offers) \in Int
      /\ s[o] \in Int /\ t[o] \in Int
  <2>1. s = Locked(table, sell, one) /\ t = Locked(new, sell, one)
    BY <1>5, <1>1, <1>3, <1>4
  <2> QED
    BY <1>2, <2>1, RowChanged
<1>7. PICK A, C \in Int : A = Summed(goods, Players) /\ C = Summed(coinItems, Players)
  BY Numbers, PursesTyped
<1>8. Summed(goods', Players) + C + Summed(t, Offers)
      = Summed(goods, Players) + C + Summed(s, Offers)
  BY <1>5, <1>6, <1>7
<1> QED
  BY <1>5, <1>7, <1>8 DEF TotalGoods

LEMMA CreateKeeps ==
    ASSUME MarketInv, NEW p \in Players, NEW type \in {"buy", "sell"}, NEW n \in Amounts,
           PlayerCreateMarketOffer(p, type, n)
    PROVE  MarketInv' /\ ConservedOrNot
<1>1. /\ offers \in Tables /\ results \in Seq(Readings) /\ nextId \in Nat /\ fees \in Int
      /\ money \in [Players -> Int] /\ goods \in [Players -> Int]
      /\ \A x \in Offers : x >= nextId => offers[x] = NoOffer
  BY DEF MarketInv
<1>2. PICK o \in Offers : o = nextId
  BY DEF PlayerCreateMarketOffer
<1>3. /\ offers[o] = NoOffer /\ nextId' = nextId + 1 /\ fees' = fees + Fee
      /\ UNCHANGED <<ware, coinItems, inMarket, results>>
      /\ offers' = [offers EXCEPT ![o] =
            [player |-> p, type |-> type, amount |-> n, expired |-> FALSE]]
  BY <1>1, <1>2 DEF PlayerCreateMarketOffer, wareVars
<1>4. PICK row : row = [player |-> p, type |-> type, amount |-> n, expired |-> FALSE]
  OBVIOUS
<1>5. row \in Rows /\ row # NoOffer /\ row.type = type /\ row.amount = n /\ n \in Nat
  <2>1. n \in Nat
    BY Numbers
  <2>2. row \in Rows
    BY <1>4, <2>1 DEF Rows
  <2> QED
    BY <1>4, <2>1, <2>2, MarketFinite
<1>6. /\ offers' \in Tables /\ offers'[o] = row /\ DOMAIN offers' = Offers
      /\ DOMAIN offers = Offers
      /\ \A x \in Offers \ {o} : offers'[x] = offers[x]
  BY <1>1, <1>3, <1>4, <1>5 DEF Tables
<1>7. nextId' \in Nat /\ nextId <= nextId' /\ o < nextId' /\ fees' \in Int
  BY <1>1, <1>2, <1>3, Numbers
<1>8. Follows(offers, offers', nextId)
  <2>1. ASSUME NEW x \in Offers, x < nextId, offers'[x] # NoOffer
        PROVE  /\ offers[x] # NoOffer
               /\ offers'[x].player = offers[x].player /\ offers'[x].type = offers[x].type
               /\ offers'[x].amount <= offers[x].amount
    <3>1. x # o
      BY <1>1, <1>2, <2>1
    <3>2. offers'[x] = offers[x]
      BY <1>6, <3>1
    <3>3. offers[x] \in Rows
      BY <1>1, <2>1, <3>2 DEF Tables
    <3>4. offers[x].amount \in Nat
      BY <3>3 DEF Rows
    <3> QED
      BY <2>1, <3>2, <3>4
  <2> QED
    BY <2>1 DEF Follows
<1>9. Locked(offers, "sell", 1)[o] = 0 /\ Locked(offers, "buy", Price)[o] = 0
  BY <1>3, <1>6 DEF Locked
<1>10. CASE type = "sell"
  <2>1. /\ goods' = GoodsTaken(goods, p, n) /\ money' = [money EXCEPT ![p] = @ - Fee]
        /\ ForSale(p, n)
    BY <1>10 DEF PlayerCreateMarketOffer
  <2>2. PICK a \in Int, b \in Int : a = -n /\ b = -Fee
    BY <1>5, Numbers
  <2>3. Gets(money, money', p, b)
    BY <1>1, <2>1, <2>2, Numbers DEF Gets
  <2>4. /\ Summed(money', Players) = Summed(money, Players) + b
        /\ Summed(money, Players) \in Int
    BY <1>1, <2>3, PurseChanged
  <2>5. Summed(money', Players) + fees' = Summed(money, Players) + fees + 0
    BY <1>1, <1>3, <2>2, <2>4, Numbers
  <2>6. Locked(offers', "sell", 1)[o] = n /\ Locked(offers', "buy", Price)[o] = 0
    BY <1>5, <1>6, <1>10 DEF Locked
  <2>7. /\ Locked(offers', "sell", 1)[o] + a = Locked(offers, "sell", 1)[o]
        /\ Locked(offers', "buy", Price)[o] + 0 = Locked(offers, "buy", Price)[o]
    BY <1>5, <1>9, <2>2, <2>6
  <2>8. money' \in [Players -> Int] /\ goods' \in [Players -> Int]
    BY <1>1, <1>5, <2>1, <2>3, GoodsTyped DEF Gets
  <2>9. PICK z \in Int : z = 0
    OBVIOUS
  <2>10. ware # "missing"
    BY <2>1 DEF ForSale
  <2>11. MarketInv' /\ TotalMoney' = TotalMoney
    BY <1>3, <1>6, <1>7, <1>8, <2>5, <2>7, <2>8, <2>9, <2>10, OneOfferKeeps
  <2>12. CASE n <= goods[p]
    <3>1. goods[p] \in Int /\ ~(goods[p] < n)
      BY <1>1, <1>5, <2>12
    <3>2. goods' = [goods EXCEPT ![p] = goods[p] - n]
      BY <2>1, <2>10, <3>1 DEF GoodsTaken
    <3>3. Gets(goods, goods', p, a) /\ goods'[p] >= 0
      BY <1>1, <1>5, <2>2, <2>12, <3>1, <3>2 DEF Gets
    <3>4. Summed(goods', Players) = Summed(goods, Players) + a
      BY <1>1, <3>3, PurseChanged
    <3>5. TotalGoods' = TotalGoods
      BY <1>3, <1>6, <2>7, <3>4, OneOfferEven
    <3>6. ASSUME NEW x \in Players, goods'[x] < 0 PROVE goods'[x] >= goods[x]
      <4>1. CASE x = p
        BY <1>1, <1>5, <2>12, <3>1, <3>2, <3>6, <4>1
      <4>2. CASE x # p
        <5>1. goods'[x] = goods[x] /\ goods[x] \in Int
          BY <1>1, <3>2, <4>2
        <5> QED
          BY <5>1
      <4> QED
        BY <4>1, <4>2
    <3> QED
      BY <2>11, <3>5, <3>6 DEF ConservedOrNot, NobodyOwesMore
  <2>13. CASE ~(n <= goods[p])
    <3>1. StoreCoins /\ goods[p] < 0 /\ PlayerCreateMarketOffer(p, "sell", n)
      BY <1>10, <2>1, <2>13 DEF ForSale
    <3> QED
      BY <2>11, <3>1 DEF ConservedOrNot, CoinsUnchecked
  <2> QED
    BY <2>12, <2>13
<1>11. CASE type = "buy"
  <2>1. /\ goods' = goods /\ money' = [money EXCEPT ![p] = @ - (Price * n + Fee)]
    BY <1>11 DEF PlayerCreateMarketOffer
  <2>2. PICK c \in Nat : c = Price * n
    BY <1>5, Numbers
  <2>3. PICK a \in Int, b \in Int : a = -c /\ b = -(c + Fee)
    BY Numbers
  <2>4. Gets(money, money', p, b)
    <3>1. money[p] \in Int
      BY <1>1
    <3>2. money[p] - (Price * n + Fee) = money[p] + b
      BY <2>2, <2>3, <3>1, Numbers
    <3>3. money' = [money EXCEPT ![p] = money[p] + b]
      BY <2>1, <3>2
    <3> QED
      BY <1>1, <3>1, <3>3 DEF Gets
  <2>5. Summed(money', Players) = Summed(money, Players) + b /\ Summed(money, Players) \in Int
    BY <1>1, <2>4, PurseChanged
  <2>6. Summed(money', Players) + fees' = Summed(money, Players) + fees + a
    BY <1>1, <1>3, <2>3, <2>5, Numbers
  <2>7. Locked(offers', "sell", 1)[o] = 0 /\ Locked(offers', "buy", Price)[o] = c
    BY <1>5, <1>6, <1>11, <2>2 DEF Locked
  <2>8. /\ Locked(offers', "sell", 1)[o] + 0 = Locked(offers, "sell", 1)[o]
        /\ Locked(offers', "buy", Price)[o] + a = Locked(offers, "buy", Price)[o]
    BY <1>9, <2>3, <2>7
  <2>9. money' \in [Players -> Int] /\ goods' \in [Players -> Int]
    BY <1>1, <2>1, <2>4 DEF Gets
  <2>10. Summed(goods', Players) = Summed(goods, Players) + 0
    BY <2>1, PursesTyped, Numbers
  <2>11. PICK z \in Int : z = 0
    OBVIOUS
  <2>12. offers'[o] # NoOffer => offers'[o].type = "buy"
    BY <1>5, <1>6, <1>11
  <2>13. MarketInv' /\ TotalMoney' = TotalMoney
    BY <1>3, <1>6, <1>7, <1>8, <2>6, <2>8, <2>9, <2>12, OneOfferKeeps
  <2>14. TotalGoods' = TotalGoods
    BY <1>3, <1>6, <2>8, <2>10, <2>11, OneOfferEven
  <2>15. NobodyOwesMore
    BY <1>1, <2>1 DEF NobodyOwesMore
  <2> QED
    BY <2>13, <2>14, <2>15 DEF ConservedOrNot
<1> QED
  BY <1>10, <1>11

LEMMA CancelKeeps ==
    ASSUME MarketInv, NEW p \in Players, NEW o \in Offers, PlayerCancelMarketOffer(p, o)
    PROVE  MarketInv' /\ Conserved
<1>1. /\ offers \in Tables /\ results \in Seq(Readings) /\ nextId \in Nat /\ fees \in Int
      /\ money \in [Players -> Int] /\ goods \in [Players -> Int]
      /\ \A x \in Offers : x >= nextId => offers[x] = NoOffer
      /\ ware = "missing" /\ offers[o] # NoOffer => offers[o].type = "buy"
  BY DEF MarketInv
<1>2. /\ offers[o] # NoOffer /\ offers' = [offers EXCEPT ![o] = NoOffer]
      /\ UNCHANGED <<ware, coinItems, inMarket, nextId, fees, results>>
  BY DEF PlayerCancelMarketOffer, wareVars
<1>3. offers[o] \in Rows
  BY <1>1, <1>2 DEF Tables
<1>4. PICK n \in Nat : n = offers[o].amount
  BY <1>3 DEF Rows
<1>5. /\ offers' \in Tables /\ offers'[o] = NoOffer /\ DOMAIN offers' = Offers
      /\ DOMAIN offers = Offers
      /\ \A x \in Offers \ {o} : offers'[x] = offers[x]
  BY <1>1, <1>2 DEF Tables
<1>6. nextId' \in Nat /\ nextId <= nextId' /\ o < nextId' /\ fees' \in Int
  BY <1>1, <1>2, Numbers
<1>7. Follows(offers, offers', nextId)
  <2>1. ASSUME NEW x \in Offers, offers'[x] # NoOffer
        PROVE  /\ offers[x] # NoOffer
               /\ offers'[x].player = offers[x].player /\ offers'[x].type = offers[x].type
               /\ offers'[x].amount <= offers[x].amount
    <3>1. x # o
      BY <1>5, <2>1
    <3>2. offers'[x] = offers[x]
      BY <1>5, <3>1
    <3>3. offers[x] \in Rows
      BY <1>1, <2>1, <3>2 DEF Tables
    <3>4. offers[x].amount \in Nat
      BY <3>3 DEF Rows
    <3> QED
      BY <2>1, <3>2, <3>4
  <2> QED
    BY <2>1 DEF Follows
<1>8. Locked(offers', "sell", 1)[o] = 0 /\ Locked(offers', "buy", Price)[o] = 0
  BY <1>5 DEF Locked
<1>9. PICK z \in Int : z = 0
  OBVIOUS
<1>10. Summed(goods, Players) \in Int /\ Summed(money, Players) \in Int
  BY PursesTyped, Numbers
<1>11. CASE offers[o].type = "buy"
  <2>1. PICK c \in Int : c = Price * n
    BY Numbers
  <2>2. money' = [money EXCEPT ![p] = @ + c] /\ goods' = goods
    BY <1>4, <1>11, <2>1 DEF PlayerCancelMarketOffer
  <2>3. Gets(money, money', p, c)
    BY <1>1, <2>2 DEF Gets
  <2>4. Summed(money', Players) = Summed(money, Players) + c
    BY <1>1, <2>3, PurseChanged
  <2>5. /\ Summed(goods', Players) = Summed(goods, Players) + z
        /\ Summed(money', Players) + fees' = Summed(money, Players) + fees + c
    BY <1>1, <1>2, <1>9, <1>10, <2>2, <2>4
  <2>6. Locked(offers, "sell", 1)[o] = 0 /\ Locked(offers, "buy", Price)[o] = c
    BY <1>2, <1>4, <1>5, <1>11, <2>1 DEF Locked
  <2>7. /\ Locked(offers', "sell", 1)[o] + z = Locked(offers, "sell", 1)[o]
        /\ Locked(offers', "buy", Price)[o] + c = Locked(offers, "buy", Price)[o]
    BY <1>8, <1>9, <2>6
  <2>8. money' \in [Players -> Int] /\ goods' \in [Players -> Int]
    BY <1>1, <2>2, <2>3 DEF Gets
  <2>9. MarketInv' /\ TotalMoney' = TotalMoney
    BY <1>2, <1>5, <1>6, <1>7, <2>5, <2>7, <2>8, OneOfferKeeps
  <2>10. TotalGoods' = TotalGoods
    BY <1>2, <1>5, <2>5, <2>7, OneOfferEven
  <2>11. NobodyOwesMore
    BY <1>1, <2>2 DEF NobodyOwesMore
  <2> QED
    BY <2>9, <2>10, <2>11 DEF Conserved
<1>12. CASE offers[o].type # "buy"
  <2>1. offers[o].type = "sell"
    BY <1>3, <1>12 DEF Rows
  <2>2. goods' = [goods EXCEPT ![p] = @ + n] /\ money' = money
    <3>1. goods' = GoodsAdded(goods, p, n) /\ money' = money
      BY <1>4, <1>12 DEF PlayerCancelMarketOffer
    <3>2. ware # "missing"
      BY <1>1, <1>2, <1>12
    <3> QED
      BY <3>1, <3>2 DEF GoodsAdded
  <2>3. Gets(goods, goods', p, n)
    BY <1>1, <2>2 DEF Gets
  <2>4. Summed(goods', Players) = Summed(goods, Players) + n /\ n \in Int
    BY <1>1, <2>3, PurseChanged
  <2>5. Summed(money', Players) + fees' = Summed(money, Players) + fees + z
    BY <1>1, <1>2, <1>9, <1>10, <2>2
  <2>6. Locked(offers, "sell", 1)[o] = n /\ Locked(offers, "buy", Price)[o] = 0
    BY <1>2, <1>4, <1>5, <2>1 DEF Locked
  <2>7. /\ Locked(offers', "sell", 1)[o] + n = Locked(offers, "sell", 1)[o]
        /\ Locked(offers', "buy", Price)[o] + z = Locked(offers, "buy", Price)[o]
    BY <1>8, <1>9, <2>6
  <2>8. money' \in [Players -> Int] /\ goods' \in [Players -> Int]
    BY <1>1, <2>2, <2>3 DEF Gets
  <2>9. MarketInv' /\ TotalMoney' = TotalMoney
    BY <1>2, <1>5, <1>6, <1>7, <1>9, <2>5, <2>7, <2>8, OneOfferKeeps
  <2>10. TotalGoods' = TotalGoods
    BY <1>2, <1>5, <2>4, <2>7, OneOfferEven
  <2>11. NobodyOwesMore
    BY <1>1, <2>2 DEF NobodyOwesMore
  <2> QED
    BY <2>9, <2>10, <2>11 DEF Conserved
<1> QED
  BY <1>11, <1>12

LEMMA AcceptKeeps ==
    ASSUME MarketInv, NEW p \in Players, NEW o \in Offers, NEW n \in Amounts,
           PlayerAcceptMarketOffer(p, o, n)
    PROVE  MarketInv' /\ ConservedOrNot
<1>1. /\ offers \in Tables /\ results \in Seq(Readings) /\ nextId \in Nat /\ fees \in Int
      /\ money \in [Players -> Int] /\ goods \in [Players -> Int]
      /\ \A x \in Offers : x >= nextId => offers[x] = NoOffer
      /\ ware = "missing" /\ offers[o] # NoOffer => offers[o].type = "buy"
  BY DEF MarketInv
<1>2. PICK row : row = offers[o]
  OBVIOUS
<1>3. /\ row # NoOffer /\ n <= row.amount
      /\ UNCHANGED <<ware, coinItems, inMarket, nextId, fees, results>>
      /\ offers' = [offers EXCEPT ![o] =
            IF row.amount = n THEN NoOffer ELSE [row EXCEPT !.amount = row.amount - n]]
  <2>1. offers' = [offers EXCEPT ![o] =
            IF @.amount = n THEN NoOffer ELSE [@ EXCEPT !.amount = offers[o].amount - n]]
    BY DEF PlayerAcceptMarketOffer
  <2>2. /\ offers[o] # NoOffer /\ n <= offers[o].amount
        /\ UNCHANGED <<ware, coinItems, inMarket, nextId, fees, results>>
    BY DEF PlayerAcceptMarketOffer, wareVars
  <2> QED
    BY <1>2, <2>1, <2>2
<1>4. row \in Rows
  BY <1>1, <1>2, <1>3 DEF Tables
<1>5. PICK m \in Nat : m = row.amount
  BY <1>4 DEF Rows
<1>6. n \in Nat /\ n <= m /\ m - n \in Nat /\ row.player \in Players
  BY <1>3, <1>4, <1>5, Numbers DEF Rows
<1>7. PICK new : new = IF m = n THEN NoOffer ELSE [row EXCEPT !.amount = m - n]
  OBVIOUS
<1>8. new # NoOffer => /\ new \in Rows /\ new.player = row.player /\ new.type = row.type
                       /\ new.amount = m - n
  BY <1>4, <1>6, <1>7 DEF Rows
<1>9. new # NoOffer \/ m = n
  <2>1. [row EXCEPT !.amount = m - n] \in Rows
    BY <1>4, <1>6 DEF Rows
  <2> QED
    BY <1>7, <2>1, MarketFinite
<1>10. /\ offers' \in Tables /\ offers'[o] = new /\ DOMAIN offers' = Offers
       /\ DOMAIN offers = Offers
       /\ \A x \in Offers \ {o} : offers'[x] = offers[x]
  <2>1. offers' = [offers EXCEPT ![o] = new]
    BY <1>3, <1>5, <1>7
  <2>2. new \in Rows \cup {NoOffer}
    BY <1>8
  <2> QED
    BY <1>1, <2>1, <2>2 DEF Tables
<1>11. nextId' \in Nat /\ nextId <= nextId' /\ o < nextId' /\ fees' \in Int
  BY <1>1, <1>2, <1>3, Numbers
<1>12. Follows(offers, offers', nextId)
  <2>1. ASSUME NEW x \in Offers, offers'[x] # NoOffer
        PROVE  /\ offers[x] # NoOffer
               /\ offers'[x].player = offers[x].player /\ offers'[x].type = offers[x].type
               /\ offers'[x].amount <= offers[x].amount
    <3>1. CASE x = o
      <4>1. m - n <= m
        BY <1>6
      <4> QED
        BY <1>2, <1>3, <1>5, <1>8, <1>10, <2>1, <3>1, <4>1
    <3>2. CASE x # o
      <4>1. offers'[x] = offers[x]
        BY <1>10, <3>2
      <4>2. offers[x] \in Rows
        BY <1>1, <2>1, <4>1 DEF Tables
      <4>3. offers[x].amount \in Nat
        BY <4>2 DEF Rows
      <4> QED
        BY <2>1, <4>1, <4>3
    <3> QED
      BY <3>1, <3>2
  <2> QED
    BY <2>1 DEF Follows
<1>13. PICK z \in Int : z = 0
  OBVIOUS
<1>14. Summed(goods, Players) \in Int /\ Summed(money, Players) \in Int
  BY PursesTyped, Numbers
<1>15. PICK c \in Int : c = Price * n
  BY <1>6, Numbers
<1>16. Price * (m - n) = Price * m - c /\ Price * m \in Int
  <2>1. PICK e \in Nat : e = Price
    BY Numbers
  <2>2. e * (m - n) = e * m - e * n /\ e * m \in Int
    BY ONLY <1>6, e \in Nat, m \in Nat
  <2> QED
    BY <1>15, <2>1, <2>2
<1>17. CASE row.type = "buy" /\ money' = [money EXCEPT ![p] = @ + Price * n]
            /\ goods' = GoodsAdded(GoodsTaken(goods, p, n), row.player, n)
            /\ (StoreCoins \/ n <= goods[p])
  <2>1. Gets(money, money', p, c)
    BY <1>1, <1>15, <1>17 DEF Gets
  <2>2. Summed(money', Players) = Summed(money, Players) + c
    BY <1>1, <2>1, PurseChanged
  <2>3. goods' \in [Players -> Int]
    <3>1. PICK h : h = GoodsTaken(goods, p, n)
      OBVIOUS
    <3>2. h \in [Players -> Int]
      BY <1>1, <1>6, <3>1, GoodsTyped
    <3> QED
      BY <1>6, <1>17, <3>1, <3>2, GoodsTyped
  <2>4. Summed(money', Players) + fees' = Summed(money, Players) + fees + c
    BY <1>1, <1>3, <1>13, <1>14, <2>2
  <2>5. Locked(offers, "sell", 1)[o] = 0 /\ Locked(offers, "buy", Price)[o] = Price * m
    BY <1>2, <1>3, <1>5, <1>10, <1>17 DEF Locked
  <2>6. Locked(offers', "sell", 1)[o] = 0
    BY <1>8, <1>10, <1>17 DEF Locked
  <2>7. Locked(offers', "buy", Price)[o] = Price * m - c
    <3>1. CASE new # NoOffer
      BY <1>8, <1>10, <1>16, <1>17, <3>1 DEF Locked
    <3>2. CASE new = NoOffer
      <4>1. Locked(offers', "buy", Price)[o] = 0
        BY <1>10, <3>2 DEF Locked
      <4> QED
        BY <1>9, <1>15, <1>16, <3>2, <4>1
    <3> QED
      BY <3>1, <3>2
  <2>8. /\ Locked(offers', "sell", 1)[o] + z = Locked(offers, "sell", 1)[o]
        /\ Locked(offers', "buy", Price)[o] + c = Locked(offers, "buy", Price)[o]
    BY <1>13, <1>16, <2>5, <2>6, <2>7
  <2>9. money' \in [Players -> Int]
    BY <2>1 DEF Gets
  <2>10. offers'[o] # NoOffer => offers'[o].type = "buy"
    BY <1>8, <1>10, <1>17
  <2>11. MarketInv' /\ TotalMoney' = TotalMoney
    BY <1>3, <1>10, <1>11, <1>12, <2>3, <2>4, <2>8, <2>9, <2>10, OneOfferKeeps
  <2>12. CASE n <= goods[p]
    <3>1. PICK f, g : f = goods /\ g = goods'
      OBVIOUS
    <3>2. f \in [Players -> Int] /\ n <= f[p]
          /\ g = GoodsAdded(GoodsTaken(f, p, n), row.player, n)
      BY <1>1, <1>17, <2>12, <3>1
    <3>3. Summed(g, Players) = Summed(f, Players) /\ OwesNoMore(f, g)
      BY <1>6, <3>2, GoodsMoved
    <3>4. Summed(goods', Players) = Summed(goods, Players) + z
      BY <1>13, <1>14, <3>1, <3>3
    <3>5. TotalGoods' = TotalGoods
      BY <1>3, <1>10, <2>8, <3>4, OneOfferEven
    <3>6. NobodyOwesMore
      BY <3>1, <3>3 DEF NobodyOwesMore, OwesNoMore
    <3> QED
      BY <2>11, <3>5, <3>6 DEF ConservedOrNot
  <2>13. CASE ~(n <= goods[p])
    <3>1. goods[p] \in Int /\ o \in Active /\ offers[o].type = "buy"
      BY <1>1, <1>2, <1>3, <1>17 DEF Active
    <3>2. StoreCoins /\ goods[p] < n
      BY <1>6, <1>17, <2>13, <3>1
    <3>3. CoinsUnchecked
      BY <3>1, <3>2 DEF CoinsUnchecked
    <3> QED
      BY <2>11, <3>3 DEF ConservedOrNot
  <2> QED
    BY <2>12, <2>13
<1>18. CASE row.type = "sell" /\ goods' = GoodsAdded(goods, p, n)
            /\ money' = Moved(money, p, row.player, Price * n)
  <2>10. ware # "missing"
    BY <1>1, <1>2, <1>3, <1>18
  <2>11. goods' = [goods EXCEPT ![p] = @ + n]
    BY <1>18, <2>10 DEF GoodsAdded
  <2>1. Gets(goods, goods', p, n)
    BY <1>1, <1>6, <2>11 DEF Gets
  <2>2. Summed(goods', Players) = Summed(goods, Players) + n /\ n \in Int
    BY <1>1, <1>6, <2>1, PurseChanged
  <2>3. Summed(money', Players) = Summed(money, Players) /\ money' \in [Players -> Int]
    BY <1>1, <1>6, <1>15, <1>18, PurseMoved
  <2>4. Summed(money', Players) + fees' = Summed(money, Players) + fees + z
    BY <1>1, <1>3, <1>13, <1>14, <2>3
  <2>5. Locked(offers, "sell", 1)[o] = m /\ Locked(offers, "buy", Price)[o] = 0
    BY <1>2, <1>3, <1>5, <1>10, <1>18 DEF Locked
  <2>6. Locked(offers', "buy", Price)[o] = 0
    BY <1>8, <1>10, <1>18 DEF Locked
  <2>7. Locked(offers', "sell", 1)[o] = m - n
    <3>1. CASE new # NoOffer
      BY <1>6, <1>8, <1>10, <1>18, <3>1 DEF Locked
    <3>2. CASE new = NoOffer
      <4>1. Locked(offers', "sell", 1)[o] = 0
        BY <1>10, <3>2 DEF Locked
      <4> QED
        BY <1>6, <1>9, <3>2, <4>1
    <3> QED
      BY <3>1, <3>2
  <2>8. /\ Locked(offers', "sell", 1)[o] + n = Locked(offers, "sell", 1)[o]
        /\ Locked(offers', "buy", Price)[o] + z = Locked(offers, "buy", Price)[o]
    BY <1>6, <1>13, <2>5, <2>6, <2>7
  <2>9. goods' \in [Players -> Int]
    BY <2>1 DEF Gets
  <2>12. MarketInv' /\ TotalMoney' = TotalMoney
    BY <1>3, <1>10, <1>11, <1>12, <2>3, <2>4, <2>8, <2>9, <2>10, OneOfferKeeps
  <2>13. TotalGoods' = TotalGoods
    BY <1>3, <1>10, <2>2, <2>8, OneOfferEven
  <2>14. NobodyOwesMore
    BY <1>1, <1>6, <2>11 DEF NobodyOwesMore
  <2> QED
    BY <2>12, <2>13, <2>14 DEF ConservedOrNot
<1>19. \/ row.type = "buy" /\ money' = [money EXCEPT ![p] = @ + Price * n]
            /\ goods' = GoodsAdded(GoodsTaken(goods, p, n), row.player, n)
            /\ (StoreCoins \/ n <= goods[p])
       \/ row.type = "sell" /\ goods' = GoodsAdded(goods, p, n)
            /\ money' = Moved(money, p, row.player, Price * n)
  BY <1>2 DEF PlayerAcceptMarketOffer
<1> QED
  BY <1>17, <1>18, <1>19

LEMMA ExpireKeeps ==
    ASSUME MarketInv, NEW o \in Offers, Expire(o) PROVE MarketInv' /\ Conserved
<1>1. /\ offers \in Tables /\ results \in Seq(Readings) /\ nextId \in Nat /\ fees \in Int
      /\ money \in [Players -> Int] /\ goods \in [Players -> Int]
      /\ \A x \in Offers : x >= nextId => offers[x] = NoOffer
      /\ ware = "missing" /\ offers[o] # NoOffer => offers[o].type = "buy"
  BY DEF MarketInv
<1>2. PICK row, new : row = offers[o] /\ new = [row EXCEPT !.expired = TRUE]
  OBVIOUS
<1>3. /\ row # NoOffer /\ offers' = [offers EXCEPT ![o] = new]
      /\ UNCHANGED <<ware, coinItems, money, goods, inMarket, nextId, fees, results>>
  BY <1>2 DEF Expire, wareVars
<1>4. row \in Rows
  BY <1>1, <1>2, <1>3 DEF Tables
<1>5. new \in Rows /\ new.player = row.player /\ new.type = row.type /\ new.amount = row.amount
  BY <1>2, <1>4 DEF Rows
<1>6. new # NoOffer
  BY <1>5, MarketFinite
<1>7. /\ offers' \in Tables /\ offers'[o] = new /\ DOMAIN offers' = Offers
      /\ DOMAIN offers = Offers
      /\ \A x \in Offers \ {o} : offers'[x] = offers[x]
  BY <1>1, <1>3, <1>5 DEF Tables
<1>8. nextId' \in Nat /\ nextId <= nextId' /\ o < nextId' /\ fees' \in Int
  BY <1>1, <1>2, <1>3, Numbers
<1>9. Follows(offers, offers', nextId)
  <2>1. ASSUME NEW x \in Offers, offers'[x] # NoOffer
        PROVE  /\ offers[x] # NoOffer
               /\ offers'[x].player = offers[x].player /\ offers'[x].type = offers[x].type
               /\ offers'[x].amount <= offers[x].amount
    <3>1. offers[x] # NoOffer
      BY <1>2, <1>3, <1>7, <2>1
    <3>2. offers[x] \in Rows
      BY <1>1, <3>1 DEF Tables
    <3>3. offers[x].amount \in Nat
      BY <3>2 DEF Rows
    <3>4. /\ offers'[x].player = offers[x].player /\ offers'[x].type = offers[x].type
          /\ offers'[x].amount = offers[x].amount
      BY <1>2, <1>5, <1>7
    <3> QED
      BY <3>1, <3>3, <3>4
  <2> QED
    BY <2>1 DEF Follows
<1>10. PICK z \in Int : z = 0
  OBVIOUS
<1>11. /\ Locked(offers', "sell", 1)[o] = Locked(offers, "sell", 1)[o]
       /\ Locked(offers', "buy", Price)[o] = Locked(offers, "buy", Price)[o]
  BY <1>2, <1>3, <1>5, <1>6, <1>7 DEF Locked
<1>12. Locked(offers, "sell", 1)[o] \in Int /\ Locked(offers, "buy", Price)[o] \in Int
  <2>1. PICK m \in Nat : m = row.amount
    BY <1>4 DEF Rows
  <2>2. 1 * m \in Int /\ Price * m \in Int
    BY Numbers
  <2> QED
    BY <1>2, <1>7, <2>1, <2>2 DEF Locked
<1>13. Summed(goods, Players) \in Int /\ Summed(money, Players) \in Int
  BY PursesTyped, Numbers
<1>14. /\ Summed(goods', Players) = Summed(goods, Players) + z
       /\ Summed(money', Players) + fees' = Summed(money, Players) + fees + z
       /\ Locked(offers', "sell", 1)[o] + z = Locked(offers, "sell", 1)[o]
       /\ Locked(offers', "buy", Price)[o] + z = Locked(offers, "buy", Price)[o]
  BY <1>1, <1>3, <1>10, <1>11, <1>12, <1>13
<1>15. ware = "missing" /\ offers'[o] # NoOffer => offers'[o].type = "buy"
  BY <1>1, <1>2, <1>3, <1>5, <1>7
<1>16. MarketInv' /\ TotalMoney' = TotalMoney
  BY <1>1, <1>3, <1>7, <1>8, <1>9, <1>10, <1>14, <1>15, OneOfferKeeps
<1>17. TotalGoods' = TotalGoods
  BY <1>3, <1>7, <1>10, <1>14, OneOfferEven
<1>18. NobodyOwesMore
  BY <1>1, <1>3 DEF NobodyOwesMore
<1> QED
  BY <1>16, <1>17, <1>18 DEF Conserved

LEMMA QueryKeeps == ASSUME MarketInv, RunExpiryQuery PROVE MarketInv' /\ Conserved
<1>1. /\ offers \in Tables /\ results \in Seq(Readings) /\ nextId \in Nat
      /\ \A x \in Offers : x >= nextId => offers[x] = NoOffer
      /\ ReadBefore(offers, results, nextId)
  BY DEF MarketInv
<1>2. PICK D, r : /\ D = {x \in Active : offers[x].expired} /\ r = [o \in D |-> offers[o]]
  OBVIOUS
<1>3. /\ results' = Append(results, r)
      /\ UNCHANGED <<ware, coinItems, online, money, goods, inMarket, offers, nextId, fees>>
  BY <1>2 DEF RunExpiryQuery, wareVars
<1>4. \A o \in D : o \in Offers /\ offers[o] # NoOffer /\ r[o] = offers[o]
  BY <1>2 DEF Active
<1>5. \A o \in D : r[o] \in Rows
  BY <1>1, <1>4 DEF Tables
<1>6. r \in Readings
  <2>1. D \in SUBSET Offers /\ r \in [D -> Rows]
    BY <1>2, <1>4, <1>5
  <2> QED
    BY <2>1 DEF Readings
<1>7. results' \in Seq(Readings)
  BY <1>1, <1>3, <1>6
<1>8. ASSUME NEW o \in D PROVE o < nextId /\ r[o].amount <= r[o].amount
  <2>1. o \in Nat /\ ~(o >= nextId)
    BY <1>1, <1>4, Numbers
  <2>2. r[o].amount \in Nat
    BY <1>5 DEF Rows
  <2> QED
    BY <1>1, <2>1, <2>2
<1>9. DOMAIN r = D /\ StillOf(offers, r)
  BY <1>2, <1>4, <1>8 DEF StillOf
<1>10. ReadBefore(offers, results', nextId)
  <2>1. ASSUME NEW k \in 1..Len(results')
        PROVE  StillOf(offers, results'[k]) /\ \A o \in DOMAIN results'[k] : o < nextId
    <3>1. CASE k <= Len(results)
      <4>1. results'[k] = results[k] /\ k \in 1..Len(results)
        BY <1>1, <1>3, <3>1
      <4> QED
        BY <1>1, <4>1 DEF ReadBefore
    <3>2. CASE ~(k <= Len(results))
      <4>1. results'[k] = r
        BY <1>1, <1>3, <3>2
      <4> QED
        BY <1>8, <1>9, <4>1
    <3> QED
      BY <3>1, <3>2
  <2> QED
    BY <2>1 DEF ReadBefore
<1>11. MarketInv'
  BY <1>3, <1>7, <1>10 DEF MarketInv
<1>12. Conserved
  <2>1. TotalGoods' = TotalGoods /\ TotalMoney' = TotalMoney
    BY <1>3 DEF TotalGoods, TotalMoney
  <2>2. goods \in [Players -> Int] /\ goods' = goods
    BY <1>3 DEF MarketInv
  <2> QED
    BY <2>1, <2>2 DEF Conserved, NobodyOwesMore
<1> QED
  BY <1>11, <1>12

LEMMA SettleKeeps ==
    ASSUME MarketInv, ProcessExpiredOffers PROVE MarketInv' /\ (Conserved \/ StaleRefund)
<1>1. /\ offers \in Tables /\ results \in Seq(Readings) /\ nextId \in Nat
      /\ \A x \in Offers : x >= nextId => offers[x] = NoOffer
      /\ ReadBefore(offers, results, nextId) /\ inMarket \subseteq Players /\ fees \in Int
      /\ money \in [Players -> Int] /\ goods \in [Players -> Int]
      /\ coinItems \in [Players -> Int]
      /\ \A x \in Offers : ware = "missing" /\ offers[x] # NoOffer => offers[x].type = "buy"
  BY DEF MarketInv
<1>2. PICK row, D : row = Head(results) /\ D = DOMAIN row \cap Active
  OBVIOUS
<1>3. PICK due : due = [o \in D |-> row[o]]
  OBVIOUS
<1>4. PICK new, had, f, g : /\ new = offers' /\ g = money'
                            /\ had = IF StoreCoins THEN coinItems ELSE goods
                            /\ f = IF StoreCoins THEN coinItems' ELSE goods'
  OBVIOUS
<1>21. had \in [Players -> Int]
  BY <1>1, <1>4
<1>22. RefundAll(due)
  BY <1>2, <1>3 DEF ProcessExpiredOffers
<1>23. /\ StoreCoins => goods' = goods
       /\ ~StoreCoins => coinItems' = coinItems
  BY <1>22 DEF RefundAll
<1>24. UNCHANGED <<ware, inMarket, nextId, fees>>
  BY DEF ProcessExpiredOffers
<1>5. /\ results # <<>> /\ results' = Tail(results)
      /\ UNCHANGED <<inMarket, nextId, fees>>
      /\ f = [p \in Players |-> had[p] + Refund(p, due, "sell", 1)]
      /\ g = [p \in Players |-> money[p] + Refund(p, due, "buy", Price)]
      /\ new = [o \in Offers |-> IF o \in D THEN NoOffer ELSE offers[o]]
  BY <1>2, <1>3, <1>4, <1>22 DEF ProcessExpiredOffers, RefundAll
<1>6. /\ row = results[1] /\ 1 \in 1..Len(results)
  BY <1>1, <1>2, <1>5
<1>7. /\ DOMAIN row \subseteq Offers /\ row \in [DOMAIN row -> Rows]
      /\ StillOf(offers, row)
  BY <1>1, <1>6, ReadingIs DEF ReadBefore
<1>8. D \in SUBSET Offers /\ due \in [D -> Rows] /\ \A o \in D : offers[o] # NoOffer
  BY <1>2, <1>3, <1>7 DEF Active
<1>9. PICK sell, buy : sell = "sell" /\ buy = "buy"
  OBVIOUS
<1>10. PICK one \in Nat : one = 1
  OBVIOUS
<1>11. PICK price \in Nat : price = Price
  BY Numbers
<1>12. /\ Summed(f, Players) = Summed(had, Players) + Summed(Locked(due, sell, one), D)
       /\ f \in [Players -> Int] /\ Summed(had, Players) \in Int
       /\ Summed(Locked(due, sell, one), D) \in Int /\ OwesNoMore(had, f)
  <2>1. had \in [Players -> Int]
    BY <1>21
  <2>2. f = [p \in Players |-> had[p] + Refund(p, due, sell, one)]
    BY <1>5, <1>9, <1>10
  <2>3. D \in SUBSET Offers /\ due \in [D -> Rows]
    BY <1>8
  <2>4. /\ Summed(f, Players) = Summed(had, Players) + Summed(Locked(due, sell, one), D)
        /\ f \in [Players -> Int] /\ Summed(had, Players) \in Int
        /\ Summed(Locked(due, sell, one), D) \in Int /\ OwesNoMore(had, f)
    BY <2>1, <2>2, <2>3, Refunded
  <2> QED
    BY <2>1, <2>4
<1>13. /\ Summed(g, Players) = Summed(money, Players) + Summed(Locked(due, buy, price), D)
       /\ g \in [Players -> Int] /\ Summed(money, Players) \in Int
       /\ Summed(Locked(due, buy, price), D) \in Int
  <2>1. PICK paid \in [Players -> Int] : paid = money
    BY <1>1
  <2>2. g = [p \in Players |-> paid[p] + Refund(p, due, buy, price)]
    BY <1>5, <1>9, <1>11, <2>1
  <2>3. D \in SUBSET Offers /\ due \in [D -> Rows]
    BY <1>8
  <2>4. /\ Summed(g, Players) = Summed(paid, Players) + Summed(Locked(due, buy, price), D)
        /\ g \in [Players -> Int] /\ Summed(paid, Players) \in Int
        /\ Summed(Locked(due, buy, price), D) \in Int
    BY <2>2, <2>3, Refunded
  <2> QED
    BY <2>1, <2>4
<1>14. new \in Tables
  BY <1>1, <1>5 DEF Tables
<1>15. results' \in Seq(Readings)
  BY <1>1, <1>5
<1>16. Follows(offers, new, nextId)
  <2>1. ASSUME NEW x \in Offers, new[x] # NoOffer
        PROVE  /\ offers[x] # NoOffer
               /\ new[x].player = offers[x].player /\ new[x].type = offers[x].type
               /\ new[x].amount <= offers[x].amount
    <3>1. new[x] = offers[x]
      BY <1>5, <2>1
    <3>2. offers[x] \in Rows
      BY <1>1, <2>1, <3>1 DEF Tables
    <3>3. offers[x].amount \in Nat
      BY <3>2 DEF Rows
    <3> QED
      BY <2>1, <3>1, <3>3
  <2> QED
    BY <2>1 DEF Follows
<1>17. ReadBefore(new, results, nextId)
  BY <1>1, <1>14, <1>16, ReadStays
<1>18. ReadBefore(new, results', nextId)
  <2>1. ASSUME NEW k \in 1..Len(results')
        PROVE  StillOf(new, results'[k]) /\ \A o \in DOMAIN results'[k] : o < nextId
    <3>1. results'[k] = results[k + 1] /\ k + 1 \in 1..Len(results)
      BY <1>1, <1>5
    <3> QED
      BY <1>17, <3>1 DEF ReadBefore
  <2> QED
    BY <2>1 DEF ReadBefore
<1>19. MarketInv'
  <2>1. /\ \A x \in Offers : x >= nextId => new[x] = NoOffer
        /\ \A x \in Offers : ware = "missing" /\ new[x] # NoOffer => new[x].type = "buy"
    BY <1>1, <1>5
  <2>2. goods' \in [Players -> Int] /\ coinItems' \in [Players -> Int]
    BY <1>1, <1>4, <1>12, <1>23
  <2>3. ware' \in Wares /\ ware' = ware
    BY <1>24 DEF MarketInv
  <2> QED
    BY <1>1, <1>4, <1>5, <1>13, <1>14, <1>15, <1>18, <2>1, <2>2, <2>3 DEF MarketInv
<1>20. ASSUME ~StaleRefund PROVE Conserved
  <2>1. Len(results') < Len(results)
    BY <1>1, <1>5
  <2>2. \A o \in D : ~(offers[o].amount < row[o].amount)
    BY <1>2, <1>5, <1>20, <2>1 DEF StaleRefund
  <2>3. ASSUME NEW o \in D
        PROVE  /\ offers[o] # NoOffer /\ offers[o].type = due[o].type
               /\ offers[o].amount = due[o].amount
    <3>1. /\ offers[o] # NoOffer /\ o \in DOMAIN row /\ o \in Offers /\ due[o] = row[o]
          /\ row[o] \in Rows
      BY <1>2, <1>3, <1>7, <1>8
    <3>2. offers[o] \in Rows
      BY <1>1, <3>1 DEF Tables
    <3>3. offers[o].type = row[o].type /\ offers[o].amount <= row[o].amount
      BY <1>7, <3>1 DEF StillOf
    <3>4. offers[o].amount \in Nat /\ row[o].amount \in Nat
      BY <3>1, <3>2 DEF Rows
    <3> QED
      BY <2>2, <3>1, <3>3, <3>4
  <2>10. PICK table \in Tables : table = offers
    BY <1>1
  <2>11. \A o \in D : /\ table[o] # NoOffer /\ table[o].type = due[o].type
                      /\ table[o].amount = due[o].amount
    BY <2>3, <2>10
  <2>12. new = [o \in Offers |-> IF o \in D THEN NoOffer ELSE table[o]]
    BY <1>5, <2>10
  <2>13. D \in SUBSET Offers /\ due \in [D -> Rows]
    BY <1>8
  <2>16. Settled(table, new, D, due)
    BY <2>11, <2>12 DEF Settled
  <2>14. /\ Summed(Locked(table, sell, one), Offers)
              = Summed(Locked(new, sell, one), Offers) + Summed(Locked(due, sell, one), D)
         /\ Summed(Locked(new, sell, one), Offers) \in Int
    BY <2>13, <2>16, RowsSettled
  <2>15. /\ Summed(Locked(table, buy, price), Offers)
              = Summed(Locked(new, buy, price), Offers) + Summed(Locked(due, buy, price), D)
         /\ Summed(Locked(new, buy, price), Offers) \in Int
    BY <2>13, <2>16, RowsSettled
  <2>4. /\ Summed(Locked(offers, sell, one), Offers)
             = Summed(Locked(new, sell, one), Offers) + Summed(Locked(due, sell, one), D)
        /\ Summed(Locked(new, sell, one), Offers) \in Int
    BY <2>10, <2>14, <2>15
  <2>5. /\ Summed(Locked(offers, buy, price), Offers)
             = Summed(Locked(new, buy, price), Offers) + Summed(Locked(due, buy, price), D)
        /\ Summed(Locked(new, buy, price), Offers) \in Int
    BY <2>10, <2>14, <2>15
  <2>7. Summed(g, Players) + Summed(Locked(new, buy, price), Offers) + fees
        = Summed(money, Players) + Summed(Locked(offers, buy, price), Offers) + fees
    BY <1>13, <2>5
  <2>17. Summed(goods, Players) \in Int /\ Summed(coinItems, Players) \in Int
    BY Numbers, PursesTyped
  <2>18. PICK L, M : /\ L = Summed(Locked(offers, sell, one), Offers)
                     /\ M = Summed(Locked(new, sell, one), Offers)
    OBVIOUS
  <2>19. PICK F, H, d \in Int : /\ F = Summed(f, Players) /\ H = Summed(had, Players)
                               /\ d = Summed(Locked(due, sell, one), D)
    BY <1>12
  <2>20. M \in Int /\ L = M + d /\ F = H + d
    BY <1>12, <2>4, <2>18, <2>19
  <2>21. TotalGoods = Summed(goods, Players) + Summed(coinItems, Players) + L
    BY <1>9, <1>10, <2>18 DEF TotalGoods
  <2>22. TotalGoods' = Summed(goods', Players) + Summed(coinItems', Players) + M
    BY <1>4, <1>9, <1>10, <2>18 DEF TotalGoods
  <2>8. TotalGoods' = TotalGoods
    <3>1. CASE StoreCoins
      <4>1. F = Summed(coinItems', Players) /\ H = Summed(coinItems, Players) /\ goods' = goods
        BY <1>4, <1>23, <2>19, <3>1
      <4> QED
        BY <2>17, <2>20, <2>21, <2>22, <4>1
    <3>2. CASE ~StoreCoins
      <4>1. F = Summed(goods', Players) /\ H = Summed(goods, Players) /\ coinItems' = coinItems
        BY <1>4, <1>23, <2>19, <3>2
      <4> QED
        BY <2>17, <2>20, <2>21, <2>22, <4>1
    <3> QED
      BY <3>1, <3>2
  <2>23. NobodyOwesMore
    <3>1. CASE StoreCoins
      BY <1>1, <1>23, <3>1 DEF NobodyOwesMore
    <3>2. CASE ~StoreCoins
      <4>1. f = goods' /\ had = goods
        BY <1>4, <3>2
      <4> QED
        BY <1>12, <4>1 DEF NobodyOwesMore, OwesNoMore
    <3> QED
      BY <3>1, <3>2
  <2>9. TotalMoney' = TotalMoney
    BY <1>4, <1>5, <1>9, <1>11, <2>7 DEF TotalMoney
  <2> QED
    BY <2>8, <2>9, <2>23 DEF Conserved
<1> QED
  BY <1>19, <1>20

LEMMA MarketStart == MarketInit => MarketInv
<1> SUFFICES ASSUME MarketInit PROVE MarketInv
  OBVIOUS
<1>1. Wealth \in Nat /\ Stock \in Nat
  BY MarketAssumption
<1>2. /\ offers \in Tables /\ money \in [Players -> Int] /\ goods \in [Players -> Int]
      /\ coinItems \in [Players -> Int]
  BY <1>1 DEF MarketInit, Tables
<1>3. results = <<>> /\ results \in Seq(Readings)
  BY DEF MarketInit
<1>4. ReadBefore(offers, results, nextId)
  BY <1>3 DEF ReadBefore
<1> QED
  BY <1>2, <1>3, <1>4 DEF MarketInit, MarketInv

LEMMA MarketStep ==
    ASSUME MarketInv, [MarketNext]_marketVars PROVE MarketInv' /\ (ConservedOrNot \/ StaleRefund)
<1>0. Conserved => ConservedOrNot
  BY DEF Conserved, ConservedOrNot
<1>1. CASE UNCHANGED marketVars
  <2>1. /\ UNCHANGED <<ware, coinItems, money, goods, offers, nextId, fees, results>>
        /\ inMarket' \subseteq Players
    BY <1>1 DEF marketVars, wareVars, MarketInv
  <2> QED
    BY <1>0, <2>1, OthersKeep
<1>2. ASSUME NEW p \in Players,
             MarketLogin(p) \/ MarketLogout(p) \/ EnterMarket(p) \/ LeaveMarket(p)
      PROVE  MarketInv' /\ Conserved
  <2>1. /\ UNCHANGED <<ware, coinItems, money, goods, offers, nextId, fees, results>>
        /\ inMarket' \subseteq Players
    BY <1>2 DEF MarketLogin, MarketLogout, EnterMarket, LeaveMarket, wareVars, MarketInv
  <2> QED
    BY <2>1, OthersKeep
<1>3. ASSUME NEW p \in Players, NEW type \in {"buy", "sell"}, NEW n \in Amounts,
             PlayerCreateMarketOffer(p, type, n)
      PROVE  MarketInv' /\ ConservedOrNot
  BY <1>3, CreateKeeps
<1>4. ASSUME NEW p \in Players, NEW o \in Offers, PlayerCancelMarketOffer(p, o)
      PROVE  MarketInv' /\ Conserved
  BY <1>4, CancelKeeps
<1>5. ASSUME NEW p \in Players, NEW o \in Offers, NEW n \in Amounts,
             PlayerAcceptMarketOffer(p, o, n)
      PROVE  MarketInv' /\ ConservedOrNot
  BY <1>5, AcceptKeeps
<1>6. ASSUME NEW o \in Offers, Expire(o) PROVE MarketInv' /\ Conserved
  BY <1>6, ExpireKeeps
<1>7. CASE CheckExpiredOffers
  <2>1. /\ UNCHANGED <<ware, coinItems, money, goods, offers, nextId, fees, results>>
        /\ inMarket' \subseteq Players
    BY <1>7 DEF CheckExpiredOffers, wareVars, MarketInv
  <2> QED
    BY <1>0, <2>1, OthersKeep
<1>8. CASE RunExpiryQuery
  BY <1>8, <1>0, QueryKeeps
<1>9. CASE ProcessExpiredOffers
  BY <1>9, <1>0, SettleKeeps
<1> QED
  BY <1>1, <1>2, <1>3, <1>4, <1>5, <1>6, <1>7, <1>8, <1>9, <1>0 DEF MarketNext

\* However offers are made, accepted, cancelled and expire, no money and no
\* goods come into being and none are lost, and nobody owes goods; but for the
\* refund of an amount that was read before a part of it was sold, and, of
\* goods, for store coins that are taken without a look at the account
\* (Game::playerAcceptMarketOffer, Game::playerCreateMarketOffer,
\* IOMarket::processExpiredOffers).
THEOREM MarketStaysEven == MarketSpec => MarketConserves
<1>1. MarketInit => MarketInv
  BY MarketStart
<1>2. MarketInv /\ [MarketNext]_marketVars => MarketInv'
  BY MarketStep
<1>3. MarketInv /\ [MarketNext]_marketVars
      => [possessions' # possessions =>
            /\ TotalMoney' = TotalMoney \/ StaleRefund
            /\ (TotalGoods' = TotalGoods /\ NobodyOwesMore) \/ StaleRefund \/ CoinsUnchecked]_marketVars
  BY MarketStep DEF ConservedOrNot
<1> QED
  BY <1>1, <1>2, <1>3, PTL DEF MarketSpec, MarketConserves

-----------------------------------------------------------------------------
(***************************************************************************)
(* TileViews: lists that differ by one thing.                              *)
(***************************************************************************)
\* The place of what was not in the list, and what is in it now.
LEMMA PutPlaceOf ==
    ASSUME NEW S, NEW x \in S, NEW a, NEW b, NEW n, PutInto(S, a, b, n, x), ~In(x, a)
    PROVE  /\ PlaceOf(x, b) = n
           /\ \A u : In(u, b) <=> u = x \/ In(u, a)
           /\ NoDuplicate(a) <=> NoDuplicate(b)
<1>1. /\ a \in Seq(S) /\ b \in Seq(S) /\ Len(a) \in Nat /\ Len(b) = Len(a) + 1
      /\ n \in 1..(Len(a) + 1) /\ n \in Nat /\ b[n] = x
      /\ \A i \in 1..(n - 1) : b[i] = a[i]
      /\ \A i \in n..Len(a) : b[i + 1] = a[i]
  BY PutPlaces
<1>2. DOMAIN a = 1..Len(a) /\ DOMAIN b = 1..Len(b)
  BY <1>1
<1>3. ASSUME NEW i \in 1..Len(b)
      PROVE  \/ i < n /\ i \in 1..Len(a) /\ b[i] = a[i]
             \/ i = n
             \/ i > n /\ i - 1 \in 1..Len(a) /\ b[i] = a[i - 1]
  <2>1. CASE i > n
    <3>1. i - 1 \in n..Len(a) /\ (i - 1) + 1 = i
      BY <1>1, <2>1
    <3>2. b[(i - 1) + 1] = a[i - 1]
      BY <1>1, <3>1
    <3> QED
      BY <1>1, <2>1, <3>1, <3>2
  <2> QED
    BY <1>1, <2>1
<1>4. \A i \in 1..Len(b) : b[i] = x => i = n
  BY <1>2, <1>3 DEF In
<1>5. {i \in 1..Len(b) : b[i] = x} = {n}
  BY <1>1, <1>4
<1>6. PlaceOf(x, b) = n
  <2>1. Min({n}) = n
    BY <1>1 DEF Min
  <2>2. {n} # {}
    OBVIOUS
  <2> QED
    BY <1>5, <2>1, <2>2 DEF PlaceOf, SelectInSeq
<1>7. ASSUME NEW u, In(u, b) PROVE u = x \/ In(u, a)
  <2>1. PICK i \in 1..Len(b) : b[i] = u
    BY <1>2, <1>7 DEF In
  <2> QED
    BY <1>1, <1>2, <1>3, <2>1 DEF In
<1>8. ASSUME NEW i \in 1..Len(a)
      PROVE  \E k \in 1..Len(b) : b[k] = a[i] /\ k # n /\ k = IF i < n THEN i ELSE i + 1
  <2>1. CASE i < n
    BY <1>1, <2>1
  <2>2. CASE i >= n
    BY <1>1, <2>2
  <2> QED
    BY <1>1, <2>1, <2>2
<1>9. ASSUME NEW u, u = x \/ In(u, a) PROVE In(u, b)
  <2>1. CASE u = x
    BY <1>1, <1>2, <2>1 DEF In
  <2>2. CASE In(u, a)
    <3>1. PICK i \in 1..Len(a) : a[i] = u
      BY <1>2, <2>2 DEF In
    <3> QED
      BY <1>2, <1>8, <3>1 DEF In
  <2> QED
    BY <1>9, <2>1, <2>2
<1>10. ASSUME NoDuplicate(b) PROVE NoDuplicate(a)
  <2> SUFFICES ASSUME NEW i \in 1..Len(a), NEW j \in 1..Len(a), a[i] = a[j] PROVE i = j
    BY <1>2 DEF NoDuplicate
  <2>1. PICK k \in 1..Len(b) : b[k] = a[i] /\ k = IF i < n THEN i ELSE i + 1
    BY <1>8
  <2>2. PICK m \in 1..Len(b) : b[m] = a[j] /\ m = IF j < n THEN j ELSE j + 1
    BY <1>8
  <2>3. k = m
    BY <1>2, <1>10, <2>1, <2>2 DEF NoDuplicate
  <2> QED
    BY <1>1, <2>1, <2>2, <2>3
<1>11. ASSUME NoDuplicate(a) PROVE NoDuplicate(b)
  <2> SUFFICES ASSUME NEW i \in 1..Len(b), NEW j \in 1..Len(b), b[i] = b[j] PROVE i = j
    BY <1>2 DEF NoDuplicate
  <2>1. CASE i = n \/ j = n
    BY <1>1, <1>4, <2>1
  <2>2. CASE i # n /\ j # n
    <3>1. PICK k \in 1..Len(a) : b[i] = a[k] /\ k = IF i < n THEN i ELSE i - 1
      BY <1>1, <1>3, <2>2
    <3>2. PICK m \in 1..Len(a) : b[j] = a[m] /\ m = IF j < n THEN j ELSE j - 1
      BY <1>1, <1>3, <2>2
    <3>3. k = m
      BY <1>2, <1>11, <3>1, <3>2 DEF NoDuplicate
    <3> QED
      BY <1>1, <2>2, <3>1, <3>2, <3>3
  <2> QED
    BY <2>1, <2>2
<1> QED
  BY <1>6, <1>7, <1>9, <1>10, <1>11

-----------------------------------------------------------------------------
(***************************************************************************)
(* TileViews: what a client makes of such a difference.                    *)
(***************************************************************************)
\* What is shown of a list.
LEMMA CutPlaces ==
    ASSUME NEW S, NEW s \in Seq(S)
    PROVE  /\ Shown \in Nat /\ Shown >= 2 /\ Len(s) \in Nat
           /\ Cut(s) \in Seq(S) /\ Len(Cut(s)) = IF Len(s) < Shown THEN Len(s) ELSE Shown
           /\ \A i \in 1..Len(Cut(s)) : Cut(s)[i] = s[i]
           /\ Len(s) <= Shown => Cut(s) = s
<1>1. Shown \in Nat /\ Shown >= 2 /\ Len(s) \in Nat
  BY TileViewsAssumption
<1>2. PICK l \in Nat : l = IF Len(s) < Shown THEN Len(s) ELSE Shown
  BY <1>1
<1>3. PICK c : c = SubSeq(s, 1, l)
  OBVIOUS
<1>4. c \in Seq(S) /\ Len(c) = l /\ \A i \in 1..l : c[i] = s[i]
  BY <1>1, <1>2, <1>3
<1>5. Cut(s) = c
  BY <1>2, <1>3 DEF Cut
<1>6. Len(s) <= Shown => Len(c) = Len(s)
  BY <1>1, <1>2, <1>4
<1>7. Len(s) <= Shown => c = s
  BY <1>4, <1>6, SeqEqual
<1> QED
  BY <1>1, <1>2, <1>4, <1>5, <1>7

\* What comes beyond the last place is not shown.
LEMMA PutBeyond ==
    ASSUME NEW S, NEW x \in S, NEW a, NEW b, NEW n, PutInto(S, a, b, n, x), n > Shown
    PROVE  Cut(b) = Cut(a)
<1>1. /\ a \in Seq(S) /\ b \in Seq(S) /\ Len(a) \in Nat /\ Len(b) = Len(a) + 1
      /\ n \in 1..(Len(a) + 1) /\ n \in Nat
      /\ \A i \in 1..(n - 1) : b[i] = a[i]
  BY PutPlaces
<1>2. /\ Shown \in Nat /\ Cut(a) \in Seq(S)
      /\ Len(Cut(a)) = IF Len(a) < Shown THEN Len(a) ELSE Shown
      /\ \A i \in 1..Len(Cut(a)) : Cut(a)[i] = a[i]
  BY <1>1, CutPlaces
<1>3. /\ Cut(b) \in Seq(S)
      /\ Len(Cut(b)) = IF Len(b) < Shown THEN Len(b) ELSE Shown
      /\ \A i \in 1..Len(Cut(b)) : Cut(b)[i] = b[i]
  BY <1>1, CutPlaces
<1>4. Len(Cut(a)) = Shown /\ Len(Cut(b)) = Shown
  BY <1>1, <1>2, <1>3
<1>5. \A i \in 1..Shown : Cut(b)[i] = Cut(a)[i]
  BY <1>1, <1>2, <1>3, <1>4
<1> QED
  BY <1>2, <1>3, <1>4, <1>5, SeqEqual

\* A client that shows a list shows it with the thing that is put there.
LEMMA PutShown ==
    ASSUME NEW S, NEW x \in S, NEW a, NEW b, NEW n, PutInto(S, a, b, n, x), n <= Shown
    PROVE  Cut(b) = Inserted(Cut(a), n, x)
<1>1. /\ a \in Seq(S) /\ b \in Seq(S) /\ Len(a) \in Nat /\ Len(b) = Len(a) + 1
      /\ n \in 1..(Len(a) + 1) /\ n \in Nat /\ b[n] = x
      /\ \A i \in 1..(n - 1) : b[i] = a[i]
      /\ \A i \in n..Len(a) : b[i + 1] = a[i]
  BY PutPlaces
<1>2. PICK u : u = Cut(a)
  OBVIOUS
<1>3. /\ Shown \in Nat /\ Shown >= 2 /\ u \in Seq(S)
      /\ Len(u) = IF Len(a) < Shown THEN Len(a) ELSE Shown
      /\ \A i \in 1..Len(u) : u[i] = a[i]
  BY <1>1, <1>2, CutPlaces
<1>4. n \in 1..(Len(u) + 1) /\ Len(u) \in Nat
  BY <1>1, <1>3
<1>5. PICK v : v = InsertAt(u, n, x)
  OBVIOUS
<1>6. PutInto(S, u, v, n, x)
  BY <1>3, <1>4, <1>5, InsertAtPuts
<1>7. /\ v \in Seq(S) /\ Len(v) = Len(u) + 1 /\ v[n] = x
      /\ \A i \in 1..(n - 1) : v[i] = u[i]
      /\ \A i \in n..Len(u) : v[i + 1] = u[i]
  BY <1>6, PutPlaces
<1>8. Inserted(u, n, x) = Cut(v)
  <2>1. CASE n <= Len(u)
    BY <1>5, <2>1 DEF Inserted
  <2>2. CASE ~(n <= Len(u))
    <3>1. Len(u) + 1 = n
      BY <1>1, <1>4, <2>2
    <3> QED
      BY <1>5, <2>2, <3>1 DEF Inserted
  <2> QED
    BY <2>1, <2>2
<1>9. PICK c, d : c = Cut(b) /\ d = Cut(v)
  OBVIOUS
<1>10. /\ c \in Seq(S) /\ Len(c) = IF Len(b) < Shown THEN Len(b) ELSE Shown
       /\ \A i \in 1..Len(c) : c[i] = b[i]
  BY <1>1, <1>9, CutPlaces
<1>11. /\ d \in Seq(S) /\ Len(d) = IF Len(v) < Shown THEN Len(v) ELSE Shown
       /\ \A i \in 1..Len(d) : d[i] = v[i]
  BY <1>7, <1>9, CutPlaces
<1>12. Len(c) = Len(d)
  BY <1>1, <1>3, <1>7, <1>10, <1>11
<1>13. ASSUME NEW i \in 1..Len(c) PROVE c[i] = d[i]
  <2>1. c[i] = b[i] /\ d[i] = v[i] /\ i \in Nat /\ i >= 1 /\ i <= Shown /\ i <= Len(a) + 1
    BY <1>1, <1>3, <1>10, <1>11, <1>12
  <2>2. CASE i < n
    <3>1. i \in 1..(n - 1) /\ i \in 1..Len(u)
      BY <1>1, <1>4, <2>1, <2>2
    <3> QED
      BY <1>1, <1>3, <1>7, <2>1, <3>1
  <2>3. CASE i = n
    BY <1>1, <1>7, <2>1, <2>3
  <2>4. CASE i > n
    <3>1. i - 1 \in n..Len(a) /\ i - 1 \in n..Len(u) /\ i - 1 \in 1..Len(u) /\ (i - 1) + 1 = i
      BY <1>1, <1>3, <2>1, <2>4
    <3>2. b[(i - 1) + 1] = a[i - 1] /\ v[(i - 1) + 1] = u[i - 1] /\ u[i - 1] = a[i - 1]
      BY <1>1, <1>3, <1>7, <3>1
    <3> QED
      BY <2>1, <3>1, <3>2
  <2> QED
    BY <1>1, <2>1, <2>2, <2>3, <2>4
<1>14. c = d
  BY <1>10, <1>11, <1>12, <1>13, SeqEqual
<1> QED
  BY <1>2, <1>8, <1>9, <1>14

\* It shows the thing at its place, and if it shows all, shows the list without
\* it when that is taken.
LEMMA TakenShown ==
    ASSUME NEW S, NEW x \in S, NEW a, NEW b, NEW n, PutInto(S, a, b, n, x), n <= Shown
    PROVE  /\ n \in DOMAIN Cut(b) /\ Cut(b)[n] = x
           /\ Len(b) <= Shown => Cut(a) = Erased(Cut(b), n)
<1>1. /\ a \in Seq(S) /\ b \in Seq(S) /\ Len(a) \in Nat /\ Len(b) = Len(a) + 1
      /\ n \in 1..(Len(a) + 1) /\ n \in Nat /\ b[n] = x
  BY PutPlaces
<1>2. PICK u : u = Cut(b)
  OBVIOUS
<1>3. /\ Shown \in Nat /\ Shown >= 2 /\ u \in Seq(S)
      /\ Len(u) = IF Len(b) < Shown THEN Len(b) ELSE Shown
      /\ \A i \in 1..Len(u) : u[i] = b[i]
      /\ Len(b) <= Shown => u = b
  BY <1>1, <1>2, CutPlaces
<1>4. n \in 1..Len(u) /\ DOMAIN u = 1..Len(u)
  BY <1>1, <1>3
<1>5. u[n] = x
  BY <1>1, <1>3, <1>4
<1>6. ASSUME Len(b) <= Shown PROVE Cut(a) = Erased(u, n)
  <2>1. u = b
    BY <1>3, <1>6
  <2>2. PutInto(S, RemoveAt(u, n), u, n, u[n])
    BY <1>3, <1>4, RemoveAtTakes
  <2>3. PICK c : c = RemoveAt(u, n)
    OBVIOUS
  <2>4. PutInto(S, c, b, n, x)
    BY <1>5, <2>1, <2>2, <2>3
  <2>5. a = c
    BY <2>4, PutBack
  <2>6. Cut(a) = a
    <3>1. Len(a) <= Shown
      BY <1>1, <1>3, <1>6
    <3> QED
      BY <1>1, <3>1, CutPlaces
  <2> QED
    BY <1>4, <2>3, <2>5, <2>6 DEF Erased
<1> QED
  BY <1>2, <1>4, <1>5, <1>6

\* One thing becomes another.
DifferAt(a, b, n) ==
    Len(a) = Len(b) /\ n \in 1..Len(a) /\ \A i \in 1..Len(a) : i # n => b[i] = a[i]

\* What 0x6B makes of such a difference.
LEMMA ChangedShown ==
    ASSUME NEW S, NEW a \in Seq(S), NEW b \in Seq(S), NEW n, DifferAt(a, b, n)
    PROVE  Cut(b) = IF n <= Shown THEN Changed(Cut(a), n, b[n]) ELSE Cut(a)
<1>0. Len(a) = Len(b) /\ n \in 1..Len(a) /\ \A i \in 1..Len(a) : i # n => b[i] = a[i]
  BY DEF DifferAt
<1>1. PICK u, v : u = Cut(a) /\ v = Cut(b)
  OBVIOUS
<1>2. /\ Shown \in Nat /\ u \in Seq(S) /\ Len(a) \in Nat
      /\ Len(u) = IF Len(a) < Shown THEN Len(a) ELSE Shown
      /\ \A i \in 1..Len(u) : u[i] = a[i]
  BY <1>1, CutPlaces
<1>3. /\ v \in Seq(S)
      /\ Len(v) = IF Len(b) < Shown THEN Len(b) ELSE Shown
      /\ \A i \in 1..Len(v) : v[i] = b[i]
  BY <1>1, CutPlaces
<1>4. Len(u) = Len(v)
  BY <1>0, <1>2, <1>3
<1>5. CASE n <= Shown
  <2>1. n \in 1..Len(u) /\ DOMAIN u = 1..Len(u) /\ b[n] \in S
    BY <1>0, <1>2, <1>5
  <2>2. PICK w : w = [u EXCEPT ![n] = b[n]]
    OBVIOUS
  <2>3. w \in Seq(S) /\ Len(w) = Len(u) /\ \A i \in 1..Len(u) : w[i] = IF i = n THEN b[n] ELSE u[i]
    BY <1>2, <2>1, <2>2
  <2>4. \A i \in 1..Len(v) : v[i] = w[i]
    BY <1>0, <1>2, <1>3, <1>4, <2>3
  <2>5. v = w
    BY <1>3, <1>4, <2>3, <2>4, SeqEqual
  <2> QED
    BY <1>1, <1>5, <2>1, <2>2, <2>5 DEF Changed, ReplaceAt
<1>6. CASE ~(n <= Shown)
  <2>1. ASSUME NEW i \in 1..Len(v) PROVE v[i] = u[i]
    <3>1. i \in 1..Len(a) /\ i # n /\ i \in 1..Len(u)
      BY <1>0, <1>2, <1>4, <1>6
    <3> QED
      BY <1>0, <1>2, <1>3, <3>1
  <2>2. v = u
    BY <1>2, <1>3, <1>4, <2>1, SeqEqual
  <2> QED
    BY <1>1, <1>6, <2>2
<1> QED
  BY <1>5, <1>6

\* The first place of one of a set.
LEMMA FirstPlace ==
    ASSUME NEW S, NEW s \in Seq(S)
    PROVE  /\ \A k \in 1..Len(s) : s[k] \in DownItems /\ (\A i \in 1..(k - 1) : s[i] \notin DownItems)
                 => SelectInSeq(s, LAMBDA x : x \in DownItems) = k
           /\ (\A i \in 1..Len(s) : s[i] \notin DownItems)
                 => SelectInSeq(s, LAMBDA x : x \in DownItems) = 0
<1>1. PICK I : I = {i \in 1..Len(s) : s[i] \in DownItems}
  OBVIOUS
<1>2. SelectInSeq(s, LAMBDA x : x \in DownItems) = IF I # {} THEN Min(I) ELSE 0
  BY <1>1 DEF SelectInSeq
<1>3. ASSUME NEW k \in 1..Len(s), s[k] \in DownItems, \A i \in 1..(k - 1) : s[i] \notin DownItems
      PROVE  Min(I) = k /\ I # {}
  <2>1. k \in I /\ \A i \in I : k <= i /\ i \in Int
    BY <1>1, <1>3
  <2>2. \A x \in I : (\A y \in I : x <= y) => x = k
    BY <1>1, <2>1
  <2> QED
    BY <2>1, <2>2 DEF Min
<1>4. ASSUME \A i \in 1..Len(s) : s[i] \notin DownItems PROVE I = {}
  BY <1>1, <1>4
<1> QED
  BY <1>2, <1>3, <1>4

\* A creature that comes behind all that is no such item.
LEMMA ArrivedShown ==
    ASSUME NEW S, NEW x \in S, NEW c \in Seq(S), NEW d \in Seq(S),
           \A i \in 1..Len(c) : c[i] \notin DownItems, \A i \in 1..Len(d) : d[i] \in DownItems
    PROVE  Cut((c \o <<x>>) \o d) = Arrived(Cut(c \o d), x)
<1>1. PICK a, b, n : a = c \o d /\ b = (c \o <<x>>) \o d /\ n = Len(c) + 1
  OBVIOUS
<1>2. PutInto(S, a, b, n, x)
  BY <1>1 DEF PutInto
<1>3. /\ a \in Seq(S) /\ b \in Seq(S) /\ Len(c) \in Nat /\ Len(d) \in Nat
      /\ Len(a) = Len(c) + Len(d)
      /\ \A i \in 1..Len(c) : a[i] = c[i]
      /\ \A i \in 1..Len(d) : a[Len(c) + i] = d[i]
  <2>1. b \in Seq(S)
    BY <1>2, PutPlaces
  <2> QED
    BY <1>1, <2>1
<1>4. PICK u : u = Cut(a)
  OBVIOUS
<1>5. /\ Shown \in Nat /\ Shown >= 2 /\ u \in Seq(S)
      /\ Len(u) = IF Len(a) < Shown THEN Len(a) ELSE Shown
      /\ \A i \in 1..Len(u) : u[i] = a[i]
  BY <1>3, <1>4, CutPlaces
<1>6. PICK k : k = SelectInSeq(u, LAMBDA y : y \in DownItems)
  OBVIOUS
<1>7. Arrived(u, x) = Inserted(u, IF k = 0 THEN Len(u) + 1 ELSE k, x)
  BY <1>6 DEF Arrived
<1>8. CASE Len(c) < Shown /\ Len(d) > 0
  <2>1. n \in 1..Len(u) /\ n <= Shown /\ n # 0
    BY <1>1, <1>3, <1>5, <1>8
  <2>2. u[n] \in DownItems
    <3>1. 1 \in 1..Len(d)
      BY <1>3, <1>8
    <3>2. a[Len(c) + 1] = d[1]
      BY <1>3, <3>1
    <3> QED
      BY <1>1, <1>5, <2>1, <3>1, <3>2
  <2>3. ASSUME NEW i \in 1..(n - 1) PROVE u[i] \notin DownItems
    <3>1. i \in 1..Len(c) /\ i \in 1..Len(u)
      BY <1>1, <1>3, <1>5, <2>1
    <3>2. u[i] = a[i] /\ a[i] = c[i]
      BY <1>3, <1>5, <3>1
    <3> QED
      BY <3>1, <3>2
  <2>4. k = n
    BY <1>5, <1>6, <2>1, <2>2, <2>3, FirstPlace
  <2>5. Cut(b) = Inserted(u, n, x)
    BY <1>2, <1>4, <2>1, PutShown
  <2> QED
    BY <1>1, <1>4, <1>7, <2>1, <2>4, <2>5
<1>9. CASE ~(Len(c) < Shown /\ Len(d) > 0)
  <2>1. Len(u) <= Len(c)
    BY <1>3, <1>5, <1>9
  <2>2. ASSUME NEW i \in 1..Len(u) PROVE u[i] \notin DownItems
    <3>1. i \in 1..Len(c)
      BY <1>3, <1>5, <2>1
    <3>2. u[i] = a[i] /\ a[i] = c[i]
      BY <1>3, <1>5, <3>1
    <3> QED
      BY <3>1, <3>2
  <2>3. k = 0
    BY <1>5, <1>6, <2>2, FirstPlace
  <2>4. Arrived(u, x) = Inserted(u, Len(u) + 1, x)
    BY <1>7, <2>3
  <2>5. CASE Len(c) < Shown
    <3>1. n = Len(u) + 1 /\ n <= Shown
      BY <1>1, <1>3, <1>5, <1>9, <2>5
    <3>2. Cut(b) = Inserted(u, n, x)
      BY <1>2, <1>4, <3>1, PutShown
    <3> QED
      BY <1>1, <1>4, <2>4, <3>1, <3>2
  <2>6. CASE Len(c) >= Shown
    <3>1. n > Shown /\ Len(u) = Shown
      BY <1>1, <1>3, <1>5, <2>6
    <3>2. Cut(b) = u
      BY <1>2, <1>4, <3>1, PutBeyond
    <3>3. PICK m : m = Len(u) + 1
      OBVIOUS
    <3>4. m \in 1..(Len(u) + 1) /\ m > Shown /\ ~(m <= Len(u)) /\ Len(u) <= Shown
      BY <1>5, <3>1, <3>3
    <3>5. PICK v : v = InsertAt(u, m, x)
      OBVIOUS
    <3>6. PutInto(S, u, v, m, x)
      BY <1>5, <3>4, <3>5, InsertAtPuts
    <3>7. Cut(v) = Cut(u)
      BY <3>4, <3>6, PutBeyond
    <3>8. Cut(u) = u
      BY <1>5, <3>4, CutPlaces
    <3>9. Inserted(u, Len(u) + 1, x) = Cut(v)
      BY <3>3, <3>4, <3>5 DEF Inserted
    <3> QED
      BY <1>1, <1>4, <2>4, <3>2, <3>7, <3>8, <3>9
  <2> QED
    BY <1>3, <1>5, <2>5, <2>6
<1> QED
  BY <1>8, <1>9

-----------------------------------------------------------------------------
(***************************************************************************)
(* TileViews: what is chosen of a list, with one element or without it.    *)
(***************************************************************************)
\* No element is in the list twice: what is chosen with one of them has it
\* more than what is chosen without.
LEMMA ChosenWith ==
    ASSUME NEW S, NEW s \in Seq(S), NoDuplicate(s), NEW c \in S, In(c, s), NEW K, c \notin K
    PROVE  /\ PutInto(S, Chosen(s, K), Chosen(s, K \cup {c}), PlaceOf(c, Chosen(s, K \cup {c})), c)
           /\ ~In(c, Chosen(s, K))
<1>1. PICK k \in 1..Len(s) : s[k] = c
  BY DEF In
<1>2. PICK p \in Seq(S), q \in Seq(S) : SplitAt(s, k, p, q)
  BY ListSplit
<1>3. /\ Len(p) = k - 1 /\ Len(q) = Len(s) - k /\ Len(s) \in Nat
      /\ \A i \in 1..(k - 1) : p[i] = s[i]
      /\ \A i \in 1..(Len(s) - k) : q[i] = s[k + i]
  <2>1. /\ Len(p) = k - 1 /\ Len(q) = Len(s) - k
        /\ \A i \in 1..(k - 1) : p[i] = s[i]
        /\ \A i \in 1..(Len(s) - k) : q[i] = s[k + i]
    BY <1>2 DEF SplitAt
  <2>2. Len(s) \in Nat
    OBVIOUS
  <2> QED
    BY <2>1, <2>2
<1>4. \A i \in 1..Len(s) : s[i] = c => i = k
  BY <1>1 DEF NoDuplicate
<1>5. ~In(c, p)
  <2> SUFFICES ASSUME NEW i \in 1..(k - 1), p[i] = c PROVE FALSE
    BY <1>3 DEF In
  <2>1. i \in 1..Len(s) /\ i # k
    BY <1>3
  <2> QED
    BY <1>3, <1>4, <2>1
<1>6. ~In(c, q)
  <2> SUFFICES ASSUME NEW i \in 1..(Len(s) - k), q[i] = c PROVE FALSE
    BY <1>3 DEF In
  <2>1. k + i \in 1..Len(s) /\ k + i # k
    BY <1>3
  <2> QED
    BY <1>3, <1>4, <2>1
<1>9. PICK n : PutInto(S, Chosen(s, K), Chosen(s, K \cup {c}), n, c)
  BY <1>1, <1>2, <1>5, <1>6, ChosenAround
<1>10. ~In(c, Chosen(s, K))
  BY ChosenIn
<1>11. PlaceOf(c, Chosen(s, K \cup {c})) = n
  BY <1>9, <1>10, PutPlaceOf
<1> QED
  BY <1>9, <1>10, <1>11

-----------------------------------------------------------------------------
(***************************************************************************)
(* TileViews: what there is to see on a tile.                              *)
(***************************************************************************)
Things == {Soil} \cup TopItems \cup Walkers \cup DownItems

\* The form of what a handler works on, but for what a client shows of a tile.
Shaped(m) ==
    /\ m = [top |-> m.top, down |-> m.down, who |-> m.who, hidden |-> m.hidden,
            view |-> m.view, cache |-> m.cache, players |-> m.players, lacking |-> m.lacking]
    /\ m.top \in [Spots -> Seq(TopItems)] /\ m.down \in [Spots -> Seq(DownItems)]
    /\ m.who \in [Spots -> Seq(Walkers)] /\ m.hidden \in SUBSET Others
    /\ m.view = [t \in Spots |-> m.view[t]] /\ m.lacking \in SUBSET Spots
    /\ m.cache \in [Spots -> (SUBSET {Watcher}) \cup {NotCached}]
    /\ m.players \in [Spots -> (SUBSET {Watcher}) \cup {NotCached}]

\* Nothing is twice on a tile, no creature on two, and the watcher on one; a
\* creature that hides is somewhere.
Placement(m) ==
    /\ \A t \in Spots : NoDuplicate(m.top[t]) /\ NoDuplicate(m.down[t]) /\ NoDuplicate(m.who[t])
    /\ \A t, u \in Spots, c \in Walkers : In(c, m.who[t]) /\ In(c, m.who[u]) => t = u
    /\ \E t \in Spots : In(Watcher, m.who[t])
    /\ \A c \in m.hidden : \E t \in Spots : In(c, m.who[t])

\* What is all shown of a tile.
LEMMA ShownOf ==
    ASSUME NEW m, Shaped(m), NEW t \in Spots
    PROVE  /\ <<Soil>> \in Seq(Things) /\ Len(<<Soil>>) = 1
           /\ m.top[t] \in Seq(TopItems) /\ m.top[t] \in Seq(Things)
           /\ m.down[t] \in Seq(DownItems) /\ m.down[t] \in Seq(Things)
           /\ m.who[t] \in Seq(Walkers)
           /\ Seen(m, t) \in Seq(Walkers) /\ Seen(m, t) \in Seq(Things)
           /\ AllShown(m, t) = Four(<<Soil>>, m.top[t], Seen(m, t), m.down[t])
<1>1. m.top[t] \in Seq(TopItems) /\ m.down[t] \in Seq(DownItems) /\ m.who[t] \in Seq(Walkers)
  BY DEF Shaped
<1>2. Seen(m, t) \in Seq(Walkers)
  BY <1>1, ChosenPlaced DEF Seen
<1>3. Soil \in Things
  BY DEF Things
<1>4. <<Soil>> \in Seq(Things) /\ Len(<<Soil>>) = 1
  BY <1>3, OneLong
<1>5. \A s : s \in Seq(TopItems) \/ s \in Seq(DownItems) \/ s \in Seq(Walkers) => s \in Seq(Things)
  <2>1. TopItems \subseteq Things /\ DownItems \subseteq Things /\ Walkers \subseteq Things
    BY DEF Things
  <2> QED
    BY <2>1
<1>6. AllShown(m, t) = Four(<<Soil>>, m.top[t], Seen(m, t), m.down[t])
  BY DEF AllShown, Four
<1> QED
  BY <1>1, <1>2, <1>4, <1>5, <1>6

\* How much that is; there may be more on the tile, which the client may not see.
LEMMA ShownCount ==
    ASSUME NEW m, Shaped(m), NEW t \in Spots
    PROVE  /\ AllShown(m, t) \in Seq(Things)
           /\ Len(m.top[t]) \in Nat /\ Len(Seen(m, t)) \in Nat /\ Len(m.down[t]) \in Nat
           /\ Len(AllShown(m, t)) = 1 + Len(m.top[t]) + Len(Seen(m, t)) + Len(m.down[t])
           /\ ThingCount(m, t) \in Nat /\ Len(AllShown(m, t)) <= ThingCount(m, t)
<1>1. /\ <<Soil>> \in Seq(Things) /\ Len(<<Soil>>) = 1
      /\ m.top[t] \in Seq(Things) /\ m.down[t] \in Seq(Things)
      /\ m.who[t] \in Seq(Walkers) /\ Seen(m, t) \in Seq(Things)
      /\ AllShown(m, t) = Four(<<Soil>>, m.top[t], Seen(m, t), m.down[t])
  BY ShownOf
<1>2. /\ Len(m.top[t]) \in Nat /\ Len(Seen(m, t)) \in Nat /\ Len(m.down[t]) \in Nat
      /\ Len(m.who[t]) \in Nat
  BY <1>1
<1>3. /\ Four(<<Soil>>, m.top[t], Seen(m, t), m.down[t]) \in Seq(Things)
      /\ Len(Four(<<Soil>>, m.top[t], Seen(m, t), m.down[t]))
           = Len(<<Soil>>) + Len(m.top[t]) + Len(Seen(m, t)) + Len(m.down[t])
  <2>1. PICK a \in Seq(Things), b \in Seq(Things), c \in Seq(Things), d \in Seq(Things) :
              a = <<Soil>> /\ b = m.top[t] /\ c = Seen(m, t) /\ d = m.down[t]
    BY <1>1
  <2>2. Four(a, b, c, d) \in Seq(Things) /\ Len(Four(a, b, c, d)) = Len(a) + Len(b) + Len(c) + Len(d)
    BY FourLong
  <2> QED
    BY <2>1, <2>2
<1>4. Len(Seen(m, t)) <= Len(m.who[t])
  BY <1>1, ChosenShorter DEF Seen
<1>5. AllShown(m, t) \in Seq(Things)
  BY <1>1, <1>3
<1>6. Len(AllShown(m, t)) = 1 + Len(m.top[t]) + Len(Seen(m, t)) + Len(m.down[t])
  BY <1>1, <1>3
<1>7. ThingCount(m, t) = 1 + Len(m.top[t]) + Len(m.who[t]) + Len(m.down[t])
  BY DEF ThingCount
<1>8. ThingCount(m, t) \in Nat /\ Len(AllShown(m, t)) <= ThingCount(m, t)
  <2>1. PICK x \in Nat, y \in Nat, z \in Nat, w \in Nat :
             x = Len(m.top[t]) /\ y = Len(Seen(m, t)) /\ z = Len(m.down[t]) /\ w = Len(m.who[t])
    BY <1>2
  <2>2. y <= w
    BY <1>4, <2>1
  <2>3. 1 + x + y + z <= 1 + x + w + z /\ 1 + x + w + z \in Nat
    BY <2>2
  <2> QED
    BY <1>6, <1>7, <2>1, <2>3
<1> QED
  BY <1>2, <1>5, <1>6, <1>8

\* n has the item i on the tile t, and m is without it.
ItemMore(m, n, t, i) ==
    /\ n.who[t] = m.who[t] /\ n.hidden = m.hidden
    /\ \/ /\ i \in TopItems /\ ~In(i, m.top[t]) /\ n.down[t] = m.down[t]
          /\ \E k : PutInto(TopItems, m.top[t], n.top[t], k, i)
       \/ /\ i \in DownItems /\ ~In(i, m.down[t]) /\ n.top[t] = m.top[t]
          /\ \E k : PutInto(DownItems, m.down[t], n.down[t], k, i)

\* Tile::getStackposOfItem is its place among all that is shown.
LEMMA ItemPut ==
    ASSUME NEW m, NEW n, Shaped(m), Shaped(n), NEW t \in Spots, NEW i, ItemMore(m, n, t, i)
    PROVE  \E p \in Nat : /\ PutInto(Things, AllShown(m, t), AllShown(n, t), p, i)
                          /\ StackposOfItem(n, t, i) = Within(p) /\ p > 0 /\ i \in Things
<1>1. Seen(n, t) = Seen(m, t)
  BY DEF ItemMore, Seen
<1>2. /\ <<Soil>> \in Seq(Things) /\ Len(<<Soil>>) = 1
      /\ m.top[t] \in Seq(Things) /\ m.down[t] \in Seq(Things) /\ Seen(m, t) \in Seq(Things)
      /\ AllShown(m, t) = Four(<<Soil>>, m.top[t], Seen(m, t), m.down[t])
  BY ShownOf
<1>3. /\ n.top[t] \in Seq(Things) /\ n.down[t] \in Seq(Things)
      /\ AllShown(n, t) = Four(<<Soil>>, n.top[t], Seen(n, t), n.down[t])
  BY ShownOf
<1>4. TopItems \subseteq Things /\ DownItems \subseteq Things
  BY DEF Things
<1>5. /\ Len(m.top[t]) \in Nat /\ Len(Seen(m, t)) \in Nat /\ Len(m.down[t]) \in Nat
  BY ShownCount
<1>6. CASE i \in TopItems
  <2>1. ~In(i, m.top[t]) /\ n.down[t] = m.down[t]
    BY <1>6, TileViewsAssumption DEF ItemMore
  <2>2. PICK k : PutInto(TopItems, m.top[t], n.top[t], k, i)
    BY <1>6, TileViewsAssumption DEF ItemMore
  <2>3. k \in Nat /\ k >= 1
    BY <1>6, <2>2, PutPlaces
  <2>4. PlaceOf(i, n.top[t]) = k
    BY <1>6, <2>1, <2>2, PutPlaceOf
  <2>5. PutInto(Things, m.top[t], n.top[t], k, i)
    BY <1>4, <1>6, <2>2, PutWider
  <2>6. PutInto(Things, Four(<<Soil>>, m.top[t], Seen(m, t), m.down[t]),
                    Four(<<Soil>>, n.top[t], Seen(m, t), m.down[t]), Len(<<Soil>>) + k, i)
    BY <1>2, <1>3, <1>4, <1>6, <2>5, FourPut
  <2>7. PICK p \in Nat : p = 1 + k /\ p > 0
    BY <2>3
  <2>8. PutInto(Things, AllShown(m, t), AllShown(n, t), p, i)
    BY <1>1, <1>2, <1>3, <2>1, <2>6, <2>7
  <2>9. StackposOfItem(n, t, i) = Within(p)
    BY <1>6, <2>4, <2>7 DEF StackposOfItem
  <2> QED
    BY <1>4, <1>6, <2>7, <2>8, <2>9
<1>7. CASE i \in DownItems
  <2>0. i \notin TopItems
    BY <1>7, TileViewsAssumption
  <2>1. ~In(i, m.down[t]) /\ n.top[t] = m.top[t]
    BY <2>0 DEF ItemMore
  <2>2. PICK k : PutInto(DownItems, m.down[t], n.down[t], k, i)
    BY <2>0 DEF ItemMore
  <2>3. k \in Nat /\ k >= 1
    BY <1>7, <2>2, PutPlaces
  <2>4. PlaceOf(i, n.down[t]) = k
    BY <1>7, <2>1, <2>2, PutPlaceOf
  <2>5. PutInto(Things, m.down[t], n.down[t], k, i)
    BY <1>4, <1>7, <2>2, PutWider
  <2>6. PutInto(Things, Four(<<Soil>>, m.top[t], Seen(m, t), m.down[t]),
                    Four(<<Soil>>, m.top[t], Seen(m, t), n.down[t]),
                    Len(<<Soil>>) + Len(m.top[t]) + Len(Seen(m, t)) + k, i)
    BY <1>2, <1>3, <1>4, <1>7, <2>5, FourPut
  <2>7. PICK p \in Nat : p = 1 + Len(m.top[t]) + Len(Seen(m, t)) + k /\ p > 0
    BY <1>5, <2>3
  <2>8. PutInto(Things, AllShown(m, t), AllShown(n, t), p, i)
    BY <1>1, <1>2, <1>3, <2>1, <2>6, <2>7
  <2>9. StackposOfItem(n, t, i) = Within(p)
    BY <1>1, <2>0, <2>1, <2>4, <2>7 DEF StackposOfItem
  <2> QED
    BY <1>4, <1>7, <2>7, <2>8, <2>9
<1> QED
  BY <1>6, <1>7 DEF ItemMore

\* n shows the creature c on the tile t, and m does not.
CreatureMore(m, n, t, c) ==
    /\ n.top[t] = m.top[t] /\ n.down[t] = m.down[t]
    /\ In(c, n.who[t]) /\ NoDuplicate(n.who[t]) /\ c \notin n.hidden
    /\ Seen(m, t) = Chosen(n.who[t], (Walkers \ n.hidden) \ {c})

\* So is Tile::getClientIndexOfCreature.
LEMMA CreaturePut ==
    ASSUME NEW m, NEW n, Shaped(m), Shaped(n), NEW t \in Spots, NEW c \in Walkers,
           CreatureMore(m, n, t, c)
    PROVE  /\ ClientIndexOfCreature(n, t, c) \in Nat /\ ClientIndexOfCreature(n, t, c) > 0
           /\ PutInto(Things, AllShown(m, t), AllShown(n, t), ClientIndexOfCreature(n, t, c), c)
           /\ c \in Things
<1>1. PICK K : K = (Walkers \ n.hidden) \ {c}
  OBVIOUS
<1>2. (Walkers \ n.hidden) \cup {c} = K \cup {c} /\ Walkers \ n.hidden = K \cup {c} /\ c \notin K
  BY <1>1 DEF CreatureMore
<1>3. /\ <<Soil>> \in Seq(Things) /\ Len(<<Soil>>) = 1
      /\ m.top[t] \in Seq(Things) /\ m.down[t] \in Seq(Things) /\ Seen(m, t) \in Seq(Things)
      /\ AllShown(m, t) = Four(<<Soil>>, m.top[t], Seen(m, t), m.down[t])
  BY ShownOf
<1>4. /\ n.who[t] \in Seq(Walkers) /\ Seen(n, t) \in Seq(Things)
      /\ AllShown(n, t) = Four(<<Soil>>, n.top[t], Seen(n, t), n.down[t])
  BY ShownOf
<1>5. PICK w \in Seq(Walkers) : w = n.who[t] /\ In(c, w) /\ NoDuplicate(w)
  BY <1>4 DEF CreatureMore
<1>6. PICK k : k = PlaceOf(c, Chosen(w, K \cup {c}))
  OBVIOUS
<1>7. PutInto(Walkers, Chosen(w, K), Chosen(w, K \cup {c}), k, c)
  BY <1>2, <1>5, <1>6, ChosenWith
<1>8. Seen(m, t) = Chosen(w, K) /\ Seen(n, t) = Chosen(w, K \cup {c})
  BY <1>1, <1>2, <1>5 DEF CreatureMore, Seen
<1>9. k \in Nat /\ k >= 1
  BY <1>7, PutPlaces
<1>10. Walkers \subseteq Things
  BY DEF Things
<1>11. PutInto(Things, Seen(m, t), Seen(n, t), k, c)
  BY <1>7, <1>8, <1>10, PutWider
<1>12. PutInto(Things, Four(<<Soil>>, m.top[t], Seen(m, t), m.down[t]),
                   Four(<<Soil>>, m.top[t], Seen(n, t), m.down[t]), Len(<<Soil>>) + Len(m.top[t]) + k, c)
  BY <1>3, <1>4, <1>10, <1>11, FourPut
<1>13. ClientIndexOfCreature(n, t, c) = 1 + Len(m.top[t]) + k
  BY <1>2, <1>5, <1>6 DEF ClientIndexOfCreature, CreatureMore
<1>14. Len(m.top[t]) \in Nat
  BY ShownCount
<1>15. n.top[t] = m.top[t] /\ n.down[t] = m.down[t]
  BY DEF CreatureMore
<1> QED
  BY <1>3, <1>4, <1>9, <1>10, <1>12, <1>13, <1>14, <1>15

\* What a client is told of that.
LEMMA ShownMore ==
    ASSUME NEW m, NEW n, NEW t, NEW x \in Things, NEW p \in Nat, p > 0,
           PutInto(Things, AllShown(m, t), AllShown(n, t), p, x)
    PROVE  /\ Within(p) = 0 => TileDescription(n, t) = TileDescription(m, t)
           /\ Within(p) # 0 => /\ Within(p) = p /\ p <= Shown
                               /\ TileDescription(n, t) = Inserted(TileDescription(m, t), p, x)
                               /\ p \in DOMAIN TileDescription(n, t) /\ TileDescription(n, t)[p] = x
                               /\ Len(AllShown(n, t)) <= Shown
                                    => TileDescription(m, t) = Erased(TileDescription(n, t), p)
<1>1. Shown \in Nat
  BY TileViewsAssumption
<1>2. CASE p > Shown
  <2>1. Within(p) = 0
    BY <1>1, <1>2 DEF Within
  <2>2. Cut(AllShown(n, t)) = Cut(AllShown(m, t))
    BY <1>2, PutBeyond
  <2> QED
    BY <2>1, <2>2 DEF TileDescription
<1>3. CASE p <= Shown
  <2>1. Within(p) = p /\ Within(p) # 0
    BY <1>1, <1>3 DEF Within
  <2>2. Cut(AllShown(n, t)) = Inserted(Cut(AllShown(m, t)), p, x)
    BY <1>3, PutShown
  <2>3. /\ p \in DOMAIN Cut(AllShown(n, t)) /\ Cut(AllShown(n, t))[p] = x
        /\ Len(AllShown(n, t)) <= Shown => Cut(AllShown(m, t)) = Erased(Cut(AllShown(n, t)), p)
    BY <1>3, TakenShown
  <2> QED
    BY <1>3, <2>1, <2>2, <2>3 DEF TileDescription
<1> QED
  BY <1>1, <1>2, <1>3

-----------------------------------------------------------------------------
(***************************************************************************)
(* TileViews: whom to tell.                                                *)
(***************************************************************************)
\* Where a creature stands, that is on one tile.
LEMMA StandsOnOne ==
    ASSUME NEW m, Placement(m), NEW c \in Walkers, NEW t \in Spots, In(c, m.who[t])
    PROVE  /\ TileOfCreature(m, c) = t
           /\ Stands(m, c) = {t}
<1>1. \A u \in Spots : c \in ToSet(m.who[u]) <=> In(c, m.who[u])
  BY DEF ToSet, In
<1>2. \A u \in Spots : In(c, m.who[u]) => u = t
  BY DEF Placement
<1> QED
  BY <1>1, <1>2 DEF TileOfCreature, Stands

\* Who stands on a tile is in its list.
LEMMA StandsIs ==
    ASSUME NEW m, NEW c, NEW t \in Spots
    PROVE  t \in Stands(m, c) <=> In(c, m.who[t])
  BY DEF Stands, ToSet, In

\* The watcher stands somewhere.
LEMMA WatcherStands ==
    ASSUME NEW m, Placement(m)
    PROVE  /\ \E t \in Spots : In(Watcher, m.who[t]) /\ TileOfCreature(m, Watcher) = t
           /\ Watcher \in Walkers
<1>1. Watcher \in Walkers
  BY DEF Walkers
<1>2. PICK t \in Spots : In(Watcher, m.who[t])
  BY DEF Placement
<1> QED
  BY <1>1, <1>2, StandsOnOne

\* n differs from m in what is shown and cached only.
SameWorld(m, n) == n.top = m.top /\ n.down = m.down /\ n.who = m.who /\ n.hidden = m.hidden

\* What there is to see is the same.
LEMMA WorldSeen ==
    ASSUME NEW m, NEW n, SameWorld(m, n)
    PROVE  /\ Placement(n) <=> Placement(m)
           /\ \A c : TileOfCreature(n, c) = TileOfCreature(m, c)
           /\ \A t : /\ CanSee(n, t) = CanSee(m, t) /\ InRangeOf(n, t) = InRangeOf(m, t)
                     /\ AllShown(n, t) = AllShown(m, t)
                     /\ TileDescription(n, t) = TileDescription(m, t)
                     /\ ThingCount(n, t) = ThingCount(m, t) /\ Seen(n, t) = Seen(m, t)
           /\ \A t, i : StackposOfItem(n, t, i) = StackposOfItem(m, t, i)
           /\ \A t, c : ClientIndexOfCreature(n, t, c) = ClientIndexOfCreature(m, t, c)
<1>1. Placement(n) <=> Placement(m)
  BY DEF SameWorld, Placement
<1>2. \A c : TileOfCreature(n, c) = TileOfCreature(m, c)
  BY DEF SameWorld, TileOfCreature
<1>3. \A t : CanSee(n, t) = CanSee(m, t) /\ InRangeOf(n, t) = InRangeOf(m, t)
  BY <1>2 DEF CanSee, InRangeOf
<1>4. \A t : Seen(n, t) = Seen(m, t)
  BY DEF SameWorld, Seen
<1>5. \A t : AllShown(n, t) = AllShown(m, t)
  BY <1>4 DEF SameWorld, AllShown
<1>6. \A t : TileDescription(n, t) = TileDescription(m, t)
  BY <1>5 DEF TileDescription
<1>7. \A t : ThingCount(n, t) = ThingCount(m, t)
  BY DEF SameWorld, ThingCount
<1>8. \A t, i : StackposOfItem(n, t, i) = StackposOfItem(m, t, i)
  BY <1>4 DEF SameWorld, StackposOfItem
<1>9. \A t, c : ClientIndexOfCreature(n, t, c) = ClientIndexOfCreature(m, t, c)
  BY DEF SameWorld, ClientIndexOfCreature
<1> QED
  BY <1>1, <1>2, <1>3, <1>4, <1>5, <1>6, <1>7, <1>8, <1>9

\* What is cached of a tile in sight has the watcher.
CachesRight(m) ==
    \A t \in Spots : CanSee(m, t) =>
        /\ m.cache[t] # NotCached => Watcher \in m.cache[t]
        /\ m.players[t] # NotCached => Watcher \in m.players[t]

Ready(m) == Shaped(m) /\ Placement(m) /\ CachesRight(m)

\* Map::getSpectatorsInternal finds one who sees the tile.
LEMMA InRangeRight ==
    ASSUME NEW m, Placement(m), NEW t \in Spots
    PROVE  InRangeOf(m, t) \in SUBSET {Watcher} /\ (CanSee(m, t) => InRangeOf(m, t) = {Watcher})
<1>1. PICK w \in Spots : TileOfCreature(m, Watcher) = w
  BY WatcherStands
<1>2. w \in Int /\ t \in Int /\ Sight \in Nat /\ Earshot \in Nat /\ Sight <= Earshot
  BY TileViewsAssumption DEF Spots
<1>3. PICK d \in Int : d = Apart(TileOfCreature(m, Watcher), t)
  <2>1. w - t \in Int /\ t - w \in Int
    BY <1>2
  <2>2. Apart(w, t) \in Int
    BY <2>1 DEF Apart
  <2> QED
    BY <1>1, <2>2
<1>4. CanSee(m, t) => d <= Earshot
  BY <1>2, <1>3 DEF CanSee
<1> QED
  BY <1>3, <1>4 DEF InRangeOf

\* So does what is asked, whether it is cached or not.
LEMMA SpectatorsRight ==
    ASSUME NEW m, Ready(m), NEW t \in Spots, NEW list \in SUBSET {Watcher}
    PROVE  /\ Spectators(m, t, list) \in SUBSET {Watcher}
           /\ CanSee(m, t) => Watcher \in Spectators(m, t, list)
           /\ PlayerSpectators(m, t) \in SUBSET {Watcher}
           /\ CanSee(m, t) => Watcher \in PlayerSpectators(m, t)
<1>1. InRangeOf(m, t) \in SUBSET {Watcher} /\ (CanSee(m, t) => InRangeOf(m, t) = {Watcher})
  BY InRangeRight DEF Ready
<1>2. /\ m.cache[t] # NotCached => m.cache[t] \in SUBSET {Watcher}
      /\ m.players[t] # NotCached => m.players[t] \in SUBSET {Watcher}
  <2>1. /\ m.cache \in [Spots -> (SUBSET {Watcher}) \cup {NotCached}]
        /\ m.players \in [Spots -> (SUBSET {Watcher}) \cup {NotCached}]
    BY DEF Ready, Shaped
  <2>2. /\ m.cache[t] \in (SUBSET {Watcher}) \cup {NotCached}
        /\ m.players[t] \in (SUBSET {Watcher}) \cup {NotCached}
    BY <2>1
  <2> QED
    BY <2>2
<1>3. CanSee(m, t) => /\ m.cache[t] # NotCached => Watcher \in m.cache[t]
                      /\ m.players[t] # NotCached => Watcher \in m.players[t]
  BY DEF Ready, CachesRight
<1>4. ASSUME NEW l \in SUBSET {Watcher}
      PROVE  /\ Spectators(m, t, l) \in SUBSET {Watcher}
             /\ CanSee(m, t) => Watcher \in Spectators(m, t, l)
  BY <1>1, <1>2, <1>3 DEF Spectators
<1>5. {} \in SUBSET {Watcher}
  OBVIOUS
<1>6. /\ Spectators(m, t, {}) \in SUBSET {Watcher}
      /\ CanSee(m, t) => Watcher \in Spectators(m, t, {})
  BY <1>4, <1>5
<1> QED
  BY <1>2, <1>3, <1>4, <1>6 DEF PlayerSpectators

\* n differs from m in what is cached only.
Unshown(m, n) == SameWorld(m, n) /\ n.view = m.view /\ n.lacking = m.lacking

\* To ask changes the caches, and keeps them right.
LEMMA AskedRight ==
    ASSUME NEW m, Ready(m), NEW t \in Spots, NEW list \in SUBSET {Watcher}
    PROVE  Ready(Asked(m, t, list)) /\ Unshown(m, Asked(m, t, list))
<1>1. CASE m.cache[t] # NotCached
  BY <1>1 DEF Asked, Unshown, SameWorld
<1>2. CASE m.cache[t] = NotCached
  <2>1. PICK s : s = Spectators(m, t, list)
    OBVIOUS
  <2>2. s \in SUBSET {Watcher} /\ (CanSee(m, t) => Watcher \in s)
    BY <2>1, SpectatorsRight
  <2>3. PICK n : n = [m EXCEPT !.cache[t] = s]
    OBVIOUS
  <2>4. Asked(m, t, list) = n
    BY <1>2, <2>1, <2>3 DEF Asked
  <2>5. /\ n.top = m.top /\ n.down = m.down /\ n.who = m.who /\ n.hidden = m.hidden
        /\ n.view = m.view /\ n.lacking = m.lacking /\ n.players = m.players
        /\ n.cache = [m.cache EXCEPT ![t] = s]
        /\ n = [top |-> n.top, down |-> n.down, who |-> n.who, hidden |-> n.hidden,
                view |-> n.view, cache |-> n.cache, players |-> n.players, lacking |-> n.lacking]
    BY <2>3 DEF Ready, Shaped
  <2>6. Shaped(n)
    BY <2>2, <2>5 DEF Ready, Shaped
  <2>7. Unshown(m, n)
    BY <2>5 DEF Unshown, SameWorld
  <2>8. Placement(n) /\ \A u : CanSee(n, u) = CanSee(m, u)
    BY <2>7, WorldSeen DEF Unshown, Ready
  <2>9. \A u \in Spots : n.cache[u] = IF u = t THEN s ELSE m.cache[u]
    BY <2>5 DEF Ready, Shaped
  <2>10. CachesRight(n)
    BY <2>2, <2>5, <2>8, <2>9 DEF CachesRight, Ready
  <2> QED
    BY <2>4, <2>6, <2>7, <2>8, <2>10 DEF Ready
<1> QED
  BY <1>1, <1>2

\* The same of players only.
LEMMA AskedPlayersRight ==
    ASSUME NEW m, Ready(m), NEW t \in Spots
    PROVE  Ready(AskedPlayers(m, t)) /\ Unshown(m, AskedPlayers(m, t))
<1>1. CASE m.players[t] # NotCached \/ m.cache[t] # NotCached
  BY <1>1 DEF AskedPlayers, Unshown, SameWorld
<1>2. CASE ~(m.players[t] # NotCached \/ m.cache[t] # NotCached)
  <2>1. PICK s : s = InRangeOf(m, t)
    OBVIOUS
  <2>2. s \in SUBSET {Watcher} /\ (CanSee(m, t) => Watcher \in s)
    BY <2>1, InRangeRight DEF Ready
  <2>3. PICK n : n = [m EXCEPT !.players[t] = s]
    OBVIOUS
  <2>4. AskedPlayers(m, t) = n
    BY <1>2, <2>1, <2>3 DEF AskedPlayers
  <2>5. /\ n.top = m.top /\ n.down = m.down /\ n.who = m.who /\ n.hidden = m.hidden
        /\ n.view = m.view /\ n.lacking = m.lacking /\ n.cache = m.cache
        /\ n.players = [m.players EXCEPT ![t] = s]
        /\ n = [top |-> n.top, down |-> n.down, who |-> n.who, hidden |-> n.hidden,
                view |-> n.view, cache |-> n.cache, players |-> n.players, lacking |-> n.lacking]
    BY <2>3 DEF Ready, Shaped
  <2>6. Shaped(n)
    BY <2>2, <2>5 DEF Ready, Shaped
  <2>7. Unshown(m, n)
    BY <2>5 DEF Unshown, SameWorld
  <2>8. Placement(n) /\ \A u : CanSee(n, u) = CanSee(m, u)
    BY <2>7, WorldSeen DEF Unshown, Ready
  <2>9. \A u \in Spots : n.players[u] = IF u = t THEN s ELSE m.players[u]
    BY <2>5 DEF Ready, Shaped
  <2>10. CachesRight(n)
    BY <2>2, <2>5, <2>8, <2>9 DEF CachesRight, Ready
  <2> QED
    BY <2>4, <2>6, <2>7, <2>8, <2>10 DEF Ready
<1> QED
  BY <1>1, <1>2

\* n has the caches of m.
SameCaches(m, n) == n.cache = m.cache /\ n.players = m.players

\* The caches of the same world stay right.
LEMMA CachesStayRight ==
    ASSUME NEW m, NEW n, SameWorld(m, n), SameCaches(m, n), Ready(m), Shaped(n)
    PROVE  Ready(n)
<1>1. Placement(n) /\ \A u : CanSee(n, u) = CanSee(m, u)
  BY WorldSeen DEF Ready
<1> QED
  BY <1>1 DEF Ready, CachesRight, SameCaches

\* What a message changes.
LEMMA TellRight ==
    ASSUME NEW m, Shaped(m), NEW t \in Spots, NEW list, NEW tile, NEW n, n = Tell(m, list, t, tile)
    PROVE  /\ Shaped(n) /\ SameWorld(m, n) /\ SameCaches(m, n) /\ n.lacking = m.lacking
           /\ \A u \in Spots : n.view[u] = IF u = t /\ Watcher \in list /\ CanSee(m, t) THEN tile
                                           ELSE m.view[u]
<1>1. CASE Watcher \in list /\ CanSee(m, t)
  <2>1. n = [m EXCEPT !.view[t] = tile]
    BY <1>1 DEF Tell
  <2>2. /\ n.top = m.top /\ n.down = m.down /\ n.who = m.who /\ n.hidden = m.hidden
        /\ n.cache = m.cache /\ n.lacking = m.lacking /\ n.players = m.players
        /\ n.view = [m.view EXCEPT ![t] = tile]
        /\ n = [top |-> n.top, down |-> n.down, who |-> n.who, hidden |-> n.hidden,
                view |-> n.view, cache |-> n.cache, players |-> n.players, lacking |-> n.lacking]
    BY <2>1 DEF Shaped
  <2>3. n.view = [u \in Spots |-> IF u = t THEN tile ELSE m.view[u]]
    BY <2>2 DEF Shaped
  <2>4. n.view = [u \in Spots |-> n.view[u]]
    BY <2>3
  <2>5. Shaped(n)
    BY <2>2, <2>4 DEF Shaped
  <2> QED
    BY <1>1, <2>2, <2>3, <2>5 DEF SameWorld, SameCaches
<1>2. CASE ~(Watcher \in list /\ CanSee(m, t))
  <2>1. n = m
    BY <1>2 DEF Tell
  <2> QED
    BY <1>2, <2>1 DEF SameWorld, SameCaches
<1> QED
  BY <1>1, <1>2

\* What a description changes.
LEMMA DescribedRight ==
    ASSUME NEW m, Shaped(m), NEW tiles, NEW n, n = Described(m, tiles)
    PROVE  /\ Shaped(n) /\ SameWorld(m, n) /\ SameCaches(m, n) /\ n.lacking = m.lacking \ tiles
           /\ \A u \in Spots : n.view[u] = IF u \in tiles THEN TileDescription(m, u) ELSE m.view[u]
<1>1. PICK f : f = [u \in Spots |-> IF u \in tiles THEN TileDescription(m, u) ELSE m.view[u]]
  OBVIOUS
<1>2. n = [m EXCEPT !.view = f, !.lacking = m.lacking \ tiles]
  BY <1>1 DEF Described
<1>3. /\ n.top = m.top /\ n.down = m.down /\ n.who = m.who /\ n.hidden = m.hidden
      /\ n.cache = m.cache /\ n.lacking = m.lacking \ tiles /\ n.players = m.players
      /\ n.view = f
      /\ n = [top |-> n.top, down |-> n.down, who |-> n.who, hidden |-> n.hidden,
              view |-> n.view, cache |-> n.cache, players |-> n.players, lacking |-> n.lacking]
  BY <1>2 DEF Shaped
<1>4. n.view = [u \in Spots |-> n.view[u]]
  BY <1>1, <1>3
<1>5. Shaped(n)
  BY <1>3, <1>4 DEF Shaped
<1> QED
  BY <1>1, <1>3, <1>5 DEF SameWorld, SameCaches

\* What the client forgets.
LEMMA OnlyInSightRight ==
    ASSUME NEW m, Shaped(m), NEW n, n = OnlyInSight(m)
    PROVE  /\ Shaped(n) /\ SameWorld(m, n) /\ SameCaches(m, n)
           /\ n.lacking = {t \in m.lacking : CanSee(m, t)}
           /\ \A u \in Spots : n.view[u] = IF CanSee(m, u) THEN m.view[u] ELSE <<>>
<1>1. PICK f : f = [u \in Spots |-> IF CanSee(m, u) THEN m.view[u] ELSE <<>>]
  OBVIOUS
<1>2. n = [m EXCEPT !.view = f, !.lacking = {t \in m.lacking : CanSee(m, t)}]
  BY <1>1 DEF OnlyInSight
<1>3. /\ n.top = m.top /\ n.down = m.down /\ n.who = m.who /\ n.hidden = m.hidden
      /\ n.cache = m.cache /\ n.lacking = {t \in m.lacking : CanSee(m, t)} /\ n.players = m.players
      /\ n.view = f
      /\ n = [top |-> n.top, down |-> n.down, who |-> n.who, hidden |-> n.hidden,
              view |-> n.view, cache |-> n.cache, players |-> n.players, lacking |-> n.lacking]
  BY <1>2 DEF Shaped
<1>4. n.view = [u \in Spots |-> n.view[u]]
  BY <1>1, <1>3
<1>5. Shaped(n)
  BY <1>3, <1>4 DEF Shaped
<1> QED
  BY <1>1, <1>3, <1>5 DEF SameWorld, SameCaches

\* Emptied caches are right.
LEMMA ClearRight ==
    ASSUME NEW m, Shaped(m), Placement(m), NEW n, n = ClearSpectatorCache(m)
    PROVE  Ready(n) /\ Unshown(m, n)
<1>1. PICK f : f = [u \in Spots |-> NotCached]
  OBVIOUS
<1>2. n = [m EXCEPT !.cache = f, !.players = f]
  BY <1>1 DEF ClearSpectatorCache
<1>3. /\ n.top = m.top /\ n.down = m.down /\ n.who = m.who /\ n.hidden = m.hidden
      /\ n.cache = f /\ n.lacking = m.lacking /\ n.players = f /\ n.view = m.view
      /\ n = [top |-> n.top, down |-> n.down, who |-> n.who, hidden |-> n.hidden,
              view |-> n.view, cache |-> n.cache, players |-> n.players, lacking |-> n.lacking]
  BY <1>2 DEF Shaped
<1>4. f \in [Spots -> (SUBSET {Watcher}) \cup {NotCached}]
  BY <1>1
<1>5. Shaped(n)
  BY <1>3, <1>4 DEF Shaped
<1>6. Unshown(m, n)
  BY <1>3 DEF Unshown, SameWorld
<1>7. Placement(n)
  BY <1>6, WorldSeen DEF Unshown
<1>8. CachesRight(n)
  BY <1>1, <1>3 DEF CachesRight
<1> QED
  BY <1>5, <1>6, <1>7, <1>8 DEF Ready

-----------------------------------------------------------------------------

\* The client shows the tile u as it is, unless it was not told all of it.
AgreesAt(m, u) ==
    u \in m.lacking \/ ~CanSee(m, u) \/ m.view[u] = TileDescription(m, u)

Right(m) == Ready(m) /\ \A u \in Spots : AgreesAt(m, u)

\* A tile that does not change, shown as it was.
LEMMA AgreesStill ==
    ASSUME NEW m, NEW n, SameWorld(m, n), NEW u \in Spots, AgreesAt(m, u),
           n.view[u] = m.view[u], u \in m.lacking => u \in n.lacking
    PROVE  AgreesAt(n, u)
<1>1. CanSee(n, u) = CanSee(m, u) /\ TileDescription(n, u) = TileDescription(m, u)
  BY WorldSeen
<1> QED
  BY <1>1 DEF AgreesAt

\* To change the caches does no harm.
LEMMA UnshownRight ==
    ASSUME NEW m, NEW n, Right(m), Ready(n), Unshown(m, n)
    PROVE  Right(n)
<1>1. ASSUME NEW u \in Spots PROVE AgreesAt(n, u)
  <2>1. AgreesAt(m, u) /\ SameWorld(m, n) /\ n.view[u] = m.view[u] /\ n.lacking = m.lacking
    BY DEF Right, Unshown
  <2> QED
    BY <2>1, AgreesStill
<1> QED
  BY <1>1 DEF Right

\* After something has gone the tile is described anew, if something may have
\* come into the last place.
LEMMA PostRemoveRight ==
    ASSUME NEW m, Ready(m), NEW t \in Spots, \A u \in Spots : u # t => AgreesAt(m, u),
           ThingCount(m, t) <= Shown - 2 => AgreesAt(m, t)
    PROVE  Right(PostRemove(m, t)) /\ SameWorld(m, PostRemove(m, t))
<1>1. PICK q : q = AskedPlayers(m, t)
  OBVIOUS
<1>2. Ready(q) /\ Unshown(m, q) /\ SameWorld(m, q)
  BY <1>1, AskedPlayersRight DEF Unshown
<1>3. ThingCount(m, t) \in Nat /\ Shown \in Nat
  BY ShownCount, TileViewsAssumption DEF Ready
<1>4. \A u \in Spots : u # t => AgreesAt(q, u)
  BY <1>2, AgreesStill DEF Unshown
<1>5. CASE ThingCount(m, t) > Shown - 2 /\ Watcher \in PlayerSpectators(m, t) /\ CanSee(m, t)
  <2>1. PICK n : n = Described(q, {t})
    OBVIOUS
  <2>2. PostRemove(m, t) = n
    BY <1>1, <1>5, <2>1 DEF PostRemove
  <2>3. /\ Shaped(n) /\ SameWorld(q, n) /\ SameCaches(q, n) /\ n.lacking = q.lacking \ {t}
        /\ \A u \in Spots : n.view[u] = IF u \in {t} THEN TileDescription(q, u) ELSE q.view[u]
    BY <1>2, <2>1, DescribedRight DEF Ready
  <2>4. Ready(n)
    BY <1>2, <2>3, CachesStayRight
  <2>5. ASSUME NEW u \in Spots, u # t PROVE AgreesAt(n, u)
    <3>1. AgreesAt(q, u) /\ n.view[u] = q.view[u] /\ (u \in q.lacking => u \in n.lacking)
      BY <1>4, <2>3, <2>5
    <3> QED
      BY <2>3, <3>1, AgreesStill
  <2>6. AgreesAt(n, t)
    <3>1. TileDescription(n, t) = TileDescription(q, t)
      BY <2>3, WorldSeen
    <3>2. n.view[t] = TileDescription(q, t)
      BY <2>3
    <3> QED
      BY <3>1, <3>2 DEF AgreesAt
  <2>7. SameWorld(m, n)
    BY <1>2, <2>3 DEF SameWorld
  <2> QED
    BY <2>2, <2>4, <2>5, <2>6, <2>7 DEF Right
<1>6. CASE ~(ThingCount(m, t) > Shown - 2 /\ Watcher \in PlayerSpectators(m, t) /\ CanSee(m, t))
  <2>1. PostRemove(m, t) = q
    BY <1>1, <1>6 DEF PostRemove
  <2>2. AgreesAt(m, t)
    <3>1. CanSee(m, t) => Watcher \in PlayerSpectators(m, t)
      <4>1. {} \in SUBSET {Watcher}
        OBVIOUS
      <4> QED
        BY <4>1, SpectatorsRight
    <3>2. CASE ~CanSee(m, t)
      BY <3>2 DEF AgreesAt
    <3>3. CASE ThingCount(m, t) <= Shown - 2
      BY <3>3
    <3> QED
      BY <1>3, <1>6, <3>1, <3>2, <3>3
  <2>3. AgreesAt(q, t)
    BY <1>2, <2>2, AgreesStill DEF Unshown
  <2> QED
    BY <1>2, <1>4, <2>1, <2>3 DEF Right
<1> QED
  BY <1>5, <1>6

\* Tile::postAddNotification does no harm.
LEMMA PostAddRight ==
    ASSUME NEW m, Right(m), NEW t \in Spots
    PROVE  Right(PostAdd(m, t)) /\ SameWorld(m, PostAdd(m, t))
<1>1. Ready(m)
  BY DEF Right
<1>2. Ready(AskedPlayers(m, t)) /\ Unshown(m, AskedPlayers(m, t))
  BY <1>1, AskedPlayersRight
<1>3. PICK q : q = AskedPlayers(m, t)
  OBVIOUS
<1>4. Right(q) /\ SameWorld(m, q)
  BY <1>2, <1>3, UnshownRight DEF Unshown
<1> QED
  BY <1>3, <1>4 DEF PostAdd

-----------------------------------------------------------------------------
(***************************************************************************)
(* TileViews: a tile before and after a message.                           *)
(***************************************************************************)
\* A tile that has not changed.
LEMMA SameAgrees ==
    ASSUME NEW m, NEW n, NEW u, AgreesAt(m, u), AllShown(n, u) = AllShown(m, u),
           CanSee(n, u) => CanSee(m, u), n.view[u] = m.view[u], u \in m.lacking => u \in n.lacking
    PROVE  AgreesAt(n, u)
<1>1. TileDescription(n, u) = TileDescription(m, u)
  BY DEF TileDescription
<1> QED
  BY <1>1 DEF AgreesAt

\* A tile to which x has come.
LEMMA AddedAgrees ==
    ASSUME NEW m, NEW n, NEW t, NEW x \in Things, NEW p \in Nat, p > 0,
           PutInto(Things, AllShown(m, t), AllShown(n, t), p, x), AgreesAt(m, t),
           CanSee(n, t) => CanSee(m, t), t \in m.lacking => t \in n.lacking,
           CanSee(n, t) => n.view[t] = IF Within(p) = 0 THEN m.view[t]
                                       ELSE Inserted(m.view[t], p, x)
    PROVE  AgreesAt(n, t)
<1>1. /\ Within(p) = 0 => TileDescription(n, t) = TileDescription(m, t)
      /\ Within(p) # 0 => TileDescription(n, t) = Inserted(TileDescription(m, t), p, x)
  BY ShownMore
<1>2. CASE ~CanSee(n, t) \/ t \in m.lacking
  BY <1>2 DEF AgreesAt
<1>3. CASE CanSee(n, t) /\ t \notin m.lacking
  <2>1. m.view[t] = TileDescription(m, t)
    BY <1>3 DEF AgreesAt
  <2>2. n.view[t] = TileDescription(n, t)
    BY <1>1, <1>3, <2>1
  <2> QED
    BY <2>2 DEF AgreesAt
<1> QED
  BY <1>2, <1>3

\* A tile that x has left, if nothing was beyond the tenth place.
LEMMA TakenAgrees ==
    ASSUME NEW m, NEW n, NEW t, NEW x \in Things, NEW p \in Nat, p > 0,
           PutInto(Things, AllShown(n, t), AllShown(m, t), p, x), AgreesAt(m, t),
           CanSee(n, t) => CanSee(m, t), t \in m.lacking => t \in n.lacking,
           Within(p) = 0 \/ Len(AllShown(m, t)) <= Shown,
           CanSee(n, t) => n.view[t] = IF Within(p) = 0 THEN m.view[t] ELSE Erased(m.view[t], p)
    PROVE  AgreesAt(n, t)
<1>1. /\ Within(p) = 0 => TileDescription(n, t) = TileDescription(m, t)
      /\ Within(p) # 0 /\ Len(AllShown(m, t)) <= Shown
           => TileDescription(n, t) = Erased(TileDescription(m, t), p)
  BY ShownMore
<1>2. CASE ~CanSee(n, t) \/ t \in m.lacking
  BY <1>2 DEF AgreesAt
<1>3. CASE CanSee(n, t) /\ t \notin m.lacking
  <2>1. m.view[t] = TileDescription(m, t)
    BY <1>3 DEF AgreesAt
  <2>2. n.view[t] = TileDescription(n, t)
    BY <1>1, <1>3, <2>1
  <2> QED
    BY <2>2 DEF AgreesAt
<1> QED
  BY <1>2, <1>3

\* n shows the creature c behind the others on the tile t, and m does not.
CreatureLast(m, n, t, c) ==
    n.top[t] = m.top[t] /\ n.down[t] = m.down[t] /\ Seen(n, t) = Append(Seen(m, t), c)

\* The ground, the items on top and the creatures are no items further down.
LEMMA UpperNotDown ==
    ASSUME NEW m, Shaped(m), NEW t \in Spots,
           NEW r, r = (<<Soil>> \o m.top[t]) \o Seen(m, t)
    PROVE  r \in Seq(Things) /\ \A i \in 1..Len(r) : r[i] \notin DownItems
<1>1. Soil \notin DownItems /\ TopItems \cap DownItems = {} /\ Walkers \cap DownItems = {}
  BY TileViewsAssumption
<1>2. PICK K : K = ({Soil} \cup TopItems) \cup Walkers
  OBVIOUS
<1>3. Soil \in K /\ TopItems \subseteq K /\ Walkers \subseteq K /\ K \subseteq Things
  BY <1>2 DEF Things
<1>4. <<Soil>> \in Seq(K)
  BY <1>3, OneLong
<1>5. m.top[t] \in Seq(TopItems) /\ Seen(m, t) \in Seq(Walkers)
  BY ShownOf
<1>6. m.top[t] \in Seq(K) /\ Seen(m, t) \in Seq(K)
  BY <1>3, <1>5
<1>7. PICK h : h = <<Soil>> \o m.top[t]
  OBVIOUS
<1>8. h \in Seq(K)
  BY <1>4, <1>6, <1>7
<1>9. r \in Seq(K)
  BY <1>6, <1>7, <1>8
<1>10. \A i \in 1..Len(r) : r[i] \in K
  BY <1>9
<1>11. \A x \in K : x \notin DownItems
  BY <1>1, <1>2
<1>12. r \in Seq(Things)
  BY <1>3, <1>9
<1> QED
  BY <1>10, <1>11, <1>12

\* The client that has it come behind the others shows it where it is.
LEMMA LastShown ==
    ASSUME NEW m, NEW n, Shaped(m), Shaped(n), NEW t \in Spots, NEW c \in Walkers,
           CreatureLast(m, n, t, c)
    PROVE  TileDescription(n, t) = Arrived(TileDescription(m, t), c)
<1>1. PICK r : r = (<<Soil>> \o m.top[t]) \o Seen(m, t)
  OBVIOUS
<1>2. r \in Seq(Things) /\ \A i \in 1..Len(r) : r[i] \notin DownItems
  BY <1>1, UpperNotDown
<1>3. PICK d : d = m.down[t]
  OBVIOUS
<1>4. d \in Seq(DownItems) /\ d \in Seq(Things) /\ Seen(m, t) \in Seq(Things) /\ m.top[t] \in Seq(Things)
  BY <1>3, ShownOf
<1>5. \A i \in 1..Len(d) : d[i] \in DownItems
  BY <1>4
<1>6. c \in Things
  BY DEF Things
<1>7. Cut((r \o <<c>>) \o d) = Arrived(Cut(r \o d), c)
  BY <1>2, <1>4, <1>5, <1>6, ArrivedShown
<1>8. AllShown(m, t) = r \o d
  BY <1>1, <1>3, ShownOf DEF Four
<1>9. PICK s : s = Seen(m, t)
  OBVIOUS
<1>10. Append(s, c) = s \o <<c>>
  BY <1>4, <1>6, <1>9
<1>11. PICK h : h = <<Soil>> \o m.top[t]
  OBVIOUS
<1>12. h \in Seq(Things) /\ s \in Seq(Things) /\ <<c>> \in Seq(Things)
  <2>1. PICK e : e = <<Soil>> /\ e \in Seq(Things)
    BY OneLong DEF Things
  <2>2. PICK g \in Seq(Things) : g = m.top[t]
    BY <1>4
  <2>3. h = e \o g
    BY <1>11, <2>1, <2>2
  <2>4. h \in Seq(Things)
    BY <2>1, <2>3, JoinedLists
  <2>5. <<c>> \in Seq(Things)
    BY <1>6, OneLong
  <2> QED
    BY <1>4, <1>9, <2>4, <2>5
<1>13. h \o (s \o <<c>>) = (h \o s) \o <<c>>
  BY <1>12
<1>14. Four(<<Soil>>, n.top[t], Seen(n, t), n.down[t]) = (h \o Append(s, c)) \o d
  BY <1>3, <1>9, <1>11 DEF Four, CreatureLast
<1>15. AllShown(n, t) = (r \o <<c>>) \o d
  BY <1>1, <1>9, <1>10, <1>11, <1>13, <1>14, ShownOf
<1> QED
  BY <1>7, <1>8, <1>15 DEF TileDescription

\* A tile to which it came so is right.
LEMMA ArrivedAgrees ==
    ASSUME NEW m, NEW n, Shaped(m), Shaped(n), NEW t \in Spots, NEW c \in Walkers,
           CreatureLast(m, n, t, c), AgreesAt(m, t),
           CanSee(n, t) => CanSee(m, t), t \in m.lacking => t \in n.lacking,
           CanSee(n, t) => n.view[t] = Arrived(m.view[t], c)
    PROVE  AgreesAt(n, t)
<1>1. TileDescription(n, t) = Arrived(TileDescription(m, t), c)
  BY LastShown
<1> QED
  BY <1>1 DEF AgreesAt

-----------------------------------------------------------------------------
(***************************************************************************)
(* TileViews: items come and go.                                           *)
(***************************************************************************)
\* An item on top goes before the first that is not below it.
LEMMA OnTopPuts ==
    ASSUME NEW list \in Seq(TopItems), NEW i \in TopItems
    PROVE  \E k : PutInto(TopItems, list, OnTop(list, i), k, i)
<1>1. PICK l \in Nat : l = Len(list)
  OBVIOUS
<1>2. PICK I : I = {k \in 1..l : Order[i] <= Order[list[k]]}
  OBVIOUS
<1>3. I \in SUBSET Nat
  BY <1>2
<1>4. PICK k : k = SelectInSeq(list, LAMBDA j : Order[i] <= Order[j])
  OBVIOUS
<1>5. CASE I = {}
  <2>1. k = 0
    BY <1>1, <1>2, <1>4, <1>5 DEF SelectInSeq
  <2>2. OnTop(list, i) = Append(list, i)
    BY <1>4, <2>1 DEF OnTop
  <2> QED
    BY <2>2, PutLast
<1>6. CASE I # {}
  <2>1. PICK x \in I : \A y \in I : x <= y
    BY <1>3, <1>6, LeastElement
  <2>2. k = (CHOOSE x1 \in I : \A y \in I : x1 <= y)
    BY <1>1, <1>2, <1>4, <1>6 DEF SelectInSeq, Min
  <2>3. k \in I
    BY <2>1, <2>2
  <2>4. k \in 1..(l + 1) /\ k # 0
    BY <1>2, <2>3
  <2>5. OnTop(list, i) = InsertAt(list, k, i)
    BY <1>4, <2>4 DEF OnTop
  <2>6. PutInto(TopItems, list, InsertAt(list, k, i), k, i)
    BY <1>1, <2>4, InsertAtPuts
  <2> QED
    BY <2>5, <2>6
<1> QED
  BY <1>5, <1>6

\* n differs from m in the items of the tile t, at most.
SameBut(m, n, t) ==
    /\ n.who = m.who /\ n.hidden = m.hidden /\ n.view = m.view /\ n.lacking = m.lacking
    /\ SameCaches(m, n)
    /\ \A u \in Spots : u # t => n.top[u] = m.top[u] /\ n.down[u] = m.down[u]

WithTop(m, t, s) == [m EXCEPT !.top[t] = s]

WithDown(m, t, d) == [m EXCEPT !.down[t] = d]

WithBoth(m, t, s, d) == [m EXCEPT !.top[t] = s, !.down[t] = d]

\* What such a change of the items leaves.
LEMMA TopBecomes ==
    ASSUME NEW m, Shaped(m), NEW t \in Spots, NEW s \in Seq(TopItems),
           NEW n, n = WithTop(m, t, s)
    PROVE  Shaped(n) /\ SameBut(m, n, t) /\ n.top[t] = s /\ n.down[t] = m.down[t]
<1>1. /\ n.top = [m.top EXCEPT ![t] = s] /\ n.down = m.down /\ n.who = m.who
      /\ n.hidden = m.hidden /\ n.view = m.view /\ n.cache = m.cache
      /\ n.lacking = m.lacking /\ n.players = m.players
      /\ n = [top |-> n.top, down |-> n.down, who |-> n.who, hidden |-> n.hidden,
              view |-> n.view, cache |-> n.cache, players |-> n.players, lacking |-> n.lacking]
  BY DEF Shaped, WithTop
<1>2. m.top \in [Spots -> Seq(TopItems)]
  BY DEF Shaped
<1>3. n.top \in [Spots -> Seq(TopItems)] /\ n.top[t] = s /\ \A u \in Spots : u # t => n.top[u] = m.top[u]
  BY <1>1, <1>2
<1>4. Shaped(n)
  BY <1>1, <1>3 DEF Shaped
<1> QED
  BY <1>1, <1>3, <1>4 DEF SameBut, SameCaches

\* The same of the other items.
LEMMA DownBecomes ==
    ASSUME NEW m, Shaped(m), NEW t \in Spots, NEW s \in Seq(DownItems),
           NEW n, n = WithDown(m, t, s)
    PROVE  Shaped(n) /\ SameBut(m, n, t) /\ n.top[t] = m.top[t] /\ n.down[t] = s
<1>1. /\ n.down = [m.down EXCEPT ![t] = s] /\ n.top = m.top /\ n.who = m.who
      /\ n.hidden = m.hidden /\ n.view = m.view /\ n.cache = m.cache
      /\ n.lacking = m.lacking /\ n.players = m.players
      /\ n = [top |-> n.top, down |-> n.down, who |-> n.who, hidden |-> n.hidden,
              view |-> n.view, cache |-> n.cache, players |-> n.players, lacking |-> n.lacking]
  BY DEF Shaped, WithDown
<1>2. m.down \in [Spots -> Seq(DownItems)]
  BY DEF Shaped
<1>3. n.down \in [Spots -> Seq(DownItems)] /\ n.down[t] = s /\ \A u \in Spots : u # t => n.down[u] = m.down[u]
  BY <1>1, <1>2
<1>4. Shaped(n)
  BY <1>1, <1>3 DEF Shaped
<1> QED
  BY <1>1, <1>3, <1>4 DEF SameBut, SameCaches

\* The same of both.
LEMMA BothBecome ==
    ASSUME NEW m, Shaped(m), NEW t \in Spots, NEW s \in Seq(TopItems), NEW d \in Seq(DownItems),
           NEW n, n = WithBoth(m, t, s, d)
    PROVE  Shaped(n) /\ SameBut(m, n, t) /\ n.top[t] = s /\ n.down[t] = d
<1>1. /\ n.top = [m.top EXCEPT ![t] = s] /\ n.down = [m.down EXCEPT ![t] = d] /\ n.who = m.who
      /\ n.hidden = m.hidden /\ n.view = m.view /\ n.cache = m.cache
      /\ n.lacking = m.lacking /\ n.players = m.players
      /\ n = [top |-> n.top, down |-> n.down, who |-> n.who, hidden |-> n.hidden,
              view |-> n.view, cache |-> n.cache, players |-> n.players, lacking |-> n.lacking]
  BY DEF Shaped, WithBoth
<1>2. m.top \in [Spots -> Seq(TopItems)] /\ m.down \in [Spots -> Seq(DownItems)]
  BY DEF Shaped
<1>3. n.top \in [Spots -> Seq(TopItems)] /\ n.top[t] = s /\ \A u \in Spots : u # t => n.top[u] = m.top[u]
  BY <1>1, <1>2
<1>4. n.down \in [Spots -> Seq(DownItems)] /\ n.down[t] = d /\ \A u \in Spots : u # t => n.down[u] = m.down[u]
  BY <1>1, <1>2
<1>5. Shaped(n)
  BY <1>1, <1>3, <1>4 DEF Shaped
<1> QED
  BY <1>1, <1>3, <1>4, <1>5 DEF SameBut, SameCaches

\* The other tiles stay as they are.
LEMMA OthersStay ==
    ASSUME NEW m, NEW n, Ready(m), Shaped(n), NEW t \in Spots, SameBut(m, n, t),
           NoDuplicate(n.top[t]), NoDuplicate(n.down[t])
    PROVE  /\ Ready(n) /\ Seen(n, t) = Seen(m, t)
           /\ \A u \in Spots : /\ CanSee(n, u) = CanSee(m, u)
                               /\ u # t => AllShown(n, u) = AllShown(m, u)
                               /\ u # t /\ AgreesAt(m, u) => AgreesAt(n, u)
<1>1. \A c : TileOfCreature(n, c) = TileOfCreature(m, c)
  BY DEF TileOfCreature, SameBut
<1>2. \A u : CanSee(n, u) = CanSee(m, u)
  BY <1>1 DEF CanSee
<1>3. \A u : Seen(n, u) = Seen(m, u)
  BY DEF Seen, SameBut
<1>4. \A u \in Spots : u # t => AllShown(n, u) = AllShown(m, u)
  BY <1>3 DEF AllShown, SameBut
<1>5. \A u \in Spots : NoDuplicate(n.top[u]) /\ NoDuplicate(n.down[u]) /\ NoDuplicate(n.who[u])
  BY DEF SameBut, Ready, Placement
<1>6. Placement(n)
  BY <1>5 DEF SameBut, Ready, Placement
<1>7. CachesRight(n)
  BY <1>2 DEF SameBut, SameCaches, Ready, CachesRight
<1>8. ASSUME NEW u \in Spots, u # t, AgreesAt(m, u) PROVE AgreesAt(n, u)
  <2>1. n.view[u] = m.view[u] /\ n.lacking = m.lacking
    BY DEF SameBut
  <2> QED
    BY <1>2, <1>4, <1>8, <2>1, SameAgrees
<1> QED
  BY <1>2, <1>3, <1>4, <1>6, <1>7, <1>8 DEF Ready

\* The item i is on the tile once.
LEMMA MoreNotTwice ==
    ASSUME NEW m, NEW n, Shaped(m), Shaped(n), NEW t \in Spots, NEW i, ItemMore(m, n, t, i)
    PROVE  /\ NoDuplicate(n.top[t]) <=> NoDuplicate(m.top[t])
           /\ NoDuplicate(n.down[t]) <=> NoDuplicate(m.down[t])
           /\ \A u : In(u, n.top[t]) \/ In(u, n.down[t])
                     <=> u = i \/ In(u, m.top[t]) \/ In(u, m.down[t])
<1>1. CASE i \in TopItems
  <2>1. ~In(i, m.top[t]) /\ n.down[t] = m.down[t]
    BY <1>1, TileViewsAssumption DEF ItemMore
  <2>2. PICK k : PutInto(TopItems, m.top[t], n.top[t], k, i)
    BY <1>1, TileViewsAssumption DEF ItemMore
  <2>3. /\ NoDuplicate(m.top[t]) <=> NoDuplicate(n.top[t])
        /\ \A u : In(u, n.top[t]) <=> u = i \/ In(u, m.top[t])
    BY <1>1, <2>1, <2>2, PutPlaceOf
  <2> QED
    BY <2>1, <2>3
<1>2. CASE i \in DownItems
  <2>1. ~In(i, m.down[t]) /\ n.top[t] = m.top[t]
    BY <1>2, TileViewsAssumption DEF ItemMore
  <2>2. PICK k : PutInto(DownItems, m.down[t], n.down[t], k, i)
    BY <1>2, TileViewsAssumption DEF ItemMore
  <2>3. /\ NoDuplicate(m.down[t]) <=> NoDuplicate(n.down[t])
        /\ \A u : In(u, n.down[t]) <=> u = i \/ In(u, m.down[t])
    BY <1>2, <2>1, <2>2, PutPlaceOf
  <2> QED
    BY <2>1, <2>3
<1> QED
  BY <1>1, <1>2 DEF ItemMore

\* Tile::onAddTileItem tells of an item that has been laid.
LEMMA AddedItemRight ==
    ASSUME NEW m, NEW n, Right(m), Shaped(n), NEW t \in Spots, NEW i, SameBut(m, n, t),
           ItemMore(m, n, t, i)
    PROVE  Right(OnAddTileItem(n, t, i)) /\ SameWorld(n, OnAddTileItem(n, t, i))
<1>1. Shaped(m) /\ Ready(m) /\ NoDuplicate(m.top[t]) /\ NoDuplicate(m.down[t])
  BY DEF Right, Ready, Placement
<1>2. NoDuplicate(n.top[t]) /\ NoDuplicate(n.down[t])
  BY <1>1, MoreNotTwice
<1>3. /\ Ready(n)
      /\ \A u \in Spots : /\ CanSee(n, u) = CanSee(m, u)
                          /\ u # t /\ AgreesAt(m, u) => AgreesAt(n, u)
  BY <1>1, <1>2, OthersStay
<1>4. PICK p \in Nat : /\ PutInto(Things, AllShown(m, t), AllShown(n, t), p, i)
                       /\ StackposOfItem(n, t, i) = Within(p) /\ p > 0 /\ i \in Things
  BY <1>1, ItemPut
<1>5. PICK list : list = Spectators(n, t, {})
  OBVIOUS
<1>6. {} \in SUBSET {Watcher}
  OBVIOUS
<1>7. CanSee(n, t) => Watcher \in list
  BY <1>3, <1>5, <1>6, SpectatorsRight
<1>8. PICK q : q = Asked(n, t, {})
  OBVIOUS
<1>9. Ready(q) /\ Unshown(n, q) /\ SameWorld(n, q)
  BY <1>3, <1>6, <1>8, AskedRight DEF Unshown
<1>10. \A u \in Spots : u # t => AgreesAt(q, u)
  <2>1. ASSUME NEW u \in Spots, u # t PROVE AgreesAt(q, u)
    <3>1. AgreesAt(n, u)
      BY <1>3, <2>1 DEF Right
    <3> QED
      BY <1>9, <3>1, AgreesStill DEF Unshown
  <2> QED
    BY <2>1
<1>11. CanSee(q, t) = CanSee(n, t) /\ AllShown(q, t) = AllShown(n, t)
  BY <1>9, WorldSeen
<1>12. q.view[t] = m.view[t] /\ q.lacking = m.lacking /\ n.view[t] = m.view[t]
  BY <1>9 DEF Unshown, SameBut
<1>13. AgreesAt(m, t) /\ CanSee(q, t) = CanSee(m, t)
  BY <1>3, <1>11 DEF Right
<1>14. CASE Within(p) = 0
  <2>1. OnAddTileItem(n, t, i) = q
    BY <1>4, <1>8, <1>14 DEF OnAddTileItem
  <2>2. AgreesAt(q, t)
    BY <1>4, <1>11, <1>12, <1>13, <1>14, AddedAgrees
  <2> QED
    BY <1>9, <1>10, <2>1, <2>2 DEF Right
<1>15. CASE Within(p) # 0
  <2>1. PICK r : r = Tell(q, list, t, Inserted(m.view[t], p, i))
    OBVIOUS
  <2>2. Within(p) = p
    BY <1>15 DEF Within
  <2>3. OnAddTileItem(n, t, i) = r
    BY <1>4, <1>5, <1>8, <1>12, <1>15, <2>1, <2>2 DEF OnAddTileItem
  <2>4. /\ Shaped(r) /\ SameWorld(q, r) /\ SameCaches(q, r) /\ r.lacking = q.lacking
        /\ \A u \in Spots : r.view[u] = IF u = t /\ Watcher \in list /\ CanSee(q, t)
                                        THEN Inserted(m.view[t], p, i) ELSE q.view[u]
    <3>1. Shaped(q)
      BY <1>9 DEF Ready
    <3> QED
      BY <2>1, <3>1, TellRight
  <2>5. Ready(r)
    BY <1>9, <2>4, CachesStayRight
  <2>6. ASSUME NEW u \in Spots, u # t PROVE AgreesAt(r, u)
    <3>1. AgreesAt(q, u) /\ r.view[u] = q.view[u]
      BY <1>10, <2>4, <2>6
    <3> QED
      BY <2>4, <3>1, AgreesStill
  <2>7. AllShown(r, t) = AllShown(q, t) /\ CanSee(r, t) = CanSee(q, t)
    BY <2>4, WorldSeen
  <2>8. CanSee(r, t) => r.view[t] = Inserted(m.view[t], p, i)
    BY <1>7, <1>11, <2>4, <2>7
  <2>9. AgreesAt(r, t)
    BY <1>4, <1>11, <1>12, <1>13, <1>15, <2>4, <2>7, <2>8, AddedAgrees
  <2>10. SameWorld(n, r)
    BY <1>9, <2>4 DEF SameWorld
  <2> QED
    BY <2>3, <2>5, <2>6, <2>9, <2>10 DEF Right
<1> QED
  BY <1>14, <1>15

\* The removal of an item, told, and then Tile::postRemoveNotification.
LEMMA TakenItemRight ==
    ASSUME NEW m, NEW n, Right(m), Shaped(n), NEW t \in Spots, NEW i, SameBut(m, n, t),
           ItemMore(n, m, t, i), NEW list, CanSee(m, t) => Watcher \in list, NEW k,
           k = StackposOfItem(m, t, i), NEW r,
           r = IF k = 0 THEN n ELSE Tell(n, list, t, Erased(m.view[t], k))
    PROVE  Right(PostRemove(r, t)) /\ SameWorld(n, PostRemove(r, t))
<1>1. Shaped(m) /\ Ready(m) /\ NoDuplicate(m.top[t]) /\ NoDuplicate(m.down[t])
  BY DEF Right, Ready, Placement
<1>2. NoDuplicate(n.top[t]) /\ NoDuplicate(n.down[t])
  BY <1>1, MoreNotTwice
<1>3. /\ Ready(n)
      /\ \A u \in Spots : /\ CanSee(n, u) = CanSee(m, u)
                          /\ u # t /\ AgreesAt(m, u) => AgreesAt(n, u)
  BY <1>1, <1>2, OthersStay
<1>4. PICK p \in Nat : /\ PutInto(Things, AllShown(n, t), AllShown(m, t), p, i)
                       /\ StackposOfItem(m, t, i) = Within(p) /\ p > 0 /\ i \in Things
  BY <1>1, ItemPut
<1>5. \A u \in Spots : u # t => AgreesAt(n, u)
  BY <1>3 DEF Right
<1>6. AgreesAt(m, t) /\ n.view = m.view /\ n.lacking = m.lacking
  BY DEF Right, SameBut
<1>7. ThingCount(n, t) <= Shown - 2 => Len(AllShown(m, t)) <= Shown
  <2>1. Len(AllShown(n, t)) \in Nat /\ Len(AllShown(m, t)) = Len(AllShown(n, t)) + 1
    BY <1>4, PutPlaces
  <2>2. ThingCount(n, t) \in Nat /\ Len(AllShown(n, t)) <= ThingCount(n, t)
    BY ShownCount
  <2>3. Shown \in Nat
    BY TileViewsAssumption
  <2> QED
    BY <2>1, <2>2, <2>3
<1>8. Ready(r) /\ SameWorld(n, r) /\ r.lacking = n.lacking
      /\ \A u \in Spots : r.view[u] = IF u = t /\ k # 0 /\ Watcher \in list /\ CanSee(n, t)
                                      THEN Erased(m.view[t], k) ELSE n.view[u]
  <2>1. CASE k = 0
    BY <1>3, <2>1 DEF SameWorld
  <2>2. CASE k # 0
    <3>1. PICK tile : tile = Erased(m.view[t], k)
      OBVIOUS
    <3>2. r = Tell(n, list, t, tile)
      BY <2>2, <3>1
    <3>3. /\ Shaped(r) /\ SameWorld(n, r) /\ SameCaches(n, r) /\ r.lacking = n.lacking
          /\ \A u \in Spots : r.view[u] = IF u = t /\ Watcher \in list /\ CanSee(n, t)
                                          THEN tile ELSE n.view[u]
      BY <3>2, TellRight
    <3>4. Ready(r)
      BY <1>3, <3>3, CachesStayRight
    <3> QED
      BY <2>2, <3>1, <3>3, <3>4
  <2> QED
    BY <2>1, <2>2
<1>9. AllShown(r, t) = AllShown(n, t) /\ CanSee(r, t) = CanSee(n, t) /\ ThingCount(r, t) = ThingCount(n, t)
  BY <1>8, WorldSeen
<1>10. ASSUME NEW u \in Spots, u # t PROVE AgreesAt(r, u)
  <2>1. AgreesAt(n, u) /\ r.view[u] = n.view[u]
    BY <1>5, <1>8, <1>10
  <2> QED
    BY <1>8, <2>1, AgreesStill
<1>11. ASSUME ThingCount(r, t) <= Shown - 2 PROVE AgreesAt(r, t)
  <2>1. Len(AllShown(m, t)) <= Shown
    BY <1>7, <1>9, <1>11
  <2>2. CanSee(r, t) = CanSee(m, t)
    BY <1>3, <1>9
  <2>3. k = Within(p) /\ (k # 0 => k = p)
    BY <1>4 DEF Within
  <2>4. CanSee(r, t) => r.view[t] = IF Within(p) = 0 THEN m.view[t] ELSE Erased(m.view[t], p)
    BY <1>6, <1>8, <1>9, <2>2, <2>3
  <2> QED
    BY <1>4, <1>6, <1>8, <1>9, <2>1, <2>2, <2>4, TakenAgrees
<1>12. Right(PostRemove(r, t)) /\ SameWorld(r, PostRemove(r, t))
  BY <1>8, <1>10, <1>11, PostRemoveRight
<1> QED
  BY <1>8, <1>12 DEF SameWorld

\* The map without an item of the tile t.
LEMMA WithoutItem ==
    ASSUME NEW m, Ready(m), NEW t \in Spots, NEW i, In(i, m.top[t]) \/ In(i, m.down[t]),
           NEW n, n = WithBoth(m, t, Chosen(m.top[t], TopItems \ {i}),
                                     Chosen(m.down[t], DownItems \ {i}))
    PROVE  /\ Shaped(n) /\ SameBut(m, n, t) /\ ItemMore(n, m, t, i)
           /\ i \in TopItems => n.down[t] = m.down[t] /\ ~In(i, m.down[t])
           /\ i \in DownItems => n.top[t] = m.top[t] /\ ~In(i, m.top[t])
           /\ n.top[t] = Chosen(m.top[t], TopItems \ {i})
           /\ n.down[t] = Chosen(m.down[t], DownItems \ {i})
<1>1. Shaped(m) /\ NoDuplicate(m.top[t]) /\ NoDuplicate(m.down[t])
  BY DEF Ready, Placement
<1>2. PICK a : a = Chosen(m.top[t], TopItems \ {i})
  OBVIOUS
<1>3. PICK d : d = Chosen(m.down[t], DownItems \ {i})
  OBVIOUS
<1>4. m.top[t] \in Seq(TopItems) /\ m.down[t] \in Seq(DownItems)
  BY <1>1, ShownOf
<1>5. a \in Seq(TopItems) /\ d \in Seq(DownItems)
  BY <1>2, <1>3, <1>4, ChosenIn
<1>6. n = WithBoth(m, t, a, d)
  BY <1>2, <1>3
<1>7. PICK o : o = WithBoth(m, t, a, d)
  OBVIOUS
<1>8. Shaped(o) /\ SameBut(m, o, t) /\ o.top[t] = a /\ o.down[t] = d
  BY <1>1, <1>5, <1>7, BothBecome
<1>9. Shaped(n) /\ SameBut(m, n, t) /\ n.top[t] = a /\ n.down[t] = d
  BY <1>6, <1>7, <1>8
<1>10. m.who[t] = n.who[t] /\ m.hidden = n.hidden
  BY <1>9 DEF SameBut
<1>11. CASE In(i, m.top[t])
  <2>1. i \in TopItems /\ i \notin DownItems
    BY <1>4, <1>11, TileViewsAssumption DEF In
  <2>2. DownItems \ {i} = DownItems /\ (TopItems \ {i}) \cup {i} = TopItems
    BY <2>1
  <2>3. d = m.down[t]
    BY <1>3, <1>4, <2>2, ChosenAll
  <2>4. Chosen(m.top[t], TopItems) = m.top[t]
    BY <1>4, ChosenAll
  <2>5. PICK K : K = TopItems \ {i}
    OBVIOUS
  <2>6. K \cup {i} = TopItems /\ i \notin K
    BY <2>2, <2>5
  <2>7. /\ PutInto(TopItems, Chosen(m.top[t], K), Chosen(m.top[t], K \cup {i}),
               PlaceOf(i, Chosen(m.top[t], K \cup {i})), i)
        /\ ~In(i, Chosen(m.top[t], K))
    BY <1>1, <1>4, <1>11, <2>1, <2>6, ChosenWith
  <2>8. PutInto(TopItems, a, m.top[t], PlaceOf(i, m.top[t]), i) /\ ~In(i, a)
    BY <1>2, <2>4, <2>5, <2>6, <2>7
  <2>9. ~In(i, m.down[t])
    BY <1>4, <2>1 DEF In
  <2> QED
    BY <1>2, <1>3, <1>9, <1>10, <2>1, <2>3, <2>8, <2>9 DEF ItemMore
<1>12. CASE In(i, m.down[t])
  <2>1. i \in DownItems /\ i \notin TopItems
    BY <1>4, <1>12, TileViewsAssumption DEF In
  <2>2. TopItems \ {i} = TopItems /\ (DownItems \ {i}) \cup {i} = DownItems
    BY <2>1
  <2>3. a = m.top[t]
    BY <1>2, <1>4, <2>2, ChosenAll
  <2>4. Chosen(m.down[t], DownItems) = m.down[t]
    BY <1>4, ChosenAll
  <2>5. PICK K : K = DownItems \ {i}
    OBVIOUS
  <2>6. K \cup {i} = DownItems /\ i \notin K
    BY <2>2, <2>5
  <2>7. /\ PutInto(DownItems, Chosen(m.down[t], K), Chosen(m.down[t], K \cup {i}),
               PlaceOf(i, Chosen(m.down[t], K \cup {i})), i)
        /\ ~In(i, Chosen(m.down[t], K))
    BY <1>1, <1>4, <1>12, <2>1, <2>6, ChosenWith
  <2>8. PutInto(DownItems, d, m.down[t], PlaceOf(i, m.down[t]), i) /\ ~In(i, d)
    BY <1>3, <2>4, <2>5, <2>6, <2>7
  <2>9. ~In(i, m.top[t])
    BY <1>4, <2>1 DEF In
  <2> QED
    BY <1>2, <1>3, <1>9, <1>10, <2>1, <2>3, <2>8, <2>9 DEF ItemMore
<1> QED
  BY <1>11, <1>12

\* Tile::removeThing, with what is told of it and what is done after.
LEMMA TakeAwayRight ==
    ASSUME NEW m, Right(m), NEW t \in Spots, NEW i, In(i, m.top[t]) \/ In(i, m.down[t]),
           NEW x, x = PostRemove(TakeAway(m, t, i), t)
    PROVE  /\ Right(x)
           /\ \A u : In(u, x.top[t]) => In(u, m.top[t])
           /\ \A u : In(u, x.down[t]) => In(u, m.down[t])
<1>1. Shaped(m) /\ Ready(m) /\ NoDuplicate(m.top[t]) /\ NoDuplicate(m.down[t])
  BY DEF Right, Ready, Placement
<1>2. PICK a : a = Chosen(m.top[t], TopItems \ {i})
  OBVIOUS
<1>3. PICK d : d = Chosen(m.down[t], DownItems \ {i})
  OBVIOUS
<1>4. m.top[t] \in Seq(TopItems) /\ m.down[t] \in Seq(DownItems)
  BY <1>1, ShownOf
<1>5. a \in Seq(TopItems) /\ \A u : In(u, a) <=> u \in TopItems \ {i} /\ In(u, m.top[t])
  BY <1>2, <1>4, ChosenIn
<1>6. d \in Seq(DownItems) /\ \A u : In(u, d) <=> u \in DownItems \ {i} /\ In(u, m.down[t])
  BY <1>3, <1>4, ChosenIn
<1>7. {} \in SUBSET {Watcher}
  OBVIOUS
<1>8. PICK q : q = Asked(m, t, {})
  OBVIOUS
<1>9. Ready(q) /\ Unshown(m, q) /\ SameWorld(m, q)
  BY <1>1, <1>7, <1>8, AskedRight DEF Unshown
<1>10. Right(q) /\ Shaped(q)
  BY <1>9, UnshownRight DEF Ready
<1>11. PICK n : n = WithBoth(q, t, a, d)
  OBVIOUS
<1>12. Shaped(n) /\ SameBut(q, n, t) /\ n.top[t] = a /\ n.down[t] = d
  BY <1>5, <1>6, <1>10, <1>11, BothBecome
<1>13. q.top = m.top /\ q.down = m.down /\ q.view = m.view
  BY <1>9 DEF Unshown, SameWorld
<1>14. PICK list : list = Spectators(m, t, {})
  OBVIOUS
<1>15. CanSee(q, t) => Watcher \in list
  <2>1. CanSee(q, t) = CanSee(m, t)
    BY <1>9, WorldSeen
  <2> QED
    BY <1>1, <1>7, <1>14, <2>1, SpectatorsRight
<1>16. PICK k : k = StackposOfItem(q, t, i)
  OBVIOUS
<1>17. StackposOfItem(m, t, i) = k
  BY <1>9, <1>16, WorldSeen
<1>18. PICK r : r = IF k = 0 THEN n ELSE Tell(n, list, t, Erased(q.view[t], k))
  OBVIOUS
<1>19. TakeAway(m, t, i) = r
  <2>1. [q EXCEPT !.top[t] = Chosen(@, TopItems \ {i}), !.down[t] = Chosen(@, DownItems \ {i})] = n
    BY <1>2, <1>3, <1>11, <1>13 DEF WithBoth
  <2> QED
    BY <1>8, <1>13, <1>14, <1>17, <1>18, <2>1 DEF TakeAway
<1>20. ItemMore(n, q, t, i)
  <2>1. n = WithBoth(q, t, Chosen(q.top[t], TopItems \ {i}), Chosen(q.down[t], DownItems \ {i}))
    BY <1>2, <1>3, <1>11, <1>13
  <2>2. In(i, q.top[t]) \/ In(i, q.down[t])
    BY <1>13
  <2> QED
    BY <1>9, <2>1, <2>2, WithoutItem
<1>21. Right(PostRemove(r, t)) /\ SameWorld(n, PostRemove(r, t))
  BY <1>10, <1>12, <1>15, <1>16, <1>18, <1>20, TakenItemRight
<1>22. x = PostRemove(r, t)
  BY <1>19
<1>23. x.top[t] = a /\ x.down[t] = d
  BY <1>12, <1>21, <1>22 DEF SameWorld
<1> QED
  BY <1>5, <1>6, <1>21, <1>22, <1>23

\* The old splash, or magic field, goes first.
LEMMA MakeRoomRight ==
    ASSUME NEW m, Right(m), NEW t \in Spots, NEW i, NEW x, x = MakeRoom(m, t, i)
    PROVE  /\ Right(x)
           /\ \A u : In(u, x.top[t]) => In(u, m.top[t])
           /\ \A u : In(u, x.down[t]) => In(u, m.down[t])
<1>1. PICK old : old = IF i \in Splashes THEN Chosen(m.top[t], Splashes)
                       ELSE IF i \in Fields THEN Chosen(m.down[t], Fields) ELSE <<>>
  OBVIOUS
<1>2. x = IF old = <<>> THEN m ELSE PostRemove(TakeAway(m, t, Head(old)), t)
  BY <1>1 DEF MakeRoom
<1>3. CASE old = <<>>
  BY <1>2, <1>3
<1>4. CASE old # <<>>
  <2>1. m.top[t] \in Seq(TopItems) /\ m.down[t] \in Seq(DownItems)
    BY ShownOf DEF Right, Ready
  <2>2. /\ Chosen(m.top[t], Splashes) \in Seq(TopItems)
        /\ \A u : In(u, Chosen(m.top[t], Splashes)) => In(u, m.top[t])
    BY <2>1, ChosenIn
  <2>3. /\ Chosen(m.down[t], Fields) \in Seq(DownItems)
        /\ \A u : In(u, Chosen(m.down[t], Fields)) => In(u, m.down[t])
    BY <2>1, ChosenIn
  <2>4. PICK h : h = Head(old)
    OBVIOUS
  <2>5. In(h, m.top[t]) \/ In(h, m.down[t])
    <3>1. CASE i \in Splashes
      <4>1. old \in Seq(TopItems) /\ In(h, old)
        BY <1>1, <1>4, <2>2, <2>4, <3>1, Beheaded
      <4> QED
        BY <1>1, <2>2, <3>1, <4>1
    <3>2. CASE i \notin Splashes
      <4>1. old = Chosen(m.down[t], Fields)
        BY <1>1, <1>4, <3>2
      <4>2. In(h, old)
        BY <1>4, <2>3, <2>4, <4>1, Beheaded
      <4> QED
        BY <2>3, <4>1, <4>2
    <3> QED
      BY <3>1, <3>2
  <2>6. x = PostRemove(TakeAway(m, t, h), t)
    BY <1>2, <1>4, <2>4
  <2> QED
    BY <2>5, <2>6, TakeAwayRight
<1> QED
  BY <1>3, <1>4

\* Tile::addThing, once there is room.
LEMMA AddItemRight ==
    ASSUME NEW m, Right(m), NEW t \in Spots, NEW i \in TopItems \cup DownItems,
           ~In(i, m.top[t]), ~In(i, m.down[t]), NEW n,
           n = IF i \in TopItems THEN [m EXCEPT !.top[t] = OnTop(@, i)]
               ELSE [m EXCEPT !.down[t] = <<i>> \o @]
    PROVE  Right(PostAdd(OnAddTileItem(n, t, i), t))
<1>1. Shaped(m)
  BY DEF Right, Ready
<1>2. PICK a \in Seq(TopItems) : a = m.top[t]
  BY <1>1, ShownOf
<1>3. PICK d \in Seq(DownItems) : d = m.down[t]
  BY <1>1, ShownOf
<1>4. Shaped(n) /\ SameBut(m, n, t) /\ ItemMore(m, n, t, i)
  <2>1. CASE i \in TopItems
    <3>1. PICK k : PutInto(TopItems, a, OnTop(a, i), k, i)
      BY <2>1, OnTopPuts
    <3>2. OnTop(a, i) \in Seq(TopItems)
      BY <2>1, <3>1, PutPlaces
    <3>3. PICK s \in Seq(TopItems) : s = OnTop(a, i)
      BY <3>2
    <3>4. n = WithTop(m, t, s)
      BY <1>2, <2>1, <3>3 DEF WithTop
    <3>5. Shaped(n) /\ SameBut(m, n, t) /\ n.top[t] = s /\ n.down[t] = m.down[t]
      <4>1. PICK o : o = WithTop(m, t, s)
        OBVIOUS
      <4>2. Shaped(o) /\ SameBut(m, o, t) /\ o.top[t] = s /\ o.down[t] = m.down[t]
        BY <1>1, <4>1, TopBecomes
      <4> QED
        BY <3>4, <4>1, <4>2
    <3> QED
      BY <1>2, <2>1, <3>1, <3>3, <3>5 DEF ItemMore, SameBut
  <2>2. CASE i \notin TopItems
    <3>1. i \in DownItems
      BY <2>2
    <3>2. PutInto(DownItems, d, <<i>> \o d, 1, i)
      BY <3>1, PutFirst
    <3>3. PICK s \in Seq(DownItems) : s = <<i>> \o d
      BY <3>1, Prepended
    <3>4. n = WithDown(m, t, s)
      BY <1>3, <2>2, <3>3 DEF WithDown
    <3>5. Shaped(n) /\ SameBut(m, n, t) /\ n.top[t] = m.top[t] /\ n.down[t] = s
      <4>1. PICK o : o = WithDown(m, t, s)
        OBVIOUS
      <4>2. Shaped(o) /\ SameBut(m, o, t) /\ o.top[t] = m.top[t] /\ o.down[t] = s
        BY <1>1, <4>1, DownBecomes
      <4> QED
        BY <3>4, <4>1, <4>2
    <3>6. PutInto(DownItems, m.down[t], n.down[t], 1, i)
      BY <1>3, <3>2, <3>3, <3>5
    <3> QED
      BY <3>1, <3>5, <3>6 DEF ItemMore, SameBut
  <2> QED
    BY <2>1, <2>2
<1>5. PICK q : q = OnAddTileItem(n, t, i)
  OBVIOUS
<1>6. Right(q)
  BY <1>4, <1>5, AddedItemRight
<1> QED
  BY <1>5, <1>6, PostAddRight

\* An item becomes another, which takes its place.
LEMMA ReplacedItem ==
    ASSUME NEW m, Ready(m), NEW t \in Spots, NEW i, NEW j, <<i, j>> \in Alike,
           In(i, m.top[t]) \/ In(i, m.down[t]), ~In(j, m.top[t]), ~In(j, m.down[t]),
           NEW n, n = WithBoth(m, t, ReplaceAll(m.top[t], i, j), ReplaceAll(m.down[t], i, j))
    PROVE  /\ Shaped(n) /\ SameBut(m, n, t) /\ Ready(n)
           /\ \E p \in Nat : /\ StackposOfItem(n, t, j) = Within(p)
                             /\ Within(p) = 0 => TileDescription(n, t) = TileDescription(m, t)
                             /\ Within(p) # 0 => /\ Within(p) = p
                                  /\ TileDescription(n, t) = Changed(TileDescription(m, t), p, j)
<1>1. PICK o : o = WithBoth(m, t, Chosen(m.top[t], TopItems \ {i}),
                                  Chosen(m.down[t], DownItems \ {i}))
  OBVIOUS
<1>2. /\ Shaped(o) /\ SameBut(m, o, t) /\ ItemMore(o, m, t, i)
      /\ i \in TopItems => o.down[t] = m.down[t] /\ ~In(i, m.down[t])
      /\ i \in DownItems => o.top[t] = m.top[t] /\ ~In(i, m.top[t])
      /\ o.top[t] = Chosen(m.top[t], TopItems \ {i})
      /\ o.down[t] = Chosen(m.down[t], DownItems \ {i})
  BY <1>1, WithoutItem
<1>3. Shaped(m) /\ NoDuplicate(m.top[t]) /\ NoDuplicate(m.down[t])
  BY DEF Ready, Placement
<1>4. m.top[t] \in Seq(TopItems) /\ m.down[t] \in Seq(DownItems)
  BY <1>3, ShownOf
<1>5. \/ i \in TopItems /\ j \in TopItems /\ i \notin DownItems /\ j \notin DownItems
      \/ i \in DownItems /\ j \in DownItems /\ i \notin TopItems /\ j \notin TopItems
  BY TileViewsAssumption
<1>6. PICK a : a = ReplaceAll(m.top[t], i, j)
  OBVIOUS
<1>7. PICK d : d = ReplaceAll(m.down[t], i, j)
  OBVIOUS
<1>8. /\ ~In(j, o.top[t]) /\ ~In(j, o.down[t])
  BY <1>2, <1>4, ChosenIn
<1>9. /\ a \in Seq(TopItems) /\ d \in Seq(DownItems)
      /\ \/ /\ i \in TopItems /\ j \in TopItems /\ d = m.down[t] /\ o.down[t] = m.down[t]
            /\ \E k : /\ PutInto(TopItems, o.top[t], a, k, j) /\ PlaceOf(i, m.top[t]) = k
                      /\ PlaceOf(j, a) = k
         \/ /\ i \in DownItems /\ j \in DownItems /\ a = m.top[t] /\ o.top[t] = m.top[t]
            /\ \E k : /\ PutInto(DownItems, o.down[t], d, k, j) /\ PlaceOf(i, m.down[t]) = k
                      /\ PlaceOf(j, d) = k
  <2>1. CASE i \in TopItems
    <3>1. j \in TopItems /\ o.down[t] = m.down[t] /\ ~In(i, m.down[t]) /\ i \notin DownItems
      BY <1>2, <1>5, <2>1
    <3>2. PICK k : PutInto(TopItems, o.top[t], m.top[t], k, i)
      BY <1>2, <3>1 DEF ItemMore
    <3>3. ~In(i, o.top[t])
      BY <1>2, <3>1 DEF ItemMore
    <3>4. PutInto(TopItems, o.top[t], a, k, j)
      BY <1>6, <2>1, <3>1, <3>2, <3>3, ReplacedPuts
    <3>5. PlaceOf(i, m.top[t]) = k
      BY <2>1, <3>2, <3>3, PutPlaceOf
    <3>6. PlaceOf(j, a) = k
      BY <1>8, <3>1, <3>4, PutPlaceOf
    <3>7. a \in Seq(TopItems)
      BY <3>1, <3>4, PutPlaces
    <3>8. d = m.down[t]
      BY <1>4, <1>7, <3>1, NoneReplaced
    <3> QED
      BY <1>4, <2>1, <3>1, <3>4, <3>5, <3>6, <3>7, <3>8
  <2>2. CASE i \in DownItems
    <3>1. j \in DownItems /\ o.top[t] = m.top[t] /\ ~In(i, m.top[t]) /\ i \notin TopItems
      BY <1>2, <1>5, <2>2
    <3>2. PICK k : PutInto(DownItems, o.down[t], m.down[t], k, i)
      BY <1>2, <3>1 DEF ItemMore
    <3>3. ~In(i, o.down[t])
      BY <1>2, <3>1 DEF ItemMore
    <3>4. PutInto(DownItems, o.down[t], d, k, j)
      BY <1>7, <2>2, <3>1, <3>2, <3>3, ReplacedPuts
    <3>5. PlaceOf(i, m.down[t]) = k
      BY <2>2, <3>2, <3>3, PutPlaceOf
    <3>6. PlaceOf(j, d) = k
      BY <1>8, <3>1, <3>4, PutPlaceOf
    <3>7. d \in Seq(DownItems)
      BY <3>1, <3>4, PutPlaces
    <3>8. a = m.top[t]
      BY <1>4, <1>6, <3>1, NoneReplaced
    <3> QED
      BY <1>4, <2>2, <3>1, <3>4, <3>5, <3>6, <3>7, <3>8
  <2> QED
    BY <1>5, <2>1, <2>2
<1>10. Shaped(n) /\ SameBut(m, n, t) /\ n.top[t] = a /\ n.down[t] = d
  <2>1. PICK x : x = WithBoth(m, t, a, d)
    OBVIOUS
  <2>2. Shaped(x) /\ SameBut(m, x, t) /\ x.top[t] = a /\ x.down[t] = d
    BY <1>3, <1>9, <2>1, BothBecome
  <2> QED
    BY <1>6, <1>7, <2>1, <2>2
<1>11. ItemMore(o, n, t, j)
  <2>1. n.who[t] = o.who[t] /\ n.hidden = o.hidden
    BY <1>2, <1>10 DEF SameBut
  <2> QED
    BY <1>8, <1>9, <1>10, <2>1 DEF ItemMore
<1>12. Ready(n)
  <2>1. NoDuplicate(n.top[t]) /\ NoDuplicate(n.down[t])
    <3>1. NoDuplicate(o.top[t]) /\ NoDuplicate(o.down[t])
      BY <1>2, <1>3, MoreNotTwice
    <3> QED
      BY <1>2, <1>10, <1>11, <3>1, MoreNotTwice
  <2> QED
    BY <1>3, <1>10, <2>1, OthersStay
<1>13. StackposOfItem(n, t, j) = StackposOfItem(m, t, i)
  <2>1. Seen(n, t) = Seen(m, t)
    BY <1>10 DEF SameBut, Seen
  <2> QED
    BY <1>5, <1>9, <1>10, <2>1 DEF StackposOfItem
<1>14. PICK p \in Nat : /\ PutInto(Things, AllShown(o, t), AllShown(m, t), p, i)
                        /\ StackposOfItem(m, t, i) = Within(p) /\ p > 0 /\ i \in Things
  BY <1>2, <1>3, ItemPut
<1>15. PICK r \in Nat : /\ PutInto(Things, AllShown(o, t), AllShown(n, t), r, j)
                        /\ StackposOfItem(n, t, j) = Within(r) /\ r > 0 /\ j \in Things
  BY <1>2, <1>10, <1>11, ItemPut
<1>16. Within(p) = Within(r)
  BY <1>13, <1>14, <1>15
<1>17. CASE Within(p) = 0
  <2>1. TileDescription(m, t) = TileDescription(o, t) /\ TileDescription(n, t) = TileDescription(o, t)
    <3>1. Within(r) = 0
      BY <1>16, <1>17
    <3>2. TileDescription(m, t) = TileDescription(o, t)
      BY <1>14, <1>17, ShownMore
    <3>3. TileDescription(n, t) = TileDescription(o, t)
      BY <1>15, <3>1, ShownMore
    <3> QED
      BY <3>2, <3>3
  <2> QED
    BY <1>10, <1>12, <1>15, <1>16, <1>17, <2>1
<1>18. CASE Within(p) # 0
  <2>1. r = p /\ Within(p) = p /\ p <= Shown
    BY <1>14, <1>15, <1>16, <1>18, TileViewsAssumption DEF Within
  <2>2. PICK u : u = AllShown(m, t)
    OBVIOUS
  <2>3. PICK v : v = AllShown(n, t)
    OBVIOUS
  <2>4. PICK w : w = AllShown(o, t)
    OBVIOUS
  <2>5. PutInto(Things, w, u, p, i) /\ PutInto(Things, w, v, p, j)
    BY <1>14, <1>15, <2>1, <2>2, <2>3, <2>4
  <2>6. /\ w \in Seq(Things) /\ u \in Seq(Things) /\ Len(w) \in Nat /\ Len(u) = Len(w) + 1
        /\ p \in 1..(Len(w) + 1)
        /\ \A x \in 1..(p - 1) : u[x] = w[x]
        /\ \A x \in p..Len(w) : u[x + 1] = w[x]
    BY <1>14, <2>5, PutPlaces
  <2>7. /\ v \in Seq(Things) /\ Len(v) = Len(w) + 1 /\ v[p] = j
        /\ \A x \in 1..(p - 1) : v[x] = w[x]
        /\ \A x \in p..Len(w) : v[x + 1] = w[x]
    BY <1>15, <2>5, PutPlaces
  <2>8. ASSUME NEW x \in 1..Len(u), x # p PROVE v[x] = u[x]
    <3>1. CASE x < p
      BY <2>6, <2>7, <3>1
    <3>2. CASE x > p
      <4>1. (x - 1) \in p..Len(w) /\ (x - 1) + 1 = x
        BY <2>6, <3>2
      <4>2. v[(x - 1) + 1] = w[x - 1] /\ u[(x - 1) + 1] = w[x - 1]
        BY <2>6, <2>7, <4>1
      <4> QED
        BY <4>1, <4>2
    <3> QED
      BY <2>6, <2>8, <3>1, <3>2
  <2>9. p \in 1..Len(u) /\ Len(u) = Len(v)
    BY <2>6, <2>7
  <2>10. Cut(v) = IF p <= Shown THEN Changed(Cut(u), p, v[p]) ELSE Cut(u)
    <3>1. \A x \in 1..Len(u) : x # p => v[x] = u[x]
      BY <2>8
    <3>2. u \in Seq(Things) /\ v \in Seq(Things)
      BY <2>6, <2>7
    <3>3. DifferAt(u, v, p)
      BY <2>9, <3>1 DEF DifferAt
    <3> QED
      BY <3>2, <3>3, ChangedShown
  <2>11. TileDescription(n, t) = Changed(TileDescription(m, t), p, j)
    BY <2>1, <2>2, <2>3, <2>7, <2>10 DEF TileDescription
  <2> QED
    BY <1>10, <1>12, <1>15, <1>16, <1>18, <2>1, <2>11
<1> QED
  BY <1>17, <1>18

\* Tile::onUpdateTileItem
LEMMA UpdatedRight ==
    ASSUME NEW m, Right(m), NEW t \in Spots, NEW i, NEW j, <<i, j>> \in Alike,
           In(i, m.top[t]) \/ In(i, m.down[t]), ~In(j, m.top[t]), ~In(j, m.down[t]),
           NEW x, x = Updated(m, t, i, j)
    PROVE  Right(x)
<1>1. PICK n : n = WithBoth(m, t, ReplaceAll(m.top[t], i, j), ReplaceAll(m.down[t], i, j))
  OBVIOUS
<1>2. Ready(m)
  BY DEF Right
<1>3. Shaped(n) /\ SameBut(m, n, t) /\ Ready(n)
  BY <1>1, <1>2, ReplacedItem
<1>4. PICK p \in Nat : /\ StackposOfItem(n, t, j) = Within(p)
                       /\ Within(p) = 0 => TileDescription(n, t) = TileDescription(m, t)
                       /\ Within(p) # 0 => /\ Within(p) = p
                            /\ TileDescription(n, t) = Changed(TileDescription(m, t), p, j)
  BY <1>1, <1>2, ReplacedItem
<1>5. {} \in SUBSET {Watcher}
  OBVIOUS
<1>6. PICK q : q = Asked(n, t, {})
  OBVIOUS
<1>7. Ready(q) /\ Unshown(n, q) /\ SameWorld(n, q) /\ Shaped(q)
  BY <1>3, <1>5, <1>6, AskedRight DEF Unshown, Ready
<1>8. PICK list : list = Spectators(n, t, {})
  OBVIOUS
<1>9. CanSee(n, t) => Watcher \in list
  BY <1>3, <1>5, <1>8, SpectatorsRight
<1>10. /\ NoDuplicate(n.top[t]) /\ NoDuplicate(n.down[t])
  BY <1>3 DEF Ready, Placement
<1>11. \A u \in Spots : /\ CanSee(n, u) = CanSee(m, u)
                        /\ u # t /\ AgreesAt(m, u) => AgreesAt(n, u)
  BY <1>2, <1>3, <1>10, OthersStay
<1>12. \A u \in Spots : u # t => AgreesAt(q, u)
  <2>1. ASSUME NEW u \in Spots, u # t PROVE AgreesAt(q, u)
    <3>1. AgreesAt(n, u)
      BY <1>11, <2>1 DEF Right
    <3> QED
      BY <1>7, <3>1, AgreesStill DEF Unshown
  <2> QED
    BY <2>1
<1>13. q.view = m.view /\ n.view = m.view /\ q.lacking = m.lacking
  BY <1>3, <1>7 DEF Unshown, SameBut
<1>14. x = IF StackposOfItem(n, t, j) = 0 THEN q
           ELSE Tell(q, list, t, Changed(n.view[t], StackposOfItem(n, t, j), j))
  <2>1. Replaced(m, t, i, j) = n
    BY <1>1 DEF WithBoth, Replaced
  <2>2. q.view[t] = n.view[t]
    BY <1>13
  <2> QED
    <3>1. PICK k : k = StackposOfItem(n, t, j)
      OBVIOUS
    <3>2. Updated(m, t, i, j) = IF k = 0 THEN Asked(n, t, {})
                                ELSE Tell(Asked(n, t, {}), Spectators(n, t, {}), t, Changed(n.view[t], k, j))
      BY <2>1, <3>1 DEF Updated
    <3> QED
      BY <1>6, <1>8, <3>1, <3>2
<1>15. AgreesAt(m, t) /\ CanSee(q, t) = CanSee(n, t) /\ TileDescription(q, t) = TileDescription(n, t)
  BY <1>7, WorldSeen DEF Right
<1>16. CASE Within(p) = 0
  <2>1. x = q
    BY <1>4, <1>14, <1>16
  <2>2. AgreesAt(q, t)
    BY <1>4, <1>11, <1>13, <1>15, <1>16 DEF AgreesAt
  <2> QED
    BY <1>7, <1>12, <2>1, <2>2 DEF Right
<1>17. CASE Within(p) # 0
  <2>1. PICK tile : tile = Changed(m.view[t], p, j)
    OBVIOUS
  <2>2. x = Tell(q, list, t, tile)
    BY <1>4, <1>13, <1>14, <1>17, <2>1
  <2>3. /\ Shaped(x) /\ SameWorld(q, x) /\ SameCaches(q, x) /\ x.lacking = q.lacking
        /\ \A u \in Spots : x.view[u] = IF u = t /\ Watcher \in list /\ CanSee(q, t) THEN tile
                                        ELSE q.view[u]
    <3>1. PICK y : y = Tell(q, list, t, tile)
      OBVIOUS
    <3>2. /\ Shaped(y) /\ SameWorld(q, y) /\ SameCaches(q, y) /\ y.lacking = q.lacking
          /\ \A u \in Spots : y.view[u] = IF u = t /\ Watcher \in list /\ CanSee(q, t) THEN tile
                                          ELSE q.view[u]
      BY <1>7, <3>1, TellRight
    <3> QED
      BY <2>2, <3>1, <3>2
  <2>4. Ready(x)
    BY <1>7, <2>3, CachesStayRight
  <2>5. ASSUME NEW u \in Spots, u # t PROVE AgreesAt(x, u)
    <3>1. AgreesAt(q, u) /\ x.view[u] = q.view[u]
      BY <1>12, <2>3, <2>5
    <3> QED
      BY <2>3, <3>1, AgreesStill
  <2>6. AgreesAt(x, t)
    <3>1. CanSee(x, t) = CanSee(q, t) /\ TileDescription(x, t) = TileDescription(n, t)
      BY <1>15, <2>3, WorldSeen
    <3> QED
      BY <1>4, <1>9, <1>11, <1>13, <1>15, <1>17, <2>1, <2>3, <3>1 DEF AgreesAt
  <2> QED
    BY <2>4, <2>5, <2>6 DEF Right
<1> QED
  BY <1>16, <1>17

-----------------------------------------------------------------------------
(***************************************************************************)
(* TileViews: creatures come, go and hide.                                 *)
(***************************************************************************)
\* n differs from m in where creatures stand and which of them hide.
Crowded(m, n, f, h) ==
    n = [top |-> m.top, down |-> m.down, who |-> f, hidden |-> h, view |-> m.view,
         cache |-> m.cache, players |-> m.players, lacking |-> m.lacking]

\* Nobody is twice on a tile or on two, and who hides is somewhere.
WellCrowded(f, h) ==
    /\ f \in [Spots -> Seq(Walkers)] /\ h \in SUBSET Others
    /\ \A t \in Spots : NoDuplicate(f[t])
    /\ \A t, u \in Spots, c \in Walkers : In(c, f[t]) /\ In(c, f[u]) => t = u
    /\ \E t \in Spots : In(Watcher, f[t])
    /\ \A c \in h : \E t \in Spots : In(c, f[t])

\* The form and the placement are kept.
LEMMA CrowdRight ==
    ASSUME NEW m, Ready(m), NEW n, NEW f, NEW h, Crowded(m, n, f, h), WellCrowded(f, h)
    PROVE  /\ Shaped(n) /\ Placement(n) /\ n.who = f /\ n.hidden = h /\ n.view = m.view
           /\ n.lacking = m.lacking /\ n.top = m.top /\ n.down = m.down /\ SameCaches(m, n)
<1>1. /\ n.top = m.top /\ n.down = m.down /\ n.who = f /\ n.hidden = h /\ n.view = m.view
      /\ n.cache = m.cache /\ n.players = m.players /\ n.lacking = m.lacking
      /\ n = [top |-> n.top, down |-> n.down, who |-> n.who, hidden |-> n.hidden,
              view |-> n.view, cache |-> n.cache, players |-> n.players, lacking |-> n.lacking]
  BY DEF Crowded
<1>2. f \in [Spots -> Seq(Walkers)] /\ h \in SUBSET Others
  BY DEF WellCrowded
<1>3. Shaped(n)
  BY <1>1, <1>2 DEF Shaped, Ready
<1>4. Placement(n)
  BY <1>1 DEF Placement, Ready, WellCrowded
<1> QED
  BY <1>1, <1>3, <1>4 DEF SameCaches

\* As long as the watcher stays, the same is in sight.
LEMMA WatcherStays ==
    ASSUME NEW m, NEW n, Placement(m), Placement(n),
           \A t \in Spots : In(Watcher, m.who[t]) => In(Watcher, n.who[t])
    PROVE  \A u : CanSee(n, u) = CanSee(m, u) /\ InRangeOf(n, u) = InRangeOf(m, u)
<1>1. PICK t \in Spots : In(Watcher, m.who[t])
  BY DEF Placement
<1>2. Watcher \in Walkers
  BY DEF Walkers
<1>3. TileOfCreature(m, Watcher) = t
  BY <1>1, <1>2, StandsOnOne
<1>4. TileOfCreature(n, Watcher) = t
  BY <1>1, <1>2, StandsOnOne
<1> QED
  BY <1>3, <1>4 DEF CanSee, InRangeOf

\* A tile with the same things and the same creatures to see.
LEMMA ShownAlike ==
    ASSUME NEW m, NEW n, Shaped(m), NEW u \in Spots, n.top[u] = m.top[u], n.down[u] = m.down[u],
           n.who[u] = m.who[u], \A c \in Walkers : In(c, m.who[u]) => (c \in n.hidden <=> c \in m.hidden)
    PROVE  AllShown(n, u) = AllShown(m, u) /\ Seen(n, u) = Seen(m, u)
<1>1. PICK s \in Seq(Walkers) : s = m.who[u]
  BY ShownOf
<1>2. PICK K : K = Walkers \ n.hidden
  OBVIOUS
<1>3. PICK L : L = Walkers \ m.hidden
  OBVIOUS
<1>4. \A c \in Walkers : In(c, s) => (c \in K <=> c \in L)
  BY <1>1, <1>2, <1>3
<1>5. Chosen(s, K) = Chosen(s, L)
  BY <1>4, ChosenSame
<1>6. Seen(n, u) = Seen(m, u)
  BY <1>1, <1>2, <1>3, <1>5 DEF Seen
<1> QED
  BY <1>6 DEF AllShown

\* sendAddCreature: what it changes
LEMMA SendAddRight ==
    ASSUME NEW m, Shaped(m), NEW t \in Spots, NEW list, NEW c, NEW n, n = SendAddCreature(m, list, t, c),
           NEW k, k = StackposOfCreature(m, t, c)
    PROVE  /\ Shaped(n) /\ SameWorld(m, n) /\ SameCaches(m, n) /\ n.lacking = m.lacking
           /\ \A u \in Spots : n.view[u] = IF u = t /\ k # 0 /\ Watcher \in list /\ CanSee(m, t)
                                           THEN Inserted(m.view[t], k, c) ELSE m.view[u]
<1>1. CASE k = 0
  <2>1. n = m
    BY <1>1 DEF SendAddCreature
  <2> QED
    BY <1>1, <2>1 DEF SameWorld, SameCaches
<1>2. CASE k # 0
  <2>1. PICK tile : tile = Inserted(m.view[t], k, c)
    OBVIOUS
  <2>2. PICK o : o = Tell(m, list, t, tile)
    OBVIOUS
  <2>3. n = o
    BY <1>2, <2>1, <2>2 DEF SendAddCreature
  <2>4. /\ Shaped(o) /\ SameWorld(m, o) /\ SameCaches(m, o) /\ o.lacking = m.lacking
        /\ \A u \in Spots : o.view[u] = IF u = t /\ Watcher \in list /\ CanSee(m, t) THEN tile
                                        ELSE m.view[u]
    BY <2>2, TellRight
  <2> QED
    BY <1>2, <2>1, <2>3, <2>4
<1> QED
  BY <1>1, <1>2

\* the place of a creature that is told, as the lemmas on lists want it
LEMMA CreaturePlace ==
    ASSUME NEW m, NEW n, Shaped(m), Shaped(n), NEW t \in Spots, NEW c \in Walkers,
           CreatureMore(m, n, t, c)
    PROVE  \E p \in Nat : /\ p > 0 /\ c \in Things /\ ClientIndexOfCreature(n, t, c) = p
                          /\ StackposOfCreature(n, t, c) = Within(p)
                          /\ PutInto(Things, AllShown(m, t), AllShown(n, t), p, c)
<1>1. /\ ClientIndexOfCreature(n, t, c) \in Nat /\ ClientIndexOfCreature(n, t, c) > 0
      /\ PutInto(Things, AllShown(m, t), AllShown(n, t), ClientIndexOfCreature(n, t, c), c)
      /\ c \in Things
  BY CreaturePut
<1> QED
  BY <1>1 DEF StackposOfCreature

\* A creature is shown that was not.
LEMMA AddedCreatureRight ==
    ASSUME NEW m, NEW n, Right(m), Ready(n), NEW t \in Spots, NEW c \in Walkers,
           CreatureMore(m, n, t, c), n.view = m.view, n.lacking = m.lacking,
           \A u \in Spots : CanSee(n, u) = CanSee(m, u) /\ (u # t => AllShown(n, u) = AllShown(m, u)),
           NEW list, CanSee(n, t) => Watcher \in list, NEW x, x = SendAddCreature(n, list, t, c)
    PROVE  Right(x)
<1>1. Shaped(m) /\ Shaped(n) /\ Ready(m)
  BY DEF Right, Ready
<1>2. PICK p \in Nat : /\ p > 0 /\ c \in Things /\ ClientIndexOfCreature(n, t, c) = p
                       /\ StackposOfCreature(n, t, c) = Within(p)
                       /\ PutInto(Things, AllShown(m, t), AllShown(n, t), p, c)
  BY <1>1, CreaturePlace
<1>3. PICK k : k = StackposOfCreature(n, t, c)
  OBVIOUS
<1>4. /\ Shaped(x) /\ SameWorld(n, x) /\ SameCaches(n, x) /\ x.lacking = n.lacking
      /\ \A u \in Spots : x.view[u] = IF u = t /\ k # 0 /\ Watcher \in list /\ CanSee(n, t)
                                      THEN Inserted(n.view[t], k, c) ELSE n.view[u]
  BY <1>1, <1>3, SendAddRight
<1>5. Ready(x)
  BY <1>4, CachesStayRight
<1>6. \A u \in Spots : AllShown(x, u) = AllShown(n, u) /\ CanSee(x, u) = CanSee(n, u)
  BY <1>4, WorldSeen
<1>7. \A u \in Spots : AgreesAt(m, u)
  BY DEF Right
<1>8. ASSUME NEW u \in Spots, u # t PROVE AgreesAt(x, u)
  <2>1. AllShown(x, u) = AllShown(m, u) /\ CanSee(x, u) = CanSee(m, u)
    BY <1>6, <1>8
  <2>2. x.view[u] = m.view[u] /\ x.lacking = m.lacking /\ AgreesAt(m, u)
    BY <1>4, <1>7, <1>8
  <2> QED
    BY <2>1, <2>2, SameAgrees
<1>9. AgreesAt(x, t)
  <2>1. AllShown(x, t) = AllShown(n, t) /\ CanSee(x, t) = CanSee(m, t) /\ CanSee(n, t) = CanSee(m, t)
    BY <1>6
  <2>2. k = Within(p) /\ (k # 0 => k = p)
    BY <1>2, <1>3 DEF Within
  <2>3. CanSee(x, t) => x.view[t] = IF Within(p) = 0 THEN m.view[t] ELSE Inserted(m.view[t], p, c)
    BY <1>4, <2>1, <2>2
  <2>4. PutInto(Things, AllShown(m, t), AllShown(x, t), p, c)
    BY <1>2, <2>1
  <2> QED
    BY <1>2, <1>4, <1>7, <2>1, <2>3, <2>4, AddedAgrees
<1> QED
  BY <1>5, <1>8, <1>9 DEF Right

\* Game::placeCreature
LEMMA PlaceRight ==
    ASSUME NEW m, Right(m), NEW t \in Spots, NEW c \in Others, Stands(m, c) = {},
           NEW o, o = [m EXCEPT !.who[t] = Append(@, c)], NEW n, n = ClearSpectatorCache(o),
           NEW x, x = SendAddCreature(Asked(n, t, {}), Spectators(n, t, {}), t, c)
    PROVE  Right(x)
<1>1. Ready(m) /\ Shaped(m) /\ Placement(m)
  BY DEF Right, Ready
<1>2. c \in Walkers /\ Watcher # c /\ m.hidden \in SUBSET Others
  BY <1>1, TileViewsAssumption DEF Walkers, Shaped
<1>3. m.who \in [Spots -> Seq(Walkers)]
  BY <1>1 DEF Shaped
<1>4. \A u \in Spots : ~In(c, m.who[u])
  BY StandsIs
<1>5. PICK s : s = Append(m.who[t], c)
  OBVIOUS
<1>6. /\ s \in Seq(Walkers) /\ NoDuplicate(s)
      /\ \A y : In(y, s) <=> y = c \/ In(y, m.who[t])
  <2>1. m.who[t] \in Seq(Walkers) /\ NoDuplicate(m.who[t]) /\ ~In(c, m.who[t])
    BY <1>1, <1>3, <1>4 DEF Placement
  <2> QED
    BY <1>2, <1>5, <2>1, PushBack
<1>7. PICK f : f = [m.who EXCEPT ![t] = s]
  OBVIOUS
<1>8. /\ f \in [Spots -> Seq(Walkers)] /\ f[t] = s /\ \A u \in Spots : u # t => f[u] = m.who[u]
  BY <1>3, <1>6, <1>7
<1>9. \A u \in Spots : \A y : In(y, f[u]) <=> (y = c /\ u = t) \/ In(y, m.who[u])
  BY <1>6, <1>8
<1>10. WellCrowded(f, m.hidden)
  <2>1. \A u \in Spots : NoDuplicate(f[u])
    BY <1>1, <1>6, <1>8 DEF Placement
  <2>2. \A u, v \in Spots, d \in Walkers : In(d, f[u]) /\ In(d, f[v]) => u = v
    BY <1>1, <1>4, <1>9 DEF Placement
  <2>3. \E u \in Spots : In(Watcher, f[u])
    BY <1>1, <1>9 DEF Placement
  <2>4. \A d \in m.hidden : \E u \in Spots : In(d, f[u])
    BY <1>1, <1>9 DEF Placement
  <2> QED
    BY <1>2, <1>8, <2>1, <2>2, <2>3, <2>4 DEF WellCrowded
<1>11. Crowded(m, o, f, m.hidden)
  BY <1>1, <1>5, <1>7 DEF Crowded, Shaped
<1>12. /\ Shaped(o) /\ Placement(o) /\ o.who = f /\ o.hidden = m.hidden /\ o.view = m.view
       /\ o.lacking = m.lacking /\ o.top = m.top /\ o.down = m.down
  <2>1. PICK h : h = m.hidden
    OBVIOUS
  <2>2. Crowded(m, o, f, h) /\ WellCrowded(f, h)
    BY <1>10, <1>11, <2>1
  <2>3. PICK y : y = o
    OBVIOUS
  <2>4. Crowded(m, y, f, h)
    BY <2>2, <2>3
  <2>5. /\ Shaped(y) /\ Placement(y) /\ y.who = f /\ y.hidden = h /\ y.view = m.view
        /\ y.lacking = m.lacking /\ y.top = m.top /\ y.down = m.down
    BY <1>1, <2>2, <2>4, CrowdRight
  <2> QED
    BY <2>1, <2>3, <2>5
<1>13. Ready(n) /\ Unshown(o, n)
  BY <1>12, ClearRight
<1>14. {} \in SUBSET {Watcher}
  OBVIOUS
<1>15. PICK q : q = Asked(n, t, {})
  OBVIOUS
<1>16. Ready(q) /\ Unshown(n, q) /\ SameWorld(n, q)
  BY <1>13, <1>14, <1>15, AskedRight DEF Unshown
<1>17. PICK list : list = Spectators(n, t, {})
  OBVIOUS
<1>18. CanSee(q, t) => Watcher \in list
  <2>1. CanSee(q, t) = CanSee(n, t)
    BY <1>16, WorldSeen
  <2> QED
    BY <1>13, <1>14, <1>17, <2>1, SpectatorsRight
<1>19. /\ q.who = f /\ q.hidden = m.hidden /\ q.view = m.view
       /\ q.lacking = m.lacking /\ q.top = m.top /\ q.down = m.down /\ Shaped(q) /\ Placement(q)
  BY <1>12, <1>13, <1>16 DEF Unshown, SameWorld, Ready
<1>20. \A u : CanSee(q, u) = CanSee(m, u)
  <2>1. \A u \in Spots : In(Watcher, m.who[u]) => In(Watcher, q.who[u])
    BY <1>9, <1>19
  <2> QED
    BY <1>1, <1>19, <2>1, WatcherStays
<1>21. ASSUME NEW u \in Spots, u # t PROVE AllShown(q, u) = AllShown(m, u)
  <2>1. q.top[u] = m.top[u] /\ q.down[u] = m.down[u] /\ q.who[u] = m.who[u]
    BY <1>8, <1>19, <1>21
  <2>2. \A d \in Walkers : In(d, m.who[u]) => (d \in q.hidden <=> d \in m.hidden)
    BY <1>19
  <2> QED
    BY <1>1, <2>1, <2>2, ShownAlike
<1>22. CreatureMore(m, q, t, c)
  <2>1. c \notin m.hidden
    BY <1>1, <1>4 DEF Placement
  <2>2. PICK K : K = (Walkers \ m.hidden) \ {c}
    OBVIOUS
  <2>3. PICK a \in Seq(Walkers) : a = m.who[t]
    BY <1>3
  <2>4. PICK L : L = Walkers \ m.hidden
    OBVIOUS
  <2>5. Chosen(Append(a, c), K) = Chosen(a, K)
    BY <1>2, <2>2, ChosenAppend
  <2>6. \A d \in Walkers : In(d, a) => (d \in K <=> d \in L)
    BY <1>4, <2>2, <2>3, <2>4
  <2>7. Chosen(a, K) = Chosen(a, L)
    BY <2>6, ChosenSame
  <2>8. Seen(m, t) = Chosen(q.who[t], (Walkers \ q.hidden) \ {c})
    BY <1>5, <1>8, <1>19, <2>2, <2>3, <2>4, <2>5, <2>7 DEF Seen
  <2> QED
    BY <1>6, <1>8, <1>19, <2>1, <2>8 DEF CreatureMore
<1>23. x = SendAddCreature(q, list, t, c)
  BY <1>15, <1>17
<1> QED
  BY <1>2, <1>16, <1>18, <1>19, <1>20, <1>21, <1>22, <1>23, AddedCreatureRight

\* Creatures hide and show themselves where they stand.
LEMMA HiddenBecomes ==
    ASSUME NEW m, Right(m), NEW h \in SUBSET Others, NEW c \in Others, NEW t \in Spots,
           In(c, m.who[t]), \A d : d # c => (d \in h <=> d \in m.hidden),
           NEW n, n = [m EXCEPT !.hidden = h]
    PROVE  /\ Ready(n) /\ n.who = m.who /\ n.hidden = h /\ n.view = m.view
           /\ n.lacking = m.lacking /\ n.top = m.top /\ n.down = m.down
           /\ \A u \in Spots : CanSee(n, u) = CanSee(m, u) /\ (u # t => AllShown(n, u) = AllShown(m, u))
<1>1. Ready(m) /\ Shaped(m) /\ Placement(m)
  BY DEF Right, Ready
<1>2. WellCrowded(m.who, h)
  <2>1. \A d \in h : \E u \in Spots : In(d, m.who[u])
    BY <1>1 DEF Placement
  <2> QED
    BY <1>1, <2>1 DEF WellCrowded, Shaped, Placement
<1>3. Crowded(m, n, m.who, h)
  BY <1>1 DEF Crowded, Shaped
<1>4. /\ Shaped(n) /\ Placement(n) /\ n.who = m.who /\ n.hidden = h /\ n.view = m.view
      /\ n.lacking = m.lacking /\ n.top = m.top /\ n.down = m.down /\ SameCaches(m, n)
  BY <1>1, <1>2, <1>3, CrowdRight
<1>5. \A u : CanSee(n, u) = CanSee(m, u)
  BY <1>1, <1>4, WatcherStays
<1>6. CachesRight(n)
  BY <1>1, <1>4, <1>5 DEF Ready, CachesRight, SameCaches
<1>7. ASSUME NEW u \in Spots, u # t PROVE AllShown(n, u) = AllShown(m, u)
  <2>1. c \in Walkers
    BY DEF Walkers
  <2>2. ~In(c, m.who[u])
    BY <1>1, <1>7, <2>1 DEF Placement
  <2>3. \A d \in Walkers : In(d, m.who[u]) => (d \in n.hidden <=> d \in m.hidden)
    BY <1>4, <2>2
  <2>4. n.top[u] = m.top[u] /\ n.down[u] = m.down[u] /\ n.who[u] = m.who[u]
    BY <1>4
  <2> QED
    BY <1>1, <2>3, <2>4, ShownAlike
<1> QED
  BY <1>4, <1>5, <1>6, <1>7 DEF Ready

\* Who shows up again is put where the tile has it.
LEMMA ShowRight ==
    ASSUME NEW m, Right(m), NEW c, c \in m.hidden, NEW t \in Spots, In(c, m.who[t]),
           NEW q, q = AskedPlayers(m, t), NEW h, h = m.hidden \ {c}, NEW n, n = [q EXCEPT !.hidden = h],
           NEW x, x = SendAddCreature(n, PlayerSpectators(m, t), t, c)
    PROVE  Right(x)
<1>1. Ready(m) /\ Shaped(m) /\ Placement(m)
  BY DEF Right, Ready
<1>2. m.hidden \in SUBSET Others /\ c \in Others /\ c \in Walkers
  BY <1>1 DEF Shaped, Walkers
<1>3. Ready(q) /\ Unshown(m, q) /\ SameWorld(m, q)
  BY <1>1, AskedPlayersRight DEF Unshown
<1>4. Right(q)
  BY <1>3, UnshownRight
<1>5. q.who = m.who /\ q.hidden = m.hidden
  BY <1>3 DEF SameWorld
<1>6. h \in SUBSET Others /\ \A d : d # c => (d \in h <=> d \in q.hidden)
  BY <1>2, <1>5
<1>7. /\ Ready(n) /\ n.who = q.who /\ n.hidden = h /\ n.view = q.view
      /\ n.lacking = q.lacking /\ n.top = q.top /\ n.down = q.down
      /\ \A u \in Spots : CanSee(n, u) = CanSee(q, u) /\ (u # t => AllShown(n, u) = AllShown(q, u))
  BY <1>2, <1>4, <1>5, <1>6, HiddenBecomes
<1>8. PICK list : list = PlayerSpectators(m, t)
  OBVIOUS
<1>9. CanSee(n, t) => Watcher \in list
  <2>1. CanSee(q, t) = CanSee(m, t)
    BY <1>3, WorldSeen
  <2>2. {} \in SUBSET {Watcher}
    OBVIOUS
  <2> QED
    BY <1>1, <1>7, <1>8, <2>1, <2>2, SpectatorsRight
<1>10. CreatureMore(q, n, t, c)
  <2>1. (Walkers \ n.hidden) \ {c} = Walkers \ q.hidden
    BY <1>5, <1>7
  <2>2. Seen(q, t) = Chosen(n.who[t], (Walkers \ n.hidden) \ {c})
    BY <1>7, <2>1 DEF Seen
  <2>3. NoDuplicate(n.who[t]) /\ In(c, n.who[t]) /\ c \notin n.hidden
    BY <1>1, <1>5, <1>7 DEF Placement
  <2> QED
    BY <1>7, <2>2, <2>3 DEF CreatureMore
<1>11. PICK y : y = SendAddCreature(n, list, t, c)
  OBVIOUS
<1>12. n.view = q.view /\ n.lacking = q.lacking /\ Ready(n)
  BY <1>7
<1>13. \A u \in Spots : CanSee(n, u) = CanSee(q, u) /\ (u # t => AllShown(n, u) = AllShown(q, u))
  BY <1>7
<1>14. Right(y)
  BY <1>2, <1>4, <1>9, <1>10, <1>11, <1>12, <1>13, AddedCreatureRight
<1> QED
  BY <1>8, <1>11, <1>14

\* What leaves the place k of the tile t is told, unless k is 0.
ToldGone(n, list, t, k) ==
    IF k = 0 THEN n ELSE Tell(n, list, t, Erased(n.view[t], k))

\* What such a message changes.
LEMMA ToldGoneRight ==
    ASSUME NEW n, Shaped(n), NEW list, NEW t \in Spots, NEW k, NEW x, x = ToldGone(n, list, t, k)
    PROVE  /\ Shaped(x) /\ SameWorld(n, x) /\ SameCaches(n, x) /\ x.lacking = n.lacking
           /\ \A u \in Spots : x.view[u] = IF u = t /\ k # 0 /\ Watcher \in list /\ CanSee(n, t)
                                           THEN Erased(n.view[t], k) ELSE n.view[u]
<1>1. CASE k = 0
  BY <1>1 DEF SameWorld, SameCaches, ToldGone
<1>2. CASE k # 0
  <2>1. PICK tile : tile = Erased(n.view[t], k)
    OBVIOUS
  <2>2. PICK y : y = Tell(n, list, t, tile)
    OBVIOUS
  <2>3. x = y
    BY <1>2, <2>1, <2>2 DEF ToldGone
  <2>4. /\ Shaped(y) /\ SameWorld(n, y) /\ SameCaches(n, y) /\ y.lacking = n.lacking
        /\ \A u \in Spots : y.view[u] = IF u = t /\ Watcher \in list /\ CanSee(n, t)
                                        THEN tile ELSE n.view[u]
    BY <2>2, TellRight
  <2> QED
    BY <1>2, <2>1, <2>3, <2>4
<1> QED
  BY <1>1, <1>2

\* A creature is not shown any more.
LEMMA TakenCreature ==
    ASSUME NEW m, NEW n, Right(m), Ready(n), NEW t \in Spots, NEW c \in Walkers,
           CreatureMore(n, m, t, c), n.view = m.view, n.lacking = m.lacking,
           \A u \in Spots : CanSee(n, u) = CanSee(m, u) /\ (u # t => AllShown(n, u) = AllShown(m, u)),
           NEW list, CanSee(n, t) => Watcher \in list, NEW k, k = StackposOfCreature(m, t, c),
           NEW x, x = ToldGone(n, list, t, k)
    PROVE  /\ Ready(x) /\ SameWorld(n, x) /\ x.lacking = m.lacking
           /\ \A u \in Spots : u # t => AgreesAt(x, u)
           /\ k = 0 \/ Len(AllShown(m, t)) <= Shown => AgreesAt(x, t)
           /\ ThingCount(x, t) <= Shown - 2 => AgreesAt(x, t)
<1>1. Shaped(m) /\ Shaped(n) /\ Ready(m)
  BY DEF Right, Ready
<1>2. PICK p \in Nat : /\ p > 0 /\ c \in Things /\ ClientIndexOfCreature(m, t, c) = p
                       /\ StackposOfCreature(m, t, c) = Within(p)
                       /\ PutInto(Things, AllShown(n, t), AllShown(m, t), p, c)
  BY <1>1, CreaturePlace
<1>3. k = Within(p) /\ (k # 0 => k = p)
  BY <1>2 DEF Within
<1>4. /\ Shaped(x) /\ SameWorld(n, x) /\ SameCaches(n, x) /\ x.lacking = n.lacking
      /\ \A u \in Spots : x.view[u] = IF u = t /\ k # 0 /\ Watcher \in list /\ CanSee(n, t)
                                      THEN Erased(n.view[t], k) ELSE n.view[u]
  <2>1. PICK j : j = k
    OBVIOUS
  <2>2. PICK y : y = ToldGone(n, list, t, j)
    OBVIOUS
  <2>3. /\ Shaped(y) /\ SameWorld(n, y) /\ SameCaches(n, y) /\ y.lacking = n.lacking
        /\ \A u \in Spots : y.view[u] = IF u = t /\ j # 0 /\ Watcher \in list /\ CanSee(n, t)
                                        THEN Erased(n.view[t], j) ELSE n.view[u]
    BY <1>1, <2>2, ToldGoneRight
  <2> QED
    BY <2>1, <2>2, <2>3
<1>5. Ready(x)
  BY <1>4, CachesStayRight
<1>6. \A u \in Spots : /\ AllShown(x, u) = AllShown(n, u) /\ CanSee(x, u) = CanSee(n, u)
                       /\ ThingCount(x, u) = ThingCount(n, u)
  BY <1>4, WorldSeen
<1>7. \A u \in Spots : AgreesAt(m, u)
  BY DEF Right
<1>8. ASSUME NEW u \in Spots, u # t PROVE AgreesAt(x, u)
  <2>1. AllShown(x, u) = AllShown(m, u) /\ CanSee(x, u) = CanSee(m, u)
    BY <1>6, <1>8
  <2>2. x.view[u] = m.view[u] /\ x.lacking = m.lacking /\ AgreesAt(m, u)
    BY <1>4, <1>7, <1>8
  <2> QED
    BY <2>1, <2>2, SameAgrees
<1>9. ASSUME k = 0 \/ Len(AllShown(m, t)) <= Shown PROVE AgreesAt(x, t)
  <2>1. AllShown(x, t) = AllShown(n, t) /\ CanSee(x, t) = CanSee(m, t) /\ CanSee(n, t) = CanSee(m, t)
    BY <1>6
  <2>2. CanSee(x, t) => x.view[t] = IF Within(p) = 0 THEN m.view[t] ELSE Erased(m.view[t], p)
    BY <1>3, <1>4, <2>1
  <2>3. PutInto(Things, AllShown(x, t), AllShown(m, t), p, c)
    BY <1>2, <2>1
  <2>4. Within(p) = 0 \/ Len(AllShown(m, t)) <= Shown
    BY <1>3, <1>9
  <2> QED
    BY <1>2, <1>4, <1>7, <2>1, <2>2, <2>3, <2>4, TakenAgrees
<1>10. ASSUME ThingCount(x, t) <= Shown - 2 PROVE AgreesAt(x, t)
  <2>1. Len(AllShown(n, t)) \in Nat /\ Len(AllShown(m, t)) = Len(AllShown(n, t)) + 1
    BY <1>2, PutPlaces
  <2>2. ThingCount(n, t) \in Nat /\ Len(AllShown(n, t)) <= ThingCount(n, t)
    BY <1>1, ShownCount
  <2>3. Shown \in Nat /\ ThingCount(n, t) <= Shown - 2
    BY <1>6, <1>10, TileViewsAssumption
  <2>4. Len(AllShown(m, t)) <= Shown
    BY <2>1, <2>2, <2>3
  <2> QED
    BY <1>9, <2>4
<1> QED
  BY <1>4, <1>5, <1>8, <1>9, <1>10

\* What Hide makes of the map.
Hiding(m, t, c) ==
    LET k == StackposOfCreature(m, t, c)
        away == [AskedPlayers(m, t) EXCEPT !.hidden = m.hidden \cup {c}]
        told == Tell(away, PlayerSpectators(m, t), t, Erased(away.view[t], k))
    IN  IF k = 0 THEN away
        ELSE IF Len(AllShown(m, t)) > Shown /\ CanSee(m, t)
        THEN [told EXCEPT !.lacking = @ \cup {t}] ELSE told

\* Who hides is erased where the client has it.
LEMMA HideRight ==
    ASSUME NEW m, Right(m), NEW c \in Others, c \notin m.hidden, NEW t \in Spots, In(c, m.who[t]),
           NEW x, x = Hiding(m, t, c)
    PROVE  Right(x)
<1>21. PICK q : q = AskedPlayers(m, t)
  OBVIOUS
<1>22. PICK h : h = m.hidden \cup {c}
  OBVIOUS
<1>23. PICK n : n = [q EXCEPT !.hidden = h]
  OBVIOUS
<1>24. PICK k : k = StackposOfCreature(m, t, c)
  OBVIOUS
<1>25. PICK told : told = Tell(n, PlayerSpectators(m, t), t, Erased(n.view[t], k))
  OBVIOUS
<1>26. x = IF k = 0 THEN n
           ELSE IF Len(AllShown(m, t)) > Shown /\ CanSee(m, t)
           THEN [told EXCEPT !.lacking = @ \cup {t}] ELSE told
  BY <1>21, <1>22, <1>23, <1>24, <1>25 DEF Hiding
<1>1. Ready(m) /\ Shaped(m) /\ Placement(m)
  BY DEF Right, Ready
<1>2. m.hidden \in SUBSET Others /\ c \in Walkers
  BY <1>1 DEF Shaped, Walkers
<1>3. Ready(q) /\ Unshown(m, q) /\ SameWorld(m, q)
  BY <1>1, <1>21, AskedPlayersRight DEF Unshown
<1>4. Right(q)
  BY <1>3, UnshownRight
<1>5. q.who = m.who /\ q.hidden = m.hidden
  BY <1>3 DEF SameWorld
<1>6. h \in SUBSET Others /\ \A d : d # c => (d \in h <=> d \in q.hidden)
  BY <1>2, <1>5, <1>22
<1>7. /\ Ready(n) /\ n.who = q.who /\ n.hidden = h /\ n.view = q.view
      /\ n.lacking = q.lacking /\ n.top = q.top /\ n.down = q.down
      /\ \A u \in Spots : CanSee(n, u) = CanSee(q, u) /\ (u # t => AllShown(n, u) = AllShown(q, u))
  <2>1. In(c, q.who[t])
    BY <1>5
  <2>2. PICK g \in SUBSET Others : g = h
    BY <1>6
  <2>3. PICK o : o = [q EXCEPT !.hidden = g]
    OBVIOUS
  <2>4. \A d : d # c => (d \in g <=> d \in q.hidden)
    BY <1>6, <2>2
  <2>5. /\ Ready(o) /\ o.who = q.who /\ o.hidden = g /\ o.view = q.view
        /\ o.lacking = q.lacking /\ o.top = q.top /\ o.down = q.down
        /\ \A u \in Spots : CanSee(o, u) = CanSee(q, u) /\ (u # t => AllShown(o, u) = AllShown(q, u))
    BY <1>4, <2>1, <2>3, <2>4, HiddenBecomes
  <2>6. o = n
    BY <1>23, <2>2, <2>3
  <2> QED
    BY <2>2, <2>5, <2>6
<1>8. PICK list : list = PlayerSpectators(m, t)
  OBVIOUS
<1>9. /\ CanSee(q, t) = CanSee(m, t) /\ AllShown(q, t) = AllShown(m, t)
      /\ ClientIndexOfCreature(q, t, c) = ClientIndexOfCreature(m, t, c)
  BY <1>3, WorldSeen
<1>10. CanSee(n, t) => Watcher \in list
  <2>1. {} \in SUBSET {Watcher}
    OBVIOUS
  <2> QED
    BY <1>1, <1>7, <1>8, <1>9, <2>1, SpectatorsRight
<1>11. CreatureMore(n, q, t, c)
  <2>1. Walkers \ n.hidden = (Walkers \ q.hidden) \ {c}
    BY <1>5, <1>7, <1>22
  <2>2. Seen(n, t) = Chosen(q.who[t], (Walkers \ q.hidden) \ {c})
    BY <1>7, <2>1 DEF Seen
  <2>3. NoDuplicate(q.who[t]) /\ In(c, q.who[t]) /\ c \notin q.hidden
    BY <1>1, <1>5 DEF Placement
  <2> QED
    BY <1>7, <2>2, <2>3 DEF CreatureMore
<1>13. PICK j : j = StackposOfCreature(q, t, c)
  OBVIOUS
<1>12. PICK y : y = ToldGone(n, list, t, j)
  OBVIOUS
<1>20. j = k
  BY <1>9, <1>13, <1>24 DEF StackposOfCreature
<1>14. n.view = q.view /\ n.lacking = q.lacking /\ Ready(n)
  BY <1>7
<1>15. \A u \in Spots : CanSee(n, u) = CanSee(q, u) /\ (u # t => AllShown(n, u) = AllShown(q, u))
  BY <1>7
<1>16. /\ Ready(y) /\ SameWorld(n, y) /\ y.lacking = q.lacking
       /\ \A u \in Spots : u # t => AgreesAt(y, u)
       /\ j = 0 \/ Len(AllShown(q, t)) <= Shown => AgreesAt(y, t)
  BY <1>2, <1>4, <1>10, <1>11, <1>12, <1>13, <1>14, <1>15, TakenCreature
<1>17. CASE k = 0
  BY <1>12, <1>16, <1>17, <1>20, <1>26 DEF ToldGone, Right
<1>18. CASE k # 0 /\ Len(AllShown(m, t)) > Shown /\ CanSee(m, t)
  <2>1. y = told
    BY <1>8, <1>12, <1>18, <1>20, <1>25 DEF ToldGone
  <2>2. PICK l : l = y.lacking \cup {t}
    OBVIOUS
  <2>3. x = [y EXCEPT !.lacking = l]
    BY <1>18, <1>26, <2>1, <2>2
  <2>4. /\ x.top = y.top /\ x.down = y.down /\ x.who = y.who /\ x.hidden = y.hidden
        /\ x.view = y.view /\ x.lacking = l /\ SameCaches(y, x)
        /\ x = [top |-> x.top, down |-> x.down, who |-> x.who, hidden |-> x.hidden,
                view |-> x.view, cache |-> x.cache, players |-> x.players, lacking |-> x.lacking]
    BY <1>16, <2>3 DEF Ready, Shaped, SameCaches
  <2>5. Shaped(x) /\ SameWorld(y, x)
    BY <1>16, <2>2, <2>4 DEF Ready, Shaped, SameWorld, SameCaches
  <2>6. Ready(x)
    BY <1>16, <2>4, <2>5, CachesStayRight
  <2>7. ASSUME NEW u \in Spots, u # t PROVE AgreesAt(x, u)
    <3>1. AgreesAt(y, u) /\ x.view[u] = y.view[u] /\ (u \in y.lacking => u \in x.lacking)
      BY <1>16, <2>2, <2>4, <2>7
    <3> QED
      BY <2>5, <3>1, AgreesStill
  <2>8. AgreesAt(x, t)
    BY <2>2, <2>4 DEF AgreesAt
  <2> QED
    BY <2>6, <2>7, <2>8 DEF Right
<1>19. CASE k # 0 /\ ~(Len(AllShown(m, t)) > Shown /\ CanSee(m, t))
  <2>1. x = y
    BY <1>8, <1>12, <1>19, <1>20, <1>25, <1>26 DEF ToldGone
  <2>2. AgreesAt(y, t)
    <3>1. CASE ~CanSee(m, t)
      <4>1. CanSee(y, t) = CanSee(n, t)
        <5>1. SameWorld(n, y)
          BY <1>16
        <5> QED
          BY <5>1, WorldSeen
      <4> QED
        BY <1>7, <1>9, <3>1, <4>1 DEF AgreesAt
    <3>2. CASE ~(Len(AllShown(m, t)) > Shown)
      <4>1. Len(AllShown(q, t)) \in Nat /\ Shown \in Nat
        BY <1>3, <1>9, ShownCount, TileViewsAssumption DEF Ready
      <4> QED
        BY <1>9, <1>16, <3>2, <4>1
    <3> QED
      BY <1>19, <3>1, <3>2
  <2> QED
    BY <1>16, <2>1, <2>2 DEF Right
<1> QED
  BY <1>17, <1>18, <1>19

\* r shows what s shows but for c, whether c hides or not.
SeenWithout(s, c, r) ==
    \A h, g : h \ {c} = g \ {c} => Chosen(r, Walkers \ g) = Chosen(s, (Walkers \ h) \ {c})

Without(s, c) == Chosen(s, Walkers \ {c})

\* A tile that a creature leaves.
LEMMA LeftTile ==
    ASSUME NEW s \in Seq(Walkers), NoDuplicate(s), NEW c \in Walkers,
           NEW r, r = Without(s, c)
    PROVE  /\ r \in Seq(Walkers) /\ NoDuplicate(r)
           /\ \A y : In(y, r) <=> y # c /\ In(y, s)
           /\ SeenWithout(s, c, r)
<1>1. r \in Seq(Walkers) /\ \A y : In(y, r) <=> y \in Walkers \ {c} /\ In(y, s)
  BY ChosenIn DEF Without
<1>2. NoDuplicate(r)
  BY ChosenNoDuplicate DEF Without
<1>3. \A y : In(y, s) => y \in Walkers
  BY DEF In
<1>4. ASSUME NEW h, NEW g, h \ {c} = g \ {c}
      PROVE  Chosen(r, Walkers \ g) = Chosen(s, (Walkers \ h) \ {c})
  <2>1. PICK K : K = Walkers \ {c}
    OBVIOUS
  <2>2. PICK L : L = Walkers \ g
    OBVIOUS
  <2>3. K \cap L = (Walkers \ h) \ {c}
    BY <1>4, <2>1, <2>2
  <2>4. Chosen(Chosen(s, K), L) = Chosen(s, K \cap L)
    BY ChosenTwice
  <2> QED
    BY <2>1, <2>2, <2>3, <2>4 DEF Without
<1> QED
  BY <1>1, <1>2, <1>3, <1>4 DEF SeenWithout

\* Game::removeCreature, up to what it does when the creature has gone
Removing(m, t, c) ==
    LET k == IF c \in m.hidden THEN 0 ELSE StackposOfCreature(m, t, c)
        gone == ClearSpectatorCache([Asked(m, t, {})
                   EXCEPT !.who[t] = Chosen(@, Walkers \ {c}), !.hidden = @ \ {c}])
    IN  IF k = 0 THEN gone
        ELSE Tell(gone, Spectators(m, t, {}), t, Erased(gone.view[t], k))

\* Game::removeCreature
LEMMA RemoveRight ==
    ASSUME NEW m, Right(m), NEW c \in Others, NEW t \in Spots, In(c, m.who[t]),
           NEW x, x = Removing(m, t, c)
    PROVE  Right(PostRemove(x, t))
<1>1. Ready(m) /\ Shaped(m) /\ Placement(m)
  BY DEF Right, Ready
<1>2. m.hidden \in SUBSET Others /\ c \in Walkers /\ Watcher # c
  BY <1>1, TileViewsAssumption DEF Shaped, Walkers
<1>3. {} \in SUBSET {Watcher}
  OBVIOUS
<1>4. PICK q : q = Asked(m, t, {})
  OBVIOUS
<1>5. Ready(q) /\ Unshown(m, q) /\ SameWorld(m, q) /\ Shaped(q) /\ Placement(q)
  BY <1>1, <1>3, <1>4, AskedRight DEF Unshown, Ready
<1>6. Right(q)
  BY <1>5, UnshownRight
<1>7. q.who = m.who /\ q.hidden = m.hidden /\ m.who \in [Spots -> Seq(Walkers)]
  BY <1>1, <1>5 DEF SameWorld, Shaped
<1>8. PICK s : s = Chosen(m.who[t], Walkers \ {c})
  OBVIOUS
<1>9. m.who[t] \in Seq(Walkers) /\ NoDuplicate(m.who[t])
  BY <1>1, <1>7 DEF Placement
<1>10. /\ s \in Seq(Walkers) /\ NoDuplicate(s) /\ \A y : In(y, s) <=> y # c /\ In(y, m.who[t])
       /\ SeenWithout(m.who[t], c, s)
  <2>1. PICK l \in Seq(Walkers) : l = m.who[t]
    BY <1>9
  <2>2. NoDuplicate(l) /\ s = Without(l, c)
    BY <1>8, <1>9, <2>1 DEF Without
  <2>3. /\ s \in Seq(Walkers) /\ NoDuplicate(s) /\ \A y : In(y, s) <=> y # c /\ In(y, l)
        /\ SeenWithout(l, c, s)
    BY <1>2, <2>2, LeftTile
  <2> QED
    BY <2>1, <2>3
<1>11. PICK f : f = [m.who EXCEPT ![t] = s]
  OBVIOUS
<1>12. /\ f \in [Spots -> Seq(Walkers)] /\ f[t] = s /\ \A u \in Spots : u # t => f[u] = m.who[u]
  BY <1>7, <1>10, <1>11
<1>13. \A u \in Spots : ~In(c, m.who[u]) \/ u = t
  BY <1>1, <1>2 DEF Placement
<1>14. \A u \in Spots : \A y : In(y, f[u]) <=> y # c /\ In(y, m.who[u])
  BY <1>10, <1>12, <1>13
<1>15. PICK h : h = m.hidden \ {c}
  OBVIOUS
<1>16. WellCrowded(f, h)
  <2>1. \A u \in Spots : NoDuplicate(f[u])
    BY <1>1, <1>10, <1>12 DEF Placement
  <2>2. \A u, v \in Spots, d \in Walkers : In(d, f[u]) /\ In(d, f[v]) => u = v
    BY <1>1, <1>14 DEF Placement
  <2>3. \E u \in Spots : In(Watcher, f[u])
    BY <1>1, <1>2, <1>14 DEF Placement
  <2>4. \A d \in h : \E u \in Spots : In(d, f[u])
    BY <1>1, <1>14, <1>15 DEF Placement
  <2> QED
    BY <1>2, <1>12, <1>15, <2>1, <2>2, <2>3, <2>4 DEF WellCrowded
<1>17. PICK o : o = [q EXCEPT !.who[t] = Chosen(@, Walkers \ {c}), !.hidden = @ \ {c}]
  OBVIOUS
<1>18. Crowded(q, o, f, h)
  BY <1>5, <1>7, <1>8, <1>11, <1>15, <1>17 DEF Crowded, Shaped
<1>19. /\ Shaped(o) /\ Placement(o) /\ o.who = f /\ o.hidden = h /\ o.view = q.view
       /\ o.lacking = q.lacking /\ o.top = q.top /\ o.down = q.down
  BY <1>5, <1>16, <1>18, CrowdRight
<1>20. PICK n : n = ClearSpectatorCache(o)
  OBVIOUS
<1>21. Ready(n) /\ Unshown(o, n) /\ Shaped(n) /\ Placement(n)
  BY <1>19, <1>20, ClearRight DEF Ready
<1>22. /\ n.who = f /\ n.hidden = h /\ n.view = q.view /\ n.lacking = q.lacking
       /\ n.top = q.top /\ n.down = q.down
  BY <1>19, <1>21 DEF Unshown, SameWorld
<1>23. \A u : CanSee(n, u) = CanSee(q, u)
  <2>1. \A u \in Spots : In(Watcher, q.who[u]) => In(Watcher, n.who[u])
    BY <1>2, <1>7, <1>14, <1>22
  <2> QED
    BY <1>5, <1>21, <2>1, WatcherStays
<1>24. ASSUME NEW u \in Spots, u # t PROVE AllShown(n, u) = AllShown(q, u)
  <2>1. n.top[u] = q.top[u] /\ n.down[u] = q.down[u] /\ n.who[u] = q.who[u]
    BY <1>7, <1>12, <1>22, <1>24
  <2>2. \A d \in Walkers : In(d, q.who[u]) => (d \in n.hidden <=> d \in q.hidden)
    BY <1>7, <1>13, <1>15, <1>22, <1>24
  <2> QED
    BY <1>5, <2>1, <2>2, ShownAlike
<1>25. PICK list : list = Spectators(m, t, {})
  OBVIOUS
<1>26. CanSee(n, t) => Watcher \in list
  <2>1. CanSee(q, t) = CanSee(m, t)
    BY <1>5, WorldSeen
  <2> QED
    BY <1>1, <1>3, <1>23, <1>25, <2>1, SpectatorsRight
<1>27. Seen(n, t) = Chosen(q.who[t], (Walkers \ q.hidden) \ {c})
  <2>1. h \ {c} = m.hidden \ {c}
    BY <1>15
  <2>2. Chosen(s, Walkers \ h) = Chosen(m.who[t], (Walkers \ m.hidden) \ {c})
    BY <1>10, <2>1 DEF SeenWithout
  <2> QED
    BY <1>7, <1>12, <1>22, <2>2 DEF Seen
<1>28. CASE c \in m.hidden
  <2>1. x = n
    BY <1>4, <1>17, <1>20, <1>28 DEF Removing
  <2>2. AllShown(n, t) = AllShown(q, t)
    <3>1. (Walkers \ q.hidden) \ {c} = Walkers \ q.hidden
      BY <1>7, <1>28
    <3>2. Seen(n, t) = Seen(q, t)
      BY <1>27, <3>1 DEF Seen
    <3> QED
      BY <1>22, <3>2 DEF AllShown
  <2>3. ASSUME NEW u \in Spots PROVE AgreesAt(n, u)
    <3>1. AllShown(n, u) = AllShown(q, u) /\ AgreesAt(q, u)
      BY <1>6, <1>24, <2>2 DEF Right
    <3> QED
      BY <1>22, <1>23, <3>1, SameAgrees
  <2> QED
    BY <1>21, <2>1, <2>3, PostRemoveRight
<1>29. CASE c \notin m.hidden
  <2>1. PICK k : k = StackposOfCreature(q, t, c)
    OBVIOUS
  <2>2. k = StackposOfCreature(m, t, c)
    <3>1. ClientIndexOfCreature(q, t, c) = ClientIndexOfCreature(m, t, c)
      BY <1>5, WorldSeen
    <3> QED
      BY <2>1, <3>1 DEF StackposOfCreature
  <2>3. PICK y : y = ToldGone(n, list, t, k)
    OBVIOUS
  <2>4. x = y
    BY <1>4, <1>17, <1>20, <1>25, <1>29, <2>2, <2>3 DEF Removing, ToldGone
  <2>5. CreatureMore(n, q, t, c)
    <3>1. NoDuplicate(q.who[t]) /\ In(c, q.who[t]) /\ c \notin q.hidden
      BY <1>7, <1>9, <1>29
    <3> QED
      BY <1>22, <1>27, <3>1 DEF CreatureMore
  <2>6. \A u \in Spots : CanSee(n, u) = CanSee(q, u) /\ (u # t => AllShown(n, u) = AllShown(q, u))
    BY <1>23, <1>24
  <2>7. n.view = q.view /\ n.lacking = q.lacking
    BY <1>22
  <2>8. /\ Ready(y) /\ \A u \in Spots : u # t => AgreesAt(y, u)
        /\ ThingCount(y, t) <= Shown - 2 => AgreesAt(y, t)
    BY <1>2, <1>6, <1>21, <1>26, <2>1, <2>3, <2>5, <2>6, <2>7, TakenCreature
  <2> QED
    BY <2>4, <2>8, PostRemoveRight
<1> QED
  BY <1>28, <1>29

-----------------------------------------------------------------------------
(***************************************************************************)
(* TileViews: creatures walk.                                              *)
(***************************************************************************)
\* The creature c has gone from a tile to the last place of another.
HasWalked(m, n, c, from, t) ==
    /\ n.view = m.view /\ n.lacking = m.lacking /\ n.hidden = m.hidden
    /\ n.top = m.top /\ n.down = m.down
    /\ \A u \in Spots : u # from /\ u # t => AllShown(n, u) = AllShown(m, u)
    /\ c # Watcher => \A u : CanSee(n, u) = CanSee(m, u)
    /\ c = Watcher => TileOfCreature(n, Watcher) = t /\ TileOfCreature(m, Watcher) = from
    /\ c \in m.hidden => AllShown(n, from) = AllShown(m, from) /\ AllShown(n, t) = AllShown(m, t)
    /\ c \notin m.hidden => /\ CreatureMore(n, m, from, c) /\ CreatureMore(m, n, t, c)
                            /\ CreatureLast(m, n, t, c)

\* r shows c behind what s shows, if c does not hide.
SeenWith(s, c, r) ==
    /\ \A h : c \in h => Chosen(r, Walkers \ h) = Chosen(s, Walkers \ h)
    /\ \A h : c \notin h => Chosen(r, Walkers \ h) = Append(Chosen(s, Walkers \ h), c)

\* A tile to which a creature comes.
LEMMA ArrivedTile ==
    ASSUME NEW s \in Seq(Walkers), NoDuplicate(s), NEW c \in Walkers, ~In(c, s),
           NEW r, r = Append(s, c)
    PROVE  /\ r \in Seq(Walkers) /\ NoDuplicate(r) /\ \A y : In(y, r) <=> y = c \/ In(y, s)
           /\ SeenWithout(r, c, s) /\ SeenWith(s, c, r)
<1>1. /\ r \in Seq(Walkers) /\ NoDuplicate(r) /\ \A y : In(y, r) <=> y = c \/ In(y, s)
  BY PushBack
<1>2. ASSUME NEW h, NEW g, h \ {c} = g \ {c}
      PROVE  Chosen(s, Walkers \ g) = Chosen(r, (Walkers \ h) \ {c})
  <2>1. PICK K : K = (Walkers \ h) \ {c}
    OBVIOUS
  <2>2. PICK L : L = Walkers \ g
    OBVIOUS
  <2>3. Chosen(Append(s, c), K) = Chosen(s, K)
    BY <2>1, ChosenAppend
  <2>4. \A d \in Walkers : In(d, s) => (d \in K <=> d \in L)
    BY <1>2, <2>1, <2>2
  <2>5. Chosen(s, K) = Chosen(s, L)
    BY <2>4, ChosenSame
  <2> QED
    BY <2>1, <2>2, <2>3, <2>5
<1>3. ASSUME NEW h PROVE Chosen(r, Walkers \ h) = IF c \in h THEN Chosen(s, Walkers \ h)
                                                  ELSE Append(Chosen(s, Walkers \ h), c)
  <2>1. PICK K : K = Walkers \ h
    OBVIOUS
  <2>2. Chosen(Append(s, c), K) = IF c \in K THEN Append(Chosen(s, K), c) ELSE Chosen(s, K)
    BY ChosenAppend
  <2> QED
    BY <2>1, <2>2
<1> QED
  BY <1>1, <1>2, <1>3 DEF SeenWithout, SeenWith

\* To ask of both does no harm.
LEMMA AskedBothRight ==
    ASSUME NEW m, Right(m), NEW from \in Spots, NEW t \in Spots
    PROVE  Right(AskedBoth(m, from, t)) /\ Unshown(m, AskedBoth(m, from, t))
<1>1. Ready(m)
  BY DEF Right
<1>2. {} \in SUBSET {Watcher}
  OBVIOUS
<1>3. PICK q : q = Asked(m, from, {})
  OBVIOUS
<1>4. Ready(q) /\ Unshown(m, q)
  BY <1>1, <1>2, <1>3, AskedRight
<1>5. PICK list : list = Spectators(m, from, {})
  OBVIOUS
<1>6. list \in SUBSET {Watcher}
  BY <1>1, <1>2, <1>5, SpectatorsRight
<1>7. PICK r : r = Asked(q, t, list)
  OBVIOUS
<1>8. Ready(r) /\ Unshown(q, r)
  BY <1>4, <1>6, <1>7, AskedRight
<1>9. Unshown(m, r)
  BY <1>4, <1>8 DEF Unshown, SameWorld
<1>10. Right(r)
  BY <1>8, <1>9, UnshownRight
<1> QED
  BY <1>3, <1>5, <1>7, <1>9, <1>10 DEF AskedBoth

\* What a walk changes, before it is sent.
LEMMA WalkedRight ==
    ASSUME NEW m, Right(m), NEW c \in Walkers, NEW from \in Spots, NEW t \in Spots, from # t,
           In(c, m.who[from]), NEW n, n = Walked(m, c, from, t)
    PROVE  Ready(n) /\ HasWalked(m, n, c, from, t)
<1>1. Ready(m) /\ Shaped(m) /\ Placement(m)
  BY DEF Right, Ready
<1>2. PICK q : q = AskedBoth(m, from, t)
  OBVIOUS
<1>3. Right(q) /\ Unshown(m, q)
  BY <1>2, AskedBothRight
<1>4. Ready(q) /\ Shaped(q) /\ Placement(q) /\ SameWorld(m, q)
  BY <1>3 DEF Right, Ready, Unshown
<1>5. q.who = m.who /\ q.hidden = m.hidden /\ m.who \in [Spots -> Seq(Walkers)]
  BY <1>1, <1>4 DEF SameWorld, Shaped
<1>6. \A u \in Spots : In(c, m.who[u]) => u = from
  BY <1>1 DEF Placement
<1>7. PICK a \in Seq(Walkers) : a = m.who[from]
  BY <1>5
<1>8. PICK b \in Seq(Walkers) : b = m.who[t]
  BY <1>5
<1>9. PICK s : s = Without(a, c)
  OBVIOUS
<1>10. PICK r : r = Append(b, c)
  OBVIOUS
<1>11. NoDuplicate(a) /\ NoDuplicate(b) /\ ~In(c, b) /\ In(c, a)
  BY <1>1, <1>6, <1>7, <1>8 DEF Placement
<1>12. /\ s \in Seq(Walkers) /\ NoDuplicate(s) /\ \A y : In(y, s) <=> y # c /\ In(y, a)
       /\ SeenWithout(a, c, s)
  BY <1>9, <1>11, LeftTile
<1>13. /\ r \in Seq(Walkers) /\ NoDuplicate(r) /\ \A y : In(y, r) <=> y = c \/ In(y, b)
       /\ SeenWithout(r, c, b) /\ SeenWith(b, c, r)
  BY <1>10, <1>11, ArrivedTile
<1>14. PICK f : f = [u \in Spots |-> IF u = from THEN s ELSE IF u = t THEN r ELSE m.who[u]]
  OBVIOUS
<1>15. /\ f \in [Spots -> Seq(Walkers)] /\ f[from] = s /\ f[t] = r
       /\ \A u \in Spots : u # from /\ u # t => f[u] = m.who[u]
  BY <1>5, <1>12, <1>13, <1>14
<1>16. \A u \in Spots : \A y : In(y, f[u]) <=> IF y = c THEN u = t ELSE In(y, m.who[u])
  BY <1>6, <1>7, <1>8, <1>12, <1>13, <1>15
<1>17. PICK h : h = m.hidden
  OBVIOUS
<1>18. WellCrowded(f, h)
  <2>1. \A u \in Spots : NoDuplicate(f[u])
    BY <1>1, <1>12, <1>13, <1>15 DEF Placement
  <2>2. \A u, v \in Spots, d \in Walkers : In(d, f[u]) /\ In(d, f[v]) => u = v
    BY <1>1, <1>16 DEF Placement
  <2>3. \E u \in Spots : In(Watcher, f[u])
    BY <1>1, <1>16 DEF Placement
  <2>4. \A d \in h : \E u \in Spots : In(d, f[u])
    BY <1>1, <1>16, <1>17 DEF Placement
  <2> QED
    BY <1>1, <1>15, <1>17, <2>1, <2>2, <2>3, <2>4 DEF WellCrowded, Shaped
<1>19. PICK o : o = [q EXCEPT !.who[from] = Chosen(@, Walkers \ {c}), !.who[t] = Append(@, c)]
  OBVIOUS
<1>20. Crowded(q, o, f, h)
  <2>1. PICK e : e = [m.who EXCEPT ![from] = s]
    OBVIOUS
  <2>2. PICK g : g = [e EXCEPT ![t] = r]
    OBVIOUS
  <2>3. e \in [Spots -> Seq(Walkers)] /\ e[t] = b /\ e[from] = s
        /\ \A u \in Spots : u # from => e[u] = m.who[u]
    BY <1>5, <1>8, <1>12, <2>1
  <2>4. g = f
    BY <1>13, <1>14, <2>2, <2>3
  <2>5. q.who[from] = a /\ s = Chosen(a, Walkers \ {c}) /\ r = Append(b, c)
    BY <1>5, <1>7, <1>9, <1>10 DEF Without
  <2>6. PICK p : p = [q EXCEPT !.who[from] = Chosen(@, Walkers \ {c})]
    OBVIOUS
  <2>7. p = [q EXCEPT !.who = e] /\ p.who = e
    BY <1>4, <1>5, <2>1, <2>5, <2>6 DEF Shaped
  <2>8. o = [p EXCEPT !.who[t] = Append(@, c)]
    BY <1>19, <2>6
  <2>9. o = [p EXCEPT !.who = g]
    BY <2>2, <2>3, <2>5, <2>7, <2>8
  <2>10. o = [q EXCEPT !.who = g]
    BY <2>7, <2>9
  <2> QED
    BY <1>4, <1>5, <1>17, <2>4, <2>10 DEF Crowded, Shaped
<1>21. /\ Shaped(o) /\ Placement(o) /\ o.who = f /\ o.hidden = h /\ o.view = q.view
       /\ o.lacking = q.lacking /\ o.top = q.top /\ o.down = q.down
  BY <1>4, <1>18, <1>20, CrowdRight
<1>22. n = ClearSpectatorCache(o)
  BY <1>2, <1>19 DEF Walked
<1>23. Ready(n) /\ Unshown(o, n)
  BY <1>21, <1>22, ClearRight
<1>24. /\ n.who = f /\ n.hidden = m.hidden /\ n.view = m.view /\ n.lacking = m.lacking
       /\ n.top = m.top /\ n.down = m.down /\ Placement(n)
  BY <1>3, <1>4, <1>17, <1>21, <1>23 DEF Unshown, SameWorld, Ready
<1>25. ASSUME c # Watcher PROVE \A u : CanSee(n, u) = CanSee(m, u)
  <2>1. \A u \in Spots : In(Watcher, m.who[u]) => In(Watcher, n.who[u])
    BY <1>16, <1>24, <1>25
  <2> QED
    BY <1>1, <1>24, <2>1, WatcherStays
<1>26. ASSUME c = Watcher
       PROVE  TileOfCreature(n, Watcher) = t /\ TileOfCreature(m, Watcher) = from
  <2>1. In(c, n.who[t])
    BY <1>16, <1>24
  <2>2. TileOfCreature(n, c) = t
    BY <1>24, <2>1, StandsOnOne
  <2>3. TileOfCreature(m, c) = from
    BY <1>1, StandsOnOne
  <2> QED
    BY <1>26, <2>2, <2>3
<1>27. ASSUME NEW u \in Spots, u # from, u # t PROVE AllShown(n, u) = AllShown(m, u)
  <2>1. n.top[u] = m.top[u] /\ n.down[u] = m.down[u] /\ n.who[u] = m.who[u]
    BY <1>15, <1>24, <1>27
  <2>2. \A d \in Walkers : In(d, m.who[u]) => (d \in n.hidden <=> d \in m.hidden)
    BY <1>24
  <2> QED
    BY <1>1, <2>1, <2>2, ShownAlike
<1>28. /\ Seen(n, from) = Chosen(a, (Walkers \ m.hidden) \ {c})
       /\ Seen(m, t) = Chosen(r, (Walkers \ m.hidden) \ {c})
  <2>1. \A g : Chosen(s, Walkers \ g) = Chosen(a, (Walkers \ g) \ {c})
    BY <1>12 DEF SeenWithout
  <2>2. \A g : Chosen(b, Walkers \ g) = Chosen(r, (Walkers \ g) \ {c})
    BY <1>13 DEF SeenWithout
  <2> QED
    BY <1>8, <1>15, <1>24, <2>1, <2>2 DEF Seen
<1>29. ASSUME c \in m.hidden
       PROVE  AllShown(n, from) = AllShown(m, from) /\ AllShown(n, t) = AllShown(m, t)
  <2>1. (Walkers \ m.hidden) \ {c} = Walkers \ m.hidden
    BY <1>29
  <2>2. Seen(n, from) = Seen(m, from)
    BY <1>7, <1>28, <2>1 DEF Seen
  <2>3. Seen(n, t) = Seen(m, t)
    BY <1>15, <1>24, <1>28, <2>1 DEF Seen
  <2> QED
    BY <1>24, <2>2, <2>3 DEF AllShown
<1>30. ASSUME c \notin m.hidden
       PROVE  /\ CreatureMore(n, m, from, c) /\ CreatureMore(m, n, t, c)
              /\ CreatureLast(m, n, t, c)
  <2>1. CreatureMore(n, m, from, c)
    BY <1>7, <1>11, <1>24, <1>28, <1>30 DEF CreatureMore
  <2>2. CreatureMore(m, n, t, c)
    BY <1>13, <1>15, <1>24, <1>28, <1>30 DEF CreatureMore
  <2>3. Seen(n, t) = Append(Seen(m, t), c)
    BY <1>8, <1>13, <1>15, <1>24, <1>30 DEF Seen, SeenWith
  <2> QED
    BY <1>24, <2>1, <2>2, <2>3 DEF CreatureLast
<1> QED
  BY <1>23, <1>24, <1>25, <1>26, <1>27, <1>29, <1>30 DEF HasWalked

\* sendMoveCreature to one who sees both tiles: what it changes
LEMMA SteppedRight ==
    ASSUME NEW m, NEW n, Right(m), Ready(n), NEW c \in Walkers, NEW from \in Spots, NEW t \in Spots,
           from # t, HasWalked(m, n, c, from, t), c \notin m.hidden, CanSee(m, from),
           NEW old, old = ClientIndexOfCreature(m, from, c), old <= Shown, NEW has,
           NEW s, s = Stepped(n, c, from, t, old, has)
    PROVE  /\ Shaped(s) /\ SameWorld(n, s) /\ SameCaches(n, s)
           /\ \A u \in Spots : u # from /\ u # t => s.view[u] = m.view[u]
           /\ \A u \in m.lacking : u \in s.lacking
           /\ from \in s.lacking \/ s.view[from] = Erased(m.view[from], old)
           /\ t \in s.lacking \/ s.view[t] = Arrived(m.view[t], c)
<1>1. Shaped(m) /\ Shaped(n) /\ Ready(m) /\ n.view = m.view /\ n.lacking = m.lacking
  BY DEF Right, Ready, HasWalked
<1>2. CreatureMore(n, m, from, c)
  BY DEF HasWalked
<1>3. PICK p \in Nat : /\ p > 0 /\ c \in Things /\ ClientIndexOfCreature(m, from, c) = p
                       /\ StackposOfCreature(m, from, c) = Within(p)
                       /\ PutInto(Things, AllShown(n, from), AllShown(m, from), p, c)
  BY <1>1, <1>2, CreaturePlace
<1>4. old = p /\ Within(p) # 0
  BY <1>3 DEF Within
<1>5. p \in DOMAIN TileDescription(m, from) /\ TileDescription(m, from)[p] = c
  BY <1>3, <1>4, ShownMore
<1>6. from \notin m.lacking => old \in DOMAIN n.view[from] /\ n.view[from][old] = c
  <2>1. AgreesAt(m, from)
    BY DEF Right
  <2> QED
    BY <1>1, <1>4, <1>5, <2>1 DEF AgreesAt
<1>7. CASE from \in m.lacking /\ ~has
  <2>1. PICK l : l = n.lacking \cup {t}
    OBVIOUS
  <2>2. s = [n EXCEPT !.lacking = l]
    BY <1>1, <1>7, <2>1 DEF Stepped
  <2>3. /\ s.top = n.top /\ s.down = n.down /\ s.who = n.who /\ s.hidden = n.hidden
        /\ s.view = n.view /\ s.lacking = l /\ SameCaches(n, s)
        /\ s = [top |-> s.top, down |-> s.down, who |-> s.who, hidden |-> s.hidden,
                view |-> s.view, cache |-> s.cache, players |-> s.players, lacking |-> s.lacking]
    BY <1>1, <2>2 DEF Shaped, SameCaches
  <2>4. Shaped(s) /\ SameWorld(n, s)
    BY <1>1, <2>1, <2>3 DEF Shaped, SameWorld, SameCaches
  <2> QED
    BY <1>1, <1>7, <2>1, <2>3, <2>4
<1>8. CASE ~(from \in m.lacking /\ ~has)
  <2>1. PICK e : e = Erased(n.view[from], old)
    OBVIOUS
  <2>2. PICK a : a = Arrived(n.view[t], c)
    OBVIOUS
  <2>3. PICK v : v = [u \in Spots |-> IF u = from THEN e ELSE IF u = t THEN a ELSE n.view[u]]
    OBVIOUS
  <2>4. PICK g : g = [n.view EXCEPT ![from] = e]
    OBVIOUS
  <2>5. n.view = [u \in Spots |-> n.view[u]]
    BY <1>1 DEF Shaped
  <2>6. g = [u \in Spots |-> IF u = from THEN e ELSE n.view[u]]
    BY <2>4, <2>5
  <2>7. g[t] = n.view[t] /\ [g EXCEPT ![t] = a] = v
    BY <2>3, <2>6
  <2>8. PICK o : o = [n EXCEPT !.view[from] = Erased(@, old)]
    OBVIOUS
  <2>9. o = [n EXCEPT !.view = g] /\ o.view = g
    BY <1>1, <2>1, <2>4, <2>8 DEF Shaped
  <2>10. s = [o EXCEPT !.view[t] = Arrived(@, c)]
    <3>1. PICK z : z = [n EXCEPT !.view[from] = Erased(@, old), !.view[t] = Arrived(@, c)]
      OBVIOUS
    <3>2. s = z
      BY <1>1, <1>6, <1>8, <3>1 DEF Stepped
    <3>3. z = [o EXCEPT !.view[t] = Arrived(@, c)]
      BY <2>8, <3>1
    <3> QED
      BY <3>2, <3>3
  <2>11. s = [o EXCEPT !.view = v]
    BY <2>2, <2>7, <2>9, <2>10
  <2>12. s = [n EXCEPT !.view = v]
    BY <2>9, <2>11
  <2>13. /\ s.top = n.top /\ s.down = n.down /\ s.who = n.who /\ s.hidden = n.hidden
         /\ s.view = v /\ s.lacking = n.lacking /\ SameCaches(n, s)
         /\ s = [top |-> s.top, down |-> s.down, who |-> s.who, hidden |-> s.hidden,
                 view |-> s.view, cache |-> s.cache, players |-> s.players, lacking |-> s.lacking]
    BY <1>1, <2>12 DEF Shaped, SameCaches
  <2>14. s.view = [u \in Spots |-> s.view[u]]
    BY <2>3, <2>13
  <2>15. Shaped(s) /\ SameWorld(n, s)
    BY <1>1, <2>13, <2>14 DEF Shaped, SameWorld, SameCaches
  <2> QED
    BY <1>1, <2>1, <2>2, <2>3, <2>13, <2>15
<1> QED
  BY <1>7, <1>8

\* The tile that c has left.
LEMMA LeftBehind ==
    ASSUME NEW m, NEW n, NEW s, Right(m), Ready(n), NEW c \in Walkers, NEW from \in Spots, NEW t \in Spots,
           HasWalked(m, n, c, from, t), c \notin m.hidden, SameWorld(n, s),
           CanSee(n, from) => CanSee(m, from), from \in m.lacking => from \in s.lacking,
           NEW old, old = ClientIndexOfCreature(m, from, c),
           CanSee(n, from) => \/ from \in s.lacking
                              \/ s.view[from] = IF old > Shown THEN m.view[from]
                                                ELSE Erased(m.view[from], old)
    PROVE  ThingCount(s, from) <= Shown - 2 => AgreesAt(s, from)
<1>1. Shaped(m) /\ Shaped(n) /\ Ready(m)
  BY DEF Right, Ready
<1>2. CreatureMore(n, m, from, c)
  BY DEF HasWalked
<1>3. PICK p \in Nat : /\ p > 0 /\ c \in Things /\ ClientIndexOfCreature(m, from, c) = p
                       /\ StackposOfCreature(m, from, c) = Within(p)
                       /\ PutInto(Things, AllShown(n, from), AllShown(m, from), p, c)
  BY <1>1, <1>2, CreaturePlace
<1>4. old = p /\ Shown \in Nat /\ (Within(p) = 0 <=> old > Shown)
  BY <1>3, TileViewsAssumption DEF Within
<1>5. /\ AllShown(s, from) = AllShown(n, from) /\ CanSee(s, from) = CanSee(n, from)
      /\ ThingCount(s, from) = ThingCount(n, from)
  BY WorldSeen
<1>6. SUFFICES ASSUME ThingCount(s, from) <= Shown - 2, from \notin s.lacking
               PROVE  AgreesAt(s, from)
  BY DEF AgreesAt
<1>7. Len(AllShown(m, from)) <= Shown
  <2>1. Len(AllShown(n, from)) \in Nat /\ Len(AllShown(m, from)) = Len(AllShown(n, from)) + 1
    BY <1>3, PutPlaces
  <2>2. ThingCount(n, from) \in Nat /\ Len(AllShown(n, from)) <= ThingCount(n, from)
    BY <1>1, ShownCount
  <2> QED
    BY <1>4, <1>5, <1>6, <2>1, <2>2
<1>8. CanSee(s, from) => s.view[from] = IF Within(p) = 0 THEN m.view[from] ELSE Erased(m.view[from], p)
  BY <1>4, <1>5, <1>6
<1>9. AgreesAt(m, from) /\ (CanSee(s, from) => CanSee(m, from))
  BY <1>5 DEF Right
<1>10. PutInto(Things, AllShown(s, from), AllShown(m, from), p, c)
  BY <1>3, <1>5
<1> QED
  BY <1>3, <1>7, <1>8, <1>9, <1>10, TakenAgrees

\* The other tiles.
LEMMA ElsewhereAgrees ==
    ASSUME NEW m, NEW n, NEW s, Right(m), NEW c, NEW from, NEW t, HasWalked(m, n, c, from, t),
           SameWorld(n, s), NEW u \in Spots, u # from, u # t, CanSee(n, u) => CanSee(m, u),
           s.view[u] = m.view[u], u \in m.lacking => u \in s.lacking
    PROVE  AgreesAt(s, u)
<1>1. AllShown(s, u) = AllShown(n, u) /\ CanSee(s, u) = CanSee(n, u)
  BY WorldSeen
<1>2. AllShown(n, u) = AllShown(m, u) /\ AgreesAt(m, u)
  BY DEF HasWalked, Right
<1> QED
  BY <1>1, <1>2, SameAgrees

\* The tile to which c has come, if the client has it come behind the others.
LEMMA ArrivedThere ==
    ASSUME NEW m, NEW n, NEW s, Right(m), Shaped(s), NEW c \in Walkers, NEW from, NEW t \in Spots,
           HasWalked(m, n, c, from, t), c \notin m.hidden, SameWorld(n, s),
           CanSee(n, t) => CanSee(m, t), t \in m.lacking => t \in s.lacking,
           CanSee(n, t) => t \in s.lacking \/ s.view[t] = Arrived(m.view[t], c)
    PROVE  AgreesAt(s, t)
<1>1. CASE t \in s.lacking
  BY <1>1 DEF AgreesAt
<1>2. CASE t \notin s.lacking
  <2>1. Seen(s, t) = Seen(n, t) /\ CanSee(s, t) = CanSee(n, t)
    BY WorldSeen
  <2>2. CreatureLast(m, s, t, c)
    BY <2>1 DEF HasWalked, CreatureLast, SameWorld
  <2>3. Shaped(m) /\ AgreesAt(m, t)
    BY DEF Right, Ready
  <2>4. CanSee(s, t) => s.view[t] = Arrived(m.view[t], c)
    BY <1>2, <2>1
  <2> QED
    BY <2>1, <2>2, <2>3, <2>4, ArrivedAgrees
<1> QED
  BY <1>1, <1>2

\* sendMoveCreature of another
LEMMA OthersMoveRight ==
    ASSUME NEW m, NEW n, Right(m), Ready(n), NEW c \in Walkers, NEW from \in Spots, NEW t \in Spots,
           from # t, HasWalked(m, n, c, from, t), c \notin m.hidden, c # Watcher,
           NEW old, old = ClientIndexOfCreature(m, from, c), NEW teleport, NEW has,
           NEW s, s = SendOthersMove(n, c, from, t, old, teleport, has)
    PROVE  /\ Ready(s) /\ SameWorld(n, s) /\ \A u \in Spots : u # from => AgreesAt(s, u)
           /\ ThingCount(s, from) <= Shown - 2 => AgreesAt(s, from)
<1>1. Shaped(m) /\ Shaped(n) /\ Ready(m) /\ n.view = m.view /\ n.lacking = m.lacking
  BY DEF Right, Ready, HasWalked
<1>2. \A u : CanSee(n, u) = CanSee(m, u)
  BY DEF HasWalked
<1>3. CreatureMore(n, m, from, c) /\ CreatureMore(m, n, t, c)
  BY DEF HasWalked
<1>4. PICK p \in Nat : /\ p > 0 /\ c \in Things /\ ClientIndexOfCreature(m, from, c) = p
                       /\ StackposOfCreature(m, from, c) = Within(p)
                       /\ PutInto(Things, AllShown(n, from), AllShown(m, from), p, c)
  BY <1>1, <1>3, CreaturePlace
<1>5. PICK g \in Nat : /\ g > 0 /\ c \in Things /\ ClientIndexOfCreature(n, t, c) = g
                       /\ StackposOfCreature(n, t, c) = Within(g)
                       /\ PutInto(Things, AllShown(m, t), AllShown(n, t), g, c)
  BY <1>1, <1>3, CreaturePlace
<1>6. old = p /\ Shown \in Nat
  BY <1>4, TileViewsAssumption
<1>7. CASE CanSee(n, from) /\ CanSee(n, t) /\ ~teleport /\ old <= Shown
  <2>1. PICK y : y = Stepped(n, c, from, t, old, has)
    OBVIOUS
  <2>2. s = y
    BY <1>7, <2>1 DEF SendOthersMove
  <2>3. /\ Shaped(y) /\ SameWorld(n, y) /\ SameCaches(n, y)
        /\ \A u \in Spots : u # from /\ u # t => y.view[u] = m.view[u]
        /\ \A u \in m.lacking : u \in y.lacking
        /\ from \in y.lacking \/ y.view[from] = Erased(m.view[from], old)
        /\ t \in y.lacking \/ y.view[t] = Arrived(m.view[t], c)
    BY <1>2, <1>7, <2>1, SteppedRight
  <2>4. Ready(y)
    BY <2>3, CachesStayRight
  <2>5. \A u \in Spots : u # from /\ u # t => AgreesAt(y, u)
    BY <1>2, <2>3, ElsewhereAgrees
  <2>6. AgreesAt(y, t)
    BY <1>2, <2>3, ArrivedThere
  <2>7. ThingCount(y, from) <= Shown - 2 => AgreesAt(y, from)
    <3>1. CanSee(n, from) => \/ from \in y.lacking
                             \/ y.view[from] = IF old > Shown THEN m.view[from]
                                               ELSE Erased(m.view[from], old)
      BY <1>6, <1>7, <2>3
    <3> QED
      BY <1>2, <2>3, <3>1, LeftBehind
  <2> QED
    BY <2>2, <2>3, <2>4, <2>5, <2>6, <2>7
<1>8. CASE ~(CanSee(n, from) /\ CanSee(n, t) /\ ~teleport /\ old <= Shown)
  <2>1. PICK k : k = IF old <= Shown THEN old ELSE 0
    OBVIOUS
  <2>2. PICK list : list = {Watcher}
    OBVIOUS
  <2>3. PICK left : left = ToldGone(n, list, from, k)
    OBVIOUS
  <2>4. PICK y : y = SendAddCreature(left, list, t, c)
    OBVIOUS
  <2>5. left = IF old <= Shown /\ CanSee(n, from) THEN [n EXCEPT !.view[from] = Erased(@, old)] ELSE n
    BY <1>4, <1>6, <2>1, <2>2, <2>3 DEF ToldGone, Tell
  <2>6. s = y
    BY <1>8, <2>2, <2>4, <2>5 DEF SendOthersMove
  <2>7. /\ Shaped(left) /\ SameWorld(n, left) /\ SameCaches(n, left) /\ left.lacking = n.lacking
        /\ \A u \in Spots : left.view[u] = IF u = from /\ k # 0 /\ Watcher \in list /\ CanSee(n, from)
                                           THEN Erased(n.view[from], k) ELSE n.view[u]
    <3>1. Shaped(n)
      BY <1>1
    <3> QED
      BY <2>3, <3>1, ToldGoneRight
  <2>8. PICK j : j = StackposOfCreature(left, t, c)
    OBVIOUS
  <2>9. /\ Shaped(y) /\ SameWorld(left, y) /\ SameCaches(left, y) /\ y.lacking = left.lacking
        /\ \A u \in Spots : y.view[u] = IF u = t /\ j # 0 /\ Watcher \in list /\ CanSee(left, t)
                                        THEN Inserted(left.view[t], j, c) ELSE left.view[u]
    BY <2>4, <2>7, <2>8, SendAddRight
  <2>10. SameWorld(n, y) /\ SameCaches(n, y) /\ y.lacking = m.lacking
    BY <1>1, <2>7, <2>9 DEF SameWorld, SameCaches
  <2>11. Ready(y)
    BY <2>9, <2>10, CachesStayRight
  <2>12. j = Within(g) /\ CanSee(left, t) = CanSee(n, t) /\ (j # 0 => j = g)
    <3>1. ClientIndexOfCreature(left, t, c) = ClientIndexOfCreature(n, t, c) /\ CanSee(left, t) = CanSee(n, t)
      BY <2>7, WorldSeen
    <3> QED
      BY <1>5, <2>8, <3>1 DEF StackposOfCreature, Within
  <2>13. ASSUME NEW u \in Spots, u # from, u # t PROVE AgreesAt(y, u)
    <3>1. y.view[u] = m.view[u]
      BY <1>1, <2>7, <2>9, <2>13
    <3> QED
      BY <1>2, <2>10, <2>13, <3>1, ElsewhereAgrees
  <2>14. AgreesAt(y, t)
    <3>1. AllShown(y, t) = AllShown(n, t) /\ CanSee(y, t) = CanSee(n, t)
      BY <2>10, WorldSeen
    <3>2. left.view[t] = m.view[t] /\ Watcher \in list
      BY <1>1, <2>2, <2>7
    <3>3. CanSee(y, t) => y.view[t] = IF Within(g) = 0 THEN m.view[t] ELSE Inserted(m.view[t], g, c)
      BY <2>9, <2>12, <3>1, <3>2
    <3>4. PutInto(Things, AllShown(m, t), AllShown(y, t), g, c) /\ AgreesAt(m, t)
      BY <1>5, <3>1 DEF Right
    <3>5. CanSee(y, t) => CanSee(m, t)
      BY <1>2, <3>1
    <3> QED
      BY <1>5, <2>10, <3>3, <3>4, <3>5, AddedAgrees
  <2>15. ThingCount(y, from) <= Shown - 2 => AgreesAt(y, from)
    <3>1. CanSee(n, from) => y.view[from] = IF old > Shown THEN m.view[from]
                                            ELSE Erased(m.view[from], old)
      BY <1>1, <1>4, <1>6, <2>1, <2>2, <2>7, <2>9
    <3> QED
      BY <1>2, <2>10, <3>1, LeftBehind
  <2> QED
    BY <2>6, <2>10, <2>11, <2>13, <2>14, <2>15
<1> QED
  BY <1>7, <1>8

\* A tile that has just been described, or is out of sight, is right.
LEMMA DescribedAgrees ==
    ASSUME NEW m, Shaped(m), NEW tiles, NEW d, d = Described(m, tiles), NEW x, x = OnlyInSight(d),
           NEW u \in Spots, CanSee(m, u) => u \in tiles
    PROVE  AgreesAt(x, u)
<1>1. /\ Shaped(d) /\ SameWorld(m, d)
      /\ \A v \in Spots : d.view[v] = IF v \in tiles THEN TileDescription(m, v) ELSE m.view[v]
  BY DescribedRight
<1>2. /\ SameWorld(d, x)
      /\ \A v \in Spots : x.view[v] = IF CanSee(d, v) THEN d.view[v] ELSE <<>>
  BY <1>1, OnlyInSightRight
<1>3. CanSee(d, u) = CanSee(m, u) /\ TileDescription(d, u) = TileDescription(m, u)
  BY <1>1, WorldSeen
<1>4. CanSee(x, u) = CanSee(d, u) /\ TileDescription(x, u) = TileDescription(d, u)
  BY <1>2, WorldSeen
<1> QED
  BY <1>1, <1>2, <1>3, <1>4 DEF AgreesAt

\* sendMoveCreature of the watcher itself
LEMMA OwnMoveRight ==
    ASSUME NEW m, NEW n, Right(m), Ready(n), NEW from \in Spots, NEW t \in Spots,
           from # t, HasWalked(m, n, Watcher, from, t), Watcher \notin m.hidden,
           NEW old, old = ClientIndexOfCreature(m, from, Watcher), NEW teleport, NEW has,
           NEW x, x = SendOwnMove(n, from, t, old, teleport, has)
    PROVE  /\ Ready(x) /\ SameWorld(n, x) /\ \A u \in Spots : u # from => AgreesAt(x, u)
           /\ ThingCount(x, from) <= Shown - 2 => AgreesAt(x, from)
<1>1. Shaped(m) /\ Shaped(n) /\ Ready(m) /\ n.view = m.view /\ n.lacking = m.lacking
  BY DEF Right, Ready, HasWalked
<1>2. TileOfCreature(n, Watcher) = t /\ TileOfCreature(m, Watcher) = from
  BY DEF HasWalked
<1>3. Watcher \in Walkers
  BY DEF Walkers
<1>4. PICK seen : seen = {u \in Spots : CanSee(n, u)}
  OBVIOUS
<1>5. PICK known : known = {u \in Spots : CanSee(m, u)}
  OBVIOUS
<1>6. known = {u \in Spots : Apart(from, u) <= Sight}
  BY <1>2, <1>5 DEF CanSee
<1>7. CanSee(m, from)
  <2>1. from \in Int /\ Sight \in Nat
    BY TileViewsAssumption DEF Spots
  <2>2. Apart(from, from) = 0
    BY <2>1 DEF Apart
  <2> QED
    BY <1>2, <2>1, <2>2 DEF CanSee
<1>8. old \in Nat /\ Shown \in Nat
  <2>1. CreatureMore(n, m, from, Watcher)
    BY DEF HasWalked
  <2>2. ClientIndexOfCreature(m, from, Watcher) \in Nat
    BY <1>1, <1>3, <2>1, CreaturePut
  <2> QED
    BY <2>2, TileViewsAssumption
<1>9. CASE teleport \/ old > Shown
  <2>1. PICK d : d = Described(n, seen)
    OBVIOUS
  <2>2. PICK y : y = OnlyInSight(d)
    OBVIOUS
  <2>3. x = y
    BY <1>4, <1>9, <2>1, <2>2 DEF SendOwnMove
  <2>4. Shaped(d) /\ SameWorld(n, d) /\ SameCaches(n, d)
    BY <1>1, <2>1, DescribedRight
  <2>5. Shaped(y) /\ SameWorld(d, y) /\ SameCaches(d, y)
    BY <2>2, <2>4, OnlyInSightRight
  <2>6. SameWorld(n, y) /\ Ready(y)
    <3>1. SameWorld(n, y) /\ SameCaches(n, y)
      BY <2>4, <2>5 DEF SameWorld, SameCaches
    <3> QED
      BY <2>5, <3>1, CachesStayRight
  <2>7. ASSUME NEW u \in Spots PROVE AgreesAt(y, u)
    <3>1. CanSee(n, u) => u \in seen
      BY <1>4
    <3> QED
      BY <1>1, <2>1, <2>2, <3>1, DescribedAgrees
  <2> QED
    BY <2>3, <2>6, <2>7
<1>10. CASE ~(teleport \/ old > Shown)
  <2>1. PICK s : s = Stepped(n, Watcher, from, t, old, has)
    OBVIOUS
  <2>2. PICK tiles : tiles = seen \ known
    OBVIOUS
  <2>3. PICK d : d = Described(s, tiles)
    OBVIOUS
  <2>4. PICK y : y = OnlyInSight(d)
    OBVIOUS
  <2>5. x = y
    BY <1>4, <1>6, <1>10, <2>1, <2>2, <2>3, <2>4 DEF SendOwnMove
  <2>6. old <= Shown
    BY <1>8, <1>10
  <2>7. /\ Shaped(s) /\ SameWorld(n, s) /\ SameCaches(n, s)
        /\ \A u \in Spots : u # from /\ u # t => s.view[u] = m.view[u]
        /\ \A u \in m.lacking : u \in s.lacking
        /\ from \in s.lacking \/ s.view[from] = Erased(m.view[from], old)
        /\ t \in s.lacking \/ s.view[t] = Arrived(m.view[t], Watcher)
    BY <1>3, <1>7, <2>1, <2>6, SteppedRight
  <2>8. /\ Shaped(d) /\ SameWorld(s, d) /\ SameCaches(s, d) /\ d.lacking = s.lacking \ tiles
        /\ \A u \in Spots : d.view[u] = IF u \in tiles THEN TileDescription(s, u) ELSE s.view[u]
    BY <2>3, <2>7, DescribedRight
  <2>9. /\ Shaped(y) /\ SameWorld(d, y) /\ SameCaches(d, y)
        /\ y.lacking = {u \in d.lacking : CanSee(d, u)}
        /\ \A u \in Spots : y.view[u] = IF CanSee(d, u) THEN d.view[u] ELSE <<>>
    BY <2>4, <2>8, OnlyInSightRight
  <2>10. SameWorld(n, y) /\ Ready(y)
    <3>1. SameWorld(n, y) /\ SameCaches(n, y)
      BY <2>7, <2>8, <2>9 DEF SameWorld, SameCaches
    <3> QED
      BY <2>9, <3>1, CachesStayRight
  <2>11. \A u \in Spots : CanSee(s, u) = CanSee(n, u) /\ CanSee(d, u) = CanSee(n, u)
    <3>1. SameWorld(n, d)
      BY <2>7, <2>8 DEF SameWorld
    <3>2. \A u : CanSee(s, u) = CanSee(n, u)
      BY <2>7, WorldSeen
    <3>3. \A u : CanSee(d, u) = CanSee(n, u)
      BY <3>1, WorldSeen
    <3> QED
      BY <3>2, <3>3
  <2>12. ASSUME NEW u \in Spots, ~CanSee(n, u) \/ ~CanSee(m, u) PROVE AgreesAt(y, u)
    <3>1. CanSee(s, u) => u \in tiles
      BY <1>4, <1>5, <2>2, <2>11, <2>12
    <3> QED
      BY <2>3, <2>4, <2>7, <3>1, DescribedAgrees
  <2>13. ASSUME NEW u \in Spots, CanSee(n, u), CanSee(m, u)
         PROVE  y.view[u] = s.view[u] /\ (u \in s.lacking => u \in y.lacking)
    <3>1. u \notin tiles
      BY <1>5, <2>2, <2>13
    <3> QED
      BY <2>8, <2>9, <2>11, <2>13, <3>1
  <2>14. ASSUME NEW u \in Spots, u # from, u # t, CanSee(n, u), CanSee(m, u) PROVE AgreesAt(y, u)
    <3>1. y.view[u] = m.view[u] /\ (u \in m.lacking => u \in y.lacking)
      BY <2>7, <2>13, <2>14
    <3> QED
      BY <2>10, <2>14, <3>1, ElsewhereAgrees
  <2>15. ASSUME CanSee(n, t), CanSee(m, t) PROVE AgreesAt(y, t)
    <3>1. t \in y.lacking \/ y.view[t] = Arrived(m.view[t], Watcher)
      BY <2>7, <2>13, <2>15
    <3>2. t \in m.lacking => t \in y.lacking
      BY <2>7, <2>13, <2>15
    <3> QED
      BY <1>3, <2>9, <2>10, <2>15, <3>1, <3>2, ArrivedThere
  <2>16. ASSUME CanSee(n, from), CanSee(m, from)
         PROVE  ThingCount(y, from) <= Shown - 2 => AgreesAt(y, from)
    <3>1. from \in y.lacking \/ y.view[from] = IF old > Shown THEN m.view[from]
                                               ELSE Erased(m.view[from], old)
      BY <1>8, <2>6, <2>7, <2>13, <2>16
    <3>2. from \in m.lacking => from \in y.lacking
      BY <2>7, <2>13, <2>16
    <3> QED
      BY <1>3, <2>10, <2>16, <3>1, <3>2, LeftBehind
  <2> QED
    BY <2>5, <2>10, <2>12, <2>14, <2>15, <2>16
<1> QED
  BY <1>9, <1>10

\* Who is not told sees neither tile.
LEMMA NotTold ==
    ASSUME NEW m, Right(m), NEW from \in Spots, NEW t \in Spots,
           Watcher \notin Spectators(Asked(m, from, {}), t, Spectators(m, from, {}))
    PROVE  ~CanSee(m, from) /\ ~CanSee(m, t)
<1>1. Ready(m)
  BY DEF Right
<1>2. {} \in SUBSET {Watcher}
  OBVIOUS
<1>3. PICK q : q = Asked(m, from, {})
  OBVIOUS
<1>4. PICK list : list = Spectators(m, from, {})
  OBVIOUS
<1>5. Ready(q) /\ SameWorld(m, q)
  BY <1>1, <1>2, <1>3, AskedRight DEF Unshown
<1>6. list \in SUBSET {Watcher} /\ (CanSee(m, from) => Watcher \in list)
  BY <1>1, <1>2, <1>4, SpectatorsRight
<1>7. CanSee(q, t) => Watcher \in Spectators(q, t, list)
  BY <1>5, <1>6, SpectatorsRight
<1>8. CanSee(q, t) = CanSee(m, t)
  BY <1>5, WorldSeen
<1>9. Watcher \notin Spectators(q, t, list)
  BY <1>3, <1>4
<1>10. Watcher \notin list
  BY <1>9 DEF Spectators
<1> QED
  BY <1>6, <1>7, <1>8, <1>9, <1>10

\* The watcher sees its own tile.
LEMMA SeesItself ==
    ASSUME NEW m, NEW from \in Spots, TileOfCreature(m, Watcher) = from
    PROVE  CanSee(m, from)
<1>1. from \in Int /\ Sight \in Nat
  BY TileViewsAssumption DEF Spots
<1>2. Apart(from, from) = 0
  BY <1>1 DEF Apart
<1> QED
  BY <1>1, <1>2 DEF CanSee

\* Map::moveCreature, but for the two notifications
LEMMA WalkingRight ==
    ASSUME NEW m, Right(m), NEW c \in Walkers, NEW from \in Spots, NEW t \in Spots, from # t,
           In(c, m.who[from]), NEW teleport, NEW has, NEW s, s = Walking(m, c, from, t, teleport, has)
    PROVE  /\ Ready(s) /\ \A u \in Spots : u # from => AgreesAt(s, u)
           /\ ThingCount(s, from) <= Shown - 2 => AgreesAt(s, from)
<1>1. PICK n : n = Walked(m, c, from, t)
  OBVIOUS
<1>2. PICK old : old = ClientIndexOfCreature(m, from, c)
  OBVIOUS
<1>3. Ready(n) /\ HasWalked(m, n, c, from, t)
  BY <1>1, WalkedRight
<1>4. PICK list : list = Spectators(Asked(m, from, {}), t, Spectators(m, from, {}))
  OBVIOUS
<1>5. s = IF Watcher \notin list \/ c \in m.hidden THEN n
          ELSE IF c = Watcher THEN SendOwnMove(n, from, t, old, teleport, has)
          ELSE SendOthersMove(n, c, from, t, old, teleport, has)
  BY <1>1, <1>2, <1>4 DEF Walking
<1>6. Watcher \notin m.hidden
  BY TileViewsAssumption DEF Right, Ready, Shaped
<1>7. /\ n.view = m.view /\ n.lacking = m.lacking
      /\ \A u \in Spots : u # from /\ u # t => AllShown(n, u) = AllShown(m, u)
      /\ c # Watcher => \A u : CanSee(n, u) = CanSee(m, u)
      /\ c = Watcher => TileOfCreature(m, Watcher) = from
      /\ c \in m.hidden => AllShown(n, from) = AllShown(m, from) /\ AllShown(n, t) = AllShown(m, t)
  BY <1>3 DEF HasWalked
<1>8. CASE Watcher \notin list
  <2>1. ~CanSee(m, from) /\ ~CanSee(m, t)
    BY <1>4, <1>8, NotTold
  <2>2. c # Watcher
    BY <1>7, <2>1, SeesItself
  <2>3. \A u : CanSee(n, u) = CanSee(m, u)
    BY <1>7, <2>2
  <2>4. ASSUME NEW u \in Spots PROVE AgreesAt(n, u)
    <3>1. CASE u = from \/ u = t
      BY <2>1, <2>3, <3>1 DEF AgreesAt
    <3>2. CASE u # from /\ u # t
      <4>1. AllShown(n, u) = AllShown(m, u) /\ AgreesAt(m, u)
        BY <1>7, <3>2 DEF Right
      <4> QED
        BY <1>7, <2>3, <4>1, SameAgrees
    <3> QED
      BY <3>1, <3>2
  <2>5. s = n
    BY <1>5, <1>8
  <2> QED
    BY <1>3, <2>4, <2>5
<1>9. CASE c \in m.hidden
  <2>1. c # Watcher
    BY <1>6, <1>9
  <2>2. ASSUME NEW u \in Spots PROVE AgreesAt(n, u)
    <3>1. AllShown(n, u) = AllShown(m, u) /\ AgreesAt(m, u) /\ CanSee(n, u) = CanSee(m, u)
      BY <1>7, <1>9, <2>1 DEF Right
    <3> QED
      BY <1>7, <3>1, SameAgrees
  <2>3. s = n
    BY <1>5, <1>9
  <2> QED
    BY <1>3, <2>2, <2>3
<1>10. CASE Watcher \in list /\ c \notin m.hidden /\ c = Watcher
  <2>1. s = SendOwnMove(n, from, t, old, teleport, has)
    BY <1>5, <1>10
  <2>2. HasWalked(m, n, Watcher, from, t) /\ old = ClientIndexOfCreature(m, from, Watcher)
    BY <1>2, <1>3, <1>10
  <2> QED
    BY <1>3, <1>6, <2>1, <2>2, OwnMoveRight
<1>11. CASE Watcher \in list /\ c \notin m.hidden /\ c # Watcher
  <2>1. s = SendOthersMove(n, c, from, t, old, teleport, has)
    BY <1>5, <1>11
  <2> QED
    BY <1>2, <1>3, <1>11, <2>1, OthersMoveRight
<1> QED
  BY <1>8, <1>9, <1>10, <1>11

\* The same with Tile::postRemoveNotification and Tile::postAddNotification.
LEMMA MoveRight ==
    ASSUME NEW m, Right(m), NEW c \in Walkers, NEW from \in Spots, NEW t \in Spots, from # t,
           In(c, m.who[from]), NEW teleport, NEW has, NEW s, s = Walking(m, c, from, t, teleport, has)
    PROVE  Right(PostAdd(PostRemove(s, from), t))
<1>1. /\ Ready(s) /\ \A u \in Spots : u # from => AgreesAt(s, u)
      /\ ThingCount(s, from) <= Shown - 2 => AgreesAt(s, from)
  BY WalkingRight
<1>2. PICK x : x = PostRemove(s, from)
  OBVIOUS
<1>3. Right(x)
  BY <1>1, <1>2, PostRemoveRight
<1>4. Right(PostAdd(x, t))
  BY <1>3, PostAddRight
<1> QED
  BY <1>2, <1>4

\* What is left out of a tile that the client was not told all of.
LEMMA BlankedRight ==
    ASSUME NEW x, Right(x), NEW y, NEW v,
           v = [t \in Spots |-> IF t \in x.lacking THEN <<>> ELSE x.view[t]],
           y = [top |-> x.top, down |-> x.down, who |-> x.who, hidden |-> x.hidden,
                view |-> v, cache |-> x.cache, players |-> x.players, lacking |-> x.lacking]
    PROVE  Right(y)
<1>1. Shaped(x) /\ Ready(x)
  BY DEF Right, Ready
<1>2. /\ y.top = x.top /\ y.down = x.down /\ y.who = x.who /\ y.hidden = x.hidden
      /\ y.view = v /\ y.cache = x.cache /\ y.players = x.players /\ y.lacking = x.lacking
  OBVIOUS
<1>3. SameWorld(x, y) /\ SameCaches(x, y)
  BY <1>2 DEF SameWorld, SameCaches
<1>4. v = [t \in Spots |-> v[t]]
  OBVIOUS
<1>5. Shaped(y)
  <2>1. y = [top |-> y.top, down |-> y.down, who |-> y.who, hidden |-> y.hidden,
             view |-> y.view, cache |-> y.cache, players |-> y.players, lacking |-> y.lacking]
    BY <1>2
  <2> QED
    BY <1>1, <1>2, <1>4, <2>1 DEF Shaped
<1>6. Ready(y)
  BY <1>1, <1>3, <1>5, CachesStayRight
<1>7. ASSUME NEW t \in Spots PROVE AgreesAt(y, t)
  <2>1. CASE t \in x.lacking
    BY <1>2, <2>1 DEF AgreesAt
  <2>2. CASE t \notin x.lacking
    <3>1. y.view[t] = x.view[t] /\ AgreesAt(x, t)
      BY <1>2, <2>2 DEF Right
    <3> QED
      BY <1>2, <1>3, <3>1, AgreesStill
  <2> QED
    BY <2>1, <2>2
<1> QED
  BY <1>6, <1>7 DEF Right

\* What the handlers leave is right of the next state.
LEMMA BecomesRight ==
    ASSUME NEW x, Right(x), MapBecomes(x)
    PROVE  Right(Map)'
<1>1. Shaped(x)
  BY DEF Right, Ready
<1>2. PICK v : v = [t \in Spots |-> IF t \in x.lacking THEN <<>> ELSE x.view[t]]
  OBVIOUS
<1>3. PICK y : y = Map'
  OBVIOUS
<1>4. /\ topItems' = x.top /\ downItems' = x.down /\ creatures' = x.who /\ hidden' = x.hidden
      /\ clientTiles' = v /\ lacking' = x.lacking
      /\ spectatorCache' = x.cache /\ playersSpectatorCache' = x.players
  BY <1>2 DEF MapBecomes
<1>5. y = [top |-> x.top, down |-> x.down, who |-> x.who, hidden |-> x.hidden,
           view |-> v, cache |-> x.cache, players |-> x.players, lacking |-> x.lacking]
  BY <1>3, <1>4 DEF Map
<1>6. Right(y)
  BY <1>2, <1>5, BlankedRight
<1> QED
  BY <1>3, <1>6

\* Tile::addThing of an item
LEMMA AddTileItemRight ==
    ASSUME Right(Map), NEW t \in Spots, NEW i \in TopItems \cup DownItems, AddTileItem(t, i)
    PROVE  Right(Map)'
<1>1. PICK m : m = Map
  OBVIOUS
<1>2. Right(m) /\ m.top = topItems /\ m.down = downItems
  BY <1>1 DEF Map
<1>3. ~In(i, m.top[t]) /\ ~In(i, m.down[t])
  BY <1>2 DEF AddTileItem, Lies, ToSet, In
<1>4. PICK room : room = MakeRoom(m, t, i)
  OBVIOUS
<1>5. Right(room) /\ ~In(i, room.top[t]) /\ ~In(i, room.down[t])
  BY <1>2, <1>3, <1>4, MakeRoomRight
<1>6. PICK n : n = IF i \in TopItems THEN [room EXCEPT !.top[t] = OnTop(@, i)]
                   ELSE [room EXCEPT !.down[t] = <<i>> \o @]
  OBVIOUS
<1>7. PICK x : x = PostAdd(OnAddTileItem(n, t, i), t)
  OBVIOUS
<1>8. Right(x)
  BY <1>5, <1>6, <1>7, AddItemRight
<1>9. MapBecomes(x)
  BY <1>1, <1>4, <1>6, <1>7 DEF AddTileItem
<1> QED
  BY <1>8, <1>9, BecomesRight

\* Game::internalRemoveItem
LEMMA RemoveTileItemRight ==
    ASSUME Right(Map), NEW t \in Spots, NEW i, RemoveTileItem(t, i)
    PROVE  Right(Map)'
<1>1. PICK m : m = Map
  OBVIOUS
<1>2. Right(m) /\ m.top = topItems /\ m.down = downItems
  BY <1>1 DEF Map
<1>3. In(i, m.top[t]) \/ In(i, m.down[t])
  BY <1>2 DEF RemoveTileItem, ToSet, In
<1>4. PICK x : x = PostRemove(TakeAway(m, t, i), t)
  OBVIOUS
<1>5. Right(x)
  BY <1>2, <1>3, <1>4, TakeAwayRight
<1>6. MapBecomes(x)
  BY <1>1, <1>4 DEF RemoveTileItem
<1> QED
  BY <1>5, <1>6, BecomesRight

\* Game::transformItem
LEMMA TransformTileItemRight ==
    ASSUME Right(Map), NEW t \in Spots, NEW i, NEW j, TransformTileItem(t, i, j)
    PROVE  Right(Map)'
<1>1. PICK m : m = Map
  OBVIOUS
<1>2. Right(m) /\ m.top = topItems /\ m.down = downItems
  BY <1>1 DEF Map
<1>3. <<i, j>> \in Alike /\ (In(i, m.top[t]) \/ In(i, m.down[t]))
  BY <1>2 DEF TransformTileItem, ToSet, In
<1>4. ~In(j, m.top[t]) /\ ~In(j, m.down[t])
  BY <1>2 DEF TransformTileItem, Lies, ToSet, In
<1>5. Ready(m) /\ \A u \in Spots : AgreesAt(m, u)
  BY <1>2 DEF Right
<1>6. CASE MapBecomes(PostAdd(Updated(PostRemove(Map, t), t, i, j), t))
  <2>1. PICK q : q = PostRemove(m, t)
    OBVIOUS
  <2>2. Right(q) /\ SameWorld(m, q)
    BY <1>5, <2>1, PostRemoveRight
  <2>3. (In(i, q.top[t]) \/ In(i, q.down[t])) /\ ~In(j, q.top[t]) /\ ~In(j, q.down[t])
    BY <1>3, <1>4, <2>2 DEF SameWorld
  <2>4. PICK y : y = Updated(q, t, i, j)
    OBVIOUS
  <2>5. Right(y)
    BY <1>3, <2>2, <2>3, <2>4, UpdatedRight
  <2>6. PICK x : x = PostAdd(y, t)
    OBVIOUS
  <2>7. Right(x)
    BY <2>5, <2>6, PostAddRight
  <2>8. MapBecomes(x)
    BY <1>1, <1>6, <2>1, <2>4, <2>6
  <2> QED
    BY <2>7, <2>8, BecomesRight
<1>7. CASE MapBecomes(PostRemove(PostAdd(Updated(Map, t, i, j), t), t))
  <2>1. PICK y : y = Updated(m, t, i, j)
    OBVIOUS
  <2>2. Right(y)
    BY <1>2, <1>3, <1>4, <2>1, UpdatedRight
  <2>3. PICK z : z = PostAdd(y, t)
    OBVIOUS
  <2>4. Right(z)
    BY <2>2, <2>3, PostAddRight
  <2>5. Ready(z) /\ \A u \in Spots : AgreesAt(z, u)
    BY <2>4 DEF Right
  <2>6. PICK x : x = PostRemove(z, t)
    OBVIOUS
  <2>7. Right(x)
    BY <2>5, <2>6, PostRemoveRight
  <2>8. MapBecomes(x)
    BY <1>1, <1>7, <2>1, <2>3, <2>6
  <2> QED
    BY <2>7, <2>8, BecomesRight
<1> QED
  BY <1>6, <1>7 DEF TransformTileItem

\* Game::placeCreature
LEMMA PlaceOnTileRight ==
    ASSUME Right(Map), NEW t \in Spots, NEW c \in Others, PlaceOnTile(c, t)
    PROVE  Right(Map)'
<1>1. PICK m : m = Map
  OBVIOUS
<1>2. Right(m) /\ Stands(m, c) = {}
  BY <1>1 DEF PlaceOnTile
<1>3. PICK o : o = [m EXCEPT !.who[t] = Append(@, c)]
  OBVIOUS
<1>4. PICK n : n = ClearSpectatorCache(o)
  OBVIOUS
<1>5. PICK y : y = SendAddCreature(Asked(n, t, {}), Spectators(n, t, {}), t, c)
  OBVIOUS
<1>6. Right(y)
  BY <1>2, <1>3, <1>4, <1>5, PlaceRight
<1>7. PICK x : x = PostAdd(y, t)
  OBVIOUS
<1>8. Right(x)
  BY <1>6, <1>7, PostAddRight
<1>9. MapBecomes(x)
  BY <1>1, <1>3, <1>4, <1>5, <1>7 DEF PlaceOnTile
<1> QED
  BY <1>8, <1>9, BecomesRight

\* Game::removeCreature
LEMMA RemoveFromTileRight ==
    ASSUME Right(Map), NEW c \in Others, RemoveFromTile(c)
    PROVE  Right(Map)'
<1>1. PICK m : m = Map
  OBVIOUS
<1>2. Right(m) /\ m.hidden = hidden
  BY <1>1 DEF Map
<1>3. PICK t \in Stands(m, c) : MapBecomes(PostRemove(Removing(m, t, c), t))
  BY <1>1, <1>2 DEF RemoveFromTile, Removing
<1>4. t \in Spots /\ In(c, m.who[t])
  BY <1>3 DEF Stands, ToSet, In
<1>5. PICK y : y = Removing(m, t, c)
  OBVIOUS
<1>6. PICK x : x = PostRemove(y, t)
  OBVIOUS
<1>7. Right(x)
  BY <1>2, <1>4, <1>5, <1>6, RemoveRight
<1>8. MapBecomes(x)
  BY <1>3, <1>5, <1>6
<1> QED
  BY <1>7, <1>8, BecomesRight

\* Map::moveCreature
LEMMA MoveOnMapRight ==
    ASSUME Right(Map), NEW c \in Walkers, NEW t \in Spots, NEW force, MoveOnMap(c, t, force)
    PROVE  Right(Map)'
<1>1. PICK m : m = Map
  OBVIOUS
<1>2. Right(m) /\ m.hidden = hidden
  BY <1>1 DEF Map
<1>3. PICK from \in Stands(m, c) \ {t}, has \in BOOLEAN :
         MapBecomes(PostAdd(PostRemove(
             Walking(m, c, from, t, force \/ Apart(from, t) > 1, has), from), t))
  BY <1>1 DEF MoveOnMap
<1>4. from \in Spots /\ In(c, m.who[from]) /\ from # t
  BY <1>3 DEF Stands, ToSet, In
<1>5. PICK teleport : teleport = (force \/ Apart(from, t) > 1)
  OBVIOUS
<1>6. PICK s : s = Walking(m, c, from, t, teleport, has)
  OBVIOUS
<1>7. PICK x : x = PostAdd(PostRemove(s, from), t)
  OBVIOUS
<1>8. Right(x)
  BY <1>2, <1>4, <1>6, <1>7, MoveRight
<1>9. MapBecomes(x)
  BY <1>3, <1>5, <1>6, <1>7
<1> QED
  BY <1>8, <1>9, BecomesRight

\* Player::sendCreatureChangeVisible, luaPlayerSetGhostMode
LEMMA HideIsRight ==
    ASSUME Right(Map), NEW c \in Others, Hide(c)
    PROVE  Right(Map)'
<1>1. PICK m : m = Map
  OBVIOUS
<1>2. Right(m) /\ Ready(m) /\ m.hidden = hidden
  BY <1>1 DEF Map, Right
<1>3. \A u \in Spots : AskedPlayers(m, u).hidden = m.hidden
  BY <1>2, AskedPlayersRight DEF Unshown, SameWorld
<1>4. PICK t \in Stands(m, c) : MapBecomes(Hiding(m, t, c))
  <2>1. \A u \in Spots : [AskedPlayers(m, u) EXCEPT !.hidden = @ \cup {c}]
                         = [AskedPlayers(m, u) EXCEPT !.hidden = m.hidden \cup {c}]
    BY <1>3
  <2>2. Stands(m, c) \subseteq Spots
    BY DEF Stands
  <2> QED
    BY <1>1, <2>1, <2>2 DEF Hide, Hiding
<1>5. t \in Spots /\ In(c, m.who[t]) /\ c \notin m.hidden
  BY <1>2, <1>4 DEF Stands, ToSet, In, Hide
<1>6. PICK x : x = Hiding(m, t, c)
  OBVIOUS
<1>7. Right(x)
  BY <1>2, <1>5, <1>6, HideRight
<1>8. MapBecomes(x)
  BY <1>4, <1>6
<1> QED
  BY <1>7, <1>8, BecomesRight

\* The creature shows up again.
LEMMA ShowIsRight ==
    ASSUME Right(Map), NEW c \in Others, Show(c)
    PROVE  Right(Map)'
<1>1. PICK m : m = Map
  OBVIOUS
<1>2. Right(m) /\ Ready(m) /\ m.hidden = hidden
  BY <1>1 DEF Map, Right
<1>3. PICK t \in Stands(m, c) :
         MapBecomes(SendAddCreature([AskedPlayers(m, t) EXCEPT !.hidden = @ \ {c}],
                                    PlayerSpectators(m, t), t, c))
  BY <1>1 DEF Show
<1>4. t \in Spots /\ In(c, m.who[t]) /\ c \in m.hidden
  BY <1>2, <1>3 DEF Stands, ToSet, In, Show
<1>5. PICK q : q = AskedPlayers(m, t)
  OBVIOUS
<1>6. q.hidden = m.hidden
  BY <1>2, <1>4, <1>5, AskedPlayersRight DEF Unshown, SameWorld
<1>7. PICK h : h = m.hidden \ {c}
  OBVIOUS
<1>8. PICK n : n = [q EXCEPT !.hidden = h]
  OBVIOUS
<1>9. n = [q EXCEPT !.hidden = @ \ {c}]
  BY <1>6, <1>7, <1>8
<1>10. PICK x : x = SendAddCreature(n, PlayerSpectators(m, t), t, c)
  OBVIOUS
<1>11. Right(x)
  BY <1>2, <1>4, <1>5, <1>7, <1>8, <1>10, ShowRight
<1>12. MapBecomes(x)
  BY <1>3, <1>5, <1>9, <1>10
<1> QED
  BY <1>11, <1>12, BecomesRight

\* The next task: the caches are empty.
LEMMA NextTaskRight ==
    ASSUME Right(Map), NextTask
    PROVE  Right(Map)'
<1>1. PICK m : m = Map
  OBVIOUS
<1>2. PICK y : y = Map'
  OBVIOUS
<1>3. Right(m) /\ Shaped(m) /\ Placement(m)
  BY <1>1 DEF Right, Ready
<1>4. y = ClearSpectatorCache(m)
  <2>1. PICK f : f = [t \in Spots |-> NotCached]
    OBVIOUS
  <2>2. y = [top |-> m.top, down |-> m.down, who |-> m.who, hidden |-> m.hidden,
             view |-> m.view, cache |-> f, players |-> f, lacking |-> m.lacking]
    BY <1>1, <1>2, <2>1 DEF NextTask, Map
  <2>3. ClearSpectatorCache(m) = [m EXCEPT !.cache = f, !.players = f]
    BY <2>1 DEF ClearSpectatorCache
  <2> QED
    BY <1>3, <2>2, <2>3 DEF Shaped
<1>5. Ready(y) /\ Unshown(m, y)
  BY <1>3, <1>4, ClearRight
<1>6. Right(y)
  BY <1>3, <1>5, UnshownRight
<1> QED
  BY <1>2, <1>6

\* At first the watcher is alone, and has been told all that it sees.
LEMMA RightAtFirst ==
    ASSUME ViewInit
    PROVE  Right(Map)
<1>1. PICK m : m = Map
  OBVIOUS
<1>2. PICK f : f = [t \in Spots |-> NotCached]
  OBVIOUS
<1>3. PICK w : w = [t \in Spots |-> IF t = 1 THEN <<Watcher>> ELSE <<>>]
  OBVIOUS
<1>4. PICK e : e = [t \in Spots |-> <<>>]
  OBVIOUS
<1>5. PICK v : v = [t \in Spots |-> IF t = 1 THEN Cut(<<Soil, Watcher>>)
                                    ELSE IF t <= 1 + Sight THEN <<Soil>> ELSE <<>>]
  OBVIOUS
<1>6. m = [top |-> e, down |-> e, who |-> w, hidden |-> {}, view |-> v, cache |-> f,
           players |-> f, lacking |-> {}]
  BY <1>1, <1>2, <1>3, <1>4, <1>5 DEF ViewInit, Map
<1>7. /\ m.top = e /\ m.down = e /\ m.who = w /\ m.hidden = {} /\ m.view = v
      /\ m.cache = f /\ m.players = f /\ m.lacking = {}
  BY <1>6
<1>8. 1 \in Spots /\ Spots \subseteq Int /\ Watcher \in Walkers /\ Sight \in Nat /\ Shown \in Nat \ {0, 1}
  BY TileViewsAssumption DEF Spots, Walkers
<1>9. Shaped(m)
  <2>1. e \in [Spots -> Seq(TopItems)] /\ e \in [Spots -> Seq(DownItems)]
    BY <1>4
  <2>2. w \in [Spots -> Seq(Walkers)]
    <3>1. <<Watcher>> \in Seq(Walkers) /\ <<>> \in Seq(Walkers)
      BY <1>8
    <3> QED
      BY <1>3, <3>1
  <2>3. f \in [Spots -> (SUBSET {Watcher}) \cup {NotCached}]
    BY <1>2
  <2>4. v = [t \in Spots |-> v[t]]
    BY <1>5
  <2> QED
    BY <1>6, <1>7, <2>1, <2>2, <2>3, <2>4 DEF Shaped
<1>10. ASSUME NEW t \in Spots
       PROVE  /\ m.top[t] = <<>> /\ m.down[t] = <<>>
              /\ m.who[t] = IF t = 1 THEN <<Watcher>> ELSE <<>>
              /\ NoDuplicate(m.top[t]) /\ NoDuplicate(m.down[t]) /\ NoDuplicate(m.who[t])
              /\ \A c : In(c, m.who[t]) <=> t = 1 /\ c = Watcher
  <2>1. /\ m.top[t] = <<>> /\ m.down[t] = <<>>
        /\ m.who[t] = IF t = 1 THEN <<Watcher>> ELSE <<>>
    BY <1>3, <1>4, <1>7
  <2>2. NoDuplicate(<<>>) /\ NoDuplicate(<<Watcher>>)
    BY DEF NoDuplicate
  <2>3. \A c : ~In(c, <<>>) /\ (In(c, <<Watcher>>) <=> c = Watcher)
    BY DEF In
  <2> QED
    BY <2>1, <2>2, <2>3
<1>11. Placement(m)
  BY <1>7, <1>8, <1>10 DEF Placement
<1>12. Ready(m)
  <2>1. CachesRight(m)
    BY <1>2, <1>7 DEF CachesRight
  <2> QED
    BY <1>9, <1>11, <2>1 DEF Ready
<1>13. TileOfCreature(m, Watcher) = 1
  BY <1>8, <1>10, <1>11, StandsOnOne
<1>14. ASSUME NEW t \in Spots PROVE AgreesAt(m, t)
  <2>1. CASE t = 1
    <3>1. Seen(m, 1) = <<Watcher>>
      <4>1. PICK K : K = Walkers \ m.hidden
        OBVIOUS
      <4>2. PICK S : S = {Watcher}
        OBVIOUS
      <4>3. PICK s : s = <<Watcher>>
        OBVIOUS
      <4>4. m.who[1] = s /\ S \subseteq K /\ s \in Seq(S)
        BY <1>7, <1>8, <1>10, <4>1, <4>2, <4>3
      <4>5. Chosen(s, K) = s
        BY <4>4, ChosenAll
      <4> QED
        BY <4>1, <4>3, <4>4, <4>5 DEF Seen
    <3>2. AllShown(m, 1) = <<Soil, Watcher>>
      <4>1. PICK s : s = <<Watcher>>
        OBVIOUS
      <4>2. AllShown(m, 1) = ((<<Soil>> \o <<>>) \o s) \o <<>>
        BY <1>8, <1>10, <3>1, <4>1 DEF AllShown
      <4>3. <<Soil>> \o <<>> = <<Soil>>
        OBVIOUS
      <4>4. <<Soil>> \o <<Watcher>> = <<Soil, Watcher>>
        <5>1. PICK S : S = {Soil, Watcher}
          OBVIOUS
        <5>2. PICK p \in Seq(S), q \in Seq(S) : p = <<Soil>> /\ q = <<Watcher>>
          BY <5>1, OneLong
        <5>3. Len(p) = 1 /\ Len(q) = 1 /\ p[1] = Soil /\ q[1] = Watcher
          BY <5>2
        <5>4. PICK r : r = p \o q
          OBVIOUS
        <5>5. /\ r \in Seq(S) /\ Len(r) = Len(p) + Len(q)
              /\ \A i \in 1..Len(p) : r[i] = p[i]
              /\ \A i \in 1..Len(q) : r[Len(p) + i] = q[i]
          BY <5>4, JoinedLists
        <5>6. Len(r) = 2 /\ r[1] = Soil /\ r[2] = Watcher
          BY <5>3, <5>5
        <5>7. PICK z : z = <<Soil, Watcher>>
          OBVIOUS
        <5>8. z \in Seq(S) /\ Len(z) = 2 /\ z[1] = Soil /\ z[2] = Watcher
          BY <5>1, <5>7
        <5>9. \A i \in 1..2 : r[i] = z[i]
          BY <5>6, <5>8
        <5>10. r = z
          BY <5>5, <5>6, <5>8, <5>9, SeqEqual
        <5> QED
          BY <5>2, <5>4, <5>7, <5>10
      <4>5. <<Soil, Watcher>> \o <<>> = <<Soil, Watcher>>
        OBVIOUS
      <4> QED
        BY <4>1, <4>2, <4>3, <4>4, <4>5
    <3>3. m.view[1] = Cut(<<Soil, Watcher>>)
      BY <1>5, <1>7, <1>8
    <3> QED
      BY <2>1, <3>2, <3>3 DEF AgreesAt, TileDescription
  <2>2. CASE t # 1
    <3>1. t \in Int /\ t > 1
      BY <1>8, <2>2 DEF Spots
    <3>2. CanSee(m, t) => t <= 1 + Sight
      <4>1. Apart(1, t) = t - 1
        BY <3>1 DEF Apart
      <4> QED
        BY <1>8, <1>13, <3>1, <4>1 DEF CanSee
    <3>3. CanSee(m, t) => m.view[t] = <<Soil>>
      BY <1>5, <1>7, <2>2, <3>2
    <3>4. Seen(m, t) = <<>>
      BY <1>10, <2>2, ChosenEmpty DEF Seen
    <3>5. AllShown(m, t) = <<Soil>>
      <4>1. AllShown(m, t) = ((<<Soil>> \o <<>>) \o <<>>) \o <<>>
        BY <1>10, <3>4 DEF AllShown
      <4>2. <<Soil>> \o <<>> = <<Soil>>
        OBVIOUS
      <4> QED
        BY <4>1, <4>2
    <3>6. Cut(<<Soil>>) = <<Soil>>
      <4>1. PICK S : S = {Soil}
        OBVIOUS
      <4>2. PICK s \in Seq(S) : s = <<Soil>> /\ Len(s) = 1
        BY <4>1, OneLong
      <4>3. Len(s) <= Shown
        BY <1>8, <4>2
      <4>4. Len(s) <= Shown => Cut(s) = s
        BY CutPlaces
      <4> QED
        BY <4>2, <4>3, <4>4
    <3> QED
      BY <3>3, <3>5, <3>6 DEF AgreesAt, TileDescription
  <2> QED
    BY <2>1, <2>2
<1>15. Right(m)
  BY <1>12, <1>14 DEF Right
<1> QED
  BY <1>1, <1>15

\* Where the caches and the order of the things are right, what is shown is.
LEMMA RightAgrees ==
    ASSUME Right(Map)
    PROVE  ViewAgrees
<1>1. PICK m : m = Map
  OBVIOUS
<1>2. \A t \in Spots : AgreesAt(m, t)
  BY <1>1 DEF Right
<1>3. m.lacking = lacking /\ m.view = clientTiles
  BY <1>1 DEF Map
<1>4. ASSUME NEW t \in Spots \ lacking, CanSee(m, t)
      PROVE  clientTiles[t] = TileDescription(m, t)
  BY <1>2, <1>3, <1>4 DEF AgreesAt
<1> QED
  BY <1>1, <1>4 DEF ViewAgrees

\* Every step keeps it.
LEMMA RightStays ==
    ASSUME Right(Map), [ViewNext]_viewVars
    PROVE  Right(Map)'
<1>1. CASE UNCHANGED viewVars
  BY <1>1 DEF viewVars, Map
<1>2. ASSUME NEW t \in Spots, NEW i \in TopItems \cup DownItems, AddTileItem(t, i) PROVE Right(Map)'
  BY <1>2, AddTileItemRight
<1>3. ASSUME NEW t \in Spots, NEW i \in TopItems \cup DownItems, RemoveTileItem(t, i) PROVE Right(Map)'
  BY <1>3, RemoveTileItemRight
<1>4. ASSUME NEW t \in Spots, NEW i \in TopItems \cup DownItems, NEW j \in TopItems \cup DownItems,
             TransformTileItem(t, i, j)
      PROVE  Right(Map)'
  BY <1>4, TransformTileItemRight
<1>5. ASSUME NEW t \in Spots, NEW c \in Others \cup {Watcher}, NEW teleport \in BOOLEAN,
             MoveOnMap(c, t, teleport)
      PROVE  Right(Map)'
  BY <1>5, MoveOnMapRight DEF Walkers
<1>6. ASSUME NEW c \in Others, NEW t \in Spots, PlaceOnTile(c, t) PROVE Right(Map)'
  BY <1>6, PlaceOnTileRight
<1>7. ASSUME NEW c \in Others, RemoveFromTile(c) PROVE Right(Map)'
  BY <1>7, RemoveFromTileRight
<1>8. ASSUME NEW c \in Others, Hide(c) PROVE Right(Map)'
  BY <1>8, HideIsRight
<1>9. ASSUME NEW c \in Others, Show(c) PROVE Right(Map)'
  BY <1>9, ShowIsRight
<1>10. CASE NextTask
  BY <1>10, NextTaskRight
<1> QED
  BY <1>1, <1>2, <1>3, <1>4, <1>5, <1>6, <1>7, <1>8, <1>9, <1>10 DEF ViewNext, MapChanges

\* A client shows every tile in sight as the server has it, whatever the order
\* in which items are put down, changed and taken away, and creatures come, go,
\* walk and hide, for any number of tiles, creatures and items: the place that
\* getStackpos... counts for a message is the place where the client has the
\* thing, what is pushed beyond the tenth is described anew by
\* postRemoveNotification, and the cache of spectators never lacks one who sees
\* the tile, as clearSpectatorCache empties it with every creature that moves.
THEOREM ViewStaysRight == ViewSpec => []ViewAgrees
<1>1. ViewInit => Right(Map)
  BY RightAtFirst
<1>2. Right(Map) /\ [ViewNext]_viewVars => Right(Map)'
  BY RightStays
<1>3. Right(Map) => ViewAgrees
  BY RightAgrees
<1> QED
  BY <1>1, <1>2, <1>3, PTL DEF ViewSpec

=============================================================================
