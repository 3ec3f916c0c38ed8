------------------------------ MODULE MCSociety ------------------------------
(***************************************************************************)
(* What players have with each other: parties, private channels, guilds    *)
(* and trades, and what they see of each other.  These share nothing but   *)
(* the players, so one of them moves in a behaviour: the state space is    *)
(* the sum of theirs.  The client watches a crowd with a stone and coins,  *)
(* or a heap of items, or a rat when several things happen in one task.    *)
(***************************************************************************)
EXTENDS Party, PrivateChannels, Guilds, SafeTrade, TileViews

CONSTANTS Ann, Bob, Cas, Stone, Coin, Gem, Rat

\* Cas is out of the range in which it could share experience with the others
MCLevel == [p \in Players |-> IF p = Cas THEN 4 ELSE 2]

MCOrder == [i \in TopItems |-> IF i \in Splashes THEN 1 ELSE 2]

MCAlike == {<<Coin, Gem>>}

Symmetry == Permutations({Ann, Bob}) \cup Permutations(Parties) \cup Permutations(Guilds)

VARIABLE stage

societyVars == <<stage, partyVars, privateVars, guildVars, tradeVars, viewVars>>

SocietyInit ==
    /\ stage \in {"party", "channels", "guilds", "trade", "crowd", "heap", "hurry"}
    /\ PartyInit /\ PrivateInit /\ GuildInit /\ TradeInit /\ ViewInit
    /\ stage # "trade" => place = [i \in Items |-> Ground]

partyOnly == <<partyOf, invitations, parties, partyChannels>>
guildOnly == <<guildOf, guilds, membersOnline, guildChannels>>
tradeOnly == <<tradeState, tradePartner, tradeItem, tradeItems, place>>

Watched ==
    \/ stage = "crowd" /\ MapChanges(Others, {Stone}, 1)
    \/ stage = "heap" /\ MapChanges({Rat}, TopItems \cup {Coin}, 1)
    \/ stage = "hurry" /\ MapChanges({Rat}, {Coin, Gem}, MaxSteps)
    \/ NextTask

SocietyNext ==
    /\ UNCHANGED stage
    /\ \/ /\ stage = "party" /\ PartyNext
          /\ UNCHANGED <<privateChannels, guildOnly, tradeOnly, viewVars>>
       \/ /\ stage = "channels" /\ PrivateNext
          /\ UNCHANGED <<partyOnly, guildOnly, tradeOnly, viewVars>>
       \/ /\ stage = "guilds" /\ GuildNext
          /\ UNCHANGED <<partyOnly, privateChannels, tradeOnly, viewVars>>
       \/ /\ stage = "trade" /\ TradeNext
          /\ UNCHANGED <<partyOnly, privateChannels, guildOnly, viewVars>>
       \/ /\ Watched
          /\ UNCHANGED <<online, partyOnly, privateChannels, guildOnly, tradeOnly>>

SocietySpec == SocietyInit /\ [][SocietyNext]_societyVars

-----------------------------------------------------------------------------
\* Nobody who has left the game is in a channel or counted in a guild, and the
\* two sides of a channel's and of a guild's members agree
\* (Chat::removeUserFromAllChannels, Player::setGuild).
ChatAgrees == ChannelsKnowOnline /\ GuildsAgree

=============================================================================
