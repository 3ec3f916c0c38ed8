----------------------------- MODULE WaitingList -----------------------------
(***************************************************************************)
(* The waiting list of a full server.  A client that is put on it is told  *)
(* its place and when to try again; its entry lives 15 seconds longer.     *)
(* Times count down, in units of five seconds.                             *)
(***************************************************************************)
EXTENDS Integers, Sequences, SequencesExt, FiniteSetsExt, Lists

CONSTANTS
    Clients,            \* the characters of those who log in
    PremiumClients,     \* those with premium time
    Privileged,         \* those who can always log in: a flag, gamemasters
    MaxPlayers,         \* 0: as many as come
    Limits              \* places from which clients wait longer: 5, 10, 20, 50

ASSUME WaitingAssumption ==
    /\ PremiumClients \subseteq Clients /\ Privileged \subseteq Clients
    /\ MaxPlayers \in Nat
    /\ Limits \in Seq(Nat) /\ Len(Limits) \in 1..4

VARIABLES
    playing,            \* Game::players
    priorityWaitList, waitList,     \* entries, first in line first
    misplaced,          \* erased from the wrong std::list, see ClientLogin
    told                \* history: the time left until each was told to return

waitingVars == <<playing, priorityWaitList, waitList, misplaced, told>>

-----------------------------------------------------------------------------
\* 5, 10, 20, 60 and 120 seconds
GetTime(slot) ==
    <<1, 2, 4, 12, 24>>[1 + Cardinality({i \in DOMAIN Limits : Limits[i] <= slot})]

GetTimeout(slot) == GetTime(slot) + 3

\* cleanupList
Alive(list) == Chosen(list, {e \in ToSet(list) : e.left > 0})

Without(list, p) == Chosen(list, {e \in ToSet(list) : e.guid # p})

\* findClient: the place in both lists, 0 for none
SlotOf(lists, p) ==
    LET at == {i \in DOMAIN lists : lists[i].guid = p}
    IN  IF at = {} THEN 0 ELSE Min(at)

Entry(p, slot) == [guid |-> p, left |-> GetTimeout(slot)]

WaitingInit ==
    /\ playing = {}
    /\ priorityWaitList = <<>> /\ waitList = <<>>
    /\ misplaced = 0
    /\ told = [p \in Clients |-> 0]

-----------------------------------------------------------------------------
LetIn(p) ==
    /\ playing' = playing \cup {p}
    /\ told' = [told EXCEPT ![p] = 0]

\* Those who never wait, however full the server and long the line.
Unlimited(p) == p \in Privileged \/ MaxPlayers = 0

PassesBy(p) ==
    /\ Unlimited(p)
    /\ LetIn(p)
    /\ UNCHANGED <<priorityWaitList, waitList, misplaced>>

\* Nobody waits and there is room.
NobodyWaits(p) ==
    /\ priorityWaitList = <<>> /\ waitList = <<>>
    /\ Cardinality(playing) < MaxPlayers
    /\ LetIn(p)
    /\ UNCHANGED <<priorityWaitList, waitList, misplaced>>

\* mutant: a place in line is enough, wherever
TurnByPlace(p, first, second, slot) ==
    /\ slot > 0 /\ Cardinality(playing) < MaxPlayers
    /\ LetIn(p)
    /\ priorityWaitList' = Without(first, p)
    /\ waitList' = Without(second, p)
    /\ UNCHANGED misplaced

\* The entry is erased through waitList also when it is in the other list: the
\* nodes are unlinked, but waitList counts one less and priorityWaitList one
\* more than it has.  More than the last limit makes no difference.
ItsTurn(p, first, second, slot) ==
    /\ slot > 0 /\ Cardinality(playing) + slot <= MaxPlayers
    /\ LetIn(p)
    /\ priorityWaitList' = Without(first, p)
    /\ waitList' = Without(second, p)
    /\ misplaced' = IF slot <= Len(first) THEN Min({misplaced + 1, Last(Limits)})
                    ELSE misplaced

Wait(p, first, second, slot) ==
    LET refresh(list) == [i \in DOMAIN list |->
                            IF list[i].guid = p THEN Entry(p, slot) ELSE list[i]]
    IN  /\ slot > 0 /\ Cardinality(playing) + slot > MaxPlayers
        /\ priorityWaitList' = refresh(first) /\ waitList' = refresh(second)
        /\ told' = [told EXCEPT ![p] = GetTime(slot)]
        /\ UNCHANGED <<playing, misplaced>>

\* The timeout of a new entry goes by the sizes of the lists; in their sum the
\* misplaced cancel out.
Queue(p, first, second, slot) ==
    /\ slot = 0
    /\ IF p \in PremiumClients
       THEN /\ priorityWaitList' = Append(first, Entry(p, Len(first) + misplaced + 1))
            /\ waitList' = second
       ELSE /\ priorityWaitList' = first
            /\ waitList' = Append(second, Entry(p, Len(first) + Len(second) + 1))
    /\ told' = [told EXCEPT ![p] =
                  GetTime(SlotOf(priorityWaitList' \o waitList', p))]
    /\ UNCHANGED <<playing, misplaced>>

ClientLogin(p) ==
    /\ p \notin playing
    /\ \/ PassesBy(p)
       \/ ~Unlimited(p) /\ NobodyWaits(p)
       \/ /\ ~Unlimited(p)
          /\ ~(priorityWaitList = <<>> /\ waitList = <<>> /\ Cardinality(playing) < MaxPlayers)
          /\ LET first == Alive(priorityWaitList)
                 second == Alive(waitList)
                 slot == SlotOf(first \o second, p)
             IN  \/ ItsTurn(p, first, second, slot)
                 \/ Wait(p, first, second, slot)
                 \/ Queue(p, first, second, slot)

WaiterLogout(p) ==
    /\ p \in playing
    /\ playing' = playing \ {p}
    /\ UNCHANGED <<priorityWaitList, waitList, misplaced, told>>

Passed(list) == [i \in DOMAIN list |-> [list[i] EXCEPT !.left = Max({0, @ - 1})]]

FiveSecondsPass ==
    /\ priorityWaitList' = Passed(priorityWaitList)
    /\ waitList' = Passed(waitList)
    /\ told' = [p \in Clients |-> Max({0, told[p] - 1})]
    /\ UNCHANGED <<playing, misplaced>>

WaitingNext ==
    \/ FiveSecondsPass
    \/ \E p \in Clients : ClientLogin(p) \/ WaiterLogout(p)

WaitingSpec == WaitingInit /\ [][WaitingNext]_waitingVars

-----------------------------------------------------------------------------
Line == priorityWaitList \o waitList

\* There are never more players than there may be, not counting those who
\* can always log in; these never wait, and nobody is in the game and in line,
\* or twice in line.
LimitKept ==
    /\ MaxPlayers # 0 => Cardinality(playing \ Privileged) <= MaxPlayers
    /\ \A i, j \in DOMAIN Line :
         /\ Line[i].guid \notin playing /\ ~Unlimited(Line[i].guid)
         /\ Line[i].guid = Line[j].guid => i = j

\* Who returns when told is still in line, whoever came and went meanwhile.
ReturnKeepsPlace ==
    \A p \in Clients \ playing :
        told[p] > 0 => LET slot == SlotOf(Line, p)
                       IN  slot > 0 /\ Line[slot].left > told[p]

\* A place in the world goes to the line first: who is let in, and could not
\* always log in, leaves room for everyone who was before them and is still
\* expected, those who passed by counted.
LineRespected ==
    \A p \in playing' \ playing :
        LET line == Alive(Line)
            slot == SlotOf(line, p)
            before == IF slot = 0 THEN Len(line) ELSE slot - 1
        IN  Unlimited(p) \/ Cardinality(playing') + before <= MaxPlayers

\* But for those who can always log in, the server takes no more players than
\* it may and lets nobody in before those who wait in front; who comes back
\* when told to still has the place (clientLogin, getTimeout, cleanupList).
LineKept == [](LimitKept /\ ReturnKeepsPlace) /\ [][LineRespected]_waitingVars

=============================================================================
