------------------------------- MODULE Roster -------------------------------
(***************************************************************************)
(* The list of vocations a player has collected, Player::vocations, and    *)
(* the member functions of Player that read and write it.  The list is a   *)
(* vector searched front to back, so every function that names a vocation  *)
(* acts on its FIRST entry; an entry of level 0 is "locked": its fragments *)
(* are being collected, the vocation is not owned yet.                     *)
(*                                                                         *)
(* Everything here is a constant-level operator on sequences of entries:   *)
(* PlayerVocations builds a player's sessions from it.                     *)
(***************************************************************************)
EXTENDS Naturals, Sequences

CONSTANTS
    Vocations,          \* the vocation ids of data/XML/vocations.xml
    Heroes              \* the ids that have a class and a base tier there

ASSUME HeroesAssumption == Heroes \subseteq Vocations

\* gained fragments that unlock a vocation
UnlockFragments == 100

\* An element of Player::vocations.  The tier is left out: it is stored and
\* written back, and nothing ever reads it (the bonuses use the base tier).
Entry == [vocation : Vocations, level : Nat, experience : Nat,
          star : Nat, fragments : Nat]

-----------------------------------------------------------------------------
EntriesOf(list, v) == {i \in DOMAIN list : list[i].vocation = v}

\* where getPlayerVocationInList and every search loop stop
First(list, v) ==
    CHOOSE i \in EntriesOf(list, v) : \A j \in EntriesOf(list, v) : i <= j

VocationExistsInList(list, v) == EntriesOf(list, v) # {}

HasVocation(list, v) == \E i \in EntriesOf(list, v) : list[i].level > 0

Owned(list) == {v \in Vocations : HasVocation(list, v)}

GetVocationStar(list, v) ==
    IF VocationExistsInList(list, v) THEN list[First(list, v)].star ELSE 0

GetVocationFragments(list, v) ==
    IF VocationExistsInList(list, v) THEN list[First(list, v)].fragments ELSE 0

-----------------------------------------------------------------------------
\* Appends unless the vocation is owned: a locked entry does not stop it.
AddVocation(list, entry) ==
    IF HasVocation(list, entry.vocation) THEN list ELSE Append(list, entry)

SetVocationStar(list, v, s) ==
    IF VocationExistsInList(list, v)
    THEN [list EXCEPT ![First(list, v)].star = s]
    ELSE list

\* What a locked entry becomes at its hundredth fragment.  The fragments
\* beyond the hundredth are lost.
Unlocked(entry) ==
    [vocation |-> entry.vocation, level |-> 1, experience |-> 1, star |-> 1,
     fragments |-> 0]

Locked(v) ==
    [vocation |-> v, level |-> 0, experience |-> 0, star |-> 0, fragments |-> 0]

\* mutants: one more fragment needed; no unlock of a vocation that has an
\* entry already
SetFragmentsAbove(list, v, n) ==
    LET seen  == IF VocationExistsInList(list, v)
                 THEN list ELSE AddVocation(list, Locked(v))
        i     == First(seen, v)
        entry == [seen[i] EXCEPT !.fragments = n]
    IN  [seen EXCEPT ![i] = IF n > UnlockFragments /\ ~HasVocation(seen, v)
                            THEN Unlocked(entry) ELSE entry]
SetFragmentsOnceSeen(list, v, n) ==
    LET seen  == IF VocationExistsInList(list, v)
                 THEN list ELSE AddVocation(list, Locked(v))
        i     == First(seen, v)
        entry == [seen[i] EXCEPT !.fragments = n]
    IN  [seen EXCEPT ![i] =
            IF n >= UnlockFragments /\ ~VocationExistsInList(list, v)
            THEN Unlocked(entry) ELSE entry]

SetVocationFragments(list, v, n) ==
    LET seen  == IF VocationExistsInList(list, v)
                 THEN list ELSE AddVocation(list, Locked(v))
        i     == First(seen, v)
        entry == [seen[i] EXCEPT !.fragments = n]
    IN  [seen EXCEPT ![i] = IF n >= UnlockFragments /\ ~HasVocation(seen, v)
                            THEN Unlocked(entry) ELSE entry]

\* The level a fight leaves is copied to the list; the experience is not.
SyncLevel(list, v, l) ==
    IF VocationExistsInList(list, v)
    THEN [list EXCEPT ![First(list, v)].level = l]
    ELSE list

-----------------------------------------------------------------------------
\* The Lua functions over them that the scripts of the game call.
LuaSetVocationFragments(list, v, n) ==
    IF n = 0 THEN list ELSE SetVocationFragments(list, v, n)

LuaSetVocationStar(list, v, s) ==
    IF HasVocation(list, v) THEN SetVocationStar(list, v, s) ELSE list

\* player:addVocation(id, level, star): level 0 or none counts as 1, and the
\* experience of the new entry is read from the argument of the star.
LuaAddVocation(list, v, l, s) ==
    AddVocation(list, [vocation |-> v, level |-> IF l = 0 THEN 1 ELSE l,
                       experience |-> IF l = 0 THEN 0 ELSE s,
                       star |-> s, fragments |-> 0])

-----------------------------------------------------------------------------
\* extraDamage, the factor of the damage a player deals: 0 stands for 0.0,
\* Neutral for 1.0, and Neutral + s for the multiplier of s stars.
Neutral == 1

GainVocationTierATKBonus(v, s) ==
    IF v \in Heroes /\ s \in 1..5 THEN Neutral + s ELSE 0

\* The price of the next star in fragments, 0 when there is none to buy.
GetFragmentsCostToUpgradeStar(s) ==
    CASE s = 1 -> 40 [] s = 2 -> 80 [] s = 3 -> 180 [] s = 4 -> 500
      [] OTHER -> 0

-----------------------------------------------------------------------------
\* loadPlayer: the rows come back ORDER BY level DESC, rows of equal level in
\* any order, and each goes through AddVocation.  So p, the rows that stay in
\* the order they stay, is sorted, has no row behind an owned row of the same
\* vocation, and leaves out no other row.
LoadOrders(rows) ==
    {p \in UNION {[1..n -> DOMAIN rows] : n \in 0..Len(rows)} :
       /\ \A j, k \in DOMAIN p :
            j < k => /\ p[j] # p[k]
                     /\ rows[p[j]].level >= rows[p[k]].level
                     /\ \/ rows[p[j]].vocation # rows[p[k]].vocation
                        \/ rows[p[j]].level = 0
       /\ \A i \in DOMAIN rows :
            \/ \E j \in DOMAIN p : p[j] = i
            \/ \E j \in DOMAIN p : /\ rows[p[j]].vocation = rows[i].vocation
                                   /\ rows[p[j]].level > 0
                                   /\ rows[p[j]].level >= rows[i].level}

LoadedLists(rows) == {[k \in DOMAIN p |-> rows[p[k]]] : p \in LoadOrders(rows)}
=============================================================================
