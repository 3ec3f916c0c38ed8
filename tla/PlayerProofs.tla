---------------------------- MODULE PlayerProofs ----------------------------
(***************************************************************************)
(* One player, for every set of vocations, every starting list and every   *)
(* sequence of sessions: the operators of Roster, the vocations and the    *)
(* rows of the database; what a list owes to keys drawn; the fights of any *)
(* number of players; and the conditions, gear, outfits and mounts.        *)
(***************************************************************************)
EXTENDS MCPlayer, Facts

-----------------------------------------------------------------------------
(***************************************************************************)
(* The operators of Roster: the searches find what they are meant to find, *)
(* and each writer returns a list that still owns what it owned.           *)
(***************************************************************************)
\* The first entry of a vocation is an entry of it, and none is before it.
LEMMA FirstEntry ==
    ASSUME NEW S, NEW list \in Seq(S), NEW v, EntriesOf(list, v) # {}
    PROVE  /\ First(list, v) \in 1..Len(list)
           /\ list[First(list, v)].vocation = v
           /\ \A j \in EntriesOf(list, v) : First(list, v) <= j
<1>1. EntriesOf(list, v) \in SUBSET Nat
  BY DEF EntriesOf
<1>2. \E i \in EntriesOf(list, v) : \A j \in EntriesOf(list, v) : i <= j
  BY <1>1, LeastElement
<1>3. /\ First(list, v) \in EntriesOf(list, v)
      /\ \A j \in EntriesOf(list, v) : First(list, v) <= j
  BY <1>2 DEF First
<1> QED
  BY <1>3 DEF EntriesOf

\* It is the entry HasVocation and VocationExistsInList speak of.
LEMMA OwnedHasEntries ==
    ASSUME NEW list, NEW v, HasVocation(list, v)
    PROVE  VocationExistsInList(list, v)
BY DEF HasVocation, VocationExistsInList

-----------------------------------------------------------------------------
\* The fields of an entry after each update of the writers.
LEMMA EntryUpdates ==
    ASSUME NEW r \in Entry, NEW n \in Nat
    PROVE  /\ [r EXCEPT !.star = n] \in Entry
           /\ [r EXCEPT !.star = n].vocation = r.vocation
           /\ [r EXCEPT !.star = n].level = r.level
           /\ [r EXCEPT !.star = n].fragments = r.fragments
           /\ [r EXCEPT !.level = n] \in Entry
           /\ [r EXCEPT !.level = n].vocation = r.vocation
           /\ [r EXCEPT !.level = n].level = n
           /\ [r EXCEPT !.fragments = n] \in Entry
           /\ [r EXCEPT !.fragments = n].vocation = r.vocation
           /\ [r EXCEPT !.fragments = n].level = r.level
           /\ [r EXCEPT !.fragments = n].fragments = n
           /\ Unlocked(r) \in Entry
           /\ Unlocked(r).vocation = r.vocation
           /\ Unlocked(r).level = 1
<1>1. r = [vocation |-> r.vocation, level |-> r.level,
           experience |-> r.experience, star |-> r.star,
           fragments |-> r.fragments]
  BY DEF Entry
<1>2. /\ r.vocation \in Vocations /\ r.level \in Nat /\ r.experience \in Nat
      /\ r.star \in Nat /\ r.fragments \in Nat
  BY DEF Entry
<1>3. [r EXCEPT !.star = n] =
        [vocation |-> r.vocation, level |-> r.level,
         experience |-> r.experience, star |-> n, fragments |-> r.fragments]
  BY <1>1
<1>4. [r EXCEPT !.level = n] =
        [vocation |-> r.vocation, level |-> n,
         experience |-> r.experience, star |-> r.star,
         fragments |-> r.fragments]
  BY <1>1
<1>5. [r EXCEPT !.fragments = n] =
        [vocation |-> r.vocation, level |-> r.level,
         experience |-> r.experience, star |-> r.star, fragments |-> n]
  BY <1>1
<1> QED
  BY <1>2, <1>3, <1>4, <1>5 DEF Entry, Unlocked

\* Writing one entry in place: the vocation stays, so the searches of every
\* vocation find the same places.
LEMMA SetEntry ==
    ASSUME NEW list \in Seq(Entry), NEW i \in 1..Len(list), NEW e \in Entry,
           e.vocation = list[i].vocation
    PROVE  LET new == [list EXCEPT ![i] = e]
           IN  /\ new \in Seq(Entry)
               /\ Len(new) = Len(list)
               /\ new[i] = e
               /\ \A j \in 1..Len(list) : j # i => new[j] = list[j]
               /\ \A v : EntriesOf(new, v) = EntriesOf(list, v)
<1> DEFINE new == [list EXCEPT ![i] = e]
<1>1. new \in Seq(Entry) /\ Len(new) = Len(list)
  OBVIOUS
<1>2. new[i] = e /\ \A j \in 1..Len(list) : j # i => new[j] = list[j]
  OBVIOUS
<1>3. ASSUME NEW v PROVE EntriesOf(new, v) = EntriesOf(list, v)
  <2>1. DOMAIN new = DOMAIN list
    OBVIOUS
  <2>2. \A j \in DOMAIN list : new[j].vocation = list[j].vocation
    BY <1>2
  <2> HIDE DEF new
  <2> QED BY <2>1, <2>2 DEF EntriesOf
<1> QED
  BY <1>1, <1>2, <1>3

\* A write that does not lower a level to 0 keeps every owned vocation.
LEMMA SetEntryOwned ==
    ASSUME NEW list \in Seq(Entry), NEW i \in 1..Len(list), NEW e \in Entry,
           e.vocation = list[i].vocation,
           e.level > 0 \/ list[i].level = 0
    PROVE  \A v : HasVocation(list, v) => HasVocation([list EXCEPT ![i] = e], v)
<1> DEFINE new == [list EXCEPT ![i] = e]
<1> SUFFICES ASSUME NEW v, NEW k \in EntriesOf(list, v), list[k].level > 0
             PROVE  HasVocation(new, v)
  BY DEF HasVocation
<1>1. EntriesOf(new, v) = EntriesOf(list, v)
  BY SetEntry
<1>2. k \in 1..Len(list)
  BY DEF EntriesOf
<1>3. new[k].level > 0
  BY <1>2, SetEntry
<1> HIDE DEF new
<1> QED
  BY <1>1, <1>3 DEF HasVocation

\* Appending an entry adds it to the searches of its vocation only.
LEMMA AppendEntry ==
    ASSUME NEW list \in Seq(Entry), NEW e \in Entry
    PROVE  LET new == Append(list, e)
           IN  /\ new \in Seq(Entry)
               /\ Len(new) = Len(list) + 1
               /\ new[Len(list) + 1] = e
               /\ \A j \in 1..Len(list) : new[j] = list[j]
               /\ \A v : EntriesOf(new, v) =
                     EntriesOf(list, v) \cup
                       (IF v = e.vocation THEN {Len(list) + 1} ELSE {})
               /\ \A v : HasVocation(list, v) => HasVocation(new, v)
<1> DEFINE new == Append(list, e)
<1>1. /\ new \in Seq(Entry)
      /\ Len(new) = Len(list) + 1
      /\ new[Len(list) + 1] = e
      /\ \A j \in 1..Len(list) : new[j] = list[j]
  OBVIOUS
<1> HIDE DEF new
<1>2. ASSUME NEW v
      PROVE  EntriesOf(new, v) = EntriesOf(list, v) \cup
                       (IF v = e.vocation THEN {Len(list) + 1} ELSE {})
  <2>1. DOMAIN new = 1..(Len(list) + 1) /\ DOMAIN list = 1..Len(list)
    BY <1>1
  <2> QED BY <1>1, <2>1 DEF EntriesOf
<1>3. ASSUME NEW v, HasVocation(list, v) PROVE HasVocation(new, v)
  <2>1. PICK k \in EntriesOf(list, v) : list[k].level > 0
    BY <1>3 DEF HasVocation
  <2>2. k \in EntriesOf(new, v)
    BY <1>2, <2>1
  <2>3. k \in 1..Len(list)
    BY DEF EntriesOf
  <2> QED BY <1>1, <2>1, <2>2, <2>3 DEF HasVocation
<1> QED
  BY <1>1, <1>2, <1>3 DEF new

-----------------------------------------------------------------------------
\* No unlock is due in a list: each locked entry of a vocation that is not
\* owned has less than a hundred fragments.  (LockedBelowUnlock speaks of the
\* first entry; a reload may put another one first.)
NoUnlockDue(list) ==
    \A i \in 1..Len(list) :
        ~HasVocation(list, list[i].vocation) => list[i].fragments < UnlockFragments

\* What a handler may make of a list.
Keeps(list, new) ==
    /\ new \in Seq(Entry)
    /\ \A v : HasVocation(list, v) => HasVocation(new, v)
    /\ NoUnlockDue(list) => NoUnlockDue(new)

\* An unchanged list keeps what it owns.
LEMMA KeepsSame == ASSUME NEW list \in Seq(Entry) PROVE Keeps(list, list)
BY DEF Keeps

\* One write after the other keeps it too.
LEMMA KeepsTwice ==
    ASSUME NEW a, NEW b, NEW c, Keeps(a, b), Keeps(b, c) PROVE Keeps(a, c)
BY DEF Keeps

\* Writing an entry that is owned or has few fragments.
LEMMA KeepsSetEntry ==
    ASSUME NEW list \in Seq(Entry), NEW i \in 1..Len(list), NEW e \in Entry,
           e.vocation = list[i].vocation,
           e.level > 0 \/ list[i].level = 0,
           \/ e.fragments < UnlockFragments
           \/ e.level > 0
           \/ HasVocation(list, e.vocation)
           \/ e.fragments = list[i].fragments
    PROVE  Keeps(list, [list EXCEPT ![i] = e])
<1> DEFINE new == [list EXCEPT ![i] = e]
<1>1. /\ new \in Seq(Entry)
      /\ Len(new) = Len(list)
      /\ new[i] = e
      /\ \A j \in 1..Len(list) : j # i => new[j] = list[j]
  BY SetEntry
<1>2. \A v : HasVocation(list, v) => HasVocation(new, v)
  BY SetEntryOwned
<1>3. e.level > 0 => HasVocation(new, e.vocation)
  <2> HIDE DEF new
  <2>1. i \in EntriesOf(new, e.vocation)
    BY <1>1 DEF EntriesOf
  <2> QED BY <1>1, <2>1 DEF HasVocation
<1> HIDE DEF new
<1>4. ASSUME NoUnlockDue(list), NEW j \in 1..Len(new),
             ~HasVocation(new, new[j].vocation)
      PROVE  new[j].fragments < UnlockFragments
  <2>1. CASE j # i
    <3>1. new[j] = list[j] /\ j \in 1..Len(list)
      BY <1>1, <2>1
    <3>2. ~HasVocation(list, list[j].vocation)
      BY <1>2, <1>4, <3>1
    <3> QED BY <1>4, <3>1, <3>2 DEF NoUnlockDue
  <2>2. CASE j = i
    <3>1. new[j] = e
      BY <1>1, <2>2
    <3>2. ~HasVocation(list, e.vocation) /\ ~(e.level > 0)
      BY <1>2, <1>3, <1>4, <3>1
    <3>3. list[i].fragments < UnlockFragments
      BY <1>4, <3>2 DEF NoUnlockDue
    <3> QED BY <3>1, <3>2, <3>3
  <2> QED BY <2>1, <2>2
<1> QED
  BY <1>1, <1>2, <1>4 DEF Keeps, NoUnlockDue, new

\* addVocation, whatever the entry, when it is not an unpaid one.
LEMMA KeepsAddVocation ==
    ASSUME NEW list \in Seq(Entry), NEW e \in Entry,
           e.level > 0 \/ e.fragments < UnlockFragments
    PROVE  Keeps(list, AddVocation(list, e))
<1>1. CASE HasVocation(list, e.vocation)
  BY <1>1, KeepsSame DEF AddVocation
<1>2. CASE ~HasVocation(list, e.vocation)
  <2> DEFINE new == Append(list, e)
  <2>1. /\ new \in Seq(Entry)
        /\ Len(new) = Len(list) + 1
        /\ new[Len(list) + 1] = e
        /\ \A j \in 1..Len(list) : new[j] = list[j]
        /\ \A v : HasVocation(list, v) => HasVocation(new, v)
    BY AppendEntry
  <2>2. e.level > 0 => HasVocation(new, e.vocation)
    <3> HIDE DEF new
    <3>1. Len(list) + 1 \in EntriesOf(new, e.vocation)
      BY <2>1 DEF EntriesOf
    <3> QED BY <2>1, <3>1 DEF HasVocation
  <2> HIDE DEF new
  <2>3. ASSUME NoUnlockDue(list), NEW j \in 1..Len(new),
               ~HasVocation(new, new[j].vocation)
        PROVE  new[j].fragments < UnlockFragments
    <3>1. CASE j = Len(list) + 1
      BY <2>1, <2>2, <2>3, <3>1
    <3>2. CASE j # Len(list) + 1
      <4>1. j \in 1..Len(list) /\ new[j] = list[j]
        BY <2>1, <3>2
      <4>2. ~HasVocation(list, list[j].vocation)
        BY <2>1, <2>3, <4>1
      <4> QED BY <2>3, <4>1, <4>2 DEF NoUnlockDue
    <3> QED BY <3>1, <3>2
  <2>4. Keeps(list, new)
    BY <2>1, <2>3 DEF Keeps, NoUnlockDue
  <2> QED BY <1>2, <2>4 DEF AddVocation, new
<1> QED
  BY <1>1, <1>2

\* A star is written to the first entry, or to none.
LEMMA KeepsSetVocationStar ==
    ASSUME NEW list \in Seq(Entry), NEW v, NEW s \in Nat
    PROVE  Keeps(list, SetVocationStar(list, v, s))
<1>1. CASE ~VocationExistsInList(list, v)
  BY <1>1, KeepsSame DEF SetVocationStar
<1>2. CASE VocationExistsInList(list, v)
  <2> DEFINE i == First(list, v)
             e == [list[i] EXCEPT !.star = s]
  <2>1. i \in 1..Len(list)
    BY <1>2, FirstEntry DEF VocationExistsInList
  <2> HIDE DEF i
  <2>2. list[i] \in Entry
    BY <2>1
  <2>3. /\ e \in Entry
        /\ e.vocation = list[i].vocation /\ e.level = list[i].level
        /\ e.fragments = list[i].fragments
    BY <2>2, EntryUpdates
  <2>4. e.level > 0 \/ list[i].level = 0
    BY <2>2, <2>3 DEF Entry
  <2>5. Keeps(list, [list EXCEPT ![i] = e])
    <3> HIDE DEF e
    <3> QED BY <2>1, <2>3, <2>4, KeepsSetEntry
  <2> QED BY <1>2, <2>5 DEF SetVocationStar, i
<1> QED
  BY <1>1, <1>2

\* Only a level above 0 is ever copied to the list.
LEMMA KeepsSyncLevel ==
    ASSUME NEW list \in Seq(Entry), NEW v, NEW l \in Nat \ {0}
    PROVE  Keeps(list, SyncLevel(list, v, l))
<1>1. CASE ~VocationExistsInList(list, v)
  BY <1>1, KeepsSame DEF SyncLevel
<1>2. CASE VocationExistsInList(list, v)
  <2> DEFINE i == First(list, v)
             e == [list[i] EXCEPT !.level = l]
  <2>1. i \in 1..Len(list)
    BY <1>2, FirstEntry DEF VocationExistsInList
  <2> HIDE DEF i
  <2>2. list[i] \in Entry
    BY <2>1
  <2>3. e \in Entry /\ e.vocation = list[i].vocation /\ e.level > 0
    <3>1. e \in Entry /\ e.vocation = list[i].vocation /\ e.level = l
      BY <2>2, EntryUpdates, l \in Nat
    <3> QED BY <3>1
  <2>4. Keeps(list, [list EXCEPT ![i] = e])
    <3> HIDE DEF e
    <3> QED BY <2>1, <2>3, KeepsSetEntry
  <2> QED BY <1>2, <2>4 DEF SyncLevel, i
<1> QED
  BY <1>1, <1>2

\* setVocationFragments: the entry it writes has few fragments or is owned.
LEMMA KeepsSetVocationFragments ==
    ASSUME NEW list \in Seq(Entry), NEW v \in Vocations, NEW n \in Nat
    PROVE  Keeps(list, SetVocationFragments(list, v, n))
<1> DEFINE seen == IF VocationExistsInList(list, v)
                   THEN list ELSE AddVocation(list, Locked(v))
           i == First(seen, v)
           entry == [seen[i] EXCEPT !.fragments = n]
           e == IF n >= UnlockFragments /\ ~HasVocation(seen, v)
                THEN Unlocked(entry) ELSE entry
<1>1. Locked(v) \in Entry /\ Locked(v).fragments = 0 /\ Locked(v).vocation = v
  BY DEF Locked, Entry
<1>2. Keeps(list, seen)
  BY <1>1, KeepsSame, KeepsAddVocation DEF UnlockFragments
<1>3. EntriesOf(seen, v) # {}
  <2>1. CASE VocationExistsInList(list, v)
    BY <2>1 DEF VocationExistsInList
  <2>2. CASE ~VocationExistsInList(list, v)
    <3>1. seen = Append(list, Locked(v))
      BY <2>2, <1>1, OwnedHasEntries DEF AddVocation
    <3>2. EntriesOf(Append(list, Locked(v)), v) =
            EntriesOf(list, v) \cup
              (IF v = Locked(v).vocation THEN {Len(list) + 1} ELSE {})
      BY <1>1, AppendEntry
    <3> QED BY <3>1, <3>2, <1>1
  <2> QED BY <2>1, <2>2
<1>4. seen \in Seq(Entry)
  BY <1>2 DEF Keeps
<1> HIDE DEF seen
<1>5. i \in 1..Len(seen) /\ seen[i].vocation = v
  BY <1>3, <1>4, FirstEntry
<1> HIDE DEF i
<1>6. seen[i] \in Entry
  BY <1>4, <1>5
<1>7. /\ entry \in Entry
      /\ entry.vocation = v /\ entry.level = seen[i].level
      /\ entry.fragments = n
  BY <1>5, <1>6, EntryUpdates
<1> HIDE DEF entry
<1>8. /\ Unlocked(entry) \in Entry
      /\ Unlocked(entry).vocation = v /\ Unlocked(entry).level > 0
  <2>1. /\ Unlocked(entry) \in Entry
        /\ Unlocked(entry).vocation = v /\ Unlocked(entry).level = 1
    BY <1>7, EntryUpdates
  <2> QED BY <2>1
<1>9. /\ e \in Entry /\ e.vocation = v
      /\ e.level > 0 \/ seen[i].level = 0
      /\ \/ e.fragments < UnlockFragments
         \/ e.level > 0
         \/ HasVocation(seen, e.vocation)
  <2>1. CASE n >= UnlockFragments /\ ~HasVocation(seen, v)
    BY <1>8, <2>1
  <2>2. CASE ~(n >= UnlockFragments /\ ~HasVocation(seen, v))
    BY <1>6, <1>7, <2>2 DEF UnlockFragments, Entry
  <2> QED BY <2>1, <2>2
<1>10. Keeps(seen, [seen EXCEPT ![i] = e])
  <2> HIDE DEF e
  <2> QED BY <1>4, <1>5, <1>9, KeepsSetEntry
<1>11. SetVocationFragments(list, v, n) = [seen EXCEPT ![i] = e]
  BY DEF SetVocationFragments, seen, i, entry
<1> QED
  <2> HIDE DEF e
  <2> QED BY <1>2, <1>10, <1>11, KeepsTwice

\* The three functions the scripts call.
LEMMA KeepsLua ==
    ASSUME NEW list \in Seq(Entry), NEW v \in Vocations, NEW n \in Nat,
           NEW l \in Nat
    PROVE  /\ Keeps(list, LuaSetVocationFragments(list, v, n))
           /\ Keeps(list, LuaSetVocationStar(list, v, n))
           /\ Keeps(list, LuaAddVocation(list, v, l, n))
<1>1. Keeps(list, LuaSetVocationFragments(list, v, n))
  BY KeepsSame, KeepsSetVocationFragments DEF LuaSetVocationFragments
<1>2. Keeps(list, LuaSetVocationStar(list, v, n))
  BY KeepsSame, KeepsSetVocationStar DEF LuaSetVocationStar
<1>3. Keeps(list, LuaAddVocation(list, v, l, n))
  <2> DEFINE e == [vocation |-> v, level |-> IF l = 0 THEN 1 ELSE l,
                   experience |-> IF l = 0 THEN 0 ELSE n,
                   star |-> n, fragments |-> 0]
  <2>1. e \in Entry /\ e.level > 0
    BY DEF Entry
  <2> HIDE DEF e
  <2>2. Keeps(list, AddVocation(list, e))
    BY <2>1, KeepsAddVocation
  <2> QED BY <2>2 DEF LuaAddVocation, e
<1> QED
  BY <1>1, <1>2, <1>3

-----------------------------------------------------------------------------
\* What a login makes of the rows: entries, the same vocations owned, and
\* no unlock due if none was.
LEMMA LoadedKeeps ==
    ASSUME NEW rows \in Seq(Entry), NEW list \in LoadedLists(rows)
    PROVE  /\ Keeps(rows, list)
           /\ \A v : HasVocation(list, v) <=> HasVocation(rows, v)
<1>1. PICK p \in LoadOrders(rows) : list = [k \in DOMAIN p |-> rows[p[k]]]
  BY DEF LoadedLists
<1>2. PICK n \in 0..Len(rows) : p \in [1..n -> DOMAIN rows]
  BY DEF LoadOrders
<1>3. list \in Seq(Entry) /\ DOMAIN list = 1..n /\ Len(list) = n
  <2>1. list \in [1..n -> Entry]
    BY <1>1, <1>2
  <2>2. n \in Nat
    BY <1>2
  <2> QED BY <2>1, <2>2
<1>4. \A k \in 1..n : p[k] \in 1..Len(rows) /\ list[k] = rows[p[k]]
  BY <1>1, <1>2
<1>5. ASSUME NEW v, HasVocation(list, v) PROVE HasVocation(rows, v)
  <2>1. PICK k \in 1..n : list[k].vocation = v /\ list[k].level > 0
    BY <1>3, <1>5 DEF HasVocation, EntriesOf
  <2>2. p[k] \in 1..Len(rows) /\ rows[p[k]].vocation = v /\ rows[p[k]].level > 0
    BY <1>4, <2>1
  <2> QED BY <2>2 DEF HasVocation, EntriesOf
<1>6. ASSUME NEW v, HasVocation(rows, v) PROVE HasVocation(list, v)
  <2>1. PICK i \in DOMAIN rows : rows[i].vocation = v /\ rows[i].level > 0
    BY <1>6 DEF HasVocation, EntriesOf
  <2>2. PICK j \in DOMAIN p : /\ rows[p[j]].vocation = v
                             /\ rows[p[j]].level > 0
    BY <2>1 DEF LoadOrders
  <2>3. j \in 1..n /\ list[j].vocation = v /\ list[j].level > 0
    BY <1>2, <1>4, <2>2
  <2> QED BY <1>3, <2>3 DEF HasVocation, EntriesOf
<1>7. ASSUME NoUnlockDue(rows) PROVE NoUnlockDue(list)
  <2> SUFFICES ASSUME NEW k \in 1..Len(list),
                      ~HasVocation(list, list[k].vocation)
               PROVE  list[k].fragments < UnlockFragments
    BY DEF NoUnlockDue
  <2>1. p[k] \in 1..Len(rows) /\ list[k] = rows[p[k]]
    BY <1>3, <1>4
  <2>2. ~HasVocation(rows, rows[p[k]].vocation)
    BY <1>6, <2>1
  <2> QED BY <1>7, <2>1, <2>2 DEF NoUnlockDue
<1> QED
  BY <1>3, <1>5, <1>6, <1>7 DEF Keeps

-----------------------------------------------------------------------------
\* Arithmetic of experience and levels.
LEMMA ExpForLevelType == ASSUME NEW l \in Nat PROVE ExpForLevel(l) \in Nat
<1>1. CASE l = 0
  BY <1>1 DEF ExpForLevel, Wrapped
<1>2. CASE l # 0
  <2> DEFINE m == l - 1
  <2>1. m \in Nat
    BY <1>2
  <2> HIDE DEF m
  <2>2. m*m >= 3*m - 3
    <3>1. (m - 1) * (m - 2) >= 0
      <4>1. CASE m = 0 \/ m = 1 \/ m = 2
        BY <4>1
      <4>2. CASE m > 2
        BY <4>2, <2>1
      <4> QED BY <4>1, <4>2, <2>1
    <3>2. (m - 1) * (m - 2) = m*m - 3*m + 2
      BY <2>1
    <3> QED BY <3>1, <3>2, <2>1
  <2>3. 50*(m*m) - 150*m + 400 \in Nat
    BY <2>1, <2>2
  <2>4. m * (50*(m*m) - 150*m + 400) \in Nat
    BY <2>1, <2>3
  <2>5. m * (50*(m*m) - 150*m + 400) = 50*m*m*m + 400*m - 150*m*m
    BY <2>1
  <2>6. 50*m*m*m + 400*m - 150*m*m \in Nat
    BY <2>4, <2>5
  <2>7. (50*m*m*m + 400*m - 150*m*m) \div 3 \in Nat
    BY <2>6
  <2> QED
    BY <1>2, <2>7 DEF ExpForLevel, m
<1> QED
  BY <1>1, <1>2

\* addExperience ends on a level at or above the one it starts from.
LEMMA LevelUpRange ==
    ASSUME NEW l \in Nat, l <= MaxLevel, NEW e \in Nat,
           e < ExpForLevel(MaxLevel + 1)
    PROVE  LevelUp(l, e) \in l..MaxLevel
<1> DEFINE stops == {m \in l..MaxLevel : e < ExpForLevel(m + 1)}
<1>1. MaxLevel \in stops
  BY ConstantsAssumption
<1>2. stops \in SUBSET Nat
  BY ConstantsAssumption
<1>3. \E m \in stops : \A k \in stops : m <= k
  <2> HIDE DEF stops
  <2> QED BY <1>1, <1>2, LeastElement
<1>4. (CHOOSE m \in stops : \A k \in stops : m <= k) \in stops
  <2> HIDE DEF stops
  <2> QED BY <1>3
<1> QED
  BY <1>4 DEF LevelUp

\* removeExperience and death leave a level above 0 a level above 0.
LEMMA LevelDownRange ==
    ASSUME NEW l \in Nat, NEW e \in Nat
    PROVE  LevelDown(l, e) \in Nat /\ (l > 1 => LevelDown(l, e) \in 1..l)
<1>1. CASE l <= 1
  BY <1>1 DEF LevelDown
<1>2. CASE l > 1
  <2> DEFINE stops == {m \in 1..l : m = 1 \/ e >= ExpForLevel(m)}
             below == {l - m : m \in stops}
  <2>1. 1 \in stops /\ stops \subseteq 1..l
    BY <1>2
  <2> HIDE DEF stops
  <2>2. below \in SUBSET Nat /\ below # {}
    <3>1. ASSUME NEW m \in stops PROVE l - m \in Nat
      <4>1. m \in 1..l
        BY <2>1
      <4> QED BY <4>1
    <3>2. below \subseteq Nat
      BY <3>1
    <3>3. l - 1 \in below
      BY <2>1
    <3> QED BY <3>2, <3>3
  <2>3. PICK d \in below : \A c \in below : d <= c
    <3> HIDE DEF below
    <3> QED BY <2>2, LeastElement
  <2>4. \E m \in stops : \A k \in stops : k <= m
    <3>1. PICK m \in stops : d = l - m
      BY <2>3
    <3>2. ASSUME NEW k \in stops PROVE k <= m
      <4>1. l - k \in below
        OBVIOUS
      <4>2. l - m <= l - k
        BY <2>3, <3>1, <4>1
      <4>3. k \in 1..l /\ m \in 1..l
        BY <2>1
      <4> QED BY <4>2, <4>3
    <3> QED BY <3>2
  <2>5. (CHOOSE m \in stops : \A k \in stops : k <= m) \in stops
    BY <2>4
  <2>6. LevelDown(l, e) \in stops
    BY <1>2, <2>5 DEF LevelDown, stops
  <2>7. LevelDown(l, e) \in 1..l
    BY <2>1, <2>6
  <2> QED
    BY <2>7
<1> QED
  BY <1>1, <1>2

\* A death costs no more than there is.
LEMMA LossRange ==
    ASSUME NEW e \in Nat, NEW p \in 0..100
    PROVE  (e * p) \div 100 \in 0..e
<1>1. e * p \in Nat /\ e * p <= e * 100
  <2>1. e * (100 - p) >= 0 /\ e * p >= 0
    OBVIOUS
  <2>2. e * (100 - p) = e * 100 - e * p
    OBVIOUS
  <2>3. e * p \in Int /\ e * 100 \in Int
    OBVIOUS
  <2> QED BY <2>1, <2>2, <2>3
<1> QED
  <2> DEFINE x == e * p
  <2>1. x \in Nat /\ x <= e * 100
    BY <1>1
  <2> HIDE DEF x
  <2>2. x \div 100 \in 0..e
    BY <2>1
  <2> QED BY <2>2 DEF x

-----------------------------------------------------------------------------
\* The inductive invariant: LockedBelowUnlock for every entry rather than the
\* first, in the game and in the row, and a session that owns what the row
\* owns, so that no save takes a vocation away.
IInv ==
    /\ TypeOK
    /\ NoUnlockDue(vocations)
    /\ NoUnlockDue(db.vocations)
    /\ online => \A v : HasVocation(db.vocations, v) => HasVocation(vocations, v)

\* A list without entries owns nothing and leaves no unlock due.
LEMMA EmptyList ==
    /\ <<>> \in Seq(Entry)
    /\ NoUnlockDue(<<>>)
    /\ \A v : ~HasVocation(<<>>, v)
BY DEF NoUnlockDue, HasVocation, EntriesOf

\* The row of a new player is well formed.
LEMMA InitIInv == Init => IInv
<1> SUFFICES ASSUME Init PROVE IInv
  OBVIOUS
<1> USE ConstantsAssumption DEF Init
<1>1. db \in Row
  <2>1. ExpForLevel(StartLevel) \in Nat /\ StartLevel \in Nat
    BY ExpForLevelType
  <2>2. NoneWon \in [Vocations -> Nat]
    BY DEF NoneWon
  <2> QED BY <2>1, <2>2 DEF Row
<1>2. TypeOK
  BY <1>1, EmptyList DEF TypeOK, Neutral, NoneWon
<1>3. NoUnlockDue(db.vocations)
  <2>1. db.vocations = StartRows
    OBVIOUS
  <2>2. ASSUME NEW i \in 1..Len(StartRows),
               ~HasVocation(StartRows, StartRows[i].vocation)
        PROVE  StartRows[i].fragments < UnlockFragments
    BY <2>2, StartAssumption DEF HasVocation, EntriesOf
  <2> QED BY <2>1, <2>2 DEF NoUnlockDue
<1> QED
  BY <1>2, <1>3, EmptyList DEF IInv

\* A switch leaves an object of the right type, whatever the entry holds.
LEMMA ChangeVocationType ==
    ASSUME NEW list \in Seq(Entry), NEW c \in Vocations, NEW l \in Nat,
           NEW e \in Nat, NEW x \in Nat, NEW v \in Vocations
    PROVE  LET p == ChangeVocation([vocations |-> list, current |-> c,
                        level |-> l, experience |-> e, extraDamage |-> x], v)
           IN  /\ p.vocations = list /\ p.current \in Vocations
               /\ p.level \in Nat /\ p.experience \in Nat
               /\ p.extraDamage \in Nat
<1>1. CASE ~HasVocation(list, v)
  BY <1>1 DEF ChangeVocation
<1>2. CASE HasVocation(list, v)
  <2>1. EntriesOf(list, v) # {}
    BY <1>2 DEF HasVocation
  <2>2. list[First(list, v)] \in Entry
    BY <2>1, FirstEntry
  <2>3. GainVocationTierATKBonus(v, list[First(list, v)].star) \in Nat
    BY <2>2 DEF GainVocationTierATKBonus, Neutral, Entry
  <2> QED BY <1>2, <2>2, <2>3 DEF ChangeVocation, Entry
<1> QED
  BY <1>1, <1>2

-----------------------------------------------------------------------------
\* A handler of a session: it rewrites the list and nothing is stored.
LEMMA HandlerStep ==
    ASSUME IInv, online, online' = online, db' = db,
           Keeps(vocations, vocations'), TypeOK'
    PROVE  IInv' /\ OwnedStep
<1>1. \A v : HasVocation(vocations, v) => HasVocation(vocations', v)
  BY DEF Keeps
<1>2. NoUnlockDue(vocations')
  BY DEF Keeps, IInv
<1>3. IInv'
  BY <1>1, <1>2 DEF IInv
<1>4. OwnedStep
  BY <1>1, online DEF OwnedStep, Owned
<1> QED
  BY <1>3, <1>4

\* A save and an end of the session: the row keeps its list or takes the
\* list of the object.
LEMMA StoreStep ==
    ASSUME IInv, online, TypeOK',
           db'.vocations = db.vocations \/ db'.vocations = vocations,
           (online' /\ vocations' = vocations) \/ (~online' /\ vocations' = <<>>)
    PROVE  IInv' /\ OwnedStep
<1>1. \A v : HasVocation(db.vocations, v) => HasVocation(db'.vocations, v)
  BY DEF IInv
<1>2. NoUnlockDue(vocations') /\ NoUnlockDue(db'.vocations)
  BY EmptyList DEF IInv
<1>3. online' => \A v : HasVocation(db'.vocations, v) => HasVocation(vocations', v)
  BY DEF IInv
<1>4. IInv'
  BY <1>2, <1>3 DEF IInv
<1>5. OwnedStep
  BY <1>1, online DEF OwnedStep, Owned
<1> QED
  BY <1>4, <1>5

\* What is saved is a row and has the vocations of the object.
LEMMA RowType ==
    ASSUME TypeOK, NEW l \in Nat, NEW e \in Nat
    PROVE  RowOf(l, e) \in Row /\ RowOf(l, e).vocations = vocations
BY DEF TypeOK, RowOf, Row

\* The levels a fight can leave, and the copy of the new one.
LEMMA FightLevels ==
    ASSUME TypeOK, NEW l \in Nat, l = level \/ l > 0
    PROVE  Keeps(vocations, IF l # level
                            THEN SyncLevel(vocations, current, l) ELSE vocations)
<1>1. CASE l = level
  BY <1>1, KeepsSame DEF TypeOK
<1>2. CASE l # level
  <2>1. l \in Nat \ {0}
    BY <1>2
  <2> QED BY <1>2, <2>1, KeepsSyncLevel DEF TypeOK
<1> QED
  BY <1>1, <1>2

-----------------------------------------------------------------------------
\* A login reads from the row what was owned when it was written.
LEMMA LoginStep == ASSUME IInv, Login PROVE IInv' /\ OwnedStep
<1>1. TypeOK /\ db \in Row /\ db.vocations \in Seq(Entry)
  BY DEF IInv, TypeOK, Row
<1>2. LoadedLevel(db) \in Nat
  BY <1>1 DEF LoadedLevel, Row
<1>3. LoadedExperience(db) \in Nat
  BY <1>1, <1>2, ExpForLevelType DEF LoadedExperience, Row
<1>4. PICK list \in LoadedLists(db.vocations) :
        LET player == ChangeVocation(
                        [vocations |-> list, current |-> db.current,
                         level |-> LoadedLevel(db),
                         experience |-> LoadedExperience(db),
                         extraDamage |-> Neutral], db.current)
        IN  /\ vocations' = player.vocations
            /\ current' = player.current
            /\ level' = player.level
            /\ experience' = player.experience
            /\ extraDamage' = player.extraDamage
  BY DEF Login
<1>5. /\ Keeps(db.vocations, list)
      /\ \A v : HasVocation(list, v) <=> HasVocation(db.vocations, v)
  BY <1>1, LoadedKeeps
<1>6. list \in Seq(Entry)
  BY <1>5 DEF Keeps
<1>7. /\ vocations' = list /\ current' \in Vocations
      /\ level' \in Nat /\ experience' \in Nat /\ extraDamage' \in Nat
  <2>1. db.current \in Vocations /\ Neutral \in Nat
    BY <1>1 DEF Row, Neutral
  <2> QED BY <1>2, <1>3, <1>4, <1>6, <2>1, ChangeVocationType
<1>8. TypeOK'
  BY <1>1, <1>6, <1>7 DEF Login, TypeOK, Row
<1>9. NoUnlockDue(vocations') /\ NoUnlockDue(db'.vocations)
  BY <1>5, <1>7 DEF Keeps, IInv, Login
<1>10. IInv'
  BY <1>5, <1>7, <1>8, <1>9 DEF IInv, Login
<1>11. OwnedStep
  BY <1>5, <1>7 DEF OwnedStep, Owned, Login
<1> QED
  BY <1>10, <1>11

\* A save writes what is owned, and a crash forgets the object only.
LEMMA SaveStep ==
    ASSUME IInv, Save \/ Logout \/ Crash PROVE IInv' /\ OwnedStep
<1>1. TypeOK
  BY DEF IInv
<1>2. RowOf(level, experience) \in Row /\ RowOf(level, experience).vocations = vocations
  BY <1>1, RowType DEF TypeOK
<1>3. /\ db' \in Row
      /\ db'.vocations = db.vocations \/ db'.vocations = vocations
  BY <1>1, <1>2 DEF Save, Logout, Crash, SavePlayer, TypeOK
<1>4. /\ online
      /\ (online' /\ vocations' = vocations) \/ (~online' /\ vocations' = <<>>)
  BY DEF Save, Logout, Crash, Forget
<1>5. TypeOK'
  <2>1. NoVocation \in Vocations /\ NoneWon \in [Vocations -> Nat]
    BY ConstantsAssumption DEF NoneWon
  <2>2. CASE Save
    BY <1>1, <1>3, <2>2 DEF Save, TypeOK
  <2>3. CASE (Logout \/ Crash)
    <3>1. Forget
      BY <2>3 DEF Logout, Crash
    <3> QED BY <1>1, <1>3, <2>1, <3>1, EmptyList DEF Forget, TypeOK, Neutral
  <2> QED BY <2>2, <2>3
<1> QED
  BY <1>3, <1>4, <1>5, StoreStep

\* A death takes experience and saves the rest.
LEMMA DeathStep == ASSUME IInv, Death PROVE IInv' /\ OwnedStep
<1>1. TypeOK
  BY DEF IInv
<1> DEFINE loss == (experience * DeathLosePercent) \div 100
           left == IF current = NoVocation \/ level > 7
                   THEN experience - loss ELSE experience
           fallen == IF loss = 0 THEN level ELSE LevelDown(level, left)
<1>2. left \in Nat
  <2>1. loss \in 0..experience
    BY <1>1, LossRange, ConstantsAssumption DEF TypeOK
  <2> HIDE DEF loss
  <2> QED BY <1>1, <2>1 DEF TypeOK
<1>3. fallen \in Nat
  <2> HIDE DEF loss, left
  <2> QED BY <1>1, <1>2, LevelDownRange DEF TypeOK
<1>4. SavePlayer(RowOf(fallen, left)) /\ online /\ Forget
  BY DEF Death
<1> HIDE DEF left, fallen
<1>5. RowOf(fallen, left) \in Row /\ RowOf(fallen, left).vocations = vocations
  BY <1>1, <1>2, <1>3, RowType
<1>6. /\ db' \in Row
      /\ db'.vocations = db.vocations \/ db'.vocations = vocations
  BY <1>1, <1>4, <1>5 DEF SavePlayer, TypeOK
<1>7. TypeOK'
  <2>1. NoVocation \in Vocations /\ NoneWon \in [Vocations -> Nat]
    BY ConstantsAssumption DEF NoneWon
  <2> QED BY <1>1, <1>4, <1>6, <2>1, EmptyList DEF Forget, TypeOK, Neutral
<1> QED
  BY <1>4, <1>6, <1>7, StoreStep DEF Forget

\* Experience gained changes no vocation.
LEMMA GainStep == ASSUME IInv, GainExperience PROVE IInv' /\ OwnedStep
<1>1. TypeOK
  BY DEF IInv
<1>2. experience' \in Nat /\ experience' < ExpForLevel(MaxLevel + 1)
  BY <1>1, ConstantsAssumption DEF GainExperience, TypeOK
<1>3. level' \in level..MaxLevel
  BY <1>1, <1>2, LevelUpRange DEF GainExperience, TypeOK
<1>4. level' \in Nat /\ (level' = level \/ level' > 0)
  BY <1>1, <1>3, ConstantsAssumption DEF TypeOK
<1>5. Keeps(vocations, vocations')
  BY <1>1, <1>4, FightLevels DEF GainExperience
<1>6. TypeOK'
  BY <1>1, <1>2, <1>4, <1>5 DEF GainExperience, TypeOK, Keeps
<1> QED
  BY <1>5, <1>6, HandlerStep DEF GainExperience

\* Neither does experience lost.
LEMMA LoseStep == ASSUME IInv, LoseExperience PROVE IInv' /\ OwnedStep
<1>1. TypeOK
  BY DEF IInv
<1>2. experience' \in Nat
  BY <1>1, ConstantsAssumption DEF LoseExperience, TypeOK
<1>3. level' \in Nat /\ (level' = level \/ level' > 0)
  <2>1. level' = LevelDown(level, experience')
    BY DEF LoseExperience
  <2>2. CASE level > 1
    <3>1. level' \in 1..level
      BY <1>1, <1>2, <2>1, <2>2, LevelDownRange DEF TypeOK
    <3> QED BY <1>1, <3>1 DEF TypeOK
  <2>3. CASE level <= 1
    BY <1>1, <2>1, <2>3 DEF LevelDown, TypeOK
  <2> QED BY <1>1, <2>2, <2>3 DEF TypeOK
<1>4. Keeps(vocations, vocations')
  BY <1>1, <1>3, FightLevels DEF LoseExperience
<1>5. TypeOK'
  BY <1>1, <1>2, <1>3, <1>4 DEF LoseExperience, TypeOK, Keeps
<1> QED
  BY <1>4, <1>5, HandlerStep DEF LoseExperience

\* A change of character chooses among what is owned.
LEMMA ChangeStep ==
    ASSUME IInv, NEW v \in Vocations, ChangeCharacter(v) PROVE IInv' /\ OwnedStep
<1>1. TypeOK
  BY DEF IInv
<1>2. /\ current' \in Vocations
      /\ level' \in Nat /\ experience' \in Nat /\ extraDamage' \in Nat
  BY <1>1, ChangeVocationType DEF ChangeCharacter, TypeOK
<1>3. TypeOK'
  BY <1>1, <1>2 DEF ChangeCharacter, TypeOK
<1>4. Keeps(vocations, vocations')
  BY <1>1, KeepsSame DEF ChangeCharacter, TypeOK
<1> QED
  BY <1>3, <1>4, HandlerStep DEF ChangeCharacter

\* The counts read from a list are natural numbers.
LEMMA FragmentsType ==
    ASSUME TypeOK, NEW v
    PROVE  /\ GetVocationFragments(vocations, v) \in Nat
           /\ GetVocationStar(vocations, v) \in Nat
<1>1. CASE ~VocationExistsInList(vocations, v)
  BY <1>1 DEF GetVocationFragments, GetVocationStar
<1>2. CASE VocationExistsInList(vocations, v)
  <2>1. vocations[First(vocations, v)] \in Entry
    BY <1>2, FirstEntry DEF TypeOK, VocationExistsInList
  <2> QED BY <1>2, <2>1 DEF GetVocationFragments, GetVocationStar, Entry
<1> QED
  BY <1>1, <1>2

\* A drawn vocation gets its fragments, and is unlocked at a hundred.
LEMMA SortStep ==
    ASSUME IInv, NEW v \in Vocations, SortVocation(v) PROVE IInv' /\ OwnedStep
<1>1. TypeOK
  BY DEF IInv
<1>2. PICK n \in {20, 100} :
        /\ vocations' = LuaSetVocationFragments(vocations, v,
                            GetVocationFragments(vocations, v) + n)
        /\ won' = [won EXCEPT ![v] = @ + n]
  BY DEF SortVocation
<1>3. GetVocationFragments(vocations, v) + n \in Nat
  BY <1>1, FragmentsType
<1>4. Keeps(vocations, vocations')
  BY <1>1, <1>2, <1>3, KeepsLua DEF TypeOK
<1>5. won' \in [Vocations -> Nat]
  BY <1>1, <1>2 DEF TypeOK
<1>6. TypeOK'
  BY <1>1, <1>4, <1>5 DEF SortVocation, TypeOK, Keeps
<1> QED
  BY <1>4, <1>6, HandlerStep DEF SortVocation

\* A star costs fragments of a vocation that is owned.
LEMMA UpgradeStep ==
    ASSUME IInv, NEW v \in Vocations, UpgradeStar(v) PROVE IInv' /\ OwnedStep
<1>1. TypeOK
  BY DEF IInv
<1> DEFINE star == GetVocationStar(vocations, v)
           frags == GetVocationFragments(vocations, v)
           cost == GetFragmentsCostToUpgradeStar(star)
           paid == LuaSetVocationFragments(vocations, v, frags - cost)
<1>2. frags \in Nat /\ star \in Nat
  BY <1>1, FragmentsType
<1>3. frags >= cost /\ vocations' = LuaSetVocationStar(paid, v, star + 1)
  BY DEF UpgradeStar
<1>4. frags - cost \in Nat
  <2>1. cost \in Nat
    BY DEF GetFragmentsCostToUpgradeStar
  <2> HIDE DEF frags, cost
  <2> QED BY <1>2, <1>3, <2>1
<1>5. Keeps(vocations, paid)
  BY <1>1, <1>4, KeepsLua DEF TypeOK
<1>6. paid \in Seq(Entry)
  BY <1>5 DEF Keeps
<1>7. Keeps(vocations, vocations')
  <2> HIDE DEF paid, star
  <2>1. Keeps(paid, vocations')
    BY <1>2, <1>3, <1>6, KeepsLua
  <2> QED BY <1>5, <2>1, KeepsTwice
<1>8. TypeOK'
  BY <1>1, <1>7 DEF UpgradeStar, TypeOK, Keeps
<1> QED
  BY <1>7, <1>8, HandlerStep DEF UpgradeStar

\* What the staff grants takes nothing away.
LEMMA GrantStep ==
    ASSUME IInv, (\E v \in Vocations : GrantVocation(v)) \/ GrantStar \/ GrantKeys
    PROVE  IInv' /\ OwnedStep
<1>1. TypeOK
  BY DEF IInv
<1>2. Keeps(vocations, vocations')
  <2>1. ASSUME NEW v \in Vocations, GrantVocation(v)
        PROVE  Keeps(vocations, vocations')
    BY <1>1, <2>1, KeepsLua, ConstantsAssumption DEF GrantVocation, TypeOK
  <2>2. CASE GrantStar
    BY <1>1, <2>2, KeepsLua, ConstantsAssumption DEF GrantStar, TypeOK
  <2>3. CASE GrantKeys
    BY <1>1, <2>3, KeepsSame DEF GrantKeys, TypeOK
  <2> QED BY <2>1, <2>2, <2>3
<1>3. TypeOK'
  BY <1>1, <1>2, ConstantsAssumption
     DEF GrantVocation, GrantStar, GrantKeys, TypeOK, Keeps
<1> QED
  BY <1>2, <1>3, HandlerStep DEF GrantVocation, GrantStar, GrantKeys

-----------------------------------------------------------------------------
\* Every handler, save, crash and login keeps the invariant.
LEMMA NextStep == ASSUME IInv, [Next]_vars PROVE IInv' /\ OwnedStep
<1>1. CASE Login
  BY <1>1, LoginStep
<1>2. CASE Save \/ Logout \/ Crash
  BY <1>2, SaveStep
<1>3. CASE Death
  BY <1>3, DeathStep
<1>4. CASE GainExperience
  BY <1>4, GainStep
<1>5. CASE LoseExperience
  BY <1>5, LoseStep
<1>6. ASSUME NEW v \in Vocations, ChangeCharacter(v) PROVE IInv' /\ OwnedStep
  BY <1>6, ChangeStep
<1>7. ASSUME NEW v \in Vocations, UpgradeStar(v) PROVE IInv' /\ OwnedStep
  BY <1>7, UpgradeStep
<1>8. ASSUME NEW v \in Heroes, SortVocation(v) PROVE IInv' /\ OwnedStep
  BY <1>8, SortStep, HeroesAssumption
<1>9. CASE (\E v \in Vocations : GrantVocation(v)) \/ GrantStar \/ GrantKeys
  BY <1>9, GrantStep
<1>10. CASE UNCHANGED vars
  <2>1. IInv'
    BY <1>10 DEF IInv, TypeOK, vars
  <2>2. OwnedStep
    BY <1>10 DEF OwnedStep, vars
  <2> QED BY <2>1, <2>2
<1> QED
  BY <1>1, <1>2, <1>3, <1>4, <1>5, <1>6, <1>7, <1>8, <1>9, <1>10 DEF Next

\* The invariant holds in every reachable state.
LEMMA Invariance == Spec => []IInv
<1>1. IInv /\ [Next]_vars => IInv'
  BY NextStep
<1> QED
  BY InitIInv, <1>1, PTL DEF Spec

\* Every reachable object and row is well formed.
THEOREM TypeCorrect == Spec => []TypeOK
<1>1. IInv => TypeOK
  BY DEF IInv
<1> QED
  BY Invariance, <1>1, PTL

\* In every session of every player, with or without the staff's grants, a
\* vocation that is not owned has less than the hundred fragments that
\* unlock it.
THEOREM UnlockTheorem == Spec => []LockedBelowUnlock
<1>1. ASSUME NEW list \in Seq(Entry), NoUnlockDue(list), NEW v,
             ~HasVocation(list, v)
      PROVE  GetVocationFragments(list, v) < UnlockFragments
  <2>1. CASE ~VocationExistsInList(list, v)
    BY <2>1 DEF GetVocationFragments, UnlockFragments
  <2>2. CASE VocationExistsInList(list, v)
    <3>1. First(list, v) \in 1..Len(list) /\ list[First(list, v)].vocation = v
      BY <2>2, FirstEntry DEF VocationExistsInList
    <3> QED BY <1>1, <2>2, <3>1 DEF NoUnlockDue, GetVocationFragments
  <2> QED BY <2>1, <2>2
<1>2. IInv => LockedBelowUnlock
  BY <1>1 DEF IInv, TypeOK, Row, LockedBelowUnlock
<1> QED
  BY Invariance, <1>2, PTL

\* Nothing takes a vocation away: not a handler, not a save, not a reload.
THEOREM OwnedTheorem == Spec => OwnedKept
<1>1. IInv /\ [Next]_vars => [OwnedStep]_vars
  BY NextStep
<1> QED
  BY Invariance, <1>1, PTL DEF Spec, OwnedKept
-----------------------------------------------------------------------------
(***************************************************************************)
(* A player to whom the staff grants nothing, and who starts with an owned *)
(* vocation: the list has one entry of each vocation, nothing in it comes  *)
(* for free, and the active one is in it.                                  *)
(***************************************************************************)
OneEach(list) ==
    \A i, j \in 1..Len(list) : list[i].vocation = list[j].vocation => i = j

\* The entry e of a vocation of which n fragments have been drawn.
Drawn(e, n) ==
    IF e.level > 0 THEN e.fragments + UnlockFragments <= n
    ELSE e.fragments = n /\ n < UnlockFragments

\* Only heroes are listed, and those owned have as many stars as have a bonus.
Settled(e, w) ==
    /\ e.vocation \in Heroes /\ (e.level > 0 => e.star \in 1..5)
    /\ e.vocation \notin Owned(StartRows) => Drawn(e, w[e.vocation])

Roll(list, w) ==
    /\ OneEach(list)
    /\ \A i \in 1..Len(list) : Settled(list[i], w)
    /\ \A v \in Vocations \ Owned(StartRows) : EntriesOf(list, v) = {} => w[v] = 0

\* What the game gives a new character.
NewCharacter ==
    ~GameMasters /\ HasVocation(StartRows, StartVocation) /\ Roll(StartRows, NoneWon)

\* Whatever is active is owned in both lists, at the same level.
KeepsLevels(list, new) ==
    \A c : HasVocation(list, c) =>
              HasVocation(new, c) /\ new[First(new, c)].level = list[First(list, c)].level

\* The first entry of a vocation is its only one.
LEMMA OnlyEntry ==
    ASSUME NEW list \in Seq(Entry), OneEach(list), NEW v, NEW i \in EntriesOf(list, v)
    PROVE  /\ First(list, v) = i /\ (HasVocation(list, v) <=> list[i].level > 0)
           /\ VocationExistsInList(list, v)
<1>2. \A j \in EntriesOf(list, v) : j = i
  BY DEF EntriesOf, OneEach
<1>3. i \in EntriesOf(list, v)
  OBVIOUS
<1>4. First(list, v) \in EntriesOf(list, v)
  BY <1>3, FirstEntry DEF EntriesOf
<1> QED
  BY <1>2, <1>3, <1>4 DEF HasVocation, VocationExistsInList

\* e may be written over the entry i.
May(list, i, e, w, u) ==
    /\ i \in 1..Len(list) /\ e \in Entry /\ e.vocation = list[i].vocation /\ Settled(e, u)
    /\ \A v \in Vocations : v # e.vocation => u[v] = w[v]

Write(list, i, e) == [list EXCEPT ![i] = e]

\* One entry is rewritten, and what was drawn of its vocation counted.
LEMMA RollSet ==
    ASSUME NEW list \in Seq(Entry), NEW w, Roll(list, w), NEW i, NEW e, NEW u,
           May(list, i, e, w, u), NEW new, new = Write(list, i, e)
    PROVE  /\ new \in Seq(Entry) /\ Len(new) = Len(list) /\ new[i] = e
           /\ Roll(new, u)
           /\ (e.level = list[i].level \/ list[i].level = 0) => KeepsLevels(list, new)
<1>1. /\ i \in 1..Len(list) /\ e \in Entry /\ e.vocation = list[i].vocation /\ Settled(e, u)
      /\ \A v \in Vocations : v # e.vocation => u[v] = w[v]
  BY DEF May
<1>2. /\ new \in Seq(Entry) /\ Len(new) = Len(list) /\ new[i] = e
      /\ \A j \in 1..Len(list) : j # i => new[j] = list[j]
  BY <1>1 DEF Write
<1>a. ASSUME NEW v PROVE EntriesOf(new, v) = EntriesOf(list, v)
  BY <1>1, <1>2 DEF EntriesOf
<1>3. \A j \in 1..Len(list) : new[j].vocation = list[j].vocation /\ list[j] \in Entry
  BY <1>1, <1>2
<1>4. OneEach(new)
  BY <1>2, <1>3 DEF OneEach, Roll
<1>5. ASSUME NEW j \in 1..Len(list), j # i PROVE Settled(new[j], u)
  <2>1. new[j] = list[j] /\ Settled(list[j], w)
    BY <1>2, <1>5 DEF Roll
  <2>2. list[j].vocation # e.vocation /\ list[j].vocation \in Vocations
    BY <1>1, <1>3, <1>5 DEF OneEach, Roll, Entry
  <2>3. u[list[j].vocation] = w[list[j].vocation]
    BY <1>1, <2>2
  <2> QED
    BY <2>1, <2>3 DEF Settled
<1>6. ASSUME NEW v \in Vocations \ Owned(StartRows), EntriesOf(new, v) = {} PROVE u[v] = 0
  <2>1. i \in EntriesOf(list, e.vocation)
    BY <1>1 DEF EntriesOf
  <2>2. v # e.vocation
    BY <1>a, <1>6, <2>1
  <2> QED
    BY <1>1, <1>a, <1>6, <2>2 DEF Roll
<1>7. Roll(new, u)
  BY <1>1, <1>2, <1>4, <1>5, <1>6 DEF Roll
<1>8. ASSUME e.level = list[i].level \/ list[i].level = 0, NEW c, HasVocation(list, c)
      PROVE  HasVocation(new, c) /\ new[First(new, c)].level = list[First(list, c)].level
  <2>1. PICK k \in EntriesOf(list, c) : list[k].level > 0
    BY <1>8 DEF HasVocation
  <2>2. k \in 1..Len(list) /\ k \in EntriesOf(new, c)
    <3>1. k \in EntriesOf(new, c)
      BY <1>a
    <3> QED
      BY <3>1 DEF EntriesOf
  <2>3. First(list, c) = k
    BY <2>1, OnlyEntry DEF Roll
  <2>4. First(new, c) = k
    BY <1>2, <1>4, <2>2, OnlyEntry
  <2>5. new[k].level = list[k].level
    BY <1>2, <1>8, <2>1, <2>2
  <2> QED
    BY <2>1, <2>2, <2>3, <2>4, <2>5 DEF HasVocation
<1> QED
  BY <1>2, <1>7, <1>8 DEF KeepsLevels

\* A vocation that was not listed gets an entry.
LEMMA RollAppend ==
    ASSUME NEW list \in Seq(Entry), NEW e \in Entry, NEW w, Roll(list, w), Settled(e, w),
           EntriesOf(list, e.vocation) = {}
    PROVE  Roll(Append(list, e), w) /\ KeepsLevels(list, Append(list, e))
<1>1. PICK new : new = Append(list, e)
  OBVIOUS
<1>2. /\ new \in Seq(Entry) /\ Len(new) = Len(list) + 1 /\ new[Len(list) + 1] = e
      /\ \A j \in 1..Len(list) : new[j] = list[j]
      /\ \A v : EntriesOf(new, v) =
            EntriesOf(list, v) \cup (IF v = e.vocation THEN {Len(list) + 1} ELSE {})
  BY <1>1, AppendEntry
<1>3. \A j \in 1..Len(list) : list[j].vocation # e.vocation
  BY DEF EntriesOf
<1>4. \A j \in 1..Len(new) : j \in 1..Len(list) \/ j = Len(list) + 1
  BY <1>2
<1>5. OneEach(new)
  BY <1>2, <1>3, <1>4 DEF OneEach, Roll
<1>6. \A j \in 1..Len(new) : Settled(new[j], w)
  BY <1>2, <1>4 DEF Roll
<1>7. Roll(new, w)
  BY <1>2, <1>5, <1>6 DEF Roll
<1>8. ASSUME NEW c, HasVocation(list, c)
      PROVE  HasVocation(new, c) /\ new[First(new, c)].level = list[First(list, c)].level
  <2>1. PICK k \in EntriesOf(list, c) : list[k].level > 0
    BY <1>8 DEF HasVocation
  <2>2. k \in EntriesOf(new, c) /\ new[k] = list[k]
    BY <1>2 DEF EntriesOf
  <2>3. First(list, c) = k
    BY <2>1, OnlyEntry DEF Roll
  <2>4. First(new, c) = k /\ (HasVocation(new, c) <=> new[k].level > 0)
    BY <1>2, <1>5, <2>2, OnlyEntry
  <2> QED
    BY <2>1, <2>2, <2>3, <2>4
<1> QED
  BY <1>1, <1>7, <1>8 DEF KeepsLevels

\* One write after the other.
LEMMA LevelsTwice ==
    ASSUME NEW a, NEW b, NEW c, KeepsLevels(a, b), KeepsLevels(b, c)
    PROVE  KeepsLevels(a, c)
  BY DEF KeepsLevels

\* setVocationFragments begins with an entry, an old or a new one.
LEMMA RollSeen ==
    ASSUME NEW list \in Seq(Entry), NEW v \in Heroes, NEW w, Roll(list, w),
           NEW seen, seen = IF VocationExistsInList(list, v)
                            THEN list ELSE AddVocation(list, Locked(v))
    PROVE  /\ seen \in Seq(Entry) /\ Roll(seen, w) /\ KeepsLevels(list, seen)
           /\ First(seen, v) \in 1..Len(seen) /\ seen[First(seen, v)].vocation = v
           /\ GetVocationFragments(list, v) = seen[First(seen, v)].fragments
<1>1. CASE VocationExistsInList(list, v)
  <2>1. First(list, v) \in 1..Len(list) /\ list[First(list, v)].vocation = v
    BY <1>1, FirstEntry DEF VocationExistsInList
  <2> QED
    BY <1>1, <2>1 DEF GetVocationFragments, KeepsLevels
<1>2. CASE ~VocationExistsInList(list, v)
  <2>1. PICK e : e = Locked(v)
    OBVIOUS
  <2>2. /\ e \in Entry /\ e.fragments = 0 /\ e.vocation = v /\ e.level = 0
    BY <2>1, HeroesAssumption DEF Locked, Entry
  <2>3. EntriesOf(list, v) = {} /\ ~HasVocation(list, v)
    BY <1>2, OwnedHasEntries DEF VocationExistsInList
  <2>4. v \in Vocations
    BY HeroesAssumption
  <2>5. Settled(e, w)
    BY <2>2, <2>3, <2>4 DEF Settled, Roll, Drawn, UnlockFragments
  <2>6. seen = Append(list, e)
    BY <1>2, <2>1, <2>2, <2>3 DEF AddVocation
  <2>7. /\ seen \in Seq(Entry) /\ Len(list) + 1 \in 1..Len(seen) /\ seen[Len(list) + 1] = e
    BY <2>2, <2>6
  <2>8. Roll(seen, w) /\ KeepsLevels(list, seen)
    BY <2>2, <2>3, <2>5, <2>6, RollAppend
  <2>e. Len(list) + 1 \in EntriesOf(seen, v)
    BY <2>2, <2>7 DEF EntriesOf
  <2>9. First(seen, v) = Len(list) + 1
    BY <2>7, <2>8, <2>e, OnlyEntry DEF Roll
  <2> QED
    BY <1>2, <2>2, <2>7, <2>8, <2>9 DEF GetVocationFragments
<1> QED
  BY <1>1, <1>2

\* setVocationFragments after a draw: what is drawn is there, or unlocked it.
LEMMA Drew ==
    ASSUME NEW list \in Seq(Entry), NEW v \in Heroes, NEW n \in Nat \ {0},
           NEW w \in [Vocations -> Nat], Roll(list, w),
           NEW u, u[v] = w[v] + n, \A x \in Vocations \ {v} : u[x] = w[x],
           NEW new, new = LuaSetVocationFragments(list, v, GetVocationFragments(list, v) + n)
    PROVE  Roll(new, u) /\ KeepsLevels(list, new)
<1>1. PICK seen : seen = IF VocationExistsInList(list, v)
                         THEN list ELSE AddVocation(list, Locked(v))
  OBVIOUS
<1>2. PICK i : i = First(seen, v)
  OBVIOUS
<1>3. /\ seen \in Seq(Entry) /\ Roll(seen, w) /\ KeepsLevels(list, seen)
      /\ i \in 1..Len(seen) /\ seen[i].vocation = v
      /\ GetVocationFragments(list, v) = seen[i].fragments
  BY <1>1, <1>2, RollSeen
<1>4. PICK r \in Entry : r = seen[i]
  BY <1>3
<1>5. PICK m \in Nat : m = r.fragments + n
  BY DEF Entry
<1>6. PICK entry : entry = [r EXCEPT !.fragments = m]
  OBVIOUS
<1>7. PICK e : e = IF m >= UnlockFragments /\ ~HasVocation(seen, v)
                   THEN Unlocked(entry) ELSE entry
  OBVIOUS
<1>8. new = Write(seen, i, e)
  <2>1. m # 0 /\ m = GetVocationFragments(list, v) + n
    <3>1. r.fragments \in Nat
      BY DEF Entry
    <3> QED
      BY <1>3, <1>4, <1>5, <3>1
  <2> QED
    BY <1>1, <1>2, <1>4, <1>6, <1>7, <2>1 DEF LuaSetVocationFragments, SetVocationFragments, Write
<1>9. /\ entry \in Entry /\ entry.vocation = v /\ entry.level = r.level
      /\ entry.fragments = m /\ entry.star = r.star
  <2>1. entry.star = r.star
    BY <1>6 DEF Entry
  <2> QED
    BY <1>3, <1>4, <1>6, <2>1, EntryUpdates
<1>10. HasVocation(seen, v) <=> r.level > 0
  <2>1. i \in EntriesOf(seen, v)
    BY <1>3 DEF EntriesOf
  <2> QED
    BY <1>3, <1>4, <2>1, OnlyEntry DEF Roll
<1>11. Settled(r, w) /\ r.vocation = v /\ v \in Vocations
  BY <1>3, <1>4, HeroesAssumption DEF Roll
<1>12. u[v] = w[v] + n /\ w[v] \in Nat /\ \A x \in Vocations : x # v => u[x] = w[x]
  BY <1>11
<1>13. /\ r.level \in Nat /\ r.fragments \in Nat
  BY DEF Entry
<1>14. /\ e \in Entry /\ e.vocation = v /\ Settled(e, u)
       /\ e.level = r.level \/ r.level = 0
  <2>1. CASE m >= UnlockFragments /\ ~HasVocation(seen, v)
    <3>1. e = Unlocked(entry) /\ r.level = 0
      BY <1>7, <1>10, <1>13, <2>1
    <3>2. /\ e \in Entry /\ e.vocation = v /\ e.level = 1 /\ e.star = 1
          /\ e.fragments = 0
      BY <1>9, <1>11, <3>1 DEF Unlocked, Entry
    <3>3. v \notin Owned(StartRows) => Drawn(e, u[v])
      BY <1>5, <1>11, <1>12, <2>1, <3>1, <3>2 DEF Settled, Drawn, UnlockFragments
    <3> QED
      BY <3>1, <3>2, <3>3 DEF Settled
  <2>2. CASE ~(m >= UnlockFragments /\ ~HasVocation(seen, v))
    <3>1. e = entry
      BY <1>7, <2>2
    <3>2. v \notin Owned(StartRows) => Drawn(e, u[v])
      <4>1. CASE r.level > 0
        BY <1>5, <1>9, <1>11, <1>12, <1>13, <3>1, <4>1 DEF Settled, Drawn, UnlockFragments
      <4>2. CASE ~(r.level > 0)
        BY <1>5, <1>9, <1>10, <1>11, <1>12, <1>13, <2>2, <3>1, <4>2
           DEF Settled, Drawn, UnlockFragments
      <4> QED
        BY <4>1, <4>2
    <3> QED
      BY <1>9, <1>11, <3>1, <3>2 DEF Settled
  <2> QED
    BY <2>1, <2>2
<1>m. May(seen, i, e, w, u)
  BY <1>3, <1>12, <1>14 DEF May
<1>15. Roll(new, u) /\ KeepsLevels(seen, new)
  BY <1>3, <1>4, <1>8, <1>14, <1>m, RollSet
<1> QED
  BY <1>3, <1>15, LevelsTwice

\* Fragments are paid for a star; at none left they stay (Findings).
LEMMA Starred ==
    ASSUME NEW list \in Seq(Entry), NEW v \in Vocations, NEW w \in [Vocations -> Nat],
           Roll(list, w), HasVocation(list, v),
           NEW cost, cost = GetFragmentsCostToUpgradeStar(GetVocationStar(list, v)),
           cost # 0, GetVocationFragments(list, v) >= cost,
           NEW paid, paid = LuaSetVocationFragments(list, v, GetVocationFragments(list, v) - cost),
           NEW new, new = LuaSetVocationStar(paid, v, GetVocationStar(list, v) + 1)
    PROVE  Roll(new, w) /\ KeepsLevels(list, new)
<1>1. PICK i \in 1..Len(list) : list[i].vocation = v
  BY DEF HasVocation, EntriesOf
<1>2. PICK r \in Entry : r = list[i]
  BY <1>1
<1>3. /\ First(list, v) = i /\ r.level > 0 /\ VocationExistsInList(list, v)
  <2>1. i \in EntriesOf(list, v)
    BY <1>1 DEF EntriesOf
  <2> QED
    BY <1>2, <2>1, OnlyEntry DEF Roll
<1>4. GetVocationFragments(list, v) = r.fragments /\ GetVocationStar(list, v) = r.star
  BY <1>2, <1>3 DEF GetVocationFragments, GetVocationStar
<1>5. r.star \in 1..4 /\ cost \in Nat /\ r.fragments >= cost
  <2>1. cost = GetFragmentsCostToUpgradeStar(r.star) /\ r.fragments >= cost
    BY <1>4
  <2>2. r.star = 1 \/ r.star = 2 \/ r.star = 3 \/ r.star = 4
    BY <2>1 DEF GetFragmentsCostToUpgradeStar
  <2> QED
    BY <2>1, <2>2 DEF GetFragmentsCostToUpgradeStar
<1>6. Settled(r, w) /\ r.vocation = v
  BY <1>1, <1>2 DEF Roll
<1>7. /\ paid \in Seq(Entry) /\ Len(paid) = Len(list)
      /\ Roll(paid, w) /\ KeepsLevels(list, paid)
      /\ paid[i].vocation = v /\ paid[i].level = r.level
  <2>1. CASE r.fragments - cost = 0
    BY <1>1, <1>2, <1>4, <2>1 DEF LuaSetVocationFragments, KeepsLevels
  <2>2. CASE r.fragments - cost # 0
    <3>1. PICK m \in Nat : m = r.fragments - cost /\ m <= r.fragments
      BY <1>5 DEF Entry
    <3>2. PICK e : e = [r EXCEPT !.fragments = m]
      OBVIOUS
    <3>3. /\ e \in Entry /\ e.vocation = v /\ e.level = r.level
          /\ e.fragments = m /\ e.star = r.star
      <4>1. e.star = r.star
        BY <3>2 DEF Entry
      <4> QED
        BY <1>6, <3>2, <4>1, EntryUpdates
    <3>4. Settled(e, w)
      <4>1. w[v] \in Nat /\ r.fragments \in Nat
        BY DEF Entry
      <4> QED
        BY <1>3, <1>6, <3>1, <3>3, <4>1 DEF Settled, Drawn, UnlockFragments
    <3>5. paid = Write(list, i, e)
      BY <1>2, <1>3, <1>4, <2>2, <3>1, <3>2 DEF LuaSetVocationFragments, SetVocationFragments, Write
    <3>6. May(list, i, e, w, w)
      BY <1>1, <3>3, <3>4 DEF May
    <3>7. /\ paid \in Seq(Entry) /\ Len(paid) = Len(list) /\ paid[i] = e
          /\ Roll(paid, w) /\ KeepsLevels(list, paid)
      BY <1>2, <3>3, <3>5, <3>6, RollSet
    <3> QED
      BY <3>3, <3>7
  <2> QED
    BY <2>1, <2>2
<1>8. PICK q \in Entry : q = paid[i] /\ i \in 1..Len(paid)
  BY <1>7
<1>9. PICK e : e = [q EXCEPT !.star = r.star + 1]
  OBVIOUS
<1>10. /\ e \in Entry /\ e.vocation = v /\ e.level = q.level /\ e.fragments = q.fragments
       /\ e.star = r.star + 1 /\ e.star \in 1..5
  <2>1. r.star + 1 \in Nat /\ r.star + 1 \in 1..5
    BY <1>5
  <2>2. e.star = r.star + 1
    BY <1>9 DEF Entry
  <2> QED
    BY <1>7, <1>8, <1>9, <2>1, <2>2, EntryUpdates
<1>11. Settled(q, w)
  BY <1>7, <1>8 DEF Roll
<1>12. Settled(e, w)
  BY <1>7, <1>8, <1>10, <1>11 DEF Settled, Drawn
<1>13. First(paid, v) = i /\ HasVocation(paid, v) /\ VocationExistsInList(paid, v)
  <2>1. i \in EntriesOf(paid, v)
    BY <1>7, <1>8 DEF EntriesOf
  <2> QED
    BY <1>3, <1>7, <2>1, OnlyEntry DEF Roll
<1>14. new = Write(paid, i, e)
  BY <1>4, <1>8, <1>9, <1>13 DEF LuaSetVocationStar, SetVocationStar, Write
<1>m. May(paid, i, e, w, w)
  BY <1>7, <1>8, <1>10, <1>12 DEF May
<1>15. Roll(new, w) /\ KeepsLevels(paid, new)
  BY <1>7, <1>8, <1>10, <1>14, <1>m, RollSet
<1> QED
  BY <1>7, <1>15, LevelsTwice

\* A level above 0 is copied to the list.
LEMMA Synced ==
    ASSUME NEW list \in Seq(Entry), NEW v, NEW w, Roll(list, w), HasVocation(list, v),
           NEW l \in Nat \ {0}, NEW new, new = SyncLevel(list, v, l)
    PROVE  Roll(new, w) /\ HasVocation(new, v) /\ new[First(new, v)].level = l
<1>1. PICK i \in 1..Len(list) : list[i].vocation = v
  BY DEF HasVocation, EntriesOf
<1>2. PICK r \in Entry : r = list[i]
  BY <1>1
<1>3. /\ First(list, v) = i /\ r.level > 0 /\ VocationExistsInList(list, v)
  <2>1. i \in EntriesOf(list, v)
    BY <1>1 DEF EntriesOf
  <2> QED
    BY <1>2, <2>1, OnlyEntry DEF Roll
<1>4. PICK e : e = [r EXCEPT !.level = l]
  OBVIOUS
<1>5. /\ e \in Entry /\ e.vocation = v /\ e.level = l
      /\ e.star = r.star /\ e.fragments = r.fragments
  <2>1. e.star = r.star /\ e.fragments = r.fragments
    BY <1>4 DEF Entry
  <2> QED
    BY <1>1, <1>2, <1>4, <2>1, EntryUpdates, l \in Nat
<1>6. Settled(r, w)
  BY <1>1, <1>2 DEF Roll
<1>7. Settled(e, w)
  BY <1>1, <1>2, <1>3, <1>5, <1>6 DEF Settled, Drawn
<1>8. new = Write(list, i, e)
  BY <1>2, <1>3, <1>4 DEF SyncLevel, Write
<1>9. new \in Seq(Entry) /\ Len(new) = Len(list) /\ new[i] = e /\ Roll(new, w)
  <2>1. May(list, i, e, w, w)
    BY <1>1, <1>5, <1>7 DEF May
  <2> QED
    BY <1>8, <2>1, RollSet
<1>10. First(new, v) = i /\ HasVocation(new, v)
  <2>1. i \in EntriesOf(new, v)
    BY <1>1, <1>5, <1>9 DEF EntriesOf
  <2> QED
    BY <1>5, <1>9, <2>1, OnlyEntry DEF Roll
<1> QED
  BY <1>5, <1>9, <1>10

\* With one entry of each vocation a login leaves no row out.
LEMMA LoadedRoll ==
    ASSUME NEW rows \in Seq(Entry), NEW w, Roll(rows, w), NEW list \in LoadedLists(rows)
    PROVE  Roll(list, w)
<1>1. PICK p \in LoadOrders(rows) : list = [k \in DOMAIN p |-> rows[p[k]]]
  BY DEF LoadedLists
<1>2. PICK n \in 0..Len(rows) : p \in [1..n -> DOMAIN rows]
  BY DEF LoadOrders
<1>3. DOMAIN list = 1..n /\ Len(list) = n
  BY <1>1, <1>2
<1>4. \A k \in 1..n : p[k] \in 1..Len(rows) /\ list[k] = rows[p[k]]
  BY <1>1, <1>2
<1>5. \A j, k \in 1..n : j < k => p[j] # p[k]
  BY <1>2 DEF LoadOrders
<1>6. OneEach(list)
  <2>1. ASSUME NEW j \in 1..n, NEW k \in 1..n, list[j].vocation = list[k].vocation
        PROVE  j = k
    <3>1. p[j] = p[k]
      BY <1>4, <2>1 DEF Roll, OneEach
    <3> QED
      BY <1>5, <3>1
  <2> QED
    BY <1>3, <2>1 DEF OneEach
<1>7. \A k \in 1..n : Settled(list[k], w)
  BY <1>4 DEF Roll
<1>8. ASSUME NEW v, EntriesOf(list, v) = {} PROVE EntriesOf(rows, v) = {}
  <2> SUFFICES ASSUME NEW i \in DOMAIN rows, rows[i].vocation = v PROVE FALSE
    BY DEF EntriesOf
  <2>1. PICK j \in DOMAIN p : rows[p[j]].vocation = v
    BY DEF LoadOrders
  <2>2. j \in DOMAIN list /\ list[j].vocation = v
    BY <1>2, <1>3, <1>4, <2>1
  <2> QED
    BY <1>8, <2>2 DEF EntriesOf
<1> QED
  BY <1>3, <1>6, <1>7, <1>8 DEF Roll

-----------------------------------------------------------------------------
\* The keys that are gone have been paid for what was drawn.
KeysPaid(k, w) ==
    \E n \in 0..(StartKeys - k) : Total(w, Vocations) = 20 * (StartKeys - k) + 80 * n

\* The inductive invariant of ActiveAgrees and DrawsAgree.
DrawInv ==
    /\ IInv
    /\ Roll(vocations, won) /\ Roll(db.vocations, db.won)
    /\ HasVocation(db.vocations, db.current)
    /\ online => KeysPaid(keys, won)
    /\ KeysPaid(db.keys, db.won)
    /\ ActiveAgrees

\* A handler that does not store.
LEMMA DrawHandler ==
    ASSUME DrawInv, IInv', online, UNCHANGED <<online, db>>, Roll(vocations', won'),
           KeysPaid(keys', won'), ActiveAgrees'
    PROVE  DrawInv'
<1>1. Roll(db'.vocations, db'.won) /\ HasVocation(db'.vocations, db'.current)
  BY DEF DrawInv
<1>2. KeysPaid(db'.keys, db'.won)
  BY DEF DrawInv
<1> QED
  BY <1>1, <1>2 DEF DrawInv

\* A list without entries, when nothing was drawn.
LEMMA RollNone == Roll(<<>>, NoneWon)
<1>1. \A v \in Vocations : NoneWon[v] = 0
  BY DEF NoneWon
<1> QED
  BY <1>1 DEF Roll, OneEach

\* What is stored is what the player has.
LEMMA DrawStored ==
    ASSUME DrawInv, IInv', online, NEW l, NEW e, db' \in {RowOf(l, e), db},
           \/ Forget
           \/ UNCHANGED <<online, vocations, current, level, extraDamage, keys, won>>
    PROVE  DrawInv'
<1>1. /\ Roll(db'.vocations, db'.won) /\ HasVocation(db'.vocations, db'.current)
      /\ KeysPaid(db'.keys, db'.won)
  <2>1. CASE db' = db
    BY <2>1 DEF DrawInv
  <2>2. CASE db' = RowOf(l, e)
    <3>1. /\ db'.vocations = vocations /\ db'.won = won /\ db'.keys = keys
          /\ db'.current = current
      BY <2>2 DEF RowOf
    <3> QED
      BY <3>1 DEF DrawInv, ActiveAgrees, ActiveLevelRecorded
  <2> QED
    BY <2>1, <2>2
<1>2. Roll(vocations', won') /\ (online' => KeysPaid(keys', won')) /\ ActiveAgrees'
  <2>1. CASE Forget
    BY <2>1, RollNone DEF Forget, ActiveAgrees, ActiveLevelRecorded, ActiveDealsDamage
  <2>2. CASE UNCHANGED <<online, vocations, current, level, extraDamage, keys, won>>
    BY <2>2 DEF DrawInv, ActiveAgrees, ActiveLevelRecorded, ActiveDealsDamage
  <2> QED
    BY <2>1, <2>2
<1> QED
  BY <1>1, <1>2 DEF DrawInv

\* changeVocation to an owned vocation: its level, and a bonus.
LEMMA Activated ==
    ASSUME NEW list \in Seq(Entry), NEW w, Roll(list, w), NEW v, HasVocation(list, v),
           NEW r, r.vocations = list, NEW d, d = ChangeVocation(r, v)
    PROVE  /\ d.vocations = list /\ d.current = v /\ d.level = list[First(list, v)].level
           /\ d.extraDamage > 0
<1>1. PICK i \in EntriesOf(list, v) : list[i].level > 0
  BY DEF HasVocation
<1>2. i \in 1..Len(list) /\ list[i].vocation = v
  BY DEF EntriesOf
<1>3. First(list, v) = i /\ Settled(list[i], w)
  BY <1>2, OnlyEntry DEF Roll
<1>4. v \in Heroes /\ list[i].star \in 1..5
  BY <1>1, <1>2, <1>3 DEF Settled
<1>5. GainVocationTierATKBonus(v, list[i].star) > 0
  BY <1>4 DEF GainVocationTierATKBonus, Neutral
<1>6. d = [vocations |-> list, current |-> v, level |-> list[i].level,
           experience |-> list[i].experience,
           extraDamage |-> GainVocationTierATKBonus(v, list[i].star)]
  BY <1>3 DEF ChangeVocation
<1> QED
  BY <1>3, <1>5, <1>6

\* A login makes the stored vocation active, and it is owned.
LEMMA DrawLogin ==
    ASSUME DrawInv, IInv', Login PROVE DrawInv'
<1>1. PICK list \in LoadedLists(db.vocations) :
        LET player == ChangeVocation(
                        [vocations |-> list, current |-> db.current,
                         level |-> LoadedLevel(db),
                         experience |-> LoadedExperience(db),
                         extraDamage |-> Neutral], db.current)
        IN  /\ vocations' = player.vocations /\ current' = player.current
            /\ level' = player.level /\ extraDamage' = player.extraDamage
  BY DEF Login
<1>2. UNCHANGED db /\ won' = db.won /\ keys' = db.keys
  BY DEF Login
<1>3. PICK rows \in Seq(Entry) : rows = db.vocations
  BY DEF DrawInv, IInv, TypeOK, Row
<1>4. /\ Keeps(rows, list)
      /\ \A v : HasVocation(list, v) <=> HasVocation(rows, v)
  BY <1>1, <1>3, LoadedKeeps
<1>5. list \in Seq(Entry) /\ Roll(list, db.won) /\ HasVocation(list, db.current)
  BY <1>1, <1>3, <1>4, LoadedRoll DEF Keeps, DrawInv
<1>6. PICK r : r = [vocations |-> list, current |-> db.current,
                    level |-> LoadedLevel(db),
                    experience |-> LoadedExperience(db),
                    extraDamage |-> Neutral]
  OBVIOUS
<1>7. PICK d : d = ChangeVocation(r, db.current)
  OBVIOUS
<1>8. vocations' = d.vocations /\ current' = d.current /\ level' = d.level
      /\ extraDamage' = d.extraDamage
  BY <1>1, <1>6, <1>7
<1>9. /\ d.vocations = list /\ d.current = db.current
      /\ d.level = list[First(list, db.current)].level /\ d.extraDamage > 0
  <2>1. r.vocations = list
    BY <1>6
  <2> QED
    BY <1>5, <1>7, <2>1, Activated
<1>10. ActiveAgrees'
  BY <1>5, <1>8, <1>9 DEF ActiveAgrees, ActiveLevelRecorded, ActiveDealsDamage
<1>11. Roll(vocations', won') /\ KeysPaid(keys', won')
  BY <1>2, <1>5, <1>8, <1>9 DEF DrawInv
<1>12. /\ Roll(db'.vocations, db'.won) /\ HasVocation(db'.vocations, db'.current)
       /\ KeysPaid(db'.keys, db'.won)
  BY <1>2 DEF DrawInv
<1> QED
  BY <1>10, <1>11, <1>12 DEF DrawInv

\* A change of character makes another owned one active, or none.
LEMMA DrawChange ==
    ASSUME DrawInv, IInv', NEW v \in Vocations, ChangeCharacter(v) PROVE DrawInv'
<1>1. PICK r : r = [vocations |-> vocations, current |-> current, level |-> level,
                    experience |-> experience, extraDamage |-> extraDamage]
  OBVIOUS
<1>2. PICK d : d = ChangeVocation(r, v)
  OBVIOUS
<1>3. /\ online /\ current' = d.current /\ level' = d.level /\ extraDamage' = d.extraDamage
      /\ UNCHANGED <<online, vocations, keys, db, won>>
  BY <1>1, <1>2 DEF ChangeCharacter
<1>4. ActiveAgrees'
  <2>1. CASE HasVocation(vocations, v)
    <3>1. /\ d.current = v /\ d.level = vocations[First(vocations, v)].level
          /\ d.extraDamage > 0
      <4>1. vocations \in Seq(Entry) /\ Roll(vocations, won) /\ r.vocations = vocations
        BY <1>1 DEF DrawInv, IInv, TypeOK
      <4> QED
        BY <1>2, <2>1, <4>1, Activated
    <3> QED
      BY <1>3, <2>1, <3>1 DEF ActiveAgrees, ActiveLevelRecorded, ActiveDealsDamage
  <2>2. CASE ~HasVocation(vocations, v)
    <3>1. d = r
      BY <1>1, <1>2, <2>2 DEF ChangeVocation
    <3> QED
      BY <1>1, <1>3, <3>1 DEF DrawInv, ActiveAgrees, ActiveLevelRecorded, ActiveDealsDamage
  <2> QED
    BY <2>1, <2>2
<1> QED
  BY <1>3, <1>4, DrawHandler DEF DrawInv

\* A fight that changes the level changes it in the list as well.
LEMMA DrawFight ==
    ASSUME DrawInv, IInv', GainExperience \/ LoseExperience PROVE DrawInv'
<1>1. /\ online /\ UNCHANGED <<online, current, extraDamage, keys, db, won>>
      /\ vocations' = IF level' # level
                      THEN SyncLevel(vocations, current, level') ELSE vocations
  BY DEF GainExperience, LoseExperience
<1>2. /\ TypeOK /\ vocations \in Seq(Entry) /\ level \in Nat /\ Roll(vocations, won)
      /\ HasVocation(vocations, current)
      /\ vocations[First(vocations, current)].level = level
      /\ extraDamage > 0 /\ KeysPaid(keys, won)
  BY <1>1 DEF DrawInv, IInv, TypeOK, ActiveAgrees, ActiveLevelRecorded, ActiveDealsDamage
<1>3. level > 0
  <2>1. PICK i \in EntriesOf(vocations, current) : vocations[i].level > 0
    BY <1>2 DEF HasVocation
  <2>2. First(vocations, current) = i
    BY <1>2, <2>1, OnlyEntry DEF Roll
  <2> QED
    BY <1>2, <2>1, <2>2
<1>4. experience' \in Nat
  BY DEF IInv, TypeOK
<1>5. level' \in Nat \ {0}
  <2>1. CASE GainExperience
    <3>1. experience' < ExpForLevel(MaxLevel + 1) /\ level <= MaxLevel
          /\ level' = LevelUp(level, experience')
      BY <1>2, <2>1, ConstantsAssumption DEF GainExperience, TypeOK
    <3>2. level' \in level..MaxLevel
      BY <1>2, <1>4, <3>1, LevelUpRange
    <3> QED
      BY <1>2, <1>3, <3>2, ConstantsAssumption
  <2>2. CASE LoseExperience
    <3>1. level' = LevelDown(level, experience')
      BY <2>2 DEF LoseExperience
    <3>2. CASE level > 1
      <4>1. level' \in 1..level
        BY <1>2, <1>4, <3>1, <3>2, LevelDownRange
      <4> QED
        BY <1>2, <4>1
    <3>3. CASE level <= 1
      BY <1>2, <1>3, <3>1, <3>3 DEF LevelDown
    <3> QED
      BY <1>2, <3>2, <3>3
  <2> QED
    BY <2>1, <2>2
<1>6. /\ Roll(vocations', won') /\ HasVocation(vocations', current')
      /\ vocations'[First(vocations', current')].level = level'
  <2>1. CASE level' = level
    BY <1>1, <1>2, <2>1
  <2>2. CASE level' # level
    <3>1. PICK new : new = SyncLevel(vocations, current, level')
      OBVIOUS
    <3>2. Roll(new, won) /\ HasVocation(new, current) /\ new[First(new, current)].level = level'
      BY <1>2, <1>5, <3>1, Synced
    <3> QED
      BY <1>1, <2>2, <3>1, <3>2
  <2> QED
    BY <2>1, <2>2
<1>7. ActiveAgrees' /\ KeysPaid(keys', won')
  BY <1>1, <1>2, <1>6 DEF ActiveAgrees, ActiveLevelRecorded, ActiveDealsDamage
<1> QED
  BY <1>1, <1>6, <1>7, DrawHandler

\* What keeps the levels keeps the active vocation.
LEMMA ActiveStays ==
    ASSUME DrawInv, online, KeepsLevels(vocations, vocations'),
           UNCHANGED <<online, current, level, extraDamage>>
    PROVE  ActiveAgrees'
  BY DEF DrawInv, ActiveAgrees, ActiveLevelRecorded, ActiveDealsDamage, KeepsLevels

\* A key is spent for twenty fragments, or for a hundred.
LEMMA DrawSort ==
    ASSUME DrawInv, IInv', NEW v \in Heroes, SortVocation(v) PROVE DrawInv'
<1>1. PICK n \in {20, 100} :
        /\ vocations' = LuaSetVocationFragments(vocations, v,
                            GetVocationFragments(vocations, v) + n)
        /\ won' = [won EXCEPT ![v] = @ + n]
  BY DEF SortVocation
<1>2. /\ online /\ keys > 0 /\ keys' = keys - 1
      /\ UNCHANGED <<online, current, level, experience, extraDamage, db>>
  BY DEF SortVocation
<1>3. /\ vocations \in Seq(Entry) /\ won \in [Vocations -> Nat] /\ Roll(vocations, won)
      /\ keys \in Nat /\ KeysPaid(keys, won) /\ v \in Vocations
  BY <1>2, HeroesAssumption DEF DrawInv, IInv, TypeOK
<1>4. PICK u : u = [won EXCEPT ![v] = @ + n]
  OBVIOUS
<1>5. PICK new : new = LuaSetVocationFragments(vocations, v,
                          GetVocationFragments(vocations, v) + n)
  OBVIOUS
<1>7. u \in [Vocations -> Nat] /\ u[v] = won[v] + n /\ \A x \in Vocations \ {v} : u[x] = won[x]
  BY <1>3, <1>4
<1>6. Roll(new, u) /\ KeepsLevels(vocations, new)
  <2>1. n \in Nat \ {0}
    OBVIOUS
  <2> QED
    BY <1>3, <1>5, <1>7, <2>1, Drew
<1>8. Total(u, Vocations) = Total(won, Vocations) + n /\ Total(won, Vocations) \in Nat
  <2>1. IsFiniteSet(Vocations)
    BY ConstantsAssumption
  <2>2. Total(won, Vocations) \in Nat
    BY <1>3, <2>1, TotalNat
  <2>3. Total(u, Vocations) = Total(won, Vocations) - won[v] + u[v]
    BY <1>3, <1>7, <2>1, TotalChanged
  <2>4. won[v] \in Nat
    BY <1>3
  <2> QED
    BY <1>7, <2>2, <2>3, <2>4
<1>9. KeysPaid(keys', u)
  <2>1. PICK m \in 0..(StartKeys - keys) :
          Total(won, Vocations) = 20 * (StartKeys - keys) + 80 * m
    BY <1>3 DEF KeysPaid
  <2>2. StartKeys \in Nat
    BY ConstantsAssumption
  <2>3. PICK k \in Nat : k = StartKeys - keys
    BY <1>3, <2>1, <2>2
  <2>4. StartKeys - keys' = k + 1 /\ m \in 0..k
    BY <1>2, <1>3, <2>1, <2>2, <2>3
  <2>5. CASE n = 20
    <3>1. m \in 0..(k + 1) /\ Total(u, Vocations) = 20 * (k + 1) + 80 * m
      BY <1>8, <2>1, <2>3, <2>4, <2>5
    <3> QED
      BY <2>4, <3>1 DEF KeysPaid
  <2>6. CASE n = 100
    <3>1. m + 1 \in 0..(k + 1) /\ Total(u, Vocations) = 20 * (k + 1) + 80 * (m + 1)
      BY <1>8, <2>1, <2>3, <2>4, <2>6
    <3> QED
      BY <2>4, <3>1 DEF KeysPaid
  <2> QED
    BY <2>5, <2>6
<1>10. Roll(vocations', won') /\ KeysPaid(keys', won') /\ KeepsLevels(vocations, vocations')
  BY <1>1, <1>4, <1>5, <1>6, <1>9
<1> QED
  BY <1>2, <1>10, ActiveStays, DrawHandler

\* A star is paid with fragments.
LEMMA DrawUpgrade ==
    ASSUME DrawInv, IInv', NEW v \in Vocations, UpgradeStar(v) PROVE DrawInv'
<1>1. PICK cost : cost = GetFragmentsCostToUpgradeStar(GetVocationStar(vocations, v))
  OBVIOUS
<1>2. PICK paid : paid = LuaSetVocationFragments(vocations, v,
                            GetVocationFragments(vocations, v) - cost)
  OBVIOUS
<1>3. PICK new : new = LuaSetVocationStar(paid, v, GetVocationStar(vocations, v) + 1)
  OBVIOUS
<1>4. /\ online /\ HasVocation(vocations, v) /\ cost # 0
      /\ GetVocationFragments(vocations, v) >= cost /\ vocations' = new
      /\ UNCHANGED <<online, current, level, experience, extraDamage, keys, db, won>>
  BY <1>1, <1>2, <1>3 DEF UpgradeStar
<1>5. /\ vocations \in Seq(Entry) /\ won \in [Vocations -> Nat] /\ Roll(vocations, won)
      /\ KeysPaid(keys, won)
  BY <1>4 DEF DrawInv, IInv, TypeOK
<1>6. Roll(new, won) /\ KeepsLevels(vocations, new)
  BY <1>1, <1>2, <1>3, <1>4, <1>5, Starred
<1>7. Roll(vocations', won') /\ KeysPaid(keys', won') /\ KeepsLevels(vocations, vocations')
  BY <1>4, <1>5, <1>6
<1> QED
  BY <1>4, <1>7, ActiveStays, DrawHandler

\* Every step but the staff's keeps the invariant.
LEMMA DrawStep ==
    ASSUME NewCharacter, DrawInv, [Next]_vars PROVE DrawInv'
<1>1. IInv'
  BY NextStep DEF DrawInv
<1>2. CASE Login
  BY <1>1, <1>2, DrawLogin
<1>3. CASE Save
  BY <1>1, <1>3, DrawStored DEF Save, SavePlayer
<1>4. CASE Logout
  BY <1>1, <1>4, DrawStored DEF Logout, SavePlayer
<1>5. CASE Crash
  BY <1>1, <1>5, DrawStored DEF Crash
<1>6. CASE Death
  BY <1>1, <1>6, DrawStored DEF Death, SavePlayer
<1>7. CASE GainExperience \/ LoseExperience
  BY <1>1, <1>7, DrawFight
<1>8. ASSUME NEW v \in Vocations, ChangeCharacter(v) PROVE DrawInv'
  BY <1>1, <1>8, DrawChange
<1>9. ASSUME NEW v \in Vocations, UpgradeStar(v) PROVE DrawInv'
  BY <1>1, <1>9, DrawUpgrade
<1>10. ASSUME NEW v \in Heroes, SortVocation(v) PROVE DrawInv'
  BY <1>1, <1>10, DrawSort
<1>11. CASE (\E v \in Vocations : GrantVocation(v)) \/ GrantStar \/ GrantKeys
  BY <1>11 DEF GrantVocation, GrantStar, GrantKeys, NewCharacter
<1>12. CASE UNCHANGED vars
  <2>1. /\ Roll(vocations', won') /\ (online' => KeysPaid(keys', won'))
        /\ Roll(db'.vocations, db'.won) /\ HasVocation(db'.vocations, db'.current)
        /\ KeysPaid(db'.keys, db'.won)
    BY <1>12 DEF vars, DrawInv
  <2>2. ActiveAgrees'
    BY <1>12 DEF vars, DrawInv, ActiveAgrees, ActiveLevelRecorded, ActiveDealsDamage
  <2> QED
    BY <1>1, <2>1, <2>2 DEF DrawInv
<1> QED
  BY <1>2, <1>3, <1>4, <1>5, <1>6, <1>7, <1>8, <1>9, <1>10, <1>11, <1>12 DEF Next

\* A new character has what it started with, and has drawn nothing.
LEMMA DrawStart ==
    ASSUME NewCharacter, Init PROVE DrawInv
<1>1. IInv
  BY InitIInv
<1>2. Roll(vocations, won) /\ ~online
  BY RollNone DEF Init
<1>3. /\ db.vocations = StartRows /\ db.won = NoneWon /\ db.current = StartVocation
      /\ db.keys = StartKeys
  BY DEF Init
<1>4. KeysPaid(StartKeys, NoneWon)
  <2>1. Total(NoneWon, Vocations) = 0
    <3>1. \A v \in Vocations : NoneWon[v] = 0
      BY DEF NoneWon
    <3> QED
      BY <3>1, ConstantsAssumption, TotalZero
  <2>2. StartKeys \in Nat
    BY ConstantsAssumption
  <2> QED
    BY <2>1, <2>2 DEF KeysPaid
<1> QED
  BY <1>1, <1>2, <1>3, <1>4
     DEF DrawInv, NewCharacter, ActiveAgrees, ActiveLevelRecorded, ActiveDealsDamage

\* What the roll of a list says of one vocation the player did not start with.
LEMMA RollOf ==
    ASSUME NEW list \in Seq(Entry), NEW w \in [Vocations -> Nat], Roll(list, w),
           NEW v \in Vocations \ Owned(StartRows)
    PROVE  /\ HasVocation(list, v) <=> w[v] >= UnlockFragments
           /\ IF HasVocation(list, v)
              THEN GetVocationFragments(list, v) + UnlockFragments <= w[v]
              ELSE GetVocationFragments(list, v) = w[v]
<1>1. CASE EntriesOf(list, v) = {}
  BY <1>1 DEF Roll, HasVocation, GetVocationFragments, VocationExistsInList, UnlockFragments
<1>2. CASE EntriesOf(list, v) # {}
  <2>1. PICK i \in EntriesOf(list, v) : TRUE
    BY <1>2
  <2>2. /\ First(list, v) = i /\ (HasVocation(list, v) <=> list[i].level > 0)
        /\ VocationExistsInList(list, v)
    BY <2>1, OnlyEntry DEF Roll
  <2>3. i \in 1..Len(list) /\ list[i].vocation = v
    BY DEF EntriesOf
  <2>4. Drawn(list[i], w[v]) /\ list[i] \in Entry /\ w[v] \in Nat
    BY <2>3 DEF Roll, Settled
  <2>5. GetVocationFragments(list, v) = list[i].fragments /\ list[i].fragments \in Nat
    BY <2>2, <2>4 DEF GetVocationFragments, Entry
  <2> QED
    BY <2>2, <2>4, <2>5 DEF Drawn, UnlockFragments
<1> QED
  BY <1>1, <1>2

\* The invariant implies what the run checks.
LEMMA DrawEnds ==
    ASSUME DrawInv PROVE DrawsAgree
<1>1. /\ vocations \in Seq(Entry) /\ won \in [Vocations -> Nat]
      /\ db.vocations \in Seq(Entry) /\ db.won \in [Vocations -> Nat]
  BY DEF DrawInv, IInv, TypeOK, Row
<1>2. Roll(vocations, won) /\ Roll(db.vocations, db.won)
  BY DEF DrawInv
<1>3. OneEntryPerVocation
  <2>1. OneEach(vocations)
    BY <1>2 DEF Roll
  <2>2. DOMAIN vocations = 1..Len(vocations)
    BY <1>1
  <2> QED
    BY <2>1, <2>2 DEF OneEach, OneEntryPerVocation
<1>4. OwnedIffDrawn
  BY <1>1, <1>2, RollOf DEF OwnedIffDrawn
<1>5. FragmentsWereDrawn
  <2>1. ASSUME NEW v \in Vocations \ Owned(StartRows)
        PROVE  GetVocationFragments(vocations, v)
                 + (IF HasVocation(vocations, v) THEN UnlockFragments ELSE 0) <= won[v]
    <3>1. IF HasVocation(vocations, v)
          THEN GetVocationFragments(vocations, v) + UnlockFragments <= won[v]
          ELSE GetVocationFragments(vocations, v) = won[v]
      BY <1>1, <1>2, RollOf
    <3>2. won[v] \in Nat
      BY <1>1
    <3> QED
      BY <3>1, <3>2
  <2> QED
    BY <2>1 DEF FragmentsWereDrawn
<1>6. \A v \in Vocations \ Owned(StartRows) :
         db.won[v] < UnlockFragments => GetVocationFragments(db.vocations, v) = db.won[v]
  <2>1. ASSUME NEW v \in Vocations \ Owned(StartRows), db.won[v] < UnlockFragments
        PROVE  GetVocationFragments(db.vocations, v) = db.won[v]
    <3>1. /\ HasVocation(db.vocations, v) <=> db.won[v] >= UnlockFragments
          /\ IF HasVocation(db.vocations, v)
             THEN GetVocationFragments(db.vocations, v) + UnlockFragments <= db.won[v]
             ELSE GetVocationFragments(db.vocations, v) = db.won[v]
      BY <1>1, <1>2, RollOf
    <3>2. db.won[v] \in Nat
      BY <1>1
    <3> QED
      BY <2>1, <3>1, <3>2 DEF UnlockFragments
  <2> QED
    BY <2>1
<1>7. DrawnWithKeys
  BY <1>6 DEF DrawnWithKeys, DrawInv, KeysPaid, Total
<1> QED
  BY <1>3, <1>4, <1>5, <1>7 DEF DrawsAgree

\* Without the staff a player who starts with an owned vocation always plays an
\* owned one, at the level the list has, and deals damage (changeVocation,
\* addExperience, removeExperience, death, loadPlayer).
THEOREM ActiveStaysOwned == ASSUME NewCharacter PROVE Spec => []ActiveAgrees
<1>1. Init => DrawInv
  BY DrawStart
<1>2. DrawInv /\ [Next]_vars => DrawInv'
  BY DrawStep
<1>3. DrawInv => ActiveAgrees
  BY DEF DrawInv
<1> QED
  BY <1>1, <1>2, <1>3, PTL DEF Spec

\* Without the staff every fragment was drawn with a key, a vocation is owned
\* exactly when a hundred of its fragments were, and the row has both or neither
\* (setVocationFragments, savePlayer, loadPlayer).
THEOREM DrawsStayPaid == ASSUME NewCharacter PROVE Spec => []DrawsAgree
<1>1. Init => DrawInv
  BY DrawStart
<1>2. DrawInv /\ [Next]_vars => DrawInv'
  BY DrawStep
<1>3. DrawInv => DrawsAgree
  BY DrawEnds
<1> QED
  BY <1>1, <1>2, <1>3, PTL DEF Spec
-----------------------------------------------------------------------------
(***************************************************************************)
(* Fights.  Their operators are functions on a record of the variables,    *)
(* and the lemmas about them speak of any such record.                     *)
(***************************************************************************)
FightState == [playing : SUBSET Fighters,
               skull : [Fighters -> {"none", "white", "red", "black"}],
               ticks : [Fighters -> Int],
               attacked : [Fighters -> SUBSET Fighters],
               locked : [Fighters -> BOOLEAN],
               inFight : [Fighters -> {"none", "live", "over"}],
               party : SUBSET Fighters, invited : SUBSET Fighters,
               shown : [Fighters -> [Fighters ->
                         {"none", "white", "red", "black", "yellow", "green"}]]]

\* What FightsFree says of one player
FreeAt(f, p) ==
    f.locked[p] = TRUE \/ f.attacked[p] # {} \/ f.skull[p] = "white" => f.inFight[p] # "none"

\* what SkullsAreShown says
Seen(f) == \A v, p \in f.playing : f.shown[v][p] = GetSkullClient(f, v, p)

\* A player who is not in the game has left nothing in it.
Away(f) ==
    /\ f.party \subseteq f.playing /\ f.invited \subseteq f.playing
    /\ \A p \in Fighters \ f.playing :
          f.skull[p] = "none" /\ f.attacked[p] = {} /\ f.locked[p] = FALSE

Fair(f) == /\ f \in FightState /\ Seen(f) /\ Away(f)
           /\ \A p \in Fighters : FreeAt(f, p)

\* Nobody is invited to a party that is none.
Hosted(f) == f.party = {} => f.invited = {}

\* g is f but for what the clients show.
ButShown(f, g) ==
    /\ g.playing = f.playing /\ g.skull = f.skull /\ g.ticks = f.ticks
    /\ g.attacked = f.attacked /\ g.locked = f.locked /\ g.inFight = f.inFight
    /\ g.party = f.party /\ g.invited = f.invited

\* sendCreatureSkull writes what is shown, and nothing else.
LEMMA Sent ==
    ASSUME NEW f \in FightState, NEW pairs, NEW d, d = SendCreatureSkull(f, pairs)
    PROVE  /\ d \in FightState /\ ButShown(f, d)
           /\ \A v, p \in Fighters : d.shown[v][p] =
                IF <<v, p>> \in pairs THEN GetSkullClient(f, v, p) ELSE f.shown[v][p]
<1> DEFINE now == [v \in Fighters |-> [p \in Fighters |->
                      IF <<v, p>> \in pairs THEN GetSkullClient(f, v, p) ELSE f.shown[v][p]]]
<1>1. ASSUME NEW v \in Fighters, NEW p \in Fighters
      PROVE  /\ GetSkullClient(f, v, p) \in {"none", "white", "red", "black", "yellow", "green"}
             /\ f.shown[v][p] \in {"none", "white", "red", "black", "yellow", "green"}
  <2>1. f.skull[p] \in {"none", "white", "red", "black"}
    BY DEF FightState
  <2>2. f.shown[v][p] \in {"none", "white", "red", "black", "yellow", "green"}
    BY DEF FightState
  <2> QED
    BY <2>1, <2>2 DEF GetSkullClient
<1>2. /\ now \in [Fighters -> [Fighters ->
                     {"none", "white", "red", "black", "yellow", "green"}]]
      /\ \A v, p \in Fighters : now[v][p] =
            IF <<v, p>> \in pairs THEN GetSkullClient(f, v, p) ELSE f.shown[v][p]
  BY <1>1
<1>3. d = [f EXCEPT !.shown = now]
  BY DEF SendCreatureSkull
<1> HIDE DEF now
<1>4. d \in FightState /\ ButShown(f, d) /\ d.shown = now
  BY <1>2, <1>3 DEF FightState, ButShown
<1> QED
  BY <1>2, <1>4

\* h is f but for what only the pairs may see differently.
Untold(f, h, pairs) ==
    /\ f \in FightState /\ Seen(f) /\ h \in FightState
    /\ h.playing = f.playing /\ h.shown = f.shown
    /\ \A v, p \in f.playing :
          <<v, p>> \in pairs \/ GetSkullClient(h, v, p) = GetSkullClient(f, v, p)

\* d is h with what the clients should show.
Tells(h, d) == d \in FightState /\ ButShown(h, d) /\ Seen(d)

\* A change of the rest is seen when those it concerns are told.
LEMMA Told ==
    ASSUME NEW f, NEW h, NEW pairs, Untold(f, h, pairs)
    PROVE  Tells(h, SendCreatureSkull(h, pairs))
<1> USE DEF Untold
<1>d. PICK d : d = SendCreatureSkull(h, pairs)
  OBVIOUS
<1>1. d \in FightState /\ ButShown(h, d)
  BY <1>d, Sent
<1>2. ASSUME NEW v \in f.playing, NEW p \in f.playing
      PROVE  d.shown[v][p] = GetSkullClient(h, v, p)
  <2>1. v \in Fighters /\ p \in Fighters
    BY DEF FightState
  <2>2. d.shown[v][p] = IF <<v, p>> \in pairs THEN GetSkullClient(h, v, p) ELSE h.shown[v][p]
    BY <1>d, <2>1, Sent
  <2> QED
    BY <2>2 DEF Seen
<1>3. \A v, p : GetSkullClient(d, v, p) = GetSkullClient(h, v, p)
  BY <1>1 DEF ButShown, GetSkullClient
<1> QED
  BY <1>d, <1>1, <1>2, <1>3 DEF Seen, ButShown, Tells

\* h is f but for what p is, of which nobody has been told.
Only(f, h, p) ==
    /\ f \in FightState /\ Seen(f) /\ h \in FightState
    /\ h.playing = f.playing /\ h.shown = f.shown /\ h.party = f.party
    /\ \A q \in Fighters \ {p} : h.skull[q] = f.skull[q] /\ h.attacked[q] = f.attacked[q]

\* d is h with another skull of p, which all can see.
SkullOf(h, d, p, new) ==
    /\ d \in FightState /\ Seen(d)
    /\ d.playing = h.playing /\ d.ticks = h.ticks /\ d.attacked = h.attacked
    /\ d.locked = h.locked /\ d.inFight = h.inFight /\ d.party = h.party
    /\ d.invited = h.invited
    /\ d.skull[p] = new /\ \A q \in Fighters \ {p} : d.skull[q] = h.skull[q]

\* A skull is set, and everybody is told how the player looks now, whatever
\* else of the player has changed before.
LEMMA SkullSet ==
    ASSUME NEW p \in Fighters, NEW f, NEW h, Only(f, h, p),
           NEW new, new \in {"none", "white", "red", "black"}
    PROVE  SkullOf(h, SetSkull(h, p, new), p, new)
<1> USE DEF Only
<1>d. PICK d : d = SetSkull(h, p, new)
  OBVIOUS
<1> DEFINE e == [h EXCEPT !.skull[p] = new]
<1>1. /\ e \in FightState /\ e.playing = h.playing /\ e.ticks = h.ticks
      /\ e.attacked = h.attacked /\ e.locked = h.locked /\ e.inFight = h.inFight
      /\ e.party = h.party /\ e.invited = h.invited /\ e.shown = h.shown
      /\ e.skull = [h.skull EXCEPT ![p] = new]
  BY DEF FightState
<1>2. d = SendCreatureSkull(e, h.playing \X {p})
  BY <1>d DEF SetSkull
<1> HIDE DEF e
<1>3. e.skull[p] = new /\ \A q \in Fighters \ {p} : e.skull[q] = h.skull[q]
  BY <1>1 DEF FightState
<1>4. ASSUME NEW v \in f.playing, NEW q \in f.playing
      PROVE  <<v, q>> \in h.playing \X {p} \/ GetSkullClient(e, v, q) = GetSkullClient(f, v, q)
  <2>1. CASE q = p
    BY <2>1
  <2>2. CASE q # p
    <3>1. q \in Fighters \ {p}
      BY <2>2 DEF FightState
    <3> QED
      BY <3>1, <1>1, <1>3 DEF GetSkullClient
  <2> QED
    BY <2>1, <2>2
<1>u. Untold(f, e, h.playing \X {p})
  BY <1>1, <1>4 DEF Untold
<1>5. d \in FightState /\ ButShown(e, d) /\ Seen(d)
  BY <1>2, <1>u, Told DEF Tells
<1> QED
  BY <1>d, <1>1, <1>3, <1>5 DEF ButShown, SkullOf

\* Being in a fight frees the last whom it has to free.
LEMMA TicksAdded ==
    ASSUME NEW f \in FightState, Seen(f), Away(f), NEW p \in Fighters,
           \A q \in Fighters \ {p} : FreeAt(f, q),
           NEW d, d = AddInFightTicks(f, p)
    PROVE  Fair(d) /\ d.playing = f.playing /\ d.party = f.party /\ d.invited = f.invited
<1>1. /\ d \in FightState /\ d.playing = f.playing /\ d.skull = f.skull /\ d.ticks = f.ticks
      /\ d.attacked = f.attacked /\ d.locked = f.locked /\ d.party = f.party
      /\ d.invited = f.invited /\ d.shown = f.shown
      /\ d.inFight = [f.inFight EXCEPT ![p] = "live"]
  BY DEF AddInFightTicks, FightState
<1>2. d.inFight[p] = "live" /\ \A q \in Fighters \ {p} : d.inFight[q] = f.inFight[q]
  BY <1>1 DEF FightState
<1>3. \A q \in Fighters : FreeAt(d, q)
  BY <1>1, <1>2 DEF FreeAt
<1>4. Seen(d) /\ Away(d)
  BY <1>1 DEF Seen, Away, GetSkullClient
<1> QED
  BY <1>1, <1>3, <1>4 DEF Fair

\* The end of a fight takes from a player all that only a fight may give.
LEMMA FightEnded ==
    ASSUME NEW f, Fair(f), NEW p \in Fighters, NEW d, d = OnEndFight(f, p)
    PROVE  Fair(d) /\ d.playing = f.playing /\ d.party = f.party /\ d.invited = f.invited
<1> DEFINE ended == [f EXCEPT !.inFight[p] = "none", !.locked[p] = FALSE, !.attacked[p] = {}]
<1>1. f \in FightState /\ Seen(f) /\ Away(f)
  BY DEF Fair
<1>2. /\ ended \in FightState /\ ended.playing = f.playing /\ ended.skull = f.skull
      /\ ended.ticks = f.ticks /\ ended.party = f.party /\ ended.invited = f.invited
      /\ ended.shown = f.shown
      /\ ended.inFight = [f.inFight EXCEPT ![p] = "none"]
      /\ ended.locked = [f.locked EXCEPT ![p] = FALSE]
      /\ ended.attacked = [f.attacked EXCEPT ![p] = {}]
  BY <1>1 DEF FightState
<1>3. d = IF f.skull[p] \in {"red", "black"} THEN ended ELSE SetSkull(ended, p, "none")
  BY DEF OnEndFight
<1> HIDE DEF ended
<1>4. /\ ended.inFight[p] = "none" /\ ended.locked[p] = FALSE /\ ended.attacked[p] = {}
      /\ \A q \in Fighters \ {p} :
            /\ ended.inFight[q] = f.inFight[q] /\ ended.locked[q] = f.locked[q]
            /\ ended.attacked[q] = f.attacked[q]
  BY <1>1, <1>2 DEF FightState
<1>5. CASE f.skull[p] \in {"red", "black"}
  <2>1. \A v, q \in f.playing : GetSkullClient(ended, v, q) = GetSkullClient(f, v, q)
    <3> SUFFICES ASSUME NEW v \in f.playing, NEW q \in f.playing
                 PROVE  GetSkullClient(ended, v, q) = GetSkullClient(f, v, q)
      OBVIOUS
    <3>1. CASE q = p
      BY <3>1, <1>2, <1>5 DEF GetSkullClient
    <3>2. CASE q # p
      <4>1. q \in Fighters \ {p}
        BY <3>2, <1>1 DEF FightState
      <4> QED
        BY <4>1, <1>2, <1>4 DEF GetSkullClient
    <3> QED
      BY <3>1, <3>2
  <2>2. Seen(ended)
    BY <2>1, <1>1, <1>2 DEF Seen
  <2>3. \A q \in Fighters : FreeAt(ended, q)
    BY <1>2, <1>4, <1>5 DEF Fair, FreeAt
  <2>4. Away(ended)
    BY <1>1, <1>2, <1>4 DEF Away
  <2> QED
    BY <2>2, <2>3, <2>4, <1>2, <1>3, <1>5 DEF Fair
<1>6. CASE f.skull[p] \notin {"red", "black"}
  <2>1. d = SetSkull(ended, p, "none")
    BY <1>3, <1>6
  <2>2. /\ d \in FightState /\ Seen(d)
        /\ d.playing = ended.playing /\ d.ticks = ended.ticks /\ d.attacked = ended.attacked
        /\ d.locked = ended.locked /\ d.inFight = ended.inFight /\ d.party = ended.party
        /\ d.invited = ended.invited
        /\ d.skull[p] = "none" /\ \A q \in Fighters \ {p} : d.skull[q] = ended.skull[q]
    <3>1. Only(f, ended, p)
      BY <1>1, <1>2, <1>4 DEF Only
    <3>2. SkullOf(ended, d, p, "none")
      BY <2>1, <3>1, SkullSet
    <3> QED
      BY <3>2 DEF SkullOf
  <2>3. \A q \in Fighters : FreeAt(d, q)
    BY <2>2, <1>2, <1>4 DEF Fair, FreeAt
  <2>4. Away(d)
    BY <2>2, <1>1, <1>2, <1>4 DEF Away
  <2> QED
    BY <2>2, <2>3, <2>4, <1>2 DEF Fair
<1> QED
  BY <1>5, <1>6

\* Party::disband: whoever was in it is told of all others.
LEMMA FightersDisbanded ==
    ASSUME NEW f, Fair(f), NEW d, d = Disband(f)
    PROVE  Fair(d) /\ d.playing = f.playing /\ d.party = {} /\ d.invited = {}
<1> DEFINE e == [f EXCEPT !.party = {}, !.invited = {}]
<1>1. f \in FightState /\ Seen(f) /\ Away(f)
  BY DEF Fair
<1>2. /\ e \in FightState /\ e.playing = f.playing /\ e.skull = f.skull /\ e.ticks = f.ticks
      /\ e.attacked = f.attacked /\ e.locked = f.locked /\ e.inFight = f.inFight
      /\ e.shown = f.shown /\ e.party = {} /\ e.invited = {}
  BY <1>1 DEF FightState
<1>3. d = SendCreatureSkull(e, f.party \X f.party)
  BY DEF Disband
<1> HIDE DEF e
<1>4. \A v, q \in f.playing :
        <<v, q>> \in f.party \X f.party \/ GetSkullClient(e, v, q) = GetSkullClient(f, v, q)
  BY <1>2 DEF GetSkullClient
<1>u. Untold(f, e, f.party \X f.party)
  BY <1>1, <1>2, <1>4 DEF Untold
<1>5. d \in FightState /\ ButShown(e, d) /\ Seen(d)
  BY <1>3, <1>u, Told DEF Tells
<1>6. Away(d)
  BY <1>1, <1>2, <1>5 DEF Away, ButShown
<1>7. \A q \in Fighters : FreeAt(d, q)
  BY <1>2, <1>5 DEF Fair, FreeAt, ButShown
<1> QED
  BY <1>2, <1>5, <1>6, <1>7 DEF Fair, ButShown

\* Party::leaveParty
LEMMA FighterLeavesParty ==
    ASSUME NEW f, Fair(f), NEW p \in Fighters, NEW d, d = LeavesParty(f, p)
    PROVE  Fair(d) /\ d.playing = f.playing /\ p \notin d.party
           /\ d.invited \subseteq f.invited /\ (Hosted(f) => Hosted(d))
<1> DEFINE left == f.party \ {p}
           e == [f EXCEPT !.party = left]
           pairs == (left \X {p}) \cup ({p} \X left) \cup {<<p, p>>}
           gone == SendCreatureSkull(e, pairs)
<1>1. f \in FightState /\ Seen(f) /\ Away(f)
  BY DEF Fair
<1>2. /\ e \in FightState /\ e.playing = f.playing /\ e.skull = f.skull /\ e.ticks = f.ticks
      /\ e.attacked = f.attacked /\ e.locked = f.locked /\ e.inFight = f.inFight
      /\ e.shown = f.shown /\ e.party = left /\ e.invited = f.invited
  BY <1>1 DEF FightState
<1>3. d = IF p \notin f.party THEN f
          ELSE IF left = {} \/ (Cardinality(left) = 1 /\ f.invited = {}) THEN Disband(gone)
          ELSE gone
  BY DEF LeavesParty
<1> HIDE DEF e
<1>4. CASE p \notin f.party
  BY <1>3, <1>4
<1>5. CASE p \in f.party
  <2>1. ASSUME NEW v \in f.playing, NEW q \in f.playing, <<v, q>> \notin pairs
        PROVE  GetSkullClient(e, v, q) = GetSkullClient(f, v, q)
    <3>1. {v, q} \subseteq f.party <=> {v, q} \subseteq left
      <4>1. CASE v = p
        BY <2>1, <4>1
      <4>2. CASE v # p
        BY <2>1, <4>2
      <4> QED
        BY <4>1, <4>2
    <3> HIDE DEF left
    <3> QED
      BY <3>1, <1>2 DEF GetSkullClient
  <2>p. PICK told : told = pairs
    OBVIOUS
  <2>2. gone \in FightState /\ ButShown(e, gone) /\ Seen(gone)
    <3>1. \A v, q \in f.playing :
            <<v, q>> \in told \/ GetSkullClient(e, v, q) = GetSkullClient(f, v, q)
      <4> SUFFICES ASSUME NEW v \in f.playing, NEW q \in f.playing, <<v, q>> \notin told
                   PROVE  GetSkullClient(e, v, q) = GetSkullClient(f, v, q)
        BY Zenon
      <4>1. <<v, q>> \notin pairs
        BY <2>p, Zenon
      <4> QED
        BY <2>1, <4>1
    <3>2. e \in FightState /\ e.playing = f.playing /\ e.shown = f.shown
      BY <1>2
    <3>3. Untold(f, e, told)
      BY <1>1, <3>1, <3>2 DEF Untold
    <3>4. gone = SendCreatureSkull(e, told)
      BY <2>p
    <3> HIDE DEF gone, pairs
    <3> QED
      BY <3>3, <3>4, Told DEF Tells
  <2> HIDE DEF gone
  <2>3. \A q \in Fighters : FreeAt(gone, q)
    BY <1>2, <2>2 DEF Fair, FreeAt, ButShown
  <2>4. /\ gone.playing = f.playing /\ gone.party = left /\ gone.invited = f.invited
        /\ gone.skull = f.skull /\ gone.attacked = f.attacked /\ gone.locked = f.locked
    BY <1>2, <2>2 DEF ButShown
  <2>5. Away(gone)
    BY <1>1, <2>4 DEF Away
  <2>6. Fair(gone)
    BY <2>2, <2>3, <2>5 DEF Fair
  <2>7. PICK h : h = gone
    OBVIOUS
  <2>8. d = h \/ d = Disband(h)
    BY <1>3, <1>5, <2>7
  <2>9. CASE d = Disband(h)
    BY <2>4, <2>6, <2>7, <2>9, FightersDisbanded DEF Hosted
  <2>10. CASE d # Disband(h)
    <3>1. d = h /\ left # {}
      BY <1>3, <1>5, <2>7, <2>8, <2>10
    <3> QED
      BY <2>4, <2>6, <2>7, <3>1 DEF Hosted
  <2> QED
    BY <2>9, <2>10
<1> QED
  BY <1>4, <1>5

\* Party::removeInvite
LEMMA FighterUninvited ==
    ASSUME NEW f, Fair(f), Hosted(f), NEW p \in Fighters, NEW d, d = RemoveInvite(f, p)
    PROVE  Fair(d) /\ Hosted(d) /\ d.playing = f.playing /\ p \notin d.invited
<1> DEFINE rest == [f EXCEPT !.invited = @ \ {p}]
<1>1. f \in FightState /\ Seen(f) /\ Away(f)
  BY DEF Fair
<1>2. /\ rest \in FightState /\ rest.playing = f.playing /\ rest.skull = f.skull
      /\ rest.ticks = f.ticks /\ rest.attacked = f.attacked /\ rest.locked = f.locked
      /\ rest.inFight = f.inFight /\ rest.party = f.party /\ rest.shown = f.shown
      /\ rest.invited = f.invited \ {p}
  BY <1>1 DEF FightState
<1>3. (d = f /\ p \notin f.invited) \/ (d = rest /\ p \in f.invited) \/ d = Disband(rest)
  BY DEF RemoveInvite
<1> HIDE DEF rest
<1>4. Fair(rest) /\ Hosted(rest)
  BY <1>1, <1>2 DEF Fair, Hosted, Seen, Away, FreeAt, GetSkullClient
<1>5. CASE d = Disband(rest)
  BY <1>2, <1>4, <1>5, FightersDisbanded DEF Hosted
<1>6. CASE d # Disband(rest)
  BY <1>2, <1>3, <1>4, <1>6
<1> QED
  BY <1>5, <1>6

\* m is f after a hit of a, before the fight of a is renewed.
Strikes(f, m, a) ==
    /\ m \in FightState /\ Seen(m) /\ m.playing = f.playing
    /\ m.party = f.party /\ m.invited = f.invited /\ m.inFight = f.inFight
    /\ \A q \in Fighters \ {a} : /\ m.locked[q] = f.locked[q]
                                 /\ m.attacked[q] = f.attacked[q]
                                 /\ m.skull[q] = f.skull[q]

\* A hit: who strikes first is locked and white, who answers is not, and
\* whoever now counts as an attacker looks yellow to the one they attacked.
LEMMA Attacked ==
    ASSUME NEW f, Fair(f), NEW a \in f.playing, NEW b \in f.playing,
           NEW d, d = OnAttackedCreature(f, a, b)
    PROVE  Fair(d) /\ d.playing = f.playing /\ d.party = f.party /\ d.invited = f.invited
<1> DEFINE hits == [f EXCEPT !.attacked[a] = @ \cup {b}]
           locked == [hits EXCEPT !.locked[a] = TRUE]
<1>1. f \in FightState /\ Seen(f) /\ Away(f) /\ a \in Fighters /\ b \in Fighters
  BY DEF Fair, FightState
<1>2. /\ hits \in FightState /\ hits.playing = f.playing /\ hits.skull = f.skull
      /\ hits.ticks = f.ticks /\ hits.locked = f.locked /\ hits.inFight = f.inFight
      /\ hits.party = f.party /\ hits.invited = f.invited /\ hits.shown = f.shown
      /\ hits.attacked = [f.attacked EXCEPT ![a] = @ \cup {b}]
  BY <1>1 DEF FightState
<1> HIDE DEF hits
<1>3. /\ locked \in FightState /\ locked.playing = f.playing /\ locked.skull = f.skull
      /\ locked.ticks = f.ticks /\ locked.attacked = hits.attacked
      /\ locked.inFight = f.inFight
      /\ locked.party = f.party /\ locked.invited = f.invited /\ locked.shown = f.shown
      /\ locked.locked = [f.locked EXCEPT ![a] = TRUE]
  BY <1>1, <1>2 DEF FightState
<1> HIDE DEF locked
<1>4. /\ hits.attacked[a] = f.attacked[a] \cup {b}
      /\ \A q \in Fighters \ {a} :
            hits.attacked[q] = f.attacked[q] /\ locked.locked[q] = f.locked[q]
  BY <1>1, <1>2, <1>3 DEF FightState
<1>5. PICK mid : /\ d = AddInFightTicks(mid, a)
                 /\ mid = IF IsPartner(f, a, b) THEN f
                          ELSE IF f.skull[a] = "none" /\ GetSkullClient(f, a, b) = "yellow"
                          THEN SendCreatureSkull(hits, {<<b, a>>})
                          ELSE IF a \in f.attacked[b] THEN f
                          ELSE IF f.skull[a] # "none" THEN locked
                          ELSE IF f.skull[b] = "none" THEN SetSkull(locked, a, "white")
                          ELSE SendCreatureSkull(locked, {<<b, a>>})
  BY DEF OnAttackedCreature, hits, locked
<1>6. Strikes(f, f, a)
  BY <1>1 DEF Strikes
<1>7. \A v, q \in f.playing : <<v, q>> \in {<<b, a>>}
         \/ /\ GetSkullClient(hits, v, q) = GetSkullClient(f, v, q)
            /\ GetSkullClient(locked, v, q) = GetSkullClient(f, v, q)
  <2> SUFFICES ASSUME NEW v \in f.playing, NEW q \in f.playing, v # b \/ q # a
               PROVE  /\ GetSkullClient(hits, v, q) = GetSkullClient(f, v, q)
                      /\ GetSkullClient(locked, v, q) = GetSkullClient(f, v, q)
    OBVIOUS
  <2>1. v \in hits.attacked[q] <=> v \in f.attacked[q]
    <3>1. CASE q = a
      BY <3>1, <1>4
    <3>2. CASE q # a
      <4>1. q \in Fighters \ {a}
        BY <3>2, <1>1 DEF FightState
      <4> QED
        BY <4>1, <1>4
    <3> QED
      BY <3>1, <3>2
  <2> QED
    BY <2>1, <1>2, <1>3 DEF GetSkullClient
<1>8. \A h \in {hits, locked} : Strikes(f, SendCreatureSkull(h, {<<b, a>>}), a)
  <2> SUFFICES ASSUME NEW h \in {hits, locked} PROVE Strikes(f, SendCreatureSkull(h, {<<b, a>>}), a)
    OBVIOUS
  <2>1. PICK e : e = SendCreatureSkull(h, {<<b, a>>})
    OBVIOUS
  <2>2. Untold(f, h, {<<b, a>>})
    BY <1>1, <1>2, <1>3, <1>7 DEF Untold
  <2>6. Tells(h, e)
    BY <2>1, <2>2, Told
  <2>7. /\ h.playing = f.playing /\ h.party = f.party /\ h.invited = f.invited
        /\ h.inFight = f.inFight /\ h.skull = f.skull
        /\ \A q \in Fighters \ {a} : h.locked[q] = f.locked[q] /\ h.attacked[q] = f.attacked[q]
    <3>1. CASE h = hits
      BY <3>1, <1>2, <1>4
    <3>2. CASE h = locked
      BY <3>2, <1>3, <1>4
    <3> QED
      BY <3>1, <3>2
  <2>8. Strikes(f, e, a)
    BY <2>6, <2>7 DEF ButShown, Tells, Strikes
  <2> QED
    BY <2>1, <2>8
<1>9. ASSUME f.skull[a] # "none" PROVE Strikes(f, locked, a)
  <2>1. \A v \in f.playing : GetSkullClient(locked, v, a) = GetSkullClient(f, v, a)
    BY <1>3, <1>9 DEF GetSkullClient
  <2>2. \A v, q \in f.playing : GetSkullClient(locked, v, q) = GetSkullClient(f, v, q)
    BY <1>7, <2>1
  <2>3. Seen(locked)
    BY <2>2, <1>1, <1>3 DEF Seen
  <2> QED
    BY <2>3, <1>3, <1>4 DEF Strikes
<1>10. Strikes(f, SetSkull(locked, a, "white"), a)
  <2>1. Only(f, locked, a)
    BY <1>1, <1>3, <1>4 DEF Only
  <2>2. PICK e : e = SetSkull(locked, a, "white")
    OBVIOUS
  <2>3. SkullOf(locked, e, a, "white")
    <3>1. a \in Fighters /\ "white" \in {"none", "white", "red", "black"}
      BY <1>1
    <3> QED
      BY ONLY <2>1, <2>2, <3>1, SkullSet, Zenon
  <2>4. Strikes(f, e, a)
    BY <1>3, <1>4, <2>3 DEF SkullOf, Strikes
  <2> QED
    BY <2>2, <2>4
<1>11. Strikes(f, mid, a)
  <2>1. \/ mid = f
        \/ mid = SendCreatureSkull(hits, {<<b, a>>}) \/ mid = SendCreatureSkull(locked, {<<b, a>>})
        \/ mid = locked /\ f.skull[a] # "none"
        \/ mid = SetSkull(locked, a, "white")
    BY <1>5, Zenon
  <2> QED
    BY <2>1, <1>6, <1>8, <1>9, <1>10
<1>12. Away(mid)
  BY <1>1, <1>11 DEF Away, Strikes
<1>13. \A q \in Fighters \ {a} : FreeAt(mid, q)
  BY <1>11 DEF Fair, FreeAt, Strikes
<1>14. mid \in FightState /\ Seen(mid) /\ mid.playing = f.playing
       /\ mid.party = f.party /\ mid.invited = f.invited
  BY <1>11 DEF Strikes
<1>15. a \in Fighters /\ d = AddInFightTicks(mid, a)
  BY <1>1, <1>5
<1>16. Fair(d) /\ d.playing = mid.playing /\ d.party = mid.party /\ d.invited = mid.invited
  BY ONLY <1>12, <1>13, <1>14, <1>15, TicksAdded
<1> QED
  BY <1>14, <1>16

\* An unjustified kill makes the skull time longer, and may change the skull.
LEMMA UnjustifiedKill ==
    ASSUME NEW f, Fair(f), NEW k \in f.playing, NEW d, d = AddUnjustifiedDead(f, k)
    PROVE  Fair(d) /\ d.playing = f.playing /\ d.party = f.party /\ d.invited = f.invited
<1> DEFINE worse == [f EXCEPT !.ticks[k] = @ + FragTime]
<1>1. f \in FightState /\ Seen(f) /\ Away(f) /\ k \in Fighters /\ FragTime \in Int
  BY FightsAssumption DEF Fair, FightState
<1>2. /\ worse \in FightState /\ worse.playing = f.playing /\ worse.skull = f.skull
      /\ worse.attacked = f.attacked /\ worse.locked = f.locked /\ worse.inFight = f.inFight
      /\ worse.party = f.party /\ worse.invited = f.invited /\ worse.shown = f.shown
  <2>1. PICK ticks : ticks = [f.ticks EXCEPT ![k] = @ + FragTime]
    OBVIOUS
  <2>2. f.ticks \in [Fighters -> Int]
    BY <1>1 DEF FightState
  <2>3. ticks \in [Fighters -> Int]
    BY <1>1, <2>1, <2>2
  <2>4. worse = [f EXCEPT !.ticks = ticks]
    BY <2>1
  <2> HIDE DEF worse
  <2> QED
    BY <1>1, <2>3, <2>4 DEF FightState
<1>3. d = worse \/ d = SetSkull(worse, k, "black") \/ d = SetSkull(worse, k, "red")
  BY DEF AddUnjustifiedDead
<1> HIDE DEF worse
<1>4. Fair(worse)
  BY <1>1, <1>2 DEF Fair, Seen, Away, FreeAt, GetSkullClient
<1>5. Only(f, worse, k)
  BY <1>1, <1>2 DEF Only
<1>6. ASSUME NEW new \in {"black", "red"}, d = SetSkull(worse, k, new)
      PROVE  Fair(d) /\ d.playing = f.playing /\ d.party = f.party /\ d.invited = f.invited
  <2>1. SkullOf(worse, d, k, new)
    BY <1>1, <1>5, <1>6, SkullSet
  <2>2. Away(d)
    BY <1>1, <1>2, <2>1 DEF Away, SkullOf
  <2>3. \A q \in Fighters : FreeAt(d, q)
    BY <1>2, <1>6, <2>1 DEF Fair, FreeAt, SkullOf
  <2> QED
    BY <1>2, <2>1, <2>2, <2>3 DEF Fair, SkullOf
<1> QED
  BY <1>2, <1>3, <1>4, <1>6

\* A killer who has given the last hit is locked, and in a fight.
LEMMA Killed ==
    ASSUME NEW f, Fair(f), NEW k \in f.playing, NEW t, NEW lastHit,
           NEW d, d = OnKilledCreature(f, k, t, lastHit)
    PROVE  Fair(d) /\ d.playing = f.playing /\ d.party = f.party /\ d.invited = f.invited
<1>1. PICK judged : judged = IF f.skull[t] = "none" THEN AddUnjustifiedDead(f, k) ELSE f
  OBVIOUS
<1>2. /\ Fair(judged) /\ judged.playing = f.playing /\ judged.party = f.party
      /\ judged.invited = f.invited
  BY <1>1, UnjustifiedKill
<1>3. \/ d = f \/ d = judged
      \/ d = AddInFightTicks([judged EXCEPT !.locked[k] = TRUE], k)
  BY <1>1 DEF OnKilledCreature
<1>4. CASE d = AddInFightTicks([judged EXCEPT !.locked[k] = TRUE], k)
  <2>1. judged \in FightState /\ Seen(judged) /\ Away(judged) /\ k \in Fighters
    BY <1>2 DEF Fair, FightState
  <2>2. PICK h : h = [judged EXCEPT !.locked[k] = TRUE]
    OBVIOUS
  <2>3. /\ h \in FightState /\ h.playing = judged.playing /\ h.skull = judged.skull
        /\ h.attacked = judged.attacked /\ h.inFight = judged.inFight
        /\ h.party = judged.party /\ h.invited = judged.invited /\ h.shown = judged.shown
        /\ \A q \in Fighters \ {k} : h.locked[q] = judged.locked[q]
    BY <2>1, <2>2 DEF FightState
  <2>4. Seen(h) /\ Away(h)
    BY <1>2, <2>1, <2>3 DEF Seen, Away, GetSkullClient
  <2>5. \A q \in Fighters \ {k} : FreeAt(h, q)
    BY <1>2, <2>3 DEF Fair, FreeAt
  <2>6. d = AddInFightTicks(h, k)
    BY <1>4, <2>2
  <2> QED
    BY <1>2, <2>1, <2>3, <2>4, <2>5, <2>6, TicksAdded
<1> QED
  BY <1>2, <1>3, <1>4

-----------------------------------------------------------------------------
\* The row of a player keeps a skull that lasts.
FightInv == /\ Fair(Fight) /\ Hosted(Fight)
            /\ stored \in [Fighters -> [skull : {"none", "red", "black"}, ticks : Int,
                                        inFight : {"none", "live", "over"}]]

\* The record holds the variables.
LEMMA FightIs ==
    /\ Fight.playing = playing /\ Fight.skull = skull /\ Fight.ticks = skullTicks
    /\ Fight.attacked = attackedSet /\ Fight.locked = pzLocked /\ Fight.inFight = inFight
    /\ Fight.party = party /\ Fight.invited = invited /\ Fight.shown = shown
  BY DEF Fight

\* One record becomes the next.
LEMMA FightThen ==
    ASSUME NEW d, d \in FightState, FightBecomes(d)
    PROVE  d = Fight'
<1>1. Fight' = [playing |-> d.playing, skull |-> d.skull, ticks |-> d.ticks,
                attacked |-> d.attacked, locked |-> d.locked, inFight |-> d.inFight,
                party |-> d.party, invited |-> d.invited, shown |-> d.shown]
  BY DEF FightBecomes, Fight
<1> QED
  BY <1>1 DEF FightState

\* A step that becomes a record of this kind keeps the invariant.
LEMMA FightKept ==
    ASSUME FightInv, UNCHANGED stored, NEW d, Fair(d), Hosted(d), FightBecomes(d)
    PROVE  FightInv'
<1>1. PICK e : e = Fight'
  OBVIOUS
<1>2. d = e
  BY <1>1, FightThen DEF Fair
<1>3. Fair(e) /\ Hosted(e)
  BY <1>2
<1>4. (Fair(Fight) /\ Hosted(Fight))'
  BY <1>1, <1>3 DEF Fair, Hosted, Seen, Away, FreeAt, FightState, GetSkullClient
<1> QED
  BY <1>4 DEF FightInv

\* The invariant says what the fights promise.
LEMMA FightPromise == FightInv => FightsAgree
<1> SUFFICES ASSUME FightInv PROVE FightsAgree
  OBVIOUS
<1>1. PICK f : f = Fight
  OBVIOUS
<1>2. /\ f.playing = playing /\ f.skull = skull /\ f.attacked = attackedSet
      /\ f.locked = pzLocked /\ f.inFight = inFight /\ f.shown = shown
  BY <1>1, FightIs
<1>3. Fair(f)
  BY <1>1 DEF FightInv
<1>4. pzLocked \in [Fighters -> BOOLEAN]
  BY <1>2, <1>3 DEF Fair, FightState
<1>5. FightsFree
  BY <1>2, <1>3, <1>4 DEF FightsFree, Fair, FreeAt
<1>6. SkullsAreShown
  BY <1>1, <1>2, <1>3 DEF SkullsAreShown, Fair, Seen
<1> QED
  BY <1>5, <1>6 DEF FightsAgree

\* The time of a skull is written alone.
LEMMA TimeWritten ==
    ASSUME NEW f \in FightState, NEW p \in Fighters, NEW n \in Int
    PROVE  LET d == [f EXCEPT !.ticks[p] = n]
           IN  /\ d \in FightState
               /\ d.playing = f.playing /\ d.skull = f.skull /\ d.attacked = f.attacked
               /\ d.locked = f.locked /\ d.inFight = f.inFight /\ d.party = f.party
               /\ d.invited = f.invited /\ d.shown = f.shown
<1>1. PICK ticks : ticks = [f.ticks EXCEPT ![p] = n]
  OBVIOUS
<1>2. f.ticks \in [Fighters -> Int]
  BY DEF FightState
<1>3. ticks \in [Fighters -> Int]
  BY <1>1, <1>2
<1>4. PICK d : d = [f EXCEPT !.ticks = ticks]
  OBVIOUS
<1>5. /\ d \in FightState /\ d.playing = f.playing /\ d.skull = f.skull
      /\ d.attacked = f.attacked
      /\ d.locked = f.locked /\ d.inFight = f.inFight /\ d.party = f.party
      /\ d.invited = f.invited /\ d.shown = f.shown
  BY <1>3, <1>4 DEF FightState
<1>6. d = [f EXCEPT !.ticks[p] = n]
  BY <1>1, <1>4
<1> QED
  BY <1>5, <1>6

\* Whoever goes leaves the party, and is shown to nobody any more.
LEMMA Departed ==
    ASSUME FightInv, NEW f, Fair(f), Hosted(f), NEW p \in f.playing, Departs(f, p)
    PROVE  FightInv'
<1>1. f \in FightState /\ p \in Fighters
  BY DEF Fair, FightState
<1>2. PICK rest : rest = RemoveInvite(f, p)
  OBVIOUS
<1>3. Fair(rest) /\ Hosted(rest) /\ rest.playing = f.playing /\ p \notin rest.invited
  BY <1>1, <1>2, FighterUninvited
<1>4. PICK alone : alone = LeavesParty(rest, p)
  OBVIOUS
<1>5. Fair(alone) /\ Hosted(alone) /\ alone.playing = f.playing
      /\ p \notin alone.party /\ p \notin alone.invited
  BY <1>1, <1>3, <1>4, FighterLeavesParty
<1>6. alone \in FightState /\ Seen(alone) /\ Away(alone) /\ \A q \in Fighters : FreeAt(alone, q)
  BY <1>5 DEF Fair
<1> DEFINE shows == [v \in Fighters |-> [q \in Fighters |->
                       IF p \in {v, q} THEN "none" ELSE alone.shown[v][q]]]
           e == [alone EXCEPT
             !.playing = @ \ {p}, !.skull[p] = "none", !.ticks[p] = 0, !.attacked[p] = {},
             !.locked[p] = FALSE, !.inFight[p] = "none", !.shown = shows]
<1>7. /\ shows \in [Fighters -> [Fighters ->
                     {"none", "white", "red", "black", "yellow", "green"}]]
      /\ \A v, q \in Fighters \ {p} : shows[v][q] = alone.shown[v][q]
  BY <1>6 DEF FightState
<1>8. FightBecomes(e)
  BY <1>2, <1>4 DEF Departs
<1> HIDE DEF shows
<1>l. PICK l : l = [alone EXCEPT !.playing = @ \ {p}, !.skull[p] = "none"]
  OBVIOUS
<1>m. PICK m : m = [l EXCEPT !.ticks[p] = 0]
  OBVIOUS
<1>n. PICK n : n = [m EXCEPT !.attacked[p] = {}, !.locked[p] = FALSE, !.inFight[p] = "none"]
  OBVIOUS
<1>o. e = [n EXCEPT !.shown = shows]
  BY <1>l, <1>m, <1>n
<1> HIDE DEF e
<1>q. /\ m \in FightState /\ m.playing = alone.playing \ {p} /\ m.party = alone.party
      /\ m.invited = alone.invited /\ m.attacked = alone.attacked /\ m.locked = alone.locked
      /\ m.inFight = alone.inFight /\ m.skull = [alone.skull EXCEPT ![p] = "none"]
  <2>1. /\ l \in FightState /\ l.playing = alone.playing \ {p} /\ l.party = alone.party
        /\ l.invited = alone.invited /\ l.attacked = alone.attacked /\ l.locked = alone.locked
        /\ l.inFight = alone.inFight /\ l.skull = [alone.skull EXCEPT ![p] = "none"]
    BY <1>1, <1>6, <1>l DEF FightState
  <2>2. 0 \in Int
    OBVIOUS
  <2> QED
    BY <1>1, <1>m, <2>1, <2>2, TimeWritten
<1>r. /\ n \in FightState /\ n.playing = m.playing /\ n.party = m.party
      /\ n.invited = m.invited /\ n.skull = m.skull
      /\ n.attacked = [m.attacked EXCEPT ![p] = {}]
      /\ n.locked = [m.locked EXCEPT ![p] = FALSE]
      /\ n.inFight = [m.inFight EXCEPT ![p] = "none"]
  BY <1>1, <1>n, <1>q DEF FightState
<1>s. /\ e \in FightState /\ e.playing = n.playing /\ e.party = n.party
      /\ e.invited = n.invited /\ e.shown = shows /\ e.skull = n.skull
      /\ e.attacked = n.attacked /\ e.locked = n.locked /\ e.inFight = n.inFight
  BY <1>7, <1>o, <1>r DEF FightState
<1>9. /\ e \in FightState /\ e.playing = alone.playing \ {p} /\ e.party = alone.party
      /\ e.invited = alone.invited /\ e.shown = shows
      /\ e.skull = [alone.skull EXCEPT ![p] = "none"]
      /\ e.attacked = [alone.attacked EXCEPT ![p] = {}]
      /\ e.locked = [alone.locked EXCEPT ![p] = FALSE]
      /\ e.inFight = [alone.inFight EXCEPT ![p] = "none"]
  BY <1>q, <1>r, <1>s
<1>10. /\ e.skull[p] = "none" /\ e.attacked[p] = {} /\ e.locked[p] = FALSE
       /\ \A q \in Fighters \ {p} :
            /\ e.skull[q] = alone.skull[q] /\ e.attacked[q] = alone.attacked[q]
            /\ e.locked[q] = alone.locked[q] /\ e.inFight[q] = alone.inFight[q]
  BY <1>1, <1>6, <1>9 DEF FightState
<1>11. Seen(e)
  <2> SUFFICES ASSUME NEW v \in e.playing, NEW q \in e.playing
               PROVE  e.shown[v][q] = GetSkullClient(e, v, q)
    BY DEF Seen
  <2>1. v \in alone.playing /\ q \in alone.playing /\ v \in Fighters \ {p} /\ q \in Fighters \ {p}
    BY <1>9 DEF FightState
  <2>2. e.shown[v][q] = alone.shown[v][q]
    BY <1>7, <1>9, <2>1
  <2>3. alone.shown[v][q] = GetSkullClient(alone, v, q)
    BY <1>6, <2>1 DEF Seen
  <2>4. e.skull[q] = alone.skull[q] /\ e.attacked[q] = alone.attacked[q] /\ e.party = alone.party
    BY <1>9, <1>10, <2>1
  <2> QED
    BY <2>2, <2>3, <2>4 DEF GetSkullClient
<1>12. Away(e)
  BY <1>5, <1>6, <1>9, <1>10 DEF Away
<1>13. \A q \in Fighters : FreeAt(e, q)
  BY <1>6, <1>10 DEF FreeAt
<1>14. Fair(e) /\ Hosted(e)
  BY <1>5, <1>9, <1>11, <1>12, <1>13 DEF Fair, Hosted
<1>15. stored' \in [Fighters -> [skull : {"none", "red", "black"}, ticks : Int,
                                  inFight : {"none", "live", "over"}]]
  <2> DEFINE kept == [skull |-> IF f.skull[p] \in {"red", "black"} THEN f.skull[p] ELSE "none",
                     ticks |-> f.ticks[p], inFight |-> f.inFight[p]]
  <2>1. kept \in [skull : {"none", "red", "black"}, ticks : Int,
                 inFight : {"none", "live", "over"}]
    BY <1>1 DEF FightState
  <2>2. stored' = [stored EXCEPT ![p] = kept]
    BY DEF Departs
  <2> HIDE DEF kept
  <2> QED
    BY <2>1, <2>2 DEF FightInv
<1>16. PICK d : d = Fight'
  OBVIOUS
<1>17. Fair(d) /\ Hosted(d)
  BY <1>8, <1>9, <1>14, <1>16, FightThen
<1> QED
  BY <1>15, <1>16, <1>17 DEF FightInv, Fair, Hosted, Seen, Away, FreeAt, FightState, GetSkullClient

\* Whoever comes in is shown to all, and all to them.
LEMMA Arrived ==
    ASSUME FightInv, NEW p \in Fighters, LogsIn(p)
    PROVE  FightInv'
<1>1. PICK f : f = Fight
  OBVIOUS
<1>2. Fair(f) /\ Hosted(f) /\ f \in FightState /\ Seen(f) /\ Away(f) /\ f.playing = playing
  BY <1>1, FightIs DEF FightInv, Fair
<1>3. PICK kept \in [skull : {"none", "red", "black"}, ticks : Int,
                    inFight : {"none", "live", "over"}] : kept = stored[p]
  BY DEF FightInv
<1>4. PICK look \in {"none", "red", "black"} : look = IF kept.ticks > 0 THEN kept.skull ELSE "none"
  OBVIOUS
<1> DEFINE here == [f EXCEPT !.playing = @ \cup {p}, !.ticks[p] = kept.ticks, !.skull[p] = look,
                             !.inFight[p] = kept.inFight]
<1>5. PICK h : h = here
  OBVIOUS
<1>6. p \notin playing /\ UNCHANGED stored
      /\ FightBecomes(SendCreatureSkull(h, ({p} \X h.playing) \cup (h.playing \X {p})))
  BY <1>1, <1>3, <1>4, <1>5 DEF LogsIn
<1>7. /\ h \in FightState /\ h.playing = f.playing \cup {p} /\ h.attacked = f.attacked
      /\ h.locked = f.locked /\ h.party = f.party /\ h.invited = f.invited /\ h.shown = f.shown
      /\ h.skull = [f.skull EXCEPT ![p] = look]
      /\ h.inFight = [f.inFight EXCEPT ![p] = kept.inFight]
  <2>1. PICK l : l = [f EXCEPT !.playing = @ \cup {p}]
    OBVIOUS
  <2>2. PICK m : m = [l EXCEPT !.ticks[p] = kept.ticks]
    OBVIOUS
  <2>3. h = [m EXCEPT !.skull[p] = look, !.inFight[p] = kept.inFight]
    BY <1>5, <2>1, <2>2
  <2>4. /\ l \in FightState /\ l.playing = f.playing \cup {p} /\ l.attacked = f.attacked
        /\ l.locked = f.locked /\ l.party = f.party /\ l.invited = f.invited
        /\ l.shown = f.shown /\ l.skull = f.skull /\ l.inFight = f.inFight
    BY <1>2, <2>1 DEF FightState
  <2>5. kept.ticks \in Int
    BY <1>3
  <2>6. /\ m \in FightState /\ m.playing = l.playing /\ m.attacked = l.attacked
        /\ m.locked = l.locked /\ m.party = l.party /\ m.invited = l.invited
        /\ m.shown = l.shown /\ m.skull = l.skull /\ m.inFight = l.inFight
    BY <2>2, <2>4, <2>5, TimeWritten
  <2>7. /\ h \in FightState /\ h.playing = m.playing /\ h.attacked = m.attacked
        /\ h.locked = m.locked /\ h.party = m.party /\ h.invited = m.invited
        /\ h.shown = m.shown
        /\ h.skull = [m.skull EXCEPT ![p] = look]
        /\ h.inFight = [m.inFight EXCEPT ![p] = kept.inFight]
    BY <1>3, <1>4, <2>3, <2>6 DEF FightState
  <2> QED
    BY <2>4, <2>6, <2>7
<1>8. /\ h.skull[p] = look
      /\ \A q \in Fighters \ {p} : h.skull[q] = f.skull[q] /\ h.inFight[q] = f.inFight[q]
  BY <1>2, <1>7 DEF FightState
<1>9. PICK told : told = ({p} \X h.playing) \cup (h.playing \X {p})
  OBVIOUS
<1>10. PICK d : d = SendCreatureSkull(h, told)
  OBVIOUS
<1>11. /\ d \in FightState /\ ButShown(h, d)
       /\ \A v, q \in Fighters : d.shown[v][q] =
            IF <<v, q>> \in told THEN GetSkullClient(h, v, q) ELSE h.shown[v][q]
  BY <1>7, <1>10, Sent
<1>12. Seen(d)
  <2> SUFFICES ASSUME NEW v \in d.playing, NEW q \in d.playing
               PROVE  d.shown[v][q] = GetSkullClient(d, v, q)
    BY DEF Seen
  <2>1. v \in Fighters /\ q \in Fighters /\ v \in h.playing /\ q \in h.playing
    BY <1>11 DEF FightState, ButShown
  <2>2. GetSkullClient(d, v, q) = GetSkullClient(h, v, q)
    BY <1>11 DEF ButShown, GetSkullClient
  <2>3. CASE <<v, q>> \in told
    BY <1>11, <2>1, <2>2, <2>3
  <2>4. CASE <<v, q>> \notin told
    <3>1. v # p /\ q # p
      BY <1>9, <2>1, <2>4
    <3>2. v \in f.playing /\ q \in f.playing /\ q \in Fighters \ {p}
      BY <1>7, <2>1, <3>1
    <3>3. GetSkullClient(h, v, q) = GetSkullClient(f, v, q)
      BY <1>7, <1>8, <3>2 DEF GetSkullClient
    <3>4. h.shown[v][q] = GetSkullClient(f, v, q)
      BY <1>2, <1>7, <3>2 DEF Seen
    <3> QED
      BY <1>11, <2>1, <2>2, <2>4, <3>3, <3>4
  <2> QED
    BY <2>3, <2>4
<1>13. Away(d)
  BY <1>2, <1>7, <1>8, <1>11 DEF Away, ButShown
<1>14. \A q \in Fighters : FreeAt(d, q)
  <2>1. FreeAt(d, p)
    BY <1>2, <1>6, <1>7, <1>8, <1>11 DEF Away, ButShown, FreeAt
  <2>2. \A q \in Fighters \ {p} : FreeAt(d, q)
    BY <1>2, <1>7, <1>8, <1>11 DEF Fair, ButShown, FreeAt
  <2> QED
    BY <2>1, <2>2
<1>15. Fair(d) /\ Hosted(d)
  BY <1>2, <1>7, <1>11, <1>12, <1>13, <1>14 DEF Fair, Hosted, ButShown
<1> QED
  BY <1>6, <1>9, <1>10, <1>15, FightKept

\* A party grows by one who is told of the others, as they are.
LEMMA Joined ==
    ASSUME FightInv, NEW p \in Fighters, JoinParty(p)
    PROVE  FightInv'
<1>1. PICK f : f = Fight
  OBVIOUS
<1>2. Fair(f) /\ Hosted(f) /\ f \in FightState /\ Seen(f) /\ Away(f)
      /\ f.party = party /\ f.invited = invited
  BY <1>1, FightIs DEF FightInv, Fair
<1>3. PICK e : e = [f EXCEPT !.party = @ \cup {p}, !.invited = @ \ {p}]
  OBVIOUS
<1>4. PICK told : told = (f.party \X {p}) \cup ({p} \X f.party) \cup {<<p, p>>}
  OBVIOUS
<1>5. p \in f.invited /\ UNCHANGED stored /\ FightBecomes(SendCreatureSkull(e, told))
  BY <1>1, <1>2, <1>3, <1>4 DEF JoinParty
<1>6. /\ e \in FightState /\ e.playing = f.playing /\ e.skull = f.skull
      /\ e.attacked = f.attacked /\ e.locked = f.locked /\ e.inFight = f.inFight
      /\ e.shown = f.shown /\ e.party = f.party \cup {p} /\ e.invited = f.invited \ {p}
  BY <1>2, <1>3 DEF FightState
<1>7. ASSUME NEW v \in f.playing, NEW q \in f.playing, <<v, q>> \notin told
      PROVE  GetSkullClient(e, v, q) = GetSkullClient(f, v, q)
  <2>1. {v, q} \subseteq f.party <=> {v, q} \subseteq f.party \cup {p}
    <3>1. CASE v = p
      BY <1>4, <1>7, <3>1
    <3>2. CASE v # p
      BY <1>4, <1>7, <3>2
    <3> QED
      BY <3>1, <3>2
  <2> QED
    BY <2>1, <1>6 DEF GetSkullClient
<1>8. Untold(f, e, told)
  BY <1>2, <1>6, <1>7 DEF Untold
<1>9. PICK d : d = SendCreatureSkull(e, told)
  OBVIOUS
<1>10. Tells(e, d)
  BY <1>8, <1>9, Told
<1>11. Away(d) /\ Hosted(d)
  BY <1>2, <1>5, <1>6, <1>10 DEF Away, Hosted, Tells, ButShown
<1>12. \A q \in Fighters : FreeAt(d, q)
  BY <1>2, <1>6, <1>10 DEF Fair, FreeAt, Tells, ButShown
<1>13. Fair(d)
  BY <1>10, <1>11, <1>12 DEF Fair, Tells
<1> QED
  BY <1>5, <1>9, <1>11, <1>13, FightKept

\* A first invitation founds the party of one.
LEMMA Invited ==
    ASSUME FightInv, NEW p \in Fighters, NEW q \in Fighters, InvitePlayer(p, q)
    PROVE  FightInv'
<1>1. PICK f : f = Fight
  OBVIOUS
<1>2. Fair(f) /\ Hosted(f) /\ f \in FightState /\ Seen(f) /\ Away(f)
      /\ f.party = party /\ f.invited = invited /\ f.playing = playing
  BY <1>1, FightIs DEF FightInv, Fair
<1>3. PICK e : e = [f EXCEPT !.party = @ \cup {p}, !.invited = @ \cup {q}]
  OBVIOUS
<1>4. PICK told : told = {<<p, p>>}
  OBVIOUS
<1>5. /\ p \in f.playing /\ q \in f.playing /\ p # q /\ q \notin f.party \cup f.invited
      /\ f.party # {} => p \in f.party
      /\ UNCHANGED stored
      /\ FightBecomes(IF Cardinality(e.party) = 1 /\ f.invited = {}
                      THEN SendCreatureSkull(e, told) ELSE e)
  BY <1>1, <1>2, <1>3, <1>4 DEF InvitePlayer
<1>6. /\ e \in FightState /\ e.playing = f.playing /\ e.skull = f.skull
      /\ e.attacked = f.attacked /\ e.locked = f.locked /\ e.inFight = f.inFight
      /\ e.shown = f.shown /\ e.party = f.party \cup {p} /\ e.invited = f.invited \cup {q}
  BY <1>2, <1>3 DEF FightState
<1>7. Untold(f, e, told)
  <2>1. ASSUME NEW v \in f.playing, NEW w \in f.playing, <<v, w>> \notin told
        PROVE  GetSkullClient(e, v, w) = GetSkullClient(f, v, w)
    <3>1. {v, w} \subseteq f.party <=> {v, w} \subseteq f.party \cup {p}
      BY <1>4, <1>5, <2>1
    <3> QED
      BY <3>1, <1>6 DEF GetSkullClient
  <2> QED
    BY <1>2, <1>6, <2>1 DEF Untold
<1>8. PICK d : d = SendCreatureSkull(e, told)
  OBVIOUS
<1>9. Tells(e, d)
  BY <1>7, <1>8, Told
<1>10. FightBecomes(d) \/ (FightBecomes(e) /\ f.party # {})
  <2>1. f.party = {} => e.party = {p} /\ f.invited = {}
    BY <1>2, <1>6 DEF Hosted
  <2>2. Cardinality({p}) = 1
    BY FS_Singleton
  <2> QED
    BY <1>5, <1>8, <2>1, <2>2
<1>11. \A h \in {d, e} : /\ h \in FightState /\ h.playing = f.playing /\ h.skull = f.skull
                         /\ h.attacked = f.attacked /\ h.locked = f.locked
                         /\ h.inFight = f.inFight
                         /\ h.party = f.party \cup {p} /\ h.invited = f.invited \cup {q}
  BY <1>6, <1>9 DEF Tells, ButShown
<1>12. f.party # {} => Seen(e)
  <2>1. f.party # {} => e.party = f.party
    BY <1>5, <1>6
  <2> QED
    BY <1>2, <1>6, <2>1 DEF Seen, GetSkullClient
<1>13. ASSUME NEW h \in {d, e}, Seen(h) PROVE Fair(h) /\ Hosted(h)
  <2>1. Away(h) /\ Hosted(h)
    BY <1>2, <1>5, <1>11 DEF Away, Hosted
  <2>2. \A w \in Fighters : FreeAt(h, w)
    BY <1>2, <1>11 DEF Fair, FreeAt
  <2> QED
    BY <1>11, <1>13, <2>1, <2>2 DEF Fair
<1>14. Seen(d)
  BY <1>9 DEF Tells
<1> QED
  BY <1>5, <1>10, <1>12, <1>13, <1>14, FightKept

\* A skull ends with its time.
LEMMA Checked ==
    ASSUME FightInv, NEW p \in Fighters, CheckSkullTicks(p)
    PROVE  FightInv'
<1>1. PICK f : f = Fight
  OBVIOUS
<1>2. Fair(f) /\ Hosted(f) /\ f \in FightState /\ Seen(f) /\ Away(f)
      /\ f.playing = playing /\ f.ticks = skullTicks /\ f.skull = skull
  BY <1>1, FightIs DEF FightInv, Fair
<1>3. PICK left \in Int : left = IF skullTicks[p] - 1 < 0 \/ skullTicks[p] - 1 > IntMax
                                 THEN 0 ELSE skullTicks[p] - 1
  <2>1. skullTicks[p] \in Int
    BY <1>2 DEF FightState
  <2> QED
    BY <2>1
<1>4. PICK aged : aged = [f EXCEPT !.ticks[p] = left]
  OBVIOUS
<1>5. /\ p \in f.playing /\ UNCHANGED stored
      /\ FightBecomes(aged) \/ FightBecomes(SetSkull(aged, p, "none"))
  BY <1>1, <1>2, <1>3, <1>4 DEF CheckSkullTicks
<1>6. /\ aged \in FightState /\ aged.playing = f.playing /\ aged.skull = f.skull
      /\ aged.attacked = f.attacked /\ aged.locked = f.locked /\ aged.inFight = f.inFight
      /\ aged.party = f.party /\ aged.invited = f.invited /\ aged.shown = f.shown
  BY <1>2, <1>4, TimeWritten
<1>7. Fair(aged) /\ Hosted(aged)
  BY <1>2, <1>6 DEF Fair, Hosted, Seen, Away, FreeAt, GetSkullClient
<1>8. Only(f, aged, p)
  BY <1>2, <1>6 DEF Only
<1>9. PICK d : d = SetSkull(aged, p, "none")
  OBVIOUS
<1>10. SkullOf(aged, d, p, "none")
  BY <1>8, <1>9, SkullSet
<1>11. Away(d) /\ Hosted(d)
  BY <1>2, <1>5, <1>6, <1>10 DEF Away, Hosted, SkullOf
<1>12. \A q \in Fighters : FreeAt(d, q)
  BY <1>7, <1>10 DEF Fair, FreeAt, SkullOf
<1>13. Fair(d)
  BY <1>10, <1>11, <1>12 DEF Fair, SkullOf
<1> QED
  BY <1>5, <1>7, <1>9, <1>11, <1>13, FightKept

\* The dead is freed of the fight, the killers are judged.
LEMMA Died ==
    ASSUME FightInv, NEW p \in Fighters, NEW k \in Murderers, NEW m \in Murderers,
           NEW stays \in BOOLEAN, Dies(p, k, m, stays)
    PROVE  FightInv'
<1>1. PICK f : f = Fight
  OBVIOUS
<1>2. Fair(f) /\ Hosted(f) /\ f.playing = playing /\ f.inFight = inFight
  BY <1>1, FightIs DEF FightInv
<1>3. p \in f.playing /\ k \in f.playing /\ m \in f.playing
  BY <1>2 DEF Dies
<1>4. PICK killed : killed = OnKilledCreature(f, k, p, TRUE)
  OBVIOUS
<1>5. PICK judged : judged = IF m = k THEN killed ELSE OnKilledCreature(killed, m, p, FALSE)
  OBVIOUS
<1>6. PICK dead : dead = IF inFight[p] = "none" THEN judged ELSE OnEndFight(judged, p)
  OBVIOUS
<1>7. IF stays THEN FightBecomes(dead) /\ UNCHANGED stored ELSE Departs(dead, p)
  BY <1>1, <1>4, <1>5, <1>6 DEF Dies
<1>8. /\ Fair(killed) /\ killed.playing = f.playing /\ killed.party = f.party
      /\ killed.invited = f.invited
  <2>1. PICK last : last = TRUE
    OBVIOUS
  <2>2. killed = OnKilledCreature(f, k, p, last)
    BY <1>4, <2>1
  <2> QED
    BY <1>2, <1>3, <2>2, Killed
<1>9. /\ Fair(judged) /\ judged.playing = f.playing /\ judged.party = f.party
      /\ judged.invited = f.invited
  <2>1. CASE m = k
    BY <1>5, <1>8, <2>1
  <2>2. CASE m # k
    <3>0. PICK last : last = FALSE
      OBVIOUS
    <3>1. judged = OnKilledCreature(killed, m, p, last) /\ m \in killed.playing
      BY <1>3, <1>5, <1>8, <2>2, <3>0
    <3>2. /\ Fair(judged) /\ judged.playing = killed.playing /\ judged.party = killed.party
          /\ judged.invited = killed.invited
      BY <1>8, <3>1, Killed
    <3> QED
      BY <1>8, <3>2
  <2> QED
    BY <2>1, <2>2
<1>10. /\ Fair(dead) /\ dead.playing = f.playing /\ dead.party = f.party
       /\ dead.invited = f.invited
  BY <1>6, <1>9, FightEnded
<1>11. Hosted(dead)
  BY <1>2, <1>10 DEF Hosted
<1> QED
  BY <1>3, <1>7, <1>10, <1>11, FightKept, Departed

\* Every step of the fights keeps the invariant.
LEMMA FightStep == FightInv /\ [FightNext]_fightVars => FightInv'
<1> SUFFICES ASSUME FightInv, [FightNext]_fightVars PROVE FightInv'
  OBVIOUS
<1>1. PICK f : f = Fight
  OBVIOUS
<1>2. Fair(f) /\ Hosted(f) /\ f \in FightState /\ Seen(f) /\ Away(f)
      /\ f.playing = playing /\ f.party = party /\ f.invited = invited /\ f.inFight = inFight
  BY <1>1, FightIs DEF FightInv, Fair
<1>3. ASSUME NEW a \in Fighters, NEW b \in Fighters, Attack(a, b) PROVE FightInv'
  <2>1. PICK hit : hit = OnAttackedCreature(f, a, b)
    OBVIOUS
  <2>2. PICK d : d = AddInFightTicks(hit, b)
    OBVIOUS
  <2>3. a \in f.playing /\ b \in f.playing /\ UNCHANGED stored /\ FightBecomes(d)
    BY <1>1, <1>2, <1>3, <2>1, <2>2 DEF Attack
  <2>4. Fair(hit) /\ hit.party = f.party /\ hit.invited = f.invited
    BY <1>2, <2>1, <2>3, Attacked
  <2>5. Fair(d) /\ d.party = f.party /\ d.invited = f.invited
    BY <2>2, <2>4, TicksAdded DEF Fair
  <2>6. Hosted(d)
    BY <1>2, <2>5 DEF Hosted
  <2> QED
    BY <2>3, <2>5, <2>6, FightKept
<1>4. ASSUME NEW p \in Fighters, Fought(p) PROVE FightInv'
  <2>1. PICK d : d = AddInFightTicks(f, p)
    OBVIOUS
  <2>2. UNCHANGED stored /\ FightBecomes(d)
    BY <1>1, <1>4, <2>1 DEF Fought
  <2>3. Fair(d) /\ d.party = f.party /\ d.invited = f.invited
    BY <1>2, <2>1, TicksAdded DEF Fair
  <2>4. Hosted(d)
    BY <1>2, <2>3 DEF Hosted
  <2> QED
    BY <2>2, <2>3, <2>4, FightKept
<1>5. ASSUME NEW p \in Fighters, FightIsOver(p) PROVE FightInv'
  <2>1. PICK d : d = [f EXCEPT !.inFight[p] = "over"]
    OBVIOUS
  <2>2. /\ d \in FightState /\ d.playing = f.playing /\ d.skull = f.skull /\ d.ticks = f.ticks
        /\ d.attacked = f.attacked /\ d.locked = f.locked /\ d.party = f.party
        /\ d.invited = f.invited /\ d.shown = f.shown
        /\ d.inFight = [f.inFight EXCEPT ![p] = "over"]
    BY <1>2, <2>1 DEF FightState
  <2>3. UNCHANGED stored /\ FightBecomes(d)
    BY <1>1, <1>5, <2>2, FightIs DEF FightIsOver, FightBecomes
  <2>4. d.inFight[p] = "over" /\ \A q \in Fighters \ {p} : d.inFight[q] = f.inFight[q]
    BY <1>2, <2>2 DEF FightState
  <2>5. \A q \in Fighters : FreeAt(d, q)
    BY <1>2, <2>2, <2>4 DEF Fair, FreeAt
  <2>6. Fair(d) /\ Hosted(d)
    BY <1>2, <2>2, <2>5 DEF Fair, Hosted, Seen, Away, GetSkullClient
  <2> QED
    BY <2>3, <2>6, FightKept
<1>6. ASSUME NEW p \in Fighters, FightEnds(p) PROVE FightInv'
  <2>1. PICK d : d = OnEndFight(f, p)
    OBVIOUS
  <2>2. UNCHANGED stored /\ FightBecomes(d)
    BY <1>1, <1>6, <2>1 DEF FightEnds
  <2>3. Fair(d) /\ d.party = f.party /\ d.invited = f.invited
    BY <1>2, <2>1, FightEnded
  <2>4. Hosted(d)
    BY <1>2, <2>3 DEF Hosted
  <2> QED
    BY <2>2, <2>3, <2>4, FightKept
<1>7. ASSUME NEW p \in Fighters, RevokeInvitation(p) PROVE FightInv'
  <2>1. PICK d : d = RemoveInvite(f, p)
    OBVIOUS
  <2>2. UNCHANGED stored /\ FightBecomes(d)
    BY <1>1, <1>7, <2>1 DEF RevokeInvitation
  <2>3. Fair(d) /\ Hosted(d)
    BY <1>2, <2>1, FighterUninvited
  <2> QED
    BY <2>2, <2>3, FightKept
<1>8. ASSUME NEW p \in Fighters, LeaveParty(p) PROVE FightInv'
  <2>1. PICK d : d = LeavesParty(f, p)
    OBVIOUS
  <2>2. UNCHANGED stored /\ FightBecomes(d)
    BY <1>1, <1>8, <2>1 DEF LeaveParty
  <2>3. Fair(d) /\ Hosted(d)
    BY <1>2, <2>1, FighterLeavesParty
  <2> QED
    BY <2>2, <2>3, FightKept
<1>9. ASSUME NEW p \in Fighters, LogsOut(p) PROVE FightInv'
  <2>1. p \in f.playing /\ Departs(f, p)
    BY <1>1, <1>2, <1>9 DEF LogsOut
  <2> QED
    BY <1>2, <2>1, Departed
<1>10. ASSUME NEW p \in Fighters, Absent(p) PROVE FightInv'
  <2>1. stored' = [stored EXCEPT ![p].ticks = @ - 1]
    BY <1>10 DEF Absent
  <2>2. PICK kept \in [skull : {"none", "red", "black"}, ticks : Int,
                       inFight : {"none", "live", "over"}] : kept = stored[p]
    BY DEF FightInv
  <2>3. [kept EXCEPT !.ticks = @ - 1] \in [skull : {"none", "red", "black"}, ticks : Int,
                                           inFight : {"none", "live", "over"}]
    OBVIOUS
  <2>4. stored' = [stored EXCEPT ![p] = [kept EXCEPT !.ticks = @ - 1]]
    BY <2>1, <2>2
  <2>5. stored' \in [Fighters -> [skull : {"none", "red", "black"}, ticks : Int,
                                  inFight : {"none", "live", "over"}]]
    BY <2>3, <2>4 DEF FightInv
  <2>6. Fight' = Fight
    BY <1>10 DEF Absent, Fight
  <2>7. (Fair(Fight) /\ Hosted(Fight))'
    BY <1>1, <1>2, <2>6 DEF Fair, Hosted, Seen, Away, FreeAt, FightState, GetSkullClient
  <2> QED
    BY <2>5, <2>7 DEF FightInv
<1>11. CASE UNCHANGED fightVars
  <2>1. Fight' = Fight /\ stored' = stored
    BY <1>11 DEF fightVars, Fight
  <2>2. (Fair(Fight) /\ Hosted(Fight))'
    BY <1>1, <1>2, <2>1 DEF Fair, Hosted, Seen, Away, FreeAt, FightState, GetSkullClient
  <2> QED
    BY <2>1, <2>2 DEF FightInv
<1> QED
  BY <1>3, <1>4, <1>5, <1>6, <1>7, <1>8, <1>9, <1>10, <1>11, Joined, Invited, Checked, Died,
     Arrived DEF FightNext

\* Before anybody plays nobody fights.
LEMMA FightStart == FightInit => FightInv
<1> SUFFICES ASSUME FightInit PROVE FightInv
  OBVIOUS
<1>1. PICK f : f = Fight
  OBVIOUS
<1>2. /\ f.playing = {} /\ f.party = {} /\ f.invited = {} /\ f.skull = NoSkulls
      /\ f.ticks = [p \in Fighters |-> 0] /\ f.attacked = [p \in Fighters |-> {}]
      /\ f.locked = [p \in Fighters |-> FALSE] /\ f.inFight = NoSkulls
      /\ f.shown = [v \in Fighters |-> NoSkulls]
      /\ f = [playing |-> f.playing, skull |-> f.skull, ticks |-> f.ticks,
              attacked |-> f.attacked, locked |-> f.locked, inFight |-> f.inFight,
              party |-> f.party, invited |-> f.invited, shown |-> f.shown]
  BY <1>1 DEF FightInit, Fight
<1>3. f \in FightState
  <2>1. NoSkulls \in [Fighters -> {"none", "white", "red", "black"}]
        /\ NoSkulls \in [Fighters -> {"none", "live", "over"}]
        /\ NoSkulls \in [Fighters -> {"none", "white", "red", "black", "yellow", "green"}]
    BY DEF NoSkulls
  <2>2. /\ f.playing \in SUBSET Fighters /\ f.party \in SUBSET Fighters
        /\ f.invited \in SUBSET Fighters
        /\ f.skull \in [Fighters -> {"none", "white", "red", "black"}]
        /\ f.inFight \in [Fighters -> {"none", "live", "over"}]
    BY <1>2, <2>1
  <2>3. f.ticks \in [Fighters -> Int] /\ f.attacked \in [Fighters -> SUBSET Fighters]
        /\ f.locked \in [Fighters -> BOOLEAN]
    BY <1>2
  <2>4. f.shown \in [Fighters -> [Fighters ->
                        {"none", "white", "red", "black", "yellow", "green"}]]
    BY <1>2, <2>1
  <2> QED
    BY <1>2, <2>2, <2>3, <2>4 DEF FightState
<1>4. Fair(f) /\ Hosted(f)
  BY <1>2, <1>3 DEF Fair, Hosted, Seen, Away, FreeAt, NoSkulls
<1> QED
  BY <1>1, <1>4 DEF FightInit, FightInv

\* Only a fight whose end is to come locks a player out of protection zones or
\* makes one white or an attacker, and every client shows the skulls as they
\* are, whatever attacks, deaths, parties and sessions come in between
\* (Player::onAttackedCreature, onEndCondition, getSkullClient, Party).
THEOREM FightsStayFair == FightSpec => []FightsAgree
  BY FightStart, FightStep, FightPromise, PTL DEF FightSpec

-----------------------------------------------------------------------------
(***************************************************************************)
(* The conditions of a player.                                             *)
(***************************************************************************)
\* Of a condition a spell, a field or a thing that is worn brings.
Proper ==
    {c \in [type : Types, id : Gear \cup {Spell}, value : Looks \cup Int, left : Nat \cup {Forever}] :
        /\ IF c.type = "outfit" THEN c.value \in Looks ELSE c.value \in Int
        /\ c.id # Spell => c.type = "invisible"}

Outfit == [look : Looks, mount : Mounts \cup {NoMount}]

Bodies ==
    [conditions : SUBSET Proper, speed : Int, skill : Int, worn : SUBSET Gear,
     default : Outfit, current : Outfit, shown : Outfit \cup {"nothing"},
     mount : Mounts \cup {NoMount}, pz : BOOLEAN, wasMounted : BOOLEAN, walks : BOOLEAN,
     adds : SUBSET Proper, removals : Nat, renewed : SUBSET (Types \cup {"refused"})]

\* A condition is listed once for its type and id.
ListedOnce(cs) == \A c, d \in cs : c.type = d.type /\ c.id = d.id => c = d

\* What the condition of a type brings, when there is one.
WorthOf(cs, type) ==
    IF \E c \in cs : c.type = type THEN (CHOOSE c \in cs : c.type = type).value ELSE 0

Ridden(b) == IF IsMounted(b) /\ b.mount # NoMount THEN MountSpeed[b.mount] ELSE 0

\* A player as the conditions, the gear and the mount make them.
Sound(b) ==
    /\ b \in Bodies /\ IsFiniteSet(b.conditions) /\ ListedOnce(b.conditions)
    /\ b.speed = WorthOf(b.conditions, "haste") + WorthOf(b.conditions, "paralyze")
                 + Total(GearSpeed, b.worn) + Ridden(b)
    /\ b.skill = WorthOf(b.conditions, "attributes") + Total(GearSkill, b.worn)
    /\ b.shown = IF IsInvisible(b) THEN "nothing" ELSE b.current
    /\ "outfit" \notin b.renewed =>
         \A c \in Listed(b, "outfit") : c.left # 0 => b.current = OnFoot(c.value) /\ ~IsMounted(b)
    /\ b.renewed \cap {"outfit", "refused"} = {} /\ Listed(b, "outfit") = {}
         => b.current = b.default

\* Nobody is both hasted and paralysed, see OneOfTwo.
NotBoth(b) ==
    HasCondition(b, "haste") /\ HasCondition(b, "paralyze")
    => b.removals > 0 \/ b.renewed \cap {"haste", "paralyze"} # {}

\* Fields that conditions do not change.
Besides(b, r) ==
    /\ r.worn = b.worn /\ r.default = b.default /\ r.mount = b.mount /\ r.pz = b.pz
    /\ r.wasMounted = b.wasMounted /\ r.walks = b.walks /\ r.adds = b.adds
    /\ r.removals = b.removals

\* What a condition is.
LEMMA ProperIs ==
    ASSUME NEW c \in Proper
    PROVE  /\ c.type \in Types /\ c.id \in Gear \cup {Spell} /\ c.left \in Nat \cup {-1}
           /\ c.type = "outfit" => c.value \in Looks
           /\ c.type # "outfit" => c.value \in Int
           /\ c.type # "invisible" => c.id = Spell
           /\ c = [type |-> c.type, id |-> c.id, value |-> c.value, left |-> c.left]
  BY DEF Proper, Forever

\* The fields of a body.
LEMMA BodyIs ==
    ASSUME NEW b \in Bodies
    PROVE  /\ b.conditions \in SUBSET Proper /\ b.speed \in Int /\ b.skill \in Int
           /\ b.worn \in SUBSET Gear /\ b.default \in Outfit /\ b.current \in Outfit
           /\ b.shown \in Outfit \cup {"nothing"} /\ b.mount \in Mounts \cup {NoMount}
           /\ b.pz \in BOOLEAN /\ b.wasMounted \in BOOLEAN /\ b.walks \in BOOLEAN
           /\ b.adds \in SUBSET Proper /\ b.removals \in Nat
           /\ b.renewed \in SUBSET (Types \cup {"refused"})
           /\ b = [conditions |-> b.conditions, speed |-> b.speed, skill |-> b.skill,
                   worn |-> b.worn, default |-> b.default, current |-> b.current,
                   shown |-> b.shown, mount |-> b.mount, pz |-> b.pz,
                   wasMounted |-> b.wasMounted, walks |-> b.walks, adds |-> b.adds,
                   removals |-> b.removals, renewed |-> b.renewed]
  BY DEF Bodies

\* To show an outfit changes nothing else.
LEMMA OutfitChanged ==
    ASSUME NEW b \in Bodies, NEW o \in Outfit
    PROVE  LET r == ChangeOutfit(b, o)
           IN  /\ r \in Bodies /\ Besides(b, r) /\ r.conditions = b.conditions
               /\ r.speed = b.speed /\ r.skill = b.skill /\ r.renewed = b.renewed
               /\ r.current = o /\ r.shown = IF IsInvisible(b) THEN b.shown ELSE o
<1>1. ChangeOutfit(b, o) = [b EXCEPT !.current = o, !.shown = IF IsInvisible(b) THEN b.shown ELSE o]
  BY BodyIs DEF ChangeOutfit
<1> QED
  BY <1>1 DEF Bodies, Besides

\* The end of a condition, of any.
LEMMA ConditionEnded ==
    ASSUME NEW b \in Bodies, NEW c \in Proper
    PROVE  LET r == EndCondition(b, c)
           IN  /\ r \in Bodies /\ Besides(b, r)
               /\ r.conditions = b.conditions \ {c} /\ r.renewed = b.renewed \ {c.type}
               /\ r.speed = IF c.type \in {"haste", "paralyze"} THEN b.speed - c.value ELSE b.speed
               /\ r.skill = IF c.type = "attributes" THEN b.skill - c.value ELSE b.skill
               /\ r.current = IF c.type = "outfit" THEN b.default ELSE b.current
               /\ r.shown = IF c.type = "outfit" /\ ~IsInvisible(b) THEN b.default
                            ELSE IF /\ c.type = "invisible"
                                    /\ ~\E d \in b.conditions \ {c} : d.type = "invisible"
                            THEN b.current ELSE b.shown
<1>1. PICK gone : gone = [b EXCEPT !.conditions = @ \ {c}, !.renewed = @ \ {c.type}]
  OBVIOUS
<1>2. /\ gone \in Bodies /\ Besides(b, gone) /\ gone.conditions = b.conditions \ {c}
      /\ gone.renewed = b.renewed \ {c.type} /\ gone.speed = b.speed /\ gone.skill = b.skill
      /\ gone.current = b.current /\ gone.shown = b.shown
  BY <1>1 DEF Bodies, Besides
<1>3. c.type \in Types /\ (c.type # "outfit" => c.value \in Int)
  BY ProperIs
<1>4. CASE c.type \in {"haste", "paralyze"}
  <2>1. EndCondition(b, c) = [gone EXCEPT !.speed = @ - c.value]
    BY <1>1, <1>4 DEF EndCondition
  <2> QED
    BY <1>2, <1>3, <1>4, <2>1 DEF Bodies, Besides
<1>5. CASE c.type = "attributes"
  <2>1. EndCondition(b, c) = [gone EXCEPT !.skill = @ - c.value]
    BY <1>1, <1>5 DEF EndCondition
  <2> QED
    BY <1>2, <1>3, <1>5, <2>1 DEF Bodies, Besides
<1>6. CASE c.type = "invisible"
  <2>1. EndCondition(b, c) = IF IsInvisible(gone) THEN gone ELSE [gone EXCEPT !.shown = gone.current]
    BY <1>1, <1>6 DEF EndCondition
  <2>2. IsInvisible(gone) <=> \E d \in b.conditions \ {c} : d.type = "invisible"
    BY <1>2 DEF IsInvisible, Listed
  <2> QED
    BY <1>2, <1>6, <2>1, <2>2 DEF Bodies, Besides
<1>7. CASE c.type = "outfit"
  <2>1. EndCondition(b, c) = ChangeOutfit(gone, gone.default)
    BY <1>1, <1>7 DEF EndCondition
  <2>2. gone.default = b.default /\ b.default \in Outfit
    BY <1>2, BodyIs DEF Besides
  <2>3. IsInvisible(gone) <=> IsInvisible(b)
    BY <1>2, <1>7 DEF IsInvisible, Listed
  <2> QED
    BY <1>2, <1>7, <2>1, <2>2, <2>3, OutfitChanged DEF Besides
<1> QED
  BY <1>3, <1>4, <1>5, <1>6, <1>7 DEF Types

-----------------------------------------------------------------------------
\* What is listed of one type but invisibility is one condition.
LEMMA WorthIs ==
    ASSUME NEW cs \in SUBSET Proper, ListedOnce(cs), NEW t \in Types \ {"invisible"}
    PROVE  /\ \A c \in cs : c.type = t => WorthOf(cs, t) = c.value
           /\ (\A c \in cs : c.type # t) => WorthOf(cs, t) = 0
           /\ t # "outfit" => WorthOf(cs, t) \in Int
<1>1. \A c \in cs : c.type = t => WorthOf(cs, t) = c.value
  <2> SUFFICES ASSUME NEW c \in cs, c.type = t PROVE WorthOf(cs, t) = c.value
    OBVIOUS
  <2>1. \A d \in cs : d.type = t => d = c
    BY ProperIs DEF ListedOnce
  <2> QED
    BY <2>1 DEF WorthOf
<1>2. (\A c \in cs : c.type # t) => WorthOf(cs, t) = 0
  BY DEF WorthOf
<1>3. t # "outfit" => WorthOf(cs, t) \in Int
  BY <1>1, <1>2, ProperIs
<1> QED
  BY <1>1, <1>2, <1>3

\* Two lists of which one has the values of the other.
LEMMA WorthSame ==
    ASSUME NEW cs \in SUBSET Proper, ListedOnce(cs), NEW ds \in SUBSET Proper, ListedOnce(ds),
           NEW t \in Types \ {"invisible"},
           \A c \in cs : c.type = t => \E d \in ds : d.type = t /\ d.value = c.value,
           \A d \in ds : d.type = t => \E c \in cs : c.type = t
    PROVE  WorthOf(ds, t) = WorthOf(cs, t)
<1>1. CASE \E c \in cs : c.type = t
  BY <1>1, WorthIs
<1>2. CASE ~\E c \in cs : c.type = t
  BY <1>2, WorthIs
<1> QED
  BY <1>1, <1>2

\* A list without one of its conditions.
LEMMA WorthRemoved ==
    ASSUME NEW cs \in SUBSET Proper, ListedOnce(cs), NEW c \in cs, NEW t \in Types \ {"invisible"}
    PROVE  /\ ListedOnce(cs \ {c})
           /\ WorthOf(cs \ {c}, t) = IF c.type = t THEN 0 ELSE WorthOf(cs, t)
<1>1. ListedOnce(cs \ {c})
  BY DEF ListedOnce
<1>2. CASE c.type = t
  <2>1. \A d \in cs \ {c} : d.type # t
    BY <1>2, ProperIs DEF ListedOnce
  <2> QED
    BY <1>1, <1>2, <2>1, WorthIs
<1>3. CASE c.type # t
  <2>1. WorthOf(cs \ {c}, t) = WorthOf(cs, t)
    BY <1>1, <1>3, WorthSame
  <2> QED
    BY <1>1, <1>3, <2>1
<1> QED
  BY <1>2, <1>3

\* A list with one more.
LEMMA WorthAdded ==
    ASSUME NEW cs \in SUBSET Proper, ListedOnce(cs), NEW c \in Proper,
           \A d \in cs : ~(d.type = c.type /\ d.id = c.id), NEW t \in Types \ {"invisible"}
    PROVE  /\ ListedOnce(cs \cup {c})
           /\ c.type = t => WorthOf(cs, t) = 0
           /\ WorthOf(cs \cup {c}, t) = IF c.type = t THEN c.value ELSE WorthOf(cs, t)
<1>1. ListedOnce(cs \cup {c})
  BY DEF ListedOnce
<1>2. CASE c.type = t
  <2>1. \A d \in cs : d.type # t
    BY <1>2, ProperIs
  <2>2. WorthOf(cs, t) = 0
    BY <2>1, WorthIs
  <2>3. WorthOf(cs \cup {c}, t) = c.value
    BY <1>1, <1>2, WorthIs
  <2> QED
    BY <1>1, <1>2, <2>2, <2>3
<1>3. CASE c.type # t
  <2>1. WorthOf(cs \cup {c}, t) = WorthOf(cs, t)
    BY <1>1, <1>3, WorthSame
  <2> QED
    BY <1>1, <1>3, <2>1
<1> QED
  BY <1>2, <1>3

\* What gear brings, together.
LEMMA GearTotals ==
    ASSUME NEW w \in [Gear -> Int], NEW s \in SUBSET Gear
    PROVE  /\ Total(w, s) \in Int
           /\ \A g \in Gear \ s : Total(w, s \cup {g}) = Total(w, s) + w[g]
<1>1. IsFiniteSet(s)
  BY FS_Subset, ConditionsAssumption
<1>2. \A g \in Gear \ s : Total(w, s \cup {g}) = Total(w, s) + w[g] /\ Total(w, s) \in Int
  <2> SUFFICES ASSUME NEW g \in Gear \ s
               PROVE  Total(w, s \cup {g}) = Total(w, s) + w[g] /\ Total(w, s) \in Int
    OBVIOUS
  <2>1. AllIntegers(w, s \cup {g})
    BY DEF AllIntegers
  <2> QED
    BY <1>1, <2>1, TotalGrown
<1>3. CASE s = {}
  BY <1>1, <1>2, <1>3, TotalZero
<1>4. CASE s # {}
  <2>1. PICK g \in s : TRUE
    BY <1>4
  <2>2. IsFiniteSet(s \ {g}) /\ g \notin s \ {g} /\ (s \ {g}) \cup {g} = s
    BY <1>1, <2>1, FS_Subset
  <2>3. AllIntegers(w, (s \ {g}) \cup {g})
    BY DEF AllIntegers
  <2>4. /\ Total(w, (s \ {g}) \cup {g}) = Total(w, s \ {g}) + w[g]
        /\ Total(w, s \ {g}) \in Int
    BY <2>2, <2>3, TotalGrown
  <2>5. Total(w, s) = Total(w, s \ {g}) + w[g] /\ w[g] \in Int
    BY <2>2, <2>4
  <2>6. Total(w, s) \in Int
    BY ONLY <2>4, <2>5
  <2> QED
    BY <1>2, <2>6
<1> QED
  BY <1>3, <1>4, <1>2

\* The constants that bodies add up.
LEMMA WhatIsWorn ==
    /\ GearSpeed \in [Gear -> Int] /\ GearSkill \in [Gear -> Int]
    /\ MountSpeed \in [Mounts -> Nat] /\ NoMount \notin Mounts
    /\ IsFiniteSet(Gear) /\ Spell \notin Gear /\ Worn \subseteq Looks
  BY ConditionsAssumption

-----------------------------------------------------------------------------
\* The numbers of a body are integers, and its speeds do not depend on more.
LEMMA NumbersAre ==
    ASSUME NEW b, b \in Bodies, ListedOnce(b.conditions)
    PROVE  /\ WorthOf(b.conditions, "haste") \in Int /\ WorthOf(b.conditions, "paralyze") \in Int
           /\ WorthOf(b.conditions, "attributes") \in Int
           /\ Total(GearSpeed, b.worn) \in Int /\ Total(GearSkill, b.worn) \in Int
           /\ Ridden(b) \in Nat
<1>1. b.conditions \in SUBSET Proper /\ b.worn \in SUBSET Gear /\ b.mount \in Mounts \cup {NoMount}
  BY BodyIs
<1>2. Ridden(b) \in Nat
  BY <1>1, WhatIsWorn DEF Ridden
<1>3. Total(GearSpeed, b.worn) \in Int /\ Total(GearSkill, b.worn) \in Int
  BY <1>1, WhatIsWorn, GearTotals
<1>4. /\ WorthOf(b.conditions, "haste") \in Int /\ WorthOf(b.conditions, "paralyze") \in Int
      /\ WorthOf(b.conditions, "attributes") \in Int
  BY <1>1, WorthIs DEF Types
<1> QED
  BY <1>2, <1>3, <1>4

\* One condition ends, and takes away what it brought.
LEMMA EndKeepsSound ==
    ASSUME NEW b, Sound(b), NEW c \in b.conditions
    PROVE  Sound(EndCondition(b, c))
<1>1. /\ b \in Bodies /\ IsFiniteSet(b.conditions) /\ ListedOnce(b.conditions)
      /\ c \in Proper /\ c.type \in Types /\ b.conditions \in SUBSET Proper
  BY BodyIs, ProperIs DEF Sound
<1>2. PICK r : r = EndCondition(b, c)
  OBVIOUS
<1>3. /\ r \in Bodies /\ Besides(b, r)
      /\ r.conditions = b.conditions \ {c} /\ r.renewed = b.renewed \ {c.type}
      /\ r.speed = IF c.type \in {"haste", "paralyze"} THEN b.speed - c.value ELSE b.speed
      /\ r.skill = IF c.type = "attributes" THEN b.skill - c.value ELSE b.skill
      /\ r.current = IF c.type = "outfit" THEN b.default ELSE b.current
      /\ r.shown = IF c.type = "outfit" /\ ~IsInvisible(b) THEN b.default
                   ELSE IF c.type = "invisible" /\ ~\E d \in b.conditions \ {c} : d.type = "invisible"
                   THEN b.current ELSE b.shown
  BY <1>1, <1>2, ConditionEnded
<1>4. IsFiniteSet(r.conditions) /\ ListedOnce(r.conditions)
  BY <1>1, <1>3, FS_Subset DEF ListedOnce
<1>5. Ridden(r) = Ridden(b) /\ r.worn = b.worn /\ (IsMounted(r) <=> IsMounted(b))
  BY <1>3 DEF Besides, Ridden, IsMounted
<1>6. ASSUME NEW t \in {"haste", "paralyze", "attributes"}
      PROVE  WorthOf(r.conditions, t)
               = IF c.type = t THEN WorthOf(b.conditions, t) - c.value ELSE WorthOf(b.conditions, t)
  <2>1. t \in Types \ {"invisible"}
    BY DEF Types
  <2>2. WorthOf(r.conditions, t) = IF c.type = t THEN 0 ELSE WorthOf(b.conditions, t)
    BY <1>1, <1>3, <2>1, WorthRemoved
  <2>3. c.type = t => WorthOf(b.conditions, t) = c.value /\ c.value \in Int
    BY <1>1, <2>1, WorthIs, ProperIs
  <2> QED
    BY <2>2, <2>3
<1>7. /\ r.speed = WorthOf(r.conditions, "haste") + WorthOf(r.conditions, "paralyze")
                   + Total(GearSpeed, r.worn) + Ridden(r)
      /\ r.skill = WorthOf(r.conditions, "attributes") + Total(GearSkill, r.worn)
  <2>1. /\ b.speed = WorthOf(b.conditions, "haste") + WorthOf(b.conditions, "paralyze")
                     + Total(GearSpeed, b.worn) + Ridden(b)
        /\ b.skill = WorthOf(b.conditions, "attributes") + Total(GearSkill, b.worn)
    BY DEF Sound
  <2>2. c.type # "outfit" => c.value \in Int
    BY <1>1, ProperIs
  <2> QED
    BY <1>1, <1>3, <1>5, <1>6, <2>1, <2>2, NumbersAre
<1>8. IsInvisible(r) <=> \E d \in b.conditions \ {c} : d.type = "invisible"
  BY <1>3 DEF IsInvisible, Listed
<1>9. r.shown = IF IsInvisible(r) THEN "nothing" ELSE r.current
  <2>1. IsInvisible(b) <=> \E d \in b.conditions : d.type = "invisible"
    BY DEF IsInvisible, Listed
  <2>2. b.shown = IF IsInvisible(b) THEN "nothing" ELSE b.current
    BY DEF Sound
  <2> QED
    BY <1>3, <1>8, <2>1, <2>2
<1>10. c.type = "outfit" => Listed(r, "outfit") = {}
  BY <1>1, <1>3, ProperIs DEF Listed, ListedOnce
<1>11. c.type # "outfit" => Listed(r, "outfit") = Listed(b, "outfit")
  BY <1>3 DEF Listed
<1>12. "outfit" \notin r.renewed =>
         \A d \in Listed(r, "outfit") : d.left # 0 => r.current = OnFoot(d.value) /\ ~IsMounted(r)
  BY <1>3, <1>5, <1>10, <1>11 DEF Sound
<1>13. r.renewed \cap {"outfit", "refused"} = {} /\ Listed(r, "outfit") = {} => r.current = r.default
  BY <1>1, <1>3, <1>10, <1>11 DEF Sound, Besides, Types
<1> QED
  BY <1>2, <1>3, <1>4, <1>7, <1>9, <1>12, <1>13 DEF Sound

-----------------------------------------------------------------------------
(***************************************************************************)
(* Several conditions end: the fold of EndCondition over a set of them.    *)
(***************************************************************************)
\* h has the body for each part of them.
Ends(b, cs, h) ==
    h = [s \in SUBSET cs |-> IF s = {} THEN b ELSE EndCondition(h[s \ {SomeOf(s)}], SomeOf(s))]

\* It is the fold of the code's loop.
LEMMA EndAllIs ==
    ASSUME NEW b, NEW cs PROVE EndAll(b, cs) = (CHOOSE h : Ends(b, cs, h))[cs]
  BY DEF EndAll, FoldSet, MapThenFoldSet, Ends, SomeOf

\* There is one.
LEMMA EndsExist ==
    ASSUME NEW b \in Bodies, NEW cs \in SUBSET Proper, IsFiniteSet(cs)
    PROVE  \E h : Ends(b, cs, h)
<1>1. PICK e : e = [x \in cs \X Bodies |-> EndCondition(x[2], x[1])]
  OBVIOUS
<1>2. e \in [cs \X Bodies -> Bodies]
  BY <1>1, ConditionEnded
<1>3. PICK h \in [SUBSET cs -> Bodies] : FoldsBy(e, b, cs, h)
  BY <1>2, FoldInExists
<1>4. ASSUME NEW s \in SUBSET cs, s # {}
      PROVE  e[<<SomeOf(s), h[s \ {SomeOf(s)}]>>] = EndCondition(h[s \ {SomeOf(s)}], SomeOf(s))
  <2>1. SomeOf(s) \in cs /\ h[s \ {SomeOf(s)}] \in Bodies
    BY <1>3, <1>4 DEF SomeOf
  <2> QED
    BY <1>1, <2>1
<1>5. h = [s \in SUBSET cs |-> IF s = {} THEN b ELSE e[<<SomeOf(s), h[s \ {SomeOf(s)}]>>]]
  BY <1>3 DEF FoldsBy
<1>6. Ends(b, cs, h)
  BY <1>4, <1>5 DEF Ends
<1> QED
  BY <1>6

\* What the loop leaves: the conditions are gone, and so is what they brought.
LEMMA AllEnded ==
    ASSUME NEW b, Sound(b), NEW cs \in SUBSET b.conditions
    PROVE  LET r == EndAll(b, cs)
           IN  /\ Sound(r) /\ Besides(b, r) /\ r.conditions = b.conditions \ cs
               /\ r.renewed = b.renewed \ {c.type : c \in cs}
<1>1. b \in Bodies /\ cs \in SUBSET Proper /\ IsFiniteSet(cs)
  BY BodyIs, FS_Subset DEF Sound
<1>2. PICK h : Ends(b, cs, h) /\ EndAll(b, cs) = h[cs]
  BY <1>1, EndsExist, EndAllIs
<1>3. \A s \in SUBSET cs :
         h[s] = IF s = {} THEN b ELSE EndCondition(h[s \ {SomeOf(s)}], SomeOf(s))
  BY <1>2 DEF Ends
<1> DEFINE Ended(r, s) ==
             /\ Sound(r) /\ Besides(b, r) /\ r.conditions = b.conditions \ s
             /\ r.renewed = b.renewed \ {c.type : c \in s}
<1>4. SUFFICES ASSUME ~Ended(h[cs], cs) PROVE FALSE
  BY <1>2
<1> DEFINE T == {s \in SUBSET cs : ~Ended(h[s], s)}
<1>5. PICK s \in T : s = {} \/ (SomeOf(s) \in s /\ s \ {SomeOf(s)} \in (SUBSET cs) \ T)
  <2>1. T \in SUBSET SUBSET cs /\ cs \in T
    BY <1>4
  <2> HIDE DEF T
  <2> QED
    BY <1>1, <2>1, LeastWrong
<1>6. s \in SUBSET cs /\ ~Ended(h[s], s)
  OBVIOUS
<1>7. CASE s = {}
  <2>1. Ended(b, {})
    BY BodyIs DEF Sound, Besides
  <2> QED
    BY <1>3, <1>6, <1>7, <2>1
<1>8. CASE s # {}
  <2>1. PICK c \in s : c = SomeOf(s)
    BY <1>5, <1>8
  <2>2. PICK g : g = h[s \ {c}]
    OBVIOUS
  <2>3. Ended(g, s \ {c})
    BY <1>5, <1>8, <2>1, <2>2
  <2>4. c \in g.conditions /\ Sound(g) /\ g \in Bodies /\ c \in Proper
    BY <1>1, <1>6, <2>3 DEF Sound
  <2>5. PICK r : r = EndCondition(g, c)
    OBVIOUS
  <2>6. Sound(r)
    BY <2>4, <2>5, EndKeepsSound
  <2>7. /\ Besides(g, r) /\ r.conditions = g.conditions \ {c} /\ r.renewed = g.renewed \ {c.type}
    BY <2>4, <2>5, ConditionEnded
  <2>8. Besides(b, r)
    BY <2>3, <2>7 DEF Besides
  <2>9. /\ r.conditions = b.conditions \ s
        /\ r.renewed = b.renewed \ {d.type : d \in s}
    BY <2>1, <2>3, <2>7
  <2>10. h[s] = r
    BY <1>3, <1>6, <1>8, <2>1, <2>2, <2>5
  <2> QED
    BY <1>6, <2>6, <2>8, <2>9, <2>10
<1> QED
  BY <1>7, <1>8

-----------------------------------------------------------------------------
(***************************************************************************)
(* A condition is added.                                                   *)
(***************************************************************************)
\* What else a body has is of no matter.
LEMMA SoundAlike ==
    ASSUME NEW b, Sound(b), NEW r \in Bodies,
           r.conditions = b.conditions, r.speed = b.speed, r.skill = b.skill, r.worn = b.worn,
           r.default = b.default, r.current = b.current, r.shown = b.shown, r.mount = b.mount,
           r.renewed = b.renewed
    PROVE  Sound(r)
<1>1. /\ IsInvisible(r) = IsInvisible(b) /\ Listed(r, "outfit") = Listed(b, "outfit")
      /\ IsMounted(r) = IsMounted(b) /\ Ridden(r) = Ridden(b)
  BY DEF IsInvisible, Listed, IsMounted, Ridden
<1> QED
  BY <1>1 DEF Sound

\* The start of a condition, of any.
LEMMA ConditionStarted ==
    ASSUME NEW b \in Bodies, NEW c \in Proper
    PROVE  LET r == StartCondition(b, c)
           IN  /\ r \in Bodies /\ Besides(b, r)
               /\ r.conditions = b.conditions \cup {c} /\ r.renewed = b.renewed
               /\ r.speed = IF c.type \in {"haste", "paralyze"} THEN b.speed + c.value ELSE b.speed
               /\ r.skill = IF c.type = "attributes" THEN b.skill + c.value ELSE b.skill
               /\ r.current = IF c.type = "outfit" THEN OnFoot(c.value) ELSE b.current
               /\ r.shown = IF c.type = "invisible" THEN "nothing"
                            ELSE IF c.type = "outfit" /\ ~IsInvisible(b) THEN OnFoot(c.value)
                            ELSE b.shown
<1>1. PICK new : new = [b EXCEPT !.conditions = @ \cup {c}]
  OBVIOUS
<1>2. /\ new \in Bodies /\ Besides(b, new) /\ new.conditions = b.conditions \cup {c}
      /\ new.renewed = b.renewed /\ new.speed = b.speed /\ new.skill = b.skill
      /\ new.current = b.current /\ new.shown = b.shown
  BY <1>1 DEF Bodies, Besides
<1>3. c.type \in Types /\ (c.type # "outfit" => c.value \in Int)
  BY ProperIs
<1>4. CASE c.type \in {"haste", "paralyze"}
  <2>1. StartCondition(b, c) = [new EXCEPT !.speed = @ + c.value]
    BY <1>1, <1>4 DEF StartCondition
  <2> QED
    BY <1>2, <1>3, <1>4, <2>1 DEF Bodies, Besides
<1>5. CASE c.type = "attributes"
  <2>1. StartCondition(b, c) = [new EXCEPT !.skill = @ + c.value]
    BY <1>1, <1>5 DEF StartCondition
  <2> QED
    BY <1>2, <1>3, <1>5, <2>1 DEF Bodies, Besides
<1>6. CASE c.type = "invisible"
  <2>1. StartCondition(b, c) = [new EXCEPT !.shown = "nothing"]
    BY <1>1, <1>6 DEF StartCondition
  <2> QED
    BY <1>2, <1>6, <2>1 DEF Bodies, Besides
<1>7. CASE c.type = "outfit"
  <2>1. PICK o : o = OnFoot(c.value)
    OBVIOUS
  <2>2. o \in Outfit
    BY <1>7, <2>1, ProperIs DEF OnFoot, Outfit
  <2>3. PICK g : g = ChangeOutfit(b, o)
    OBVIOUS
  <2>4. /\ g \in Bodies /\ Besides(b, g) /\ g.speed = b.speed /\ g.skill = b.skill
        /\ g.renewed = b.renewed /\ g.current = o
        /\ g.shown = IF IsInvisible(b) THEN b.shown ELSE o
    BY <2>2, <2>3, OutfitChanged
  <2>5. StartCondition(b, c) = [g EXCEPT !.conditions = new.conditions]
    BY <1>1, <1>7, <2>1, <2>3 DEF StartCondition
  <2> QED
    BY <1>2, <1>7, <2>1, <2>4, <2>5 DEF Bodies, Besides
<1> QED
  BY <1>3, <1>4, <1>5, <1>6, <1>7 DEF Types

\* To get off the mount.
LEMMA Dismounted ==
    ASSUME NEW b \in Bodies, b.speed \in Int
    PROVE  LET r == Dismount(b)
           IN  /\ r \in Bodies /\ r.conditions = b.conditions /\ r.skill = b.skill
               /\ r.worn = b.worn /\ r.default = OnFoot(b.default.look) /\ r.current = b.current
               /\ r.shown = b.shown /\ r.mount = b.mount /\ r.renewed = b.renewed
               /\ r.pz = b.pz /\ r.wasMounted = b.wasMounted /\ r.walks = b.walks
               /\ r.adds = b.adds /\ r.removals = b.removals
               /\ r.speed = b.speed - (IF b.mount = NoMount THEN 0 ELSE MountSpeed[b.mount])
               /\ ~IsMounted(r) /\ r.default \in Outfit
<1>1. b.default \in Outfit /\ b.mount \in Mounts \cup {NoMount}
  BY BodyIs
<1>2. [b.default EXCEPT !.mount = NoMount] = OnFoot(b.default.look)
  BY <1>1 DEF Outfit, OnFoot
<1>3. OnFoot(b.default.look) \in Outfit
  BY <1>1 DEF Outfit, OnFoot
<1>4. PICK n : n = IF b.mount = NoMount THEN 0 ELSE MountSpeed[b.mount]
  OBVIOUS
<1>5. n \in Nat
  BY <1>1, <1>4, WhatIsWorn
<1>6. PICK o : o = OnFoot(b.default.look)
  OBVIOUS
<1>7. PICK k : k = b.speed - n
  OBVIOUS
<1>8. k \in Int /\ o \in Outfit /\ o.mount = NoMount
  BY <1>3, <1>5, <1>6, <1>7 DEF OnFoot
<1>9. Dismount(b) = [b EXCEPT !.speed = k, !.default = o]
  BY <1>2, <1>4, <1>6, <1>7 DEF Dismount, Bodies
<1>10. PICK r : r = [b EXCEPT !.speed = k, !.default = o]
  OBVIOUS
<1>11. /\ r \in Bodies /\ r.conditions = b.conditions /\ r.skill = b.skill
       /\ r.worn = b.worn /\ r.default = o /\ r.current = b.current
       /\ r.shown = b.shown /\ r.mount = b.mount /\ r.renewed = b.renewed
       /\ r.pz = b.pz /\ r.wasMounted = b.wasMounted /\ r.walks = b.walks
       /\ r.adds = b.adds /\ r.removals = b.removals /\ r.speed = k
  BY <1>8, <1>10 DEF Bodies
<1>12. ~IsMounted(r)
  BY <1>8, <1>11 DEF IsMounted
<1> QED
  BY <1>4, <1>6, <1>7, <1>8, <1>9, <1>10, <1>11, <1>12

\* No condition of its type and id is listed yet.
Fresh(b, c) == \A d \in b.conditions : ~(d.type = c.type /\ d.id = c.id)

\* One condition more, before the code looks at what it does to the others.
LEMMA StartAddsUp ==
    ASSUME NEW b, Sound(b), NEW c \in Proper, Fresh(b, c), NEW r, r = StartCondition(b, c)
    PROVE  /\ IsFiniteSet(r.conditions) /\ ListedOnce(r.conditions)
           /\ r.speed = WorthOf(r.conditions, "haste") + WorthOf(r.conditions, "paralyze")
                        + Total(GearSpeed, r.worn) + Ridden(r)
           /\ r.skill = WorthOf(r.conditions, "attributes") + Total(GearSkill, r.worn)
           /\ r.shown = IF IsInvisible(r) THEN "nothing" ELSE r.current
<1>1. /\ b \in Bodies /\ IsFiniteSet(b.conditions) /\ ListedOnce(b.conditions)
      /\ b.conditions \in SUBSET Proper /\ c.type \in Types
      /\ c.type # "outfit" => c.value \in Int
  BY BodyIs, ProperIs DEF Sound
<1>2. /\ Besides(b, r) /\ r.conditions = b.conditions \cup {c}
      /\ r.speed = IF c.type \in {"haste", "paralyze"} THEN b.speed + c.value ELSE b.speed
      /\ r.skill = IF c.type = "attributes" THEN b.skill + c.value ELSE b.skill
      /\ r.current = IF c.type = "outfit" THEN OnFoot(c.value) ELSE b.current
      /\ r.shown = IF c.type = "invisible" THEN "nothing"
                   ELSE IF c.type = "outfit" /\ ~IsInvisible(b) THEN OnFoot(c.value)
                   ELSE b.shown
  BY <1>1, ConditionStarted
<1>3. IsFiniteSet(r.conditions)
  BY <1>1, <1>2, FS_AddElement
<1>4. ASSUME NEW t \in {"haste", "paralyze", "attributes"}
      PROVE  /\ ListedOnce(r.conditions)
             /\ WorthOf(r.conditions, t)
                  = IF c.type = t THEN WorthOf(b.conditions, t) + c.value ELSE WorthOf(b.conditions, t)
  <2>1. t \in Types \ {"invisible"}
    BY DEF Types
  <2>2. /\ ListedOnce(r.conditions)
        /\ c.type = t => WorthOf(b.conditions, t) = 0
        /\ WorthOf(r.conditions, t) = IF c.type = t THEN c.value ELSE WorthOf(b.conditions, t)
    BY <1>1, <1>2, <2>1, WorthAdded DEF Fresh
  <2> QED
    BY <1>1, <2>2
<1>5. Ridden(r) = Ridden(b) /\ r.worn = b.worn
  BY <1>2 DEF Besides, Ridden, IsMounted
<1>6. /\ r.speed = WorthOf(r.conditions, "haste") + WorthOf(r.conditions, "paralyze")
                   + Total(GearSpeed, r.worn) + Ridden(r)
      /\ r.skill = WorthOf(r.conditions, "attributes") + Total(GearSkill, r.worn)
  <2>1. /\ b.speed = WorthOf(b.conditions, "haste") + WorthOf(b.conditions, "paralyze")
                     + Total(GearSpeed, b.worn) + Ridden(b)
        /\ b.skill = WorthOf(b.conditions, "attributes") + Total(GearSkill, b.worn)
    BY DEF Sound
  <2> QED
    BY <1>1, <1>2, <1>4, <1>5, <2>1, NumbersAre
<1>7. r.shown = IF IsInvisible(r) THEN "nothing" ELSE r.current
  <2>1. b.shown = IF IsInvisible(b) THEN "nothing" ELSE b.current
    BY DEF Sound
  <2>2. IsInvisible(r) <=> IsInvisible(b) \/ c.type = "invisible"
    BY <1>2 DEF IsInvisible, Listed
  <2> QED
    BY <1>2, <2>1, <2>2
<1> QED
  BY <1>3, <1>4, <1>6, <1>7

\* All but a borrowed outfit, with which the player is still on the mount.
LEMMA StartKeepsSound ==
    ASSUME NEW b, Sound(b), NEW c \in Proper, Fresh(b, c), c.type # "outfit"
    PROVE  Sound(StartCondition(b, c))
<1>1. b \in Bodies
  BY DEF Sound
<1>2. PICK r : r = StartCondition(b, c)
  OBVIOUS
<1>3. /\ r \in Bodies /\ Besides(b, r) /\ r.conditions = b.conditions \cup {c}
      /\ r.renewed = b.renewed /\ r.current = b.current
  BY <1>1, <1>2, ConditionStarted
<1>4. Listed(r, "outfit") = Listed(b, "outfit") /\ (IsMounted(r) <=> IsMounted(b))
      /\ r.default = b.default
  BY <1>3 DEF Listed, Besides, IsMounted
<1>5. /\ "outfit" \notin r.renewed =>
           \A d \in Listed(r, "outfit") : d.left # 0 => r.current = OnFoot(d.value) /\ ~IsMounted(r)
      /\ r.renewed \cap {"outfit", "refused"} = {} /\ Listed(r, "outfit") = {}
           => r.current = r.default
  BY <1>3, <1>4 DEF Sound
<1> QED
  BY <1>2, <1>3, <1>5, StartAddsUp DEF Sound

\* A borrowed outfit, for which the player gets off the mount.
LEMMA OutfitKeepsSound ==
    ASSUME NEW b, Sound(b), NEW c \in Proper, Fresh(b, c), c.type = "outfit"
    PROVE  LET r == OnAddCondition(StartCondition(b, c), "outfit")
           IN  /\ Sound(r) /\ r.worn = b.worn /\ r.removals = b.removals
               /\ r.conditions = b.conditions \cup {c} /\ r.renewed = b.renewed
<1>1. b \in Bodies
  BY DEF Sound
<1>2. PICK g : g = StartCondition(b, c)
  OBVIOUS
<1>3. /\ g \in Bodies /\ Besides(b, g) /\ g.conditions = b.conditions \cup {c}
      /\ g.renewed = b.renewed /\ g.current = OnFoot(c.value)
  BY <1>1, <1>2, ConditionStarted
<1>4. /\ IsFiniteSet(g.conditions) /\ ListedOnce(g.conditions)
      /\ g.speed = WorthOf(g.conditions, "haste") + WorthOf(g.conditions, "paralyze")
                   + Total(GearSpeed, g.worn) + Ridden(g)
      /\ g.skill = WorthOf(g.conditions, "attributes") + Total(GearSkill, g.worn)
      /\ g.shown = IF IsInvisible(g) THEN "nothing" ELSE g.current
  BY <1>2, StartAddsUp
<1>5. PICK r : r = OnAddCondition(g, "outfit")
  OBVIOUS
<1>6. r = IF IsMounted(g) THEN Dismount(g) ELSE g
  BY <1>5 DEF OnAddCondition
<1>7. /\ r \in Bodies /\ ~IsMounted(r)
      /\ r.conditions = g.conditions /\ r.skill = g.skill /\ r.worn = g.worn
      /\ r.current = g.current /\ r.shown = g.shown /\ r.renewed = g.renewed
      /\ r.removals = g.removals
      /\ r.speed = g.speed - Ridden(g)
  <2>1. g.speed \in Int
    BY <1>3, BodyIs
  <2>2. CASE IsMounted(g)
    <3>1. g.speed - Ridden(g) = g.speed - (IF g.mount = NoMount THEN 0 ELSE MountSpeed[g.mount])
      BY <2>2 DEF Ridden
    <3> QED
      BY <1>3, <1>6, <2>1, <2>2, <3>1, Dismounted
  <2>3. CASE ~IsMounted(g)
    BY <1>3, <1>6, <2>1, <2>3 DEF Ridden
  <2> QED
    BY <2>2, <2>3
<1>8. Ridden(r) = 0
  BY <1>7 DEF Ridden
<1>9. r.speed = WorthOf(r.conditions, "haste") + WorthOf(r.conditions, "paralyze")
                + Total(GearSpeed, r.worn) + Ridden(r)
  <2>1. /\ WorthOf(g.conditions, "haste") \in Int /\ WorthOf(g.conditions, "paralyze") \in Int
        /\ Total(GearSpeed, g.worn) \in Int /\ Ridden(g) \in Nat
    BY <1>3, <1>4, NumbersAre
  <2>2. r.speed = WorthOf(g.conditions, "haste") + WorthOf(g.conditions, "paralyze")
                  + Total(GearSpeed, g.worn)
    BY ONLY <1>4, <1>7, <2>1
  <2>3. WorthOf(g.conditions, "haste") + WorthOf(g.conditions, "paralyze")
          + Total(GearSpeed, g.worn) \in Int
    BY ONLY <2>1
  <2> QED
    BY <1>7, <1>8, <2>2, <2>3
<1>10. r.shown = IF IsInvisible(r) THEN "nothing" ELSE r.current
  BY <1>4, <1>7 DEF IsInvisible, Listed
<1>11. \A d \in Listed(r, "outfit") : d = c
  BY <1>3, <1>7, ProperIs, BodyIs DEF Listed, Fresh
<1>12. c \in Listed(r, "outfit")
  BY <1>3, <1>7 DEF Listed
<1>13. Sound(r)
  BY <1>3, <1>4, <1>7, <1>9, <1>10, <1>11, <1>12 DEF Sound
<1> QED
  BY <1>2, <1>3, <1>5, <1>7, <1>13 DEF Besides

\* A condition is removed now, or by an event after the step.
LEMMA ConditionRemoved ==
    ASSUME NEW b, Sound(b), NEW type \in Types, NEW force \in BOOLEAN
    PROVE  LET r == RemoveCondition(b, type, force)
           IN  /\ Sound(r) /\ r.worn = b.worn
               /\ \/ /\ type = "paralyze" /\ ~force
                     /\ r.conditions = b.conditions /\ r.renewed = b.renewed
                     /\ r.removals = b.removals + IF Listed(b, type) = {} THEN 0 ELSE 1
                  \/ /\ r.conditions = b.conditions \ Listed(b, type) /\ r.removals = b.removals
                     /\ r.renewed = b.renewed \ {c.type : c \in Listed(b, type)}
<1>1. b \in Bodies /\ b.removals \in Nat
  BY BodyIs DEF Sound
<1>2. CASE type = "paralyze" /\ ~force /\ b.walks
  <2>1. PICK n \in Nat : n = b.removals + IF Listed(b, type) = {} THEN 0 ELSE 1
    BY <1>1
  <2>2. PICK r : r = [b EXCEPT !.removals = n]
    OBVIOUS
  <2>3. RemoveCondition(b, type, force) = r
    BY <1>1, <1>2, <2>1, <2>2 DEF RemoveCondition, Bodies
  <2>4. /\ r \in Bodies /\ r.conditions = b.conditions /\ r.speed = b.speed /\ r.skill = b.skill
        /\ r.worn = b.worn /\ r.default = b.default /\ r.current = b.current
        /\ r.shown = b.shown /\ r.mount = b.mount /\ r.renewed = b.renewed /\ r.removals = n
    BY <1>1, <2>2 DEF Bodies
  <2>5. Sound(r)
    BY <2>4, SoundAlike
  <2> QED
    BY <1>2, <2>1, <2>3, <2>4, <2>5
<1>3. CASE ~(type = "paralyze" /\ ~force /\ b.walks)
  <2>1. RemoveCondition(b, type, force) = EndAll(b, Listed(b, type))
    BY <1>3 DEF RemoveCondition
  <2>2. Listed(b, type) \in SUBSET b.conditions
    BY DEF Listed
  <2> QED
    BY <2>1, <2>2, AllEnded DEF Besides
<1> QED
  BY <1>2, <1>3

\* A condition of a type and an id that are not listed.
LEMMA FreshAdded ==
    ASSUME NEW b, Sound(b), NotBoth(b), NEW c \in Proper, Fresh(b, c)
    PROVE  LET r == OnAddCondition(StartCondition(b, c), c.type)
           IN  Sound(r) /\ NotBoth(r) /\ r.worn = b.worn
<1>1. b \in Bodies /\ c.type \in Types
  BY ProperIs DEF Sound
<1>2. PICK g : g = StartCondition(b, c)
  OBVIOUS
<1>3. /\ g \in Bodies /\ g.worn = b.worn /\ g.conditions = b.conditions \cup {c}
      /\ g.renewed = b.renewed /\ g.removals = b.removals /\ g.removals \in Nat
  BY <1>1, <1>2, ConditionStarted, BodyIs DEF Besides
<1>4. CASE c.type = "paralyze"
  <2>1. Sound(g)
    BY <1>2, <1>4, StartKeepsSound
  <2>2. CASE HasCondition(g, "haste")
    <3>1. PICK r : r = RemoveCondition(g, "haste", FALSE)
      OBVIOUS
    <3>2. Sound(r) /\ r.worn = g.worn /\ r.conditions = g.conditions \ Listed(g, "haste")
      BY <2>1, <3>1, ConditionRemoved DEF Types
    <3>3. ~HasCondition(r, "haste")
      BY <3>2 DEF HasCondition, Listed
    <3>4. OnAddCondition(g, c.type) = r
      BY <1>4, <2>2, <3>1 DEF OnAddCondition
    <3> QED
      BY <1>2, <1>3, <3>2, <3>3, <3>4 DEF NotBoth
  <2>3. CASE ~HasCondition(g, "haste")
    <3>1. OnAddCondition(g, c.type) = g
      BY <1>4, <2>3 DEF OnAddCondition
    <3> QED
      BY <1>2, <1>3, <2>1, <2>3, <3>1 DEF NotBoth
  <2> QED
    BY <2>2, <2>3
<1>5. CASE c.type = "haste"
  <2>1. Sound(g)
    BY <1>2, <1>5, StartKeepsSound
  <2>2. CASE HasCondition(g, "paralyze")
    <3>1. PICK r : r = RemoveCondition(g, "paralyze", FALSE)
      OBVIOUS
    <3>2. Sound(r) /\ r.worn = g.worn
      BY <2>1, <3>1, ConditionRemoved DEF Types
    <3>3. Listed(g, "paralyze") # {}
      BY <2>2 DEF HasCondition
    <3>4. r.removals > 0 \/ r.conditions = g.conditions \ Listed(g, "paralyze")
      <4>1. \/ r.removals = g.removals + IF Listed(g, "paralyze") = {} THEN 0 ELSE 1
            \/ r.conditions = g.conditions \ Listed(g, "paralyze")
        BY <2>1, <3>1, ConditionRemoved DEF Types
      <4> QED
        BY <1>3, <3>3, <4>1
    <3>5. NotBoth(r)
      BY <3>4 DEF NotBoth, HasCondition, Listed
    <3>6. OnAddCondition(g, c.type) = r
      BY <1>5, <2>2, <3>1 DEF OnAddCondition
    <3> QED
      BY <1>2, <1>3, <3>2, <3>5, <3>6
  <2>3. CASE ~HasCondition(g, "paralyze")
    <3>1. OnAddCondition(g, c.type) = g
      BY <1>5, <2>3 DEF OnAddCondition
    <3> QED
      BY <1>2, <1>3, <2>1, <2>3, <3>1 DEF NotBoth
  <2> QED
    BY <2>2, <2>3
<1>6. ASSUME NEW r, r.conditions = g.conditions, r.removals = g.removals, r.renewed = g.renewed,
             c.type \notin {"haste", "paralyze"}
      PROVE  NotBoth(r)
  <2>1. Listed(r, "haste") = Listed(b, "haste") /\ Listed(r, "paralyze") = Listed(b, "paralyze")
    BY <1>3, <1>6 DEF Listed
  <2> QED
    BY <1>3, <1>6, <2>1 DEF NotBoth, HasCondition
<1>7. CASE c.type = "outfit"
  <2>1. PICK r : r = OnAddCondition(g, "outfit")
    OBVIOUS
  <2>2. /\ Sound(r) /\ r.worn = b.worn /\ r.removals = b.removals
        /\ r.conditions = b.conditions \cup {c} /\ r.renewed = b.renewed
    BY <1>2, <1>7, <2>1, OutfitKeepsSound
  <2>3. NotBoth(r)
    BY <1>3, <1>6, <1>7, <2>2
  <2> QED
    BY <1>2, <1>7, <2>1, <2>2, <2>3
<1>8. CASE c.type \in {"attributes", "invisible"}
  <2>1. OnAddCondition(g, c.type) = g
    BY <1>8 DEF OnAddCondition
  <2>2. Sound(g) /\ NotBoth(g)
    BY <1>2, <1>6, <1>8, StartKeepsSound
  <2> QED
    BY <1>2, <1>3, <2>1, <2>2
<1> QED
  BY <1>1, <1>4, <1>5, <1>7, <1>8 DEF Types

\* A condition that takes the place of an older one of its type and id.
LEMMA ConditionRenewed ==
    ASSUME NEW b, Sound(b), NotBoth(b), NEW c \in Proper, NEW old \in b.conditions,
           old.type = c.type, old.id = c.id
    PROVE  LET r == Renew(b, old, c) IN Sound(r) /\ NotBoth(r) /\ r.worn = b.worn
<1>1. /\ b \in Bodies /\ IsFiniteSet(b.conditions) /\ ListedOnce(b.conditions)
      /\ b.conditions \in SUBSET Proper /\ c.type \in Types /\ old \in Proper
      /\ c.type # "outfit" => c.value \in Int /\ old.value \in Int
  BY BodyIs, ProperIs DEF Sound
<1>2. PICK cs : cs = (b.conditions \ {old}) \cup {c}
  OBVIOUS
<1>3. PICK more : more = IF old.left = 0 THEN {c.type} ELSE {}
  OBVIOUS
<1>4. cs \in SUBSET Proper /\ IsFiniteSet(cs) /\ more \in SUBSET Types
  <2>1. IsFiniteSet(b.conditions \ {old})
    BY <1>1, FS_Subset
  <2>2. IsFiniteSet(cs)
    BY <1>2, <2>1, FS_AddElement
  <2>3. more \in SUBSET Types
    BY <1>1, <1>3
  <2> QED
    BY <1>1, <1>2, <2>2, <2>3
<1>5. PICK taken : taken = [b EXCEPT !.conditions = cs, !.renewed = @ \cup more]
  OBVIOUS
<1>6. /\ taken \in Bodies /\ Besides(b, taken) /\ taken.conditions = cs
      /\ taken.renewed = b.renewed \cup more /\ taken.speed = b.speed /\ taken.skill = b.skill
      /\ taken.current = b.current /\ taken.shown = b.shown
  BY <1>1, <1>4, <1>5 DEF Bodies, Besides
<1>7. PICK r : r = Renew(b, old, c)
  OBVIOUS
<1>8. CASE r = b
  BY <1>7, <1>8
<1>9. CASE r # b
  <2>1. r = CASE c.type \in {"haste", "paralyze"} ->
                    [taken EXCEPT !.speed = @ + (c.value - old.value)]
              [] c.type = "attributes" -> [taken EXCEPT !.skill = @ + (c.value - old.value)]
              [] c.type = "invisible" -> taken
              [] c.type = "outfit" -> ChangeOutfit(taken, OnFoot(c.value))
    BY <1>2, <1>3, <1>5, <1>7, <1>9 DEF Renew
  <2>2. /\ r \in Bodies /\ Besides(b, r) /\ r.conditions = cs /\ r.renewed = b.renewed \cup more
        /\ r.speed = IF c.type \in {"haste", "paralyze"} THEN b.speed + (c.value - old.value)
                     ELSE b.speed
        /\ r.skill = IF c.type = "attributes" THEN b.skill + (c.value - old.value) ELSE b.skill
        /\ r.current = IF c.type = "outfit" THEN OnFoot(c.value) ELSE b.current
        /\ r.shown = IF c.type = "outfit" /\ ~IsInvisible(taken) THEN OnFoot(c.value) ELSE b.shown
    <3>1. CASE c.type \in {"haste", "paralyze"}
      <4>1. r = [taken EXCEPT !.speed = @ + (c.value - old.value)]
        BY <2>1, <3>1
      <4> QED
        BY <1>1, <1>6, <3>1, <4>1 DEF Bodies, Besides
    <3>2. CASE c.type = "attributes"
      <4>1. r = [taken EXCEPT !.skill = @ + (c.value - old.value)]
        BY <2>1, <3>2
      <4> QED
        BY <1>1, <1>6, <3>2, <4>1 DEF Bodies, Besides
    <3>3. CASE c.type = "invisible"
      <4>1. r = taken
        BY <2>1, <3>3
      <4> QED
        BY <1>6, <3>3, <4>1
    <3>4. CASE c.type = "outfit"
      <4>1. PICK o : o = OnFoot(c.value)
        OBVIOUS
      <4>2. o \in Outfit
        BY <3>4, <4>1, ProperIs DEF OnFoot, Outfit
      <4>3. r = ChangeOutfit(taken, o)
        BY <2>1, <3>4, <4>1
      <4> QED
        BY <1>6, <3>4, <4>1, <4>2, <4>3, OutfitChanged DEF Besides
    <3> QED
      BY <1>1, <3>1, <3>2, <3>3, <3>4 DEF Types
  <2>3. /\ ListedOnce(b.conditions \ {old})
        /\ \A d \in b.conditions \ {old} : ~(d.type = c.type /\ d.id = c.id)
    BY <1>1 DEF ListedOnce
  <2>4. ASSUME NEW t \in {"haste", "paralyze", "attributes"}
        PROVE  /\ ListedOnce(cs)
               /\ WorthOf(cs, t) = IF c.type = t THEN WorthOf(b.conditions, t) + (c.value - old.value)
                                   ELSE WorthOf(b.conditions, t)
    <3>1. t \in Types \ {"invisible"}
      BY DEF Types
    <3>2. b.conditions \ {old} \in SUBSET Proper
      BY <1>1
    <3>3. c.type # t => WorthOf(b.conditions \ {old}, t) = WorthOf(b.conditions, t)
      BY <1>1, <3>1, WorthRemoved
    <3>4. /\ ListedOnce(cs)
          /\ WorthOf(cs, t) = IF c.type = t THEN c.value ELSE WorthOf(b.conditions \ {old}, t)
      BY <1>2, <2>3, <3>1, <3>2, WorthAdded
    <3>5. c.type = t => WorthOf(b.conditions, t) = old.value
      BY <1>1, <3>1, WorthIs
    <3> QED
      BY <1>1, <3>3, <3>4, <3>5
  <2>5. /\ Ridden(r) = Ridden(b) /\ r.worn = b.worn /\ (IsMounted(r) <=> IsMounted(b))
        /\ r.default = b.default /\ r.removals = b.removals
    BY <2>2 DEF Besides, Ridden, IsMounted
  <2>6. /\ r.speed = WorthOf(r.conditions, "haste") + WorthOf(r.conditions, "paralyze")
                     + Total(GearSpeed, r.worn) + Ridden(r)
        /\ r.skill = WorthOf(r.conditions, "attributes") + Total(GearSkill, r.worn)
    <3>1. /\ b.speed = WorthOf(b.conditions, "haste") + WorthOf(b.conditions, "paralyze")
                       + Total(GearSpeed, b.worn) + Ridden(b)
          /\ b.skill = WorthOf(b.conditions, "attributes") + Total(GearSkill, b.worn)
      BY DEF Sound
    <3> QED
      BY <1>1, <2>2, <2>4, <2>5, <3>1, NumbersAre
  <2>7. r.shown = IF IsInvisible(r) THEN "nothing" ELSE r.current
    <3>1. b.shown = IF IsInvisible(b) THEN "nothing" ELSE b.current
      BY DEF Sound
    <3>2. (IsInvisible(r) <=> IsInvisible(b)) /\ (IsInvisible(taken) <=> IsInvisible(b))
      BY <1>2, <1>6, <2>2 DEF IsInvisible, Listed
    <3> QED
      BY <2>2, <3>1, <3>2
  <2>8. c.type # "outfit" => Listed(r, "outfit") = Listed(b, "outfit")
    BY <1>2, <2>2 DEF Listed
  <2>9. c.type = "outfit" =>
          /\ c \in Listed(r, "outfit") /\ (\A d \in Listed(r, "outfit") : d = c)
          /\ old \in Listed(b, "outfit")
    <3>1. c.type = "outfit" => \A d \in b.conditions : d.type = "outfit" => d = old
      BY <1>1, ProperIs DEF ListedOnce
    <3> QED
      BY <1>2, <2>2, <3>1 DEF Listed
  <2>10. "outfit" \notin r.renewed =>
           \A d \in Listed(r, "outfit") : d.left # 0 => r.current = OnFoot(d.value) /\ ~IsMounted(r)
    <3>1. CASE c.type = "outfit"
      <4>1. "outfit" \notin r.renewed => "outfit" \notin b.renewed /\ old.left # 0
        BY <1>3, <2>2, <3>1
      <4>2. "outfit" \notin r.renewed => ~IsMounted(b)
        BY <2>9, <3>1, <4>1 DEF Sound
      <4> QED
        BY <2>2, <2>5, <2>9, <3>1, <4>2
    <3>2. CASE c.type # "outfit"
      BY <2>2, <2>5, <2>8, <3>2 DEF Sound
    <3> QED
      BY <3>1, <3>2
  <2>11. r.renewed \cap {"outfit", "refused"} = {} /\ Listed(r, "outfit") = {}
           => r.current = r.default
    BY <2>2, <2>5, <2>8, <2>9 DEF Sound
  <2>12. Sound(r)
    BY <1>4, <2>2, <2>4, <2>6, <2>7, <2>10, <2>11 DEF Sound
  <2>13. NotBoth(r)
    <3>1. ASSUME NEW t \in {"haste", "paralyze"}, HasCondition(r, t),
                 r.renewed \cap {"haste", "paralyze"} = {}
          PROVE  HasCondition(b, t)
      <4>1. PICK d \in cs : d.type = t /\ d.left # 0
        BY <2>2, <3>1 DEF HasCondition, Listed
      <4>2. CASE d = c
        <5>1. old.left # 0
          BY <1>3, <2>2, <3>1, <4>1, <4>2
        <5> QED
          BY <4>1, <4>2, <5>1 DEF HasCondition, Listed
      <4>3. CASE d # c
        BY <1>2, <4>1, <4>3 DEF HasCondition, Listed
      <4> QED
        BY <4>2, <4>3
    <3> QED
      BY <2>2, <2>5, <3>1 DEF NotBoth
  <2> QED
    BY <1>7, <2>5, <2>12, <2>13
<1> QED
  BY <1>8, <1>9

\* Creature::addCondition, whatever comes of it.
LEMMA ConditionAdded ==
    ASSUME NEW b, Sound(b), NotBoth(b), NEW c \in Proper, NEW force \in BOOLEAN
    PROVE  LET r == AddCondition(b, c, force) IN Sound(r) /\ NotBoth(r) /\ r.worn = b.worn
<1>1. b \in Bodies
  BY DEF Sound
<1>2. PICK same : same = {d \in b.conditions : d.type = c.type /\ d.id = c.id}
  OBVIOUS
<1>3. CASE ~force /\ c.type = "haste" /\ HasCondition(b, "paralyze") /\ b.walks
  <2>1. PICK r : r = [b EXCEPT !.adds = @ \cup {c}]
    OBVIOUS
  <2>2. AddCondition(b, c, force) = r
    BY <1>3, <2>1 DEF AddCondition
  <2>3. /\ r \in Bodies /\ r.conditions = b.conditions /\ r.speed = b.speed /\ r.skill = b.skill
        /\ r.worn = b.worn /\ r.default = b.default /\ r.current = b.current
        /\ r.shown = b.shown /\ r.mount = b.mount /\ r.renewed = b.renewed
        /\ r.removals = b.removals
    BY <1>1, <2>1 DEF Bodies
  <2>4. Sound(r) /\ NotBoth(r)
    BY <2>3, SoundAlike DEF NotBoth, HasCondition, Listed
  <2> QED
    BY <2>2, <2>3, <2>4
<1>4. CASE ~(~force /\ c.type = "haste" /\ HasCondition(b, "paralyze") /\ b.walks) /\ same # {}
  <2>1. PICK old : old = CHOOSE d \in same : TRUE
    OBVIOUS
  <2>2. old \in b.conditions /\ old.type = c.type /\ old.id = c.id
    BY <1>2, <1>4, <2>1
  <2>3. AddCondition(b, c, force) = Renew(b, old, c)
    BY <1>2, <1>4, <2>1 DEF AddCondition
  <2> QED
    BY <2>2, <2>3, ConditionRenewed
<1>5. CASE ~(~force /\ c.type = "haste" /\ HasCondition(b, "paralyze") /\ b.walks) /\ same = {}
  <2>1. AddCondition(b, c, force) = OnAddCondition(StartCondition(b, c), c.type)
    BY <1>2, <1>5 DEF AddCondition
  <2>2. Fresh(b, c)
    BY <1>2, <1>5 DEF Fresh
  <2> QED
    BY <2>1, <2>2, FreshAdded
<1> QED
  BY <1>3, <1>4, <1>5

-----------------------------------------------------------------------------
\* The players that can be: sound, and not both hasted and paralysed.
Steady == {b \in Bodies : Sound(b) /\ NotBoth(b)}

\* What does not touch the conditions keeps a player steady.
LEMMA SteadyAlike ==
    ASSUME NEW b \in Steady, NEW r \in Bodies,
           r.conditions = b.conditions, r.speed = b.speed, r.skill = b.skill, r.worn = b.worn,
           r.default = b.default, r.current = b.current, r.shown = b.shown, r.mount = b.mount,
           r.renewed = b.renewed, r.removals = b.removals
    PROVE  r \in Steady
<1>1. Sound(b) /\ NotBoth(b)
  BY DEF Steady
<1>2. Sound(r)
  BY <1>1, SoundAlike
<1>3. NotBoth(r)
  BY <1>1 DEF NotBoth, HasCondition, Listed
<1> QED
  BY <1>2, <1>3 DEF Steady

\* However many conditions end.
LEMMA EndAllSteady ==
    ASSUME NEW b \in Steady, NEW cs \in SUBSET b.conditions
    PROVE  EndAll(b, cs) \in Steady /\ EndAll(b, cs).worn = b.worn
<1>1. Sound(b) /\ NotBoth(b) /\ b \in Bodies
  BY DEF Steady
<1>2. PICK r : r = EndAll(b, cs)
  OBVIOUS
<1>3. /\ Sound(r) /\ r.worn = b.worn /\ r.removals = b.removals
      /\ r.conditions = b.conditions \ cs /\ r.renewed = b.renewed \ {c.type : c \in cs}
  BY <1>1, <1>2, AllEnded DEF Besides
<1>4. r \in Bodies /\ ListedOnce(b.conditions) /\ b.conditions \in SUBSET Proper
  BY <1>1, <1>3, BodyIs DEF Sound
<1>5. ASSUME NEW t \in {"haste", "paralyze"}, HasCondition(r, t)
      PROVE  HasCondition(b, t) /\ (t \in b.renewed => t \in r.renewed)
  <2>1. PICK d \in b.conditions \ cs : d.type = t /\ d.left # 0
    BY <1>3, <1>5 DEF HasCondition, Listed
  <2>2. HasCondition(b, t)
    BY <2>1 DEF HasCondition, Listed
  <2>3. \A c \in cs : c.type # t
    BY <1>4, <2>1, ProperIs DEF ListedOnce
  <2> QED
    BY <1>3, <2>2, <2>3
<1>6. NotBoth(r)
  BY <1>1, <1>3, <1>5 DEF NotBoth
<1> QED
  BY <1>2, <1>3, <1>4, <1>6 DEF Steady

\* And whatever the step of the player delays.
LEMMA RemovedSteady ==
    ASSUME NEW b \in Steady, NEW type \in Types
    PROVE  RemoveCondition(b, type, FALSE) \in Steady
<1>1. Sound(b) /\ NotBoth(b) /\ b \in Bodies /\ b.removals \in Nat
  BY BodyIs DEF Steady
<1>2. CASE type = "paralyze" /\ b.walks
  <2>1. PICK n \in Nat : n = b.removals + IF Listed(b, type) = {} THEN 0 ELSE 1
    BY <1>1
  <2>2. PICK r : r = [b EXCEPT !.removals = n]
    OBVIOUS
  <2>3. RemoveCondition(b, type, FALSE) = r
    BY <1>1, <1>2, <2>1, <2>2 DEF RemoveCondition, Bodies
  <2>4. /\ r \in Bodies /\ r.conditions = b.conditions /\ r.speed = b.speed /\ r.skill = b.skill
        /\ r.worn = b.worn /\ r.default = b.default /\ r.current = b.current
        /\ r.shown = b.shown /\ r.mount = b.mount /\ r.renewed = b.renewed /\ r.removals = n
    BY <1>1, <2>2 DEF Bodies
  <2>5. Sound(r)
    BY <1>1, <2>4, SoundAlike
  <2>6. b.removals > 0 => r.removals > 0
    BY <1>1, <2>1, <2>4
  <2>7. NotBoth(r)
    BY <1>1, <2>4, <2>6 DEF NotBoth, HasCondition, Listed
  <2> QED
    BY <2>3, <2>4, <2>5, <2>7 DEF Steady
<1>3. CASE ~(type = "paralyze" /\ b.walks)
  <2>1. RemoveCondition(b, type, FALSE) = EndAll(b, Listed(b, type))
    BY <1>3 DEF RemoveCondition
  <2>2. Listed(b, type) \in SUBSET b.conditions
    BY DEF Listed
  <2> QED
    BY <2>1, <2>2, EndAllSteady
<1> QED
  BY <1>2, <1>3

\* Creature::addCondition.
LEMMA AddedSteady ==
    ASSUME NEW b \in Steady, NEW c \in Proper, NEW force \in BOOLEAN
    PROVE  AddCondition(b, c, force) \in Steady /\ AddCondition(b, c, force).worn = b.worn
<1>1. Sound(b) /\ NotBoth(b)
  BY DEF Steady
<1>2. PICK r : r = AddCondition(b, c, force)
  OBVIOUS
<1>3. Sound(r) /\ NotBoth(r) /\ r.worn = b.worn
  BY <1>1, <1>2, ConditionAdded
<1> QED
  BY <1>2, <1>3 DEF Steady, Sound

-----------------------------------------------------------------------------
\* A player who wears other things.
Wears(b, ws, v, k) == [b EXCEPT !.worn = ws, !.speed = b.speed + v, !.skill = b.skill + k]

\* The speed and the skill of something that is put on or taken off.
LEMMA GearSteady ==
    ASSUME NEW b \in Steady, NEW ws \in SUBSET Gear, NEW v \in Int, NEW k \in Int,
           Total(GearSpeed, ws) = Total(GearSpeed, b.worn) + v,
           Total(GearSkill, ws) = Total(GearSkill, b.worn) + k,
           NEW r, r = Wears(b, ws, v, k)
    PROVE  r \in Steady /\ r.worn = ws /\ r.conditions = b.conditions
<1>1. Sound(b) /\ NotBoth(b) /\ b \in Bodies
  BY DEF Steady
<1>2. b.speed \in Int /\ b.skill \in Int /\ ListedOnce(b.conditions)
  BY <1>1, BodyIs DEF Sound
<1>3. /\ r \in Bodies /\ r.conditions = b.conditions /\ r.speed = b.speed + v
      /\ r.skill = b.skill + k /\ r.worn = ws /\ r.default = b.default
      /\ r.current = b.current /\ r.shown = b.shown /\ r.mount = b.mount
      /\ r.renewed = b.renewed /\ r.removals = b.removals
  <2>1. PICK m, n : m = b.speed + v /\ n = b.skill + k
    OBVIOUS
  <2>2. m \in Int /\ n \in Int
    BY <1>2, <2>1
  <2>3. r = [b EXCEPT !.worn = ws, !.speed = m, !.skill = n]
    BY <2>1 DEF Wears
  <2> QED
    BY <1>1, <2>1, <2>2, <2>3 DEF Bodies
<1>4. /\ IsInvisible(r) = IsInvisible(b) /\ Listed(r, "outfit") = Listed(b, "outfit")
      /\ IsMounted(r) = IsMounted(b) /\ Ridden(r) = Ridden(b)
  BY <1>3 DEF IsInvisible, Listed, IsMounted, Ridden
<1>5. /\ WorthOf(b.conditions, "haste") \in Int /\ WorthOf(b.conditions, "paralyze") \in Int
      /\ WorthOf(b.conditions, "attributes") \in Int
      /\ Total(GearSpeed, b.worn) \in Int /\ Total(GearSkill, b.worn) \in Int
      /\ Ridden(b) \in Int
  BY <1>1, <1>2, NumbersAre
<1>6. /\ b.speed = WorthOf(b.conditions, "haste") + WorthOf(b.conditions, "paralyze")
                   + Total(GearSpeed, b.worn) + Ridden(b)
      /\ b.skill = WorthOf(b.conditions, "attributes") + Total(GearSkill, b.worn)
  BY <1>1 DEF Sound
<1>7. /\ b.speed + v = WorthOf(b.conditions, "haste") + WorthOf(b.conditions, "paralyze")
                       + (Total(GearSpeed, b.worn) + v) + Ridden(b)
      /\ b.skill + k = WorthOf(b.conditions, "attributes") + (Total(GearSkill, b.worn) + k)
  <2>1. v \in Int /\ k \in Int
    OBVIOUS
  <2> QED
    BY ONLY <1>5, <1>6, <2>1
<1>8. /\ r.speed = WorthOf(r.conditions, "haste") + WorthOf(r.conditions, "paralyze")
                   + Total(GearSpeed, r.worn) + Ridden(r)
      /\ r.skill = WorthOf(r.conditions, "attributes") + Total(GearSkill, r.worn)
  BY <1>3, <1>4, <1>7
<1>9. Sound(r)
  BY <1>1, <1>3, <1>4, <1>8 DEF Sound
<1>10. NotBoth(r)
  BY <1>1, <1>3 DEF NotBoth, HasCondition, Listed
<1> QED
  BY <1>3, <1>9, <1>10 DEF Steady

\* MoveEvent::EquipItem.
LEMMA EquipSteady ==
    ASSUME NEW b \in Steady, NEW g \in Gear \ b.worn
    PROVE  Equips(b, g) \in Steady /\ Equips(b, g).worn = b.worn \cup {g}
<1>1. b \in Bodies
  BY DEF Steady
<1>2. b.worn \in SUBSET Gear /\ b.worn \cup {g} \in SUBSET Gear /\ b.speed \in Int /\ b.skill \in Int
  BY <1>1, BodyIs
<1>3. GearSpeed[g] \in Int /\ GearSkill[g] \in Int
  BY WhatIsWorn
<1>4. /\ Total(GearSpeed, b.worn \cup {g}) = Total(GearSpeed, b.worn) + GearSpeed[g]
      /\ Total(GearSkill, b.worn \cup {g}) = Total(GearSkill, b.worn) + GearSkill[g]
  BY <1>2, WhatIsWorn, GearTotals
<1>5. PICK ws : ws = b.worn \cup {g}
  OBVIOUS
<1>6. PICK on : on = [b EXCEPT !.worn = ws, !.speed = b.speed + GearSpeed[g],
                               !.skill = b.skill + GearSkill[g]]
  OBVIOUS
<1>7. on \in Steady /\ on.worn = ws
  <2>1. PICK v, k : v = GearSpeed[g] /\ k = GearSkill[g]
    OBVIOUS
  <2>2. /\ v \in Int /\ k \in Int /\ ws \in SUBSET Gear
        /\ Total(GearSpeed, ws) = Total(GearSpeed, b.worn) + v
        /\ Total(GearSkill, ws) = Total(GearSkill, b.worn) + k
        /\ on = Wears(b, ws, v, k)
    BY <1>2, <1>3, <1>4, <1>5, <1>6, <2>1 DEF Wears
  <2> QED
    BY <2>2, GearSteady
<1>8. on = [b EXCEPT !.worn = @ \cup {g}, !.speed = @ + GearSpeed[g], !.skill = @ + GearSkill[g]]
  BY <1>1, <1>5, <1>6 DEF Bodies
<1>9. PICK c : c = [type |-> "invisible", id |-> g, value |-> 0, left |-> Forever]
  OBVIOUS
<1>10. c \in Proper
  BY <1>9, WhatIsWorn DEF Proper, Types, Forever
<1>11. Equips(b, g) = IF GearInvisible[g] THEN AddCondition(on, c, FALSE) ELSE on
  BY <1>8, <1>9 DEF Equips
<1> QED
  BY <1>5, <1>7, <1>10, <1>11, AddedSteady

-----------------------------------------------------------------------------
(***************************************************************************)
(* A login: the gear is put on, the stored conditions begin.               *)
(***************************************************************************)
Dress(b, gs) == FoldSet(LAMBDA g, x : Equips(x, g), b, gs)
Recall(b, cs) == FoldSet(LAMBDA c, x : AddCondition(x, c, FALSE), b, cs)

\* h has the body with each part of the gear, or of the conditions.
Dresses(b, gs, h) ==
    h = [s \in SUBSET gs |-> IF s = {} THEN b ELSE Equips(h[s \ {SomeOf(s)}], SomeOf(s))]
Recalls(b, cs, h) ==
    h = [s \in SUBSET cs |-> IF s = {} THEN b
                             ELSE AddCondition(h[s \ {SomeOf(s)}], SomeOf(s), FALSE)]

\* That of the gear is the fold of the code's loop.
LEMMA DressIs ==
    ASSUME NEW b, NEW gs PROVE Dress(b, gs) = (CHOOSE h : Dresses(b, gs, h))[gs]
  BY DEF Dress, FoldSet, MapThenFoldSet, Dresses, SomeOf

\* The same of the conditions.
LEMMA RecallIs ==
    ASSUME NEW b, NEW cs PROVE Recall(b, cs) = (CHOOSE h : Recalls(b, cs, h))[cs]
  BY DEF Recall, FoldSet, MapThenFoldSet, Recalls, SomeOf

\* What the stored conditions leave is steady.
LEMMA RecallSteady ==
    ASSUME NEW b \in Steady, NEW cs \in SUBSET Proper, IsFiniteSet(cs)
    PROVE  Recall(b, cs) \in Steady
<1>1. PICK e : e = [x \in cs \X Steady |-> AddCondition(x[2], x[1], FALSE)]
  OBVIOUS
<1>2. ASSUME NEW c \in cs, NEW x \in Steady PROVE AddCondition(x, c, FALSE) \in Steady
  BY AddedSteady
<1>3. e \in [cs \X Steady -> Steady]
  BY <1>1, <1>2
<1>4. PICK h \in [SUBSET cs -> Steady] : FoldsBy(e, b, cs, h)
  BY <1>3, FoldInExists
<1>5. ASSUME NEW s \in SUBSET cs, s # {}
      PROVE  e[<<SomeOf(s), h[s \ {SomeOf(s)}]>>] = AddCondition(h[s \ {SomeOf(s)}], SomeOf(s), FALSE)
  <2>1. SomeOf(s) \in cs /\ h[s \ {SomeOf(s)}] \in Steady
    BY <1>4, <1>5 DEF SomeOf
  <2> QED
    BY <1>1, <2>1
<1>6. Recalls(b, cs, h)
  <2>1. h = [s \in SUBSET cs |-> IF s = {} THEN b ELSE e[<<SomeOf(s), h[s \ {SomeOf(s)}]>>]]
    BY <1>4 DEF FoldsBy
  <2> QED
    BY <1>5, <2>1 DEF Recalls
<1>7. PICK g : g = CHOOSE k : Recalls(b, cs, k)
  OBVIOUS
<1>8. Recalls(b, cs, g) /\ Recall(b, cs) = g[cs]
  BY <1>6, <1>7, RecallIs
<1>9. \A s \in SUBSET cs :
         g[s] = IF s = {} THEN b ELSE AddCondition(g[s \ {SomeOf(s)}], SomeOf(s), FALSE)
  BY <1>8 DEF Recalls
<1>10. SUFFICES ASSUME g[cs] \notin Steady PROVE FALSE
  BY <1>8
<1> DEFINE T == {s \in SUBSET cs : g[s] \notin Steady}
<1>11. PICK s \in T : s = {} \/ (SomeOf(s) \in s /\ s \ {SomeOf(s)} \in (SUBSET cs) \ T)
  <2>1. T \in SUBSET SUBSET cs /\ cs \in T
    BY <1>10
  <2> HIDE DEF T
  <2> QED
    BY <2>1, LeastWrong
<1>12. s \in SUBSET cs /\ s # {}
  BY <1>9
<1>13. g[s \ {SomeOf(s)}] \in Steady /\ SomeOf(s) \in cs
  BY <1>11, <1>12
<1> QED
  BY <1>2, <1>9, <1>11, <1>12, <1>13

\* And so is what the gear leaves.
LEMMA DressSteady ==
    ASSUME NEW b \in Steady, b.worn = {}, NEW gs \in SUBSET Gear
    PROVE  Dress(b, gs) \in Steady
<1>1. IsFiniteSet(gs)
  BY WhatIsWorn, FS_Subset
<1>2. PICK e : e = [x \in gs \X Steady |-> Equips(x[2], x[1])]
  OBVIOUS
<1>3. PICK h : FoldsBy(e, b, gs, h)
  BY <1>1, FoldExists
<1>4. \A s \in SUBSET gs : h[s] = IF s = {} THEN b ELSE e[<<SomeOf(s), h[s \ {SomeOf(s)}]>>]
  BY <1>3 DEF FoldsBy
<1> DEFINE Right(f, s) == f[s] \in Steady /\ f[s].worn = s
<1>5. ASSUME NEW s \in SUBSET gs, NEW x \in s, NEW y \in Steady, y.worn = s \ {x}
      PROVE  /\ Equips(y, x) \in Steady /\ Equips(y, x).worn = s
             /\ e[<<x, y>>] = Equips(y, x)
  <2>1. x \in Gear \ y.worn /\ y.worn \cup {x} = s
    BY <1>5
  <2>2. Equips(y, x) \in Steady /\ Equips(y, x).worn = s
    BY <2>1, EquipSteady
  <2> QED
    BY <1>2, <2>2
<1>6. ASSUME NEW r \in SUBSET gs PROVE Right(h, r)
  <2>1. SUFFICES ASSUME ~Right(h, r) PROVE FALSE
    OBVIOUS
  <2> DEFINE T == {s \in SUBSET r : ~Right(h, s)}
  <2>2. PICK s \in T : s = {} \/ (SomeOf(s) \in s /\ s \ {SomeOf(s)} \in (SUBSET r) \ T)
    <3>1. T \in SUBSET SUBSET r /\ r \in T /\ IsFiniteSet(r)
      BY <1>1, <2>1, FS_Subset
    <3> HIDE DEF T
    <3> QED
      BY <3>1, LeastWrong
  <2>3. s \in SUBSET gs /\ s # {}
    BY <1>4
  <2>4. PICK x \in s : x = SomeOf(s)
    BY <2>2, <2>3
  <2>5. Right(h, s \ {x})
    BY <2>2, <2>3, <2>4
  <2>6. h[s] = e[<<x, h[s \ {x}]>>]
    BY <1>4, <2>3, <2>4
  <2>7. Right(h, s)
    BY <1>5, <2>3, <2>5, <2>6
  <2> QED
    BY <2>2, <2>7
<1>7. Dresses(b, gs, h)
  <2>1. h = [s \in SUBSET gs |-> IF s = {} THEN b ELSE e[<<SomeOf(s), h[s \ {SomeOf(s)}]>>]]
    BY <1>3 DEF FoldsBy
  <2>2. ASSUME NEW s \in SUBSET gs, s # {}
        PROVE  e[<<SomeOf(s), h[s \ {SomeOf(s)}]>>] = Equips(h[s \ {SomeOf(s)}], SomeOf(s))
    <3>1. SomeOf(s) \in s
      BY <2>2 DEF SomeOf
    <3>2. Right(h, s \ {SomeOf(s)})
      BY <1>6
    <3> QED
      BY <1>5, <3>1, <3>2
  <2> QED
    BY <2>1, <2>2 DEF Dresses
<1>8. PICK g : g = CHOOSE k : Dresses(b, gs, k)
  OBVIOUS
<1>9. Dresses(b, gs, g) /\ Dress(b, gs) = g[gs]
  BY <1>7, <1>8, DressIs
<1>10. \A s \in SUBSET gs : g[s] = IF s = {} THEN b ELSE Equips(g[s \ {SomeOf(s)}], SomeOf(s))
  BY <1>9 DEF Dresses
<1>11. SUFFICES ASSUME ~Right(g, gs) PROVE FALSE
  BY <1>9
<1> DEFINE W == {s \in SUBSET gs : ~Right(g, s)}
<1>12. PICK s \in W : s = {} \/ (SomeOf(s) \in s /\ s \ {SomeOf(s)} \in (SUBSET gs) \ W)
  <2>1. W \in SUBSET SUBSET gs /\ gs \in W
    BY <1>11
  <2> HIDE DEF W
  <2> QED
    BY <1>1, <2>1, LeastWrong
<1>13. s \in SUBSET gs /\ s # {}
  BY <1>10
<1>14. PICK x \in s : x = SomeOf(s)
  BY <1>12, <1>13
<1>15. Right(g, s \ {x})
  BY <1>12, <1>13, <1>14
<1>16. g[s] = Equips(g[s \ {x}], x)
  BY <1>10, <1>13, <1>14
<1>17. Right(g, s)
  <2>1. PICK y : y = g[s \ {x}]
    OBVIOUS
  <2>2. y \in Steady /\ y.worn = s \ {x}
    BY <1>15, <2>1
  <2>3. Equips(y, x) \in Steady /\ Equips(y, x).worn = s
    BY <1>5, <1>13, <1>14, <2>2
  <2>4. g[s] = Equips(y, x)
    BY <1>16, <2>1
  <2> QED
    BY <2>3, <2>4
<1> QED
  BY <1>12, <1>17

-----------------------------------------------------------------------------
(***************************************************************************)
(* Mounts, outfits and zones.                                              *)
(***************************************************************************)
\* Player::toggleMount, up and down.
LEMMA ToggledSteady ==
    ASSUME NEW b \in Steady, NEW mount \in BOOLEAN
    PROVE  LET r == ToggleMount(b, mount)
           IN  r \in Steady /\ r.worn = b.worn /\ (~mount => ~IsMounted(r))
<1>1. Sound(b) /\ NotBoth(b) /\ b \in Bodies
  BY DEF Steady
<1>2. /\ b.speed \in Int /\ b.default \in Outfit /\ b.mount \in Mounts \cup {NoMount}
      /\ ListedOnce(b.conditions)
  BY <1>1, BodyIs DEF Sound
<1>3. CASE ToggleMount(b, mount) = b /\ (~mount => ~IsMounted(b))
  BY <1>3
<1>4. CASE mount /\ ~(IsMounted(b) \/ b.pz \/ b.mount = NoMount \/ HasCondition(b, "outfit"))
  <2>1. PICK o : o = [look |-> b.default.look, mount |-> b.mount]
    OBVIOUS
  <2>2. o \in Outfit /\ o = [b.default EXCEPT !.mount = b.mount] /\ o.mount = b.mount
    BY <1>2, <2>1 DEF Outfit
  <2>3. PICK n : n = b.speed + MountSpeed[b.mount]
    OBVIOUS
  <2>4. MountSpeed[b.mount] \in Nat /\ n \in Int
    BY <1>2, <1>4, <2>3, WhatIsWorn
  <2>5. PICK up : up = [b EXCEPT !.default = o, !.speed = n]
    OBVIOUS
  <2>6. /\ up \in Bodies /\ up.conditions = b.conditions /\ up.speed = n /\ up.skill = b.skill
        /\ up.worn = b.worn /\ up.default = o /\ up.shown = b.shown /\ up.mount = b.mount
        /\ up.renewed = b.renewed /\ up.removals = b.removals
    BY <1>1, <2>2, <2>4, <2>5 DEF Bodies
  <2>7. up = [b EXCEPT !.default.mount = b.mount, !.speed = @ + MountSpeed[b.mount]]
    BY <1>1, <2>2, <2>3, <2>5 DEF Bodies
  <2>8. PICK r : r = ChangeOutfit(up, o)
    OBVIOUS
  <2>9. ToggleMount(b, mount) = r
    BY <1>4, <2>6, <2>7, <2>8 DEF ToggleMount
  <2>10. /\ r \in Bodies /\ r.conditions = b.conditions /\ r.speed = n /\ r.skill = b.skill
         /\ r.worn = b.worn /\ r.default = o /\ r.mount = b.mount /\ r.renewed = b.renewed
         /\ r.removals = b.removals /\ r.current = o
         /\ r.shown = IF IsInvisible(up) THEN b.shown ELSE o
    BY <2>2, <2>6, <2>8, OutfitChanged DEF Besides
  <2>11. Ridden(r) = MountSpeed[b.mount] /\ Ridden(b) = 0
    BY <1>4, <2>2, <2>10 DEF Ridden, IsMounted
  <2>12. r.shown = IF IsInvisible(r) THEN "nothing" ELSE r.current
    <3>1. (IsInvisible(up) <=> IsInvisible(b)) /\ (IsInvisible(r) <=> IsInvisible(b))
      BY <2>6, <2>10 DEF IsInvisible, Listed
    <3> QED
      BY <1>1, <2>10, <3>1 DEF Sound
  <2>13. \A c \in Listed(r, "outfit") : c.left = 0
    BY <1>4, <2>10 DEF HasCondition, Listed
  <2>14. r.speed = WorthOf(r.conditions, "haste") + WorthOf(r.conditions, "paralyze")
                   + Total(GearSpeed, r.worn) + Ridden(r)
    <3>1. b.speed = WorthOf(b.conditions, "haste") + WorthOf(b.conditions, "paralyze")
                    + Total(GearSpeed, b.worn) + Ridden(b)
      BY <1>1 DEF Sound
    <3>2. /\ WorthOf(b.conditions, "haste") \in Int /\ WorthOf(b.conditions, "paralyze") \in Int
          /\ Total(GearSpeed, b.worn) \in Int
      BY <1>1, <1>2, NumbersAre
    <3>3. n = WorthOf(b.conditions, "haste") + WorthOf(b.conditions, "paralyze")
              + Total(GearSpeed, b.worn) + MountSpeed[b.mount]
      BY ONLY <2>3, <2>4, <2>11, <3>1, <3>2
    <3> QED
      BY <2>10, <2>11, <3>3
  <2>15. Sound(r)
    BY <1>1, <2>10, <2>12, <2>13, <2>14 DEF Sound
  <2>16. NotBoth(r)
    BY <1>1, <2>10 DEF NotBoth, HasCondition, Listed
  <2> QED
    BY <1>4, <2>9, <2>10, <2>15, <2>16 DEF Steady
<1>5. CASE ~mount /\ IsMounted(b)
  <2>1. PICK down : down = Dismount(b)
    OBVIOUS
  <2>2. PICK o : o = OnFoot(b.default.look)
    OBVIOUS
  <2>3. /\ down \in Bodies /\ down.conditions = b.conditions /\ down.skill = b.skill
        /\ down.worn = b.worn /\ down.default = o
        /\ down.shown = b.shown /\ down.mount = b.mount /\ down.renewed = b.renewed
        /\ down.removals = b.removals /\ ~IsMounted(down) /\ o \in Outfit
        /\ down.speed = b.speed - (IF b.mount = NoMount THEN 0 ELSE MountSpeed[b.mount])
    BY <1>1, <1>2, <2>1, <2>2, Dismounted
  <2>4. PICK r : r = ChangeOutfit(down, o)
    OBVIOUS
  <2>5. ToggleMount(b, mount) = r
    BY <1>5, <2>1, <2>3, <2>4 DEF ToggleMount
  <2>6. /\ r \in Bodies /\ r.conditions = b.conditions /\ r.speed = down.speed /\ r.skill = b.skill
        /\ r.worn = b.worn /\ r.default = o /\ r.mount = b.mount /\ r.renewed = b.renewed
        /\ r.removals = b.removals /\ r.current = o
        /\ r.shown = IF IsInvisible(down) THEN b.shown ELSE o
    BY <2>3, <2>4, OutfitChanged DEF Besides
  <2>7. ~IsMounted(r) /\ Ridden(r) = 0
    BY <2>3, <2>6 DEF Ridden, IsMounted
  <2>8. r.speed = b.speed - Ridden(b)
    BY <1>5, <2>3, <2>6 DEF Ridden
  <2>9. r.shown = IF IsInvisible(r) THEN "nothing" ELSE r.current
    <3>1. (IsInvisible(down) <=> IsInvisible(b)) /\ (IsInvisible(r) <=> IsInvisible(b))
      BY <2>3, <2>6 DEF IsInvisible, Listed
    <3> QED
      BY <1>1, <2>6, <3>1 DEF Sound
  <2>10. "outfit" \notin r.renewed => \A c \in Listed(r, "outfit") : c.left = 0
    BY <1>1, <1>5, <2>6 DEF Sound, Listed
  <2>11. r.speed = WorthOf(r.conditions, "haste") + WorthOf(r.conditions, "paralyze")
                   + Total(GearSpeed, r.worn) + Ridden(r)
    <3>1. b.speed = WorthOf(b.conditions, "haste") + WorthOf(b.conditions, "paralyze")
                    + Total(GearSpeed, b.worn) + Ridden(b)
      BY <1>1 DEF Sound
    <3>2. /\ WorthOf(b.conditions, "haste") \in Int /\ WorthOf(b.conditions, "paralyze") \in Int
          /\ Total(GearSpeed, b.worn) \in Int /\ Ridden(b) \in Nat
      BY <1>1, <1>2, NumbersAre
    <3>3. r.speed = WorthOf(b.conditions, "haste") + WorthOf(b.conditions, "paralyze")
                    + Total(GearSpeed, b.worn) + 0
      BY ONLY <2>8, <3>1, <3>2
    <3> QED
      BY <2>6, <2>7, <3>3
  <2>12. Sound(r)
    BY <1>1, <2>6, <2>9, <2>10, <2>11 DEF Sound
  <2>13. NotBoth(r)
    BY <1>1, <2>6 DEF NotBoth, HasCondition, Listed
  <2> QED
    BY <2>5, <2>6, <2>7, <2>12, <2>13 DEF Steady
<1> QED
  BY <1>3, <1>4, <1>5 DEF ToggleMount

-----------------------------------------------------------------------------
\* A flag that nothing else depends on.
LEMMA FlagSteady ==
    ASSUME NEW b \in Steady, NEW f \in BOOLEAN
    PROVE  /\ [b EXCEPT !.pz = f] \in Steady /\ [b EXCEPT !.wasMounted = f] \in Steady
           /\ [b EXCEPT !.walks = f] \in Steady
<1>1. b \in Bodies
  BY DEF Steady
<1>2. PICK p, q, w : /\ p = [b EXCEPT !.pz = f] /\ q = [b EXCEPT !.wasMounted = f]
                     /\ w = [b EXCEPT !.walks = f]
  OBVIOUS
<1>3. ASSUME NEW r \in {p, q, w}
      PROVE  /\ r \in Bodies
             /\ r.conditions = b.conditions /\ r.speed = b.speed /\ r.skill = b.skill /\ r.worn = b.worn
             /\ r.default = b.default /\ r.current = b.current /\ r.shown = b.shown
             /\ r.mount = b.mount /\ r.renewed = b.renewed /\ r.removals = b.removals
  BY <1>1, <1>2, <1>3 DEF Bodies
<1>4. \A r \in {p, q, w} : r \in Steady
  BY <1>3, SteadyAlike
<1> QED
  BY <1>2, <1>4

\* Player::onChangeZone.
LEMMA ZoneSteady ==
    ASSUME NEW b \in Steady, NEW pz \in BOOLEAN PROVE ChangesZone(b, pz) \in Steady
<1>1. PICK moved : moved = [b EXCEPT !.pz = pz]
  OBVIOUS
<1>2. moved \in Steady
  BY <1>1, FlagSteady
<1>3. PICK down, up : down = ToggleMount(moved, FALSE) /\ up = ToggleMount(moved, TRUE)
  OBVIOUS
<1>4. down \in Steady /\ up \in Steady
  BY <1>2, <1>3, ToggledSteady
<1>5. [down EXCEPT !.wasMounted = TRUE] \in Steady /\ [up EXCEPT !.wasMounted = FALSE] \in Steady
  BY <1>4, FlagSteady
<1>6. ChangesZone(b, pz) \in {moved, [down EXCEPT !.wasMounted = TRUE], [up EXCEPT !.wasMounted = FALSE]}
  BY <1>1, <1>3 DEF ChangesZone
<1> QED
  BY <1>2, <1>5, <1>6

\* Player::untameMount: nobody sits on the mount that is gone.
LEMMA UntamedSteady ==
    ASSUME NEW b \in Steady PROVE [ToggleMount(b, FALSE) EXCEPT !.mount = NoMount] \in Steady
<1>1. PICK g : g = ToggleMount(b, FALSE)
  OBVIOUS
<1>2. g \in Steady /\ ~IsMounted(g)
  BY <1>1, ToggledSteady
<1>3. Sound(g) /\ NotBoth(g) /\ g \in Bodies
  BY <1>2 DEF Steady
<1>4. PICK r : r = [g EXCEPT !.mount = NoMount]
  OBVIOUS
<1>5. /\ r \in Bodies /\ r.conditions = g.conditions /\ r.speed = g.speed /\ r.skill = g.skill
      /\ r.worn = g.worn /\ r.default = g.default /\ r.current = g.current
      /\ r.shown = g.shown /\ r.renewed = g.renewed /\ r.removals = g.removals
  BY <1>3, <1>4 DEF Bodies
<1>6. ~IsMounted(r) /\ Ridden(r) = 0 /\ Ridden(g) = 0
  BY <1>2, <1>5 DEF Ridden, IsMounted
<1>7. (IsInvisible(r) <=> IsInvisible(g)) /\ Listed(r, "outfit") = Listed(g, "outfit")
  BY <1>5 DEF IsInvisible, Listed
<1>8. Sound(r)
  BY <1>2, <1>3, <1>5, <1>6, <1>7 DEF Sound
<1>9. NotBoth(r)
  BY <1>3, <1>5 DEF NotBoth, HasCondition, Listed
<1> QED
  BY <1>1, <1>4, <1>5, <1>8, <1>9 DEF Steady

-----------------------------------------------------------------------------
(***************************************************************************)
(* Game::playerChangeOutfit, in the steps of the code: the mount, then the *)
(* outfit, which may be refused.                                           *)
(***************************************************************************)
\* The mount that is taken, or none.
Takes(b, m) ==
    LET rides == [b EXCEPT !.mount = m, !.speed = @ + MountSpeed[m]
                     - (IF b.mount = NoMount THEN 0 ELSE MountSpeed[b.mount])]
    IN  IF m = NoMount THEN IF IsMounted(b) THEN Dismount(b) ELSE b
        ELSE IF IsMounted(b) THEN rides
        ELSE [b EXCEPT !.mount = m]

\* What the mount leaves to do: all but the own outfit, see OutfitsAreShown.
LEMMA TakesIs ==
    ASSUME NEW b \in Steady, NEW m \in Mounts \cup {NoMount}
    PROVE  LET r == Takes(b, m)
           IN  /\ r \in Bodies /\ r.conditions = b.conditions /\ r.skill = b.skill
               /\ r.worn = b.worn /\ r.current = b.current /\ r.shown = b.shown
               /\ r.renewed = b.renewed /\ r.removals = b.removals
               /\ r.default \in Outfit
               /\ IsMounted(b) /\ m # NoMount => IsMounted(r) /\ r.mount = m
               /\ ~(IsMounted(b) /\ m # NoMount) => ~IsMounted(r)
               /\ r.speed = WorthOf(b.conditions, "haste") + WorthOf(b.conditions, "paralyze")
                            + Total(GearSpeed, b.worn) + Ridden(r)
<1>1. Sound(b) /\ NotBoth(b) /\ b \in Bodies
  BY DEF Steady
<1>2. /\ b.speed \in Int /\ b.default \in Outfit /\ b.mount \in Mounts \cup {NoMount}
      /\ ListedOnce(b.conditions)
  BY <1>1, BodyIs DEF Sound
<1>3. PICK r : r = Takes(b, m)
  OBVIOUS
<1>4. PICK s \in Int : s = WorthOf(b.conditions, "haste") + WorthOf(b.conditions, "paralyze")
                           + Total(GearSpeed, b.worn)
  BY <1>1, <1>2, NumbersAre
<1>5. b.speed = s + Ridden(b)
  BY <1>1, <1>4 DEF Sound
<1>6. Ridden(b) \in Nat
  BY <1>1, <1>2, NumbersAre
<1>7. CASE m = NoMount /\ IsMounted(b)
  <2>1. r = Dismount(b)
    BY <1>3, <1>7 DEF Takes
  <2>2. /\ r \in Bodies /\ r.conditions = b.conditions /\ r.skill = b.skill
        /\ r.worn = b.worn /\ r.current = b.current /\ r.shown = b.shown
        /\ r.renewed = b.renewed /\ r.removals = b.removals /\ r.default \in Outfit
        /\ ~IsMounted(r)
        /\ r.speed = b.speed - (IF b.mount = NoMount THEN 0 ELSE MountSpeed[b.mount])
    BY <1>1, <1>2, <2>1, Dismounted
  <2>3. r.speed = b.speed - Ridden(b) /\ Ridden(r) = 0
    BY <1>7, <2>2 DEF Ridden
  <2>4. r.speed = s + Ridden(r)
    <3>1. s \in Int
      OBVIOUS
    <3> QED
      BY ONLY <1>5, <1>6, <2>3, <3>1
  <2> QED
    BY <1>3, <1>4, <1>7, <2>2, <2>4
<1>8. CASE m = NoMount /\ ~IsMounted(b)
  <2>1. r = b
    BY <1>3, <1>8 DEF Takes
  <2> QED
    BY <1>1, <1>2, <1>3, <1>4, <1>5, <1>8, <2>1
<1>9. CASE m # NoMount /\ IsMounted(b)
  <2>1. PICK n : n = b.speed + MountSpeed[m]
                     - (IF b.mount = NoMount THEN 0 ELSE MountSpeed[b.mount])
    OBVIOUS
  <2>2. PICK k \in Nat : k = MountSpeed[m]
    BY <1>9, WhatIsWorn
  <2>3. n = b.speed + k - Ridden(b)
    BY <1>9, <2>1, <2>2 DEF Ridden
  <2>4. n \in Int /\ n = s + k
    <3>1. s \in Int /\ k \in Nat
      OBVIOUS
    <3> QED
      BY ONLY <1>5, <1>6, <2>3, <3>1
  <2>5. r = [b EXCEPT !.mount = m, !.speed = n]
    BY <1>1, <1>3, <1>9, <2>1 DEF Takes, Bodies
  <2>6. /\ r \in Bodies /\ r.conditions = b.conditions /\ r.skill = b.skill
        /\ r.worn = b.worn /\ r.current = b.current /\ r.shown = b.shown
        /\ r.renewed = b.renewed /\ r.removals = b.removals /\ r.default = b.default
        /\ r.mount = m /\ r.speed = n
    BY <1>1, <2>4, <2>5 DEF Bodies
  <2>7. IsMounted(r) /\ Ridden(r) = k
    BY <1>9, <2>2, <2>6 DEF IsMounted, Ridden
  <2> QED
    BY <1>2, <1>3, <1>4, <1>9, <2>4, <2>6, <2>7
<1>10. CASE m # NoMount /\ ~IsMounted(b)
  <2>1. r = [b EXCEPT !.mount = m]
    BY <1>3, <1>10 DEF Takes
  <2>2. /\ r \in Bodies /\ r.conditions = b.conditions /\ r.skill = b.skill
        /\ r.worn = b.worn /\ r.current = b.current /\ r.shown = b.shown
        /\ r.renewed = b.renewed /\ r.removals = b.removals /\ r.default = b.default
        /\ r.mount = m /\ r.speed = b.speed
    BY <1>1, <2>1 DEF Bodies
  <2>3. ~IsMounted(r) /\ Ridden(r) = 0 /\ Ridden(b) = 0
    BY <1>10, <2>2 DEF IsMounted, Ridden
  <2> QED
    BY <1>2, <1>3, <1>4, <1>5, <1>10, <2>2, <2>3
<1> QED
  BY <1>7, <1>8, <1>9, <1>10

\* The outfit of a player who took the mount of it, and whether it was refused.
Asked(b, outfit) == IF IsMounted(b) THEN outfit ELSE OnFoot(outfit.look)

Dressed(b, outfit) ==
    [ChangesOutfit(Takes(b, outfit.mount), Asked(b, outfit)) EXCEPT
       !.renewed = IF outfit.look \in Worn THEN @ \ {"refused"} ELSE @ \cup {"refused"}]

\* Whatever is asked for, and taken or refused.
LEMMA DressedSteady ==
    ASSUME NEW b \in Steady, NEW outfit \in Outfit PROVE Dressed(b, outfit) \in Steady
<1>1. Sound(b) /\ NotBoth(b) /\ b \in Bodies
  BY DEF Steady
<1>2. outfit.look \in Looks /\ outfit.mount \in Mounts \cup {NoMount}
  BY DEF Outfit
<1>3. PICK next : next = Takes(b, outfit.mount)
  OBVIOUS
<1>4. /\ next \in Bodies /\ next.conditions = b.conditions /\ next.skill = b.skill
      /\ next.worn = b.worn /\ next.current = b.current /\ next.shown = b.shown
      /\ next.renewed = b.renewed /\ next.removals = b.removals
      /\ next.default \in Outfit
      /\ IsMounted(b) /\ outfit.mount # NoMount => IsMounted(next) /\ next.mount = outfit.mount
      /\ ~(IsMounted(b) /\ outfit.mount # NoMount) => ~IsMounted(next)
      /\ next.speed = WorthOf(b.conditions, "haste") + WorthOf(b.conditions, "paralyze")
                      + Total(GearSpeed, b.worn) + Ridden(next)
  BY <1>2, <1>3, TakesIs
<1>5. PICK o : o = Asked(b, outfit)
  OBVIOUS
<1>6. /\ o \in Outfit /\ o.look = outfit.look
      /\ o.mount = IF IsMounted(b) THEN outfit.mount ELSE NoMount
  BY <1>2, <1>5 DEF Asked, OnFoot, Outfit
<1>7. PICK c : c = ChangesOutfit(next, o)
  OBVIOUS
<1>8. PICK more : more = IF outfit.look \in Worn THEN b.renewed \ {"refused"}
                         ELSE b.renewed \cup {"refused"}
  OBVIOUS
<1>9. PICK r : r = [c EXCEPT !.renewed = more]
  OBVIOUS
<1>10. /\ c \in Bodies /\ c.conditions = b.conditions /\ c.skill = b.skill
       /\ c.worn = b.worn /\ c.mount = next.mount /\ c.speed = next.speed
       /\ c.renewed = b.renewed /\ c.removals = b.removals
       /\ c.default = IF outfit.look \in Worn THEN o ELSE next.default
       /\ c.current = IF outfit.look \in Worn /\ ~HasCondition(b, "outfit") THEN o ELSE b.current
       /\ c.shown = IF outfit.look \in Worn /\ ~HasCondition(b, "outfit") /\ ~IsInvisible(b)
                    THEN o ELSE b.shown
  <2>1. PICK changed : changed = [next EXCEPT !.default = o]
    OBVIOUS
  <2>2. /\ changed \in Bodies /\ changed.conditions = b.conditions /\ changed.skill = b.skill
        /\ changed.worn = b.worn /\ changed.mount = next.mount /\ changed.speed = next.speed
        /\ changed.renewed = b.renewed /\ changed.removals = b.removals /\ changed.default = o
        /\ changed.current = b.current /\ changed.shown = b.shown
    BY <1>4, <1>6, <2>1 DEF Bodies
  <2>3. HasCondition(next, "outfit") <=> HasCondition(b, "outfit")
    BY <1>4 DEF HasCondition, Listed
  <2>4. IsInvisible(changed) <=> IsInvisible(b)
    BY <2>2 DEF IsInvisible, Listed
  <2>5. c = IF outfit.look \notin Worn THEN next
            ELSE IF HasCondition(b, "outfit") THEN changed ELSE ChangeOutfit(changed, o)
    BY <1>6, <1>7, <2>1, <2>3 DEF ChangesOutfit
  <2>6. CASE outfit.look \notin Worn
    BY <1>4, <2>5, <2>6
  <2>7. CASE outfit.look \in Worn /\ HasCondition(b, "outfit")
    BY <2>2, <2>5, <2>7
  <2>8. CASE outfit.look \in Worn /\ ~HasCondition(b, "outfit")
    BY <1>6, <2>2, <2>4, <2>5, <2>8, OutfitChanged DEF Besides
  <2> QED
    BY <2>6, <2>7, <2>8
<1>11. Dressed(b, outfit) = r
  BY <1>3, <1>5, <1>7, <1>8, <1>9, <1>10 DEF Dressed, Bodies
<1>12. /\ r \in Bodies /\ r.conditions = b.conditions /\ r.skill = b.skill
       /\ r.worn = b.worn /\ r.mount = next.mount /\ r.speed = next.speed
       /\ r.renewed = more /\ r.removals = b.removals
       /\ r.default = c.default /\ r.current = c.current /\ r.shown = c.shown
  <2>1. more \in SUBSET (Types \cup {"refused"})
    BY <1>1, <1>8, BodyIs
  <2> QED
    BY <1>9, <1>10, <2>1 DEF Bodies
<1>13. IsMounted(r) <=> IsMounted(next)
  BY <1>4, <1>6, <1>10, <1>12 DEF IsMounted
<1>14. Ridden(r) = Ridden(next)
  BY <1>12, <1>13 DEF Ridden
<1>15. (IsInvisible(r) <=> IsInvisible(b)) /\ Listed(r, "outfit") = Listed(b, "outfit")
  BY <1>12 DEF IsInvisible, Listed
<1>16. r.shown = IF IsInvisible(r) THEN "nothing" ELSE r.current
  BY <1>1, <1>10, <1>12, <1>15 DEF Sound
<1>17. "outfit" \notin r.renewed =>
         \A d \in Listed(r, "outfit") : d.left # 0 => r.current = OnFoot(d.value) /\ ~IsMounted(r)
  <2>1. SUFFICES ASSUME "outfit" \notin r.renewed, NEW d \in Listed(r, "outfit"), d.left # 0
                 PROVE  r.current = OnFoot(d.value) /\ ~IsMounted(r)
    OBVIOUS
  <2>2. "outfit" \notin b.renewed
    BY <1>8, <1>12, <2>1
  <2>3. b.current = OnFoot(d.value) /\ ~IsMounted(b)
    BY <1>1, <1>15, <2>1, <2>2 DEF Sound
  <2>4. HasCondition(b, "outfit")
    BY <1>15, <2>1 DEF HasCondition
  <2> QED
    BY <1>4, <1>10, <1>12, <1>13, <2>3, <2>4
<1>18. r.renewed \cap {"outfit", "refused"} = {} /\ Listed(r, "outfit") = {} => r.current = r.default
  <2>1. SUFFICES ASSUME r.renewed \cap {"outfit", "refused"} = {}, Listed(r, "outfit") = {}
                 PROVE  r.current = r.default
    OBVIOUS
  <2>2. outfit.look \in Worn
    BY <1>8, <1>12, <2>1
  <2>3. ~HasCondition(b, "outfit")
    BY <1>15, <2>1 DEF HasCondition
  <2> QED
    BY <1>10, <1>12, <2>2, <2>3
<1>19. Sound(r)
  BY <1>1, <1>4, <1>12, <1>14, <1>16, <1>17, <1>18 DEF Sound
<1>20. NotBoth(r)
  BY <1>1, <1>8, <1>12 DEF NotBoth, HasCondition, Listed
<1> QED
  BY <1>11, <1>19, <1>20 DEF Steady, Sound

-----------------------------------------------------------------------------
(***************************************************************************)
(* Time, and what only changes how long conditions last.                   *)
(***************************************************************************)
\* f gives conditions more time or less.
Retimes(f, cs, more) ==
    /\ f \in [cs -> Proper]
    /\ \A c \in cs : /\ f[c].type = c.type /\ f[c].id = c.id /\ f[c].value = c.value
                     /\ f[c].left # 0 => c.left # 0 \/ c.type \in more

Retimed(b, f, more) ==
    [b EXCEPT !.conditions = {f[c] : c \in b.conditions}, !.renewed = @ \cup more]

\* The values stay; what is listed again after it was over is remembered.
LEMMA RetimedSteady ==
    ASSUME NEW b \in Steady, NEW f, NEW more \in SUBSET Types, Retimes(f, b.conditions, more),
           NEW r, r = Retimed(b, f, more)
    PROVE  r \in Steady
<1>1. /\ Sound(b) /\ NotBoth(b) /\ b \in Bodies /\ IsFiniteSet(b.conditions)
      /\ ListedOnce(b.conditions) /\ b.conditions \in SUBSET Proper
  BY BodyIs DEF Steady, Sound
<1>2. PICK cs : cs = {f[c] : c \in b.conditions}
  OBVIOUS
<1>3. /\ f \in [b.conditions -> Proper]
      /\ \A c \in b.conditions : /\ f[c].type = c.type /\ f[c].id = c.id /\ f[c].value = c.value
                                 /\ f[c].left # 0 => c.left # 0 \/ c.type \in more
  BY DEF Retimes
<1>4. cs \in SUBSET Proper /\ IsFiniteSet(cs)
  <2>1. f \in Surjection(b.conditions, cs)
    BY <1>2, <1>3 DEF Surjection
  <2>2. IsFiniteSet(cs)
    BY <1>1, <2>1, FS_Surjection
  <2> QED
    BY <1>2, <1>3, <2>2
<1>5. ListedOnce(cs)
  BY <1>1, <1>2, <1>3 DEF ListedOnce
<1>6. /\ r \in Bodies /\ r.conditions = cs /\ r.renewed = b.renewed \cup more
      /\ r.speed = b.speed /\ r.skill = b.skill /\ r.worn = b.worn /\ r.default = b.default
      /\ r.current = b.current /\ r.shown = b.shown /\ r.mount = b.mount
      /\ r.removals = b.removals
  BY <1>1, <1>2, <1>4 DEF Bodies, Retimed
<1>7. ASSUME NEW t \in {"haste", "paralyze", "attributes"}
      PROVE  WorthOf(cs, t) = WorthOf(b.conditions, t)
  <2>1. t \in Types \ {"invisible"}
    BY DEF Types
  <2>2. /\ \A c \in b.conditions : c.type = t => \E d \in cs : d.type = t /\ d.value = c.value
        /\ \A d \in cs : d.type = t => \E c \in b.conditions : c.type = t
    BY <1>2, <1>3
  <2> QED
    BY <1>1, <1>4, <1>5, <2>1, <2>2, WorthSame
<1>8. Ridden(r) = Ridden(b) /\ (IsMounted(r) <=> IsMounted(b))
  BY <1>6 DEF Ridden, IsMounted
<1>9. IsInvisible(r) <=> IsInvisible(b)
  BY <1>2, <1>3, <1>6 DEF IsInvisible, Listed
<1>10. "outfit" \notin r.renewed =>
         \A d \in Listed(r, "outfit") : d.left # 0 => r.current = OnFoot(d.value) /\ ~IsMounted(r)
  <2>1. SUFFICES ASSUME "outfit" \notin r.renewed, NEW d \in Listed(r, "outfit"), d.left # 0
                 PROVE  r.current = OnFoot(d.value) /\ ~IsMounted(r)
    OBVIOUS
  <2>2. PICK c \in b.conditions : d = f[c]
    BY <1>2, <1>6 DEF Listed
  <2>3. c \in Listed(b, "outfit") /\ c.left # 0 /\ c.value = d.value
    BY <1>3, <1>6, <2>1, <2>2 DEF Listed
  <2> QED
    BY <1>1, <1>6, <1>8, <2>1, <2>3 DEF Sound
<1>11. r.renewed \cap {"outfit", "refused"} = {} /\ Listed(r, "outfit") = {} => r.current = r.default
  <2>1. Listed(r, "outfit") = {} => Listed(b, "outfit") = {}
    BY <1>2, <1>3, <1>6 DEF Listed
  <2> QED
    BY <1>1, <1>6, <2>1 DEF Sound
<1>12. Sound(r)
  BY <1>1, <1>4, <1>5, <1>6, <1>7, <1>8, <1>9, <1>10, <1>11 DEF Sound
<1>13. NotBoth(r)
  <2>1. ASSUME NEW t \in {"haste", "paralyze"}, HasCondition(r, t), t \notin more
        PROVE  HasCondition(b, t)
    <3>1. PICK d \in cs : d.type = t /\ d.left # 0
      BY <1>6, <2>1 DEF HasCondition, Listed
    <3>2. PICK c \in b.conditions : d = f[c]
      BY <1>2
    <3>3. c.type = t /\ c.left # 0
      BY <1>3, <2>1, <3>1, <3>2
    <3> QED
      BY <3>3 DEF HasCondition, Listed
  <2> QED
    BY <1>1, <1>6, <2>1 DEF NotBoth
<1> QED
  BY <1>6, <1>12, <1>13 DEF Steady

\* Condition::executeCondition, of all.
LEMMA TimeSteady ==
    ASSUME NEW b \in Steady
    PROVE  [b EXCEPT !.conditions =
               {[c EXCEPT !.left = IF @ > 0 THEN @ - 1 ELSE @] : c \in b.conditions}] \in Steady
<1>1. b \in Bodies /\ b.conditions \in SUBSET Proper
  BY BodyIs DEF Steady
<1>2. PICK f : f = [c \in b.conditions |-> [c EXCEPT !.left = IF @ > 0 THEN @ - 1 ELSE @]]
  OBVIOUS
<1>3. ASSUME NEW c \in b.conditions
      PROVE  /\ f[c] \in Proper /\ f[c].type = c.type /\ f[c].id = c.id /\ f[c].value = c.value
             /\ f[c].left # 0 => c.left # 0
  <2>1. PICK n : n = IF c.left > 0 THEN c.left - 1 ELSE c.left
    OBVIOUS
  <2>2. c \in Proper /\ c.left \in Nat \cup {-1}
    BY <1>1, ProperIs
  <2>3. n \in Nat \cup {-1} /\ (n # 0 => c.left # 0)
    BY <2>1, <2>2
  <2>4. f[c] = [c EXCEPT !.left = n]
    BY <1>2, <2>1, <2>2 DEF Proper
  <2> QED
    BY <2>2, <2>3, <2>4 DEF Proper, Forever
<1>4. Retimes(f, b.conditions, {})
  BY <1>2, <1>3 DEF Retimes
<1>5. PICK r : r = Retimed(b, f, {})
  OBVIOUS
<1>6. r \in Steady
  BY <1>4, <1>5, RetimedSteady
<1>7. r = [b EXCEPT !.conditions = {f[c] : c \in b.conditions}]
  BY <1>1, <1>5 DEF Bodies, Retimed
<1>8. {f[c] : c \in b.conditions}
        = {[c EXCEPT !.left = IF @ > 0 THEN @ - 1 ELSE @] : c \in b.conditions}
  BY <1>2
<1> QED
  BY <1>6, <1>7, <1>8

\* What a player who is exhausted keeps, for as long.
LEMMA KeptSteady ==
    ASSUME NEW b \in Steady, NEW cs \in SUBSET b.conditions, NEW left \in {0, 1}
    PROVE  [b EXCEPT !.conditions = (@ \ cs) \cup {[c EXCEPT !.left = left] : c \in cs},
                     !.renewed = @ \cup {c.type : c \in {d \in cs : d.left = 0 /\ left > 0}}] \in Steady
<1>1. b \in Bodies /\ b.conditions \in SUBSET Proper
  BY BodyIs DEF Steady
<1>2. PICK f : f = [c \in b.conditions |-> IF c \in cs THEN [c EXCEPT !.left = left] ELSE c]
  OBVIOUS
<1>3. PICK more : more = {c.type : c \in {d \in cs : d.left = 0 /\ left > 0}}
  OBVIOUS
<1>4. ASSUME NEW c \in b.conditions
      PROVE  /\ f[c] \in Proper /\ f[c].type = c.type /\ f[c].id = c.id /\ f[c].value = c.value
             /\ f[c].left # 0 => c.left # 0 \/ c.type \in more
  <2>1. c \in Proper
    BY <1>1
  <2>2. CASE c \in cs
    <3>1. f[c] = [c EXCEPT !.left = left]
      BY <1>2, <2>2
    <3>2. /\ f[c] \in Proper /\ f[c].type = c.type /\ f[c].id = c.id /\ f[c].value = c.value
          /\ f[c].left = left
      BY <2>1, <3>1 DEF Proper
    <3> QED
      BY <1>3, <2>2, <3>2
  <2>3. CASE c \notin cs
    BY <1>2, <2>1, <2>3
  <2> QED
    BY <2>2, <2>3
<1>5. more \in SUBSET Types
  BY <1>1, <1>3, ProperIs
<1>6. Retimes(f, b.conditions, more)
  BY <1>2, <1>4 DEF Retimes
<1>7. PICK r : r = Retimed(b, f, more)
  OBVIOUS
<1>8. r \in Steady
  BY <1>5, <1>6, <1>7, RetimedSteady
<1>9. {f[c] : c \in b.conditions} = (b.conditions \ cs) \cup {[c EXCEPT !.left = left] : c \in cs}
  BY <1>2
<1> QED
  BY <1>3, <1>7, <1>8, <1>9 DEF Retimed

-----------------------------------------------------------------------------
\* Game::forceRemoveCondition: one event less, and no paralysis.
LEMMA ForcedSteady ==
    ASSUME NEW b \in Steady, b.removals > 0
    PROVE  RemoveCondition([b EXCEPT !.removals = @ - 1], "paralyze", TRUE) \in Steady
<1>1. Sound(b) /\ b \in Bodies /\ b.removals \in Nat
  BY BodyIs DEF Steady
<1>2. PICK n \in Nat : n = b.removals - 1
  BY <1>1
<1>3. PICK g : g = [b EXCEPT !.removals = n]
  OBVIOUS
<1>4. g = [b EXCEPT !.removals = @ - 1]
  BY <1>1, <1>2, <1>3 DEF Bodies
<1>5. /\ g \in Bodies /\ g.conditions = b.conditions /\ g.speed = b.speed /\ g.skill = b.skill
      /\ g.worn = b.worn /\ g.default = b.default /\ g.current = b.current
      /\ g.shown = b.shown /\ g.mount = b.mount /\ g.renewed = b.renewed
  BY <1>1, <1>3 DEF Bodies
<1>6. Sound(g)
  BY <1>1, <1>5, SoundAlike
<1>7. PICK r : r = EndAll(g, Listed(g, "paralyze"))
  OBVIOUS
<1>8. RemoveCondition(g, "paralyze", TRUE) = r
  BY <1>7 DEF RemoveCondition
<1>9. Listed(g, "paralyze") \in SUBSET g.conditions
  BY DEF Listed
<1>10. Sound(r) /\ r.conditions = g.conditions \ Listed(g, "paralyze")
  BY <1>6, <1>7, <1>9, AllEnded
<1>11. NotBoth(r)
  BY <1>10 DEF NotBoth, HasCondition, Listed
<1> QED
  BY <1>4, <1>8, <1>10, <1>11 DEF Steady, Sound

\* What is stored of a player.
Rows == [conditions : {cs \in SUBSET Proper : IsFiniteSet(cs)}, look : Looks,
         mount : Mounts \cup {NoMount}, worn : SUBSET Gear]

\* The object that is made from it has nothing on.
LEMMA LoadedSteady ==
    ASSUME NEW s \in Rows PROVE Loaded(s) \in Steady /\ Loaded(s).worn = {}
<1>1. PICK r : r = Loaded(s)
  OBVIOUS
<1>2. PICK o : o = OnFoot(s.look)
  OBVIOUS
<1>3. o \in Outfit /\ o.mount = NoMount
  BY <1>2 DEF OnFoot, Outfit, Rows
<1>4. r = [conditions |-> {}, speed |-> 0, skill |-> 0, worn |-> {},
           default |-> o, current |-> o, shown |-> o,
           mount |-> s.mount, pz |-> TRUE, wasMounted |-> FALSE, walks |-> FALSE,
           adds |-> {}, removals |-> 0, renewed |-> {}]
  BY <1>1, <1>2 DEF Loaded
<1>5. s.mount \in Mounts \cup {NoMount}
  BY DEF Rows
<1>6. /\ r \in Bodies /\ r.conditions = {} /\ r.speed = 0 /\ r.skill = 0 /\ r.worn = {}
      /\ r.default = o /\ r.current = o /\ r.shown = o
  BY <1>3, <1>4, <1>5 DEF Bodies
<1>7. IsFiniteSet({}) /\ ListedOnce({}) /\ \A t \in Types : WorthOf({}, t) = 0
  BY FS_EmptySet DEF ListedOnce, WorthOf
<1>8. Total(GearSpeed, {}) = 0 /\ Total(GearSkill, {}) = 0
  BY <1>7, TotalZero
<1>9. /\ ~IsMounted(r) /\ Ridden(r) = 0 /\ ~IsInvisible(r)
      /\ \A t \in Types : Listed(r, t) = {}
  BY <1>3, <1>6 DEF IsMounted, Ridden, IsInvisible, Listed
<1>10. Sound(r)
  BY <1>6, <1>7, <1>8, <1>9 DEF Sound, Types
<1>11. NotBoth(r)
  BY <1>6 DEF NotBoth, HasCondition, Listed
<1> QED
  BY <1>1, <1>6, <1>10, <1>11 DEF Steady

-----------------------------------------------------------------------------
\* What ConditionsAgree needs in every state.
ConditionInv == Body \in Steady /\ row \in Rows

\* An action that makes a steady body of the player.
LEMMA SteadyBecomes ==
    ASSUME NEW b \in Steady, BodyBecomes(b) PROVE Body' \in Steady
<1>1. b \in Bodies
  BY DEF Steady
<1>2. /\ b.conditions = conditions' /\ b.speed = varSpeed' /\ b.skill = varSkill'
      /\ b.worn = worn' /\ b.default = defaultOutfit' /\ b.current = currentOutfit'
      /\ b.shown = shownOutfit' /\ b.mount = currentMount' /\ b.pz = inPz'
      /\ b.wasMounted = wasMounted' /\ b.walks = walks' /\ b.adds = forcedAdds'
      /\ b.removals = forcedRemovals' /\ b.renewed = renewed'
  BY DEF BodyBecomes
<1>3. b = [conditions |-> conditions', speed |-> varSpeed', skill |-> varSkill', worn |-> worn',
           default |-> defaultOutfit', current |-> currentOutfit', shown |-> shownOutfit',
           mount |-> currentMount', pz |-> inPz', wasMounted |-> wasMounted', walks |-> walks',
           adds |-> forcedAdds', removals |-> forcedRemovals', renewed |-> renewed']
  BY <1>1, <1>2, BodyIs
<1>4. Body' = b
  BY <1>3 DEF Body
<1> QED
  BY <1>4

\* The fields of the player.
LEMMA BodyFields ==
    /\ Body.conditions = conditions /\ Body.speed = varSpeed /\ Body.skill = varSkill
    /\ Body.worn = worn /\ Body.default = defaultOutfit /\ Body.current = currentOutfit
    /\ Body.shown = shownOutfit /\ Body.mount = currentMount /\ Body.pz = inPz
    /\ Body.wasMounted = wasMounted /\ Body.walks = walks /\ Body.adds = forcedAdds
    /\ Body.removals = forcedRemovals /\ Body.renewed = renewed
  BY DEF Body

\* A player leaves, and is stored as they are.
LEMMA LeavesSteady ==
    ASSUME NEW b \in Steady, Leaves(b) PROVE ConditionInv'
<1>1. b \in Bodies /\ IsFiniteSet(b.conditions)
  BY DEF Steady, Sound
<1>2. PICK s : s = [conditions |-> {c \in b.conditions : IsPersistent(c)}, look |-> b.default.look,
                    mount |-> b.mount, worn |-> b.worn]
  OBVIOUS
<1>3. s \in Rows
  <2>1. IsFiniteSet({c \in b.conditions : IsPersistent(c)})
    BY <1>1, FS_Subset
  <2> QED
    BY <1>1, <1>2, <2>1, BodyIs DEF Rows, Outfit
<1>4. row' = s /\ BodyBecomes(Loaded(row'))
  BY <1>2 DEF Leaves
<1>5. PICK r : r = Loaded(s)
  OBVIOUS
<1>6. r \in Steady /\ BodyBecomes(r)
  BY <1>3, <1>4, <1>5, LoadedSteady
<1> QED
  BY <1>3, <1>4, <1>6, SteadyBecomes DEF ConditionInv

\* The first state of a player.
LEMMA ConditionInitSteady == ConditionInit => ConditionInv
<1> SUFFICES ASSUME ConditionInit PROVE ConditionInv
  OBVIOUS
<1>1. PICK look \in Worn :
        /\ defaultOutfit = OnFoot(look) /\ currentOutfit = OnFoot(look) /\ shownOutfit = OnFoot(look)
        /\ row = [conditions |-> {}, look |-> look, mount |-> NoMount, worn |-> {}]
  BY DEF ConditionInit
<1>2. row \in Rows
  BY <1>1, WhatIsWorn, FS_EmptySet DEF Rows
<1>3. Body = Loaded(row)
  BY <1>1 DEF ConditionInit, Body, Loaded
<1>4. PICK s \in Rows : s = row
  BY <1>2
<1> QED
  BY <1>2, <1>3, <1>4, LoadedSteady DEF ConditionInv

-----------------------------------------------------------------------------
\* Every step of a player.
LEMMA ConditionStep ==
    ASSUME ConditionInv, [ConditionNext]_conditionVars PROVE ConditionInv'
<1>1. PICK b \in Steady : b = Body
  BY DEF ConditionInv
<1>2. row \in Rows
  BY DEF ConditionInv
<1>3. ASSUME NEW r \in Steady, BodyBecomes(r), row' = row PROVE ConditionInv'
  BY <1>2, <1>3, SteadyBecomes DEF ConditionInv
<1>4. b \in Bodies /\ b.conditions \in SUBSET Proper /\ b.worn \in SUBSET Gear
  BY BodyIs DEF Steady
<1>5. ASSUME NEW c \in Spells, Cast(c) \/ ForceAddCondition(c) PROVE ConditionInv'
  <2>1. c \in Proper
    BY ConditionsAssumption DEF Proper, Forever
  <2>2. CASE Cast(c)
    <3>1. PICK r : r = AddCondition(b, c, FALSE)
      OBVIOUS
    <3>2. r \in Steady
      BY <2>1, <3>1, AddedSteady
    <3>3. BodyBecomes(r) /\ row' = row
      BY <1>1, <2>2, <3>1 DEF Cast
    <3> QED
      BY <1>3, <3>2, <3>3
  <2>3. CASE ForceAddCondition(c)
    <3>1. PICK g : g = [b EXCEPT !.adds = @ \ {c}]
      OBVIOUS
    <3>2. /\ g \in Bodies /\ g.conditions = b.conditions /\ g.speed = b.speed /\ g.skill = b.skill
          /\ g.worn = b.worn /\ g.default = b.default /\ g.current = b.current
          /\ g.shown = b.shown /\ g.mount = b.mount /\ g.renewed = b.renewed
          /\ g.removals = b.removals
      BY <1>4, <3>1 DEF Bodies
    <3>3. g \in Steady
      BY <3>2, SteadyAlike
    <3>4. PICK r : r = AddCondition(g, c, TRUE)
      OBVIOUS
    <3>5. r \in Steady
      BY <2>1, <3>3, <3>4, AddedSteady
    <3>6. BodyBecomes(r) /\ row' = row
      BY <1>1, <2>3, <3>1, <3>4 DEF ForceAddCondition
    <3> QED
      BY <1>3, <3>5, <3>6
  <2> QED
    BY <1>5, <2>2, <2>3
<1>6. ASSUME ForceRemoveCondition PROVE ConditionInv'
  <2>1. PICK r : r = RemoveCondition([b EXCEPT !.removals = @ - 1], "paralyze", TRUE)
    OBVIOUS
  <2>2. b.removals > 0
    BY <1>1, <1>6, BodyFields DEF ForceRemoveCondition
  <2>3. r \in Steady
    BY <2>1, <2>2, ForcedSteady
  <2>4. BodyBecomes(r) /\ row' = row
    BY <1>1, <1>6, <2>1 DEF ForceRemoveCondition
  <2> QED
    BY <1>3, <2>3, <2>4
<1>7. ASSUME TimePasses PROVE ConditionInv'
  <2>1. PICK r : r = [b EXCEPT !.conditions =
                        {[c EXCEPT !.left = IF @ > 0 THEN @ - 1 ELSE @] : c \in b.conditions}]
    OBVIOUS
  <2>2. r \in Steady
    BY <2>1, TimeSteady
  <2>3. b.conditions = conditions
    BY <1>1, BodyFields
  <2>4. /\ r.conditions = {[c EXCEPT !.left = IF @ > 0 THEN @ - 1 ELSE @] : c \in b.conditions}
        /\ r.speed = b.speed /\ r.skill = b.skill /\ r.worn = b.worn /\ r.default = b.default
        /\ r.current = b.current /\ r.shown = b.shown /\ r.mount = b.mount /\ r.pz = b.pz
        /\ r.wasMounted = b.wasMounted /\ r.walks = b.walks /\ r.adds = b.adds
        /\ r.removals = b.removals /\ r.renewed = b.renewed
    <3>1. PICK cs : cs = {[c EXCEPT !.left = IF @ > 0 THEN @ - 1 ELSE @] : c \in b.conditions}
      OBVIOUS
    <3>2. r = [b EXCEPT !.conditions = cs]
      BY <2>1, <3>1
    <3> QED
      BY <1>4, <3>1, <3>2 DEF Bodies
  <2>5. conditions' = r.conditions
    BY <1>7, <2>3, <2>4 DEF TimePasses
  <2>6. BodyBecomes(r) /\ row' = row
    BY <1>1, <1>7, <2>4, <2>5, BodyFields DEF BodyBecomes, TimePasses
  <2> QED
    BY <1>3, <2>2, <2>6
<1>8. ASSUME ExecuteConditions PROVE ConditionInv'
  <2>1. PICK over : over = {c \in b.conditions : c.left = 0}
    OBVIOUS
  <2>2. PICK r : r = EndAll(b, over)
    OBVIOUS
  <2>3. r \in Steady
    BY <2>1, <2>2, EndAllSteady
  <2>4. BodyBecomes(r) /\ row' = row
    BY <1>1, <1>8, <2>1, <2>2, BodyFields DEF ExecuteConditions
  <2> QED
    BY <1>3, <2>3, <2>4
<1>9. ASSUME Leave PROVE ConditionInv'
  BY <1>1, <1>9, LeavesSteady DEF Leave
<1>10. ASSUME NEW type \in {"paralyze", "invisible"}, NEW exhausted \in BOOLEAN, NEW left \in 0..1,
              Dispel(type, exhausted, left)
       PROVE  ConditionInv'
  <2>1. PICK cs : cs = {c \in Listed(b, type) : c.id = Spell}
    OBVIOUS
  <2>2. cs \in SUBSET b.conditions
    BY <2>1 DEF Listed
  <2>3. PICK k : k = [b EXCEPT !.conditions = (@ \ cs) \cup {[c EXCEPT !.left = left] : c \in cs},
                        !.renewed = @ \cup {c.type : c \in {d \in cs : d.left = 0 /\ left > 0}}]
    OBVIOUS
  <2>4. PICK e, m : e = EndAll(b, cs) /\ m = RemoveCondition(b, type, FALSE)
    OBVIOUS
  <2>5. k \in Steady
    <3>1. left \in {0, 1}
      OBVIOUS
    <3> QED
      BY <2>2, <2>3, <3>1, KeptSteady
  <2>6. e \in Steady /\ m \in Steady
    BY <2>2, <2>4, EndAllSteady, RemovedSteady DEF Types
  <2>7. PICK r : r = IF exhausted THEN k ELSE IF cs = {} THEN b
                     ELSE IF type = "paralyze" THEN m ELSE e
    OBVIOUS
  <2>8. BodyBecomes(r) /\ row' = row
    BY <1>1, <1>10, <2>1, <2>3, <2>4, <2>7 DEF Dispel
  <2>9. r \in Steady
    BY <2>5, <2>6, <2>7
  <2> QED
    BY <1>3, <2>8, <2>9
<1>11. ASSUME NEW g \in Gear, Equip(g) \/ DeEquip(g) PROVE ConditionInv'
  <2>1. CASE Equip(g)
    <3>1. PICK r : r = Equips(b, g)
      OBVIOUS
    <3>2. g \in Gear \ b.worn
      BY <1>1, <2>1, BodyFields DEF Equip
    <3>3. r \in Steady
      BY <3>1, <3>2, EquipSteady
    <3>4. BodyBecomes(r) /\ row' = row
      BY <1>1, <2>1, <3>1 DEF Equip
    <3> QED
      BY <1>3, <3>3, <3>4
  <2>2. CASE DeEquip(g)
    <3>1. g \in b.worn
      BY <1>1, <2>2, BodyFields DEF DeEquip
    <3>2. PICK ws : ws = b.worn \ {g}
      OBVIOUS
    <3>3. PICK v, k : v = -GearSpeed[g] /\ k = -GearSkill[g]
      OBVIOUS
    <3>4. GearSpeed[g] \in Int /\ GearSkill[g] \in Int /\ v \in Int /\ k \in Int
      BY <3>3, WhatIsWorn
    <3>5. ws \in SUBSET Gear /\ g \in Gear \ ws /\ ws \cup {g} = b.worn
      BY <1>4, <3>1, <3>2
    <3>6. /\ Total(GearSpeed, ws \cup {g}) = Total(GearSpeed, ws) + GearSpeed[g]
          /\ Total(GearSkill, ws \cup {g}) = Total(GearSkill, ws) + GearSkill[g]
          /\ Total(GearSpeed, ws) \in Int /\ Total(GearSkill, ws) \in Int
      BY <3>5, WhatIsWorn, GearTotals
    <3>7. /\ Total(GearSpeed, ws) = Total(GearSpeed, ws \cup {g}) + v
          /\ Total(GearSkill, ws) = Total(GearSkill, ws \cup {g}) + k
      BY ONLY <3>3, <3>4, <3>6
    <3>8. /\ Total(GearSpeed, ws) = Total(GearSpeed, b.worn) + v
          /\ Total(GearSkill, ws) = Total(GearSkill, b.worn) + k
      BY <3>5, <3>7
    <3>9. PICK off : off = Wears(b, ws, v, k)
      OBVIOUS
    <3>10. off \in Steady /\ off.conditions = b.conditions
      BY <3>4, <3>5, <3>8, <3>9, GearSteady
    <3>11. off = [b EXCEPT !.worn = @ \ {g}, !.speed = @ - GearSpeed[g], !.skill = @ - GearSkill[g]]
      <4>1. b.speed \in Int /\ b.skill \in Int
        BY <1>4, BodyIs
      <4>2. b.speed + v = b.speed - GearSpeed[g] /\ b.skill + k = b.skill - GearSkill[g]
        BY ONLY <3>3, <3>4, <4>1
      <4> QED
        BY <1>4, <3>2, <3>9, <4>2 DEF Wears, Bodies
    <3>12. PICK cs : cs = {c \in b.conditions : c.type = "invisible" /\ c.id = g}
      OBVIOUS
    <3>13. PICK r : r = EndAll(off, cs)
      OBVIOUS
    <3>14. r \in Steady
      BY <3>10, <3>12, <3>13, EndAllSteady
    <3>15. BodyBecomes(r) /\ row' = row
      BY <1>1, <2>2, <3>11, <3>12, <3>13, BodyFields DEF DeEquip
    <3> QED
      BY <1>3, <3>14, <3>15
  <2> QED
    BY <1>11, <2>1, <2>2
<1>12. ASSUME NEW m \in Mounts, UntameMount(m) PROVE ConditionInv'
  <2>1. PICK r : r = [ToggleMount(b, FALSE) EXCEPT !.mount = NoMount]
    OBVIOUS
  <2>2. r \in Steady
    BY <2>1, UntamedSteady
  <2>3. BodyBecomes(r) /\ row' = row
    BY <1>1, <1>12, <2>1 DEF UntameMount
  <2> QED
    BY <1>3, <2>2, <2>3
<1>13. ASSUME NEW look \in Looks, NEW m \in Mounts \cup {NoMount},
              PlayerChangeOutfit([look |-> look, mount |-> m])
       PROVE  ConditionInv'
  <2>1. PICK o : o = [look |-> look, mount |-> m]
    OBVIOUS
  <2>2. o \in Outfit
    BY <2>1 DEF Outfit
  <2>3. PICK r : r = Dressed(b, o)
    OBVIOUS
  <2>4. r \in Steady
    BY <2>2, <2>3, DressedSteady
  <2>5. BodyBecomes(r) /\ row' = row
    BY <1>1, <1>13, <2>1, <2>3, BodyFields DEF PlayerChangeOutfit, Dressed, Takes, Asked
  <2> QED
    BY <1>3, <2>4, <2>5
<1>14. ASSUME NEW on \in BOOLEAN,
              Step(on) \/ PlayerToggleMount(on) \/ ChangeZone(on) \/ LoginTo(on) \/ Die(on)
       PROVE  ConditionInv'
  <2>1. CASE Step(on)
    <3>1. PICK r : r = [b EXCEPT !.walks = on]
      OBVIOUS
    <3>2. r \in Steady /\ BodyBecomes(r) /\ row' = row
      BY <1>1, <2>1, <3>1, FlagSteady DEF Step
    <3> QED
      BY <1>3, <3>2
  <2>2. CASE PlayerToggleMount(on)
    <3>1. PICK r : r = ToggleMount(b, on)
      OBVIOUS
    <3>2. r \in Steady /\ BodyBecomes(r) /\ row' = row
      BY <1>1, <2>2, <3>1, ToggledSteady DEF PlayerToggleMount
    <3> QED
      BY <1>3, <3>2
  <2>3. CASE ChangeZone(on)
    <3>1. PICK r : r = ChangesZone(b, on)
      OBVIOUS
    <3>2. r \in Steady /\ BodyBecomes(r) /\ row' = row
      BY <1>1, <2>3, <3>1, ZoneSteady DEF ChangeZone
    <3> QED
      BY <1>3, <3>2
  <2>4. CASE LoginTo(on)
    <3>1. PICK s \in Rows : s = row
      BY <1>2
    <3>2. PICK l : l = Loaded(s)
      OBVIOUS
    <3>3. PICK z : z = [l EXCEPT !.pz = on]
      OBVIOUS
    <3>4. l \in Steady /\ l.worn = {}
      BY <3>2, LoadedSteady
    <3>5. z \in Steady /\ z.worn = {}
      BY <3>3, <3>4, FlagSteady DEF Steady, Bodies
    <3>6. s.worn \in SUBSET Gear /\ s.conditions \in SUBSET Proper /\ IsFiniteSet(s.conditions)
      BY DEF Rows
    <3>7. PICK d : d = Dress(z, s.worn)
      OBVIOUS
    <3>8. PICK r : r = Recall(d, s.conditions)
      OBVIOUS
    <3>9. d \in Steady
      BY <3>5, <3>6, <3>7, DressSteady
    <3>10. r \in Steady
      BY <3>6, <3>8, <3>9, RecallSteady
    <3>11. BodyBecomes(r)
      BY <2>4, <3>1, <3>2, <3>3, <3>7, <3>8 DEF LoginTo, Dress, Recall
    <3>12. row' = [s EXCEPT !.conditions = {}, !.worn = {}]
      BY <2>4, <3>1 DEF LoginTo
    <3>13. row' \in Rows
      BY <3>12, FS_EmptySet DEF Rows
    <3> QED
      BY <3>10, <3>11, <3>13, SteadyBecomes DEF ConditionInv
  <2>5. CASE Die(on)
    <3>1. PICK cs : cs = {c \in b.conditions : IsPersistent(c)}
      OBVIOUS
    <3>2. PICK dead : dead = EndAll(b, cs)
      OBVIOUS
    <3>3. dead \in Steady
      BY <3>1, <3>2, EndAllSteady
    <3>4. PICK r : r = ChangesZone(dead, TRUE)
      OBVIOUS
    <3>5. r \in Steady
      BY <3>3, <3>4, ZoneSteady
    <3>6. IF on THEN BodyBecomes(r) /\ row' = row ELSE Leaves(dead)
      BY <1>1, <2>5, <3>1, <3>2, <3>4, BodyFields DEF Die
    <3> QED
      BY <1>3, <3>3, <3>5, <3>6, LeavesSteady
  <2> QED
    BY <1>14, <2>1, <2>2, <2>3, <2>4, <2>5
<1>15. CASE UNCHANGED conditionVars
  BY <1>15 DEF ConditionInv, conditionVars, Body
<1>16. CASE ConditionNext
  BY <1>5, <1>6, <1>7, <1>8, <1>9, <1>10, <1>11, <1>12, <1>13, <1>14, <1>16 DEF ConditionNext
<1> QED
  BY <1>15, <1>16

-----------------------------------------------------------------------------
\* The conditions of one type bring together what one of them does.
LEMMA TypeTotal ==
    ASSUME NEW cs \in SUBSET Proper, IsFiniteSet(cs), ListedOnce(cs),
           NEW w, w = [c \in cs |-> c.value], NEW t \in Types \ {"invisible", "outfit"}
    PROVE  Total(w, {c \in cs : c.type = t}) = WorthOf(cs, t) /\ WorthOf(cs, t) \in Int
<1>1. WorthOf(cs, t) \in Int
  BY WorthIs
<1>2. PICK S : S = {c \in cs : c.type = t}
  OBVIOUS
<1>3. CASE S = {}
  <2>1. IsFiniteSet({})
    BY FS_EmptySet
  <2>2. Total(w, S) = 0
    BY <1>3, <2>1, TotalZero
  <2>3. WorthOf(cs, t) = 0
    BY <1>2, <1>3, WorthIs
  <2> QED
    BY <1>1, <1>2, <2>2, <2>3
<1>4. CASE S # {}
  <2>1. PICK c \in cs : c.type = t
    BY <1>2, <1>4
  <2>2. S = {} \cup {c}
    BY <1>2, <2>1, ProperIs DEF ListedOnce
  <2>3. WorthOf(cs, t) = c.value /\ w[c] = c.value /\ c.value \in Int
    BY <1>1, <2>1, WorthIs
  <2>4. IsFiniteSet({}) /\ c \notin {} /\ AllIntegers(w, {} \cup {c})
    BY <2>3, FS_EmptySet DEF AllIntegers
  <2>5. Total(w, {} \cup {c}) = Total(w, {}) + w[c]
    BY <2>4, TotalGrown
  <2>6. Total(w, {}) = 0
    BY <2>4, TotalZero
  <2>7. Total(w, {} \cup {c}) = c.value
    BY <2>3, <2>5, <2>6
  <2>8. Total(w, S) = c.value
    BY <2>2, <2>7
  <2> QED
    BY <1>1, <1>2, <2>3, <2>8
<1> QED
  BY <1>3, <1>4

\* Those of the two that change the speed.
LEMMA SpeedTotal ==
    ASSUME NEW cs \in SUBSET Proper, IsFiniteSet(cs), ListedOnce(cs),
           NEW w, w = [c \in cs |-> c.value]
    PROVE  Total(w, {c \in cs : c.type \in {"haste", "paralyze"}})
             = WorthOf(cs, "haste") + WorthOf(cs, "paralyze")
<1>1. /\ Total(w, {c \in cs : c.type = "haste"}) = WorthOf(cs, "haste")
      /\ WorthOf(cs, "haste") \in Int
  BY TypeTotal DEF Types
<1>2. PICK S : S = {c \in cs : c.type = "haste"}
  OBVIOUS
<1>3. CASE \A c \in cs : c.type # "paralyze"
  <2>1. {c \in cs : c.type \in {"haste", "paralyze"}} = S
    BY <1>2, <1>3
  <2>2. WorthOf(cs, "paralyze") = 0
    BY <1>3, WorthIs DEF Types
  <2> QED
    BY <1>1, <1>2, <2>1, <2>2
<1>4. CASE \E c \in cs : c.type = "paralyze"
  <2>1. PICK p \in cs : p.type = "paralyze"
    BY <1>4
  <2>2. \A c \in cs : c.type = "paralyze" => c = p
    BY <2>1, ProperIs DEF ListedOnce
  <2>3. {c \in cs : c.type \in {"haste", "paralyze"}} = S \cup {p}
    BY <1>2, <2>1, <2>2
  <2>4. IsFiniteSet(S) /\ p \notin S
    BY <1>2, <2>1, FS_Subset
  <2>5. AllIntegers(w, S \cup {p})
    BY <1>2, <2>1, ProperIs DEF AllIntegers
  <2>6. Total(w, S \cup {p}) = Total(w, S) + w[p]
    BY <2>4, <2>5, TotalGrown
  <2>7. w[p] = WorthOf(cs, "paralyze")
    BY <2>1, WorthIs DEF Types
  <2> QED
    BY <1>1, <1>2, <2>3, <2>6, <2>7
<1> QED
  BY <1>3, <1>4

\* Speed, skill and looks are what is listed, worn and ridden.
LEMMA SteadyAgrees == ConditionInv => ConditionsAgree
<1> SUFFICES ASSUME ConditionInv PROVE ConditionsAgree
  OBVIOUS
<1>1. PICK b \in Steady : b = Body
  BY DEF ConditionInv
<1>2. /\ Sound(b) /\ NotBoth(b) /\ b \in Bodies /\ IsFiniteSet(b.conditions)
      /\ ListedOnce(b.conditions) /\ b.conditions \in SUBSET Proper
  BY BodyIs DEF Steady, Sound
<1>3. /\ b.conditions = conditions /\ b.speed = varSpeed /\ b.skill = varSkill /\ b.worn = worn
      /\ b.default = defaultOutfit /\ b.current = currentOutfit /\ b.shown = shownOutfit
      /\ b.mount = currentMount /\ b.removals = forcedRemovals /\ b.renewed = renewed
  BY <1>1, BodyFields
<1>4. PICK w : w = [c \in conditions |-> c.value]
  OBVIOUS
<1>5. /\ ValuesOf({"haste", "paralyze"})
           = Total(w, {c \in conditions : c.type \in {"haste", "paralyze"}})
      /\ ValuesOf({"attributes"}) = Total(w, {c \in conditions : c.type \in {"attributes"}})
      /\ Summed(GearSpeed, worn) = Total(GearSpeed, worn)
      /\ Summed(GearSkill, worn) = Total(GearSkill, worn)
  BY <1>4 DEF ValuesOf, Summed, Total
<1>6. {c \in conditions : c.type \in {"attributes"}} = {c \in conditions : c.type = "attributes"}
  OBVIOUS
<1>7. /\ ValuesOf({"haste", "paralyze"}) = WorthOf(conditions, "haste") + WorthOf(conditions, "paralyze")
      /\ ValuesOf({"attributes"}) = WorthOf(conditions, "attributes")
  BY <1>2, <1>3, <1>4, <1>5, <1>6, SpeedTotal, TypeTotal DEF Types
<1>8. Ridden(b) = IF IsMounted(Body) /\ currentMount # NoMount THEN MountSpeed[currentMount] ELSE 0
  BY <1>1, <1>3 DEF Ridden
<1>9. NothingIsLeftBehind
  BY <1>2, <1>3, <1>5, <1>7, <1>8 DEF NothingIsLeftBehind, Sound
<1>10. OutfitsAreShown
  BY <1>1, <1>2, <1>3 DEF OutfitsAreShown, Sound
<1>11. OneOfTwo
  BY <1>1, <1>2, <1>3 DEF OneOfTwo, NotBoth
<1> QED
  BY <1>9, <1>10, <1>11 DEF ConditionsAgree

\* Whatever conditions, gear, outfits and mounts follow one another, and however
\* often the player logs in and out: speed and skill are those of what is listed,
\* worn and ridden, others see the outfit that is due, and nobody is hasted and
\* paralysed at once.
THEOREM ConditionsStayAgreed == ConditionSpec => []ConditionsAgree
<1>1. ConditionInit => ConditionInv
  BY ConditionInitSteady
<1>2. ConditionInv /\ [ConditionNext]_conditionVars => ConditionInv'
  BY ConditionStep
<1>3. ConditionInv => ConditionsAgree
  BY SteadyAgrees
<1> QED
  BY <1>1, <1>2, <1>3, PTL DEF ConditionSpec

=============================================================================
