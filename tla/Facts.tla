-------------------------------- MODULE Facts --------------------------------
(***************************************************************************)
(* Facts about numbers and lists that the proofs of several components     *)
(* need: the least element of a set, lists without duplicates, sums and    *)
(* other folds over a finite set, what is chosen of a list, and lists that *)
(* differ by one thing.                                                    *)
(***************************************************************************)
EXTENDS Lists, SequencesExt, FiniteSetsExt, Folds,
        FiniteSetTheorems, SequenceTheorems, WellFoundedInduction, TLAPS

\* Every non-empty set of natural numbers has a least element.
LEMMA LeastElement ==
    ASSUME NEW S \in SUBSET Nat, S # {}
    PROVE  \E i \in S : \A j \in S : i <= j
<1> DEFINE T == {S \cap (0..k) : k \in S}
           R == StrictSubsetOrdering(Nat)
<1>1. T \subseteq FiniteSubsetsOf(Nat)
  <2> SUFFICES ASSUME NEW k \in S
               PROVE  S \cap (0..k) \in FiniteSubsetsOf(Nat)
    OBVIOUS
  <2>1. k \in Int /\ 0 \in Int
    OBVIOUS
  <2>2. IsFiniteSet(0..k)
    BY <2>1, FS_Interval
  <2>3. IsFiniteSet(S \cap (0..k))
    BY <2>2, FS_Subset
  <2> QED
    BY <2>3 DEF FiniteSubsetsOf
<1>2. T # {}
  OBVIOUS
<1>3. IsWellFoundedOn(R, FiniteSubsetsOf(Nat))
  BY FS_StrictSubsetOrderingWellFounded
<1>4. PICK t \in T : \A u \in T : ~(<<u, t>> \in R)
  <2> HIDE DEF T, R
  <2> QED BY <1>1, <1>2, <1>3, WFMin
<1>5. PICK i \in S : t = S \cap (0..i)
  OBVIOUS
<1>6. ASSUME NEW j \in S, j < i
      PROVE  FALSE
  <2>1. S \cap (0..j) \in T
    OBVIOUS
  <2>2. S \cap (0..j) \subseteq t /\ i \in t /\ i \notin S \cap (0..j)
    BY <1>5, <1>6
  <2>3. <<S \cap (0..j), t>> \in R
    BY <2>2, <1>5 DEF StrictSubsetOrdering
  <2> QED
    BY <1>4, <2>1, <2>3
<1> QED
  BY <1>6

-----------------------------------------------------------------------------
\* t is in the list; no element is in the list twice
In(t, s) == \E i \in DOMAIN s : s[i] = t
NoDuplicate(s) == \A i, j \in DOMAIN s : s[i] = s[j] => i = j

\* A task pushed to the front of a list it was not in.
LEMMA PushFront ==
    ASSUME NEW S, NEW s \in Seq(S), NEW t \in S, NoDuplicate(s), ~In(t, s)
    PROVE  /\ <<t>> \o s \in Seq(S) /\ <<t>> \o s # <<>>
           /\ NoDuplicate(<<t>> \o s)
           /\ \A u : In(u, <<t>> \o s) <=> u = t \/ In(u, s)
<1> DEFINE r == <<t>> \o s
<1>1. r \in Seq(S) /\ Len(r) = Len(s) + 1 /\ r[1] = t
  OBVIOUS
<1>2. \A i \in 1..Len(s) : r[i + 1] = s[i]
  OBVIOUS
<1>3. \A i \in 2..Len(r) : i - 1 \in 1..Len(s) /\ r[i] = s[i - 1]
  BY <1>1, <1>2
<1> HIDE DEF r
<1>4. DOMAIN r = 1..Len(r) /\ DOMAIN s = 1..Len(s) /\ Len(s) \in Nat
  BY <1>1
<1>5. NoDuplicate(r)
  <2> SUFFICES ASSUME NEW i \in 1..Len(r), NEW j \in 1..Len(r), r[i] = r[j], i # j
               PROVE  FALSE
    BY <1>4 DEF NoDuplicate
  <2>1. CASE i = 1
    BY <2>1, <1>1, <1>3, <1>4 DEF In
  <2>2. CASE j = 1
    BY <2>2, <1>1, <1>3, <1>4 DEF In
  <2>3. CASE i # 1 /\ j # 1
    <3>1. i \in 2..Len(r) /\ j \in 2..Len(r)
      BY <2>3
    <3>2. s[i - 1] = s[j - 1] /\ i - 1 # j - 1
      BY <3>1, <1>3
    <3> QED
      BY <3>1, <3>2, <1>3, <1>4 DEF NoDuplicate
  <2> QED
    BY <2>1, <2>2, <2>3
<1>6. ASSUME NEW u
      PROVE  In(u, r) <=> u = t \/ In(u, s)
  BY <1>1, <1>2, <1>3, <1>4 DEF In
<1> QED
  BY <1>1, <1>5, <1>6 DEF r

\* The same for the back.
LEMMA PushBack ==
    ASSUME NEW S, NEW s \in Seq(S), NEW t \in S, NoDuplicate(s), ~In(t, s)
    PROVE  /\ Append(s, t) \in Seq(S) /\ Append(s, t) # <<>>
           /\ Append(s, t)[Len(Append(s, t))] = t
           /\ NoDuplicate(Append(s, t))
           /\ \A u : In(u, Append(s, t)) <=> u = t \/ In(u, s)
<1> DEFINE r == Append(s, t)
<1>1. r \in Seq(S) /\ Len(r) = Len(s) + 1 /\ r[Len(s) + 1] = t
  OBVIOUS
<1>2. \A i \in 1..Len(s) : r[i] = s[i]
  OBVIOUS
<1> HIDE DEF r
<1>3. DOMAIN r = 1..(Len(s) + 1) /\ DOMAIN s = 1..Len(s) /\ Len(s) \in Nat
  BY <1>1
<1>4. NoDuplicate(r)
  BY <1>1, <1>2, <1>3 DEF NoDuplicate, In
<1>5. ASSUME NEW u
      PROVE  In(u, r) <=> u = t \/ In(u, s)
  BY <1>1, <1>2, <1>3 DEF In
<1>6. r # <<>>
  BY <1>1, <1>3
<1> QED
  BY <1>1, <1>4, <1>5, <1>6 DEF r

\* Without its first task a list holds all others, and ends as it did.
LEMMA TakeFront ==
    ASSUME NEW S, NEW s \in Seq(S), s # <<>>, NoDuplicate(s)
    PROVE  /\ Tail(s) \in Seq(S) /\ Head(s) \in S /\ In(Head(s), s)
           /\ NoDuplicate(Tail(s))
           /\ \A u : In(u, Tail(s)) <=> In(u, s) /\ u # Head(s)
           /\ Tail(s) # <<>> => Tail(s)[Len(Tail(s))] = s[Len(s)]
           /\ Head(s) = s[Len(s)] => Tail(s) = <<>>
<1> DEFINE r == Tail(s)
<1>1. r \in Seq(S) /\ Len(r) = Len(s) - 1 /\ Len(s) \in Nat \ {0}
  OBVIOUS
<1>2. Head(s) = s[1] /\ s[1] \in S
  OBVIOUS
<1>3. \A i \in 1..Len(r) : r[i] = s[i + 1]
  OBVIOUS
<1>e. Len(r) = 0 => r = <<>>
  BY <1>1, EmptySeq
<1> HIDE DEF r
<1>4. DOMAIN r = 1..Len(r) /\ DOMAIN s = 1..Len(s) /\ Len(r) \in Nat
  BY <1>1
<1>5. NoDuplicate(r)
  <2> SUFFICES ASSUME NEW i \in 1..Len(r), NEW j \in 1..Len(r), r[i] = r[j]
               PROVE  i = j
    BY <1>4 DEF NoDuplicate
  <2>1. s[i + 1] = s[j + 1] /\ i + 1 \in 1..Len(s) /\ j + 1 \in 1..Len(s)
    BY <1>1, <1>3
  <2>2. i + 1 = j + 1
    BY <2>1, <1>4 DEF NoDuplicate
  <2> QED
    BY <2>2, <1>4
<1>6. ASSUME NEW u
      PROVE  In(u, r) <=> In(u, s) /\ u # Head(s)
  <2>1. ASSUME In(u, r) PROVE In(u, s) /\ u # Head(s)
    BY <2>1, <1>1, <1>2, <1>3, <1>4 DEF In, NoDuplicate
  <2>2. ASSUME In(u, s), u # Head(s) PROVE In(u, r)
    <3>1. PICK i \in 1..Len(s) : s[i] = u /\ i # 1
      BY <2>2, <1>2, <1>4 DEF In
    <3>2. i - 1 \in 1..Len(r) /\ r[i - 1] = u
      BY <3>1, <1>1, <1>3
    <3> QED
      BY <3>2, <1>4 DEF In
  <2> QED
    BY <2>1, <2>2
<1>7. r # <<>> => r[Len(r)] = s[Len(s)]
  <2>1. r # <<>> => Len(r) \in 1..Len(r)
    BY <1>4, <1>e
  <2> QED
    BY <2>1, <1>1, <1>3
<1>8. Head(s) = s[Len(s)] => r = <<>>
  BY <1>1, <1>2, <1>4, <1>e DEF NoDuplicate
<1>9. In(Head(s), s)
  BY <1>1, <1>2, <1>4 DEF In
<1> QED
  BY <1>1, <1>2, <1>5, <1>6, <1>7, <1>8, <1>9 DEF r

\* What a list has more of, and what it has less of.
LEMMA Prepended ==
    ASSUME NEW S, NEW s \in Seq(S), NEW t \in S
    PROVE  /\ <<t>> \o s \in Seq(S)
           /\ \A u : In(u, <<t>> \o s) <=> u = t \/ In(u, s)
<1> DEFINE r == <<t>> \o s
<1>1. r \in Seq(S) /\ Len(r) = Len(s) + 1 /\ r[1] = t /\ Len(s) \in Nat
  OBVIOUS
<1>2. \A i \in 1..Len(s) : r[i + 1] = s[i]
  OBVIOUS
<1>3. \A i \in 2..Len(r) : r[i] = s[i - 1] /\ i - 1 \in 1..Len(s)
  BY <1>1
<1>4. DOMAIN r = 1..Len(r) /\ DOMAIN s = 1..Len(s)
  BY <1>1
<1> HIDE DEF r
<1>5. ASSUME NEW u, In(u, r) PROVE u = t \/ In(u, s)
  <2>1. PICK i \in 1..Len(r) : r[i] = u
    BY <1>4, <1>5 DEF In
  <2>2. i = 1 \/ i \in 2..Len(r)
    BY <1>1
  <2> QED
    BY <1>1, <1>3, <1>4, <2>1, <2>2 DEF In
<1>6. ASSUME NEW u, u = t \/ In(u, s) PROVE In(u, r)
  <2>1. CASE u = t
    BY <1>1, <1>4, <2>1 DEF In
  <2>2. CASE In(u, s)
    <3>1. PICK i \in 1..Len(s) : s[i] = u
      BY <1>4, <2>2 DEF In
    <3>2. i + 1 \in 1..Len(r) /\ r[i + 1] = u
      BY <1>1, <1>2, <3>1
    <3> QED
      BY <1>4, <3>2 DEF In
  <2> QED
    BY <1>6, <2>1, <2>2
<1>7. r \in Seq(S) /\ \A u : In(u, r) <=> u = t \/ In(u, s)
  BY <1>1, <1>5, <1>6
<1> QED
  BY <1>7 DEF r

\* An appended one is the last.
LEMMA Appended ==
    ASSUME NEW S, NEW s \in Seq(S), NEW t \in S
    PROVE  /\ Append(s, t) \in Seq(S) /\ Len(Append(s, t)) = Len(s) + 1
           /\ Append(s, t)[Len(s) + 1] = t
           /\ \A i \in 1..Len(s) : Append(s, t)[i] = s[i]
           /\ \A u : In(u, Append(s, t)) <=> u = t \/ In(u, s)
<1> DEFINE r == Append(s, t)
<1>1. r \in Seq(S) /\ Len(r) = Len(s) + 1 /\ r[Len(s) + 1] = t /\ Len(s) \in Nat
  OBVIOUS
<1>2. \A i \in 1..Len(s) : r[i] = s[i]
  OBVIOUS
<1>3. DOMAIN r = 1..(Len(s) + 1) /\ DOMAIN s = 1..Len(s)
  BY <1>1
<1> HIDE DEF r
<1>4. \A u : In(u, r) <=> u = t \/ In(u, s)
  BY <1>1, <1>2, <1>3 DEF In
<1>5. /\ r \in Seq(S) /\ Len(r) = Len(s) + 1 /\ r[Len(s) + 1] = t
      /\ \A i \in 1..Len(s) : r[i] = s[i]
      /\ \A u : In(u, r) <=> u = t \/ In(u, s)
  BY <1>1, <1>2, <1>4
<1> QED
  BY <1>5 DEF r

\* Without its first element a list has what it had, but perhaps for that.
LEMMA Beheaded ==
    ASSUME NEW S, NEW s \in Seq(S), s # <<>>
    PROVE  /\ Tail(s) \in Seq(S) /\ Head(s) \in S /\ Head(s) = s[1] /\ In(Head(s), s)
           /\ Len(Tail(s)) = Len(s) - 1 /\ Len(s) \in Nat \ {0}
           /\ \A i \in 1..Len(Tail(s)) : Tail(s)[i] = s[i + 1]
           /\ \A u : In(u, Tail(s)) => In(u, s)
           /\ \A u : In(u, s) /\ u # Head(s) => In(u, Tail(s))
           /\ Len(s) = 1 => Tail(s) = <<>>
<1> DEFINE r == Tail(s)
<1>1. r \in Seq(S) /\ Len(r) = Len(s) - 1 /\ Len(s) \in Nat \ {0} /\ Head(s) = s[1] /\ Head(s) \in S
  OBVIOUS
<1>2. \A i \in 1..Len(r) : r[i] = s[i + 1]
  OBVIOUS
<1>3. DOMAIN r = 1..Len(r) /\ DOMAIN s = 1..Len(s)
  BY <1>1
<1>4. Len(s) = 1 => r = <<>>
  <2> HIDE DEF r
  <2> QED BY <1>1, EmptySeq
<1> HIDE DEF r
<1>5. In(Head(s), s)
  BY <1>1, <1>3 DEF In
<1>6. ASSUME NEW u, In(u, r) PROVE In(u, s)
  <2>1. PICK i \in 1..Len(r) : r[i] = u
    BY <1>3, <1>6 DEF In
  <2>2. i + 1 \in 1..Len(s) /\ s[i + 1] = u
    BY <1>1, <1>2, <2>1
  <2> QED
    BY <1>3, <2>2 DEF In
<1>7. ASSUME NEW u, In(u, s), u # Head(s) PROVE In(u, r)
  <2>1. PICK i \in 1..Len(s) : s[i] = u
    BY <1>3, <1>7 DEF In
  <2>2. i # 1
    BY <1>1, <1>7, <2>1
  <2>3. i - 1 \in 1..Len(r) /\ r[i - 1] = s[(i - 1) + 1] /\ (i - 1) + 1 = i
    BY <1>1, <1>2, <2>1, <2>2
  <2> QED
    BY <1>3, <2>1, <2>3 DEF In
<1>8. /\ r \in Seq(S) /\ Len(r) = Len(s) - 1
      /\ \A i \in 1..Len(r) : r[i] = s[i + 1]
      /\ \A u : In(u, r) => In(u, s)
      /\ \A u : In(u, s) /\ u # Head(s) => In(u, r)
      /\ Len(s) = 1 => r = <<>>
  BY <1>1, <1>2, <1>4, <1>6, <1>7
<1> QED
  BY <1>1, <1>5, <1>8 DEF r

-----------------------------------------------------------------------------
(***************************************************************************)
(* Sums.  MapThenSumSet is a recursive function of the subsets of a finite *)
(* set: there is one, and it is what it is meant to be.                    *)
(***************************************************************************)
\* Among sets of members of a finite set one has none of the others in it.
LEMMA SmallestSet ==
    ASSUME NEW S, IsFiniteSet(S), NEW T \in SUBSET SUBSET S, T # {}
    PROVE  \E s \in T : \A t \in T : t \subseteq s => t = s
<1> DEFINE R == StrictSubsetOrdering(S)
<1>1. T \subseteq FiniteSubsetsOf(S)
  BY FS_Subset DEF FiniteSubsetsOf
<1>2. IsWellFoundedOn(R, FiniteSubsetsOf(S))
  BY FS_StrictSubsetOrderingWellFounded
<1>3. PICK s \in T : \A t \in T : ~(<<t, s>> \in R)
  <2> HIDE DEF R
  <2> QED BY <1>1, <1>2, WFMin
<1>4. ASSUME NEW t \in T, t \subseteq s, t # s PROVE FALSE
  <2>1. <<t, s>> \in R
    BY <1>4 DEF StrictSubsetOrdering
  <2> QED
    BY <1>3, <2>1
<1> QED
  BY <1>4

SomeOf(s) == CHOOSE x \in s : TRUE

\* h has the sum of w over every subset of S.
Sums(w, S, h) ==
    h = [s \in SUBSET S |-> IF s = {} THEN 0 ELSE w[SomeOf(s)] + h[s \ {SomeOf(s)}]]

\* What MapThenSumSet makes of the function w.
Total(w, S) == MapThenSumSet(LAMBDA x : w[x], S)

\* It is the sum that Sums speaks of.
LEMMA TotalIs ==
    ASSUME NEW w, NEW S PROVE Total(w, S) = (CHOOSE h : Sums(w, S, h))[S]
  BY DEF Total, MapThenSumSet, MapThenFoldSet, Sums, SomeOf

\* The sums over the subsets of one set are those over the subsets of another.
LEMMA SumsAgree ==
    ASSUME NEW w, NEW S, IsFiniteSet(S), NEW U \in SUBSET S, NEW h, NEW g,
           Sums(w, S, h), Sums(w, U, g)
    PROVE  \A s \in SUBSET U : g[s] = h[s]
<1>1. /\ \A s \in SUBSET S : h[s] = IF s = {} THEN 0 ELSE w[SomeOf(s)] + h[s \ {SomeOf(s)}]
      /\ \A s \in SUBSET U : g[s] = IF s = {} THEN 0 ELSE w[SomeOf(s)] + g[s \ {SomeOf(s)}]
  BY DEF Sums
<1>2. SUFFICES ASSUME NEW t \in SUBSET U, g[t] # h[t] PROVE FALSE
  OBVIOUS
<1> DEFINE T == {s \in SUBSET U : g[s] # h[s]}
<1>3. PICK s \in T : \A u \in T : u \subseteq s => u = s
  <2>1. T \in SUBSET SUBSET S /\ T # {}
    BY <1>2
  <2> HIDE DEF T
  <2> QED
    BY <2>1, SmallestSet
<1>4. s \in SUBSET U /\ s \in SUBSET S /\ s # {}
  BY <1>1
<1>5. SomeOf(s) \in s
  BY <1>4 DEF SomeOf
<1>6. g[s \ {SomeOf(s)}] = h[s \ {SomeOf(s)}]
  BY <1>3, <1>4, <1>5
<1> QED
  BY <1>1, <1>3, <1>4, <1>6

\* There are sums over every finite set.
LEMMA SumsExist ==
    ASSUME NEW w, NEW S, IsFiniteSet(S) PROVE \E h : Sums(w, S, h)
<1>1. SUFFICES ASSUME ~\E h : Sums(w, S, h) PROVE FALSE
  OBVIOUS
<1> DEFINE T == {s \in SUBSET S : ~\E h : Sums(w, s, h)}
<1>2. PICK s \in T : \A u \in T : u \subseteq s => u = s
  <2>1. T \in SUBSET SUBSET S /\ T # {}
    BY <1>1
  <2> HIDE DEF T
  <2> QED
    BY <2>1, SmallestSet
<1> DEFINE G(u) == CHOOSE h : Sums(w, u, h)
<1>3. ASSUME NEW u \in SUBSET s, u # s PROVE Sums(w, u, G(u))
  <2>1. u \notin T
    BY <1>2, <1>3
  <2>2. \E h : Sums(w, u, h)
    BY <1>2, <2>1
  <2> QED
    BY <2>2
<1>4. ASSUME NEW u \in SUBSET s, u # s, NEW t \in SUBSET u PROVE G(u)[t] = G(t)[t]
  <2>1. IsFiniteSet(u)
    BY FS_Subset, <1>2
  <2>2. Sums(w, u, G(u)) /\ Sums(w, t, G(t))
    BY <1>3, <1>4
  <2> HIDE DEF G
  <2> QED
    BY <2>1, <2>2, SumsAgree
<1>5. ASSUME NEW u \in SUBSET s, u # s
      PROVE  G(u)[u] = IF u = {} THEN 0 ELSE w[SomeOf(u)] + G(u)[u \ {SomeOf(u)}]
  <2>1. Sums(w, u, G(u))
    BY <1>3, <1>5
  <2> HIDE DEF G
  <2> QED
    BY <2>1 DEF Sums
<1> HIDE DEF G
<1>6. PICK H : H = [u \in SUBSET s |-> IF u = {} THEN 0
                                       ELSE w[SomeOf(u)] + G(u \ {SomeOf(u)})[u \ {SomeOf(u)}]]
  OBVIOUS
<1>7. ASSUME NEW u \in SUBSET s, u # s PROVE H[u] = G(u)[u]
  <2>1. u # {} => G(u)[u \ {SomeOf(u)}] = G(u \ {SomeOf(u)})[u \ {SomeOf(u)}]
    BY <1>4, <1>7
  <2> QED
    BY <1>5, <1>6, <1>7, <2>1
<1>8. ASSUME NEW u \in SUBSET s, u # {}
      PROVE  G(u \ {SomeOf(u)})[u \ {SomeOf(u)}] = H[u \ {SomeOf(u)}]
  <2>1. SomeOf(u) \in u
    BY <1>8 DEF SomeOf
  <2>2. u \ {SomeOf(u)} \in SUBSET s /\ u \ {SomeOf(u)} # s
    BY <2>1
  <2> QED
    BY <1>7, <2>2
<1>9. Sums(w, s, H)
  BY <1>6, <1>8 DEF Sums
<1> QED
  BY <1>2, <1>9

\* h has them and the total.
TotalsTo(w, S, h) ==
    /\ Total(w, S) = h[S]
    /\ \A s \in SUBSET S : h[s] = IF s = {} THEN 0 ELSE w[SomeOf(s)] + h[s \ {SomeOf(s)}]

\* What the sum over any subset is.
LEMMA TotalBy ==
    ASSUME NEW w, NEW S, IsFiniteSet(S)
    PROVE  \E h : TotalsTo(w, S, h)
<1>1. PICK h : h = CHOOSE f : Sums(w, S, f)
  OBVIOUS
<1>2. Sums(w, S, h)
  BY <1>1, SumsExist
<1>3. Total(w, S) = h[S]
  BY <1>1, TotalIs
<1> QED
  BY <1>2, <1>3 DEF Sums, TotalsTo

\* A sum of natural numbers is one.
LEMMA TotalNat ==
    ASSUME NEW S, IsFiniteSet(S), NEW w \in [S -> Nat] PROVE Total(w, S) \in Nat
<1>1. PICK h : /\ Total(w, S) = h[S]
               /\ \A s \in SUBSET S :
                     h[s] = IF s = {} THEN 0 ELSE w[SomeOf(s)] + h[s \ {SomeOf(s)}]
  <2>1. \E f : TotalsTo(w, S, f)
    BY TotalBy
  <2> QED
    BY <2>1 DEF TotalsTo
<1>2. SUFFICES ASSUME h[S] \notin Nat PROVE FALSE
  BY <1>1
<1> DEFINE T == {s \in SUBSET S : h[s] \notin Nat}
<1>3. PICK s \in T : \A u \in T : u \subseteq s => u = s
  <2>1. T \in SUBSET SUBSET S /\ T # {}
    BY <1>2
  <2> HIDE DEF T
  <2> QED
    BY <2>1, SmallestSet
<1>4. s # {} /\ SomeOf(s) \in s
  BY <1>1, <1>3 DEF SomeOf
<1>5. h[s \ {SomeOf(s)}] \in Nat
  BY <1>3, <1>4
<1>6. w[SomeOf(s)] \in Nat
  BY <1>4
<1> QED
  BY <1>1, <1>3, <1>4, <1>5, <1>6

\* When one term changes the sum does, by as much.
LEMMA TotalChanged ==
    ASSUME NEW S, IsFiniteSet(S), NEW w \in [S -> Nat], NEW u \in [S -> Nat],
           NEW v \in S, \A x \in S \ {v} : u[x] = w[x]
    PROVE  Total(u, S) = Total(w, S) - w[v] + u[v]
<1>1. PICK h : /\ Total(w, S) = h[S]
               /\ \A s \in SUBSET S :
                     h[s] = IF s = {} THEN 0 ELSE w[SomeOf(s)] + h[s \ {SomeOf(s)}]
  <2>1. \E f : TotalsTo(w, S, f)
    BY TotalBy
  <2> QED
    BY <2>1 DEF TotalsTo
<1>2. PICK g : /\ Total(u, S) = g[S]
               /\ \A s \in SUBSET S :
                     g[s] = IF s = {} THEN 0 ELSE u[SomeOf(s)] + g[s \ {SomeOf(s)}]
  <2>1. \E f : TotalsTo(u, S, f)
    BY TotalBy
  <2> QED
    BY <2>1 DEF TotalsTo
<1> DEFINE Right(s) == /\ h[s] \in Int /\ g[s] \in Int
                       /\ g[s] = IF v \in s THEN h[s] - w[v] + u[v] ELSE h[s]
<1>3. SUFFICES ASSUME ~Right(S) PROVE FALSE
  BY <1>1, <1>2
<1> DEFINE T == {s \in SUBSET S : ~Right(s)}
<1>4. PICK s \in T : \A t \in T : t \subseteq s => t = s
  <2>1. T \in SUBSET SUBSET S /\ T # {}
    BY <1>3
  <2> HIDE DEF T
  <2> QED
    BY <2>1, SmallestSet
<1>5. s \in SUBSET S /\ s # {}
  <2>1. {} \in SUBSET S /\ h[{}] = 0 /\ g[{}] = 0
    BY <1>1, <1>2
  <2>2. Right({})
    BY <2>1
  <2> QED
    BY <1>4, <2>2
<1>6. PICK x \in s : x = SomeOf(s)
  BY <1>5 DEF SomeOf
<1>7. Right(s \ {x})
  BY <1>4, <1>5, <1>6
<1>8. /\ h[s] = w[x] + h[s \ {x}] /\ g[s] = u[x] + g[s \ {x}]
      /\ w[x] \in Nat /\ u[x] \in Nat /\ w[v] \in Nat /\ u[v] \in Nat
  BY <1>1, <1>2, <1>5, <1>6
<1>9. CASE x = v
  BY <1>4, <1>5, <1>7, <1>8, <1>9
<1>10. CASE x # v
  BY <1>4, <1>5, <1>7, <1>8, <1>10
<1> QED
  BY <1>9, <1>10

\* A sum of nothing but zeros is zero.
LEMMA TotalZero ==
    ASSUME NEW S, IsFiniteSet(S), NEW w, \A x \in S : w[x] = 0 PROVE Total(w, S) = 0
<1>1. PICK h : /\ Total(w, S) = h[S]
               /\ \A s \in SUBSET S :
                     h[s] = IF s = {} THEN 0 ELSE w[SomeOf(s)] + h[s \ {SomeOf(s)}]
  <2>1. \E f : TotalsTo(w, S, f)
    BY TotalBy
  <2> QED
    BY <2>1 DEF TotalsTo
<1>2. SUFFICES ASSUME h[S] # 0 PROVE FALSE
  BY <1>1
<1> DEFINE T == {s \in SUBSET S : h[s] # 0}
<1>3. PICK s \in T : \A u \in T : u \subseteq s => u = s
  <2>1. T \in SUBSET SUBSET S /\ T # {}
    BY <1>2
  <2> HIDE DEF T
  <2> QED
    BY <2>1, SmallestSet
<1>4. s # {} /\ SomeOf(s) \in s
  BY <1>1, <1>3 DEF SomeOf
<1>5. h[s \ {SomeOf(s)}] = 0 /\ s \in SUBSET S
  BY <1>3, <1>4
<1>6. w[SomeOf(s)] = 0
  BY <1>4, <1>5
<1>7. h[s] = 0
  BY <1>1, <1>4, <1>5, <1>6
<1> QED
  BY <1>3, <1>7

-----------------------------------------------------------------------------
(***************************************************************************)
(* Folds over a finite set, by a function e on the members and the values. *)
(***************************************************************************)
\* h has what e makes of the members of every subset of S.
FoldsBy(e, base, S, h) ==
    h = [s \in SUBSET S |-> IF s = {} THEN base ELSE e[<<SomeOf(s), h[s \ {SomeOf(s)}]>>]]

\* Among the subsets of a finite set that are not as they should be one is least.
LEMMA LeastWrong ==
    ASSUME NEW S, IsFiniteSet(S), NEW T \in SUBSET SUBSET S, S \in T
    PROVE  \E s \in T : s = {} \/ (SomeOf(s) \in s /\ s \ {SomeOf(s)} \in (SUBSET S) \ T)
<1>1. PICK s \in T : \A t \in T : t \subseteq s => t = s
  BY SmallestSet
<1>2. ASSUME s # {} PROVE SomeOf(s) \in s /\ s \ {SomeOf(s)} \in (SUBSET S) \ T
  <2>1. SomeOf(s) \in s
    BY <1>2 DEF SomeOf
  <2> QED
    BY <1>1, <2>1
<1> QED
  BY <1>1, <1>2

\* Two folds agree on what both are over.
LEMMA FoldsAgree ==
    ASSUME NEW e, NEW base, NEW S, IsFiniteSet(S), NEW U \in SUBSET S, NEW h, NEW g,
           FoldsBy(e, base, S, h), FoldsBy(e, base, U, g)
    PROVE  g[U] = h[U]
<1>1. /\ \A s \in SUBSET S : h[s] = IF s = {} THEN base ELSE e[<<SomeOf(s), h[s \ {SomeOf(s)}]>>]
      /\ \A s \in SUBSET U : g[s] = IF s = {} THEN base ELSE e[<<SomeOf(s), g[s \ {SomeOf(s)}]>>]
  BY DEF FoldsBy
<1>2. SUFFICES ASSUME g[U] # h[U] PROVE FALSE
  OBVIOUS
<1> DEFINE T == {s \in SUBSET U : g[s] # h[s]}
<1>3. PICK s \in T : s = {} \/ (SomeOf(s) \in s /\ s \ {SomeOf(s)} \in (SUBSET U) \ T)
  <2>1. T \in SUBSET SUBSET U /\ U \in T /\ IsFiniteSet(U)
    BY <1>2, FS_Subset
  <2> HIDE DEF T
  <2> QED
    BY <2>1, LeastWrong
<1>4. s \in SUBSET U /\ s \in SUBSET S /\ s # {}
  BY <1>1
<1>5. g[s \ {SomeOf(s)}] = h[s \ {SomeOf(s)}]
  BY <1>3, <1>4
<1> QED
  BY <1>1, <1>3, <1>4, <1>5

\* There is one over every finite set.
LEMMA FoldExists ==
    ASSUME NEW e, NEW base, NEW S, IsFiniteSet(S) PROVE \E h : FoldsBy(e, base, S, h)
<1>1. SUFFICES ASSUME ~\E h : FoldsBy(e, base, S, h) PROVE FALSE
  OBVIOUS
<1> DEFINE T == {s \in SUBSET S : ~\E h : FoldsBy(e, base, s, h)}
<1>2. PICK s \in T : \A t \in T : t \subseteq s => t = s
  <2>1. T \in SUBSET SUBSET S /\ T # {}
    BY <1>1
  <2> HIDE DEF T
  <2> QED
    BY <2>1, SmallestSet
<1> DEFINE G(u) == CHOOSE h : FoldsBy(e, base, u, h)
<1>3. ASSUME NEW u \in SUBSET s, u # s PROVE FoldsBy(e, base, u, G(u))
  <2>1. u \notin T
    BY <1>2, <1>3
  <2>2. \E h : FoldsBy(e, base, u, h)
    BY <1>2, <2>1
  <2> QED
    BY <2>2
<1>4. ASSUME NEW u \in SUBSET s, u # s, NEW t \in SUBSET u PROVE G(u)[t] = G(t)[t]
  <2>1. IsFiniteSet(u)
    BY FS_Subset, <1>2
  <2>2. FoldsBy(e, base, u, G(u)) /\ FoldsBy(e, base, t, G(t))
    BY <1>3, <1>4
  <2> HIDE DEF G
  <2> QED
    BY <2>1, <2>2, FoldsAgree
<1>5. ASSUME NEW u \in SUBSET s, u # s
      PROVE  G(u)[u] = IF u = {} THEN base ELSE e[<<SomeOf(u), G(u)[u \ {SomeOf(u)}]>>]
  <2>1. FoldsBy(e, base, u, G(u))
    BY <1>3, <1>5
  <2> HIDE DEF G
  <2> QED
    BY <2>1 DEF FoldsBy
<1> HIDE DEF G
<1>6. PICK H : H = [u \in SUBSET s |-> IF u = {} THEN base
                       ELSE e[<<SomeOf(u), G(u \ {SomeOf(u)})[u \ {SomeOf(u)}]>>]]
  OBVIOUS
<1>7. ASSUME NEW u \in SUBSET s, u # s PROVE H[u] = G(u)[u]
  <2>1. u # {} => G(u)[u \ {SomeOf(u)}] = G(u \ {SomeOf(u)})[u \ {SomeOf(u)}]
    BY <1>4, <1>7
  <2> QED
    BY <1>5, <1>6, <1>7, <2>1
<1>8. ASSUME NEW u \in SUBSET s, u # {}
      PROVE  G(u \ {SomeOf(u)})[u \ {SomeOf(u)}] = H[u \ {SomeOf(u)}]
  <2>1. SomeOf(u) \in u
    BY <1>8 DEF SomeOf
  <2>2. u \ {SomeOf(u)} \in SUBSET s /\ u \ {SomeOf(u)} # s
    BY <2>1
  <2> QED
    BY <1>7, <2>2
<1>9. FoldsBy(e, base, s, H)
  BY <1>6, <1>8 DEF FoldsBy
<1> QED
  BY <1>2, <1>9

\* Its values are in every set that has the first of them and that e keeps.
LEMMA FoldStaysIn ==
    ASSUME NEW e, NEW V, NEW base \in V, NEW S, IsFiniteSet(S), NEW h, FoldsBy(e, base, S, h),
           \A x \in S, v \in V : e[<<x, v>>] \in V
    PROVE  h \in [SUBSET S -> V]
<1>1. \A s \in SUBSET S : h[s] = IF s = {} THEN base ELSE e[<<SomeOf(s), h[s \ {SomeOf(s)}]>>]
  BY DEF FoldsBy
<1>2. ASSUME NEW r \in SUBSET S, h[r] \notin V PROVE FALSE
  <2> DEFINE T == {s \in SUBSET r : h[s] \notin V}
  <2>1. PICK s \in T : s = {} \/ (SomeOf(s) \in s /\ s \ {SomeOf(s)} \in (SUBSET r) \ T)
    <3>1. T \in SUBSET SUBSET r /\ r \in T /\ IsFiniteSet(r)
      BY <1>2, FS_Subset
    <3> HIDE DEF T
    <3> QED
      BY <3>1, LeastWrong
  <2>2. s \in SUBSET S /\ s # {}
    BY <1>1
  <2>3. h[s \ {SomeOf(s)}] \in V /\ SomeOf(s) \in S
    BY <2>1, <2>2
  <2> QED
    BY <1>1, <2>1, <2>2, <2>3
<1>3. h = [s \in SUBSET S |-> h[s]]
  BY DEF FoldsBy
<1> QED
  BY <1>2, <1>3

\* What is so of nobody, and of some more when it is so of the others, is so of all.
LEMMA FoldIsGood ==
    ASSUME NEW S, IsFiniteSet(S), NEW f, NEW Good, f[{}] \in Good[{}],
           \A s \in SUBSET S : \A x \in s :
              x = SomeOf(s) /\ f[s \ {x}] \in Good[s \ {x}] => f[s] \in Good[s]
    PROVE  f[S] \in Good[S]
<1>1. SUFFICES ASSUME f[S] \notin Good[S] PROVE FALSE
  OBVIOUS
<1> DEFINE T == {s \in SUBSET S : f[s] \notin Good[s]}
<1>2. PICK s \in T : s = {} \/ (SomeOf(s) \in s /\ s \ {SomeOf(s)} \in (SUBSET S) \ T)
  <2>1. T \in SUBSET SUBSET S /\ S \in T
    BY <1>1
  <2> HIDE DEF T
  <2> QED
    BY <2>1, LeastWrong
<1>3. s \in SUBSET S /\ s # {} /\ f[s] \notin Good[s]
  BY <1>2
<1>4. PICK x \in s : x = SomeOf(s)
  BY <1>2, <1>3
<1>5. f[s \ {x}] \in Good[s \ {x}]
  BY <1>2, <1>3, <1>4
<1> QED
  BY <1>3, <1>4, <1>5

\* A fold of a function that stays in a set.
LEMMA FoldInExists ==
    ASSUME NEW V, NEW base \in V, NEW S, IsFiniteSet(S), NEW e \in [S \X V -> V]
    PROVE  \E h \in [SUBSET S -> V] : FoldsBy(e, base, S, h)
<1>1. PICK h : FoldsBy(e, base, S, h)
  BY FoldExists
<1>2. h \in [SUBSET S -> V]
  BY <1>1, FoldStaysIn
<1> QED
  BY <1>1, <1>2

-----------------------------------------------------------------------------
\* Each sum is an integer, whichever term of it comes first.
AnyFirst(w, S, h) ==
    \A s \in SUBSET S : h[s] \in Int /\ \A x \in s : h[s] = w[x] + h[s \ {x}]

AllIntegers(w, S) == \A x \in S : w[x] \in Int

\* In a sum of integers any term may come first.
LEMMA AnyTermFirst ==
    ASSUME NEW S, IsFiniteSet(S), NEW w, AllIntegers(w, S), NEW h, TotalsTo(w, S, h)
    PROVE  AnyFirst(w, S, h)
<1> USE DEF TotalsTo, AllIntegers
<1> DEFINE Right(s) == h[s] \in Int /\ \A x \in s : h[s] = w[x] + h[s \ {x}]
<1>1. ASSUME NEW r \in SUBSET S, ~Right(r) PROVE FALSE
  <2> DEFINE T == {s \in SUBSET r : ~Right(s)}
  <2>1. PICK s \in T : \A t \in T : t \subseteq s => t = s
    <3>1. T \in SUBSET SUBSET r /\ T # {} /\ IsFiniteSet(r)
      BY <1>1, FS_Subset
    <3> HIDE DEF T
    <3> QED
      BY <3>1, SmallestSet
  <2>2. s \in SUBSET S /\ \A t \in SUBSET s : t # s => Right(t)
    BY <2>1
  <2> HIDE DEF T
  <2>3. s # {}
    <3>1. h[{}] = 0
      OBVIOUS
    <3>2. Right({})
      BY <3>1
    <3> QED
      BY <2>1, <3>2 DEF T
  <2>4. PICK z \in s : z = SomeOf(s)
    BY <2>3 DEF SomeOf
  <2>5. h[s] = w[z] + h[s \ {z}] /\ h[s \ {z}] \in Int /\ w[z] \in Int
    BY <2>2, <2>3, <2>4
  <2>6. ASSUME NEW x \in s, x # z PROVE h[s] = w[x] + h[s \ {x}]
    <3>1. h[s \ {z}] = w[x] + h[(s \ {z}) \ {x}]
      BY <2>2, <2>6
    <3>2. h[s \ {x}] = w[z] + h[(s \ {x}) \ {z}]
      BY <2>2, <2>4, <2>6
    <3>3. (s \ {x}) \ {z} = (s \ {z}) \ {x} /\ h[(s \ {z}) \ {x}] \in Int /\ w[x] \in Int
      BY <2>2, <2>4, <2>6
    <3>4. PICK k \in Int : k = h[(s \ {z}) \ {x}]
      BY <3>3
    <3>5. h[s \ {z}] = w[x] + k /\ h[s \ {x}] = w[z] + k
      BY ONLY <3>1, <3>2, <3>3, <3>4
    <3>6. h[s] = w[z] + (w[x] + k)
      BY ONLY <2>5, <3>5
    <3>7. w[z] \in Int /\ w[x] \in Int /\ k \in Int
      BY <2>5, <3>3
    <3> HIDE DEF Right
    <3> QED
      BY ONLY <3>5, <3>6, <3>7
  <2>7. h[s] \in Int
    BY ONLY <2>5
  <2>8. Right(s)
    BY <2>4, <2>5, <2>6, <2>7
  <2> QED
    BY <2>1, <2>8 DEF T
<1> QED
  BY <1>1 DEF AnyFirst

\* A sum depends on its terms only.
LEMMA TotalSame ==
    ASSUME NEW S, IsFiniteSet(S), NEW w, NEW u, \A x \in S : u[x] = w[x]
    PROVE  Total(u, S) = Total(w, S)
<1>1. PICK h : /\ Total(w, S) = h[S]
               /\ \A s \in SUBSET S :
                     h[s] = IF s = {} THEN 0 ELSE w[SomeOf(s)] + h[s \ {SomeOf(s)}]
  <2>1. \E f : TotalsTo(w, S, f)
    BY TotalBy
  <2> QED
    BY <2>1 DEF TotalsTo
<1>2. PICK g : /\ Total(u, S) = g[S]
               /\ \A s \in SUBSET S :
                     g[s] = IF s = {} THEN 0 ELSE u[SomeOf(s)] + g[s \ {SomeOf(s)}]
  <2>1. \E f : TotalsTo(u, S, f)
    BY TotalBy
  <2> QED
    BY <2>1 DEF TotalsTo
<1>3. SUFFICES ASSUME g[S] # h[S] PROVE FALSE
  BY <1>1, <1>2
<1> DEFINE T == {s \in SUBSET S : g[s] # h[s]}
<1>4. PICK s \in T : s = {} \/ (SomeOf(s) \in s /\ s \ {SomeOf(s)} \in (SUBSET S) \ T)
  <2>1. T \in SUBSET SUBSET S /\ S \in T
    BY <1>3
  <2> HIDE DEF T
  <2> QED
    BY <2>1, LeastWrong
<1>5. s \in SUBSET S /\ s # {}
  BY <1>1, <1>2
<1>6. g[s \ {SomeOf(s)}] = h[s \ {SomeOf(s)}] /\ u[SomeOf(s)] = w[SomeOf(s)]
  BY <1>4, <1>5
<1> QED
  BY <1>1, <1>2, <1>4, <1>5, <1>6

\* The sum over a subset is the value of the sums for it.
LEMMA TotalPart ==
    ASSUME NEW S, IsFiniteSet(S), NEW w, NEW h, TotalsTo(w, S, h), NEW U \in SUBSET S
    PROVE  Total(w, U) = h[U]
<1>1. IsFiniteSet(U)
  BY FS_Subset
<1>2. PICK g : g = CHOOSE f : Sums(w, U, f)
  OBVIOUS
<1>3. Sums(w, U, g) /\ Total(w, U) = g[U]
  BY <1>1, <1>2, SumsExist, TotalIs
<1>4. PICK f : f = [s \in SUBSET S |-> h[s]]
  OBVIOUS
<1>5. Sums(w, S, f)
  <2>1. ASSUME NEW s \in SUBSET S
        PROVE  f[s] = IF s = {} THEN 0 ELSE w[SomeOf(s)] + f[s \ {SomeOf(s)}]
    BY <1>4 DEF TotalsTo
  <2>2. f = [s \in SUBSET S |-> f[s]]
    BY <1>4
  <2> QED
    BY <2>1, <2>2 DEF Sums
<1>6. g[U] = f[U]
  BY <1>3, <1>5, SumsAgree
<1> QED
  BY <1>3, <1>4, <1>6

\* One more term.
LEMMA TotalGrown ==
    ASSUME NEW S, IsFiniteSet(S), NEW x, x \notin S, NEW w, AllIntegers(w, S \cup {x})
    PROVE  /\ Total(w, S \cup {x}) = Total(w, S) + w[x]
           /\ Total(w, S) \in Int
<1>1. PICK U : U = S \cup {x}
  OBVIOUS
<1>2. IsFiniteSet(U)
  BY <1>1, FS_AddElement
<1>3. PICK h : TotalsTo(w, U, h)
  BY <1>2, TotalBy
<1>4. Total(w, U) = h[U] /\ Total(w, S) = h[S]
  BY <1>1, <1>2, <1>3, TotalPart
<1>5. h[S] \in Int /\ h[U] = w[x] + h[U \ {x}]
  <2>1. AllIntegers(w, U)
    BY <1>1
  <2>2. AnyFirst(w, U, h)
    BY <1>2, <1>3, <2>1, AnyTermFirst
  <2>3. S \in SUBSET U /\ U \in SUBSET U /\ x \in U
    BY <1>1
  <2> QED
    BY <2>2, <2>3 DEF AnyFirst
<1>6. U \ {x} = S
  BY <1>1
<1>7. w[x] \in Int
  BY DEF AllIntegers
<1>8. h[U] = w[x] + h[S]
  BY <1>5, <1>6
<1>9. h[U] = h[S] + w[x]
  BY ONLY <1>5, <1>7, <1>8
<1> QED
  BY <1>1, <1>4, <1>5, <1>9

\* A sum of integers is one.
LEMMA TotalInt ==
    ASSUME NEW S, IsFiniteSet(S), NEW w, AllIntegers(w, S) PROVE Total(w, S) \in Int
<1>1. PICK h : TotalsTo(w, S, h)
  BY TotalBy
<1>2. AnyFirst(w, S, h)
  BY <1>1, AnyTermFirst
<1> QED
  BY <1>1, <1>2 DEF TotalsTo, AnyFirst

\* When one term of a sum of integers changes the sum does, by as much.
LEMMA TotalMoved ==
    ASSUME NEW S, IsFiniteSet(S), NEW w, NEW u, AllIntegers(w, S), AllIntegers(u, S),
           NEW v \in S, \A x \in S \ {v} : u[x] = w[x]
    PROVE  /\ Total(u, S) = Total(w, S) - w[v] + u[v]
           /\ Total(w, S) \in Int /\ Total(u, S) \in Int
<1>1. PICK U : U = S \ {v}
  OBVIOUS
<1>2. IsFiniteSet(U) /\ v \notin U /\ U \cup {v} = S
  BY <1>1, FS_Subset
<1>3. AllIntegers(w, U \cup {v}) /\ AllIntegers(u, U \cup {v})
  BY <1>2
<1>4. Total(w, U \cup {v}) = Total(w, U) + w[v] /\ Total(w, U) \in Int
  BY <1>2, <1>3, TotalGrown
<1>5. Total(u, U \cup {v}) = Total(u, U) + u[v]
  BY <1>2, <1>3, TotalGrown
<1>6. Total(u, U) = Total(w, U)
  BY <1>1, <1>2, TotalSame
<1>7. Total(w, S) = Total(w, U) + w[v] /\ Total(u, S) = Total(w, U) + u[v]
  BY <1>2, <1>4, <1>5, <1>6
<1>8. w[v] \in Int /\ u[v] \in Int
  BY DEF AllIntegers
<1>9. PICK n \in Int : n = Total(w, U)
  BY <1>4
<1>10. Total(w, S) = n + w[v] /\ Total(u, S) = n + u[v]
  BY <1>7, <1>9
<1> QED
  BY ONLY <1>8, <1>10, n \in Int

\* A sum over some of the members is one over all of them.
LEMMA TotalWhere ==
    ASSUME NEW S, IsFiniteSet(S), NEW U \in SUBSET S, NEW w, AllIntegers(w, U), NEW g,
           \A x \in S : g[x] = IF x \in U THEN w[x] ELSE 0
    PROVE  Total(g, S) = Total(w, U)
<1>1. IsFiniteSet(U) /\ AllIntegers(g, S)
  BY FS_Subset DEF AllIntegers
<1>2. PICK h : TotalsTo(g, S, h)
  BY TotalBy
<1>3. PICK k : TotalsTo(w, U, k)
  BY <1>1, TotalBy
<1>4. AnyFirst(g, S, h) /\ AnyFirst(w, U, k)
  BY <1>1, <1>2, <1>3, AnyTermFirst
<1>5. SUFFICES ASSUME h[S] # k[S \cap U] PROVE FALSE
  <2>1. S \cap U = U
    OBVIOUS
  <2> QED
    BY <1>2, <1>3, <2>1, <1>5 DEF TotalsTo
<1> DEFINE T == {s \in SUBSET S : h[s] # k[s \cap U]}
<1>6. PICK s \in T : s = {} \/ (SomeOf(s) \in s /\ s \ {SomeOf(s)} \in (SUBSET S) \ T)
  <2>1. T \in SUBSET SUBSET S /\ S \in T
    BY <1>5
  <2> HIDE DEF T
  <2> QED
    BY <2>1, LeastWrong
<1>7. s \in SUBSET S /\ h[s] # k[s \cap U]
  BY <1>6
<1>8. h[{}] = 0 /\ k[{}] = 0
  <2>1. {} \in SUBSET S /\ {} \in SUBSET U
    OBVIOUS
  <2> QED
    BY <1>2, <1>3, <2>1 DEF TotalsTo
<1>9. s # {}
  <2>1. SUFFICES ASSUME s = {} PROVE FALSE
    OBVIOUS
  <2>2. s \cap U = {}
    BY <2>1
  <2>3. h[s] = 0 /\ k[s \cap U] = 0
    BY <1>8, <2>1, <2>2
  <2> QED
    BY <1>7, <2>3
<1>10. PICK x \in s : x = SomeOf(s)
  BY <1>6, <1>9
<1>11. h[s \ {x}] = k[(s \ {x}) \cap U]
  BY <1>6, <1>9, <1>10
<1>12. h[s] = g[x] + h[s \ {x}] /\ h[s \ {x}] \in Int /\ g[x] \in Int
  BY <1>1, <1>4, <1>7 DEF AnyFirst, AllIntegers
<1>13. CASE x \in U
  <2>1. s \cap U \in SUBSET U /\ x \in s \cap U /\ (s \cap U) \ {x} = (s \ {x}) \cap U
    BY <1>13
  <2>2. k[s \cap U] = w[x] + k[(s \ {x}) \cap U]
    BY <1>4, <2>1 DEF AnyFirst
  <2> QED
    BY <1>7, <1>11, <1>12, <1>13, <2>2
<1>14. CASE x \notin U
  <2>1. (s \ {x}) \cap U = s \cap U
    BY <1>14
  <2>2. h[s \ {x}] = k[s \cap U]
    BY <1>11, <2>1
  <2>3. g[x] = 0
    BY <1>7, <1>14
  <2>4. h[s] = h[s \ {x}]
    BY <1>12, <2>3
  <2> QED
    BY <1>7, <2>2, <2>4
<1> QED
  BY <1>13, <1>14

\* A sum of positive numbers is at least how many they are.
LEMMA TotalAtLeast ==
    ASSUME NEW S, IsFiniteSet(S), NEW w, \A x \in S : w[x] \in Nat /\ w[x] >= 1
    PROVE  Total(w, S) \in Int /\ Total(w, S) >= Cardinality(S)
<1>1. AllIntegers(w, S)
  BY DEF AllIntegers
<1>2. PICK h : TotalsTo(w, S, h)
  BY TotalBy
<1>3. AnyFirst(w, S, h)
  BY <1>1, <1>2, AnyTermFirst
<1>4. SUFFICES ASSUME ~(h[S] >= Cardinality(S)) PROVE FALSE
  BY <1>2, <1>3, <1>4 DEF TotalsTo, AnyFirst
<1> DEFINE T == {s \in SUBSET S : ~(h[s] >= Cardinality(s))}
<1>5. PICK s \in T : s = {} \/ (SomeOf(s) \in s /\ s \ {SomeOf(s)} \in (SUBSET S) \ T)
  <2>1. T \in SUBSET SUBSET S /\ S \in T
    BY <1>4
  <2> HIDE DEF T
  <2> QED
    BY <2>1, LeastWrong
<1>6. s \in SUBSET S /\ ~(h[s] >= Cardinality(s)) /\ IsFiniteSet(s)
  BY <1>5, FS_Subset
<1>7. s # {}
  <2>1. h[{}] = 0 /\ Cardinality({}) = 0
    BY <1>2, FS_EmptySet DEF TotalsTo
  <2> QED
    BY <1>6, <2>1
<1>8. PICK x \in s : x = SomeOf(s)
  BY <1>5, <1>7
<1>9. h[s \ {x}] >= Cardinality(s \ {x})
  BY <1>5, <1>7, <1>8
<1>10. h[s] = w[x] + h[s \ {x}] /\ h[s \ {x}] \in Int /\ w[x] >= 1 /\ w[x] \in Nat
  BY <1>3, <1>6 DEF AnyFirst
<1>11. Cardinality(s \ {x}) = Cardinality(s) - 1 /\ Cardinality(s) \in Nat
  BY <1>6, <1>8, FS_RemoveElement, FS_CardinalityType
<1> QED
  BY <1>6, <1>9, <1>10, <1>11

\* The sum of sums is the sum.
LEMMA TotalAdded ==
    ASSUME NEW S, IsFiniteSet(S), NEW w, NEW u, AllIntegers(w, S), AllIntegers(u, S), NEW g,
           \A x \in S : g[x] = w[x] + u[x]
    PROVE  Total(g, S) = Total(w, S) + Total(u, S)
<1>1. AllIntegers(g, S)
  BY DEF AllIntegers
<1>2. PICK h : TotalsTo(g, S, h)
  BY TotalBy
<1>3. PICK k : TotalsTo(w, S, k)
  BY TotalBy
<1>4. PICK l : TotalsTo(u, S, l)
  BY TotalBy
<1>5. AnyFirst(g, S, h) /\ AnyFirst(w, S, k) /\ AnyFirst(u, S, l)
  BY <1>1, <1>2, <1>3, <1>4, AnyTermFirst
<1>6. SUFFICES ASSUME h[S] # k[S] + l[S] PROVE FALSE
  BY <1>2, <1>3, <1>4, <1>6 DEF TotalsTo
<1> DEFINE T == {s \in SUBSET S : h[s] # k[s] + l[s]}
<1>7. PICK s \in T : s = {} \/ (SomeOf(s) \in s /\ s \ {SomeOf(s)} \in (SUBSET S) \ T)
  <2>1. T \in SUBSET SUBSET S /\ S \in T
    BY <1>6
  <2> HIDE DEF T
  <2> QED
    BY <2>1, LeastWrong
<1>8. s \in SUBSET S /\ h[s] # k[s] + l[s]
  BY <1>7
<1>9. s # {}
  <2>1. {} \in SUBSET S
    OBVIOUS
  <2>2. h[{}] = 0 /\ k[{}] = 0 /\ l[{}] = 0
    BY <1>2, <1>3, <1>4, <2>1 DEF TotalsTo
  <2> QED
    BY <1>8, <2>2
<1>10. PICK x \in s : x = SomeOf(s)
  BY <1>7, <1>9
<1>11. h[s \ {x}] = k[s \ {x}] + l[s \ {x}]
  BY <1>7, <1>9, <1>10
<1>12. /\ h[s] = g[x] + h[s \ {x}] /\ k[s] = w[x] + k[s \ {x}] /\ l[s] = u[x] + l[s \ {x}]
       /\ k[s \ {x}] \in Int /\ l[s \ {x}] \in Int
  BY <1>5, <1>8 DEF AnyFirst
<1>13. w[x] \in Int /\ u[x] \in Int /\ g[x] = w[x] + u[x]
  BY <1>8 DEF AllIntegers
<1>14. PICK m \in Int, n \in Int : m = k[s \ {x}] /\ n = l[s \ {x}]
  BY <1>12
<1>15. h[s] = w[x] + u[x] + (m + n) /\ k[s] = w[x] + m /\ l[s] = u[x] + n
  BY <1>11, <1>12, <1>13, <1>14
<1>16. h[s] = k[s] + l[s]
  BY ONLY <1>13, <1>15, m \in Int, n \in Int
<1> QED
  BY <1>8, <1>16

\* A sum is the sum of the sums over the classes that f makes.
ByClass(S, w, f, K) == [c \in K |-> Total([x \in S |-> IF f[x] = c THEN w[x] ELSE 0], S)]

LEMMA TotalByClass ==
    ASSUME NEW S, IsFiniteSet(S), NEW w, AllIntegers(w, S), NEW K, IsFiniteSet(K), NEW f,
           \A x \in S : f[x] \in K \/ w[x] = 0
    PROVE  Total(ByClass(S, w, f, K), K) = Total(w, S) /\ AllIntegers(ByClass(S, w, f, K), K)
<1> DEFINE Upto(k) == [x \in S |-> IF f[x] \in k THEN w[x] ELSE 0]
           One(c) == [x \in S |-> IF f[x] = c THEN w[x] ELSE 0]
<1>1. ASSUME NEW k PROVE AllIntegers(Upto(k), S)
  BY DEF AllIntegers
<1>2. ASSUME NEW c PROVE AllIntegers(One(c), S)
  BY DEF AllIntegers
<1>3. ASSUME NEW u, AllIntegers(u, S) PROVE Total(u, S) \in Int
  <2>1. PICK h : TotalsTo(u, S, h)
    BY TotalBy
  <2>2. AnyFirst(u, S, h)
    BY <1>3, <2>1, AnyTermFirst
  <2> QED
    BY <2>1, <2>2 DEF TotalsTo, AnyFirst
<1>4. PICK b : b = ByClass(S, w, f, K)
  OBVIOUS
<1>5. \A c \in K : b[c] = Total(One(c), S)
  BY <1>4 DEF ByClass
<1>6. AllIntegers(b, K)
  <2>1. \A c \in K : Total(One(c), S) \in Int
    <3> HIDE DEF One
    <3> QED
      BY <1>2, <1>3
  <2> QED
    BY <1>5, <2>1 DEF AllIntegers
<1>7. PICK h : TotalsTo(b, K, h)
  BY TotalBy
<1>8. AnyFirst(b, K, h)
  BY <1>6, <1>7, AnyTermFirst
<1> DEFINE T == {k \in SUBSET K : h[k] # Total(Upto(k), S)}
<1>9. K \notin T
  <2>1. SUFFICES ASSUME K \in T PROVE FALSE
    OBVIOUS
  <2>2. PICK k \in T : k = {} \/ (SomeOf(k) \in k /\ k \ {SomeOf(k)} \in (SUBSET K) \ T)
    <3>1. T \in SUBSET SUBSET K
      OBVIOUS
    <3> HIDE DEF T
    <3> QED
      BY <2>1, <3>1, LeastWrong
  <2>3. k \in SUBSET K /\ h[k] # Total(Upto(k), S)
    BY <2>2
  <2>4. k # {}
    <3>1. Total(Upto({}), S) = 0
      <4>1. \A x \in S : Upto({})[x] = 0
        OBVIOUS
      <4> HIDE DEF Upto
      <4> QED
        BY <4>1, TotalZero
    <3>2. h[{}] = 0
      BY <1>7 DEF TotalsTo
    <3> QED
      BY <2>3, <3>1, <3>2
  <2>5. PICK c \in k : c = SomeOf(k)
    BY <2>2, <2>4
  <2>6. h[k \ {c}] = Total(Upto(k \ {c}), S)
    BY <2>2, <2>4, <2>5
  <2>7. h[k] = b[c] + h[k \ {c}]
    BY <1>8, <2>3 DEF AnyFirst
  <2>8. Total(Upto(k), S) = Total(One(c), S) + Total(Upto(k \ {c}), S)
    <3>1. \A x \in S : Upto(k)[x] = One(c)[x] + Upto(k \ {c})[x]
      BY DEF AllIntegers
    <3>2. AllIntegers(One(c), S) /\ AllIntegers(Upto(k \ {c}), S)
      BY <1>1, <1>2
    <3> HIDE DEF Upto, One
    <3> QED
      BY <3>1, <3>2, TotalAdded
  <2>9. b[c] = Total(One(c), S)
    BY <1>5, <2>3
  <2> HIDE DEF Upto, One
  <2> QED
    BY <2>3, <2>6, <2>7, <2>8, <2>9
<1>10. h[K] = Total(Upto(K), S)
  BY <1>9
<1>11. Total(Upto(K), S) = Total(w, S)
  <2>1. \A x \in S : Upto(K)[x] = w[x]
    OBVIOUS
  <2> HIDE DEF Upto
  <2> QED
    BY <2>1, TotalSame
<1> QED
  BY <1>4, <1>6, <1>7, <1>10, <1>11 DEF TotalsTo

-----------------------------------------------------------------------------
(***************************************************************************)
(* What is chosen of a list.  The recursion of Chosen is unfolded once,    *)
(* by the least number of elements that would contradict it; what follows  *)
(* is by the shortest list that would.                                     *)
(***************************************************************************)
\* One step of the loop of Chosen, after n - 1 of them.
AfterOne(list, K, n, before) == IF list[n] \in K THEN Append(before, list[n]) ELSE before

\* f has what was kept after each of the first m elements
KeptBy(list, K, m, f) ==
    /\ f[0] = <<>>
    /\ \A n \in 1..m : f[n] = AfterOne(list, K, n, f[n - 1])

\* What was kept of the same elements by the same test is the same.
LEMMA KeptAgree ==
    ASSUME NEW s, NEW t, NEW K, NEW L, NEW m \in Nat, NEW f, NEW g,
           KeptBy(s, K, m, f), KeptBy(t, L, m, g),
           \A n \in 1..m : s[n] = t[n] /\ (s[n] \in K <=> s[n] \in L)
    PROVE  \A n \in 0..m : f[n] = g[n]
<1> SUFFICES ASSUME \E n \in 0..m : f[n] # g[n] PROVE FALSE
  OBVIOUS
<1>1. PICK n \in {n \in 0..m : f[n] # g[n]} : \A k \in {k \in 0..m : f[k] # g[k]} : n <= k
  <2>1. {n \in 0..m : f[n] # g[n]} \in SUBSET Nat /\ {n \in 0..m : f[n] # g[n]} # {}
    OBVIOUS
  <2> QED
    BY <2>1, LeastElement
<1>2. CASE n = 0
  BY <1>1, <1>2 DEF KeptBy
<1>3. CASE n \in 1..m
  <2>1. f[n - 1] = g[n - 1]
    BY <1>1, <1>3
  <2> QED
    BY <1>1, <1>3, <2>1 DEF KeptBy, AfterOne
<1> QED
  BY <1>1, <1>2, <1>3

\* The loop has a result.
LEMMA KeptExists ==
    ASSUME NEW s, NEW K, NEW m \in Nat
    PROVE  \E f : f = [n \in 0..m |-> IF n = 0 THEN <<>> ELSE AfterOne(s, K, n, f[n - 1])]
<1> DEFINE Is(f, n) == f = [k \in 0..n |-> IF k = 0 THEN <<>> ELSE AfterOne(s, K, k, f[k - 1])]
           T == {n \in 0..m : ~\E f : Is(f, n)}
<1> SUFFICES ASSUME T # {} PROVE FALSE
  OBVIOUS
<1>1. PICK n \in T : \A k \in T : n <= k
  <2>1. T \in SUBSET Nat /\ T # {}
    OBVIOUS
  <2> HIDE DEF T
  <2> QED
    BY <2>1, LeastElement
<1>2. CASE n = 0
  <2>1. Is([k \in 0..0 |-> <<>>], 0)
    OBVIOUS
  <2> QED
    BY <1>1, <1>2, <2>1
<1>3. CASE n # 0
  <2>1. n \in 1..m /\ n - 1 \in 0..m /\ ~(n <= n - 1)
    BY <1>1, <1>3
  <2>2. PICK f : Is(f, n - 1)
    BY <1>1, <2>1
  <2>3. PICK g : g = [k \in 0..n |-> IF k = n THEN AfterOne(s, K, n, f[n - 1]) ELSE f[k]]
    OBVIOUS
  <2>4. ASSUME NEW k \in 0..n
        PROVE  g[k] = IF k = 0 THEN <<>> ELSE AfterOne(s, K, k, g[k - 1])
    <3>1. k \in 0..(n - 1) \/ k = n
      BY <2>1
    <3>2. CASE k = n
      <4>1. g[k - 1] = f[k - 1] /\ g[k] = AfterOne(s, K, n, f[n - 1]) /\ k # 0
        BY <2>1, <2>3, <3>2
      <4> QED
        BY <4>1, <3>2
    <3>3. CASE k \in 0..(n - 1) /\ k # 0
      <4>1. g[k] = f[k] /\ g[k - 1] = f[k - 1]
        BY <2>1, <2>3, <3>3
      <4>2. f[k] = AfterOne(s, K, k, f[k - 1])
        BY <2>2, <3>3
      <4> QED
        BY <4>1, <4>2, <3>3
    <3>4. CASE k = 0
      <4>1. g[k] = f[k]
        BY <2>1, <2>3, <3>4
      <4>2. f[k] = <<>>
        BY <2>1, <2>2, <3>4
      <4> QED
        BY <4>1, <4>2, <3>4
    <3> QED
      BY <3>1, <3>2, <3>3, <3>4
  <2>5. g = [k \in 0..n |-> g[k]]
    BY <2>3
  <2>6. Is(g, n)
    BY <2>4, <2>5
  <2> QED
    BY <1>1, <2>6
<1> QED
  BY <1>2, <1>3

\* Chosen is what was kept after the last element.
LEMMA ChosenKept ==
    ASSUME NEW S, NEW s \in Seq(S), NEW K
    PROVE  \E f : KeptBy(s, K, Len(s), f) /\ Chosen(s, K) = f[Len(s)]
<1> DEFINE F == CHOOSE f : f = [n \in 0..Len(s) |->
                  IF n = 0 THEN <<>> ELSE AfterOne(s, K, n, f[n - 1])]
<1>1. Len(s) \in Nat
  OBVIOUS
<1>2. F = [n \in 0..Len(s) |-> IF n = 0 THEN <<>> ELSE AfterOne(s, K, n, F[n - 1])]
  BY <1>1, KeptExists
<1>3. Chosen(s, K) = F[Len(s)]
  BY DEF Chosen, AfterOne
<1> HIDE DEF F
<1>4. KeptBy(s, K, Len(s), F)
  <2>1. F[0] = <<>>
    BY <1>1, <1>2
  <2>2. ASSUME NEW n \in 1..Len(s) PROVE F[n] = AfterOne(s, K, n, F[n - 1])
    BY <1>1, <1>2
  <2> QED
    BY <2>1, <2>2 DEF KeptBy
<1> QED
  BY <1>3, <1>4

\* What is kept of a list depends on the test only for its elements.
LEMMA ChosenSame ==
    ASSUME NEW S, NEW s \in Seq(S), NEW K, NEW L, \A x \in S : In(x, s) => (x \in K <=> x \in L)
    PROVE  Chosen(s, K) = Chosen(s, L)
<1>1. PICK f : KeptBy(s, K, Len(s), f) /\ Chosen(s, K) = f[Len(s)]
  BY ChosenKept
<1>2. PICK g : KeptBy(s, L, Len(s), g) /\ Chosen(s, L) = g[Len(s)]
  BY ChosenKept
<1>3. Len(s) \in Nat /\ \A n \in 1..Len(s) : s[n] \in K <=> s[n] \in L
  BY DEF In
<1>4. \A n \in 0..Len(s) : f[n] = g[n]
  BY <1>1, <1>2, <1>3, KeptAgree
<1> QED
  BY <1>1, <1>2, <1>3, <1>4

\* Nothing is kept of the empty list.
LEMMA ChosenEmpty == ASSUME NEW K PROVE Chosen(<<>>, K) = <<>>
<1>1. <<>> \in Seq({}) /\ Len(<<>>) = 0
  OBVIOUS
<1>2. PICK f : KeptBy(<<>>, K, Len(<<>>), f) /\ Chosen(<<>>, K) = f[Len(<<>>)]
  BY <1>1, ChosenKept
<1> QED
  BY <1>1, <1>2 DEF KeptBy

\* An element more at the end.
LEMMA ChosenAppend ==
    ASSUME NEW S, NEW s \in Seq(S), NEW x \in S, NEW K
    PROVE  Chosen(Append(s, x), K) =
             IF x \in K THEN Append(Chosen(s, K), x) ELSE Chosen(s, K)
<1>1. PICK n \in Nat : n = Len(s)
  OBVIOUS
<1>2. PICK r : r = Append(s, x)
  OBVIOUS
<1>3. r \in Seq(S) /\ Len(r) = n + 1 /\ r[n + 1] = x /\ \A i \in 1..n : r[i] = s[i]
  BY <1>1, <1>2
<1>4. PICK f : KeptBy(s, K, n, f) /\ Chosen(s, K) = f[n]
  BY <1>1, ChosenKept
<1>5. PICK g : KeptBy(r, K, n + 1, g) /\ Chosen(r, K) = g[n + 1]
  <2>1. \E g : KeptBy(r, K, Len(r), g) /\ Chosen(r, K) = g[Len(r)]
    BY <1>3, ChosenKept
  <2> QED
    BY <2>1, <1>3
<1>6. KeptBy(r, K, n, g)
  BY <1>5 DEF KeptBy
<1>7. f[n] = g[n]
  <2>1. \A k \in 1..n : s[k] = r[k] /\ (s[k] \in K <=> r[k] \in K)
    BY <1>3
  <2>2. KeptBy(s, K, n, f)
    BY <1>4
  <2>3. \A k \in 0..n : f[k] = g[k]
    BY <2>1, <2>2, <1>6, KeptAgree
  <2> QED
    BY <2>3
<1>8. g[n + 1] = AfterOne(r, K, n + 1, g[n])
  <2>1. n + 1 \in 1..(n + 1) /\ (n + 1) - 1 = n
    OBVIOUS
  <2> QED
    BY <2>1, <1>5 DEF KeptBy
<1> QED
  BY <1>2, <1>3, <1>4, <1>5, <1>7, <1>8 DEF AfterOne

-----------------------------------------------------------------------------
\* A set of lists that has no empty one, and with each of its lists also that
\* without the last element, is empty.
LEMMA NoLeastList ==
    ASSUME NEW S, NEW B \in SUBSET Seq(S), <<>> \notin B,
           \A s \in Seq(S), x \in S : Append(s, x) \in B => s \in B
    PROVE  B = {}
<1> DEFINE T == {Len(s) : s \in B}
<1> SUFFICES ASSUME B # {} PROVE FALSE
  OBVIOUS
<1>1. PICK n \in T : \A k \in T : n <= k
  <2>1. \A s \in B : Len(s) \in Nat
    OBVIOUS
  <2>2. PICK b \in B : TRUE
    OBVIOUS
  <2>3. Len(b) \in T
    OBVIOUS
  <2>4. \A k \in T : k \in Nat
    BY <2>1
  <2> HIDE DEF T
  <2>5. T \in SUBSET Nat /\ T # {}
    BY <2>3, <2>4
  <2> QED
    BY <2>5, LeastElement
<1>2. PICK s \in B : Len(s) = n
  BY <1>1
<1>3. s \in Seq(S) /\ s # <<>>
  BY <1>2
<1>4. PICK m \in Nat : n = m + 1
  <2>1. Len(s) \in Nat \ {0}
    BY <1>3
  <2>2. Len(s) - 1 \in Nat /\ Len(s) = (Len(s) - 1) + 1
    BY <2>1
  <2> QED
    BY <2>2, <1>2
<1>5. PICK r : r = [i \in 1..m |-> s[i]]
  OBVIOUS
<1>6. r \in Seq(S) /\ Len(r) = m
  <2>1. \A i \in 1..m : s[i] \in S
    BY <1>2, <1>3, <1>4
  <2>2. r \in [1..m -> S]
    BY <1>5, <2>1
  <2> QED
    BY <2>2
<1>7. s[n] \in S /\ Append(r, s[n]) = s
  <2>1. s[n] \in S
    BY <1>2, <1>3, <1>4
  <2>2. PICK q : q = Append(r, s[n])
    OBVIOUS
  <2>3. q \in Seq(S) /\ Len(q) = n /\ q[n] = s[n] /\ \A i \in 1..m : q[i] = s[i]
    BY <1>4, <1>5, <1>6, <2>1, <2>2
  <2>4. \A i \in 1..Len(s) : q[i] = s[i]
    BY <1>2, <1>4, <2>3
  <2>5. q = s
    BY <1>2, <1>3, <2>3, <2>4
  <2> QED
    BY <2>1, <2>2, <2>5
<1>8. r \in B
  <2>1. r \in Seq(S) /\ s[n] \in S /\ Append(r, s[n]) \in B
    BY <1>2, <1>6, <1>7
  <2> QED
    BY <2>1
<1>9. m \in T
  BY <1>6, <1>8
<1>10. n <= m
  BY <1>1, <1>9
<1> QED
  BY <1>4, <1>10

\* p tells where in s each element of r was; the order of s is that of r, and
\* what is left out of s is not in K.
PlacedBy(s, K, r, p) ==
    /\ p \in [1..Len(r) -> 1..Len(s)]
    /\ \A i \in 1..Len(r) : r[i] = s[p[i]] /\ r[i] \in K
    /\ \A i, j \in 1..Len(r) : i < j => p[i] < p[j]
    /\ \A k \in 1..Len(s) : s[k] \in K => \E i \in 1..Len(r) : p[i] = k

Placed(s, K, r) == \E p : PlacedBy(s, K, r, p)

\* One element more in the list.
LEMMA PlacedMore ==
    ASSUME NEW S, NEW K, NEW s \in Seq(S), NEW r \in Seq(S), NEW x \in S, Placed(s, K, r)
    PROVE  Placed(Append(s, x), K, IF x \in K THEN Append(r, x) ELSE r)
<1>1. PICK p : PlacedBy(s, K, r, p)
  BY DEF Placed
<1>2. PICK n \in Nat, m \in Nat : n = Len(s) /\ m = Len(r)
  OBVIOUS
<1>3. PICK t : t = Append(s, x)
  OBVIOUS
<1>4. t \in Seq(S) /\ Len(t) = n + 1 /\ t[n + 1] = x /\ \A i \in 1..n : t[i] = s[i]
  BY <1>2, <1>3
<1>5. /\ p \in [1..m -> 1..n]
      /\ \A i \in 1..m : r[i] = s[p[i]] /\ r[i] \in K
      /\ \A i, j \in 1..m : i < j => p[i] < p[j]
      /\ \A k \in 1..n : s[k] \in K => \E i \in 1..m : p[i] = k
  BY <1>1, <1>2 DEF PlacedBy
<1>6. CASE x \notin K
  <2>1. PlacedBy(t, K, r, p)
    BY <1>2, <1>4, <1>5, <1>6 DEF PlacedBy
  <2> QED
    BY <1>3, <1>6, <2>1 DEF Placed
<1>7. CASE x \in K
  <2>1. PICK u : u = Append(r, x)
    OBVIOUS
  <2>2. u \in Seq(S) /\ Len(u) = m + 1 /\ u[m + 1] = x /\ \A i \in 1..m : u[i] = r[i]
    BY <1>2, <2>1
  <2>3. PICK q : q = [i \in 1..(m + 1) |-> IF i = m + 1 THEN n + 1 ELSE p[i]]
    OBVIOUS
  <2>4. q[m + 1] = n + 1 /\ \A i \in 1..m : q[i] = p[i] /\ p[i] \in 1..n
    BY <1>5, <2>3
  <2>5. \A i \in 1..(m + 1) : i = m + 1 \/ i \in 1..m
    OBVIOUS
  <2>6. q \in [1..(m + 1) -> 1..(n + 1)]
    <3>1. \A i \in 1..(m + 1) : q[i] \in 1..(n + 1)
      BY <2>4, <2>5
    <3> QED
      BY <2>3, <3>1
  <2>7. ASSUME NEW i \in 1..(m + 1) PROVE u[i] = t[q[i]] /\ u[i] \in K
    <3>1. CASE i = m + 1
      BY <1>4, <1>7, <2>2, <2>4, <3>1
    <3>2. CASE i \in 1..m
      <4>1. q[i] = p[i] /\ p[i] \in 1..n /\ u[i] = r[i]
        BY <2>2, <2>4, <3>2
      <4>2. t[p[i]] = s[p[i]] /\ r[i] = s[p[i]] /\ r[i] \in K
        BY <1>4, <1>5, <3>2, <4>1
      <4> QED
        BY <4>1, <4>2
    <3> QED
      BY <2>5, <3>1, <3>2
  <2>8. ASSUME NEW i \in 1..(m + 1), NEW j \in 1..(m + 1), i < j PROVE q[i] < q[j]
    <3>1. i \in 1..m
      BY <2>8
    <3>2. q[i] = p[i] /\ p[i] \in 1..n
      BY <2>4, <3>1
    <3>3. CASE j = m + 1
      BY <2>4, <3>2, <3>3
    <3>4. CASE j \in 1..m
      <4>1. q[j] = p[j] /\ p[i] < p[j]
        BY <1>5, <2>4, <2>8, <3>1, <3>4
      <4> QED
        BY <3>2, <4>1
    <3> QED
      BY <2>5, <3>3, <3>4
  <2>9. ASSUME NEW k \in 1..(n + 1), t[k] \in K PROVE \E i \in 1..(m + 1) : q[i] = k
    <3>1. CASE k = n + 1
      BY <2>4, <3>1
    <3>2. CASE k \in 1..n
      <4>1. PICK i \in 1..m : p[i] = k
        BY <1>4, <1>5, <2>9, <3>2
      <4> QED
        BY <4>1, <2>4
    <3> QED
      BY <3>1, <3>2
  <2>10. PlacedBy(t, K, u, q)
    BY <1>4, <2>2, <2>6, <2>7, <2>8, <2>9 DEF PlacedBy
  <2> QED
    BY <1>3, <1>7, <2>1, <2>10 DEF Placed
<1> QED
  BY <1>6, <1>7

\* What Chosen keeps: the elements of the list that are in K, in their order.
LEMMA ChosenPlaced ==
    ASSUME NEW S, NEW s \in Seq(S), NEW K
    PROVE  Chosen(s, K) \in Seq(S) /\ Placed(s, K, Chosen(s, K))
<1> DEFINE B == {t \in Seq(S) : ~(Chosen(t, K) \in Seq(S) /\ Placed(t, K, Chosen(t, K)))}
<1>1. <<>> \notin B
  <2>1. Chosen(<<>>, K) = <<>>
    BY ChosenEmpty
  <2>2. PICK p : p = [i \in {} |-> 0]
    OBVIOUS
  <2>3. PlacedBy(<<>>, K, <<>>, p)
    BY <2>2 DEF PlacedBy
  <2> QED
    BY <2>1, <2>3 DEF Placed
<1>2. ASSUME NEW t \in Seq(S), NEW x \in S, Append(t, x) \in B PROVE t \in B
  <2>1. SUFFICES ASSUME Chosen(t, K) \in Seq(S) /\ Placed(t, K, Chosen(t, K)) PROVE FALSE
    OBVIOUS
  <2>2. PICK c \in Seq(S) : c = Chosen(t, K)
    BY <2>1
  <2>3. Chosen(Append(t, x), K) = IF x \in K THEN Append(c, x) ELSE c
    BY <2>2, ChosenAppend
  <2>4. Placed(Append(t, x), K, IF x \in K THEN Append(c, x) ELSE c)
    BY <2>1, <2>2, PlacedMore
  <2>5. (IF x \in K THEN Append(c, x) ELSE c) \in Seq(S)
    OBVIOUS
  <2> QED
    BY <1>2, <2>3, <2>4, <2>5
<1>3. B = {}
  <2>1. B \in SUBSET Seq(S)
    OBVIOUS
  <2> HIDE DEF B
  <2> QED
    BY <1>1, <1>2, <2>1, NoLeastList
<1> QED
  BY <1>3

\* A list behind another.
LEMMA ChosenConcat ==
    ASSUME NEW S, NEW s \in Seq(S), NEW t \in Seq(S), NEW K
    PROVE  Chosen(s \o t, K) = Chosen(s, K) \o Chosen(t, K)
<1> DEFINE B == {r \in Seq(S) : Chosen(s \o r, K) # Chosen(s, K) \o Chosen(r, K)}
<1>0. \A r \in Seq(S) : Chosen(r, K) \in Seq(S)
  BY ChosenPlaced
<1>1. <<>> \notin B
  <2>1. Chosen(<<>>, K) = <<>> /\ s \o <<>> = s
    BY ChosenEmpty
  <2>2. Chosen(s, K) \o <<>> = Chosen(s, K)
    BY <1>0
  <2> QED
    BY <2>1, <2>2
<1>2. ASSUME NEW r \in Seq(S), NEW x \in S, Append(r, x) \in B PROVE r \in B
  <2>1. SUFFICES ASSUME Chosen(s \o r, K) = Chosen(s, K) \o Chosen(r, K) PROVE FALSE
    OBVIOUS
  <2>2. s \o r \in Seq(S) /\ s \o Append(r, x) = Append(s \o r, x)
    OBVIOUS
  <2>3. PICK c \in Seq(S), d \in Seq(S) : c = Chosen(s, K) /\ d = Chosen(r, K)
    BY <1>0
  <2>4. Chosen(s \o Append(r, x), K) = IF x \in K THEN Append(c \o d, x) ELSE c \o d
    <3>1. PICK w \in Seq(S) : w = s \o r
      BY <2>2
    <3>2. Chosen(Append(w, x), K) = IF x \in K THEN Append(Chosen(w, K), x) ELSE Chosen(w, K)
      BY ChosenAppend
    <3>3. Chosen(w, K) = c \o d
      BY <2>1, <2>3, <3>1
    <3> QED
      BY <2>2, <3>1, <3>2, <3>3
  <2>5. Chosen(Append(r, x), K) = IF x \in K THEN Append(d, x) ELSE d
    BY <2>3, ChosenAppend
  <2>6. c \o Append(d, x) = Append(c \o d, x)
    OBVIOUS
  <2>7. Chosen(s \o Append(r, x), K) = Chosen(s, K) \o Chosen(Append(r, x), K)
    BY <2>3, <2>4, <2>5, <2>6
  <2> QED
    BY <1>2, <2>7
<1>3. B = {}
  <2>1. B \in SUBSET Seq(S)
    OBVIOUS
  <2> HIDE DEF B
  <2> QED
    BY <1>1, <1>2, <2>1, NoLeastList
<1> QED
  BY <1>3

\* A list of one element.
LEMMA ChosenOne ==
    ASSUME NEW x, NEW K PROVE Chosen(<<x>>, K) = IF x \in K THEN <<x>> ELSE <<>>
<1>1. <<>> \in Seq({x}) /\ x \in {x} /\ Append(<<>>, x) = <<x>>
  OBVIOUS
<1>2. Chosen(<<>>, K) = <<>>
  BY ChosenEmpty
<1>3. PICK e \in Seq({x}) : e = <<>>
  BY <1>1
<1>4. Chosen(Append(e, x), K) = IF x \in K THEN Append(Chosen(e, K), x) ELSE Chosen(e, K)
  BY <1>1, ChosenAppend
<1> QED
  BY <1>1, <1>2, <1>3, <1>4

\* What is kept is in the list and in K, and all of that is kept.
LEMMA ChosenIn ==
    ASSUME NEW S, NEW s \in Seq(S), NEW K
    PROVE  /\ Chosen(s, K) \in Seq(S)
           /\ \A x : In(x, Chosen(s, K)) <=> x \in K /\ In(x, s)
<1>1. PICK r \in Seq(S) : r = Chosen(s, K) /\ Placed(s, K, r)
  BY ChosenPlaced
<1>2. PICK p : PlacedBy(s, K, r, p)
  BY <1>1 DEF Placed
<1>3. DOMAIN r = 1..Len(r) /\ DOMAIN s = 1..Len(s)
  OBVIOUS
<1>4. ASSUME NEW x, In(x, r) PROVE x \in K /\ In(x, s)
  BY <1>2, <1>3, <1>4 DEF In, PlacedBy
<1>5. ASSUME NEW x \in K, In(x, s) PROVE In(x, r)
  BY <1>2, <1>3, <1>5 DEF In, PlacedBy
<1> QED
  BY <1>1, <1>4, <1>5

\* One element more at the front.
LEMMA ChosenFront ==
    ASSUME NEW S, NEW s \in Seq(S), NEW x \in S, NEW K
    PROVE  Chosen(<<x>> \o s, K) = IF x \in K THEN <<x>> \o Chosen(s, K) ELSE Chosen(s, K)
<1>1. PICK e \in Seq(S) : e = <<x>>
  <2>1. <<x>> \in Seq(S)
    OBVIOUS
  <2> QED
    BY <2>1
<1>2. Chosen(e \o s, K) = Chosen(e, K) \o Chosen(s, K)
  BY ChosenConcat
<1>3. Chosen(e, K) = IF x \in K THEN <<x>> ELSE <<>>
  BY <1>1, ChosenOne
<1>4. PICK c \in Seq(S) : c = Chosen(s, K)
  BY ChosenPlaced
<1>5. <<>> \o c = c
  OBVIOUS
<1> QED
  BY <1>1, <1>2, <1>3, <1>4, <1>5

\* The list is nothing but its two lanes, the first before the other.
TwoLanesOf(list, K, L) == list = Chosen(list, K) \o Chosen(list, L)

\* It stays so when an element of the first lane is pushed to the front.
LEMMA LanesPushedFront ==
    ASSUME NEW S, NEW s \in Seq(S), NEW K, NEW L, K \cap L = {}, TwoLanesOf(s, K, L),
           NEW x \in S, x \in K
    PROVE  /\ Chosen(<<x>> \o s, K) = <<x>> \o Chosen(s, K)
           /\ Chosen(<<x>> \o s, L) = Chosen(s, L)
           /\ TwoLanesOf(<<x>> \o s, K, L)
<1>1. PICK c \in Seq(S), d \in Seq(S) : c = Chosen(s, K) /\ d = Chosen(s, L)
  BY ChosenPlaced
<1>2. s = c \o d
  BY <1>1 DEF TwoLanesOf
<1>3. <<x>> \o (c \o d) = (<<x>> \o c) \o d
  OBVIOUS
<1>4. Chosen(<<x>> \o s, K) = <<x>> \o c /\ Chosen(<<x>> \o s, L) = d
  BY <1>1, ChosenFront
<1> QED
  BY <1>1, <1>2, <1>3, <1>4 DEF TwoLanesOf

\* The same for the back.
LEMMA LanesPushedBack ==
    ASSUME NEW S, NEW s \in Seq(S), NEW K, NEW L, K \cap L = {}, TwoLanesOf(s, K, L),
           NEW x \in S, x \in L
    PROVE  /\ Chosen(Append(s, x), K) = Chosen(s, K)
           /\ Chosen(Append(s, x), L) = Append(Chosen(s, L), x)
           /\ TwoLanesOf(Append(s, x), K, L)
<1>1. PICK c \in Seq(S), d \in Seq(S) : c = Chosen(s, K) /\ d = Chosen(s, L)
  BY ChosenPlaced
<1>2. s = c \o d
  BY <1>1 DEF TwoLanesOf
<1>3. Append(c \o d, x) = c \o Append(d, x)
  OBVIOUS
<1>4. Chosen(Append(s, x), K) = c /\ Chosen(Append(s, x), L) = Append(d, x)
  BY <1>1, ChosenAppend
<1> QED
  BY <1>1, <1>2, <1>3, <1>4 DEF TwoLanesOf

\* The front of the list is that of its first lane, if that has any.
LEMMA LanesTaken ==
    ASSUME NEW S, NEW s \in Seq(S), s # <<>>, NEW K, NEW L, K \cap L = {}, S \subseteq K \cup L,
           TwoLanesOf(s, K, L)
    PROVE  /\ TwoLanesOf(Tail(s), K, L)
           /\ Head(s) \in K => /\ Chosen(s, K) # <<>>
                               /\ Chosen(Tail(s), K) = Tail(Chosen(s, K))
                               /\ Chosen(Tail(s), L) = Chosen(s, L)
           /\ Head(s) \notin K => /\ Chosen(s, K) = <<>> /\ Chosen(s, L) # <<>>
                                  /\ Chosen(Tail(s), K) = Chosen(s, K)
                                  /\ Chosen(Tail(s), L) = Tail(Chosen(s, L))
<1>1. PICK h \in S, r \in Seq(S) : h = Head(s) /\ r = Tail(s) /\ s = <<h>> \o r
  <2>1. Head(s) \in S /\ Tail(s) \in Seq(S) /\ s = <<Head(s)>> \o Tail(s)
    OBVIOUS
  <2> QED
    BY <2>1
<1>2. PICK c \in Seq(S), d \in Seq(S) : c = Chosen(r, K) /\ d = Chosen(r, L)
  BY ChosenPlaced
<1>3. /\ Chosen(s, K) = IF h \in K THEN <<h>> \o c ELSE c
      /\ Chosen(s, L) = IF h \in L THEN <<h>> \o d ELSE d
  <2>1. Chosen(<<h>> \o r, K) = IF h \in K THEN <<h>> \o Chosen(r, K) ELSE Chosen(r, K)
    BY ONLY h \in S, r \in Seq(S), ChosenFront
  <2>2. Chosen(<<h>> \o r, L) = IF h \in L THEN <<h>> \o Chosen(r, L) ELSE Chosen(r, L)
    BY ONLY h \in S, r \in Seq(S), ChosenFront
  <2> QED
    BY <1>1, <1>2, <2>1, <2>2
<1>4. /\ <<h>> \o c # <<>> /\ Tail(<<h>> \o c) = c
      /\ <<h>> \o d # <<>> /\ Tail(<<h>> \o d) = d
  OBVIOUS
<1>5. CASE h \in K
  <2>1. s = (<<h>> \o c) \o d
    BY <1>3, <1>5 DEF TwoLanesOf
  <2>2. Tail((<<h>> \o c) \o d) = c \o d
    OBVIOUS
  <2>3. TwoLanesOf(r, K, L)
    BY <1>1, <1>2, <2>1, <2>2 DEF TwoLanesOf
  <2> QED
    BY <1>1, <1>2, <1>3, <1>4, <1>5, <2>3
<1>6. CASE h \notin K
  <2>1. s = c \o (<<h>> \o d) /\ h \in L
    BY <1>3, <1>6 DEF TwoLanesOf
  <2>2. c = <<>>
    <3>1. SUFFICES ASSUME c # <<>> PROVE FALSE
      OBVIOUS
    <3>2. Head(c \o (<<h>> \o d)) = c[1] /\ 1 \in DOMAIN c
      BY <3>1
    <3>3. c[1] = h
      BY <1>1, <2>1, <3>2
    <3>4. In(h, c)
      BY <3>2, <3>3 DEF In
    <3>5. h \in K
      BY <1>2, <3>4, ChosenIn
    <3> QED
      BY <1>6, <3>5
  <2>3. s = <<h>> \o d
    BY <2>1, <2>2
  <2>4. r = d /\ d = <<>> \o d
    BY <1>1, <1>4, <2>3
  <2>5. TwoLanesOf(r, K, L)
    BY <1>2, <2>2, <2>4 DEF TwoLanesOf
  <2> QED
    BY <1>1, <1>2, <1>3, <1>4, <1>6, <2>1, <2>2, <2>5
<1> QED
  BY <1>5, <1>6

-----------------------------------------------------------------------------
(***************************************************************************)
(* Lists that differ by one thing.                                         *)
(***************************************************************************)
\* b is a with x put at its n-th place
PutInto(S, a, b, n, x) ==
    \E p, q \in Seq(S) : a = p \o q /\ b = (p \o <<x>>) \o q /\ n = Len(p) + 1

\* A list behind another.
LEMMA JoinedLists ==
    ASSUME NEW S, NEW p \in Seq(S), NEW q \in Seq(S), NEW r, r = p \o q
    PROVE  /\ r \in Seq(S) /\ Len(p) \in Nat /\ Len(q) \in Nat /\ Len(r) = Len(p) + Len(q)
           /\ \A i \in 1..Len(p) : r[i] = p[i]
           /\ \A i \in 1..Len(q) : r[Len(p) + i] = q[i]
  OBVIOUS

\* The same of r by name.
Joins(p, q, r) == r = p \o q

\* The places of the two lists.
LEMMA JoinedPlaces ==
    ASSUME NEW S, NEW p \in Seq(S), NEW q \in Seq(S), NEW r, Joins(p, q, r)
    PROVE  /\ r \in Seq(S) /\ Len(p) \in Nat /\ Len(q) \in Nat /\ Len(r) = Len(p) + Len(q)
           /\ \A i \in 1..Len(p) : r[i] = p[i]
           /\ \A i \in 1..Len(q) : r[Len(p) + i] = q[i]
  BY JoinedLists DEF Joins

\* A list of one.
LEMMA OneLong ==
    ASSUME NEW S, NEW x \in S
    PROVE  <<x>> \in Seq(S) /\ Len(<<x>>) = 1 /\ <<x>>[1] = x
  OBVIOUS

\* One thing behind a list.
LEMMA JoinedOne ==
    ASSUME NEW S, NEW x \in S, NEW p \in Seq(S), NEW r, r = p \o <<x>>
    PROVE  r \in Seq(S) /\ Len(p) \in Nat /\ Len(r) = Len(p) + 1 /\ r[Len(p) + 1] = x
           /\ \A i \in 1..Len(p) : r[i] = p[i]
<1>1. PICK e : e = <<x>>
  OBVIOUS
<1>2. e \in Seq(S) /\ Len(e) = 1 /\ e[1] = x
  BY <1>1, OneLong
<1>3. Joins(p, e, r)
  BY <1>1 DEF Joins
<1>4. /\ r \in Seq(S) /\ Len(p) \in Nat /\ Len(r) = Len(p) + Len(e)
      /\ \A i \in 1..Len(p) : r[i] = p[i]
      /\ \A i \in 1..Len(e) : r[Len(p) + i] = e[i]
  BY <1>2, <1>3, JoinedPlaces
<1>5. 1 \in 1..Len(e)
  BY <1>2
<1> QED
  BY <1>2, <1>4, <1>5

\* Place by place.
LEMMA PutPlaces ==
    ASSUME NEW S, NEW x \in S, NEW a, NEW b, NEW n, PutInto(S, a, b, n, x)
    PROVE  /\ a \in Seq(S) /\ b \in Seq(S) /\ Len(a) \in Nat /\ Len(b) = Len(a) + 1
           /\ n \in 1..(Len(a) + 1) /\ n \in Nat /\ b[n] = x
           /\ \A i \in 1..(n - 1) : b[i] = a[i]
           /\ \A i \in n..Len(a) : b[i + 1] = a[i]
<1>1. PICK p \in Seq(S), q \in Seq(S) : a = p \o q /\ b = (p \o <<x>>) \o q /\ n = Len(p) + 1
  BY DEF PutInto
<1>2. PICK k \in Nat, m \in Nat : k = Len(p) /\ m = Len(q)
  OBVIOUS
<1>3. PICK r : r = p \o <<x>>
  OBVIOUS
<1>4. r \in Seq(S) /\ Len(r) = k + 1 /\ r[k + 1] = x /\ \A i \in 1..k : r[i] = p[i]
  BY <1>2, <1>3, JoinedOne
<1>5. /\ a \in Seq(S) /\ Len(a) = k + m
      /\ \A i \in 1..k : a[i] = p[i]
      /\ \A i \in 1..m : a[k + i] = q[i]
  BY <1>1, <1>2, JoinedLists
<1>6. b = r \o q
  BY <1>1, <1>3
<1>7. /\ b \in Seq(S) /\ Len(b) = k + 1 + m
      /\ \A i \in 1..(k + 1) : b[i] = r[i]
      /\ \A i \in 1..m : b[k + 1 + i] = q[i]
  <2>1. PICK l : l = k + 1 /\ l = Len(r)
    BY <1>4
  <2>2. /\ b \in Seq(S) /\ Len(b) = l + m
        /\ \A i \in 1..l : b[i] = r[i]
        /\ \A i \in 1..m : b[l + i] = q[i]
    <3>1. /\ b \in Seq(S) /\ Len(b) = Len(r) + Len(q)
          /\ \A i \in 1..Len(r) : b[i] = r[i]
          /\ \A i \in 1..Len(q) : b[Len(r) + i] = q[i]
      <4>1. r \in Seq(S)
        BY <1>4
      <4> QED
        BY <4>1, <1>6
    <3> QED
      BY <1>2, <2>1, <3>1
  <2> QED
    BY <2>1, <2>2
<1>8. b[n] = x
  BY <1>1, <1>2, <1>4, <1>7
<1>9. ASSUME NEW i \in 1..(n - 1) PROVE b[i] = a[i]
  BY <1>1, <1>2, <1>4, <1>5, <1>7
<1>10. ASSUME NEW i \in n..Len(a) PROVE b[i + 1] = a[i]
  <2>1. i - k \in 1..m /\ k + (i - k) = i /\ k + 1 + (i - k) = i + 1
    BY <1>1, <1>2, <1>5
  <2>2. a[k + (i - k)] = q[i - k] /\ b[k + 1 + (i - k)] = q[i - k]
    BY <1>5, <1>7, <2>1
  <2> QED
    BY <2>1, <2>2
<1> QED
  BY <1>1, <1>2, <1>5, <1>7, <1>8, <1>9, <1>10

\* Behind another list, and before one.
LEMMA PutBehind ==
    ASSUME NEW S, NEW x \in S, NEW a, NEW b, NEW n, PutInto(S, a, b, n, x), NEW c \in Seq(S)
    PROVE  PutInto(S, c \o a, c \o b, Len(c) + n, x)
<1>1. PICK p \in Seq(S), q \in Seq(S) : a = p \o q /\ b = (p \o <<x>>) \o q /\ n = Len(p) + 1
  BY DEF PutInto
<1>2. PICK r : r = c \o p
  OBVIOUS
<1>r. r \in Seq(S)
  BY <1>2
<1>3. c \o (p \o q) = r \o q
  BY <1>2
<1>4. PICK e : e = <<x>> /\ e \in Seq(S)
  BY OneLong
<1>5. c \o ((p \o e) \o q) = (r \o e) \o q
  BY <1>2, <1>4
<1>6. Len(r) = Len(c) + Len(p) /\ Len(c) \in Nat /\ Len(p) \in Nat
  BY <1>2
<1>7. Len(c) + n = Len(r) + 1
  BY <1>1, <1>6
<1> QED
  BY <1>1, <1>3, <1>4, <1>5, <1>7, <1>r DEF PutInto

\* The same before a third list.
LEMMA PutBefore ==
    ASSUME NEW S, NEW x \in S, NEW a, NEW b, NEW n, PutInto(S, a, b, n, x), NEW c \in Seq(S)
    PROVE  PutInto(S, a \o c, b \o c, n, x)
<1>1. PICK p \in Seq(S), q \in Seq(S) : a = p \o q /\ b = (p \o <<x>>) \o q /\ n = Len(p) + 1
  BY DEF PutInto
<1>2. PICK r : r = q \o c /\ r \in Seq(S)
  BY JoinedLists
<1>3. (p \o q) \o c = p \o r
  BY <1>2
<1>4. PICK e : e = p \o <<x>> /\ e \in Seq(S)
  BY OneLong, JoinedLists
<1>5. (e \o q) \o c = e \o r
  BY <1>2, <1>4
<1>6. a \o c = p \o r /\ b \o c = (p \o <<x>>) \o r
  BY <1>1, <1>3, <1>4, <1>5
<1> QED
  BY <1>1, <1>2, <1>6 DEF PutInto

\* In a larger set.
LEMMA PutWider ==
    ASSUME NEW S, NEW x \in S, NEW a, NEW b, NEW n, PutInto(S, a, b, n, x), NEW T, S \subseteq T
    PROVE  PutInto(T, a, b, n, x)
<1>1. PICK p \in Seq(S), q \in Seq(S) : a = p \o q /\ b = (p \o <<x>>) \o q /\ n = Len(p) + 1
  BY DEF PutInto
<1>2. p \in Seq(T) /\ q \in Seq(T)
  OBVIOUS
<1> QED
  BY <1>1, <1>2 DEF PutInto

\* At the end.
LEMMA PutLast ==
    ASSUME NEW S, NEW x \in S, NEW s \in Seq(S)
    PROVE  PutInto(S, s, Append(s, x), Len(s) + 1, x)
<1>0. <<>> \in Seq(S)
  OBVIOUS
<1>1. PICK e : e = <<>> /\ e \in Seq(S)
  BY <1>0
<1>2. s \o e = s
  BY <1>1
<1>3. PICK r : r = s \o <<x>> /\ r \in Seq(S)
  BY OneLong, JoinedLists
<1>4. r \o e = r
  BY <1>1
<1>5. r = Append(s, x)
  BY <1>3
<1>6. s = s \o e /\ Append(s, x) = (s \o <<x>>) \o e
  BY <1>2, <1>3, <1>4, <1>5
<1> QED
  BY <1>1, <1>6 DEF PutInto

\* At the front.
LEMMA PutFirst ==
    ASSUME NEW S, NEW x \in S, NEW s \in Seq(S)
    PROVE  PutInto(S, s, <<x>> \o s, 1, x)
<1>0. <<>> \in Seq(S)
  OBVIOUS
<1>1. PICK e : e = <<>> /\ e \in Seq(S)
  BY <1>0
<1>2. e \o s = s /\ Len(e) = 0
  BY <1>1
<1>3. PICK r : r = <<x>> /\ r \in Seq(S)
  BY OneLong
<1>4. e \o r = r
  BY <1>1
<1>5. s = e \o s /\ <<x>> \o s = (e \o <<x>>) \o s /\ 1 = Len(e) + 1
  BY <1>2, <1>3, <1>4
<1> QED
  BY <1>1, <1>5 DEF PutInto

\* A list is what is before one of its elements, that and what is behind it.
SplitAt(s, k, p, q) ==
    /\ s = (p \o <<s[k]>>) \o q /\ Len(p) = k - 1 /\ Len(q) = Len(s) - k
    /\ \A i \in 1..(k - 1) : p[i] = s[i]
    /\ \A i \in 1..(Len(s) - k) : q[i] = s[k + i]

\* Every list can be split so.
LEMMA ListSplit ==
    ASSUME NEW S, NEW s \in Seq(S), NEW k \in 1..Len(s)
    PROVE  \E p \in Seq(S), q \in Seq(S) : SplitAt(s, k, p, q)
<1>1. PICK n \in Nat : n = Len(s) /\ k \in 1..n /\ k \in Nat /\ s[k] \in S
  OBVIOUS
<1>2. PICK p : p = SubSeq(s, 1, k - 1)
  OBVIOUS
<1>3. p \in Seq(S) /\ Len(p) = k - 1 /\ \A i \in 1..(k - 1) : p[i] = s[i]
  BY <1>1, <1>2
<1>4. PICK q : q = SubSeq(s, k + 1, n)
  OBVIOUS
<1>5. q \in Seq(S) /\ Len(q) = n - k /\ \A i \in 1..(n - k) : q[i] = s[k + i]
  BY <1>1, <1>4
<1>6. PICK r : r = p \o <<s[k]>>
  OBVIOUS
<1>7. r \in Seq(S) /\ Len(r) = k /\ r[k] = s[k] /\ \A i \in 1..(k - 1) : r[i] = p[i]
  <2>1. /\ r \in Seq(S) /\ Len(p) \in Nat /\ Len(r) = Len(p) + 1 /\ r[Len(p) + 1] = s[k]
        /\ \A i \in 1..Len(p) : r[i] = p[i]
    BY <1>1, <1>3, <1>6, JoinedOne
  <2>2. Len(p) = k - 1 /\ Len(p) + 1 = k
    BY <1>1, <1>3
  <2> QED
    BY <2>1, <2>2
<1>8. PICK t : t = r \o q
  OBVIOUS
<1>9. /\ t \in Seq(S) /\ Len(t) = n
      /\ \A i \in 1..k : t[i] = r[i]
      /\ \A i \in 1..(n - k) : t[k + i] = q[i]
  <2>1. PICK m : m = n - k /\ m = Len(q)
    BY <1>5
  <2>2. /\ t \in Seq(S) /\ Len(t) = k + m
        /\ \A i \in 1..k : t[i] = r[i]
        /\ \A i \in 1..m : t[k + i] = q[i]
    <3>1. /\ t \in Seq(S) /\ Len(t) = Len(r) + Len(q)
          /\ \A i \in 1..Len(r) : t[i] = r[i]
          /\ \A i \in 1..Len(q) : t[Len(r) + i] = q[i]
      <4>1. r \in Seq(S) /\ q \in Seq(S)
        BY <1>5, <1>7
      <4> QED
        BY <4>1, <1>8
    <3> QED
      BY <1>7, <2>1, <3>1
  <2> QED
    BY <1>1, <2>1, <2>2
<1>10. ASSUME NEW i \in 1..n PROVE t[i] = s[i]
  <2>1. CASE i < k
    BY <1>1, <1>3, <1>7, <1>9, <2>1
  <2>2. CASE i = k
    BY <1>7, <1>9, <2>2
  <2>3. CASE i > k
    <3>1. i - k \in 1..(n - k) /\ k + (i - k) = i
      BY <1>1, <2>3
    <3>2. t[k + (i - k)] = q[i - k]
      BY <1>9, <3>1
    <3>3. q[i - k] = s[k + (i - k)]
      BY <1>5, <3>1
    <3> QED
      BY <3>1, <3>2, <3>3
  <2> QED
    BY <1>1, <2>1, <2>2, <2>3
<1>11. t = s
  BY <1>1, <1>9, <1>10, SeqEqual
<1> QED
  BY <1>1, <1>3, <1>5, <1>6, <1>8, <1>11 DEF SplitAt

\* What was put at a place determines what was there before.
LEMMA PutBack ==
    ASSUME NEW S, NEW x \in S, NEW a, NEW b, NEW n, PutInto(S, a, b, n, x),
           NEW c, NEW y \in S, PutInto(S, c, b, n, y)
    PROVE  a = c
<1>1. /\ a \in Seq(S) /\ b \in Seq(S) /\ Len(a) \in Nat /\ Len(b) = Len(a) + 1
      /\ n \in 1..(Len(a) + 1) /\ n \in Nat
      /\ \A i \in 1..(n - 1) : b[i] = a[i]
      /\ \A i \in n..Len(a) : b[i + 1] = a[i]
  BY PutPlaces
<1>2. /\ c \in Seq(S) /\ Len(c) \in Nat /\ Len(b) = Len(c) + 1
      /\ \A i \in 1..(n - 1) : b[i] = c[i]
      /\ \A i \in n..Len(c) : b[i + 1] = c[i]
  BY PutPlaces
<1>3. Len(a) = Len(c)
  BY <1>1, <1>2
<1>4. \A i \in 1..Len(a) : a[i] = c[i]
  BY <1>1, <1>2, <1>3
<1> QED
  BY <1>1, <1>2, <1>3, <1>4, SeqEqual

\* What the operators of the library do.
LEMMA InsertAtPuts ==
    ASSUME NEW S, NEW x \in S, NEW s \in Seq(S), NEW n \in 1..(Len(s) + 1)
    PROVE  PutInto(S, s, InsertAt(s, n, x), n, x)
<1>1. PICK l \in Nat : l = Len(s) /\ n \in 1..(l + 1) /\ n \in Nat
  OBVIOUS
<1>2. PICK p : p = SubSeq(s, 1, n - 1)
  OBVIOUS
<1>3. p \in Seq(S) /\ Len(p) = n - 1 /\ \A i \in 1..(n - 1) : p[i] = s[i]
  BY <1>1, <1>2
<1>4. PICK q : q = SubSeq(s, n, l)
  OBVIOUS
<1>5. q \in Seq(S) /\ Len(q) = (l + 1) - n /\ \A i \in 1..((l + 1) - n) : q[i] = s[n + i - 1]
  BY <1>1, <1>4
<1>6. PICK t : t = p \o q
  OBVIOUS
<1>7. /\ t \in Seq(S) /\ Len(t) = Len(p) + Len(q)
      /\ \A i \in 1..Len(p) : t[i] = p[i]
      /\ \A i \in 1..Len(q) : t[Len(p) + i] = q[i]
  <2>1. p \in Seq(S) /\ q \in Seq(S)
    BY <1>3, <1>5
  <2> QED
    BY <1>6, <2>1
<1>8. ASSUME NEW i \in 1..l PROVE t[i] = s[i]
  <2>1. CASE i < n
    BY <1>1, <1>3, <1>7, <2>1
  <2>2. CASE i >= n
    <3>1. i - (n - 1) \in 1..((l + 1) - n) /\ (n - 1) + (i - (n - 1)) = i
          /\ n + (i - (n - 1)) - 1 = i
      BY <1>1, <2>2
    <3>2. q[i - (n - 1)] = s[n + (i - (n - 1)) - 1]
      BY <1>5, <3>1
    <3>3. t[(n - 1) + (i - (n - 1))] = q[i - (n - 1)]
      BY <1>3, <1>5, <1>7, <3>1
    <3> QED
      BY <3>1, <3>2, <3>3
  <2> QED
    BY <1>1, <2>1, <2>2
<1>9. s = t
  <2>1. Len(t) = l
    BY <1>1, <1>3, <1>5, <1>7
  <2>2. t \in Seq(S) /\ Len(t) = Len(s) /\ \A i \in 1..Len(t) : t[i] = s[i]
    BY <1>1, <1>7, <1>8, <2>1
  <2> QED
    BY <2>2, SeqEqual
<1>10. InsertAt(s, n, x) = (p \o <<x>>) \o q
  BY <1>1, <1>2, <1>4 DEF InsertAt
<1>11. n = Len(p) + 1
  BY <1>1, <1>3
<1> QED
  BY <1>3, <1>5, <1>6, <1>9, <1>10, <1>11 DEF PutInto

\* RemoveAt takes the n-th out.
LEMMA RemoveAtTakes ==
    ASSUME NEW S, NEW s \in Seq(S), NEW n \in 1..Len(s)
    PROVE  PutInto(S, RemoveAt(s, n), s, n, s[n])
<1>1. PICK l \in Nat : l = Len(s) /\ n \in 1..l /\ n \in Nat /\ s[n] \in S
  OBVIOUS
<1>2. PICK p \in Seq(S), q \in Seq(S) : SplitAt(s, n, p, q)
  BY ListSplit
<1>x. /\ s = (p \o <<s[n]>>) \o q /\ Len(p) = n - 1 /\ Len(q) = l - n
      /\ \A i \in 1..(n - 1) : p[i] = s[i]
      /\ \A i \in 1..(l - n) : q[i] = s[n + i]
  BY <1>1, <1>2 DEF SplitAt
<1>3. PICK u : u = SubSeq(s, 1, n - 1)
  OBVIOUS
<1>4. u \in Seq(S) /\ Len(u) = n - 1 /\ \A i \in 1..(n - 1) : u[i] = s[i]
  BY <1>1, <1>3
<1>5. PICK w : w = SubSeq(s, n + 1, l)
  OBVIOUS
<1>6. w \in Seq(S) /\ Len(w) = l - n /\ \A i \in 1..(l - n) : w[i] = s[n + i]
  BY <1>1, <1>5
<1>7. u = p
  BY <1>x, <1>4, SeqEqual
<1>8. w = q
  BY <1>1, <1>x, <1>6, SeqEqual
<1>9. RemoveAt(s, n) = p \o q
  BY <1>1, <1>3, <1>5, <1>7, <1>8 DEF RemoveAt
<1>10. n = Len(p) + 1
  BY <1>1, <1>x
<1> QED
  BY <1>x, <1>9, <1>10 DEF PutInto

\* One thing in the place of another.
LEMMA ReplacedPuts ==
    ASSUME NEW S, NEW i \in S, NEW j \in S, NEW c, NEW a, NEW k, PutInto(S, c, a, k, i), ~In(i, c)
    PROVE  PutInto(S, c, ReplaceAll(a, i, j), k, j)
<1>5. /\ a \in Seq(S) /\ Len(a) = Len(c) + 1 /\ a[k] = i
      /\ \A x \in 1..(k - 1) : a[x] = c[x]
      /\ \A x \in k..Len(c) : a[x + 1] = c[x]
  BY PutPlaces
<1>1. PICK p, q \in Seq(S) : c = p \o q /\ a = (p \o <<i>>) \o q /\ k = Len(p) + 1
  BY DEF PutInto
<1>2. PICK b : b = (p \o <<j>>) \o q
  OBVIOUS
<1>3. PutInto(S, c, b, k, j)
  BY <1>1, <1>2 DEF PutInto
<1>4. /\ b \in Seq(S) /\ Len(c) \in Nat /\ c \in Seq(S) /\ Len(b) = Len(c) + 1
      /\ k \in 1..(Len(c) + 1) /\ b[k] = j
      /\ \A x \in 1..(k - 1) : b[x] = c[x]
      /\ \A x \in k..Len(c) : b[x + 1] = c[x]
  BY <1>3, PutPlaces
<1>6. PICK l \in Nat : l = Len(c)
  BY <1>4
<1>7. \A x \in 1..l : c[x] # i
  BY <1>4, <1>6 DEF In
<1>8. ASSUME NEW x \in 1..(l + 1) PROVE b[x] = IF a[x] = i THEN j ELSE a[x]
  <2>1. x = k \/ x \in 1..(k - 1) \/ (x - 1) \in k..l
    BY <1>4, <1>6
  <2>2. CASE x = k
    BY <1>4, <1>5, <2>2
  <2>3. CASE x \in 1..(k - 1)
    <3>1. b[x] = c[x] /\ a[x] = c[x] /\ c[x] # i
      BY <1>4, <1>5, <1>6, <1>7, <2>3
    <3> QED
      BY <3>1
  <2>4. CASE (x - 1) \in k..l
    <3>1. PICK y \in k..l : y = x - 1 /\ y + 1 = x
      BY <2>4
    <3>2. y \in k..Len(c) /\ y \in 1..l
      BY <1>4, <1>6, <3>1
    <3>3. b[y + 1] = c[y] /\ a[y + 1] = c[y] /\ c[y] # i
      BY <1>4, <1>5, <1>7, <3>2
    <3> QED
      BY <3>1, <3>3
  <2> QED
    BY <2>1, <2>2, <2>3, <2>4
<1>9. PICK f : f = ReplaceAll(a, i, j)
  OBVIOUS
<1>10. f = [x \in 1..(l + 1) |-> IF a[x] = i THEN j ELSE a[x]]
  BY <1>5, <1>6, <1>9 DEF ReplaceAll
<1>11. b = [x \in 1..(l + 1) |-> b[x]]
  BY <1>4, <1>6
<1>12. f = b
  BY <1>8, <1>10, <1>11
<1> QED
  BY <1>3, <1>9, <1>12

\* Nothing is replaced where it is not.
LEMMA NoneReplaced ==
    ASSUME NEW S, NEW s \in Seq(S), NEW i, NEW j, ~In(i, s)
    PROVE  ReplaceAll(s, i, j) = s
<1>1. \A x \in 1..Len(s) : s[x] # i
  BY DEF In
<1>2. s = [x \in 1..Len(s) |-> s[x]]
  OBVIOUS
<1> QED
  BY <1>1, <1>2 DEF ReplaceAll

-----------------------------------------------------------------------------
(***************************************************************************)
(* What is chosen of a list, with one element or without it.               *)
(***************************************************************************)
\* All of a list.
LEMMA ChosenAll ==
    ASSUME NEW S, NEW s \in Seq(S), NEW K, S \subseteq K
    PROVE  Chosen(s, K) = s
<1> DEFINE B == {t \in Seq(S) : Chosen(t, K) # t}
<1>1. <<>> \notin B
  BY ChosenEmpty
<1>2. ASSUME NEW t \in Seq(S), NEW x \in S, Append(t, x) \in B PROVE t \in B
  <2>1. Chosen(Append(t, x), K) = Append(Chosen(t, K), x)
    BY ChosenAppend
  <2> QED
    BY <1>2, <2>1
<1>3. B = {}
  <2>1. B \in SUBSET Seq(S)
    OBVIOUS
  <2> HIDE DEF B
  <2> QED
    BY <1>1, <1>2, <2>1, NoLeastList
<1> QED
  BY <1>3

\* Chosen twice.
LEMMA ChosenTwice ==
    ASSUME NEW S, NEW s \in Seq(S), NEW K, NEW L
    PROVE  Chosen(Chosen(s, K), L) = Chosen(s, K \cap L)
<1> DEFINE B == {t \in Seq(S) : Chosen(Chosen(t, K), L) # Chosen(t, K \cap L)}
<1>1. <<>> \notin B
  BY ChosenEmpty
<1>2. ASSUME NEW t \in Seq(S), NEW x \in S, Append(t, x) \in B PROVE t \in B
  <2>1. PICK c : c = Chosen(t, K) /\ c \in Seq(S)
    BY ChosenPlaced
  <2>2. Chosen(Append(t, x), K) = IF x \in K THEN Append(c, x) ELSE c
    BY <2>1, ChosenAppend
  <2>3. Chosen(Append(c, x), L) = IF x \in L THEN Append(Chosen(c, L), x) ELSE Chosen(c, L)
    BY <2>1, ChosenAppend
  <2>4. Chosen(Append(t, x), K \cap L) =
          IF x \in K \cap L THEN Append(Chosen(t, K \cap L), x) ELSE Chosen(t, K \cap L)
    BY ChosenAppend
  <2> QED
    BY <1>2, <2>1, <2>2, <2>3, <2>4
<1>3. B = {}
  <2>1. B \in SUBSET Seq(S)
    OBVIOUS
  <2> HIDE DEF B
  <2> QED
    BY <1>1, <1>2, <2>1, NoLeastList
<1> QED
  BY <1>3

\* What is chosen of two lists behind each other.
LEMMA ChosenJoined ==
    ASSUME NEW S, NEW p \in Seq(S), NEW q \in Seq(S), NEW r, Joins(p, q, r), NEW M
    PROVE  Joins(Chosen(p, M), Chosen(q, M), Chosen(r, M))
<1>1. Chosen(p \o q, M) = Chosen(p, M) \o Chosen(q, M)
  BY ChosenConcat
<1> QED
  BY <1>1 DEF Joins

\* The same of three lists.
LEMMA ChosenThree ==
    ASSUME NEW S, NEW p \in Seq(S), NEW e \in Seq(S), NEW q \in Seq(S),
           NEW r, Joins(p, e, r), NEW s, Joins(r, q, s), NEW M
    PROVE  Chosen(s, M) = (Chosen(p, M) \o Chosen(e, M)) \o Chosen(q, M)
<1>1. r \in Seq(S)
  BY JoinedPlaces
<1>2. Joins(Chosen(r, M), Chosen(q, M), Chosen(s, M))
  BY <1>1, ChosenJoined
<1>3. Joins(Chosen(p, M), Chosen(e, M), Chosen(r, M))
  BY ChosenJoined
<1> QED
  BY <1>2, <1>3 DEF Joins

\* An element that is neither before nor behind its place.
LEMMA ChosenAround ==
    ASSUME NEW S, NEW p \in Seq(S), NEW q \in Seq(S), NEW c \in S, ~In(c, p), ~In(c, q),
           NEW K, c \notin K, NEW s, NEW k, SplitAt(s, k, p, q), s[k] = c
    PROVE  \E n : PutInto(S, Chosen(s, K), Chosen(s, K \cup {c}), n, c)
<1>1. PICK e \in Seq(S) : e = <<c>>
  BY OneLong
<1>2. PICK L : L = K \cup {c}
  OBVIOUS
<1>r. PICK r \in Seq(S) : r = p \o e /\ s = r \o q
  <2>1. p \o e \in Seq(S)
    OBVIOUS
  <2> QED
    BY <1>1, <2>1 DEF SplitAt
<1>3. ASSUME NEW M PROVE Chosen(s, M) = (Chosen(p, M) \o Chosen(e, M)) \o Chosen(q, M)
  <2>1. Joins(p, e, r) /\ Joins(r, q, s)
    BY <1>r DEF Joins
  <2> QED
    BY <2>1, ChosenThree
<1>5. PICK u \in Seq(S), v \in Seq(S) : u = Chosen(p, K) /\ v = Chosen(q, K)
  BY ChosenPlaced
<1>6. Chosen(p, L) = u
  <2>1. \A x \in S : In(x, p) => (x \in L <=> x \in K)
    BY <1>2
  <2> QED
    BY <1>5, <2>1, ChosenSame
<1>7. Chosen(q, L) = v
  <2>1. \A x \in S : In(x, q) => (x \in L <=> x \in K)
    BY <1>2
  <2> QED
    BY <1>5, <2>1, ChosenSame
<1>8. Chosen(e, K) = <<>>
  BY <1>1, ChosenOne
<1>9. Chosen(e, L) = e
  BY <1>1, <1>2, ChosenOne
<1>10. u \o <<>> = u
  OBVIOUS
<1>11. Chosen(s, K) = u \o v
  BY <1>3, <1>5, <1>8, <1>10
<1>12. Chosen(s, L) = (u \o e) \o v
  BY <1>3, <1>6, <1>7, <1>9
<1>13. PICK n : n = Len(u) + 1
  OBVIOUS
<1>14. PutInto(S, Chosen(s, K), Chosen(s, L), n, c)
  BY <1>1, <1>11, <1>12, <1>13 DEF PutInto
<1> QED
  BY <1>2, <1>14

\* What is chosen of a list without duplicates has none.
LEMMA ChosenNoDuplicate ==
    ASSUME NEW S, NEW s \in Seq(S), NoDuplicate(s), NEW K
    PROVE  NoDuplicate(Chosen(s, K))
<1>1. PICK r \in Seq(S) : r = Chosen(s, K) /\ Placed(s, K, r)
  BY ChosenPlaced
<1>2. PICK p : PlacedBy(s, K, r, p)
  BY <1>1 DEF Placed
<1>3. /\ p \in [1..Len(r) -> 1..Len(s)]
      /\ \A i \in 1..Len(r) : r[i] = s[p[i]]
      /\ \A i, j \in 1..Len(r) : i < j => p[i] < p[j]
  BY <1>2 DEF PlacedBy
<1>4. ASSUME NEW i \in 1..Len(r), NEW j \in 1..Len(r), r[i] = r[j] PROVE i = j
  <2>1. p[i] \in 1..Len(s) /\ p[j] \in 1..Len(s) /\ s[p[i]] = s[p[j]]
    BY <1>3, <1>4
  <2>2. p[i] = p[j]
    BY <2>1 DEF NoDuplicate
  <2> QED
    BY <1>3, <2>1, <2>2
<1> QED
  BY <1>1, <1>4 DEF NoDuplicate

\* Nothing is added by choosing.
LEMMA ChosenShorter ==
    ASSUME NEW S, NEW s \in Seq(S), NEW K
    PROVE  Len(Chosen(s, K)) <= Len(s)
<1> DEFINE B == {t \in Seq(S) : ~(Len(Chosen(t, K)) <= Len(t))}
<1>1. <<>> \notin B
  <2>1. Chosen(<<>>, K) = <<>> /\ Len(<<>>) = 0
    BY ChosenEmpty
  <2> QED
    BY <2>1
<1>2. ASSUME NEW t \in Seq(S), NEW x \in S, Append(t, x) \in B PROVE t \in B
  <2>1. PICK c \in Seq(S) : c = Chosen(t, K)
    BY ChosenPlaced
  <2>2. Chosen(Append(t, x), K) = IF x \in K THEN Append(c, x) ELSE c
    BY <2>1, ChosenAppend
  <2>3. Len(Append(t, x)) = Len(t) + 1 /\ Len(Append(c, x)) = Len(c) + 1
        /\ Len(t) \in Nat /\ Len(c) \in Nat
    OBVIOUS
  <2> QED
    BY <1>2, <2>1, <2>2, <2>3
<1>3. B = {}
  <2>1. B \in SUBSET Seq(S)
    OBVIOUS
  <2> HIDE DEF B
  <2> QED
    BY <1>1, <1>2, <2>1, NoLeastList
<1> QED
  BY <1>3

\* four lists behind each other
Four(a, b, c, d) == ((a \o b) \o c) \o d

\* A thing put into one of four lists is put into all.
LEMMA FourPut ==
    ASSUME NEW S, NEW x \in S, NEW a \in Seq(S), NEW b \in Seq(S), NEW c \in Seq(S), NEW d \in Seq(S),
           NEW e \in Seq(S), NEW n
    PROVE  /\ PutInto(S, b, e, n, x) => PutInto(S, Four(a, b, c, d), Four(a, e, c, d), Len(a) + n, x)
           /\ PutInto(S, c, e, n, x) => PutInto(S, Four(a, b, c, d), Four(a, b, e, d), Len(a) + Len(b) + n, x)
           /\ PutInto(S, d, e, n, x)
                => PutInto(S, Four(a, b, c, d), Four(a, b, c, e), Len(a) + Len(b) + Len(c) + n, x)
<1>1. PICK ab \in Seq(S) : ab = a \o b
  <2>1. a \o b \in Seq(S)
    OBVIOUS
  <2> QED
    BY <2>1
<1>2. PICK abc \in Seq(S) : abc = ab \o c
  <2>1. ab \o c \in Seq(S)
    OBVIOUS
  <2> QED
    BY <2>1
<1>3. Len(ab) = Len(a) + Len(b) /\ Len(abc) = Len(a) + Len(b) + Len(c)
  <2>1. Len(a \o b) = Len(a) + Len(b)
    OBVIOUS
  <2>2. Len(ab \o c) = Len(ab) + Len(c)
    OBVIOUS
  <2> QED
    BY <1>1, <1>2, <2>1, <2>2
<1>4. ASSUME PutInto(S, b, e, n, x)
      PROVE  PutInto(S, Four(a, b, c, d), Four(a, e, c, d), Len(a) + n, x)
  <2>1. PICK ae : ae = a \o e
    OBVIOUS
  <2>2. PICK k : k = Len(a) + n
    OBVIOUS
  <2>3. PutInto(S, ab, ae, k, x)
    BY <1>1, <1>4, <2>1, <2>2, PutBehind
  <2>4. PutInto(S, ab \o c, ae \o c, k, x)
    BY <2>3, PutBefore
  <2>5. PICK aec : aec = ae \o c
    OBVIOUS
  <2>6. PutInto(S, abc, aec, k, x)
    BY <1>2, <2>4, <2>5
  <2>7. PutInto(S, abc \o d, aec \o d, k, x)
    BY <2>6, PutBefore
  <2> QED
    BY <1>1, <1>2, <2>1, <2>2, <2>5, <2>7 DEF Four
<1>5. ASSUME PutInto(S, c, e, n, x)
      PROVE  PutInto(S, Four(a, b, c, d), Four(a, b, e, d), Len(a) + Len(b) + n, x)
  <2>1. PICK abe : abe = ab \o e
    OBVIOUS
  <2>2. PICK k : k = Len(ab) + n
    OBVIOUS
  <2>3. PutInto(S, abc, abe, k, x)
    BY <1>2, <1>5, <2>1, <2>2, PutBehind
  <2>4. PutInto(S, abc \o d, abe \o d, k, x)
    BY <2>3, PutBefore
  <2>5. k = Len(a) + Len(b) + n
    BY <1>3, <2>2
  <2> QED
    BY <1>1, <1>2, <2>1, <2>4, <2>5 DEF Four
<1>6. ASSUME PutInto(S, d, e, n, x)
      PROVE  PutInto(S, Four(a, b, c, d), Four(a, b, c, e), Len(a) + Len(b) + Len(c) + n, x)
  <2>1. PutInto(S, abc \o d, abc \o e, Len(abc) + n, x)
    BY <1>6, PutBehind
  <2>2. Len(abc) + n = Len(a) + Len(b) + Len(c) + n
    BY <1>3
  <2> QED
    BY <1>1, <1>2, <2>1, <2>2 DEF Four
<1> QED
  BY <1>4, <1>5, <1>6

\* They are as long as all four.
LEMMA FourLong ==
    ASSUME NEW S, NEW a \in Seq(S), NEW b \in Seq(S), NEW c \in Seq(S), NEW d \in Seq(S)
    PROVE  /\ Four(a, b, c, d) \in Seq(S)
           /\ Len(Four(a, b, c, d)) = Len(a) + Len(b) + Len(c) + Len(d)
<1>1. PICK ab \in Seq(S) : ab = a \o b /\ Len(ab) = Len(a) + Len(b)
  <2>1. a \o b \in Seq(S) /\ Len(a \o b) = Len(a) + Len(b)
    OBVIOUS
  <2> QED
    BY <2>1
<1>2. PICK abc \in Seq(S) : abc = ab \o c /\ Len(abc) = Len(ab) + Len(c)
  <2>1. ab \o c \in Seq(S) /\ Len(ab \o c) = Len(ab) + Len(c)
    OBVIOUS
  <2> QED
    BY <2>1
<1>3. abc \o d \in Seq(S) /\ Len(abc \o d) = Len(abc) + Len(d)
  OBVIOUS
<1> QED
  BY <1>1, <1>2, <1>3 DEF Four

=============================================================================
