------------------------- MODULE ClipAlgorithmsProofs -------------------------
(***************************************************************************)
(* What the list algorithms of a clip compute, for every input: that the   *)
(* scans with a window see every pair, that words, regions and turns end   *)
(* up where they belong, whatever the horizon, thresholds and lengths.     *)
(***************************************************************************)
EXTENDS ClipAlgorithms, Induction, FiniteSetTheorems, SequenceTheorems, TLAPS

-----------------------------------------------------------------------------
(* Sorting.                                                                *)

\* a comes before b.
Before(key, a, b) == key[a] < key[b] \/ (key[a] = key[b] /\ a < b)

\* p lists the indices I in order of their keys.
Lists(p, I, key) ==
    /\ p \in [1 .. Cardinality(I) -> I]
    /\ \A m, n \in 1 .. Cardinality(I) : m < n => Before(key, p[m], p[n])

\* One of finitely many indices comes after all the others.
LEMMA LastInOrder ==
    ASSUME NEW I \in SUBSET Int, IsFiniteSet(I), NEW key \in [I -> Int]
    PROVE  \A J \in SUBSET I : J # {} => \E x \in J : \A y \in J \ {x} : Before(key, y, x)
<1> DEFINE HasLast(J) == \E x \in J : \A y \in J \ {x} : Before(key, y, x)
           Good == {n \in Nat : \A J \in SUBSET I : Cardinality(J) = n + 1 => HasLast(J)}
<1>1. ASSUME NEW J \in SUBSET I PROVE IsFiniteSet(J) /\ Cardinality(J) \in Nat
  BY FS_Subset, FS_CardinalityType
<1>2. 0 \in Good
  <2> SUFFICES ASSUME NEW J \in SUBSET I, Cardinality(J) = 1 PROVE HasLast(J)
    OBVIOUS
  <2>1. PICK x : J = {x}
    BY <1>1, FS_Singleton
  <2> QED
    BY <2>1
<1>3. ASSUME NEW n \in Nat, n \in Good PROVE n + 1 \in Good
  <2> SUFFICES ASSUME NEW J \in SUBSET I, Cardinality(J) = n + 2 PROVE HasLast(J)
    OBVIOUS
  <2>1. J # {}
    BY FS_EmptySet
  <2>2. PICK z : z \in J
    BY <2>1
  <2>3. Cardinality(J \ {z}) = n + 1 /\ J \ {z} \in SUBSET I
    BY <1>1, <2>2, FS_RemoveElement
  <2>4. PICK x \in J \ {z} : \A y \in (J \ {z}) \ {x} : Before(key, y, x)
    BY <1>3, <2>3
  <2>5. x \in Int /\ z \in Int /\ key[x] \in Int /\ key[z] \in Int /\ x # z
    BY <2>2, <2>4
  <2>6. CASE Before(key, z, x)
    <3>1. \A y \in J \ {x} : Before(key, y, x)
      BY <2>4, <2>6
    <3> QED
      BY <2>4, <3>1
  <2>7. CASE Before(key, x, z)
    <3>1. ASSUME NEW y \in J \ {z} PROVE Before(key, y, z)
      <4>1. CASE y = x
        BY <2>7, <4>1
      <4>2. CASE y # x
        <5>1. Before(key, y, x)
          BY <2>4, <4>2
        <5>2. y \in Int /\ key[y] \in Int
          OBVIOUS
        <5> QED
          BY <2>5, <2>7, <5>1, <5>2 DEF Before
      <4> QED
        BY <4>1, <4>2
    <3> QED
      BY <2>2, <3>1
  <2>8. Before(key, z, x) \/ Before(key, x, z)
    BY <2>5 DEF Before
  <2> QED
    BY <2>6, <2>7, <2>8
<1>4. Nat \subseteq Good
  <2> HIDE DEF Good
  <2> QED
    BY <1>2, <1>3, NumberInduction
<1> SUFFICES ASSUME NEW J \in SUBSET I, J # {} PROVE HasLast(J)
  OBVIOUS
<1>5. Cardinality(J) \in Nat \ {0}
  BY <1>1, FS_EmptySet
<1>6. PICK n \in Nat : Cardinality(J) = n + 1
  <2>1. Cardinality(J) - 1 \in Nat /\ Cardinality(J) = (Cardinality(J) - 1) + 1
    BY <1>5
  <2> QED
    BY <2>1
<1> QED
  BY <1>4, <1>6

\* Finitely many indices can be listed in order.
LEMMA ListExists ==
    ASSUME NEW I \in SUBSET Int, IsFiniteSet(I), NEW key \in [I -> Int]
    PROVE  \E p : Lists(p, I, key)
<1> DEFINE Good == {n \in Nat : \A J \in SUBSET I : Cardinality(J) = n => \E p : Lists(p, J, key)}
<1>1. ASSUME NEW J \in SUBSET I PROVE IsFiniteSet(J) /\ Cardinality(J) \in Nat
  BY FS_Subset, FS_CardinalityType
<1>2. 0 \in Good
  <2> SUFFICES ASSUME NEW J \in SUBSET I, Cardinality(J) = 0 PROVE \E p : Lists(p, J, key)
    OBVIOUS
  <2>1. Lists([k \in 1 .. 0 |-> 0], J, key)
    BY DEF Lists
  <2> QED
    BY <2>1
<1>3. ASSUME NEW n \in Nat, n \in Good PROVE n + 1 \in Good
  <2> SUFFICES ASSUME NEW J \in SUBSET I, Cardinality(J) = n + 1 PROVE \E p : Lists(p, J, key)
    OBVIOUS
  <2>1. PICK x \in J : \A y \in J \ {x} : Before(key, y, x)
    <3>1. J # {}
      BY FS_EmptySet
    <3> QED
      BY <3>1, LastInOrder
  <2>2. Cardinality(J \ {x}) = n /\ J \ {x} \in SUBSET I
    BY <1>1, FS_RemoveElement
  <2>3. PICK q : Lists(q, J \ {x}, key)
    BY <1>3, <2>2
  <2>4. q \in [1 .. n -> J \ {x}] /\ \A a, b \in 1 .. n : a < b => Before(key, q[a], q[b])
    BY <2>2, <2>3 DEF Lists
  <2> DEFINE p == [k \in 1 .. n + 1 |-> IF k = n + 1 THEN x ELSE q[k]]
  <2>5. \A k \in 1 .. n + 1 : k # n + 1 => k \in 1 .. n /\ q[k] \in J \ {x}
    BY <2>4
  <2>6. p \in [1 .. n + 1 -> J]
    BY <2>5
  <2>7. ASSUME NEW a \in 1 .. n + 1, NEW b \in 1 .. n + 1, a < b PROVE Before(key, p[a], p[b])
    <3>1. a # n + 1 /\ a \in 1 .. n
      BY <2>7
    <3>2. p[a] = q[a]
      BY <3>1
    <3>3. CASE b = n + 1
      <4>1. p[b] = x
        BY <3>3
      <4>2. q[a] \in J \ {x}
        BY <2>5, <3>1
      <4> QED
        BY <2>1, <3>2, <4>1, <4>2
    <3>4. CASE b # n + 1
      <4>1. p[b] = q[b] /\ b \in 1 .. n
        BY <3>4
      <4> QED
        BY <2>4, <2>7, <3>1, <3>2, <4>1
    <3> QED
      BY <3>3, <3>4
  <2> HIDE DEF p
  <2>8. Lists(p, J, key)
    BY <2>6, <2>7 DEF Lists
  <2> QED
    BY <2>8
<1>4. Nat \subseteq Good
  <2> HIDE DEF Good
  <2> QED
    BY <1>2, <1>3, NumberInduction
<1>5. Cardinality(I) \in Nat /\ I \in SUBSET I
  BY <1>1
<1> QED
  BY <1>4, <1>5

\* sorted lists every index once, in order.
LEMMA SortedLists ==
    ASSUME NEW I \in SUBSET Int, IsFiniteSet(I), NEW key \in [I -> Int]
    PROVE  /\ Lists(Sorted(I, key), I, key)
           /\ \A i \in I : \E n \in 1 .. Cardinality(I) : Sorted(I, key)[n] = i
<1> DEFINE P == [1 .. Cardinality(I) -> I]
           InOrd(p) == \A m, n \in 1 .. Cardinality(I) :
                          m < n => key[p[m]] < key[p[n]] \/ (key[p[m]] = key[p[n]] /\ p[m] < p[n])
<1>1. \E p \in P : InOrd(p)
  <2>1. PICK p : Lists(p, I, key)
    BY ListExists
  <2> QED
    BY <2>1 DEF Lists, Before
<1> DEFINE s == Sorted(I, key)
<1>2. s = CHOOSE p \in P : InOrd(p)
  BY DEF Sorted
<1>3. s \in P /\ InOrd(s)
  <2> HIDE DEF P, InOrd
  <2> QED
    BY <1>1, <1>2
<1>4. Lists(s, I, key)
  BY <1>3 DEF Lists, Before
<1> HIDE DEF s
<1>5. Cardinality(I) \in Nat
  BY FS_CardinalityType
<1>6. PICK N \in Nat : N = Cardinality(I)
  BY <1>5
<1>7. s \in [1 .. N -> I]
  BY <1>3, <1>6
<1>8. ASSUME NEW m \in 1 .. N, NEW n \in 1 .. N, m < n PROVE s[m] # s[n]
  <2>1. s[m] \in Int /\ key[s[m]] \in Int
    BY <1>7
  <2>2. Before(key, s[m], s[n])
    BY <1>4, <1>6, <1>8 DEF Lists
  <2> QED
    BY <2>1, <2>2 DEF Before
<1>9. s \in Injection(1 .. N, I)
  <2>1. ASSUME NEW m \in 1 .. N, NEW n \in 1 .. N, s[m] = s[n] PROVE m = n
    <3>1. ~(m < n) /\ ~(n < m)
      BY <1>8, <2>1
    <3> QED
      BY <3>1
  <2> QED
    BY <1>7, <2>1 DEF Injection, IsInjective
<1>10. Cardinality(1 .. N) = Cardinality(I)
  BY <1>6, FS_Interval
<1>11. s \in Surjection(1 .. N, I)
  BY <1>9, <1>10, FS_Injection
<1> QED
  BY <1>4, <1>6, <1>11 DEF Surjection, s

-----------------------------------------------------------------------------
(* Turns, picked and in order.                                             *)

\* A turn on the way through diarize.py.
Turn == {t \in [start : 0 .. Horizon, end : 0 .. Horizon + 1, label : Voices,
                is_overlap : BOOLEAN, too_short : BOOLEAN] : t.start < t.end}

\* A turn starts before it ends.
LEMMA TurnTimes == \A t \in Turn : t.start \in Nat /\ t.end \in Nat /\ t.start < t.end
<1>1. PICK H \in Nat : H = Horizon
  BY AlgorithmsConstants
<1> SUFFICES ASSUME NEW t \in Turn PROVE t.start \in Nat /\ t.end \in Nat /\ t.start < t.end
  OBVIOUS
<1>2. t.start \in 0 .. H /\ t.end \in 0 .. H + 1 /\ t.start < t.end
  BY <1>1 DEF Turn
<1> QED
  BY <1>2

\* In order of start, any two of them.
Monotone(s) == \A m, n \in 1 .. Len(s) : m <= n => s[m].start <= s[n].start

\* Neighbours in order are all in order.
LEMMA OrderIsMonotone ==
    ASSUME NEW s \in Seq(Turn), InOrder(s) PROVE Monotone(s)
<1> DEFINE Good == {d \in Nat : \A m \in 1 .. Len(s) : m + d <= Len(s) => s[m].start <= s[m + d].start}
<1>1. Len(s) \in Nat /\ \A m \in 1 .. Len(s) : s[m].start \in Int
  BY DEF Turn
<1>2. 0 \in Good
  BY <1>1
<1>3. ASSUME NEW d \in Nat, d \in Good PROVE d + 1 \in Good
  <2> SUFFICES ASSUME NEW m \in 1 .. Len(s), m + (d + 1) <= Len(s) PROVE s[m].start <= s[m + (d + 1)].start
    OBVIOUS
  <2>1. PICK k \in 1 .. Len(s) - 1 : k = m + d /\ k + 1 = m + (d + 1) /\ m + d <= Len(s) /\ k + 1 \in 1 .. Len(s)
    BY <1>1
  <2>2. s[m].start <= s[k].start
    BY <1>3, <2>1
  <2>3. s[k].start <= s[k + 1].start
    BY <2>1 DEF InOrder
  <2>4. s[m].start \in Int /\ s[k].start \in Int /\ s[k + 1].start \in Int
    BY <1>1, <2>1
  <2> QED
    BY <2>1, <2>2, <2>3, <2>4
<1>4. Nat \subseteq Good
  <2> HIDE DEF Good
  <2> QED
    BY <1>2, <1>3, NumberInduction
<1> SUFFICES ASSUME NEW m \in 1 .. Len(s), NEW n \in 1 .. Len(s), m <= n PROVE s[m].start <= s[n].start
  BY DEF Monotone
<1>5. n - m \in Nat /\ m + (n - m) = n /\ n <= Len(s)
  BY <1>1
<1>6. n - m \in Good
  BY <1>4, <1>5
<1> QED
  BY <1>5, <1>6

\* order lists the indices I of s, and r what they stand for.
Arranges(order, I, s, r) ==
    /\ DOMAIN r = 1 .. Len(r) /\ Len(r) \in Nat /\ Len(r) = Cardinality(I)
    /\ order \in [1 .. Len(r) -> I]
    /\ \A n \in 1 .. Len(r) : r[n] = s[order[n]]
    /\ \A i \in I : \E n \in 1 .. Len(r) : order[n] = i

\* What is arranged is a sequence of the same things.
LEMMA ArrangedBySort ==
    ASSUME NEW X, NEW s \in Seq(X), NEW I \in SUBSET (DOMAIN s), NEW key \in [I -> Int]
    PROVE  LET order == Sorted(I, key) IN
           /\ Arranged(s, order) \in Seq(X)
           /\ Arranges(order, I, s, Arranged(s, order))
           /\ Lists(order, I, key)
<1> DEFINE order == Sorted(I, key)
           r == Arranged(s, order)
<1>1. IsFiniteSet(I) /\ I \in SUBSET Int /\ Cardinality(I) \in Nat
  <2>1. DOMAIN s = 1 .. Len(s) /\ Len(s) \in Nat
    OBVIOUS
  <2>2. IsFiniteSet(1 .. Len(s))
    BY <2>1, FS_Interval
  <2> QED
    BY <2>1, <2>2, FS_Subset, FS_CardinalityType
<1>2. Lists(order, I, key) /\ \A i \in I : \E n \in 1 .. Cardinality(I) : order[n] = i
  BY <1>1, SortedLists
<1> HIDE DEF order
<1>3. PICK N \in Nat : N = Cardinality(I)
  BY <1>1
<1>4. order \in [1 .. N -> I]
  BY <1>2, <1>3 DEF Lists
<1>5. \A n \in 1 .. N : s[order[n]] \in X
  <2> SUFFICES ASSUME NEW n \in 1 .. N PROVE s[order[n]] \in X
    OBVIOUS
  <2>1. order[n] \in I
    BY <1>4
  <2>2. order[n] \in 1 .. Len(s)
    BY <2>1
  <2> QED
    BY <2>2
<1>6. r = [n \in 1 .. N |-> s[order[n]]]
  BY <1>4 DEF Arranged
<1> HIDE DEF r
<1>7. r \in Seq(X) /\ Len(r) = N /\ DOMAIN r = 1 .. N
  BY <1>5, <1>6
<1>8. Arranges(order, I, s, r)
  BY <1>2, <1>3, <1>4, <1>6, <1>7 DEF Arranges
<1> QED
  BY <1>2, <1>7, <1>8 DEF r, order

\* What is picked are the turns of I, as they stood.
LEMMA Picked ==
    ASSUME NEW X, NEW s \in Seq(X), NEW I \in SUBSET (DOMAIN s)
    PROVE  /\ Pick(s, I) \in Seq(X)
           /\ \E p : /\ Arranges(p, I, s, Pick(s, I))
                     /\ \A m, n \in 1 .. Len(Pick(s, I)) : m < n => p[m] < p[n]
<1> DEFINE key == [i \in I |-> i]
           p == Sorted(I, key)
<1>1. key \in [I -> Int]
  OBVIOUS
<1>2. Pick(s, I) = Arranged(s, p)
  BY DEF Pick
<1>3. Arranged(s, p) \in Seq(X) /\ Arranges(p, I, s, Arranged(s, p)) /\ Lists(p, I, key)
  <2> HIDE DEF key
  <2> QED
    BY <1>1, ArrangedBySort
<1> HIDE DEF p
<1>4. ASSUME NEW m \in 1 .. Len(Pick(s, I)), NEW n \in 1 .. Len(Pick(s, I)), m < n PROVE p[m] < p[n]
  <2>1. Before(key, p[m], p[n]) /\ p[m] \in I /\ p[n] \in I
    BY <1>2, <1>3, <1>4 DEF Lists, Arranges
  <2>2. p[m] \in Int /\ p[n] \in Int
    BY <2>1
  <2> QED
    BY <2>1, <2>2 DEF Before
<1> QED
  BY <1>2, <1>3, <1>4

\* ... and stay in order.
LEMMA PickedInOrder ==
    ASSUME NEW s \in Seq(Turn), NEW I \in SUBSET (DOMAIN s), Monotone(s)
    PROVE  Pick(s, I) \in Seq(Turn) /\ Monotone(Pick(s, I))
<1>1. PICK p : /\ Arranges(p, I, s, Pick(s, I))
               /\ \A m, n \in 1 .. Len(Pick(s, I)) : m < n => p[m] < p[n]
  BY Picked
<1>2. Pick(s, I) \in Seq(Turn)
  BY Picked
<1>3. PICK r : r = Pick(s, I)
  OBVIOUS
<1> SUFFICES ASSUME NEW m \in 1 .. Len(r), NEW n \in 1 .. Len(r), m <= n PROVE r[m].start <= r[n].start
  BY <1>2, <1>3 DEF Monotone
<1>4. r[m] = s[p[m]] /\ r[n] = s[p[n]] /\ p[m] \in I /\ p[n] \in I
  BY <1>1, <1>3 DEF Arranges
<1>5. p[m] \in 1 .. Len(s) /\ p[n] \in 1 .. Len(s)
  BY <1>4
<1>6. p[m] <= p[n]
  <2>1. m = n \/ m < n
    BY <1>2, <1>3
  <2> QED
    BY <1>1, <1>3, <1>5, <2>1
<1> QED
  BY <1>4, <1>5, <1>6 DEF Monotone

\* sorted by start puts them in order and loses none.
LEMMA ByStartSorts ==
    ASSUME NEW s \in Seq(Turn)
    PROVE  /\ ByStart(s) \in Seq(Turn) /\ Monotone(ByStart(s))
           /\ \E p : Arranges(p, DOMAIN s, s, ByStart(s))
<1> DEFINE key == [i \in DOMAIN s |-> s[i].start]
           p == Sorted(DOMAIN s, key)
<1>1. key \in [DOMAIN s -> Int] /\ DOMAIN s \in SUBSET (DOMAIN s)
  BY DEF Turn
<1>2. ByStart(s) = Arranged(s, p)
  BY DEF ByStart
<1>3. Arranged(s, p) \in Seq(Turn) /\ Arranges(p, DOMAIN s, s, Arranged(s, p)) /\ Lists(p, DOMAIN s, key)
  <2> HIDE DEF key
  <2> QED
    BY <1>1, ArrangedBySort
<1> HIDE DEF p
<1>4. PICK r : r = ByStart(s)
  OBVIOUS
<1>5. ASSUME NEW m \in 1 .. Len(r), NEW n \in 1 .. Len(r), m <= n PROVE r[m].start <= r[n].start
  <2>1. r[m] = s[p[m]] /\ r[n] = s[p[n]] /\ p[m] \in DOMAIN s /\ p[n] \in DOMAIN s
    BY <1>2, <1>3, <1>4 DEF Arranges
  <2>2. s[p[m]].start \in Int /\ s[p[n]].start \in Int
    BY <2>1, SMTT(30) DEF Turn
  <2>3. m < n => Before(key, p[m], p[n])
    BY <1>2, <1>3, <1>4 DEF Lists, Arranges
  <2>4. key[p[m]] = s[p[m]].start /\ key[p[n]] = s[p[n]].start
    BY <2>1
  <2>5. m = n \/ m < n
    BY <1>2, <1>3, <1>4, <1>5
  <2>6. CASE m = n
    BY <2>1, <2>2, <2>6
  <2>7. CASE m < n
    BY <2>1, <2>2, <2>3, <2>4, <2>7 DEF Before
  <2> QED
    BY <2>5, <2>6, <2>7
<1> QED
  BY <1>2, <1>3, <1>4, <1>5 DEF Monotone

-----------------------------------------------------------------------------
(* The scans of diarize.py.                                                *)

\* The lower end of drop_onset_phantoms' window passes only turns that start too early.
LEMMA LowEndPasses ==
    ASSUME NEW t \in Seq(Turn), Monotone(t), NEW i \in 1 .. Len(t)
    PROVE  /\ LowEnd(t)[i] \in 1 .. Len(t)
           /\ \A k \in 1 .. LowEnd(t)[i] - 1 : t[k].start < t[i].start - StartTol
           /\ t[LowEnd(t)[i]].start >= t[i].start - StartTol
<1> PICK N \in Nat : N = Len(t) /\ i \in 1 .. N /\ N # 0
  OBVIOUS
<1> StartTol \in Nat
  BY TurnsConstants
<1>1. \A k \in 1 .. N : t[k].start \in Int
  BY DEF Turn
<1> DEFINE Early(n, k) == t[k].start < t[n].start - StartTol
           Ends(n, d, j) == /\ t[j].start >= t[n].start - StartTol
                            /\ \A k \in d .. j - 1 : t[k].start < t[n].start - StartTol
           Choice(n, d) == CHOOSE j \in d .. N : Ends(n, d, j)
           next == [n \in 1 .. N |-> [d \in 1 .. N |-> Choice(n, d)]]
<1>2. ASSUME NEW n \in 1 .. N, NEW d \in 1 .. N PROVE Choice(n, d) \in d .. N /\ Ends(n, d, Choice(n, d))
  <2> DEFINE Late == {j \in d .. N : ~Early(n, j)}
  <2>1. Late # {}
    <3>1. CASE n >= d
      <4>1. n \in Late
        BY <1>1, <3>1
      <4> QED
        BY <4>1
    <3>2. CASE ~(n >= d)
      <4>1. t[n].start <= t[d].start /\ t[n].start \in Int /\ t[d].start \in Int
        BY <1>1, <3>2 DEF Monotone
      <4>2. d \in Late
        BY <4>1
      <4> QED
        BY <4>2
    <3> QED
      BY <3>1, <3>2
  <2>2. PICK j \in Late : \A m \in Late : j <= m
    <3>1. Late \in SUBSET Nat
      OBVIOUS
    <3> HIDE DEF Late
    <3> QED
      BY <2>1, <3>1, LeastNumber
  <2>3. j \in d .. N /\ t[j].start \in Int /\ t[n].start \in Int
    BY <1>1
  <2>4. t[j].start >= t[n].start - StartTol
    BY <2>3
  <2>5. ASSUME NEW k \in d .. j - 1 PROVE t[k].start < t[n].start - StartTol
    <3>1. k \in d .. N /\ ~(j <= k)
      BY <2>3
    <3> QED
      BY <2>2, <3>1
  <2>6. Ends(n, d, j)
    BY <2>4, <2>5
  <2> HIDE DEF Ends
  <2> QED
    BY <2>3, <2>6
<1> DEFINE Lo(h) == [n \in 0 .. N |-> IF n = 0 THEN 1 ELSE Choice(n, h[n - 1])]
<1>3. PICK g : StepByStep(g, N, 1 .. N, 1, next)
  <2>1. \A n \in 1 .. N : \A d \in 1 .. N : next[n][d] \in 1 .. N
    <3> SUFFICES ASSUME NEW n \in 1 .. N, NEW d \in 1 .. N PROVE Choice(n, d) \in 1 .. N
      OBVIOUS
    <3>1. Choice(n, d) \in d .. N
      BY <1>2
    <3> HIDE DEF Choice
    <3> QED
      BY <3>1
  <2>2. 1 \in 1 .. N
    OBVIOUS
  <2> HIDE DEF next
  <2> QED
    BY <2>1, <2>2, Recursion
<1> HIDE DEF Choice
<1>4. g = Lo(g)
  <2>1. g \in [0 .. N -> 1 .. N] /\ g[0] = 1
    BY <1>3 DEF StepByStep
  <2>2. ASSUME NEW n \in 1 .. N PROVE g[n] = Choice(n, g[n - 1])
    <3>1. n - 1 \in 0 .. N
      OBVIOUS
    <3>2. g[n - 1] \in 1 .. N
      BY <2>1, <3>1
    <3>3. g[n] = next[n][g[n - 1]]
      BY <1>3 DEF StepByStep
    <3> QED
      BY <3>2, <3>3
  <2>3. ASSUME NEW n \in 0 .. N PROVE g[n] = IF n = 0 THEN 1 ELSE Choice(n, g[n - 1])
    BY <2>1, <2>2
  <2> QED
    BY <2>1, <2>3
<1> DEFINE lo == LowEnd(t)
<1>5. lo = CHOOSE h : h = Lo(h)
  BY DEF LowEnd, Choice
<1>6. lo = Lo(lo)
  <2> HIDE DEF Lo
  <2> QED
    BY <1>4, <1>5
<1> HIDE DEF lo
<1>7. lo[0] = 1 /\ \A n \in 1 .. N : lo[n] = Choice(n, lo[n - 1])
  BY <1>6
<1> DEFINE Passed(n) == /\ lo[n] \in 1 .. N /\ \A k \in 1 .. lo[n] - 1 : Early(n, k)
                        /\ t[lo[n]].start >= t[n].start - StartTol
           Good == {n \in Nat : n + 1 <= N => Passed(n + 1)}
<1>8. ASSUME NEW n \in 1 .. N, lo[n - 1] \in 1 .. N, \A k \in 1 .. lo[n - 1] - 1 : Early(n, k) PROVE Passed(n)
  <2>1. PICK d \in 1 .. N : d = lo[n - 1]
    BY <1>8
  <2>2. PICK j : j = lo[n]
    OBVIOUS
  <2>3. j \in d .. N /\ Ends(n, d, j)
    BY <1>2, <1>7, <2>1, <2>2
  <2>4. ASSUME NEW k \in 1 .. j - 1 PROVE Early(n, k)
    <3>1. k \in 1 .. d - 1 \/ k \in d .. j - 1
      BY <2>3
    <3> QED
      BY <1>8, <2>1, <2>3, <3>1
  <2> QED
    BY <2>2, <2>3, <2>4
<1>9. 0 \in Good
  <2>1. lo[1 - 1] = 1 /\ 1 \in 1 .. N
    BY <1>7
  <2>2. lo[1 - 1] \in 1 .. N /\ \A k \in 1 .. lo[1 - 1] - 1 : Early(1, k)
    BY <2>1
  <2>3. Passed(1)
    BY <1>8, <2>1, <2>2
  <2> HIDE DEF Passed
  <2> QED
    BY <2>3
<1>10. ASSUME NEW n \in Nat, n \in Good PROVE n + 1 \in Good
  <2> SUFFICES ASSUME (n + 1) + 1 <= N PROVE Passed((n + 1) + 1)
    BY DEF Good
  <2>1. PICK m \in 1 .. N : m = (n + 1) + 1 /\ m - 1 = n + 1 /\ m - 1 \in 1 .. N /\ n + 1 <= N
    OBVIOUS
  <2>2. Passed(m - 1)
    BY <1>10, <2>1 DEF Good
  <2>3. t[m - 1].start <= t[m].start /\ t[m - 1].start \in Int /\ t[m].start \in Int
    BY <1>1, <2>1 DEF Monotone
  <2>4. ASSUME NEW k \in 1 .. lo[m - 1] - 1 PROVE Early(m, k)
    <3>1. PICK d \in 1 .. N : d = lo[m - 1]
      BY <2>2
    <3>2. k \in 1 .. N /\ Early(m - 1, k)
      BY <2>2, <3>1
    <3>3. PICK a \in Int, b \in Int, c \in Int : a = t[k].start /\ b = t[m - 1].start /\ c = t[m].start
      BY <1>1, <2>3, <3>2
    <3>4. PICK T \in Nat : T = StartTol
      BY TurnsConstants
    <3>5. a < b - T /\ b <= c
      BY <2>3, <3>2, <3>3, <3>4
    <3>6. a < c - T
      BY <3>5
    <3> QED
      BY <3>3, <3>4, <3>6
  <2>5. Passed(m)
    BY <1>8, <2>2, <2>4
  <2> QED
    BY <2>1, <2>5
<1>11. Nat \subseteq Good
  <2> HIDE DEF Good
  <2> QED
    BY <1>9, <1>10, NumberInduction
<1>12. PICK n \in Nat : n + 1 = i
  <2>1. i - 1 \in Nat /\ (i - 1) + 1 = i
    OBVIOUS
  <2> QED
    BY <2>1
<1>13. Passed(i)
  <2>1. n + 1 <= N
    BY <1>12
  <2> HIDE DEF Passed
  <2> QED
    BY <1>11, <1>12, <2>1
<1> QED
  BY <1>13 DEF lo

\* So the window holds every turn that starts within the tolerance, and no other.
LEMMA WindowIsWhole ==
    ASSUME NEW t \in Seq(Turn), Monotone(t), NEW i \in 1 .. Len(t)
    PROVE  Scanned(t, i) = {j \in 1 .. Len(t) : Abs(t[i].start - t[j].start) <= StartTol}
<1> PICK N \in Nat : N = Len(t) /\ i \in 1 .. N
  OBVIOUS
<1> StartTol \in Nat
  BY TurnsConstants
<1>1. \A k \in 1 .. N : t[k].start \in Int
  BY DEF Turn
<1>2. PICK lo \in 1 .. N : /\ lo = LowEnd(t)[i] /\ \A k \in 1 .. lo - 1 : t[k].start < t[i].start - StartTol
                           /\ t[lo].start >= t[i].start - StartTol
  BY LowEndPasses
<1>3. Scanned(t, i) = {j \in lo .. N : \A k \in lo .. j : t[k].start <= t[i].start + StartTol}
  BY <1>2 DEF Scanned
<1>4. ASSUME NEW j \in 1 .. N PROVE Abs(t[i].start - t[j].start) <= StartTol <=>
                                       /\ t[j].start >= t[i].start - StartTol
                                       /\ t[j].start <= t[i].start + StartTol
  <2>1. t[i].start \in Int /\ t[j].start \in Int
    BY <1>1
  <2> QED
    BY <2>1 DEF Abs
<1>5. ASSUME NEW j \in Scanned(t, i) PROVE j \in 1 .. N /\ Abs(t[i].start - t[j].start) <= StartTol
  <2>1. j \in lo .. N /\ \A k \in lo .. j : t[k].start <= t[i].start + StartTol
    BY <1>3
  <2>2. j \in 1 .. N /\ j \in lo .. j
    BY <2>1
  <2>3. t[j].start <= t[i].start + StartTol
    BY <2>1, <2>2
  <2>4. t[j].start >= t[i].start - StartTol
    <3>1. t[lo].start <= t[j].start /\ t[lo].start \in Int /\ t[j].start \in Int /\ t[i].start \in Int
      BY <1>1, <2>1, <2>2 DEF Monotone
    <3>2. t[lo].start >= t[i].start - StartTol
      BY <1>2
    <3> QED
      BY <3>1, <3>2
  <2> QED
    BY <1>4, <2>2, <2>3, <2>4
<1>6. ASSUME NEW j \in 1 .. N, Abs(t[i].start - t[j].start) <= StartTol PROVE j \in Scanned(t, i)
  <2>1. t[j].start >= t[i].start - StartTol /\ t[j].start <= t[i].start + StartTol
    BY <1>4, <1>6
  <2>2. j \in lo .. N
    <3>1. ~(j \in 1 .. lo - 1)
      <4>1. t[j].start \in Int /\ t[i].start \in Int
        BY <1>1
      <4> QED
        BY <1>2, <2>1, <4>1
    <3> QED
      BY <3>1
  <2>3. ASSUME NEW k \in lo .. j PROVE t[k].start <= t[i].start + StartTol
    <3>1. k \in 1 .. N /\ k <= j
      OBVIOUS
    <3>2. t[k].start <= t[j].start /\ t[k].start \in Int /\ t[j].start \in Int /\ t[i].start \in Int
      BY <1>1, <3>1 DEF Monotone
    <3> QED
      BY <2>1, <3>2
  <2> QED
    BY <1>3, <2>2, <2>3
<1> QED
  BY <1>5, <1>6

\* The maximum and the minimum of two numbers.
LEMMA OfTwo ==
    ASSUME NEW a \in Int, NEW b \in Int
    PROVE  /\ Max({a, b}) = IF a >= b THEN a ELSE b
           /\ Min({a, b}) = IF a <= b THEN a ELSE b
<1>1. ASSUME NEW m \in {a, b}, \A y \in {a, b} : m >= y PROVE Max({a, b}) = m
  <2>1. Max({a, b}) \in {a, b} /\ \A y \in {a, b} : Max({a, b}) >= y
    BY <1>1 DEF Max
  <2>2. Max({a, b}) >= m /\ m >= Max({a, b}) /\ Max({a, b}) \in Int
    BY <1>1, <2>1
  <2> QED
    BY <2>2
<1>2. ASSUME NEW m \in {a, b}, \A y \in {a, b} : m <= y PROVE Min({a, b}) = m
  <2>1. Min({a, b}) \in {a, b} /\ \A y \in {a, b} : Min({a, b}) <= y
    BY <1>2 DEF Min
  <2>2. Min({a, b}) <= m /\ m <= Min({a, b}) /\ Min({a, b}) \in Int
    BY <1>2, <2>1
  <2> QED
    BY <2>2
<1>3. CASE a >= b
  <2>1. \A y \in {a, b} : a >= y /\ b <= y
    BY <1>3
  <2>2. Max({a, b}) = a /\ Min({a, b}) = b
    BY <1>1, <1>2, <2>1
  <2> QED
    BY <1>3, <2>2
<1>4. CASE ~(a >= b)
  <2>1. \A y \in {a, b} : b >= y /\ a <= y
    BY <1>4
  <2>2. Max({a, b}) = b /\ Min({a, b}) = a
    BY <1>1, <1>2, <2>1
  <2> QED
    BY <1>4, <2>2
<1> QED
  BY <1>3, <1>4

\* Two turns talk across each other if each starts before the other ends.
LEMMA CrossTalkMeans ==
    ASSUME NEW a \in Turn, NEW b \in Turn
    PROVE  CrossTalk(a, b) <=> a.label # b.label /\ a.start < b.end /\ b.start < a.end
<1>1. PICK as \in Int, ae \in Int, bs \in Int, be \in Int :
         as = a.start /\ ae = a.end /\ bs = b.start /\ be = b.end /\ as < ae /\ bs < be
  BY DEF Turn
<1>2. Shared(a, b) = (IF ae <= be THEN ae ELSE be) - (IF as >= bs THEN as ELSE bs)
  <2>1. Min({ae, be}) = (IF ae <= be THEN ae ELSE be) /\ Max({as, bs}) = (IF as >= bs THEN as ELSE bs)
    BY <1>1, OfTwo
  <2>2. Shared(a, b) = Min({ae, be}) - Max({as, bs})
    BY <1>1, Zenon DEF Shared
  <2> QED
    BY <2>1, <2>2, Zenon
<1>3. Shared(a, b) > 0 <=> as < be /\ bs < ae
  BY <1>1, <1>2
<1> QED
  BY <1>1, <1>3 DEF CrossTalk

\* drop_onset_phantoms drops what comparing every two turns would.
LEMMA DropsEveryPhantom ==
    ASSUME NEW t \in Seq(Turn), Monotone(t)
    PROVE  DropOnsetPhantoms(t) =
              Pick(t, {i \in DOMAIN t : ~\E j \in DOMAIN t : Abs(t[i].start - t[j].start) <= StartTol /\ MuchLonger(t[j], t[i])})
<1>1. \A i \in DOMAIN t : (\E j \in Scanned(t, i) : MuchLonger(t[j], t[i]))
                       <=> (\E j \in DOMAIN t : Abs(t[i].start - t[j].start) <= StartTol /\ MuchLonger(t[j], t[i]))
  <2> SUFFICES ASSUME NEW i \in DOMAIN t
               PROVE  (\E j \in Scanned(t, i) : MuchLonger(t[j], t[i]))
                  <=> (\E j \in DOMAIN t : Abs(t[i].start - t[j].start) <= StartTol /\ MuchLonger(t[j], t[i]))
    OBVIOUS
  <2>1. Scanned(t, i) = {j \in 1 .. Len(t) : Abs(t[i].start - t[j].start) <= StartTol} /\ DOMAIN t = 1 .. Len(t)
    BY WindowIsWhole
  <2> QED
    BY <2>1
<1>2. {i \in DOMAIN t : ~\E j \in Scanned(t, i) : MuchLonger(t[j], t[i])} =
      {i \in DOMAIN t : ~\E j \in DOMAIN t : Abs(t[i].start - t[j].start) <= StartTol /\ MuchLonger(t[j], t[i])}
  BY <1>1
<1> QED
  BY <1>2 DEF DropOnsetPhantoms

\* annotate_overlaps reaches every later turn that starts before this one ends.
LEMMA ReachesTheOverlapping ==
    ASSUME NEW t \in Seq(Turn), Monotone(t), NEW i \in 1 .. Len(t), NEW j \in 1 .. Len(t), i < j,
           t[j].start < t[i].end
    PROVE  j \in Reached(t, i)
<1>1. j \in i + 1 .. Len(t)
  OBVIOUS
<1>2. ASSUME NEW k \in i + 1 .. j PROVE t[k].start < t[i].end
  <2>1. k \in 1 .. Len(t) /\ k <= j
    OBVIOUS
  <2>2. t[k].start <= t[j].start /\ t[k].start \in Int /\ t[j].start \in Int /\ t[i].end \in Int
    BY <2>1, SMTT(30) DEF Monotone, Turn
  <2> QED
    BY <2>2
<1> QED
  BY <1>1, <1>2 DEF Reached

\* annotate_overlaps marks what comparing every two turns would.
LEMMA MarksEveryOverlap ==
    ASSUME NEW t \in Seq(Turn), Monotone(t), NEW n \in 1 .. Len(t)
    PROVE  AnnotateOverlaps(t)[n].is_overlap = (\E j \in DOMAIN t : CrossTalk(t[n], t[j]))
<1> DEFINE Seen(i) == /\ n \in Reached(t, i) \/ i \in Reached(t, n)
                      /\ CrossTalk(t[i], t[n])
<1>1. DOMAIN t = 1 .. Len(t) /\ \A i \in 1 .. Len(t) : t[i] \in Turn
  OBVIOUS
<1>2. AnnotateOverlaps(t)[n].is_overlap = (\E i \in DOMAIN t : Seen(i))
  <2>1. t[n] = [t[n] EXCEPT !.is_overlap = t[n].is_overlap] /\ "is_overlap" \in DOMAIN t[n]
    BY <1>1 DEF Turn
  <2> QED
    BY <1>1, <2>1 DEF AnnotateOverlaps
<1>3. ASSUME NEW i \in DOMAIN t PROVE Seen(i) <=> CrossTalk(t[n], t[i])
  <2>1. CrossTalk(t[i], t[n]) <=> CrossTalk(t[n], t[i])
    BY <1>1, CrossTalkMeans
  <2>2. ASSUME CrossTalk(t[n], t[i]) PROVE n \in Reached(t, i) \/ i \in Reached(t, n)
    <3>1. t[n].label # t[i].label /\ t[n].start < t[i].end /\ t[i].start < t[n].end
      BY <1>1, <2>2, CrossTalkMeans
    <3>2. i # n
      BY <3>1
    <3>3. i < n \/ n < i
      BY <1>1, <3>2
    <3> QED
      BY <1>1, <3>1, <3>3, ReachesTheOverlapping
  <2> QED
    BY <2>1, <2>2
<1> QED
  BY <1>2, <1>3

\* Merging goes turn by turn.
LEMMA MergeUnfolds ==
    ASSUME NEW s, NEW N \in Nat, DOMAIN s = 1 .. N, NEW D, <<>> \in D,
           \A i \in 1 .. N : \A d \in D : Merge(d, s[i]) \in D
    PROVE  \E f : /\ f \in [0 .. N -> D] /\ f[0] = <<>> /\ f[N] = MergeAdjacent(s)
                  /\ \A i \in 1 .. N : f[i] = Merge(f[i - 1], s[i])
<1> DEFINE next == [i \in 1 .. N |-> [d \in D |-> Merge(d, s[i])]]
           Fold(F) == [T \in SUBSET (1 .. N) |-> IF T = {} THEN <<>> ELSE Merge(F[T \ {Max(T)}], s[Max(T)])]
           iter == CHOOSE F : F = Fold(F)
<1>1. MergeAdjacent(s) = iter[1 .. N]
  BY DEF MergeAdjacent, FoldLeft, MapThenFoldSet
<1>2. \A i \in 1 .. N : \A d \in D : next[i][d] \in D /\ next[i][d] = Merge(d, s[i])
  OBVIOUS
<1> HIDE DEF next
<1>3. PICK g : FoldsTo(g, N, D, <<>>, next)
  BY <1>2, FoldExists
<1>4. \A T \in SUBSET (1 .. N) : T # {} => Max(T) \in 1 .. N
  BY MaxOfNumbersFrom1
<1>5. g = Fold(g)
  <2>1. g \in [SUBSET (1 .. N) -> D] /\ g[{}] = <<>>
    BY <1>3 DEF FoldsTo
  <2>2. ASSUME NEW T \in SUBSET (1 .. N), T # {} PROVE g[T] = Merge(g[T \ {Max(T)}], s[Max(T)])
    <3>1. g[T] = next[Max(T)][g[T \ {Max(T)}]]
      BY <1>3, <2>2 DEF FoldsTo
    <3>2. g[T \ {Max(T)}] \in D
      BY <2>1
    <3> QED
      BY <1>2, <1>4, <2>2, <3>1, <3>2
  <2> QED
    BY <2>1, <2>2
<1>6. iter = Fold(iter)
  <2> HIDE DEF Fold
  <2> QED
    BY <1>5
<1> HIDE DEF iter
<1>7. iter[{}] = <<>>
  BY <1>6
<1>8. \A T \in SUBSET (1 .. N) :
         T # {} /\ iter[T \ {Max(T)}] \in D => iter[T] = next[Max(T)][iter[T \ {Max(T)}]]
  <2> SUFFICES ASSUME NEW T \in SUBSET (1 .. N), T # {}, iter[T \ {Max(T)}] \in D
               PROVE  iter[T] = next[Max(T)][iter[T \ {Max(T)}]]
    OBVIOUS
  <2>1. iter[T] = Merge(iter[T \ {Max(T)}], s[Max(T)])
    BY <1>6
  <2> QED
    BY <1>2, <1>4, <2>1
<1> DEFINE f == [i \in 0 .. N |-> iter[1 .. i]]
<1>9. StepByStep(f, N, D, <<>>, next)
  <2> HIDE DEF Fold
  <2> QED
    BY <1>2, <1>7, <1>8, FoldUnfolds
<1>10. f[N] = MergeAdjacent(s)
  BY <1>1
<1> HIDE DEF f
<1>11. ASSUME NEW i \in 1 .. N PROVE f[i] = Merge(f[i - 1], s[i])
  <2>1. f[i] = next[i][f[i - 1]] /\ f[i - 1] \in D
    BY <1>9 DEF StepByStep
  <2> QED
    BY <1>2, <2>1
<1> QED
  BY <1>9, <1>10, <1>11 DEF StepByStep

\* merge_adjacent makes turns of turns.
LEMMA MergedAreTurns ==
    ASSUME NEW out \in Seq(Turn), NEW t \in Turn
    PROVE  /\ Merge(out, t) \in Seq(Turn)
           /\ Len(Merge(out, t)) = Len(out) \/ Len(Merge(out, t)) = Len(out) + 1
<1>1. CASE out # <<>> /\ Last(out).label = t.label /\ t.start - Last(out).end <= MergeGap
  <2>1. PICK n \in Nat : n = Len(out) /\ n \in 1 .. n /\ n \in DOMAIN out
    BY <1>1
  <2>2. out[n] \in Turn
    BY <2>1
  <2>3. PICK e : e = Max({out[n].end, t.end})
    OBVIOUS
  <2>4. e \in 0 .. Horizon + 1 /\ out[n].end <= e
    <3>1. PICK a \in Int, b \in Int :
             /\ a = out[n].end /\ b = t.end /\ a \in 0 .. Horizon + 1 /\ b \in 0 .. Horizon + 1
      BY <2>2, AlgorithmsConstants DEF Turn
    <3>2. e = IF a >= b THEN a ELSE b
      BY <2>3, <3>1, OfTwo
    <3>3. e \in 0 .. Horizon + 1 /\ a <= e
      BY <3>1, <3>2
    <3> QED
      BY <3>1, <3>3
  <2>5. PICK m : m = [out[n] EXCEPT !.end = e]
    OBVIOUS
  <2>6. m \in Turn
    <3>1. m.start = out[n].start /\ m.end = e /\ m.label = out[n].label
          /\ m.is_overlap = out[n].is_overlap /\ m.too_short = out[n].too_short
      BY <2>2, <2>5 DEF Turn
    <3>2. m \in [start : 0 .. Horizon, end : 0 .. Horizon + 1, label : Voices,
                 is_overlap : BOOLEAN, too_short : BOOLEAN]
      BY <2>2, <2>4, <2>5 DEF Turn
    <3>3. out[n].start < out[n].end /\ out[n].start \in Int /\ out[n].end \in Int
      BY <2>2 DEF Turn
    <3>4. e \in Int
      BY <2>4, AlgorithmsConstants
    <3>5. m.start < m.end
      BY <2>4, <3>1, <3>3, <3>4
    <3> QED
      BY <3>2, <3>5 DEF Turn
  <2>7. Merge(out, t) = [out EXCEPT ![n] = m]
    BY <1>1, <2>1, <2>3, <2>5 DEF Merge, Last
  <2> QED
    BY <2>1, <2>6, <2>7
<1>2. CASE ~(out # <<>> /\ Last(out).label = t.label /\ t.start - Last(out).end <= MergeGap)
  <2>1. Merge(out, t) = Append(out, t)
    BY <1>2 DEF Merge
  <2> QED
    BY <2>1
<1> QED
  BY <1>1, <1>2

\* ... one after the other.
LEMMA MergedSteps ==
    ASSUME NEW t \in Seq(Turn)
    PROVE  \E f : /\ f \in [0 .. Len(t) -> Seq(Turn)] /\ f[0] = <<>> /\ f[Len(t)] = MergeAdjacent(t)
                  /\ \A i \in 1 .. Len(t) : f[i] = Merge(f[i - 1], t[i])
<1>1. PICK N \in Nat : N = Len(t) /\ DOMAIN t = 1 .. N
  OBVIOUS
<1>2. \A i \in 1 .. N : \A out \in Seq(Turn) : Merge(out, t[i]) \in Seq(Turn)
  BY <1>1, MergedAreTurns
<1>3. <<>> \in Seq(Turn)
  OBVIOUS
<1> DEFINE D == Seq(Turn)
<1>4. \E f : /\ f \in [0 .. N -> D] /\ f[0] = <<>> /\ f[N] = MergeAdjacent(t)
             /\ \A i \in 1 .. N : f[i] = Merge(f[i - 1], t[i])
  <2>1. <<>> \in D /\ \A i \in 1 .. N : \A d \in D : Merge(d, t[i]) \in D
    BY <1>2, <1>3
  <2> HIDE DEF D
  <2> QED
    BY <1>1, <2>1, MergeUnfolds, SMTT(30)
<1> QED
  BY <1>1, <1>4

\* merge_adjacent on a whole list.
LEMMA MergeTyped == ASSUME NEW t \in Seq(Turn) PROVE MergeAdjacent(t) \in Seq(Turn)
<1>1. PICK f : f \in [0 .. Len(t) -> Seq(Turn)] /\ f[Len(t)] = MergeAdjacent(t)
  BY MergedSteps
<1>2. Len(t) \in 0 .. Len(t)
  OBVIOUS
<1> QED
  BY <1>1, <1>2

\* annotate_overlaps changes nothing but the mark.
LEMMA AnnotateTyped ==
    ASSUME NEW t \in Seq(Turn)
    PROVE  /\ AnnotateOverlaps(t) \in Seq(Turn) /\ Len(AnnotateOverlaps(t)) = Len(t)
           /\ \A n \in 1 .. Len(t) : LET a == AnnotateOverlaps(t)[n] IN
                 a.start = t[n].start /\ a.end = t[n].end /\ a.label = t[n].label /\ a.too_short = t[n].too_short
<1> DEFINE seen(n) == \E i \in DOMAIN t : /\ n \in Reached(t, i) \/ i \in Reached(t, n)
                                          /\ CrossTalk(t[i], t[n])
<1>1. AnnotateOverlaps(t) = [n \in 1 .. Len(t) |-> [t[n] EXCEPT !.is_overlap = seen(n)]]
  BY DEF AnnotateOverlaps
<1>2. ASSUME NEW n \in 1 .. Len(t), NEW b \in BOOLEAN
      PROVE  LET a == [t[n] EXCEPT !.is_overlap = b] IN
             a \in Turn /\ a.start = t[n].start /\ a.end = t[n].end /\ a.label = t[n].label /\ a.too_short = t[n].too_short
  <2>1. t[n] \in Turn
    OBVIOUS
  <2> QED
    BY <2>1 DEF Turn
<1>3. \A n \in 1 .. Len(t) : seen(n) \in BOOLEAN
  OBVIOUS
<1> HIDE DEF seen
<1>4. ASSUME NEW n \in 1 .. Len(t)
      PROVE  LET a == AnnotateOverlaps(t)[n] IN
             a \in Turn /\ a.start = t[n].start /\ a.end = t[n].end /\ a.label = t[n].label /\ a.too_short = t[n].too_short
  <2>1. PICK b \in BOOLEAN : b = seen(n)
    BY <1>3
  <2>2. AnnotateOverlaps(t)[n] = [t[n] EXCEPT !.is_overlap = b]
    BY <1>1, <2>1
  <2> QED
    BY <1>2, <2>2
<1>5. PICK N \in Nat : N = Len(t)
  OBVIOUS
<1>6. AnnotateOverlaps(t) \in [1 .. N -> Turn]
  BY <1>1, <1>4, <1>5
<1> QED
  BY <1>4, <1>5, <1>6

\* A time snaps to an edge within the tolerance, or stays.
LEMMA SnapsNearby ==
    ASSUME NEW x \in Nat, NEW edges \in SUBSET (0 .. Horizon)
    PROVE  /\ Nearest(x, edges) = x \/ Nearest(x, edges) \in edges
           /\ x - SnapTol <= Nearest(x, edges) /\ Nearest(x, edges) <= x + SnapTol
<1>1. SnapTol \in Nat /\ Horizon \in Nat /\ edges \in SUBSET Nat
  BY TurnsConstants, AlgorithmsConstants
<1> DEFINE IsNearest(e) == \A d \in edges : Abs(e - x) < Abs(d - x) \/ (Abs(e - x) = Abs(d - x) /\ e <= d)
           c == CHOOSE e \in edges : IsNearest(e)
<1>2. \A e \in edges : Abs(e - x) \in Nat
  BY <1>1 DEF Abs
<1>3. ASSUME edges # {} PROVE c \in edges
  <2> DEFINE far == {Abs(e - x) : e \in edges}
  <2>1. PICK d \in far : \A f \in far : d <= f
    <3>1. far \in SUBSET Nat
      BY <1>2
    <3>2. far # {}
      BY <1>3
    <3> HIDE DEF far
    <3> QED
      BY <3>1, <3>2, LeastNumber
  <2> DEFINE near == {e \in edges : Abs(e - x) = d}
  <2>2. PICK e \in near : \A f \in near : e <= f
    <3>1. near \in SUBSET Nat /\ near # {}
      BY <1>1
    <3> HIDE DEF near
    <3> QED
      BY <3>1, LeastNumber
  <2>3. ASSUME NEW f \in edges PROVE Abs(e - x) < Abs(f - x) \/ (Abs(e - x) = Abs(f - x) /\ e <= f)
    <3>1. d <= Abs(f - x) /\ Abs(f - x) \in Nat /\ Abs(e - x) = d /\ d \in Nat
      BY <1>2, <2>1, <2>2
    <3>2. CASE Abs(f - x) = d
      <4>1. f \in near
        BY <3>2
      <4> QED
        BY <2>2, <3>1, <3>2, <4>1
    <3>3. CASE Abs(f - x) # d
      BY <3>1, <3>3
    <3> QED
      BY <3>2, <3>3
  <2>4. e \in edges /\ IsNearest(e)
    BY <2>2, <2>3
  <2> HIDE DEF IsNearest
  <2> QED
    BY <2>4
<1>4. Nearest(x, edges) = IF edges # {} /\ Abs(c - x) <= SnapTol THEN c ELSE x
  BY DEF Nearest
<1> HIDE DEF c
<1>5. CASE edges # {} /\ Abs(c - x) <= SnapTol
  <2>1. PICK e \in edges : e = c
    BY <1>3, <1>5
  <2>2. e \in Nat /\ Abs(e - x) <= SnapTol
    BY <1>1, <1>5, <2>1
  <2>3. x - SnapTol <= e /\ e <= x + SnapTol
    BY <1>1, <2>2 DEF Abs
  <2> QED
    BY <1>4, <1>5, <2>1, <2>3
<1>6. CASE ~(edges # {} /\ Abs(c - x) <= SnapTol)
  <2>1. Nearest(x, edges) = x
    BY <1>4, <1>6
  <2> QED
    BY <1>1, <2>1
<1> QED
  BY <1>5, <1>6

\* snap_to_vad moves the ends of a turn within the tolerance (a sliver's one tick further).
LEMMA SnapTyped ==
    ASSUME NEW t \in Seq(Turn), NEW edges \in SUBSET (0 .. Horizon)
    PROVE  /\ SnapToVad(t, edges) \in Seq(Turn) /\ Len(SnapToVad(t, edges)) = Len(t)
           /\ \A n \in 1 .. Len(t) : LET a == SnapToVad(t, edges)[n] IN
                 /\ a.label = t[n].label /\ a.is_overlap = t[n].is_overlap /\ a.too_short = t[n].too_short
                 /\ a.start = Nearest(t[n].start, edges)
                 /\ a.end = IF Nearest(t[n].end, edges) <= a.start THEN a.start + 1 ELSE Nearest(t[n].end, edges)
<1> DEFINE start(n) == Nearest(t[n].start, edges)
           end(n) == IF Nearest(t[n].end, edges) <= start(n) THEN start(n) + 1 ELSE Nearest(t[n].end, edges)
<1>1. Horizon \in Nat /\ edges \in SUBSET Nat
  BY AlgorithmsConstants
<1>2. SnapToVad(t, edges) = [n \in 1 .. Len(t) |-> [t[n] EXCEPT !.start = start(n), !.end = end(n)]]
  BY DEF SnapToVad
<1>3. ASSUME NEW n \in 1 .. Len(t)
      PROVE  start(n) \in 0 .. Horizon /\ end(n) \in 0 .. Horizon + 1 /\ start(n) < end(n)
  <2>1. PICK a \in 0 .. Horizon, b \in 0 .. Horizon + 1 : a = t[n].start /\ b = t[n].end
    <3>1. t[n] \in Turn
      OBVIOUS
    <3> QED
      BY <3>1 DEF Turn
  <2>2. PICK p, q : p = Nearest(a, edges) /\ q = Nearest(b, edges)
    OBVIOUS
  <2>3. p = a \/ p \in edges
    BY <1>1, <2>2, SnapsNearby
  <2>4. q = b \/ q \in edges
    BY <1>1, <2>2, SnapsNearby
  <2>5. p \in 0 .. Horizon /\ q \in 0 .. Horizon + 1
    <3>1. \A e \in edges : e \in 0 .. Horizon /\ e \in 0 .. Horizon + 1
      BY <1>1
    <3>2. p \in 0 .. Horizon
      BY <2>3, <3>1
    <3>3. q \in 0 .. Horizon + 1
      BY <2>4, <3>1
    <3> QED
      BY <3>2, <3>3
  <2> QED
    BY <1>1, <2>1, <2>2, <2>5
<1> DEFINE Snapped(r, n, a, b) ==
              /\ r \in Turn /\ r.start = a /\ r.end = b /\ r.label = t[n].label
              /\ r.is_overlap = t[n].is_overlap /\ r.too_short = t[n].too_short
<1>4. ASSUME NEW n \in 1 .. Len(t), NEW a \in 0 .. Horizon, NEW b \in 0 .. Horizon + 1, a < b
      PROVE  Snapped([t[n] EXCEPT !.start = a, !.end = b], n, a, b)
  <2>1. t[n] \in Turn
    OBVIOUS
  <2> QED
    BY <1>4, <2>1 DEF Turn
<1>5. ASSUME NEW n \in 1 .. Len(t)
      PROVE  Snapped(SnapToVad(t, edges)[n], n, start(n), end(n))
  <2>1. PICK a \in 0 .. Horizon, b \in 0 .. Horizon + 1 : a = start(n) /\ b = end(n) /\ a < b
    BY <1>3
  <2>2. SnapToVad(t, edges)[n] = [t[n] EXCEPT !.start = a, !.end = b]
    BY <1>2, <2>1
  <2> HIDE DEF start, end, Snapped
  <2>3. a < b
    BY <2>1
  <2>4. Snapped([t[n] EXCEPT !.start = a, !.end = b], n, a, b)
    BY <1>4, <2>3
  <2> QED
    BY <2>1, <2>2, <2>4, Zenon
<1>6. PICK N \in Nat : N = Len(t)
  OBVIOUS
<1>7. SnapToVad(t, edges) \in [1 .. N -> Turn]
  <2> HIDE DEF start, end
  <2> QED
    BY <1>2, <1>5, <1>6
<1> QED
  BY <1>5, <1>6, <1>7

\* What is put back are the short turns as they were, marked.
LEMMA InterjectionsTyped ==
    ASSUME NEW s \in Seq(Turn), NEW long \in Seq(Turn)
    PROVE  /\ Interjections(s, long) \in Seq(Turn) /\ Len(Interjections(s, long)) = Len(s)
           /\ \A n \in 1 .. Len(s) : LET a == Interjections(s, long)[n] IN
                 a.start = s[n].start /\ a.end = s[n].end /\ a.label = s[n].label /\ a.too_short = TRUE
<1> DEFINE crossed(n) == \E m \in DOMAIN long : CrossTalk(long[m], s[n])
<1>1. Interjections(s, long) = [n \in 1 .. Len(s) |-> [s[n] EXCEPT !.too_short = TRUE, !.is_overlap = crossed(n)]]
  BY DEF Interjections
<1> DEFINE PutBack(a, n) == /\ a \in Turn /\ a.start = s[n].start /\ a.end = s[n].end /\ a.label = s[n].label
                            /\ a.too_short = TRUE
<1>2. ASSUME NEW n \in 1 .. Len(s), NEW b \in BOOLEAN
      PROVE  PutBack([s[n] EXCEPT !.too_short = TRUE, !.is_overlap = b], n)
  <2>1. s[n] \in Turn
    OBVIOUS
  <2> QED
    BY <2>1 DEF Turn
<1>3. \A n \in 1 .. Len(s) : crossed(n) \in BOOLEAN
  OBVIOUS
<1> HIDE DEF crossed
<1>4. ASSUME NEW n \in 1 .. Len(s) PROVE PutBack(Interjections(s, long)[n], n)
  <2>1. PICK b \in BOOLEAN : b = crossed(n)
    BY <1>3
  <2>2. Interjections(s, long)[n] = [s[n] EXCEPT !.too_short = TRUE, !.is_overlap = b]
    BY <1>1, <2>1
  <2> HIDE DEF PutBack
  <2> QED
    BY <1>2, <2>2
<1>5. PICK N \in Nat : N = Len(s)
  OBVIOUS
<1>6. Interjections(s, long) \in [1 .. N -> Turn]
  BY <1>1, <1>4, <1>5
<1>7. Interjections(s, long) \in Seq(Turn) /\ Len(Interjections(s, long)) = Len(s)
  BY <1>5, <1>6
<1> QED
  BY <1>4, <1>7, Zenon

\* The long turns of a list, and the short ones.
LEMMA PickedByLength ==
    ASSUME NEW t \in Seq(Turn)
    PROVE  LongTurns(t) \in Seq(Turn) /\ ShortTurns(t) \in Seq(Turn)
  BY Picked DEF LongTurns, ShortTurns

\* clean_turns makes an ordered list of turns.
LEMMA CleanTyped ==
    ASSUME NEW raw \in Seq(Turn), NEW edges \in SUBSET (0 .. Horizon)
    PROVE  CleanTurns(raw, edges) \in Seq(Turn) /\ Monotone(CleanTurns(raw, edges))
<1>1. PICK turns \in Seq(Turn) : turns = ByStart(raw)
  BY ByStartSorts
<1>2. PICK kept \in Seq(Turn) : kept = DropOnsetPhantoms(LongTurns(turns))
  BY PickedByLength, Picked DEF DropOnsetPhantoms
<1>3. PICK marked \in Seq(Turn) : marked = AnnotateOverlaps(MergeAdjacent(kept))
  BY MergeTyped, AnnotateTyped
<1>4. PICK long \in Seq(Turn) : long = LongTurns(SnapToVad(marked, edges))
  BY SnapTyped, PickedByLength
<1>5. PICK short \in Seq(Turn) : short = Interjections(ShortTurns(turns), long)
  BY PickedByLength, InterjectionsTyped
<1>6. CleanTurns(raw, edges) = ByStart(long \o short)
  BY <1>1, <1>2, <1>3, <1>4, <1>5 DEF CleanTurns
<1>7. long \o short \in Seq(Turn)
  OBVIOUS
<1> QED
  BY <1>6, <1>7, ByStartSorts

\* CountInterruptions, from any start and over any list of starts.
CountedFrom(t, base, s) == FoldLeft(LAMBDA seen, x : CountAt(t, seen, x), base, s)

\* f is what is known after each of N starts.
Counted(f, t, s, N, D, base) ==
    /\ f \in [0 .. N -> D] /\ f[0] = base /\ f[N] = CountedFrom(t, base, s)
    /\ \A i \in 1 .. N : f[i] = CountAt(t, f[i - 1], s[i])

\* Interruptions are counted start by start.
LEMMA CountUnfolds ==
    ASSUME NEW t, NEW s, NEW N \in Nat, DOMAIN s = 1 .. N, NEW D, NEW base \in D,
           \A i \in 1 .. N : \A d \in D : CountAt(t, d, s[i]) \in D
    PROVE  \E f : Counted(f, t, s, N, D, base)
<1> DEFINE next == [i \in 1 .. N |-> [d \in D |-> CountAt(t, d, s[i])]]
           Fold(F) == [T \in SUBSET (1 .. N) |-> IF T = {} THEN base ELSE CountAt(t, F[T \ {Max(T)}], s[Max(T)])]
           iter == CHOOSE F : F = Fold(F)
<1>1. CountedFrom(t, base, s) = iter[1 .. N]
  BY DEF CountedFrom, FoldLeft, MapThenFoldSet
<1>2. \A i \in 1 .. N : \A d \in D : next[i][d] \in D /\ next[i][d] = CountAt(t, d, s[i])
  OBVIOUS
<1> HIDE DEF next
<1>3. PICK g : FoldsTo(g, N, D, base, next)
  BY <1>2, FoldExists
<1>4. \A T \in SUBSET (1 .. N) : T # {} => Max(T) \in 1 .. N
  BY MaxOfNumbersFrom1
<1>5. g = Fold(g)
  <2>1. g \in [SUBSET (1 .. N) -> D] /\ g[{}] = base
    BY <1>3 DEF FoldsTo
  <2>2. ASSUME NEW T \in SUBSET (1 .. N), T # {} PROVE g[T] = CountAt(t, g[T \ {Max(T)}], s[Max(T)])
    <3>1. g[T] = next[Max(T)][g[T \ {Max(T)}]]
      BY <1>3, <2>2 DEF FoldsTo
    <3>2. g[T \ {Max(T)}] \in D
      BY <2>1
    <3> QED
      BY <1>2, <1>4, <2>2, <3>1, <3>2
  <2> QED
    BY <2>1, <2>2
<1>6. iter = Fold(iter)
  <2> HIDE DEF Fold
  <2> QED
    BY <1>5
<1> HIDE DEF iter
<1>7. iter[{}] = base
  BY <1>6
<1>8. \A T \in SUBSET (1 .. N) :
         T # {} /\ iter[T \ {Max(T)}] \in D => iter[T] = next[Max(T)][iter[T \ {Max(T)}]]
  <2> SUFFICES ASSUME NEW T \in SUBSET (1 .. N), T # {}, iter[T \ {Max(T)}] \in D
               PROVE  iter[T] = next[Max(T)][iter[T \ {Max(T)}]]
    OBVIOUS
  <2>1. iter[T] = CountAt(t, iter[T \ {Max(T)}], s[Max(T)])
    BY <1>6
  <2> QED
    BY <1>2, <1>4, <2>1
<1> DEFINE f == [i \in 0 .. N |-> iter[1 .. i]]
<1>9. StepByStep(f, N, D, base, next)
  <2> HIDE DEF Fold
  <2> QED
    BY <1>2, <1>7, <1>8, FoldUnfolds
<1>10. f[N] = CountedFrom(t, base, s)
  BY <1>1
<1> HIDE DEF f
<1>11. ASSUME NEW i \in 1 .. N PROVE f[i] = CountAt(t, f[i - 1], s[i])
  <2>1. f[i] = next[i][f[i - 1]] /\ f[i - 1] \in D
    BY <1>9 DEF StepByStep
  <2> QED
    BY <1>2, <2>1
<1> QED
  BY <1>9, <1>10, <1>11 DEF StepByStep, Counted

\* What one pass knows of the turns t: a count and a furthest end for each label.
Seen(t) == [count : [Labels(t) -> Nat], ends : [Labels(t) -> 0 .. Horizon + 1]]

\* One more start keeps the shape; each label's end moves to the furthest of its turns'.
LEMMA CountTyped ==
    ASSUME NEW t \in Seq(Turn), NEW seen \in Seen(t), NEW x \in Nat
    PROVE  /\ CountAt(t, seen, x) \in Seen(t)
           /\ \A l \in Labels(t) : LET e == CountAt(t, seen, x).ends[l] IN
                 /\ seen.ends[l] <= e
                 /\ \A i \in OfAt(t, l, x) : t[i].end <= e
                 /\ e = seen.ends[l] \/ \E i \in OfAt(t, l, x) : e = t[i].end
<1>1. Horizon \in Nat /\ DOMAIN t = 1 .. Len(t) /\ Len(t) \in Nat
  BY AlgorithmsConstants
<1>2. ASSUME NEW l \in Labels(t)
      PROVE  /\ OfAt(t, l, x) \in SUBSET (1 .. Len(t)) /\ IsFiniteSet(OfAt(t, l, x))
             /\ Cardinality(OfAt(t, l, x)) \in Nat
  <2>1. OfAt(t, l, x) \in SUBSET (1 .. Len(t))
    BY <1>1 DEF OfAt
  <2>2. IsFiniteSet(1 .. Len(t))
    BY <1>1, FS_Interval
  <2> QED
    BY <2>1, <2>2, FS_Subset, FS_CardinalityType
<1> DEFINE At(l) == {seen.ends[l]} \cup {t[i].end : i \in OfAt(t, l, x)}
<1>3. ASSUME NEW l \in Labels(t)
      PROVE  /\ Max(At(l)) \in 0 .. Horizon + 1
             /\ seen.ends[l] <= Max(At(l))
             /\ \A i \in OfAt(t, l, x) : t[i].end <= Max(At(l))
             /\ Max(At(l)) = seen.ends[l] \/ \E i \in OfAt(t, l, x) : Max(At(l)) = t[i].end
  <2>1. seen.ends[l] \in 0 .. Horizon + 1
    BY DEF Seen
  <2>2. \A i \in OfAt(t, l, x) : t[i].end \in 0 .. Horizon + 1
    BY <1>2 DEF Turn
  <2>3. At(l) \in SUBSET (0 .. Horizon + 1) /\ seen.ends[l] \in At(l) /\ At(l) # {}
    BY <2>1, <2>2
  <2>4. \A i \in OfAt(t, l, x) : t[i].end \in At(l)
    OBVIOUS
  <2>5. \A e \in At(l) : e = seen.ends[l] \/ \E i \in OfAt(t, l, x) : e = t[i].end
    OBVIOUS
  <2>6. PICK S : S = At(l)
    OBVIOUS
  <2> HIDE DEF At
  <2>7. PICK b \in Nat : b = Horizon + 1
    BY <1>1
  <2>8. Max(S) \in S /\ \A e \in S : e <= Max(S)
    BY <2>3, <2>6, <2>7, MaxOfNumbers
  <2> QED
    BY <2>3, <2>4, <2>5, <2>6, <2>8
<1> DEFINE crossed(l) == \E k \in Labels(t) \ {l} : seen.ends[k] > x
           more(l) == IF crossed(l) THEN Cardinality(OfAt(t, l, x)) ELSE 0
<1>4. CountAt(t, seen, x) = [count |-> [l \in Labels(t) |-> seen.count[l] + more(l)],
                             ends |-> [l \in Labels(t) |-> Max(At(l))]]
  BY DEF CountAt
<1>5. \A l \in Labels(t) : seen.count[l] + more(l) \in Nat
  <2> SUFFICES ASSUME NEW l \in Labels(t) PROVE seen.count[l] + more(l) \in Nat
    OBVIOUS
  <2>1. seen.count[l] \in Nat
    BY DEF Seen
  <2>2. more(l) \in Nat
    BY <1>2
  <2> HIDE DEF more
  <2> QED
    BY <2>1, <2>2
<1> HIDE DEF more, At
<1>6. CountAt(t, seen, x) \in Seen(t)
  BY <1>3, <1>4, <1>5 DEF Seen
<1>7. \A l \in Labels(t) : CountAt(t, seen, x).ends[l] = Max(At(l))
  BY <1>4
<1> QED
  BY <1>3, <1>6, <1>7

\* The turns of label l with a start among before that begin while another label's turn goes on.
CutIn(t, l, before) ==
    {i \in DOMAIN t : /\ t[i].label = l /\ t[i].start \in before
                      /\ \E j \in DOMAIN t : t[j].label # l /\ t[j].start < t[i].start /\ t[i].start < t[j].end}

\* What one pass has to know when it has passed the starts before.
Knows(t, seen, before) ==
    \A l \in Labels(t) :
       /\ \A i \in DOMAIN t : t[i].label = l /\ t[i].start \in before => t[i].end <= seen.ends[l]
       /\ seen.ends[l] = 0 \/ \E i \in DOMAIN t : t[i].label = l /\ t[i].start \in before /\ seen.ends[l] = t[i].end
       /\ seen.count[l] = Cardinality(CutIn(t, l, before))

\* A set of turns is finite.
LEMMA TurnsAreFinite ==
    ASSUME NEW t \in Seq(Turn), NEW T \in SUBSET (DOMAIN t)
    PROVE  IsFiniteSet(T) /\ Cardinality(T) \in Nat
<1>1. DOMAIN t = 1 .. Len(t) /\ Len(t) \in Nat
  OBVIOUS
<1>2. IsFiniteSet(DOMAIN t)
  BY <1>1, FS_Interval
<1> QED
  BY <1>2, FS_Subset, FS_CardinalityType

\* The next start is judged by the furthest ends of the starts before it.
LEMMA JudgedByEnds ==
    ASSUME NEW t \in Seq(Turn), NEW seen \in Seen(t), NEW before, NEW x \in Nat, Knows(t, seen, before),
           \A y \in before : y \in Nat /\ y < x, \A i \in DOMAIN t : t[i].start < x => t[i].start \in before,
           NEW l \in Labels(t)
    PROVE  (\E k \in Labels(t) \ {l} : seen.ends[k] > x)
       <=> (\E j \in DOMAIN t : t[j].label # l /\ t[j].start < x /\ x < t[j].end)
<1>1. \A i \in DOMAIN t : t[i].start \in Nat /\ t[i].end \in Nat /\ t[i].label \in Labels(t)
  BY AlgorithmsConstants DEF Turn, Labels
<1>2. ASSUME NEW k \in Labels(t) \ {l}, seen.ends[k] > x
      PROVE  \E j \in DOMAIN t : t[j].label # l /\ t[j].start < x /\ x < t[j].end
  <2>1. PICK e : e = seen.ends[k]
    OBVIOUS
  <2>2. e # 0 /\ e > x
    BY <1>2, <2>1
  <2>3. PICK j \in DOMAIN t : t[j].label = k /\ t[j].start \in before /\ e = t[j].end
    BY <2>1, <2>2 DEF Knows
  <2>4. t[j].label # l /\ t[j].start < x
    BY <2>3
  <2>5. x < t[j].end
    BY <1>1, <2>2, <2>3
  <2> QED
    BY <2>4, <2>5
<1>3. ASSUME NEW j \in DOMAIN t, t[j].label # l, t[j].start < x, x < t[j].end
      PROVE  \E k \in Labels(t) \ {l} : seen.ends[k] > x
  <2>1. PICK k \in Labels(t) \ {l} : k = t[j].label
    BY <1>1, <1>3
  <2>2. t[j].end <= seen.ends[k]
    BY <1>3, <2>1 DEF Knows
  <2>3. seen.ends[k] \in 0 .. Horizon + 1
    BY DEF Seen
  <2>4. seen.ends[k] > x
    BY <1>1, <1>3, <2>2, <2>3, AlgorithmsConstants
  <2> QED
    BY <2>4
<1> QED
  BY <1>2, <1>3

\* So one more start adds its own interruptions.
LEMMA CountStep ==
    ASSUME NEW t \in Seq(Turn), NEW seen \in Seen(t), NEW before, NEW x \in Nat, Knows(t, seen, before),
           \A y \in before : y \in Nat /\ y < x, \A i \in DOMAIN t : t[i].start < x => t[i].start \in before
    PROVE  Knows(t, CountAt(t, seen, x), before \cup {x})
<1>1. /\ Horizon \in Nat
      /\ \A i \in DOMAIN t : t[i].start \in Nat /\ t[i].end \in 0 .. Horizon + 1 /\ t[i].label \in Labels(t)
  BY AlgorithmsConstants DEF Turn, Labels
<1> DEFINE new == CountAt(t, seen, x)
<1> SUFFICES ASSUME NEW l \in Labels(t)
             PROVE  /\ \A i \in DOMAIN t : t[i].label = l /\ t[i].start \in before \cup {x} => t[i].end <= new.ends[l]
                    /\ new.ends[l] = 0 \/ \E i \in DOMAIN t : /\ t[i].label = l /\ t[i].start \in before \cup {x}
                                                              /\ new.ends[l] = t[i].end
                    /\ new.count[l] = Cardinality(CutIn(t, l, before \cup {x}))
  BY DEF Knows
<1>2. PICK e \in 0 .. Horizon + 1 : e = seen.ends[l]
  BY DEF Seen
<1>3. PICK d \in 0 .. Horizon + 1 :
         /\ d = new.ends[l] /\ e <= d /\ \A i \in OfAt(t, l, x) : t[i].end <= d
         /\ d = e \/ \E i \in OfAt(t, l, x) : d = t[i].end
  <2>1. PICK d : d = new.ends[l]
    OBVIOUS
  <2>2. new \in Seen(t) /\ seen.ends[l] <= d /\ (\A i \in OfAt(t, l, x) : t[i].end <= d)
        /\ (d = seen.ends[l] \/ \E i \in OfAt(t, l, x) : d = t[i].end)
    BY <2>1, CountTyped
  <2>3. d \in 0 .. Horizon + 1
    BY <2>1, <2>2 DEF Seen
  <2> HIDE DEF new
  <2> QED
    BY <1>2, <2>1, <2>2, <2>3
<1>4. ASSUME NEW i \in DOMAIN t, t[i].label = l, t[i].start \in before \cup {x} PROVE t[i].end <= d
  <2>1. CASE t[i].start = x
    BY <1>3, <1>4, <2>1 DEF OfAt
  <2>2. CASE t[i].start \in before
    <3>1. t[i].end <= e
      BY <1>2, <1>4, <2>2 DEF Knows
    <3> QED
      BY <1>1, <1>3, <3>1
  <2> QED
    BY <1>4, <2>1, <2>2
<1>5. d = 0 \/ \E i \in DOMAIN t : t[i].label = l /\ t[i].start \in before \cup {x} /\ d = t[i].end
  <2>1. CASE d = e
    BY <1>2, <2>1 DEF Knows
  <2>2. CASE \E i \in OfAt(t, l, x) : d = t[i].end
    BY <2>2 DEF OfAt
  <2> QED
    BY <1>3, <2>1, <2>2
<1> DEFINE old == CutIn(t, l, before)
           now == OfAt(t, l, x)
           crossed == \E k \in Labels(t) \ {l} : seen.ends[k] > x
<1>6. crossed <=> \E j \in DOMAIN t : t[j].label # l /\ t[j].start < x /\ x < t[j].end
  BY JudgedByEnds
<1>7. seen.count[l] = Cardinality(old)
  BY DEF Knows
<1>8. new.count[l] = seen.count[l] + (IF crossed THEN Cardinality(now) ELSE 0)
  BY DEF CountAt
<1>9. old \in SUBSET (DOMAIN t) /\ now \in SUBSET (DOMAIN t) /\ old \cap now = {}
  <2>1. \A i \in old : t[i].start # x
    <3> SUFFICES ASSUME NEW i \in old PROVE t[i].start # x
      OBVIOUS
    <3>1. t[i].start \in before
      BY DEF CutIn
    <3> QED
      BY <3>1
  <2> QED
    BY <2>1 DEF CutIn, OfAt
<1>10. new.count[l] = Cardinality(CutIn(t, l, before \cup {x}))
  <2>1. CASE crossed
    <3>1. CutIn(t, l, before \cup {x}) = old \cup now
      <4>1. \A i \in DOMAIN t : t[i].start = x =>
               \E j \in DOMAIN t : t[j].label # l /\ t[j].start < t[i].start /\ t[i].start < t[j].end
        BY <1>6, <2>1
      <4> QED
        BY <4>1 DEF CutIn, OfAt
    <3>2. PICK a \in Nat, b \in Nat : a = Cardinality(old) /\ b = Cardinality(now)
      BY <1>9, TurnsAreFinite
    <3>3. Cardinality(old \cup now) = a + b
      <4>1. IsFiniteSet(old) /\ IsFiniteSet(now)
        BY <1>9, TurnsAreFinite
      <4>2. Cardinality(old \cup now) = Cardinality(old) + Cardinality(now) - Cardinality(old \cap now)
        BY <4>1, FS_Union
      <4>3. Cardinality(old \cap now) = 0
        BY <1>9, FS_EmptySet
      <4> HIDE DEF old, now
      <4> QED
        BY <3>2, <4>2, <4>3
    <3> HIDE DEF old, now, crossed, new
    <3> QED
      BY <1>7, <1>8, <2>1, <3>1, <3>2, <3>3
  <2>2. CASE ~crossed
    <3>1. CutIn(t, l, before \cup {x}) = old
      <4>1. \A i \in DOMAIN t : t[i].start = x =>
               ~\E j \in DOMAIN t : t[j].label # l /\ t[j].start < t[i].start /\ t[i].start < t[j].end
        BY <1>6, <2>2
      <4> QED
        BY <4>1 DEF CutIn
    <3>2. Cardinality(old) \in Nat
      BY <1>9, TurnsAreFinite
    <3> HIDE DEF old, now, crossed, new
    <3> QED
      BY <1>7, <1>8, <2>2, <3>1, <3>2
  <2> QED
    BY <2>1, <2>2
<1> HIDE DEF new
<1> QED
  BY <1>3, <1>4, <1>5, <1>10

\* count_interruptions_all counts what comparing every two turns would.
LEMMA CountsEveryInterruption ==
    ASSUME NEW t \in Seq(Turn), NEW l \in Labels(t)
    PROVE  CountInterruptions(t)[l] =
              Cardinality({i \in DOMAIN t : t[i].label = l /\
                  \E j \in DOMAIN t : CrossTalk(t[i], t[j]) /\ t[j].start < t[i].start})
<1> DEFINE none == [k \in Labels(t) |-> 0]
           starts == {t[i].start : i \in DOMAIN t}
           base == [count |-> none, ends |-> none]
           key == [x \in starts |-> x]
<1>1. /\ Horizon \in Nat /\ DOMAIN t = 1 .. Len(t) /\ Len(t) \in Nat
      /\ \A i \in DOMAIN t : t[i] \in Turn /\ t[i].start \in Nat
  BY AlgorithmsConstants DEF Turn
<1>2. starts \in SUBSET Nat /\ IsFiniteSet(starts) /\ key \in [starts -> Int]
  <2>1. IsFiniteSet(DOMAIN t)
    BY TurnsAreFinite
  <2>2. PICK g : g = [i \in DOMAIN t |-> t[i].start]
    OBVIOUS
  <2>3. g \in Surjection(DOMAIN t, starts)
    BY <2>2 DEF Surjection
  <2>4. IsFiniteSet(starts)
    BY <2>1, <2>3, FS_Surjection
  <2> QED
    BY <1>1, <2>4
<1>3. PICK order : order = Sorted(starts, key)
  OBVIOUS
<1>4. PICK K \in Nat : K = Cardinality(starts)
  BY <1>2, FS_CardinalityType
<1>5. /\ order \in [1 .. K -> starts] /\ DOMAIN order = 1 .. K
      /\ \A x \in starts : \E n \in 1 .. K : order[n] = x
      /\ \A m, n \in 1 .. K : m < n => order[m] < order[n]
  <2> HIDE DEF starts, key
  <2>1. Lists(order, starts, key) /\ \A x \in starts : \E n \in 1 .. K : order[n] = x
    <3>1. starts \in SUBSET Int
      BY <1>2
    <3> QED
      BY <1>2, <1>3, <1>4, <3>1, SortedLists
  <2>2. order \in [1 .. K -> starts]
    BY <1>4, <2>1 DEF Lists
  <2>3. ASSUME NEW m \in 1 .. K, NEW n \in 1 .. K, m < n PROVE order[m] < order[n]
    <3>1. Before(key, order[m], order[n])
      BY <1>4, <2>1, <2>3 DEF Lists
    <3>2. order[m] \in starts /\ order[n] \in starts
      BY <2>2
    <3>3. key[order[m]] = order[m] /\ key[order[n]] = order[n]
      BY <3>2 DEF key
    <3>4. order[m] \in Nat /\ order[n] \in Nat
      BY <1>2, <3>2
    <3> QED
      BY <3>1, <3>3, <3>4 DEF Before
  <2> QED
    BY <2>1, <2>2, <2>3
<1>6. base \in Seen(t)
  <2>1. 0 \in 0 .. Horizon + 1
    BY <1>1
  <2>2. none \in [Labels(t) -> Nat] /\ none \in [Labels(t) -> 0 .. Horizon + 1]
    BY <2>1
  <2> HIDE DEF none
  <2> QED
    BY <2>2 DEF Seen
<1>7. CountInterruptions(t) = CountedFrom(t, base, order).count
  BY <1>3 DEF CountInterruptions, CountedFrom
<1>8. \A n \in 1 .. K : order[n] \in Nat
  BY <1>2, <1>5
<1>9. PICK f : /\ f \in [0 .. K -> Seen(t)] /\ f[0] = base /\ f[K] = CountedFrom(t, base, order)
               /\ \A n \in 1 .. K : f[n] = CountAt(t, f[n - 1], order[n])
  <2> DEFINE D == Seen(t)
  <2>1. \A n \in 1 .. K : \A d \in D : CountAt(t, d, order[n]) \in D
    BY <1>8, CountTyped
  <2>2. base \in D
    BY <1>6
  <2> HIDE DEF D, base, starts, key, none
  <2>3. \E f : Counted(f, t, order, K, D, base)
    BY <1>5, <2>1, <2>2, CountUnfolds
  <2> QED
    BY <2>3 DEF D, Counted
<1> DEFINE passed(n) == {order[m] : m \in 1 .. n}
           Good == {n \in Nat : n <= K => Knows(t, f[n], passed(n))}
<1>10. 0 \in Good
  <2>1. passed(0) = {}
    OBVIOUS
  <2>2. ASSUME NEW k \in Labels(t) PROVE base.count[k] = 0 /\ base.ends[k] = 0
    OBVIOUS
  <2>3. ASSUME NEW k \in Labels(t) PROVE Cardinality(CutIn(t, k, {})) = 0
    <3>1. CutIn(t, k, {}) = {}
      BY DEF CutIn
    <3> QED
      BY <3>1, FS_EmptySet
  <2> HIDE DEF base
  <2>4. Knows(t, f[0], {})
    BY <1>9, <2>2, <2>3 DEF Knows
  <2> QED
    BY <2>1, <2>4
<1>11. ASSUME NEW n \in Nat, n \in Good PROVE n + 1 \in Good
  <2> SUFFICES ASSUME n + 1 <= K PROVE Knows(t, f[n + 1], passed(n + 1))
    OBVIOUS
  <2>1. PICK m \in 1 .. K : m = n + 1 /\ m - 1 = n /\ n \in 0 .. K /\ n <= K
    <3>1. n + 1 \in 1 .. K /\ (n + 1) - 1 = n /\ n \in 0 .. K /\ n <= K
      BY <1>4
    <3> QED
      BY <3>1
  <2>2. PICK x \in Nat : x = order[m]
    BY <1>8
  <2>3. PICK seen \in Seen(t) : seen = f[n]
    BY <1>9, <2>1
  <2>4. PICK before : before = passed(n)
    OBVIOUS
  <2>5. Knows(t, seen, before)
    BY <1>11, <2>1, <2>3, <2>4
  <2>6. \A y \in before : y \in Nat /\ y < x
    <3> SUFFICES ASSUME NEW k \in 1 .. n PROVE order[k] \in Nat /\ order[k] < x
      BY <2>4
    <3>1. k \in 1 .. K /\ k < m
      BY <2>1
    <3> QED
      BY <1>5, <1>8, <2>2, <3>1
  <2>7. ASSUME NEW i \in DOMAIN t, t[i].start < x PROVE t[i].start \in before
    <3>1. PICK k \in 1 .. K : order[k] = t[i].start
      <4>1. t[i].start \in starts
        OBVIOUS
      <4> HIDE DEF starts
      <4> QED
        BY <1>5, <4>1
    <3>2. order[k] < order[m] /\ order[k] \in Nat /\ order[m] \in Nat
      BY <1>8, <2>2, <2>7, <3>1
    <3>3. ~(m < k) /\ m # k
      <4>1. m < k => order[m] < order[k]
        BY <1>5
      <4> QED
        BY <3>2, <4>1
    <3>4. k \in 1 .. n
      BY <2>1, <3>3
    <3> QED
      BY <2>4, <3>1, <3>4
  <2>8. Knows(t, CountAt(t, seen, x), before \cup {x})
    BY <2>5, <2>6, <2>7, CountStep
  <2>9. f[n + 1] = CountAt(t, seen, x)
    BY <1>9, <2>1, <2>2, <2>3
  <2>10. passed(n + 1) = before \cup {x}
    <3>1. 1 .. m = (1 .. n) \cup {m}
      BY <2>1
    <3> QED
      BY <2>1, <2>2, <2>4, <3>1
  <2> HIDE DEF passed
  <2> QED
    BY <2>8, <2>9, <2>10
<1>12. Knows(t, f[K], passed(K))
  <2>1. Nat \subseteq Good
    <3> HIDE DEF Good
    <3> QED
      BY <1>10, <1>11, NumberInduction
  <2> HIDE DEF passed
  <2> QED
    BY <2>1
<1>13. passed(K) = starts
  BY <1>5
<1>14. CountInterruptions(t)[l] = Cardinality(CutIn(t, l, starts))
  <2> HIDE DEF passed, starts, base
  <2> QED
    BY <1>7, <1>9, <1>12, <1>13 DEF Knows
<1>15. CutIn(t, l, starts) = {i \in DOMAIN t : t[i].label = l /\
                                \E j \in DOMAIN t : CrossTalk(t[i], t[j]) /\ t[j].start < t[i].start}
  <2>1. ASSUME NEW i \in DOMAIN t, NEW j \in DOMAIN t
        PROVE  CrossTalk(t[i], t[j]) /\ t[j].start < t[i].start <=>
                  t[j].label # t[i].label /\ t[j].start < t[i].start /\ t[i].start < t[j].end
    <3>1. CrossTalk(t[i], t[j]) <=> t[i].label # t[j].label /\ t[i].start < t[j].end /\ t[j].start < t[i].end
      BY <1>1, CrossTalkMeans
    <3>2. t[i].start < t[i].end /\ t[i].end \in Int /\ t[i].start \in Int /\ t[j].start \in Int
      BY <1>1 DEF Turn
    <3> QED
      BY <3>1, <3>2
  <2> QED
    BY <2>1 DEF CutIn
<1> QED
  BY <1>14, <1>15

-----------------------------------------------------------------------------
(* Words to speakers, reconcile.py and postprocess.py.                     *)

\* A greatest and a least element are the maximum and the minimum.
LEMMA MaxMinAre ==
    ASSUME NEW S \in SUBSET Int, NEW m \in S
    PROVE  /\ (\A y \in S : y <= m) => Max(S) = m
           /\ (\A y \in S : m <= y) => Min(S) = m
<1>1. ASSUME \A y \in S : y <= m PROVE Max(S) = m
  <2>1. \A y \in S : m >= y
    BY <1>1
  <2>2. Max(S) \in S /\ \A y \in S : Max(S) >= y
    BY <2>1 DEF Max
  <2>3. PICK x \in Int : x = Max(S) /\ x >= m /\ x <= m /\ m \in Int
    BY <1>1, <2>2
  <2> QED
    BY <2>3
<1>2. ASSUME \A y \in S : m <= y PROVE Min(S) = m
  <2>1. Min(S) \in S /\ \A y \in S : Min(S) <= y
    BY <1>2 DEF Min
  <2>2. PICK x \in Int : x = Min(S) /\ x <= m /\ m <= x /\ m \in Int
    BY <1>2, <2>1
  <2> QED
    BY <2>2
<1> QED
  BY <1>1, <1>2

\* A word of the decoder.
Word == {w \in [start : 0 .. Horizon, end : 0 .. Horizon, ends_sentence : BOOLEAN] : w.start < w.end}

\* A word starts before it ends.
LEMMA WordTimes == \A w \in Word : w.start \in Nat /\ w.end \in Nat /\ w.start < w.end
<1>1. PICK H \in Nat : H = Horizon
  BY AlgorithmsConstants
<1> SUFFICES ASSUME NEW w \in Word PROVE w.start \in Nat /\ w.end \in Nat /\ w.start < w.end
  OBVIOUS
<1>2. w.start \in 0 .. H /\ w.end \in 0 .. H /\ w.start < w.end
  BY <1>1 DEF Word
<1> QED
  BY <1>2

\* Later words start later.
WordsInOrder(words) == \A m, n \in 1 .. Len(words) : m <= n => words[m].start <= words[n].start

\* assign_words' window begins behind turns that ended before the word only.
LEMMA PassesTheEnded ==
    ASSUME NEW words \in Seq(Word), WordsInOrder(words), NEW turns \in Seq(Turn), NEW i \in 1 .. Len(words)
    PROVE  /\ FirstUnended(words, turns)[i] \in 1 .. Len(turns) + 1
           /\ \A k \in 1 .. FirstUnended(words, turns)[i] - 1 : turns[k].end <= words[i].start
<1> PICK N \in Nat : N = Len(words) /\ i \in 1 .. N /\ N # 0
  OBVIOUS
<1> PICK M \in Nat : M = Len(turns) /\ M + 1 \in 1 .. M + 1
  OBVIOUS
<1>1. /\ \A k \in 1 .. M : turns[k].end \in Int
      /\ \A n \in 1 .. N : words[n].start \in Int
  BY DEF Turn, Word
<1> DEFINE Ended(n, k) == turns[k].end <= words[n].start
           Ends(n, d, j) == /\ j > M \/ turns[j].end > words[n].start
                            /\ \A k \in d .. j - 1 : turns[k].end <= words[n].start
           Choice(n, d) == CHOOSE j \in d .. M + 1 : Ends(n, d, j)
           next == [n \in 1 .. N |-> [d \in 1 .. M + 1 |-> Choice(n, d)]]
<1>2. ASSUME NEW n \in 1 .. N, NEW d \in 1 .. M + 1 PROVE Choice(n, d) \in d .. M + 1 /\ Ends(n, d, Choice(n, d))
  <2> DEFINE Late == {j \in d .. M + 1 : j > M \/ ~Ended(n, j)}
  <2>1. M + 1 \in Late
    OBVIOUS
  <2>2. PICK j \in Late : \A m \in Late : j <= m
    <3>1. Late \in SUBSET Nat
      OBVIOUS
    <3> HIDE DEF Late
    <3> QED
      BY <2>1, <3>1, LeastNumber
  <2>3. j \in d .. M + 1 /\ (j > M \/ turns[j].end > words[n].start)
    <3>1. j \in d .. M + 1 /\ (j > M \/ ~Ended(n, j))
      OBVIOUS
    <3>2. j \in 1 .. M => turns[j].end \in Int
      BY <1>1
    <3>3. words[n].start \in Int
      BY <1>1
    <3> QED
      BY <3>1, <3>2, <3>3
  <2>4. ASSUME NEW k \in d .. j - 1 PROVE turns[k].end <= words[n].start
    <3>1. k \in d .. M + 1 /\ ~(j <= k)
      BY <2>3
    <3> QED
      BY <2>2, <3>1
  <2>5. Ends(n, d, j)
    BY <2>3, <2>4
  <2> HIDE DEF Ends
  <2> QED
    BY <2>3, <2>5
<1> DEFINE Lo(h) == [n \in 0 .. N |-> IF n = 0 THEN 1 ELSE Choice(n, h[n - 1])]
<1>3. PICK g : StepByStep(g, N, 1 .. M + 1, 1, next)
  <2>1. \A n \in 1 .. N : \A d \in 1 .. M + 1 : next[n][d] \in 1 .. M + 1
    <3> SUFFICES ASSUME NEW n \in 1 .. N, NEW d \in 1 .. M + 1 PROVE Choice(n, d) \in 1 .. M + 1
      OBVIOUS
    <3>1. Choice(n, d) \in d .. M + 1
      BY <1>2
    <3> HIDE DEF Choice
    <3> QED
      BY <3>1
  <2>2. 1 \in 1 .. M + 1
    OBVIOUS
  <2>3. PICK D : D = 1 .. M + 1
    OBVIOUS
  <2> HIDE DEF next
  <2> QED
    BY <2>1, <2>2, <2>3, Recursion
<1> HIDE DEF Choice
<1>4. g = Lo(g)
  <2>1. g \in [0 .. N -> 1 .. M + 1] /\ g[0] = 1
    BY <1>3 DEF StepByStep
  <2>2. ASSUME NEW n \in 1 .. N PROVE g[n] = Choice(n, g[n - 1])
    <3>1. n - 1 \in 0 .. N
      OBVIOUS
    <3>2. g[n - 1] \in 1 .. M + 1
      BY <2>1, <3>1
    <3>3. g[n] = next[n][g[n - 1]]
      BY <1>3 DEF StepByStep
    <3> QED
      BY <3>2, <3>3
  <2>3. ASSUME NEW n \in 0 .. N PROVE g[n] = IF n = 0 THEN 1 ELSE Choice(n, g[n - 1])
    BY <2>1, <2>2
  <2> QED
    BY <2>1, <2>3
<1> DEFINE lo == FirstUnended(words, turns)
<1>5. lo = CHOOSE h : h = Lo(h)
  BY DEF FirstUnended, Choice
<1>6. lo = Lo(lo)
  <2> HIDE DEF Lo
  <2> QED
    BY <1>4, <1>5
<1> HIDE DEF lo
<1>7. lo[0] = 1 /\ \A n \in 1 .. N : lo[n] = Choice(n, lo[n - 1])
  <2>1. \A n \in 0 .. N : Lo(lo)[n] = IF n = 0 THEN 1 ELSE Choice(n, lo[n - 1])
    OBVIOUS
  <2>2. \A n \in 0 .. N : lo[n] = Lo(lo)[n]
    BY <1>6
  <2> HIDE DEF Lo
  <2>3. \A n \in 0 .. N : lo[n] = IF n = 0 THEN 1 ELSE Choice(n, lo[n - 1])
    BY <2>1, <2>2
  <2>4. 0 \in 0 .. N /\ \A n \in 1 .. N : n \in 0 .. N /\ n # 0
    OBVIOUS
  <2> QED
    BY <2>3, <2>4
<1> DEFINE Passed(n) == lo[n] \in 1 .. M + 1 /\ \A k \in 1 .. lo[n] - 1 : Ended(n, k)
           Good == {n \in Nat : n + 1 <= N => Passed(n + 1)}
<1>8. ASSUME NEW n \in 1 .. N, lo[n - 1] \in 1 .. M + 1, \A k \in 1 .. lo[n - 1] - 1 : Ended(n, k) PROVE Passed(n)
  <2>1. PICK d \in 1 .. M + 1 : d = lo[n - 1]
    BY <1>8
  <2>2. PICK j : j = lo[n]
    OBVIOUS
  <2>3. j \in d .. M + 1 /\ Ends(n, d, j)
    BY <1>2, <1>7, <2>1, <2>2
  <2>4. ASSUME NEW k \in 1 .. j - 1 PROVE Ended(n, k)
    <3>1. k \in 1 .. d - 1 \/ k \in d .. j - 1
      BY <2>3
    <3> QED
      BY <1>8, <2>1, <2>3, <3>1
  <2> QED
    BY <2>2, <2>3, <2>4
<1>9. 0 \in Good
  <2>1. lo[1 - 1] = 1 /\ 1 \in 1 .. N
    BY <1>7
  <2>2. lo[1 - 1] \in 1 .. M + 1 /\ \A k \in 1 .. lo[1 - 1] - 1 : Ended(1, k)
    BY <2>1
  <2>3. Passed(1)
    BY <1>8, <2>1, <2>2
  <2> HIDE DEF Passed
  <2> QED
    BY <2>3
<1>10. ASSUME NEW n \in Nat, n \in Good PROVE n + 1 \in Good
  <2> SUFFICES ASSUME (n + 1) + 1 <= N PROVE Passed((n + 1) + 1)
    BY DEF Good
  <2>1. PICK m \in 1 .. N : m = (n + 1) + 1 /\ m - 1 = n + 1 /\ m - 1 \in 1 .. N /\ n + 1 <= N
    OBVIOUS
  <2>2. Passed(m - 1)
    BY <1>10, <2>1 DEF Good
  <2>3. words[m - 1].start <= words[m].start /\ words[m - 1].start \in Int /\ words[m].start \in Int
    BY <1>1, <2>1 DEF WordsInOrder
  <2>4. ASSUME NEW k \in 1 .. lo[m - 1] - 1 PROVE Ended(m, k)
    <3>1. PICK d \in 1 .. M + 1 : d = lo[m - 1]
      BY <2>2
    <3>2. k \in 1 .. M /\ Ended(m - 1, k)
      BY <2>2, <3>1
    <3>3. turns[k].end \in Int
      BY <1>1, <3>2
    <3> QED
      BY <2>3, <3>2, <3>3
  <2>5. Passed(m)
    BY <1>8, <2>2, <2>4
  <2> QED
    BY <2>1, <2>5
<1>11. Nat \subseteq Good
  <2> HIDE DEF Good
  <2> QED
    BY <1>9, <1>10, NumberInduction
<1>12. PICK n \in Nat : n + 1 = i
  <2>1. i - 1 \in Nat /\ (i - 1) + 1 = i
    OBVIOUS
  <2> QED
    BY <2>1
<1>13. Passed(i)
  <2>1. n + 1 <= N
    BY <1>12
  <2> HIDE DEF Passed
  <2> QED
    BY <1>11, <1>12, <2>1
<1> QED
  BY <1>13 DEF lo

\* The time a word shares with a turn.
LEMMA SharedMeans ==
    ASSUME NEW w \in Word, NEW t \in Turn
    PROVE  /\ Shared(w, t) \in Int /\ Shared(w, t) <= Horizon
           /\ Shared(w, t) > 0 <=> t.start < w.end /\ w.start < t.end
<1>1. PICK ws \in 0 .. Horizon, we \in 0 .. Horizon, ts \in Int, te \in Int :
         ws = w.start /\ we = w.end /\ ts = t.start /\ te = t.end /\ ws < we /\ ts < te /\ 0 <= ts
  BY AlgorithmsConstants DEF Word, Turn
<1>2. ws \in Int /\ we \in Int /\ Horizon \in Nat
  BY AlgorithmsConstants
<1>3. Shared(w, t) = (IF we <= te THEN we ELSE te) - (IF ws >= ts THEN ws ELSE ts)
  <2>1. Min({we, te}) = (IF we <= te THEN we ELSE te) /\ Max({ws, ts}) = (IF ws >= ts THEN ws ELSE ts)
    BY <1>1, <1>2, OfTwo
  <2>2. Shared(w, t) = Min({we, te}) - Max({ws, ts})
    BY <1>1, Zenon DEF Shared
  <2> QED
    BY <2>1, <2>2, Zenon
<1>4. PICK both \in Int : both = (IF we <= te THEN we ELSE te) - (IF ws >= ts THEN ws ELSE ts)
  BY <1>1, <1>2
<1>5. both <= Horizon /\ (both > 0 <=> ts < we /\ ws < te)
  BY <1>1, <1>2, <1>4
<1>6. Shared(w, t) = both
  BY <1>3, <1>4, Zenon
<1> QED
  BY <1>1, <1>5, <1>6

\* assign_words' window for word i, and the turns in it that share time with the word.
WindowOf(words, turns, i) ==
    {j \in FirstUnended(words, turns)[i] .. Len(turns) :
        \A k \in FirstUnended(words, turns)[i] .. j : turns[k].start < words[i].end}
TouchingIn(words, turns, i) == {j \in WindowOf(words, turns, i) : Shared(words[i], turns[j]) > 0}

\* Those are all that do.
LEMMA WindowHoldsAllTouching ==
    ASSUME NEW words \in Seq(Word), WordsInOrder(words), NEW turns \in Seq(Turn), Monotone(turns),
           NEW i \in 1 .. Len(words)
    PROVE  TouchingIn(words, turns, i) = {j \in 1 .. Len(turns) : Shared(words[i], turns[j]) > 0}
<1>1. PICK lo, window :
         /\ lo = FirstUnended(words, turns)[i]
         /\ window = {j \in lo .. Len(turns) : \A k \in lo .. j : turns[k].start < words[i].end}
         /\ window = WindowOf(words, turns, i)
  BY DEF WindowOf
<1>2. lo \in 1 .. Len(turns) + 1 /\ \A k \in 1 .. lo - 1 : turns[k].end <= words[i].start
  BY <1>1, PassesTheEnded
<1>3. words[i] \in Word /\ \A j \in 1 .. Len(turns) : turns[j] \in Turn
  OBVIOUS
<1>4. ASSUME NEW j \in window PROVE j \in 1 .. Len(turns)
  BY <1>1, <1>2
<1>5. ASSUME NEW j \in 1 .. Len(turns), Shared(words[i], turns[j]) > 0 PROVE j \in window
  <2>1. turns[j].start < words[i].end /\ words[i].start < turns[j].end
    BY <1>3, <1>5, SharedMeans
  <2>2. ~(j \in 1 .. lo - 1)
    <3>1. turns[j].end \in Int /\ words[i].start \in Int
      BY <1>3, TurnTimes, WordTimes
    <3> QED
      BY <1>2, <2>1, <3>1
  <2>3. j \in lo .. Len(turns)
    BY <1>2, <2>2
  <2>4. ASSUME NEW k \in lo .. j PROVE turns[k].start < words[i].end
    <3>1. k \in 1 .. Len(turns) /\ k <= j
      BY <1>2
    <3>2. turns[k].start <= turns[j].start
      BY <3>1 DEF Monotone
    <3>3. turns[k] \in Turn /\ turns[j] \in Turn /\ words[i] \in Word
      BY <1>3, <3>1
    <3>4. turns[k].start \in Int /\ turns[j].start \in Int /\ words[i].end \in Int
      BY <3>3, TurnTimes, WordTimes
    <3> QED
      BY <2>1, <3>2, <3>4
  <2> QED
    BY <1>1, <2>3, <2>4
<1> QED
  BY <1>1, <1>4, <1>5 DEF TouchingIn

\* The best of the turns that share time with a word is the first of those that share most.
BestOf(w, turns, touching, best) ==
    /\ best \in touching
    /\ \A k \in touching : Shared(w, turns[best]) > Shared(w, turns[k])
                           \/ (Shared(w, turns[best]) = Shared(w, turns[k]) /\ best <= k)

\* There is one, if there is any turn that does.
LEMMA BestExists ==
    ASSUME NEW w \in Word, NEW turns \in Seq(Turn), NEW touching, touching # {},
           touching = {j \in 1 .. Len(turns) : Shared(w, turns[j]) > 0}
    PROVE  \E best : BestOf(w, turns, touching, best)
<1>1. \A j \in touching : Shared(w, turns[j]) \in 0 .. Horizon /\ Horizon \in Nat
  <2> SUFFICES ASSUME NEW j \in touching PROVE Shared(w, turns[j]) \in 0 .. Horizon
    BY AlgorithmsConstants
  <2>1. turns[j] \in Turn /\ Shared(w, turns[j]) > 0
    OBVIOUS
  <2> QED
    BY <2>1, SharedMeans, AlgorithmsConstants
<1> DEFINE shares == {Shared(w, turns[j]) : j \in touching}
<1>2. PICK d \in shares : \A e \in shares : e <= d
  <2>1. shares \in SUBSET (0 .. Horizon) /\ shares # {} /\ Horizon \in Nat
    BY <1>1
  <2> HIDE DEF shares
  <2> QED
    BY <2>1, GreatestNumber
<1> DEFINE top == {j \in touching : Shared(w, turns[j]) = d}
<1>3. PICK best \in top : \A k \in top : best <= k
  <2>1. top \in SUBSET Nat /\ top # {}
    OBVIOUS
  <2> HIDE DEF top
  <2> QED
    BY <2>1, LeastNumber
<1>4. ASSUME NEW k \in touching
      PROVE  Shared(w, turns[best]) > Shared(w, turns[k])
             \/ (Shared(w, turns[best]) = Shared(w, turns[k]) /\ best <= k)
  <2>1. Shared(w, turns[k]) \in shares /\ Shared(w, turns[best]) = d
    OBVIOUS
  <2>2. Shared(w, turns[k]) <= d /\ Shared(w, turns[k]) \in Int /\ d \in Int
    <3>1. \A e \in shares : e \in Int
      BY <1>1
    <3> HIDE DEF shares
    <3> QED
      BY <1>2, <2>1, <3>1
  <2>3. CASE Shared(w, turns[k]) = d
    <3>1. k \in top
      BY <2>3
    <3> QED
      BY <1>3, <2>1, <2>3, <3>1
  <2>4. CASE Shared(w, turns[k]) # d
    BY <2>1, <2>2, <2>4
  <2> QED
    BY <2>3, <2>4
<1> QED
  BY <1>3, <1>4 DEF BestOf

\* The most a word shares with any turn, and the first turn it shares that with.
MostShared(w, turns) == Max({0} \cup {Shared(w, turns[j]) : j \in DOMAIN turns})
FirstWithMost(w, turns) == SelectInSeq(turns, LAMBDA t : Shared(w, t) = MostShared(w, turns))

\* If a turn is best, it is that one.
LEMMA BestIsFirstWithMost ==
    ASSUME NEW w \in Word, NEW turns \in Seq(Turn), NEW touching,
           touching = {j \in 1 .. Len(turns) : Shared(w, turns[j]) > 0}
    PROVE  /\ touching = {} => MostShared(w, turns) = 0
           /\ \A best : BestOf(w, turns, touching, best) =>
                           /\ MostShared(w, turns) = Shared(w, turns[best])
                           /\ FirstWithMost(w, turns) = best
<1> DEFINE all == {0} \cup {Shared(w, turns[j]) : j \in DOMAIN turns}
<1>1. DOMAIN turns = 1 .. Len(turns) /\ \A j \in 1 .. Len(turns) : Shared(w, turns[j]) \in Int
  <2> SUFFICES ASSUME NEW j \in 1 .. Len(turns) PROVE Shared(w, turns[j]) \in Int
    OBVIOUS
  <2>1. turns[j] \in Turn
    OBVIOUS
  <2> QED
    BY <2>1, SharedMeans
<1>2. all \in SUBSET Int
  BY <1>1
<1>3. ASSUME touching = {} PROVE MostShared(w, turns) = 0
  <2>1. \A y \in all : y <= 0
    BY <1>1, <1>3
  <2>2. 0 \in all
    OBVIOUS
  <2>3. Max(all) = 0
    <3> HIDE DEF all
    <3> QED
      BY <1>2, <2>1, <2>2, MaxMinAre
  <2> QED
    BY <2>3 DEF MostShared
<1>4. ASSUME NEW best, BestOf(w, turns, touching, best)
      PROVE  MostShared(w, turns) = Shared(w, turns[best]) /\ FirstWithMost(w, turns) = best
  <2>1. best \in 1 .. Len(turns)
    BY <1>4 DEF BestOf
  <2>2. PICK d \in Int : d = Shared(w, turns[best]) /\ d > 0
    BY <1>1, <1>4, <2>1 DEF BestOf
  <2>3. d \in all
    BY <1>1, <2>1, <2>2
  <2>4. ASSUME NEW j \in 1 .. Len(turns) PROVE Shared(w, turns[j]) <= d /\ (Shared(w, turns[j]) = d => best <= j)
    <3>1. Shared(w, turns[j]) \in Int
      BY <1>1
    <3>2. CASE j \in touching
      BY <1>4, <2>2, <3>1, <3>2 DEF BestOf
    <3>3. CASE j \notin touching
      <4>1. ~(Shared(w, turns[j]) > 0)
        BY <3>3
      <4> QED
        BY <2>2, <3>1, <4>1
    <3> QED
      BY <3>2, <3>3
  <2>5. \A y \in all : y <= d
    BY <1>1, <2>2, <2>4
  <2>6. Max(all) = d
    <3> HIDE DEF all
    <3> QED
      BY <1>2, <2>3, <2>5, MaxMinAre
  <2>7. MostShared(w, turns) = d
    BY <2>6 DEF MostShared
  <2> DEFINE I == {j \in 1 .. Len(turns) : Shared(w, turns[j]) = d}
  <2>8. FirstWithMost(w, turns) = IF I # {} THEN Min(I) ELSE 0
    BY <2>7 DEF FirstWithMost, SelectInSeq
  <2>9. best \in I /\ I \in SUBSET Int
    BY <2>1, <2>2
  <2>10. \A j \in I : best <= j
    BY <2>4
  <2>11. Min(I) = best
    <3> HIDE DEF I
    <3> QED
      BY <2>9, <2>10, MaxMinAre
  <2> HIDE DEF I
  <2> QED
    BY <2>2, <2>7, <2>8, <2>9, <2>11
<1> QED
  BY <1>3, <1>4

\* assign_words gives each word to the first of the turns it shares most time with.
LEMMA AssignedToTheMost ==
    ASSUME NEW words \in Seq(Word), WordsInOrder(words), NEW turns \in Seq(Turn), Monotone(turns),
           NEW i \in 1 .. Len(words)
    PROVE  LET a == AssignWords(words, turns)[i] IN
           /\ a.shared = MostShared(words[i], turns)
           /\ MostShared(words[i], turns) > 0 => a.label = turns[FirstWithMost(words[i], turns)].label
<1> DEFINE w == words[i]
           touching == TouchingIn(words, turns, i)
           best == CHOOSE j \in touching : \A k \in touching :
                      Shared(w, turns[j]) > Shared(w, turns[k]) \/ (Shared(w, turns[j]) = Shared(w, turns[k]) /\ j <= k)
           a == AssignWords(words, turns)[i]
<1>1. w \in Word
  OBVIOUS
<1>2. touching = {j \in 1 .. Len(turns) : Shared(w, turns[j]) > 0}
  BY WindowHoldsAllTouching
<1>3. a = [start |-> w.start, end |-> w.end, ends_sentence |-> w.ends_sentence, smoothed |-> FALSE,
           label |-> IF touching = {} THEN NearestTurnLabel(w, turns) ELSE turns[best].label,
           shared |-> IF touching = {} THEN 0 ELSE Shared(w, turns[best]),
           in_overlap |-> touching # {} /\ turns[best].is_overlap]
  <2>1. i \in DOMAIN words
    OBVIOUS
  <2> QED
    BY <2>1, Zenon DEF AssignWords, TouchingIn, WindowOf
<1> HIDE DEF touching
<1>4. a.shared = (IF touching = {} THEN 0 ELSE Shared(w, turns[best])) /\ (touching # {} => a.label = turns[best].label)
  <2> HIDE DEF best
  <2> QED
    BY <1>3
<1>5. CASE touching = {}
  <2>1. MostShared(w, turns) = 0
    BY <1>1, <1>2, <1>5, BestIsFirstWithMost
  <2> QED
    BY <1>4, <1>5, <2>1
<1>6. CASE touching # {}
  <2>1. \E b : BestOf(w, turns, touching, b)
    BY <1>1, <1>2, <1>6, BestExists
  <2>2. BestOf(w, turns, touching, best)
    BY <2>1 DEF BestOf
  <2> HIDE DEF best, a
  <2>3. MostShared(w, turns) = Shared(w, turns[best]) /\ FirstWithMost(w, turns) = best
    BY <1>1, <1>2, <2>2, BestIsFirstWithMost
  <2> QED
    BY <1>4, <1>6, <2>3 DEF a
<1> QED
  BY <1>5, <1>6

\* A word with its label, of the labels L and shared times S.
Assigned(L, S) == [start : 0 .. Horizon, end : 0 .. Horizon, ends_sentence : BOOLEAN, smoothed : BOOLEAN,
                   label : L, shared : S, in_overlap : BOOLEAN]

\* What assign_words makes of the words keeps their times; nothing is smoothed yet.
LEMMA AssignedTyped ==
    ASSUME NEW words \in Seq(Word), NEW turns \in Seq(Turn)
    PROVE  /\ \E L, S : AssignWords(words, turns) \in Seq(Assigned(L, S))
           /\ Len(AssignWords(words, turns)) = Len(words)
           /\ \A i \in 1 .. Len(words) : LET a == AssignWords(words, turns)[i] IN
                 /\ a.start = words[i].start /\ a.end = words[i].end /\ a.smoothed = FALSE
<1> DEFINE r == AssignWords(words, turns)
           L == {r[i].label : i \in 1 .. Len(words)}
           S == {r[i].shared : i \in 1 .. Len(words)}
<1>1. PICK N \in Nat : N = Len(words) /\ DOMAIN words = 1 .. N
  OBVIOUS
<1>2. ASSUME NEW i \in 1 .. N
      PROVE  \E lab, sh : \E b \in BOOLEAN :
                r[i] = [start |-> words[i].start, end |-> words[i].end, ends_sentence |-> words[i].ends_sentence,
                        smoothed |-> FALSE, label |-> lab, shared |-> sh, in_overlap |-> b]
  <2> DEFINE w == words[i]
             touching == TouchingIn(words, turns, i)
             best == CHOOSE j \in touching : \A k \in touching :
                        Shared(w, turns[j]) > Shared(w, turns[k]) \/ (Shared(w, turns[j]) = Shared(w, turns[k]) /\ j <= k)
             lab == IF touching = {} THEN NearestTurnLabel(w, turns) ELSE turns[best].label
             sh == IF touching = {} THEN 0 ELSE Shared(w, turns[best])
             b == touching # {} /\ turns[best].is_overlap
  <2>1. r[i] = [start |-> words[i].start, end |-> words[i].end, ends_sentence |-> words[i].ends_sentence,
                smoothed |-> FALSE, label |-> lab, shared |-> sh, in_overlap |-> b]
    <3>1. i \in DOMAIN words
      BY <1>1
    <3> QED
      BY <3>1, Zenon DEF AssignWords, TouchingIn, WindowOf
  <2>2. b \in BOOLEAN
    OBVIOUS
  <2> HIDE DEF r, lab, sh, b
  <2> QED
    BY <2>1, <2>2
<1>3. DOMAIN r = 1 .. N /\ r = [i \in 1 .. N |-> r[i]]
  BY <1>1 DEF AssignWords
<1> HIDE DEF r
<1>4. ASSUME NEW i \in 1 .. N
      PROVE  /\ r[i] \in Assigned(L, S)
             /\ r[i].start = words[i].start /\ r[i].end = words[i].end /\ r[i].smoothed = FALSE
  <2>1. PICK lab, sh : \E b \in BOOLEAN :
                r[i] = [start |-> words[i].start, end |-> words[i].end, ends_sentence |-> words[i].ends_sentence,
                        smoothed |-> FALSE, label |-> lab, shared |-> sh, in_overlap |-> b]
    BY <1>2
  <2>2. PICK b \in BOOLEAN :
                r[i] = [start |-> words[i].start, end |-> words[i].end, ends_sentence |-> words[i].ends_sentence,
                        smoothed |-> FALSE, label |-> lab, shared |-> sh, in_overlap |-> b]
    BY <2>1
  <2>3. r[i].label = lab /\ r[i].shared = sh
    BY <2>2
  <2>4. lab \in L /\ sh \in S
    BY <1>1, <2>3
  <2>5. words[i] \in Word
    BY <1>1
  <2> HIDE DEF L, S
  <2>6. r[i] \in Assigned(L, S)
    BY <2>2, <2>4, <2>5 DEF Assigned, Word
  <2> QED
    BY <2>2, <2>6
<1>5. r \in [1 .. N -> Assigned(L, S)]
  <2> HIDE DEF L, S
  <2> QED
    BY <1>3, <1>4
<1>6. r \in Seq(Assigned(L, S)) /\ Len(r) = N
  <2> HIDE DEF L, S
  <2> QED
    BY <1>5
<1>7. \E K, T : r \in Seq(Assigned(K, T))
  <2> HIDE DEF L, S
  <2> QED
    BY <1>6
<1> QED
  BY <1>1, <1>4, <1>6, <1>7, Zenon DEF r

\* smooth, from any list and over any indices.
SmoothedFrom(base, s) == FoldLeft(SmoothAt, base, s)
Smooths(f, s, N, D, base) ==
    /\ f \in [0 .. N -> D] /\ f[0] = base /\ f[N] = SmoothedFrom(base, s)
    /\ \A i \in 1 .. N : f[i] = SmoothAt(f[i - 1], s[i])

\* Smoothing goes word by word.
LEMMA SmoothUnfolds ==
    ASSUME NEW s, NEW N \in Nat, DOMAIN s = 1 .. N, NEW D, NEW base \in D,
           \A i \in 1 .. N : \A d \in D : SmoothAt(d, s[i]) \in D
    PROVE  \E f : Smooths(f, s, N, D, base)
<1> DEFINE next == [i \in 1 .. N |-> [d \in D |-> SmoothAt(d, s[i])]]
           Fold(F) == [T \in SUBSET (1 .. N) |-> IF T = {} THEN base ELSE SmoothAt(F[T \ {Max(T)}], s[Max(T)])]
           iter == CHOOSE F : F = Fold(F)
<1>1. SmoothedFrom(base, s) = iter[1 .. N]
  BY DEF SmoothedFrom, FoldLeft, MapThenFoldSet
<1>2. \A i \in 1 .. N : \A d \in D : next[i][d] \in D /\ next[i][d] = SmoothAt(d, s[i])
  OBVIOUS
<1> HIDE DEF next
<1>3. PICK g : FoldsTo(g, N, D, base, next)
  BY <1>2, FoldExists
<1>4. \A T \in SUBSET (1 .. N) : T # {} => Max(T) \in 1 .. N
  BY MaxOfNumbersFrom1
<1>5. g = Fold(g)
  <2>1. g \in [SUBSET (1 .. N) -> D] /\ g[{}] = base
    BY <1>3 DEF FoldsTo
  <2>2. ASSUME NEW T \in SUBSET (1 .. N), T # {} PROVE g[T] = SmoothAt(g[T \ {Max(T)}], s[Max(T)])
    <3>1. g[T] = next[Max(T)][g[T \ {Max(T)}]]
      BY <1>3, <2>2 DEF FoldsTo
    <3>2. g[T \ {Max(T)}] \in D
      BY <2>1
    <3> QED
      BY <1>2, <1>4, <2>2, <3>1, <3>2
  <2> QED
    BY <2>1, <2>2
<1>6. iter = Fold(iter)
  <2> HIDE DEF Fold
  <2> QED
    BY <1>5
<1> HIDE DEF iter
<1>7. iter[{}] = base
  BY <1>6
<1>8. \A T \in SUBSET (1 .. N) :
         T # {} /\ iter[T \ {Max(T)}] \in D => iter[T] = next[Max(T)][iter[T \ {Max(T)}]]
  <2> SUFFICES ASSUME NEW T \in SUBSET (1 .. N), T # {}, iter[T \ {Max(T)}] \in D
               PROVE  iter[T] = next[Max(T)][iter[T \ {Max(T)}]]
    OBVIOUS
  <2>1. iter[T] = SmoothAt(iter[T \ {Max(T)}], s[Max(T)])
    BY <1>6
  <2> QED
    BY <1>2, <1>4, <2>1
<1> DEFINE f == [i \in 0 .. N |-> iter[1 .. i]]
<1>9. StepByStep(f, N, D, base, next)
  <2> HIDE DEF Fold
  <2> QED
    BY <1>2, <1>7, <1>8, FoldUnfolds
<1>10. f[N] = SmoothedFrom(base, s)
  BY <1>1
<1> HIDE DEF f
<1>11. ASSUME NEW i \in 1 .. N PROVE f[i] = SmoothAt(f[i - 1], s[i])
  <2>1. f[i] = next[i][f[i - 1]] /\ f[i - 1] \in D
    BY <1>9 DEF StepByStep
  <2> QED
    BY <1>2, <2>1
<1> QED
  BY <1>9, <1>10, <1>11 DEF StepByStep, Smooths

\* A word smoothed over sits between two of its new label; the others kept theirs.
SmoothedOver(ws, words) ==
    \A i \in DOMAIN words :
       /\ ws[i].start = words[i].start
       /\ ws[i].smoothed => /\ i - 1 \in DOMAIN words /\ i + 1 \in DOMAIN words
                            /\ ws[i - 1].label = ws[i].label /\ ws[i + 1].label = ws[i].label
       /\ ~ws[i].smoothed => ws[i].label = words[i].label

\* Smoothing one more word leaves it so.
LEMMA SmoothStep ==
    ASSUME NEW L, NEW S, NEW n \in Nat, NEW words \in [1 .. n -> Assigned(L, S)],
           NEW ws \in [1 .. n -> Assigned(L, S)], SmoothedOver(ws, words), NEW i \in 2 .. n - 1
    PROVE  /\ SmoothAt(ws, i) \in [1 .. n -> Assigned(L, S)]
           /\ SmoothedOver(SmoothAt(ws, i), words)
<1> DEFINE Changes == ws[i].label # ws[i - 1].label /\ ws[i - 1].label = ws[i + 1].label /\ Doubtful(ws[i])
<1>1. CASE ~Changes
  <2>1. SmoothAt(ws, i) = ws
    BY <1>1 DEF SmoothAt
  <2> QED
    BY <2>1
<1>2. CASE Changes
  <2>1. PICK p \in 1 .. n, q \in 1 .. n : p = i - 1 /\ q = i + 1 /\ i \in 1 .. n /\ p # i /\ q # i
    <3>1. i - 1 \in 1 .. n /\ i + 1 \in 1 .. n /\ i \in 1 .. n /\ i - 1 # i /\ i + 1 # i
      OBVIOUS
    <3> QED
      BY <3>1
  <2>2. PICK l \in L : l = ws[p].label /\ l = ws[q].label /\ ws[i].label # l
    <3>1. ws[p] \in Assigned(L, S)
      BY <2>1
    <3> QED
      BY <1>2, <2>1, <3>1 DEF Assigned
  <2>3. PICK r : r = [ws[i] EXCEPT !.label = l, !.smoothed = TRUE]
    OBVIOUS
  <2>4. r \in Assigned(L, S) /\ r.start = ws[i].start /\ r.label = l /\ r.smoothed = TRUE
    <3>1. ws[i] \in Assigned(L, S)
      BY <2>1
    <3> QED
      BY <2>3, <3>1 DEF Assigned
  <2>5. SmoothAt(ws, i) = [ws EXCEPT ![i] = r]
    BY <1>2, <2>1, <2>2, <2>3 DEF SmoothAt
  <2>6. PICK new \in [1 .. n -> Assigned(L, S)] :
           new = SmoothAt(ws, i) /\ new[i] = r /\ \A k \in 1 .. n : k # i => new[k] = ws[k]
    BY <2>1, <2>4, <2>5
  <2>7. ASSUME NEW k \in 1 .. n
        PROVE  /\ new[k].start = words[k].start
               /\ new[k].smoothed => /\ k - 1 \in 1 .. n /\ k + 1 \in 1 .. n
                                     /\ new[k - 1].label = new[k].label /\ new[k + 1].label = new[k].label
               /\ ~new[k].smoothed => new[k].label = words[k].label
    <3>1. DOMAIN words = 1 .. n
      OBVIOUS
    <3>2. CASE k = i
      <4>1. new[i].start = words[i].start
        BY <2>1, <2>4, <2>6, <3>1 DEF SmoothedOver
      <4>2. new[p].label = new[i].label /\ new[q].label = new[i].label
        BY <2>1, <2>2, <2>4, <2>6
      <4>3. new[i].smoothed
        BY <2>4, <2>6
      <4> QED
        BY <2>1, <3>2, <4>1, <4>2, <4>3
    <3>3. CASE k # i
      <4>1. new[k] = ws[k]
        BY <2>6, <3>3
      <4>2. /\ ws[k].start = words[k].start
            /\ ws[k].smoothed => /\ k - 1 \in 1 .. n /\ k + 1 \in 1 .. n
                                 /\ ws[k - 1].label = ws[k].label /\ ws[k + 1].label = ws[k].label
            /\ ~ws[k].smoothed => ws[k].label = words[k].label
        BY <3>1 DEF SmoothedOver
      <4>3. ASSUME ws[k].smoothed PROVE k - 1 # i /\ k + 1 # i
        <5>1. ws[k - 1].label = ws[k].label /\ ws[k + 1].label = ws[k].label
          BY <4>2, <4>3
        <5>2. k - 1 = i => k = q
          BY <2>1
        <5>3. k + 1 = i => k = p
          BY <2>1
        <5> QED
          BY <2>2, <5>1, <5>2, <5>3
      <4>4. ASSUME ws[k].smoothed PROVE new[k - 1] = ws[k - 1] /\ new[k + 1] = ws[k + 1]
        <5>1. k - 1 \in 1 .. n /\ k + 1 \in 1 .. n /\ k - 1 # i /\ k + 1 # i
          BY <4>2, <4>3, <4>4
        <5> QED
          BY <2>6, <5>1
      <4> QED
        BY <4>1, <4>2, <4>4
    <3> QED
      BY <3>2, <3>3
  <2> QED
    BY <2>6, <2>7 DEF SmoothedOver
<1> QED
  BY <1>1, <1>2

\* smooth smooths over, and changes nothing else.
LEMMA SmoothIsSmooth ==
    ASSUME NEW L, NEW S, NEW words \in Seq(Assigned(L, S)), \A i \in DOMAIN words : ~words[i].smoothed
    PROVE  /\ Smooth(words) \in Seq(Assigned(L, S)) /\ Len(Smooth(words)) = Len(words)
           /\ SmoothedOver(Smooth(words), words)
<1>1. PICK n \in Nat : n = Len(words) /\ words \in [1 .. n -> Assigned(L, S)]
  OBVIOUS
<1>2. PICK N \in Nat : (n < 2 => N = 0) /\ (n >= 2 => N = n - 2) /\ 1 .. N = 1 .. n - 2
  <2>1. CASE n < 2
    <3>1. 1 .. 0 = 1 .. n - 2
      BY <2>1
    <3> QED
      BY <2>1, <3>1
  <2>2. CASE n >= 2
    <3>1. n - 2 \in Nat
      BY <2>2
    <3> QED
      BY <2>2, <3>1
  <2> QED
    BY <2>1, <2>2
<1>3. PICK s : s = [k \in 1 .. N |-> k + 1]
  OBVIOUS
<1>4. Smooth(words) = SmoothedFrom(words, s)
  BY <1>1, <1>2, <1>3 DEF Smooth, SmoothedFrom
<1>5. \A k \in 1 .. N : s[k] \in 2 .. n - 1
  BY <1>2, <1>3
<1> DEFINE D == {ws \in [1 .. n -> Assigned(L, S)] : SmoothedOver(ws, words)}
<1>6. \A k \in 1 .. N : \A ws \in D : SmoothAt(ws, s[k]) \in D
  BY <1>1, <1>5, SmoothStep
<1>7. words \in D
  BY <1>1 DEF SmoothedOver
<1>8. PICK f : Smooths(f, s, N, D, words)
  <2>1. DOMAIN s = 1 .. N
    BY <1>3
  <2> HIDE DEF D
  <2> QED
    BY <1>6, <1>7, <2>1, SmoothUnfolds
<1>9. Smooth(words) \in D
  <2>1. N \in 0 .. N
    OBVIOUS
  <2> HIDE DEF D
  <2> QED
    BY <1>4, <1>8, <2>1 DEF Smooths
<1>10. Smooth(words) \in [1 .. n -> Assigned(L, S)]
  BY <1>9
<1> QED
  BY <1>1, <1>9, <1>10

\* r is the sequences ss of X, one after the other.
Concatenation(X, ss, r) ==
    /\ ss \in Seq(Seq(X)) /\ r \in Seq(X)
    /\ ss = <<>> => r = <<>>
    /\ ss # <<>> => \E f \in [1 .. Len(ss) -> Seq(X)] :
                       /\ \A i \in 1 .. Len(ss) : f[i] = IF i = 1 THEN ss[i] ELSE f[i - 1] \o ss[i]
                       /\ r = f[Len(ss)]

\* FlattenSeq is that.
LEMMA FlattenedIs == ASSUME NEW X, NEW ss, NEW r, Concatenation(X, ss, r) PROVE FlattenSeq(ss) = r
<1>1. CASE ss = <<>>
  <2>1. Len(ss) = 0 /\ r = <<>>
    BY <1>1 DEF Concatenation
  <2> QED
    BY <1>1, <2>1 DEF FlattenSeq
<1>2. CASE ss # <<>>
  <2>1. PICK n \in Nat : n = Len(ss) /\ n # 0 /\ n \in 1 .. n
    <3>1. ss \in Seq(Seq(X))
      BY DEF Concatenation
    <3>2. Len(ss) \in Nat /\ Len(ss) # 0
      BY <1>2, <3>1
    <3> QED
      BY <3>2
  <2>2. PICK f \in [1 .. n -> Seq(X)] :
           (\A i \in 1 .. n : f[i] = IF i = 1 THEN ss[i] ELSE f[i - 1] \o ss[i]) /\ r = f[n]
    BY <1>2, <2>1 DEF Concatenation
  <2> DEFINE Next1(g) == [i \in 1 .. n |-> IF i = 1 THEN ss[i] ELSE g[i - 1] \o ss[i]]
             flatten == CHOOSE g : g = Next1(g)
  <2>3. FlattenSeq(ss) = flatten[n]
    BY <2>1 DEF FlattenSeq
  <2>4. f = Next1(f)
    BY <2>2
  <2>5. flatten = Next1(flatten)
    <3> HIDE DEF Next1
    <3> QED
      BY <2>4
  <2> HIDE DEF flatten
  <2>6. \A i \in 1 .. n : flatten[i] = IF i = 1 THEN ss[i] ELSE flatten[i - 1] \o ss[i]
    BY <2>5
  <2> DEFINE Good == {k \in Nat : k + 1 <= n => flatten[k + 1] = f[k + 1]}
  <2>7. 0 \in Good
    <3>1. 1 \in 1 .. n
      BY <2>1
    <3>2. f[1] = ss[1] /\ flatten[1] = ss[1]
      BY <2>2, <2>6, <3>1
    <3>3. 0 + 1 = 1
      OBVIOUS
    <3> QED
      BY <3>2, <3>3
  <2>8. ASSUME NEW k \in Nat, k \in Good PROVE k + 1 \in Good
    <3> SUFFICES ASSUME (k + 1) + 1 <= n PROVE flatten[(k + 1) + 1] = f[(k + 1) + 1]
      OBVIOUS
    <3>1. PICK m \in 1 .. n : m = (k + 1) + 1 /\ m # 1 /\ m - 1 = k + 1 /\ k + 1 <= n
      OBVIOUS
    <3>2. flatten[m - 1] = f[m - 1]
      BY <2>8, <3>1
    <3>3. f[m] = f[m - 1] \o ss[m] /\ flatten[m] = flatten[m - 1] \o ss[m]
      BY <2>2, <2>6, <3>1
    <3> QED
      BY <3>1, <3>2, <3>3
  <2>9. Nat \subseteq Good
    <3> HIDE DEF Good
    <3> QED
      BY <2>7, <2>8, NumberInduction
  <2>10. PICK k \in Nat : k + 1 = n
    <3>1. n - 1 \in Nat /\ (n - 1) + 1 = n
      BY <2>1
    <3> QED
      BY <3>1
  <2>11. flatten[n] = f[n]
    <3>1. k \in Good /\ k + 1 <= n
      BY <2>9, <2>10
    <3> QED
      BY <2>10, <3>1
  <2> QED
    BY <2>2, <2>3, <2>11
<1> QED
  BY <1>1, <1>2

\* One more sequence at the end.
LEMMA ConcatenationAppend ==
    ASSUME NEW X, NEW ss, NEW r, Concatenation(X, ss, r), NEW s \in Seq(X)
    PROVE  Concatenation(X, Append(ss, s), r \o s)
<1>1. PICK n \in Nat : n = Len(ss) /\ ss \in Seq(Seq(X)) /\ r \in Seq(X)
  BY DEF Concatenation
<1>2. PICK t \in Seq(Seq(X)) :
         t = Append(ss, s) /\ Len(t) = n + 1 /\ t # <<>> /\ t[n + 1] = s /\ \A i \in 1 .. n : t[i] = ss[i]
  <2>1. PICK t : t = Append(ss, s)
    OBVIOUS
  <2>2. t \in Seq(Seq(X)) /\ Len(t) = n + 1
    BY <1>1, <2>1
  <2>3. t[n + 1] = s /\ \A i \in 1 .. n : t[i] = ss[i]
    BY <1>1, <2>1
  <2>4. t # <<>>
    BY <2>2
  <2> QED
    BY <2>1, <2>2, <2>3, <2>4
<1>3. CASE ss = <<>>
  <2>1. n = 0 /\ r = <<>>
    BY <1>1, <1>3 DEF Concatenation
  <2>2. r \o s = s
    BY <2>1
  <2> DEFINE f == [i \in 1 .. 1 |-> s]
  <2>3. f \in [1 .. 1 -> Seq(X)] /\ f[1] = s
    OBVIOUS
  <2>4. Len(t) = 1 /\ t[1] = s
    BY <1>2, <2>1
  <2>5. \A i \in 1 .. 1 : f[i] = IF i = 1 THEN t[i] ELSE f[i - 1] \o t[i]
    BY <2>3, <2>4
  <2> HIDE DEF f
  <2>6. \E g \in [1 .. Len(t) -> Seq(X)] :
           /\ \A i \in 1 .. Len(t) : g[i] = IF i = 1 THEN t[i] ELSE g[i - 1] \o t[i]
           /\ s = g[Len(t)]
    BY <2>3, <2>4, <2>5
  <2>7. Concatenation(X, t, s)
    BY <1>2, <2>6 DEF Concatenation
  <2> QED
    BY <1>2, <2>2, <2>7
<1>4. CASE ss # <<>>
  <2>1. n # 0
    BY <1>1, <1>4
  <2>2. PICK f \in [1 .. n -> Seq(X)] :
           (\A i \in 1 .. n : f[i] = IF i = 1 THEN ss[i] ELSE f[i - 1] \o ss[i]) /\ r = f[n]
    BY <1>1, <1>4 DEF Concatenation
  <2>3. PICK m \in Nat : m = n + 1 /\ m - 1 = n /\ m # 1 /\ n \in 1 .. n /\ \A i \in 1 .. m : i # m => i \in 1 .. n
    <3>1. n + 1 \in Nat /\ (n + 1) - 1 = n /\ n + 1 # 1 /\ n \in 1 .. n /\ \A i \in 1 .. n + 1 : i # n + 1 => i \in 1 .. n
      BY <2>1
    <3> QED
      BY <3>1
  <2>4. r \o s \in Seq(X)
    BY <1>1
  <2> DEFINE g == [i \in 1 .. m |-> IF i = m THEN r \o s ELSE f[i]]
  <2>5. g \in [1 .. m -> Seq(X)]
    BY <2>3, <2>4
  <2>6. ASSUME NEW i \in 1 .. m PROVE g[i] = IF i = 1 THEN t[i] ELSE g[i - 1] \o t[i]
    <3>1. CASE i = m
      <4>1. g[i] = r \o s /\ i # 1 /\ t[i] = s
        BY <1>2, <2>3, <3>1
      <4>2. g[i - 1] = r
        <5>1. i - 1 = n /\ n \in 1 .. m /\ n # m
          BY <2>3, <3>1
        <5> QED
          BY <2>2, <5>1
      <4> QED
        BY <4>1, <4>2
    <3>2. CASE i # m
      <4>1. i \in 1 .. n /\ g[i] = f[i] /\ t[i] = ss[i]
        BY <1>2, <2>3, <3>2
      <4>2. i # 1 => g[i - 1] = f[i - 1]
        <5>1. i # 1 => i - 1 \in 1 .. m /\ i - 1 # m
          BY <2>3, <4>1
        <5> QED
          BY <5>1
      <4> HIDE DEF g
      <4> QED
        BY <2>2, <4>1, <4>2
    <3> QED
      BY <3>1, <3>2
  <2>7. g[m] = r \o s
    BY <2>3
  <2> HIDE DEF g
  <2>8. Concatenation(X, t, r \o s)
    <3>1. Len(t) = m
      BY <1>2, <2>3
    <3>2. \E h \in [1 .. Len(t) -> Seq(X)] :
             /\ \A i \in 1 .. Len(t) : h[i] = IF i = 1 THEN t[i] ELSE h[i - 1] \o t[i]
             /\ r \o s = h[Len(t)]
      BY <2>5, <2>6, <2>7, <3>1
    <3> QED
      BY <1>2, <2>4, <3>2 DEF Concatenation
  <2> QED
    BY <1>2, <2>8
<1> QED
  BY <1>3, <1>4

\* One more element at the end of the last.
LEMMA ConcatenationGrow ==
    ASSUME NEW X, NEW ss, NEW r, Concatenation(X, ss, r), ss # <<>>, NEW x \in X
    PROVE  Concatenation(X, [ss EXCEPT ![Len(ss)] = Append(@, x)], Append(r, x))
<1>1. PICK n \in Nat : n = Len(ss) /\ n # 0 /\ ss \in Seq(Seq(X)) /\ r \in Seq(X) /\ n \in 1 .. n
  <2>1. ss \in Seq(Seq(X)) /\ r \in Seq(X)
    BY DEF Concatenation
  <2>2. Len(ss) \in Nat /\ Len(ss) # 0
    BY <2>1
  <2> QED
    BY <2>1, <2>2
<1>2. PICK f \in [1 .. n -> Seq(X)] :
         /\ r = f[n]
         /\ \A i \in 1 .. n : f[i] = IF i = 1 THEN ss[i] ELSE f[i - 1] \o ss[i]
  <2>1. \E f \in [1 .. Len(ss) -> Seq(X)] :
           /\ \A i \in 1 .. Len(ss) : f[i] = IF i = 1 THEN ss[i] ELSE f[i - 1] \o ss[i]
           /\ r = f[Len(ss)]
    BY DEF Concatenation
  <2>2. PICK f \in [1 .. Len(ss) -> Seq(X)] :
           /\ \A i \in 1 .. Len(ss) : f[i] = IF i = 1 THEN ss[i] ELSE f[i - 1] \o ss[i]
           /\ r = f[Len(ss)]
    BY <2>1
  <2>3. Len(ss) = n
    BY <1>1
  <2>4. /\ f \in [1 .. n -> Seq(X)] /\ r = f[n]
        /\ \A i \in 1 .. n : f[i] = IF i = 1 THEN ss[i] ELSE f[i - 1] \o ss[i]
    BY <2>2, <2>3, Zenon
  <2> QED
    BY <2>4, Zenon
<1>3. PICK e \in Seq(X) : e = Append(ss[n], x)
  <2>1. ss[n] \in Seq(X)
    BY <1>1, ElementOfSeq
  <2> QED
    BY <2>1, AppendProperties
<1>4. PICK t \in Seq(Seq(X)) :
         t = [ss EXCEPT ![Len(ss)] = Append(@, x)] /\ Len(t) = n /\ t # <<>> /\ t[n] = e
         /\ \A i \in 1 .. n : i # n => t[i] = ss[i]
  <2>1. [ss EXCEPT ![Len(ss)] = Append(@, x)] = [ss EXCEPT ![n] = e]
    BY <1>1, <1>3
  <2>2. [ss EXCEPT ![n] = e] \in Seq(Seq(X)) /\ Len([ss EXCEPT ![n] = e]) = n
    BY <1>1
  <2>3. [ss EXCEPT ![n] = e][n] = e /\ \A i \in 1 .. n : i # n => [ss EXCEPT ![n] = e][i] = ss[i]
    BY <1>1
  <2>4. [ss EXCEPT ![n] = e] # <<>>
    BY <1>1, <2>2
  <2> QED
    BY <2>1, <2>2, <2>3, <2>4
<1>5. Append(r, x) \in Seq(X)
  BY <1>1
<1>6. Append(r, x) = IF n = 1 THEN e ELSE f[n - 1] \o e
  <2>1. CASE n = 1
    BY <1>1, <1>2, <1>3, <2>1
  <2>2. CASE n # 1
    <3>1. PICK a \in Seq(X), b \in Seq(X) : a = f[n - 1] /\ b = ss[n] /\ r = a \o b
      <4>1. n - 1 \in 1 .. n
        BY <1>1, <2>2
      <4>2. f[n - 1] \in Seq(X) /\ ss[n] \in Seq(X)
        <5>1. f[n - 1] \in Seq(X)
          BY <4>1
        <5>2. ss[n] \in Seq(X)
          BY <1>1, ElementOfSeq
        <5> QED
          BY <5>1, <5>2
      <4>3. r = f[n - 1] \o ss[n]
        <5>1. f[n] = IF n = 1 THEN ss[n] ELSE f[n - 1] \o ss[n]
          BY <1>1, <1>2
        <5> QED
          BY <1>2, <2>2, <5>1
      <4> QED
        BY <4>2, <4>3
    <3>2. Append(a \o b, x) = a \o Append(b, x)
      <4>1. <<x>> \in Seq(X) /\ a \o b \in Seq(X)
        OBVIOUS
      <4>2. Append(a \o b, x) = (a \o b) \o <<x>> /\ Append(b, x) = b \o <<x>>
        BY <4>1, AppendIsConcat
      <4>3. (a \o b) \o <<x>> = a \o (b \o <<x>>)
        BY <4>1, ConcatAssociative, SMTT(30)
      <4> QED
        BY <4>2, <4>3, Zenon
    <3> QED
      BY <1>3, <2>2, <3>1, <3>2
  <2> QED
    BY <2>1, <2>2
<1> DEFINE g == [i \in 1 .. n |-> IF i = n THEN Append(r, x) ELSE f[i]]
<1>7. g \in [1 .. n -> Seq(X)] /\ g[n] = Append(r, x) /\ \A i \in 1 .. n : i # n => g[i] = f[i]
  BY <1>1, <1>5
<1> HIDE DEF g
<1>8. ASSUME NEW i \in 1 .. n PROVE g[i] = IF i = 1 THEN t[i] ELSE g[i - 1] \o t[i]
  <2>1. i # 1 => g[i - 1] = f[i - 1]
    <3>1. i # 1 => i - 1 \in 1 .. n /\ i - 1 # n
      BY <1>1
    <3> QED
      BY <1>7, <3>1
  <2>2. CASE i = n
    BY <1>4, <1>6, <1>7, <2>1, <2>2
  <2>3. CASE i # n
    BY <1>2, <1>4, <1>7, <2>1, <2>3
  <2> QED
    BY <2>2, <2>3
<1>9. \E h \in [1 .. Len(t) -> Seq(X)] :
         /\ \A i \in 1 .. Len(t) : h[i] = IF i = 1 THEN t[i] ELSE h[i - 1] \o t[i]
         /\ Append(r, x) = h[Len(t)]
  BY <1>4, <1>7, <1>8
<1> QED
  BY <1>4, <1>5, <1>9 DEF Concatenation

\* f is the lines after each of N words.
Regroups(f, s, N, D) ==
    /\ f \in [0 .. N -> D] /\ f[0] = <<>> /\ f[N] = Regroup(s)
    /\ \A i \in 1 .. N : f[i] = PutInLine(f[i - 1], s[i])

\* Lines are made word by word.
LEMMA RegroupUnfolds ==
    ASSUME NEW s, NEW N \in Nat, DOMAIN s = 1 .. N, NEW D, <<>> \in D,
           \A i \in 1 .. N : \A d \in D : PutInLine(d, s[i]) \in D
    PROVE  \E f : Regroups(f, s, N, D)
<1> DEFINE next == [i \in 1 .. N |-> [d \in D |-> PutInLine(d, s[i])]]
           Fold(F) == [T \in SUBSET (1 .. N) |-> IF T = {} THEN <<>> ELSE PutInLine(F[T \ {Max(T)}], s[Max(T)])]
           iter == CHOOSE F : F = Fold(F)
<1>1. Regroup(s) = iter[1 .. N]
  BY DEF Regroup, FoldLeft, MapThenFoldSet
<1>2. \A i \in 1 .. N : \A d \in D : next[i][d] \in D /\ next[i][d] = PutInLine(d, s[i])
  OBVIOUS
<1> HIDE DEF next
<1>3. PICK g : FoldsTo(g, N, D, <<>>, next)
  BY <1>2, FoldExists
<1>4. \A T \in SUBSET (1 .. N) : T # {} => Max(T) \in 1 .. N
  BY MaxOfNumbersFrom1
<1>5. g = Fold(g)
  <2>1. g \in [SUBSET (1 .. N) -> D] /\ g[{}] = <<>>
    BY <1>3 DEF FoldsTo
  <2>2. ASSUME NEW T \in SUBSET (1 .. N), T # {} PROVE g[T] = PutInLine(g[T \ {Max(T)}], s[Max(T)])
    <3>1. g[T] = next[Max(T)][g[T \ {Max(T)}]]
      BY <1>3, <2>2 DEF FoldsTo
    <3>2. g[T \ {Max(T)}] \in D
      BY <2>1
    <3> QED
      BY <1>2, <1>4, <2>2, <3>1, <3>2
  <2> QED
    BY <2>1, <2>2
<1>6. iter = Fold(iter)
  <2> HIDE DEF Fold
  <2> QED
    BY <1>5
<1> HIDE DEF iter
<1>7. iter[{}] = <<>>
  BY <1>6
<1>8. \A T \in SUBSET (1 .. N) :
         T # {} /\ iter[T \ {Max(T)}] \in D => iter[T] = next[Max(T)][iter[T \ {Max(T)}]]
  <2> SUFFICES ASSUME NEW T \in SUBSET (1 .. N), T # {}, iter[T \ {Max(T)}] \in D
               PROVE  iter[T] = next[Max(T)][iter[T \ {Max(T)}]]
    OBVIOUS
  <2>1. iter[T] = PutInLine(iter[T \ {Max(T)}], s[Max(T)])
    BY <1>6
  <2> QED
    BY <1>2, <1>4, <2>1
<1> DEFINE f == [i \in 0 .. N |-> iter[1 .. i]]
<1>9. StepByStep(f, N, D, <<>>, next)
  <2> HIDE DEF Fold
  <2> QED
    BY <1>2, <1>7, <1>8, FoldUnfolds
<1>10. f[N] = Regroup(s)
  BY <1>1
<1> HIDE DEF f
<1>11. ASSUME NEW i \in 1 .. N PROVE f[i] = PutInLine(f[i - 1], s[i])
  <2>1. f[i] = next[i][f[i - 1]] /\ f[i - 1] \in D
    BY <1>9 DEF StepByStep
  <2> QED
    BY <1>2, <2>1
<1> QED
  BY <1>9, <1>10, <1>11 DEF StepByStep, Regroups

\* a is s, of length n, with x after it; or with x in the place k.
Appended(a, X, s, n, x) ==
    /\ a \in Seq(X) /\ a = Append(s, x) /\ a # <<>>
    /\ Len(a) = n + 1 /\ a[n + 1] = x /\ \A i \in 1 .. n : a[i] = s[i]
Replaced(a, X, s, n, k, x) ==
    /\ a \in Seq(X) /\ a = [s EXCEPT ![k] = x]
    /\ Len(a) = n /\ a[k] = x /\ \A i \in 1 .. n : i # k => a[i] = s[i]

\* Appending does that.
LEMMA AppendIs ==
    ASSUME NEW X, NEW s \in Seq(X), NEW x \in X, NEW n \in Nat, n = Len(s)
    PROVE  \E a : Appended(a, X, s, n, x)
<1>1. PICK a : a = Append(s, x)
  OBVIOUS
<1>2. a \in Seq(X) /\ a # <<>> /\ Len(a) = n + 1 /\ a[n + 1] = x /\ \A i \in 1 .. n : a[i] = s[i]
  BY <1>1, AppendProperties
<1> QED
  BY <1>1, <1>2 DEF Appended

\* And so does changing an element.
LEMMA ExceptIs ==
    ASSUME NEW X, NEW s \in Seq(X), NEW x \in X, NEW n \in Nat, n = Len(s), NEW k \in 1 .. n
    PROVE  \E a : Replaced(a, X, s, n, k, x)
<1>1. PICK a : a = [s EXCEPT ![k] = x]
  OBVIOUS
<1>2. a \in Seq(X) /\ Len(a) = n /\ a[k] = x /\ \A i \in 1 .. n : i # k => a[i] = s[i]
  BY <1>1, ExceptSeq
<1> QED
  BY <1>1, <1>2 DEF Replaced

\* x opens a sequence of its own or joins the last.
Extends(new, old, x) ==
    \/ new = Append(old, <<x>>)
    \/ old # <<>> /\ new = [old EXCEPT ![Len(old)] = Append(@, x)]

\* What is laid out element by element is laid out whole.
LEMMA LaidOutWhole ==
    ASSUME NEW X, NEW s \in Seq(X), NEW N \in Nat, N = Len(s), NEW f, f[0] = <<>>,
           \A i \in 1 .. N : Extends(f[i], f[i - 1], s[i])
    PROVE  FlattenSeq(f[N]) = s /\ f[N] \in Seq(Seq(X))
<1> DEFINE Step(r, m) == r \in Seq(X) /\ Len(r) = m /\ \A i \in 1 .. m : r[i] = s[i]
           Good == {m \in Nat : m <= N => \E r : Concatenation(X, f[m], r) /\ Step(r, m)}
<1>1. 0 \in Good
  <2>1. <<>> \in Seq(Seq(X)) /\ <<>> \in Seq(X) /\ Len(<<>>) = 0
    OBVIOUS
  <2>2. Concatenation(X, <<>>, <<>>)
    BY <2>1 DEF Concatenation
  <2>3. Step(<<>>, 0)
    OBVIOUS
  <2> HIDE DEF Step
  <2> QED
    BY <2>2, <2>3
<1>2. ASSUME NEW m \in Nat, m \in Good PROVE m + 1 \in Good
  <2> SUFFICES ASSUME m + 1 <= N PROVE \E r : Concatenation(X, f[m + 1], r) /\ Step(r, m + 1)
    BY DEF Good
  <2>1. PICK i \in 1 .. N : i = m + 1 /\ i - 1 = m /\ m <= N
    OBVIOUS
  <2>2. PICK r : Concatenation(X, f[m], r) /\ Step(r, m)
    BY <1>2, <2>1
  <2>3. s[i] \in X /\ Extends(f[i], f[m], s[i])
    BY <2>1, ElementOfSeq
  <2>4. Concatenation(X, f[i], Append(r, s[i]))
    <3>1. PICK x : x = s[i] /\ x \in X
      BY <2>3
    <3>2. CASE f[i] = Append(f[m], <<x>>)
      <4>1. <<x>> \in Seq(X)
        BY <3>1
      <4>2. PICK line : line = <<x>> /\ line \in Seq(X)
        BY <4>1
      <4>3. Concatenation(X, Append(f[m], line), r \o line)
        BY <2>2, <4>2, ConcatenationAppend
      <4>4. Append(r, x) = r \o line
        BY <2>2, <3>1, <4>2, AppendIsConcat
      <4> QED
        BY <3>1, <3>2, <4>2, <4>3, <4>4
    <3>3. CASE f[m] # <<>> /\ f[i] = [f[m] EXCEPT ![Len(f[m])] = Append(@, x)]
      <4>1. PICK g : g = f[m] /\ Concatenation(X, g, r)
        BY <2>2
      <4>2. Concatenation(X, [g EXCEPT ![Len(g)] = Append(@, x)], Append(r, x))
        BY <3>1, <3>3, <4>1, ConcatenationGrow
      <4> QED
        BY <3>1, <3>3, <4>1, <4>2
    <3> QED
      BY <2>3, <3>1, <3>2, <3>3 DEF Extends
  <2>5. Step(Append(r, s[i]), i)
    <3>1. PICK a : Appended(a, X, r, m, s[i])
      BY <2>2, <2>3, AppendIs
    <3>2. \A k \in 1 .. i : k \in 1 .. m \/ k = i
      BY <2>1
    <3>3. \A k \in 1 .. i : a[k] = s[k]
      BY <2>1, <2>2, <3>1, <3>2 DEF Appended
    <3> QED
      BY <2>1, <3>1, <3>3 DEF Appended
  <2> HIDE DEF Step
  <2> QED
    BY <2>1, <2>4, <2>5
<1>3. PICK r : Concatenation(X, f[N], r) /\ Step(r, N)
  <2>1. Nat \subseteq Good
    <3> HIDE DEF Good
    <3> QED
      BY <1>1, <1>2, NumberInduction
  <2> HIDE DEF Step
  <2> QED
    BY <2>1
<1>4. r = s
  BY <1>3, SeqEqual
<1>5. f[N] \in Seq(Seq(X))
  BY <1>3 DEF Concatenation
<1> QED
  BY <1>3, <1>4, <1>5, FlattenedIs

\* Each line is of one speaker.
OneVoiceEach(lines) ==
    \A n \in 1 .. Len(lines) : lines[n] # <<>> /\ \A i, j \in DOMAIN lines[n] : lines[n][i].label = lines[n][j].label

\* One more word leaves it so, and is the last of the lines.
LEMMA PutInLineStep ==
    ASSUME NEW L, NEW S, NEW lines \in Seq(Seq(Assigned(L, S))), OneVoiceEach(lines), NEW w \in Assigned(L, S)
    PROVE  /\ PutInLine(lines, w) \in Seq(Seq(Assigned(L, S))) /\ OneVoiceEach(PutInLine(lines, w))
           /\ Extends(PutInLine(lines, w), lines, w)
<1>1. PICK W : W = Assigned(L, S)
  OBVIOUS
<1>2. lines \in Seq(Seq(W)) /\ w \in W
  BY <1>1
<1>3. CASE lines # <<>> /\ SameLine(Last(Last(lines)), w)
  <2>1. PICK n \in Nat : n = Len(lines) /\ n \in 1 .. n
    BY <1>2, <1>3
  <2>2. PICK line \in Seq(W) : line = lines[n]
    BY <1>2, <2>1, ElementOfSeq
  <2>3. PICK k \in Nat : k = Len(line) /\ k \in 1 .. k
    <3>1. line # <<>>
      BY <2>1, <2>2 DEF OneVoiceEach
    <3> QED
      BY <2>2, <3>1
  <2>4. line[k].label = w.label
    BY <1>3, <2>1, <2>2, <2>3 DEF SameLine, Last
  <2>5. PICK new : Appended(new, W, line, k, w)
    BY <1>2, <2>2, <2>3, AppendIs
  <2>6. PICK all : all = PutInLine(lines, w) /\ Replaced(all, Seq(W), lines, n, n, new)
    <3>1. PutInLine(lines, w) = [lines EXCEPT ![n] = new]
      BY <1>3, <2>1, <2>2, <2>5 DEF PutInLine, Appended
    <3>2. PICK X : X = Seq(W)
      OBVIOUS
    <3>3. lines \in Seq(X) /\ new \in X
      BY <1>2, <2>5, <3>2 DEF Appended
    <3>4. PICK all : Replaced(all, X, lines, n, n, new)
      BY <2>1, <3>3, ExceptIs
    <3>5. all = PutInLine(lines, w)
      BY <3>1, <3>4 DEF Replaced
    <3> QED
      BY <3>2, <3>4, <3>5
  <2>7. PutInLine(lines, w) = [lines EXCEPT ![Len(lines)] = Append(@, w)]
    BY <1>3 DEF PutInLine
  <2>8. Extends(PutInLine(lines, w), lines, w)
    BY <1>3, <2>7 DEF Extends
  <2>9. new # <<>> /\ \A i \in DOMAIN new : new[i].label = w.label
    <3>1. \A i \in 1 .. k : line[i].label = w.label
      BY <2>1, <2>2, <2>3, <2>4 DEF OneVoiceEach
    <3>2. DOMAIN new = 1 .. k + 1
      BY <2>5 DEF Appended
    <3>3. \A i \in 1 .. k + 1 : i \in 1 .. k \/ i = k + 1
      BY <2>3
    <3> QED
      BY <2>5, <3>1, <3>2, <3>3 DEF Appended
  <2>10. ASSUME NEW m \in 1 .. n
         PROVE  all[m] # <<>> /\ \A i, j \in DOMAIN all[m] : all[m][i].label = all[m][j].label
    <3>1. CASE m = n
      BY <2>6, <2>9, <3>1 DEF Replaced
    <3>2. CASE m # n
      BY <2>1, <2>6, <3>2 DEF OneVoiceEach, Replaced
    <3> QED
      BY <3>1, <3>2
  <2> QED
    <3>1. Len(all) = n /\ all = PutInLine(lines, w) /\ all \in Seq(Seq(W))
      BY <2>6 DEF Replaced
    <3> QED
      BY <1>1, <2>8, <2>10, <3>1 DEF OneVoiceEach
<1>4. CASE ~(lines # <<>> /\ SameLine(Last(Last(lines)), w))
  <2>1. PutInLine(lines, w) = Append(lines, <<w>>)
    BY <1>4 DEF PutInLine
  <2>2. <<w>> \in Seq(W)
    BY <1>2
  <2>3. Extends(PutInLine(lines, w), lines, w)
    BY <2>1 DEF Extends
  <2>4. PICK n \in Nat : n = Len(lines)
    BY <1>2
  <2>5. PICK all : all = PutInLine(lines, w) /\ Appended(all, Seq(W), lines, n, <<w>>)
    <3>1. PICK X, line : X = Seq(W) /\ line = <<w>>
      OBVIOUS
    <3>2. lines \in Seq(X) /\ line \in X
      BY <1>2, <2>2, <3>1
    <3>3. PICK all : Appended(all, X, lines, n, line)
      BY <2>4, <3>2, AppendIs
    <3>4. all = PutInLine(lines, w)
      BY <2>1, <3>1, <3>3 DEF Appended
    <3> QED
      BY <3>1, <3>3, <3>4
  <2>6. ASSUME NEW m \in 1 .. n + 1
        PROVE  all[m] # <<>> /\ \A i, j \in DOMAIN all[m] : all[m][i].label = all[m][j].label
    <3>1. CASE m = n + 1
      <4>1. all[m] = <<w>> /\ DOMAIN <<w>> = 1 .. 1 /\ <<w>> # <<>>
        BY <2>5, <3>1 DEF Appended
      <4>2. \A i \in 1 .. 1 : i = 1
        OBVIOUS
      <4> QED
        BY <4>1, <4>2
    <3>2. CASE m # n + 1
      <4>1. m \in 1 .. n
        BY <3>2
      <4> QED
        BY <2>4, <2>5, <4>1 DEF OneVoiceEach, Appended
    <3> QED
      BY <3>1, <3>2
  <2> QED
    <3>1. Len(all) = n + 1 /\ all = PutInLine(lines, w) /\ all \in Seq(Seq(W))
      BY <2>5 DEF Appended
    <3> QED
      BY <1>1, <2>3, <2>6, <3>1 DEF OneVoiceEach
<1> QED
  BY <1>3, <1>4

\* So the lines are the words, in order, of one speaker each.
LEMMA LinesAreTheWords ==
    ASSUME NEW L, NEW S, NEW words \in Seq(Assigned(L, S))
    PROVE  /\ FlattenSeq(Regroup(words)) = words /\ OneVoiceEach(Regroup(words))
           /\ Regroup(words) \in Seq(Seq(Assigned(L, S)))
<1>1. PICK W : W = Assigned(L, S)
  OBVIOUS
<1>2. PICK N \in Nat : N = Len(words) /\ DOMAIN words = 1 .. N
  OBVIOUS
<1>3. words \in Seq(W) /\ \A i \in 1 .. N : words[i] \in W
  BY <1>1, <1>2
<1> DEFINE D == {lines \in Seq(Seq(W)) : OneVoiceEach(lines)}
<1>4. ASSUME NEW i \in 1 .. N, NEW lines \in D
      PROVE  PutInLine(lines, words[i]) \in D /\ Extends(PutInLine(lines, words[i]), lines, words[i])
  BY <1>1, <1>3, PutInLineStep
<1>5. <<>> \in D
  <2>1. <<>> \in Seq(Seq(W)) /\ Len(<<>>) = 0
    OBVIOUS
  <2> QED
    BY <2>1 DEF OneVoiceEach
<1>6. PICK f : Regroups(f, words, N, D)
  <2> HIDE DEF D
  <2> QED
    BY <1>2, <1>4, <1>5, RegroupUnfolds
<1>7. f[0] = <<>> /\ \A i \in 1 .. N : Extends(f[i], f[i - 1], words[i])
  <2> SUFFICES ASSUME NEW i \in 1 .. N PROVE Extends(f[i], f[i - 1], words[i])
    BY <1>6 DEF Regroups
  <2>1. i - 1 \in 0 .. N
    OBVIOUS
  <2> HIDE DEF D
  <2>2. f[i] = PutInLine(f[i - 1], words[i]) /\ f[i - 1] \in D
    BY <1>6, <2>1 DEF Regroups
  <2> QED
    BY <1>4, <2>2
<1>8. FlattenSeq(f[N]) = words /\ f[N] \in Seq(Seq(W))
  BY <1>2, <1>3, <1>7, LaidOutWhole
<1>9. f[N] = Regroup(words) /\ f[N] \in D
  <2>1. N \in 0 .. N
    OBVIOUS
  <2> HIDE DEF D
  <2> QED
    BY <1>6, <2>1 DEF Regroups
<1> QED
  BY <1>1, <1>8, <1>9

\* Neighbouring words in order are all in order.
LEMMA WordsInOrderAre ==
    \A words \in WordSeqs : words \in Seq(Word) /\ WordsInOrder(words)
<1> SUFFICES ASSUME NEW words \in WordSeqs PROVE words \in Seq(Word) /\ WordsInOrder(words)
  OBVIOUS
<1>1. Words \in SUBSET Word
  BY AlgorithmsConstants DEF Word
<1>2. words \in Seq(Word)
  <2>1. PICK m \in 0 .. MaxWords : words \in [1 .. m -> Words]
    BY DEF WordSeqs, BoundedSeq, SeqOf
  <2>2. words \in [1 .. m -> Word] /\ m \in Nat
    BY <1>1, <2>1, AlgorithmsConstants
  <2> QED
    BY <2>2
<1>3. PICK N \in Nat : N = Len(words)
  BY <1>2
<1>4. \A i \in 1 .. N : words[i].start \in Int /\ words[i].end \in Int /\ words[i].start < words[i].end
  <2> SUFFICES ASSUME NEW i \in 1 .. N PROVE words[i].start \in Int /\ words[i].end \in Int /\ words[i].start < words[i].end
    OBVIOUS
  <2>1. words[i] \in Word
    BY <1>2, <1>3, ElementOfSeq
  <2> QED
    BY <2>1 DEF Word
<1>5. \A i \in 1 .. N - 1 : words[i].end <= words[i + 1].start
  BY <1>3 DEF WordSeqs
<1> DEFINE Good == {d \in Nat : \A m \in 1 .. N : m + d <= N => words[m].start <= words[m + d].start}
<1>6. 0 \in Good
  BY <1>4
<1>7. ASSUME NEW d \in Nat, d \in Good PROVE d + 1 \in Good
  <2> SUFFICES ASSUME NEW m \in 1 .. N, m + (d + 1) <= N PROVE words[m].start <= words[m + (d + 1)].start
    OBVIOUS
  <2>1. PICK k \in 1 .. N - 1 : k = m + d /\ k + 1 = m + (d + 1) /\ m + d <= N /\ k + 1 \in 1 .. N /\ k \in 1 .. N
    OBVIOUS
  <2>2. words[m].start <= words[k].start
    BY <1>7, <2>1
  <2>3. words[k].end <= words[k + 1].start /\ words[k].start < words[k].end
    BY <1>4, <1>5, <2>1
  <2>4. words[m].start \in Int /\ words[k].start \in Int /\ words[k].end \in Int /\ words[k + 1].start \in Int
    BY <1>4, <2>1
  <2>5. words[m].start <= words[k + 1].start
    BY <2>2, <2>3, <2>4
  <2> QED
    BY <2>1, <2>5
<1>8. Nat \subseteq Good
  <2> HIDE DEF Good
  <2> QED
    BY <1>6, <1>7, NumberInduction
<1>9. ASSUME NEW m \in 1 .. N, NEW n \in 1 .. N, m <= n PROVE words[m].start <= words[n].start
  <2>1. PICK d \in Nat : m + d = n
    <3>1. n - m \in Nat /\ m + (n - m) = n
      BY <1>9
    <3> QED
      BY <3>1
  <2>2. d \in Good /\ m + d <= N
    BY <1>8, <2>1
  <2> QED
    BY <2>1, <2>2
<1> QED
  BY <1>2, <1>3, <1>9 DEF WordsInOrder

\* What a word shares with the turns depends on its times alone.
LEMMA SameTimesShareTheSame ==
    ASSUME NEW a, NEW w, a.start = w.start, a.end = w.end, NEW turns
    PROVE  MostShared(a, turns) = MostShared(w, turns) /\ FirstWithMost(a, turns) = FirstWithMost(w, turns)
<1>1. \A t : Shared(a, t) = Shared(w, t)
  BY DEF Shared
<1>2. {Shared(a, turns[j]) : j \in DOMAIN turns} = {Shared(w, turns[j]) : j \in DOMAIN turns}
  BY <1>1
<1>3. MostShared(a, turns) = MostShared(w, turns)
  BY <1>2, Zenon DEF MostShared
<1>4. {i \in 1 .. Len(turns) : Shared(a, turns[i]) = MostShared(a, turns)}
         = {i \in 1 .. Len(turns) : Shared(w, turns[i]) = MostShared(w, turns)}
  BY <1>1, <1>3
<1>5. FirstWithMost(a, turns) = FirstWithMost(w, turns)
  BY <1>4, Zenon DEF FirstWithMost, SelectInSeq
<1> QED
  BY <1>3, <1>5

\* Words handed to their turns, smoothed and put in lines.
LEMMA ReconciledAreWhole ==
    ASSUME NEW words \in Seq(Word), NEW turns \in Seq(Turn)
    PROVE  LET assigned == AssignWords(words, turns)
               lines == Regroup(Smooth(assigned))
           IN /\ FlattenSeq(lines) = Smooth(assigned) /\ OneVoiceEach(lines)
              /\ \E L, S : lines \in Seq(Seq(Assigned(L, S)))
              /\ Len(Smooth(assigned)) = Len(words) /\ SmoothedOver(Smooth(assigned), assigned)
<1>1. PICK assigned : assigned = AssignWords(words, turns)
  OBVIOUS
<1>2. PICK n \in Nat : n = Len(words)
  OBVIOUS
<1>3. PICK L, S : assigned \in Seq(Assigned(L, S))
  BY <1>1, AssignedTyped
<1>4. Len(assigned) = n /\ \A i \in 1 .. n : assigned[i].smoothed = FALSE
  BY <1>1, <1>2, AssignedTyped
<1>5. \A i \in DOMAIN assigned : ~assigned[i].smoothed
  BY <1>3, <1>4
<1>6. PICK smooth : smooth = Smooth(assigned)
  OBVIOUS
<1>7. smooth \in Seq(Assigned(L, S)) /\ Len(smooth) = n /\ SmoothedOver(smooth, assigned)
  BY <1>3, <1>4, <1>5, <1>6, SmoothIsSmooth
<1>8. FlattenSeq(Regroup(smooth)) = smooth /\ OneVoiceEach(Regroup(smooth)) /\ Regroup(smooth) \in Seq(Seq(Assigned(L, S)))
  BY <1>7, LinesAreTheWords
<1> QED
  BY <1>1, <1>2, <1>6, <1>7, <1>8

\* A line of one speaker has one label.
LEMMA OneLabelEach ==
    ASSUME NEW W, NEW lines \in Seq(Seq(W)), OneVoiceEach(lines), NEW n \in DOMAIN lines
    PROVE  Cardinality(Labels(lines[n])) = 1
<1>1. PICK line \in Seq(W) : line = lines[n]
  BY ElementOfSeq
<1>2. n \in 1 .. Len(lines)
  OBVIOUS
<1>3. line # <<>> /\ \A i, j \in DOMAIN line : line[i].label = line[j].label
  BY <1>1, <1>2 DEF OneVoiceEach
<1>4. 1 \in DOMAIN line
  BY <1>3
<1>5. Labels(line) = {line[1].label}
  BY <1>3, <1>4 DEF Labels
<1> QED
  BY <1>1, <1>5, FS_Singleton

-----------------------------------------------------------------------------
(* Batches for the voice encoder, embed.py.                                *)

\* The grouping of any list of rows.
GroupsFrom(sizes, base, s) == FoldLeft(LAMBDA groups, i : PutInGroup(sizes, groups, i), base, s)

\* f is the groups after each of N rows.
Grouped(f, sizes, s, N, D) ==
    /\ f \in [0 .. N -> D] /\ f[0] = <<>> /\ f[N] = GroupsFrom(sizes, <<>>, s)
    /\ \A i \in 1 .. N : f[i] = PutInGroup(sizes, f[i - 1], s[i])

\* Rows are grouped one by one.
LEMMA GroupUnfolds ==
    ASSUME NEW sizes, NEW s, NEW N \in Nat, DOMAIN s = 1 .. N, NEW D, <<>> \in D,
           \A i \in 1 .. N : \A d \in D : PutInGroup(sizes, d, s[i]) \in D
    PROVE  \E f : Grouped(f, sizes, s, N, D)
<1> DEFINE next == [i \in 1 .. N |-> [d \in D |-> PutInGroup(sizes, d, s[i])]]
           Fold(F) == [T \in SUBSET (1 .. N) |-> IF T = {} THEN <<>> ELSE PutInGroup(sizes, F[T \ {Max(T)}], s[Max(T)])]
           iter == CHOOSE F : F = Fold(F)
<1>1. GroupsFrom(sizes, <<>>, s) = iter[1 .. N]
  BY DEF GroupsFrom, FoldLeft, MapThenFoldSet
<1>2. \A i \in 1 .. N : \A d \in D : next[i][d] \in D /\ next[i][d] = PutInGroup(sizes, d, s[i])
  OBVIOUS
<1> HIDE DEF next
<1>3. PICK g : FoldsTo(g, N, D, <<>>, next)
  BY <1>2, FoldExists
<1>4. \A T \in SUBSET (1 .. N) : T # {} => Max(T) \in 1 .. N
  BY MaxOfNumbersFrom1
<1>5. g = Fold(g)
  <2>1. g \in [SUBSET (1 .. N) -> D] /\ g[{}] = <<>>
    BY <1>3 DEF FoldsTo
  <2>2. ASSUME NEW T \in SUBSET (1 .. N), T # {} PROVE g[T] = PutInGroup(sizes, g[T \ {Max(T)}], s[Max(T)])
    <3>1. g[T] = next[Max(T)][g[T \ {Max(T)}]]
      BY <1>3, <2>2 DEF FoldsTo
    <3>2. g[T \ {Max(T)}] \in D
      BY <2>1
    <3> QED
      BY <1>2, <1>4, <2>2, <3>1, <3>2
  <2> QED
    BY <2>1, <2>2
<1>6. iter = Fold(iter)
  <2> HIDE DEF Fold
  <2> QED
    BY <1>5
<1> HIDE DEF iter
<1>7. iter[{}] = <<>>
  BY <1>6
<1>8. \A T \in SUBSET (1 .. N) :
         T # {} /\ iter[T \ {Max(T)}] \in D => iter[T] = next[Max(T)][iter[T \ {Max(T)}]]
  <2> SUFFICES ASSUME NEW T \in SUBSET (1 .. N), T # {}, iter[T \ {Max(T)}] \in D
               PROVE  iter[T] = next[Max(T)][iter[T \ {Max(T)}]]
    OBVIOUS
  <2>1. iter[T] = PutInGroup(sizes, iter[T \ {Max(T)}], s[Max(T)])
    BY <1>6
  <2> QED
    BY <1>2, <1>4, <2>1
<1> DEFINE f == [i \in 0 .. N |-> iter[1 .. i]]
<1>9. StepByStep(f, N, D, <<>>, next)
  <2> HIDE DEF Fold
  <2> QED
    BY <1>2, <1>7, <1>8, FoldUnfolds
<1>10. f[N] = GroupsFrom(sizes, <<>>, s)
  BY <1>1
<1> HIDE DEF f
<1>11. ASSUME NEW i \in 1 .. N PROVE f[i] = PutInGroup(sizes, f[i - 1], s[i])
  <2>1. f[i] = next[i][f[i - 1]] /\ f[i - 1] \in D
    BY <1>9 DEF StepByStep
  <2> QED
    BY <1>2, <2>1
<1> QED
  BY <1>9, <1>10, <1>11 DEF StepByStep, Grouped

\* A row joins the last group or opens one.
LEMMA PutInGroupExtends == \A sizes, groups, i : Extends(PutInGroup(sizes, groups, i), groups, i)
BY DEF PutInGroup, Extends

\* Groups of rows they stay.
LEMMA PutInGroupTyped ==
    ASSUME NEW R, NEW sizes, NEW groups \in Seq(Seq(R)), NEW x \in R
    PROVE  PutInGroup(sizes, groups, x) \in Seq(Seq(R))
<1>1. PICK q \in Nat : q = Len(groups)
  OBVIOUS
<1>2. CASE groups # <<>>
  <2>1. q \in 1 .. q
    BY <1>1, <1>2
  <2>2. PICK line \in Seq(R) : line = Append(groups[q], x)
    <3>1. PICK old \in Seq(R) : old = groups[q]
      BY <1>1, <2>1, ElementOfSeq
    <3> QED
      BY <3>1, AppendProperties
  <2>3. PICK X : X = Seq(R)
    OBVIOUS
  <2>4. groups \in Seq(X) /\ line \in X
    BY <2>2, <2>3
  <2>5. [groups EXCEPT ![q] = line] \in Seq(X)
    BY <1>1, <2>1, <2>4, ExceptSeq
  <2>6. [groups EXCEPT ![Len(groups)] = Append(@, x)] = [groups EXCEPT ![q] = line]
    BY <1>1, <2>2
  <2>7. Append(groups, <<x>>) \in Seq(X)
    BY <2>3
  <2> QED
    BY <2>3, <2>5, <2>6, <2>7 DEF PutInGroup
<1>3. CASE groups = <<>>
  <2>1. PutInGroup(sizes, groups, x) = Append(groups, <<x>>)
    BY <1>3 DEF PutInGroup
  <2> QED
    BY <2>1
<1> QED
  BY <1>2, <1>3

\* A group within the budget, whose last row is its largest.
WithinBudget(sizes, g) ==
    /\ g # <<>> /\ \A m \in 1 .. Len(g) : sizes[g[m]] <= sizes[g[Len(g)]]
    /\ Len(g) = 1 \/ Len(g) * sizes[g[Len(g)]] <= Budget

\* The rows from n on are no smaller than those of the groups.
LargestLast(sizes, groups, order, n) ==
    /\ \A m \in 1 .. Len(groups) : WithinBudget(sizes, groups[m])
    /\ \A m \in 1 .. Len(groups) : \A k \in 1 .. Len(groups[m]) : \A i \in n .. Len(order) :
          sizes[groups[m][k]] <= sizes[order[i]]

\* One more row, no smaller than those before it, leaves it so.
LEMMA PutInGroupStep ==
    ASSUME NEW R, NEW sizes \in [R -> Nat], NEW order \in Seq(R),
           \A m, k \in 1 .. Len(order) : m < k => sizes[order[m]] <= sizes[order[k]],
           NEW n \in 1 .. Len(order), NEW groups \in Seq(Seq(R)), LargestLast(sizes, groups, order, n)
    PROVE  /\ PutInGroup(sizes, groups, order[n]) \in Seq(Seq(R))
           /\ Extends(PutInGroup(sizes, groups, order[n]), groups, order[n])
           /\ LargestLast(sizes, PutInGroup(sizes, groups, order[n]), order, n + 1)
<1>1. PICK x \in R : x = order[n]
  BY ElementOfSeq
<1>2. PICK N \in Nat : N = Len(order) /\ n \in 1 .. N
  OBVIOUS
<1>3. \A i \in n + 1 .. N : order[i] \in R /\ sizes[x] <= sizes[order[i]]
  <2> SUFFICES ASSUME NEW i \in n + 1 .. N PROVE order[i] \in R /\ sizes[x] <= sizes[order[i]]
    OBVIOUS
  <2>1. i \in 1 .. N /\ n < i
    BY <1>2
  <2> QED
    BY <1>1, <1>2, <2>1, ElementOfSeq
<1>4. PICK q \in Nat : q = Len(groups)
  OBVIOUS
<1>5. \A m \in 1 .. q : \A k \in 1 .. Len(groups[m]) : \A i \in n .. N : sizes[groups[m][k]] <= sizes[order[i]]
  BY <1>2, <1>4 DEF LargestLast
<1>6. PICK z \in Nat : z = sizes[x]
  OBVIOUS
<1>7. CASE groups # <<>> /\ (Len(Last(groups)) + 1) * z <= Budget
  <2>1. q \in 1 .. q
    BY <1>4, <1>7
  <2>2. PICK line \in Seq(R) : line = groups[q]
    BY <1>4, <2>1, ElementOfSeq
  <2>3. PICK k \in Nat : k = Len(line)
    OBVIOUS
  <2>4. (k + 1) * z <= Budget
    BY <1>4, <1>7, <2>2, <2>3 DEF Last
  <2>5. PICK new : Appended(new, R, line, k, x)
    BY <2>3, AppendIs
  <2>6. PICK all : all = PutInGroup(sizes, groups, order[n]) /\ Replaced(all, Seq(R), groups, q, q, new)
    <3>1. PutInGroup(sizes, groups, order[n]) = [groups EXCEPT ![q] = new]
      BY <1>1, <1>4, <1>6, <1>7, <2>2, <2>5 DEF PutInGroup, Appended
    <3>2. PICK X : X = Seq(R)
      OBVIOUS
    <3>3. groups \in Seq(X) /\ new \in X
      BY <2>5, <3>2 DEF Appended
    <3>4. PICK all : Replaced(all, X, groups, q, q, new)
      BY <1>4, <2>1, <3>3, ExceptIs
    <3>5. all = PutInGroup(sizes, groups, order[n])
      BY <3>1, <3>4 DEF Replaced
    <3> QED
      BY <3>2, <3>4, <3>5
  <2>7. Extends(PutInGroup(sizes, groups, order[n]), groups, order[n])
    BY <1>1, <1>6, <1>7 DEF PutInGroup, Extends
  <2>8. \A m \in 1 .. k + 1 : sizes[new[m]] <= z
    <3>1. \A m \in 1 .. k : sizes[line[m]] <= sizes[order[n]]
      <4>1. n \in n .. N
        BY <1>2
      <4> QED
        BY <1>5, <2>1, <2>2, <2>3, <4>1
    <3>2. ASSUME NEW m \in 1 .. k PROVE sizes[new[m]] <= z
      <4>1. new[m] = line[m]
        BY <2>5 DEF Appended
      <4> QED
        BY <1>1, <1>6, <3>1, <4>1
    <3>3. sizes[new[k + 1]] <= z
      <4>1. new[k + 1] = x
        BY <2>5 DEF Appended
      <4> QED
        BY <1>6, <4>1
    <3>4. \A m \in 1 .. k + 1 : m \in 1 .. k \/ m = k + 1
      BY <2>3
    <3> QED
      BY <3>2, <3>3, <3>4, Zenon
  <2>9. WithinBudget(sizes, new)
    <3>1. Len(new) = k + 1 /\ sizes[new[k + 1]] = z /\ new # <<>>
      BY <1>6, <2>5 DEF Appended
    <3> QED
      BY <2>4, <2>8, <3>1 DEF WithinBudget
  <2>10. ASSUME NEW m \in 1 .. q
         PROVE  /\ WithinBudget(sizes, all[m])
                /\ \A j \in 1 .. Len(all[m]) : \A i \in n + 1 .. N : sizes[all[m][j]] <= sizes[order[i]]
    <3>1. CASE m = q
      <4>1. all[m] = new /\ Len(new) = k + 1
        BY <2>5, <2>6, <3>1 DEF Replaced, Appended
      <4>2. ASSUME NEW j \in 1 .. k + 1, NEW i \in n + 1 .. N PROVE sizes[new[j]] <= sizes[order[i]]
        <5>1. sizes[new[j]] <= z /\ z <= sizes[order[i]] /\ order[i] \in R
          BY <1>3, <1>6, <2>8
        <5>2. new[j] \in R
          BY <2>5, <4>1 DEF Appended
        <5>3. sizes[new[j]] \in Nat /\ sizes[order[i]] \in Nat
          BY <5>1, <5>2
        <5> QED
          BY <5>1, <5>3
      <4> QED
        BY <2>9, <4>1, <4>2
    <3>2. CASE m # q
      <4>1. all[m] = groups[m]
        BY <2>6, <3>2 DEF Replaced
      <4>2. \A i \in n + 1 .. N : i \in n .. N
        BY <1>2
      <4> QED
        BY <1>4, <1>5, <4>1, <4>2 DEF LargestLast
    <3> QED
      BY <3>1, <3>2
  <2>11. Len(all) = q /\ all \in Seq(Seq(R))
    BY <2>6 DEF Replaced
  <2> QED
    BY <1>2, <2>6, <2>7, <2>10, <2>11 DEF LargestLast
<1>8. CASE ~(groups # <<>> /\ (Len(Last(groups)) + 1) * z <= Budget)
  <2>1. PutInGroup(sizes, groups, order[n]) = Append(groups, <<x>>)
    BY <1>1, <1>6, <1>8 DEF PutInGroup
  <2>2. <<x>> \in Seq(R) /\ Len(<<x>>) = 1 /\ <<x>>[1] = x /\ <<x>> # <<>>
    OBVIOUS
  <2>3. Extends(PutInGroup(sizes, groups, order[n]), groups, order[n])
    BY <1>1, <2>1 DEF Extends
  <2>4. PICK X, line : X = Seq(R) /\ line = <<x>>
    OBVIOUS
  <2>5. PICK all : Appended(all, X, groups, q, line)
    <3>1. groups \in Seq(X) /\ line \in X
      BY <2>2, <2>4
    <3> QED
      BY <1>4, <3>1, AppendIs
  <2>6. all = PutInGroup(sizes, groups, order[n])
    BY <2>1, <2>4, <2>5 DEF Appended
  <2>7. \A j \in 1 .. 1 : j = 1
    OBVIOUS
  <2>8. WithinBudget(sizes, line)
    <3>1. sizes[x] <= sizes[x]
      BY <1>6
    <3> QED
      BY <2>2, <2>4, <2>7, <3>1 DEF WithinBudget
  <2>9. ASSUME NEW m \in 1 .. q + 1
        PROVE  /\ WithinBudget(sizes, all[m])
               /\ \A j \in 1 .. Len(all[m]) : \A i \in n + 1 .. N : sizes[all[m][j]] <= sizes[order[i]]
    <3>1. CASE m = q + 1
      <4>1. all[m] = line
        BY <2>5, <3>1 DEF Appended
      <4> QED
        BY <1>3, <2>2, <2>4, <2>7, <2>8, <4>1
    <3>2. CASE m # q + 1
      <4>1. m \in 1 .. q
        BY <3>2
      <4>2. all[m] = groups[m]
        BY <2>5, <4>1 DEF Appended
      <4>3. \A i \in n + 1 .. N : i \in n .. N
        BY <1>2
      <4> QED
        BY <1>4, <1>5, <4>1, <4>2, <4>3 DEF LargestLast
    <3> QED
      BY <3>1, <3>2
  <2>10. Len(all) = q + 1 /\ all \in Seq(Seq(R))
    BY <2>4, <2>5 DEF Appended
  <2> QED
    BY <1>2, <2>3, <2>6, <2>9, <2>10 DEF LargestLast
<1> QED
  BY <1>7, <1>8

\* The rows of a group within the budget, padded to the largest, are.
LEMMA PaddedWithinBudget ==
    ASSUME NEW R, NEW sizes \in [R -> Nat], NEW g \in Seq(R), WithinBudget(sizes, g)
    PROVE  Len(g) = 1 \/ Len(g) * Max({sizes[i] : i \in ToSet(g)}) <= Budget
<1>1. PICK k \in Nat : k = Len(g) /\ k \in 1 .. k /\ DOMAIN g = 1 .. k
  <2>1. g # <<>>
    BY DEF WithinBudget
  <2> QED
    BY <2>1
<1>2. ToSet(g) = {g[m] : m \in 1 .. k}
  BY <1>1 DEF ToSet
<1>3. PICK z : z = sizes[g[k]]
  OBVIOUS
<1>4. PICK S : S = {sizes[i] : i \in ToSet(g)}
  OBVIOUS
<1>5. \A m \in 1 .. k : g[m] \in R
  BY <1>1
<1>6. z \in S /\ S \in SUBSET Int /\ \A y \in S : y <= z
  <2>1. z \in S
    BY <1>1, <1>2, <1>3, <1>4
  <2>2. ASSUME NEW y \in S PROVE y \in Int /\ y <= z
    <3>1. PICK m \in 1 .. k : y = sizes[g[m]]
      BY <1>2, <1>4
    <3> QED
      BY <1>1, <1>3, <1>5, <3>1 DEF WithinBudget
  <2> QED
    BY <2>1, <2>2
<1>7. Max(S) = z
  BY <1>6, MaxMinAre
<1> QED
  BY <1>1, <1>3, <1>4, <1>7 DEF WithinBudget

\* A list without repetitions has as many elements as it is long.
LEMMA AllDifferent ==
    ASSUME NEW X, NEW N \in Nat, NEW s \in [1 .. N -> X], \A m, n \in 1 .. N : m < n => s[m] # s[n]
    PROVE  Cardinality(ToSet(s)) = N
<1>1. ToSet(s) = {s[m] : m \in 1 .. N}
  BY DEF ToSet
<1>2. \A m, n \in 1 .. N : s[m] = s[n] => m = n
  <2> SUFFICES ASSUME NEW m \in 1 .. N, NEW n \in 1 .. N, s[m] = s[n] PROVE m = n
    OBVIOUS
  <2>1. ~(m < n) /\ ~(n < m)
    OBVIOUS
  <2> QED
    BY <2>1
<1>3. s \in Bijection(1 .. N, ToSet(s))
  BY <1>1, <1>2 DEF Bijection, Injection, Surjection, IsInjective
<1>4. Cardinality(1 .. N) = Cardinality(ToSet(s))
  <2>1. IsFiniteSet(1 .. N)
    BY FS_Interval
  <2> QED
    BY <1>3, <2>1, FS_Bijection DEF ExistsBijection
<1>5. Cardinality(1 .. N) = N
  BY FS_Interval
<1> QED
  BY <1>4, <1>5

\* Every row is in one batch, and the batches keep to the budget.
LEMMA BatchesKeepEveryRow ==
    ASSUME NEW sizes \in Seq(Nat)
    PROVE  /\ Cardinality(ToSet(FlattenSeq(Groups(sizes)))) = Len(sizes)
           /\ Len(FlattenSeq(Groups(sizes))) = Len(sizes)
           /\ \A n \in DOMAIN Groups(sizes) :
                 LET g == Groups(sizes)[n] IN Len(g) = 1 \/ Len(g) * Max({sizes[i] : i \in ToSet(g)}) <= Budget
<1>1. PICK N \in Nat : N = Len(sizes)
  OBVIOUS
<1>2. PICK R : R = DOMAIN sizes /\ R = 1 .. N
  BY <1>1
<1>3. IsFiniteSet(R) /\ Cardinality(R) = N /\ R \in SUBSET Int /\ sizes \in [R -> Nat] /\ sizes \in [R -> Int]
  <2>1. IsFiniteSet(1 .. N) /\ Cardinality(1 .. N) = N
    BY FS_Interval
  <2>2. sizes \in [R -> Nat]
    BY <1>1, <1>2
  <2>3. sizes \in [R -> Int]
    BY <2>2
  <2> QED
    BY <1>2, <2>1, <2>2, <2>3
<1>4. PICK order : order = Sorted(R, sizes)
  OBVIOUS
<1>5. Lists(order, R, sizes)
  BY <1>3, <1>4, SortedLists
<1>6. order \in [1 .. N -> R] /\ \A m, k \in 1 .. N : m < k => Before(sizes, order[m], order[k])
  BY <1>3, <1>5 DEF Lists
<1>7. order \in Seq(R) /\ Len(order) = N /\ DOMAIN order = 1 .. N
  BY <1>6
<1>8. \A m, k \in 1 .. N : m < k => sizes[order[m]] <= sizes[order[k]] /\ order[m] # order[k]
  <2> SUFFICES ASSUME NEW m \in 1 .. N, NEW k \in 1 .. N, m < k
               PROVE  sizes[order[m]] <= sizes[order[k]] /\ order[m] # order[k]
    OBVIOUS
  <2>1. order[m] \in R /\ order[k] \in R /\ Before(sizes, order[m], order[k])
    BY <1>6
  <2>2. order[m] \in Int /\ order[k] \in Int /\ sizes[order[m]] \in Int /\ sizes[order[k]] \in Int
    BY <1>3, <2>1
  <2> QED
    BY <2>1, <2>2 DEF Before
<1>9. \A i \in 1 .. N : \A groups \in Seq(Seq(R)) : PutInGroup(sizes, groups, order[i]) \in Seq(Seq(R))
  BY <1>6, PutInGroupTyped
<1>10. <<>> \in Seq(Seq(R))
  OBVIOUS
<1>11. PICK f : Grouped(f, sizes, order, N, Seq(Seq(R)))
  BY <1>7, <1>9, <1>10, GroupUnfolds
<1>12. /\ f[0] = <<>> /\ f[N] = Groups(sizes)
       /\ \A i \in 1 .. N : f[i - 1] \in Seq(Seq(R)) /\ f[i] = PutInGroup(sizes, f[i - 1], order[i])
  <2>1. f[N] = Groups(sizes)
    BY <1>2, <1>4, <1>11 DEF Grouped, Groups, GroupsFrom
  <2>2. ASSUME NEW i \in 1 .. N PROVE f[i - 1] \in Seq(Seq(R)) /\ f[i] = PutInGroup(sizes, f[i - 1], order[i])
    <3>1. i - 1 \in 0 .. N
      OBVIOUS
    <3> QED
      BY <1>11, <3>1 DEF Grouped
  <2> QED
    BY <1>11, <2>1, <2>2 DEF Grouped
<1> DEFINE Good == {n \in Nat : n <= N => LargestLast(sizes, f[n], order, n + 1)}
<1>13. 0 \in Good
  <2>1. Len(<<>>) = 0
    OBVIOUS
  <2> QED
    BY <1>12, <2>1 DEF LargestLast
<1>14. ASSUME NEW n \in Nat, n \in Good PROVE n + 1 \in Good
  <2> SUFFICES ASSUME n + 1 <= N PROVE LargestLast(sizes, f[n + 1], order, (n + 1) + 1)
    OBVIOUS
  <2>1. PICK i \in 1 .. N : i = n + 1 /\ i - 1 = n /\ n <= N
    OBVIOUS
  <2>2. LargestLast(sizes, f[n], order, i) /\ f[n] \in Seq(Seq(R)) /\ f[i] = PutInGroup(sizes, f[n], order[i])
    BY <1>12, <1>14, <2>1
  <2>3. LargestLast(sizes, f[i], order, i + 1)
    <3>1. PICK groups : groups = f[n]
      OBVIOUS
    <3>2. LargestLast(sizes, PutInGroup(sizes, groups, order[i]), order, i + 1)
      BY <1>3, <1>7, <1>8, <2>2, <3>1, PutInGroupStep
    <3> QED
      BY <2>2, <3>1, <3>2
  <2> QED
    BY <2>1, <2>3
<1>15. ASSUME NEW i \in 1 .. N PROVE Extends(f[i], f[i - 1], order[i])
  BY <1>12, PutInGroupExtends
<1>16. FlattenSeq(Groups(sizes)) = order /\ Groups(sizes) \in Seq(Seq(R))
  BY <1>7, <1>12, <1>15, LaidOutWhole
<1>17. Nat \subseteq Good
  <2> HIDE DEF Good
  <2> QED
    BY <1>13, <1>14, NumberInduction
<1>18. LargestLast(sizes, Groups(sizes), order, N + 1)
  BY <1>12, <1>17
<1>19. ASSUME NEW n \in DOMAIN Groups(sizes)
       PROVE  LET g == Groups(sizes)[n] IN Len(g) = 1 \/ Len(g) * Max({sizes[i] : i \in ToSet(g)}) <= Budget
  <2>1. n \in 1 .. Len(Groups(sizes))
    BY <1>16
  <2>2. PICK g \in Seq(R) : g = Groups(sizes)[n]
    BY <1>16, <2>1, ElementOfSeq
  <2>3. WithinBudget(sizes, g)
    BY <1>18, <2>1, <2>2 DEF LargestLast
  <2>4. Len(g) = 1 \/ Len(g) * Max({sizes[i] : i \in ToSet(g)}) <= Budget
    BY <1>3, <2>3, PaddedWithinBudget
  <2> QED
    BY <2>2, <2>4
<1>20. Cardinality(ToSet(order)) = N
  BY <1>6, <1>8, AllDifferent
<1> QED
  BY <1>1, <1>7, <1>16, <1>19, <1>20, Zenon

-----------------------------------------------------------------------------
(* Windows for the decoder, transcribe.py.                                 *)

\* What dividing leaves.
LEMMA Divides ==
    ASSUME NEW a \in Nat, NEW w \in Nat \ {0}
    PROVE  a \div w \in Nat /\ (a \div w) * w <= a /\ a < (a \div w) * w + w
OBVIOUS

\* Multiples are in order.
LEMMA MultiplesInOrder ==
    ASSUME NEW a \in Nat, NEW b \in Nat, NEW w \in Nat, a <= b
    PROVE  a * w <= b * w /\ a * w \in Nat
OBVIOUS

\* at[0], at[1], ... are the ends of the windows a region starting at x is split in.
Grid(at, whole, x, y) ==
    /\ whole \in Nat /\ whole = (y - x - 1) \div Window
    /\ at \in [Nat -> Int] /\ at[0] = x /\ \A k \in Nat : at[k] = x + k * Window
    /\ \A k \in Nat : at[k + 1] = at[k] + Window
    /\ \A k, l \in Nat : k <= l => at[k] <= at[l]
    /\ at[whole] < y /\ y <= at[whole] + Window
    /\ \A t \in x .. y - 1 : \E k \in 0 .. whole : at[k] <= t /\ t < at[k] + Window

\* The whole windows leave less than one.
LEMMA GridExists ==
    ASSUME NEW x \in Int, NEW y \in Int, x < y
    PROVE  \E at, whole : Grid(at, whole, x, y)
<1>1. PICK W \in Nat \ {0} : W = Window
  BY CutsConstants
<1> DEFINE at == [k \in Nat |-> x + k * W]
<1>2. PICK a \in Nat : a = y - x - 1
  OBVIOUS
<1>3. PICK whole \in Nat : whole = a \div W /\ whole * W <= a /\ a < whole * W + W
  BY Divides
<1>4. ASSUME NEW k \in Nat PROVE k * W \in Nat /\ (k + 1) * W = k * W + W
  OBVIOUS
<1>5. at \in [Nat -> Int]
  BY <1>4
<1>6. at[0] = x
  OBVIOUS
<1>7. \A k \in Nat : at[k + 1] = at[k] + W
  BY <1>4
<1>8. ASSUME NEW k \in Nat, NEW l \in Nat, k <= l PROVE at[k] <= at[l]
  <2>1. k * W <= l * W /\ k * W \in Nat /\ l * W \in Nat
    BY <1>8, MultiplesInOrder
  <2> QED
    BY <2>1
<1>9. at[whole] < y /\ y <= at[whole] + W
  <2>1. PICK b \in Nat : b = whole * W
    BY <1>4
  <2> QED
    BY <1>2, <1>3, <2>1
<1>10. ASSUME NEW t \in x .. y - 1 PROVE \E k \in 0 .. whole : at[k] <= t /\ t < at[k] + W
  <2>1. PICK d \in Nat : d = t - x /\ d <= a
    BY <1>2
  <2>2. PICK k \in Nat : k = d \div W /\ k * W <= d /\ d < k * W + W
    BY Divides
  <2>3. PICK b \in Nat : b = k * W
    BY <1>4
  <2>4. k <= whole
    <3>1. SUFFICES ASSUME whole + 1 <= k PROVE FALSE
      OBVIOUS
    <3>2. (whole + 1) * W <= k * W
      BY <3>1, MultiplesInOrder
    <3>3. (whole + 1) * W = whole * W + W
      BY <1>4
    <3>4. PICK c \in Nat : c = whole * W
      BY <1>4
    <3> QED
      BY <1>3, <2>1, <2>2, <2>3, <3>2, <3>3, <3>4
  <2>5. at[k] = x + b
    BY <2>3
  <2> HIDE DEF at
  <2> QED
    BY <2>1, <2>2, <2>3, <2>4, <2>5
<1>11. \A k \in Nat : at[k] = x + k * W
  OBVIOUS
<1> HIDE DEF at
<1>12. whole = (y - x - 1) \div Window
  BY <1>1, <1>2, <1>3
<1>13. Grid(at, whole, x, y)
  BY <1>1, <1>5, <1>6, <1>7, <1>8, <1>9, <1>10, <1>11, <1>12 DEF Grid
<1> QED
  BY <1>13

\* A region joins the last of p windows, or windows of its own are added.
Joined(new, out, p, y) ==
    /\ p # 0 /\ Len(new) = p /\ \A i \in 1 .. p : i # p => new[i] = out[i]
    /\ new[p] = <<out[p][1], y>> /\ y - out[p][1] <= Window
Added(new, out, p, at, whole, y) ==
    /\ Len(new) = p + whole + 1 /\ \A i \in 1 .. p : new[i] = out[i]
    /\ \A k \in 1 .. whole : new[p + k] = <<at[k - 1], at[k]>>
    /\ new[p + whole + 1] = <<at[whole], y>>

\* a is s, of length n, followed by t, of length m.
Followed(a, X, s, n, t, m) ==
    /\ a = s \o t /\ a \in Seq(X) /\ Len(a) = n + m
    /\ \A i \in 1 .. n : a[i] = s[i]
    /\ \A i \in 1 .. m : a[n + i] = t[i]

\* Concatenating does that.
LEMMA ConcatIs ==
    ASSUME NEW X, NEW s \in Seq(X), NEW n \in Nat, n = Len(s), NEW t \in Seq(X), NEW m \in Nat, m = Len(t)
    PROVE  \E a : Followed(a, X, s, n, t, m)
<1>1. PICK a : a = s \o t
  OBVIOUS
<1>2. a \in Seq(X) /\ Len(a) = n + m
  BY <1>1, ConcatProperties
<1>3. \A i \in 1 .. n + m : a[i] = IF i <= n THEN s[i] ELSE t[i - n]
  BY <1>1, ConcatProperties
<1>4. \A i \in 1 .. n : a[i] = s[i]
  BY <1>3
<1>5. ASSUME NEW i \in 1 .. m PROVE a[n + i] = t[i]
  <2>1. n + i \in 1 .. n + m /\ ~(n + i <= n) /\ (n + i) - n = i
    OBVIOUS
  <2> QED
    BY <1>3, <2>1
<1> QED
  BY <1>1, <1>2, <1>4, <1>5 DEF Followed

\* Packing a region does one or the other.
LEMMA PackRegionIs ==
    ASSUME NEW out \in Seq(Int \X Int), NEW region \in Int \X Int, region[1] < region[2],
           NEW p \in Nat, p = Len(out), NEW at, NEW whole, Grid(at, whole, region[1], region[2])
    PROVE  /\ PackRegion(out, region) \in Seq(Int \X Int)
           /\ \/ Joined(PackRegion(out, region), out, p, region[2])
              \/ Added(PackRegion(out, region), out, p, at, whole, region[2])
<1>1. PICK x \in Int, y \in Int : x = region[1] /\ y = region[2] /\ x < y
  OBVIOUS
<1>2. /\ whole \in Nat /\ at \in [Nat -> Int]
      /\ \A k \in Nat : at[k] = x + k * Window
      /\ whole = (y - x - 1) \div Window
  BY <1>1 DEF Grid
<1> DEFINE ws == [k \in 1 .. whole |-> <<at[k - 1], at[k]>>]
<1>3. [k \in 1 .. whole |-> <<x + (k - 1) * Window, x + k * Window>>] = ws
  <2>1. ASSUME NEW k \in 1 .. whole PROVE <<x + (k - 1) * Window, x + k * Window>> = <<at[k - 1], at[k]>>
    <3>1. k - 1 \in Nat /\ k \in Nat
      OBVIOUS
    <3> QED
      BY <1>2, <3>1
  <2> QED
    BY <2>1
<1>4. ws \in Seq(Int \X Int) /\ Len(ws) = whole /\ \A k \in 1 .. whole : ws[k] = <<at[k - 1], at[k]>>
  <2>1. \A k \in 1 .. whole : <<at[k - 1], at[k]>> \in Int \X Int
    <3> SUFFICES ASSUME NEW k \in 1 .. whole PROVE <<at[k - 1], at[k]>> \in Int \X Int
      OBVIOUS
    <3>1. k - 1 \in Nat /\ k \in Nat
      OBVIOUS
    <3> QED
      BY <1>2, <3>1
  <2>2. ws \in [1 .. whole -> Int \X Int] /\ \A k \in 1 .. whole : ws[k] = <<at[k - 1], at[k]>>
    BY <2>1
  <2> HIDE DEF ws
  <2>3. ws \in Seq(Int \X Int) /\ Len(ws) = whole
    <3>1. PICK X : X = Int \X Int
      OBVIOUS
    <3>2. ws \in [1 .. whole -> X] /\ whole \in Nat
      BY <1>2, <2>2, <3>1
    <3>3. ws \in Seq(X) /\ Len(ws) = whole
      BY <3>2
    <3> QED
      BY <3>1, <3>3
  <2> QED
    BY <2>2, <2>3
<1> HIDE DEF ws
<1>5. PICK cut : Followed(cut, Int \X Int, out, p, ws, whole)
  BY <1>2, <1>4, ConcatIs
<1>6. PICK n \in Nat : n = p + whole /\ whole \in Nat
  BY <1>2
<1>7. /\ cut = out \o ws /\ cut \in Seq(Int \X Int) /\ Len(cut) = n
      /\ (\A i \in 1 .. p : cut[i] = out[i]) /\ (\A k \in 1 .. whole : cut[p + k] = ws[k])
  BY <1>5, <1>6 DEF Followed
<1>8. PICK new : new = PackRegion(out, region)
  OBVIOUS
<1>9. new = IF Fits(cut, at[whole], y) THEN [cut EXCEPT ![Len(cut)][2] = y] ELSE Append(cut, <<at[whole], y>>)
  <2>1. at[whole] = x + whole * Window
    BY <1>2
  <2> QED
    BY <1>1, <1>2, <1>3, <1>6, <1>7, <1>8, <2>1, Zenon DEF PackRegion
<1>10. at[whole] \in Int /\ <<at[whole], y>> \in Int \X Int
  BY <1>2
<1>11. CASE Fits(cut, at[whole], y)
  <2>1. n \in 1 .. n /\ cut[n] \in Int \X Int /\ y - cut[n][1] <= Window
    <3>1. cut # <<>> /\ y - Last(cut)[1] <= Window
      BY <1>11 DEF Fits
    <3>2. n \in 1 .. n
      BY <1>6, <1>7, <3>1
    <3> QED
      BY <1>6, <1>7, <3>1, <3>2, ElementOfSeq DEF Last
  <2>2. whole = 0
    <3>1. SUFFICES ASSUME whole \in 1 .. whole PROVE FALSE
      BY <1>2
    <3>2. cut[n] = <<at[whole - 1], at[whole]>>
      BY <1>4, <1>6, <1>7, <3>1
    <3>3. PICK v \in Nat : v = whole - 1 /\ v + 1 = whole
      BY <3>1
    <3>4. at[v + 1] = at[v] + Window /\ at[v] \in Int /\ at[whole] < y
      BY <1>1 DEF Grid
    <3> QED
      BY <1>1, <2>1, <3>2, <3>3, <3>4, CutsConstants
  <2>3. n = p /\ cut[n] = out[p] /\ \A i \in 1 .. p : cut[i] = out[i]
    BY <1>6, <1>7, <2>1, <2>2
  <2>4. PICK e \in Int \X Int : e = <<out[p][1], y>>
    BY <1>1, <2>1, <2>3
  <2>5. [cut EXCEPT ![Len(cut)][2] = y] = [cut EXCEPT ![n] = e]
    <3>1. [cut[n] EXCEPT ![2] = y] = <<cut[n][1], y>>
      <4>1. PICK f \in Int \X Int : f = cut[n]
        BY <2>1
      <4>2. PICK a \in Int, b \in Int : f = <<a, b>>
        OBVIOUS
      <4>3. [f EXCEPT ![2] = y] = <<f[1], y>>
        BY <4>2
      <4> QED
        BY <4>1, <4>3
    <3> QED
      BY <1>6, <1>7, <2>3, <2>4, <3>1
  <2>6. PICK X : X = Int \X Int
    OBVIOUS
  <2>7. PICK all : Replaced(all, X, cut, n, n, e)
    <3>1. cut \in Seq(X) /\ e \in X
      BY <1>7, <2>6
    <3> QED
      BY <1>6, <1>7, <2>1, <3>1, ExceptIs
  <2>8. all = new
    BY <1>9, <1>11, <2>5, <2>7 DEF Replaced
  <2>9. new \in Seq(Int \X Int)
    BY <2>6, <2>7, <2>8 DEF Replaced
  <2>10. Joined(new, out, p, y)
    BY <2>1, <2>3, <2>4, <2>7, <2>8, SMTT(30) DEF Joined, Replaced
  <2> QED
    BY <1>1, <1>8, <2>9, <2>10
<1>12. CASE ~Fits(cut, at[whole], y)
  <2>1. PICK X, e : X = Int \X Int /\ e = <<at[whole], y>>
    OBVIOUS
  <2>2. cut \in Seq(X) /\ e \in X
    BY <1>10, <1>7, <2>1
  <2>3. PICK all : Appended(all, X, cut, n, e)
    BY <1>6, <1>7, <2>2, AppendIs
  <2>4. all = new
    BY <1>9, <1>12, <2>1, <2>3 DEF Appended
  <2>5. new \in Seq(Int \X Int)
    BY <2>1, <2>3, <2>4 DEF Appended
  <2>6. Len(new) = n + 1 /\ new[n + 1] = <<at[whole], y>> /\ \A i \in 1 .. n : new[i] = cut[i]
    BY <2>1, <2>3, <2>4 DEF Appended
  <2>7. \A i \in 1 .. p : new[i] = out[i]
    <3>1. \A i \in 1 .. p : i \in 1 .. n
      BY <1>2, <1>6, <1>7
    <3> QED
      BY <1>6, <1>7, <2>6, <3>1
  <2>8. \A k \in 1 .. whole : new[p + k] = <<at[k - 1], at[k]>>
    <3> SUFFICES ASSUME NEW k \in 1 .. whole PROVE new[p + k] = <<at[k - 1], at[k]>>
      OBVIOUS
    <3>1. PICK j \in 1 .. n : j = p + k
      <4>1. p + k \in 1 .. n
        BY <1>6
      <4> QED
        BY <4>1
    <3>2. cut[j] = ws[k] /\ new[j] = cut[j]
      BY <1>7, <2>6, <3>1
    <3> QED
      BY <1>4, <3>1, <3>2
  <2>9. Added(new, out, p, at, whole, y)
    BY <1>6, <1>7, <2>6, <2>7, <2>8 DEF Added
  <2> QED
    BY <1>1, <1>8, <2>5, <2>9
<1> QED
  BY <1>11, <1>12

\* f is the windows after each of N regions.
Packs(f, s, N, D) ==
    /\ f \in [0 .. N -> D] /\ f[0] = <<>> /\ f[N] = PackWindows(s)
    /\ \A i \in 1 .. N : f[i] = PackRegion(f[i - 1], s[i])

\* Regions are packed one by one.
LEMMA PackUnfolds ==
    ASSUME NEW s, NEW N \in Nat, DOMAIN s = 1 .. N, NEW D, <<>> \in D,
           \A i \in 1 .. N : \A d \in D : PackRegion(d, s[i]) \in D
    PROVE  \E f : Packs(f, s, N, D)
<1> DEFINE next == [i \in 1 .. N |-> [d \in D |-> PackRegion(d, s[i])]]
           Fold(F) == [T \in SUBSET (1 .. N) |-> IF T = {} THEN <<>> ELSE PackRegion(F[T \ {Max(T)}], s[Max(T)])]
           iter == CHOOSE F : F = Fold(F)
<1>1. PackWindows(s) = iter[1 .. N]
  BY DEF PackWindows, FoldLeft, MapThenFoldSet
<1>2. \A i \in 1 .. N : \A d \in D : next[i][d] \in D /\ next[i][d] = PackRegion(d, s[i])
  OBVIOUS
<1> HIDE DEF next
<1>3. PICK g : FoldsTo(g, N, D, <<>>, next)
  BY <1>2, FoldExists
<1>4. \A T \in SUBSET (1 .. N) : T # {} => Max(T) \in 1 .. N
  BY MaxOfNumbersFrom1
<1>5. g = Fold(g)
  <2>1. g \in [SUBSET (1 .. N) -> D] /\ g[{}] = <<>>
    BY <1>3 DEF FoldsTo
  <2>2. ASSUME NEW T \in SUBSET (1 .. N), T # {} PROVE g[T] = PackRegion(g[T \ {Max(T)}], s[Max(T)])
    <3>1. g[T] = next[Max(T)][g[T \ {Max(T)}]]
      BY <1>3, <2>2 DEF FoldsTo
    <3>2. g[T \ {Max(T)}] \in D
      BY <2>1
    <3> QED
      BY <1>2, <1>4, <2>2, <3>1, <3>2
  <2> QED
    BY <2>1, <2>2
<1>6. iter = Fold(iter)
  <2> HIDE DEF Fold
  <2> QED
    BY <1>5
<1> HIDE DEF iter
<1>7. iter[{}] = <<>>
  BY <1>6
<1>8. \A T \in SUBSET (1 .. N) :
         T # {} /\ iter[T \ {Max(T)}] \in D => iter[T] = next[Max(T)][iter[T \ {Max(T)}]]
  <2> SUFFICES ASSUME NEW T \in SUBSET (1 .. N), T # {}, iter[T \ {Max(T)}] \in D
               PROVE  iter[T] = next[Max(T)][iter[T \ {Max(T)}]]
    OBVIOUS
  <2>1. iter[T] = PackRegion(iter[T \ {Max(T)}], s[Max(T)])
    BY <1>6
  <2> QED
    BY <1>2, <1>4, <2>1
<1> DEFINE f == [i \in 0 .. N |-> iter[1 .. i]]
<1>9. StepByStep(f, N, D, <<>>, next)
  <2> HIDE DEF Fold
  <2> QED
    BY <1>2, <1>7, <1>8, FoldUnfolds
<1>10. f[N] = PackWindows(s)
  BY <1>1
<1> HIDE DEF f
<1>11. ASSUME NEW i \in 1 .. N PROVE f[i] = PackRegion(f[i - 1], s[i])
  <2>1. f[i] = next[i][f[i - 1]] /\ f[i - 1] \in D
    BY <1>9 DEF StepByStep
  <2> QED
    BY <1>2, <2>1
<1> QED
  BY <1>9, <1>10, <1>11 DEF StepByStep, Packs

\* Windows in order, none longer than the decoder takes.
AreWindows(out) ==
    /\ \A i \in 1 .. Len(out) : out[i][2] - out[i][1] \in 1 .. Window
    /\ \A i, j \in 1 .. Len(out) : i < j => out[i][2] <= out[j][1]

\* They hold all of a region.
Hold(out, x, y) == \A t \in x .. y - 1 : \E i \in 1 .. Len(out) : out[i][1] <= t /\ t < out[i][2]

\* Where n windows begin and end.
Ends(out, n, lo, hi) ==
    /\ lo \in [1 .. n -> Int] /\ hi \in [1 .. n -> Int]
    /\ \A i \in 1 .. n : out[i][1] = lo[i] /\ out[i][2] = hi[i]

\* The same said of where they begin and end.
InLine(lo, hi, n, W) ==
    /\ \A i \in 1 .. n : lo[i] < hi[i] /\ hi[i] <= lo[i] + W
    /\ \A i, j \in 1 .. n : i < j => hi[i] <= lo[j]
Reach(lo, hi, n, a, b) == \A t \in a .. b - 1 : \E i \in 1 .. n : lo[i] <= t /\ t < hi[i]

\* Windows have both.
LEMMA EndsExist ==
    ASSUME NEW out \in Seq(Int \X Int), NEW n \in Nat, n = Len(out)
    PROVE  \E lo, hi : Ends(out, n, lo, hi)
<1> DEFINE lo == [i \in 1 .. n |-> out[i][1]]
           hi == [i \in 1 .. n |-> out[i][2]]
<1>1. ASSUME NEW i \in 1 .. n PROVE out[i][1] \in Int /\ out[i][2] \in Int
  <2>1. out[i] \in Int \X Int
    BY ElementOfSeq
  <2> QED
    BY <2>1
<1>2. lo \in [1 .. n -> Int] /\ hi \in [1 .. n -> Int]
  BY <1>1
<1>3. \A i \in 1 .. n : out[i][1] = lo[i] /\ out[i][2] = hi[i]
  OBVIOUS
<1> HIDE DEF lo, hi
<1>4. Ends(out, n, lo, hi)
  BY <1>2, <1>3 DEF Ends
<1> QED
  BY <1>4

\* What was said of windows, of where they begin and end.
LEMMA ByTheirEnds ==
    ASSUME NEW out \in Seq(Int \X Int), NEW n \in Nat, n = Len(out), NEW lo, NEW hi, Ends(out, n, lo, hi),
           NEW W \in Nat, W = Window
    PROVE  /\ AreWindows(out) <=> InLine(lo, hi, n, W)
           /\ \A a, b \in Int : Hold(out, a, b) <=> Reach(lo, hi, n, a, b)
<1>1. lo \in [1 .. n -> Int] /\ hi \in [1 .. n -> Int] /\ \A i \in 1 .. n : out[i][1] = lo[i] /\ out[i][2] = hi[i]
  BY DEF Ends
<1>2. ASSUME NEW i \in 1 .. n PROVE out[i][2] - out[i][1] \in 1 .. Window <=> lo[i] < hi[i] /\ hi[i] <= lo[i] + W
  <2>1. PICK a \in Int, b \in Int : a = lo[i] /\ b = hi[i]
    BY <1>1
  <2>2. b - a \in 1 .. W <=> a < b /\ b <= a + W
    OBVIOUS
  <2> QED
    BY <1>1, <2>1, <2>2
<1>3. AreWindows(out) <=> InLine(lo, hi, n, W)
  <2>1. AreWindows(out) <=> /\ \A i \in 1 .. n : out[i][2] - out[i][1] \in 1 .. Window
                            /\ \A i, j \in 1 .. n : i < j => out[i][2] <= out[j][1]
    BY DEF AreWindows
  <2>2. (\A i, j \in 1 .. n : i < j => out[i][2] <= out[j][1]) <=> \A i, j \in 1 .. n : i < j => hi[i] <= lo[j]
    BY <1>1
  <2> QED
    BY <1>2, <2>1, <2>2 DEF InLine
<1>4. ASSUME NEW a \in Int, NEW b \in Int PROVE Hold(out, a, b) <=> Reach(lo, hi, n, a, b)
  BY <1>1 DEF Hold, Reach
<1> QED
  BY <1>3, <1>4

\* The windows hold the region from x to y as well, and end with it.
Kept(out, new, x, y) ==
    /\ AreWindows(new) /\ Hold(new, x, y) /\ \A i \in 1 .. Len(new) : new[i][2] <= y
    /\ \A a, b \in Int : Hold(out, a, b) => Hold(new, a, b)

\* A region after them all that joins the last.
LEMMA JoinedKeeps ==
    ASSUME NEW out \in Seq(Int \X Int), NEW new \in Seq(Int \X Int), NEW x \in Int, NEW y \in Int, x < y,
           NEW p \in Nat, p = Len(out), AreWindows(out), \A i \in 1 .. p : out[i][2] < x, Joined(new, out, p, y)
    PROVE  Kept(out, new, x, y)
<1>1. PICK W \in Nat : W = Window /\ W # 0
  BY CutsConstants
<1>2. PICK lo, hi : Ends(out, p, lo, hi)
  BY EndsExist
<1>3. Len(new) = p /\ p \in 1 .. p
  BY DEF Joined
<1>4. PICK nlo, nhi : Ends(new, p, nlo, nhi)
  BY <1>3, EndsExist
<1>5. lo \in [1 .. p -> Int] /\ hi \in [1 .. p -> Int] /\ nlo \in [1 .. p -> Int] /\ nhi \in [1 .. p -> Int]
  BY <1>2, <1>4 DEF Ends
<1>6. /\ nlo[p] = lo[p] /\ nhi[p] = y /\ y <= lo[p] + W
      /\ \A i \in 1 .. p : i # p => nlo[i] = lo[i] /\ nhi[i] = hi[i]
  <2>1. nlo[p] = lo[p] /\ nhi[p] = y
    BY <1>2, <1>3, <1>4 DEF Ends, Joined
  <2>2. y <= lo[p] + W
    <3>1. PICK c \in Int : c = lo[p]
      BY <1>3, <1>5
    <3>2. y - c <= W
      BY <1>1, <1>2, <1>3, <3>1 DEF Ends, Joined
    <3>3. y <= c + W
      BY <3>2
    <3> QED
      BY <3>1, <3>3
  <2>3. ASSUME NEW i \in 1 .. p, i # p PROVE nlo[i] = lo[i] /\ nhi[i] = hi[i]
    BY <1>2, <1>4, <2>3 DEF Ends, Joined
  <2> QED
    BY <2>1, <2>2, <2>3
<1>7. /\ \A i \in 1 .. p : lo[i] < hi[i] /\ hi[i] <= lo[i] + W /\ hi[i] < x
      /\ \A i, j \in 1 .. p : i < j => hi[i] <= lo[j]
  <2>1. \A i \in 1 .. p : hi[i] < x
    BY <1>2 DEF Ends
  <2>2. InLine(lo, hi, p, W)
    BY <1>1, <1>2, ByTheirEnds
  <2> QED
    BY <2>1, <2>2 DEF InLine
<1>8. \A i \in 1 .. p : nlo[i] = lo[i] /\ hi[i] <= nhi[i] /\ nhi[i] <= y /\ nlo[i] < nhi[i] /\ nhi[i] <= nlo[i] + W
  <2> SUFFICES ASSUME NEW i \in 1 .. p
               PROVE  nlo[i] = lo[i] /\ hi[i] <= nhi[i] /\ nhi[i] <= y /\ nlo[i] < nhi[i] /\ nhi[i] <= nlo[i] + W
    OBVIOUS
  <2>1. PICK c \in Int, d \in Int, e \in Int : c = lo[i] /\ d = hi[i] /\ e = nhi[i]
    BY <1>5
  <2>2. c < d /\ d <= c + W /\ d < x
    BY <1>7, <2>1
  <2>3. nlo[i] = c /\ ((e = y /\ y <= c + W) \/ e = d)
    <3>1. CASE i = p
      BY <1>6, <2>1, <3>1
    <3>2. CASE i # p
      BY <1>6, <2>1, <3>2
    <3> QED
      BY <3>1, <3>2
  <2>4. d <= e /\ e <= y /\ c < e /\ e <= c + W
    BY <2>2, <2>3
  <2> QED
    BY <2>1, <2>3, <2>4
<1>9. ASSUME NEW i \in 1 .. p, NEW j \in 1 .. p, i < j PROVE nhi[i] <= nlo[j]
  <2>1. i # p
    BY <1>9
  <2>2. nhi[i] = hi[i] /\ nlo[j] = lo[j] /\ hi[i] <= lo[j]
    BY <1>6, <1>7, <1>8, <1>9, <2>1
  <2> QED
    BY <2>2
<1>10. Reach(nlo, nhi, p, x, y)
  <2>1. PICK c \in Int, d \in Int : c = lo[p] /\ d = hi[p]
    BY <1>3, <1>5
  <2>2. c < d /\ d < x /\ nlo[p] = c /\ nhi[p] = y
    BY <1>3, <1>6, <1>7, <2>1
  <2>3. \A t \in x .. y - 1 : c <= t /\ t < y
    BY <2>2
  <2> QED
    BY <1>3, <2>2, <2>3 DEF Reach
<1>11. ASSUME NEW a \in Int, NEW b \in Int, Hold(out, a, b) PROVE Hold(new, a, b)
  <2>1. Reach(lo, hi, p, a, b)
    BY <1>1, <1>2, <1>11, ByTheirEnds
  <2>2. ASSUME NEW t \in a .. b - 1 PROVE \E i \in 1 .. p : nlo[i] <= t /\ t < nhi[i]
    <3>1. PICK i \in 1 .. p : lo[i] <= t /\ t < hi[i]
      BY <2>1 DEF Reach
    <3>2. PICK d \in Int, e \in Int : d = hi[i] /\ e = nhi[i]
      BY <1>5
    <3>3. nlo[i] = lo[i] /\ d <= e
      BY <1>8, <3>2
    <3>4. t < e
      BY <3>1, <3>2, <3>3, SMTT(30)
    <3>5. nlo[i] <= t /\ t < nhi[i]
      BY <3>1, <3>2, <3>3, <3>4
    <3> QED
      BY <3>5
  <2>3. Reach(nlo, nhi, p, a, b)
    BY <2>2 DEF Reach
  <2> QED
    BY <1>1, <1>3, <1>4, <2>3, ByTheirEnds
<1>12. AreWindows(new)
  <2>1. InLine(nlo, nhi, p, W)
    BY <1>8, <1>9 DEF InLine
  <2> QED
    BY <1>1, <1>3, <1>4, <2>1, ByTheirEnds
<1>13. Hold(new, x, y)
  BY <1>1, <1>3, <1>4, <1>10, ByTheirEnds
<1>14. \A i \in 1 .. Len(new) : new[i][2] <= y
  BY <1>3, <1>4, <1>8 DEF Ends
<1> QED
  BY <1>11, <1>12, <1>13, <1>14 DEF Kept

\* A region after them all that gets windows of its own.
LEMMA AddedKeeps ==
    ASSUME NEW out \in Seq(Int \X Int), NEW new \in Seq(Int \X Int), NEW x \in Int, NEW y \in Int, x < y,
           NEW p \in Nat, p = Len(out), AreWindows(out), \A i \in 1 .. p : out[i][2] < x,
           NEW at, NEW whole, Grid(at, whole, x, y), Added(new, out, p, at, whole, y)
    PROVE  Kept(out, new, x, y)
<1>1. PICK W \in Nat : W = Window /\ W # 0
  BY CutsConstants
<1>2. PICK lo, hi : Ends(out, p, lo, hi)
  BY EndsExist
<1>3. PICK w \in Nat : w = whole
  BY DEF Grid
<1>4. /\ at \in [Nat -> Int] /\ at[0] = x /\ \A k \in Nat : at[k + 1] = at[k] + W
      /\ \A k, l \in Nat : k <= l => at[k] <= at[l]
      /\ at[w] < y /\ y <= at[w] + W
      /\ \A t \in x .. y - 1 : \E k \in 0 .. w : at[k] <= t /\ t < at[k] + W
  BY <1>1, <1>3 DEF Grid
<1>5. PICK q \in Nat : q = p + w + 1
  OBVIOUS
<1>6. Len(new) = q
  BY <1>3, <1>5 DEF Added
<1>7. PICK nlo, nhi : Ends(new, q, nlo, nhi)
  BY <1>6, EndsExist
<1>8. lo \in [1 .. p -> Int] /\ hi \in [1 .. p -> Int] /\ nlo \in [1 .. q -> Int] /\ nhi \in [1 .. q -> Int]
  BY <1>2, <1>7 DEF Ends
<1>9. \A i \in 1 .. p : nlo[i] = lo[i] /\ nhi[i] = hi[i] /\ i \in 1 .. q
  <2> SUFFICES ASSUME NEW i \in 1 .. p PROVE nlo[i] = lo[i] /\ nhi[i] = hi[i] /\ i \in 1 .. q
    OBVIOUS
  <2>1. i \in 1 .. q
    BY <1>5
  <2>2. new[i] = out[i]
    BY DEF Added
  <2> QED
    BY <1>2, <1>7, <2>1, <2>2 DEF Ends
<1>10. ASSUME NEW i \in 1 .. q, NEW k \in 0 .. w, i = p + k + 1
       PROVE  nlo[i] = at[k] /\ nhi[i] = IF k = w THEN y ELSE at[k + 1]
  <2>1. CASE k = w
    <3>1. new[i] = <<at[w], y>>
      BY <1>3, <1>10, <2>1 DEF Added
    <3> QED
      BY <1>7, <2>1, <3>1 DEF Ends
  <2>2. CASE k # w
    <3>1. PICK j \in 1 .. w : j = k + 1 /\ j - 1 = k /\ p + j = i
      <4>1. k + 1 \in 1 .. w /\ (k + 1) - 1 = k /\ p + (k + 1) = i
        BY <1>10, <2>2
      <4> QED
        BY <4>1
    <3>2. new[i] = <<at[j - 1], at[j]>>
      BY <1>3, <3>1 DEF Added
    <3>3. new[i][1] = at[k] /\ new[i][2] = at[k + 1]
      BY <3>1, <3>2
    <3> QED
      BY <1>7, <2>2, <3>3 DEF Ends
  <2> QED
    BY <2>1, <2>2
<1>11. ASSUME NEW i \in 1 .. q, NEW k \in 0 .. w, i = p + k + 1
       PROVE  /\ nlo[i] = at[k] /\ nhi[i] <= at[k + 1] /\ at[k + 1] = at[k] + W
              /\ nlo[i] < nhi[i] /\ nhi[i] <= y /\ (k # w => nhi[i] = at[k] + W)
  <2>1. PICK a \in Int, b \in Int, c \in Int : a = at[k] /\ b = at[k + 1] /\ c = at[w]
    <3>1. k \in Nat /\ k + 1 \in Nat /\ w \in Nat
      OBVIOUS
    <3> QED
      BY <1>4, <3>1
  <2>2. b = a + W /\ c < y /\ y <= c + W
    BY <1>4, <2>1
  <2>3. nlo[i] = a /\ nhi[i] = IF k = w THEN y ELSE b
    BY <1>10, <1>11, <2>1
  <2>4. CASE k = w
    BY <2>1, <2>2, <2>3, <2>4
  <2>5. CASE k # w
    <3>1. k + 1 \in Nat /\ k + 1 <= w
      BY <2>5
    <3>2. b <= c
      BY <1>4, <2>1, <3>1
    <3>3. a < b /\ b <= y
      BY <1>1, <2>2, <3>2
    <3>4. nhi[i] = b /\ nhi[i] = at[k] + W
      BY <2>1, <2>2, <2>3, <2>5
    <3> QED
      BY <2>1, <2>2, <2>3, <3>3, <3>4
  <2> QED
    BY <2>4, <2>5
<1>12. ASSUME NEW i \in 1 .. q PROVE i \in 1 .. p \/ \E k \in 0 .. w : i = p + k + 1
  <2>1. CASE i <= p
    BY <2>1
  <2>2. CASE ~(i <= p)
    <3>1. i - p - 1 \in 0 .. w /\ i = p + (i - p - 1) + 1
      BY <1>5, <2>2
    <3> QED
      BY <3>1
  <2> QED
    BY <2>1, <2>2
<1>13. /\ \A i \in 1 .. p : lo[i] < hi[i] /\ hi[i] <= lo[i] + W /\ hi[i] < x
       /\ \A i, j \in 1 .. p : i < j => hi[i] <= lo[j]
  <2>1. \A i \in 1 .. p : hi[i] < x
    BY <1>2 DEF Ends
  <2>2. InLine(lo, hi, p, W)
    BY <1>1, <1>2, ByTheirEnds
  <2> QED
    BY <2>1, <2>2 DEF InLine
<1>14. ASSUME NEW i \in 1 .. q PROVE nlo[i] < nhi[i] /\ nhi[i] <= nlo[i] + W /\ nhi[i] <= y
  <2>1. CASE i \in 1 .. p
    <3>1. PICK c \in Int, d \in Int : c = lo[i] /\ d = hi[i]
      BY <1>8, <2>1
    <3>2. c < d /\ d <= c + W /\ d < x
      BY <1>13, <2>1, <3>1
    <3>3. nlo[i] = c /\ nhi[i] = d
      BY <1>9, <2>1, <3>1
    <3> QED
      BY <3>2, <3>3
  <2>2. ASSUME NEW k \in 0 .. w, i = p + k + 1 PROVE nlo[i] < nhi[i] /\ nhi[i] <= nlo[i] + W /\ nhi[i] <= y
    <3>1. PICK a \in Int, b \in Int : a = at[k] /\ b = nhi[i]
      <4>1. k \in Nat
        OBVIOUS
      <4> QED
        BY <1>4, <1>8, <4>1
    <3>2. nlo[i] = a /\ b <= a + W /\ a < b /\ b <= y
      BY <1>11, <2>2, <3>1
    <3> QED
      BY <3>1, <3>2
  <2> QED
    BY <1>12, <2>1, <2>2
<1>15. ASSUME NEW i \in 1 .. q, NEW j \in 1 .. q, i < j PROVE nhi[i] <= nlo[j]
  <2>1. CASE i \in 1 .. p /\ j \in 1 .. p
    <3>1. hi[i] <= lo[j]
      BY <1>13, <1>15, <2>1
    <3> QED
      BY <1>9, <2>1, <3>1
  <2>2. ASSUME i \in 1 .. p, NEW l \in 0 .. w, j = p + l + 1 PROVE nhi[i] <= nlo[j]
    <3>1. nlo[j] = at[l] /\ at[l] \in Int /\ x <= at[l]
      <4>1. l \in Nat /\ 0 \in Nat /\ 0 <= l
        OBVIOUS
      <4>2. at[l] \in Int /\ at[0] <= at[l] /\ at[0] = x
        BY <1>4, <4>1
      <4>3. nlo[j] = at[l]
        BY <1>11, <2>2
      <4> QED
        BY <4>2, <4>3
    <3>2. nhi[i] \in Int /\ nhi[i] < x
      BY <1>8, <1>9, <1>13, <2>2
    <3> QED
      BY <3>1, <3>2
  <2>3. ASSUME NEW k \in 0 .. w, i = p + k + 1, NEW l \in 0 .. w, j = p + l + 1 PROVE nhi[i] <= nlo[j]
    <3>1. k + 1 <= l /\ k + 1 \in Nat /\ l \in Nat
      BY <1>15, <2>3
    <3>2. PICK b \in Int : b = at[k + 1] /\ b <= at[l]
      <4>1. at[k + 1] \in Int /\ at[k + 1] <= at[l]
        BY <1>4, <3>1
      <4> QED
        BY <4>1
    <3>3. nlo[j] = at[l] /\ at[l] \in Int
      <4>1. at[l] \in Int
        BY <1>4, <3>1
      <4>2. nlo[j] = at[l]
        BY <1>11, <2>3
      <4> QED
        BY <4>1, <4>2
    <3>4. nhi[i] \in Int /\ nhi[i] <= b
      BY <1>8, <1>11, <2>3, <3>2
    <3> QED
      BY <3>2, <3>3, <3>4
  <2>4. i \notin 1 .. p => j \notin 1 .. p
    BY <1>15
  <2> QED
    BY <1>12, <2>1, <2>2, <2>3, <2>4
<1>16. Reach(nlo, nhi, q, x, y)
  <2> SUFFICES ASSUME NEW t \in x .. y - 1 PROVE \E i \in 1 .. q : nlo[i] <= t /\ t < nhi[i]
    BY DEF Reach
  <2>1. PICK k \in 0 .. w : at[k] <= t /\ t < at[k] + W
    BY <1>4
  <2>2. PICK i \in 1 .. q : i = p + k + 1
    <3>1. p + k + 1 \in 1 .. q
      BY <1>5
    <3> QED
      BY <3>1
  <2>3. nlo[i] = at[k] /\ (k # w => nhi[i] = at[k] + W) /\ (k = w => nhi[i] = y)
    BY <1>10, <1>11, <2>2
  <2>4. t < nhi[i]
    BY <2>1, <2>3
  <2> QED
    BY <2>1, <2>3, <2>4
<1>17. ASSUME NEW a \in Int, NEW b \in Int, Hold(out, a, b) PROVE Hold(new, a, b)
  <2>1. Reach(lo, hi, p, a, b)
    BY <1>1, <1>2, <1>17, ByTheirEnds
  <2>2. ASSUME NEW t \in a .. b - 1 PROVE \E i \in 1 .. q : nlo[i] <= t /\ t < nhi[i]
    <3>1. PICK i \in 1 .. p : lo[i] <= t /\ t < hi[i]
      BY <2>1 DEF Reach
    <3> QED
      BY <1>9, <3>1
  <2>3. Reach(nlo, nhi, q, a, b)
    BY <2>2 DEF Reach
  <2> QED
    BY <1>1, <1>6, <1>7, <2>3, ByTheirEnds
<1>18. AreWindows(new)
  <2>1. InLine(nlo, nhi, q, W)
    BY <1>14, <1>15 DEF InLine
  <2> QED
    BY <1>1, <1>6, <1>7, <2>1, ByTheirEnds
<1>19. Hold(new, x, y)
  BY <1>1, <1>6, <1>7, <1>16, ByTheirEnds
<1>20. \A i \in 1 .. Len(new) : new[i][2] <= y
  BY <1>6, <1>7, <1>14 DEF Ends
<1> QED
  BY <1>17, <1>18, <1>19, <1>20 DEF Kept

\* Regions with pauses between: what the voice detector finds.
LEMMA WindowsHoldEveryRegion ==
    ASSUME NEW vad \in Seq(Int \X Int), \A n \in 1 .. Len(vad) : vad[n][1] < vad[n][2],
           \A n \in 1 .. Len(vad) - 1 : vad[n][2] < vad[n + 1][1]
    PROVE  /\ PackWindows(vad) \in Seq(Int \X Int) /\ AreWindows(PackWindows(vad))
           /\ \A n \in 1 .. Len(vad) : Hold(PackWindows(vad), vad[n][1], vad[n][2])
<1>1. PICK N \in Nat : N = Len(vad) /\ DOMAIN vad = 1 .. N
  OBVIOUS
<1>2. \A n \in 1 .. N : vad[n] \in Int \X Int /\ vad[n][1] \in Int /\ vad[n][2] \in Int /\ vad[n][1] < vad[n][2]
  <2> SUFFICES ASSUME NEW n \in 1 .. N PROVE vad[n] \in Int \X Int
    BY <1>1
  <2> QED
    BY <1>1, ElementOfSeq
<1> DEFINE Pairs == Seq(Int \X Int)
<1>3. ASSUME NEW n \in 1 .. N, NEW out \in Pairs
      PROVE  /\ PackRegion(out, vad[n]) \in Pairs
             /\ AreWindows(out) /\ (\A i \in 1 .. Len(out) : out[i][2] < vad[n][1]) =>
                   /\ AreWindows(PackRegion(out, vad[n])) /\ Hold(PackRegion(out, vad[n]), vad[n][1], vad[n][2])
                   /\ \A i \in 1 .. Len(PackRegion(out, vad[n])) : PackRegion(out, vad[n])[i][2] <= vad[n][2]
                   /\ \A a, b \in Int : Hold(out, a, b) => Hold(PackRegion(out, vad[n]), a, b)
  <2>1. PICK region, x, y : region = vad[n] /\ x = vad[n][1] /\ y = vad[n][2]
    OBVIOUS
  <2>2. region \in Int \X Int /\ region[1] = x /\ region[2] = y /\ x \in Int /\ y \in Int /\ x < y
    BY <1>2, <2>1
  <2>3. PICK at, whole : Grid(at, whole, x, y)
    BY <2>2, GridExists
  <2>4. PICK p \in Nat : p = Len(out)
    OBVIOUS
  <2>5. PICK new : new = PackRegion(out, region)
    OBVIOUS
  <2>6. new \in Pairs /\ (Joined(new, out, p, y) \/ Added(new, out, p, at, whole, y))
    BY <2>2, <2>3, <2>4, <2>5, PackRegionIs
  <2>7. ASSUME AreWindows(out), \A i \in 1 .. Len(out) : out[i][2] < x
        PROVE  /\ AreWindows(new) /\ Hold(new, x, y) /\ \A i \in 1 .. Len(new) : new[i][2] <= y
               /\ \A a, b \in Int : Hold(out, a, b) => Hold(new, a, b)
    <3>1. \A i \in 1 .. p : out[i][2] < x
      BY <2>4, <2>7
    <3>2. out \in Seq(Int \X Int) /\ new \in Seq(Int \X Int)
      BY <2>6
    <3> HIDE DEF Pairs
    <3>3. CASE Joined(new, out, p, y)
      <4>1. Kept(out, new, x, y)
        BY <2>2, <2>4, <2>7, <3>1, <3>2, <3>3, JoinedKeeps
      <4> QED
        BY <4>1 DEF Kept
    <3>4. CASE Added(new, out, p, at, whole, y)
      <4>1. Kept(out, new, x, y)
        BY <2>2, <2>3, <2>4, <2>7, <3>1, <3>2, <3>4, AddedKeeps
      <4> QED
        BY <4>1 DEF Kept
    <3> QED
      BY <2>6, <3>3, <3>4
  <2> QED
    BY <2>1, <2>5, <2>6, <2>7
<1>4. <<>> \in Pairs
  OBVIOUS
<1> HIDE DEF Pairs
<1>5. PICK f : Packs(f, vad, N, Pairs)
  BY <1>1, <1>3, <1>4, PackUnfolds
<1>6. /\ f[0] = <<>> /\ f[N] = PackWindows(vad) /\ \A n \in 0 .. N : f[n] \in Pairs
      /\ \A n \in 1 .. N : f[n] = PackRegion(f[n - 1], vad[n])
  BY <1>5 DEF Packs
<1> DEFINE Good == {n \in Nat : n <= N =>
                      /\ AreWindows(f[n])
                      /\ \A k \in 1 .. N : k <= n => Hold(f[n], vad[k][1], vad[k][2])
                      /\ n # 0 => \A i \in 1 .. Len(f[n]) : f[n][i][2] <= vad[n][2]}
<1>7. 0 \in Good
  <2>1. Len(<<>>) = 0
    OBVIOUS
  <2>2. AreWindows(<<>>)
    BY <2>1 DEF AreWindows
  <2> QED
    BY <1>6, <2>2
<1>8. ASSUME NEW n \in Nat, n \in Good PROVE n + 1 \in Good
  <2> SUFFICES ASSUME n + 1 <= N
               PROVE  /\ AreWindows(f[n + 1])
                      /\ \A k \in 1 .. N : k <= n + 1 => Hold(f[n + 1], vad[k][1], vad[k][2])
                      /\ \A i \in 1 .. Len(f[n + 1]) : f[n + 1][i][2] <= vad[n + 1][2]
    OBVIOUS
  <2>1. PICK m \in 1 .. N : m = n + 1 /\ m - 1 = n /\ n <= N /\ n \in 0 .. N
    OBVIOUS
  <2>2. /\ AreWindows(f[n]) /\ f[n] \in Pairs
        /\ \A k \in 1 .. N : k <= n => Hold(f[n], vad[k][1], vad[k][2])
        /\ n # 0 => \A i \in 1 .. Len(f[n]) : f[n][i][2] <= vad[n][2]
    BY <1>6, <1>8, <2>1
  <2> HIDE DEF Good
  <2>3. PICK out : out = f[n]
    OBVIOUS
  <2>4. \A i \in 1 .. Len(out) : out[i][2] < vad[m][1]
    <3>1. CASE n = 0
      BY <1>6, <2>3, <3>1
    <3>2. CASE n # 0
      <4> SUFFICES ASSUME NEW i \in 1 .. Len(out) PROVE out[i][2] < vad[m][1]
        OBVIOUS
      <4>1. n \in 1 .. N /\ n \in 1 .. N - 1
        BY <2>1, <3>2
      <4>2. vad[n][2] < vad[m][1] /\ vad[n][2] \in Int /\ vad[m][1] \in Int
        BY <1>1, <1>2, <2>1, <4>1
      <4>3. out[i] \in Int \X Int
        BY <2>2, <2>3, ElementOfSeq DEF Pairs
      <4>4. out[i][2] \in Int /\ out[i][2] <= vad[n][2]
        BY <2>2, <2>3, <3>2, <4>3
      <4>5. PICK a \in Int, b \in Int, c \in Int : a = out[i][2] /\ b = vad[n][2] /\ c = vad[m][1]
        BY <4>2, <4>4
      <4>6. a <= b /\ b < c
        BY <4>2, <4>4, <4>5
      <4>7. a < c
        BY <4>6
      <4> QED
        BY <4>5, <4>7
    <3> QED
      BY <3>1, <3>2
  <2>5. PICK new : new = f[m] /\ new = PackRegion(out, vad[m])
    BY <1>6, <2>1, <2>3
  <2>6. /\ AreWindows(new) /\ Hold(new, vad[m][1], vad[m][2])
        /\ \A i \in 1 .. Len(new) : new[i][2] <= vad[m][2]
        /\ \A a, b \in Int : Hold(out, a, b) => Hold(new, a, b)
    BY <1>3, <2>2, <2>3, <2>4, <2>5
  <2>7. ASSUME NEW k \in 1 .. N, k <= m PROVE Hold(new, vad[k][1], vad[k][2])
    <3>1. CASE k = m
      BY <2>6, <3>1
    <3>2. CASE k # m
      <4>1. k <= n
        BY <2>1, <2>7, <3>2
      <4> QED
        BY <1>2, <2>2, <2>3, <2>6, <4>1
    <3> QED
      BY <3>1, <3>2
  <2> QED
    BY <2>1, <2>5, <2>6, <2>7
<1>9. N \in Good
  <2> HIDE DEF Good
  <2> QED
    BY <1>7, <1>8, NumberInduction
<1> QED
  BY <1>1, <1>6, <1>9 DEF Pairs

-----------------------------------------------------------------------------
(* Pieces of turns, recluster.py.                                          *)

\* Where the piece that starts at s ends, and the pieces from s on, given the later ones.
EndFrom(s, to) == LET e == Min({to, s + Piece}) IN IF to - e < MinPiece THEN to ELSE e
PiecesFrom(g, s, to) == IF to - s < MinPiece THEN <<>> ELSE <<<<s, EndFrom(s, to)>>>> \o g[EndFrom(s, to)]

\* A piece is long enough, and leaves nothing or enough for another.
LEMMA EndFromIs ==
    ASSUME NEW s \in Int, NEW to \in Int, to - s >= MinPiece
    PROVE  /\ EndFrom(s, to) \in s + 1 .. to
           /\ EndFrom(s, to) - s \in MinPiece .. Piece + MinPiece - 1
           /\ EndFrom(s, to) = to \/ to - EndFrom(s, to) >= MinPiece
<1>1. PICK P \in Nat, M \in Nat \ {0} : P = Piece /\ M = MinPiece /\ M <= P
  BY CutsConstants
<1>2. PICK e \in Int : e = Min({to, s + P}) /\ (e = IF to <= s + P THEN to ELSE s + P)
  <2>1. to \in Int /\ s + P \in Int
    OBVIOUS
  <2> QED
    BY <2>1, OfTwo
<1>3. EndFrom(s, to) = IF to - e < M THEN to ELSE e
  BY <1>1, <1>2 DEF EndFrom
<1>4. to - s >= M
  BY <1>1
<1>5. PICK end \in Int : end = EndFrom(s, to) /\ (end = IF to - e < M THEN to ELSE e)
  BY <1>3
<1>6. end \in s + 1 .. to /\ end - s \in M .. P + M - 1 /\ (end = to \/ to - end >= M)
  BY <1>1, <1>2, <1>4, <1>5
<1> QED
  BY <1>1, <1>5, <1>6

\* The later pieces of a turn come first: there is one cut.
LEMMA CutExists ==
    ASSUME NEW from \in Int, NEW to \in Int, from <= to
    PROVE  \E g : g = [s \in from .. to |-> PiecesFrom(g, s, to)]
<1> DEFINE CutOf(d, g) == g = [s \in to - d .. to |-> PiecesFrom(g, s, to)]
           Good == {d \in Nat : \E g : CutOf(d, g)}
<1>1. PICK M \in Nat \ {0} : M = MinPiece
  BY CutsConstants
<1>2. 0 \in Good
  <2> DEFINE g == [s \in to - 0 .. to |-> <<>>]
  <2>1. \A s \in to - 0 .. to : PiecesFrom(g, s, to) = <<>>
    <3> SUFFICES ASSUME NEW s \in to - 0 .. to PROVE to - s < MinPiece
      BY DEF PiecesFrom
    <3>1. s = to
      OBVIOUS
    <3> QED
      BY <1>1, <3>1
  <2>2. CutOf(0, g)
    BY <2>1
  <2> QED
    BY <2>2
<1>3. ASSUME NEW d \in Nat, d \in Good PROVE d + 1 \in Good
  <2>1. PICK g : CutOf(d, g)
    BY <1>3
  <2>2. PICK x \in Int : x = to - (d + 1) /\ to - d = x + 1 /\ x < to
    OBVIOUS
  <2> DEFINE h == [s \in x .. to |-> IF s = x THEN PiecesFrom(g, x, to) ELSE g[s]]
  <2>3. ASSUME NEW s \in x .. to PROVE h[s] = PiecesFrom(h, s, to)
    <3>1. h[s] = PiecesFrom(g, s, to)
      <4>1. CASE s = x
        BY <4>1
      <4>2. CASE s # x
        <5>1. s \in to - d .. to
          BY <2>2, <4>2
        <5> HIDE DEF h
        <5>2. g[s] = PiecesFrom(g, s, to)
          BY <2>1, <5>1
        <5>3. h[s] = g[s]
          BY <4>2 DEF h
        <5> QED
          BY <5>2, <5>3
      <4> QED
        BY <4>1, <4>2
    <3>2. CASE to - s < MinPiece
      BY <3>1, <3>2 DEF PiecesFrom
    <3>3. CASE ~(to - s < MinPiece)
      <4>1. PICK e \in s + 1 .. to : e = EndFrom(s, to)
        <5>1. to - s >= MinPiece /\ s \in Int
          BY <1>1, <2>2, <3>3
        <5> QED
          BY <5>1, EndFromIs
      <4>2. h[e] = g[e]
        BY <2>2, <4>1
      <4> HIDE DEF h
      <4> QED
        BY <3>1, <3>3, <4>1, <4>2 DEF PiecesFrom
    <3> QED
      BY <3>2, <3>3
  <2>4. CutOf(d + 1, h)
    <3>1. h = [s \in x .. to |-> h[s]]
      OBVIOUS
    <3> HIDE DEF h
    <3>2. h = [s \in x .. to |-> PiecesFrom(h, s, to)]
      BY <2>3, <3>1
    <3> QED
      BY <2>2, <3>2
  <2> HIDE DEF CutOf, h
  <2> QED
    BY <2>4
<1>4. PICK d \in Nat : to - d = from
  <2>1. to - from \in Nat /\ to - (to - from) = from
    OBVIOUS
  <2> QED
    BY <2>1
<1>5. d \in Good
  <2> HIDE DEF Good
  <2> QED
    BY <1>2, <1>3, NumberInduction
<1> QED
  BY <1>4, <1>5

\* Pieces that fill the turn from s on, if it is long enough.
Fill(r, s, to) ==
    /\ r \in Seq(Int \X Int)
    /\ to - s >= MinPiece <=> r # <<>>
    /\ r # <<>> => r[1][1] = s /\ Last(r)[2] = to
    /\ \A n \in 1 .. Len(r) : r[n][2] - r[n][1] \in MinPiece .. Piece + MinPiece - 1
    /\ \A n \in 1 .. Len(r) - 1 : r[n][2] = r[n + 1][1]

\* One more piece before the others.
LEMMA PrependFills ==
    ASSUME NEW s \in Int, NEW to \in Int, to - s >= MinPiece, NEW rest, Fill(rest, EndFrom(s, to), to)
    PROVE  Fill(<<<<s, EndFrom(s, to)>>>> \o rest, s, to)
<1>1. PICK e \in Int : /\ e = EndFrom(s, to) /\ e \in s + 1 .. to
                       /\ e - s \in MinPiece .. Piece + MinPiece - 1 /\ (e = to \/ to - e >= MinPiece)
  <2>1. EndFrom(s, to) \in s + 1 .. to /\ EndFrom(s, to) \in Int
    BY EndFromIs
  <2> QED
    BY <2>1, EndFromIs
<1>2. PICK m \in Nat : m = Len(rest) /\ rest \in Seq(Int \X Int)
  BY DEF Fill
<1>3. PICK one : one = <<<<s, e>>>> /\ one \in Seq(Int \X Int) /\ Len(one) = 1 /\ one[1] = <<s, e>>
  <2>1. <<s, e>> \in Int \X Int
    OBVIOUS
  <2>2. PICK X, x : X = Int \X Int /\ x = <<s, e>>
    OBVIOUS
  <2>3. <<x>> \in Seq(X) /\ Len(<<x>>) = 1 /\ <<x>>[1] = x
    BY <2>1, <2>2
  <2> QED
    BY <2>2, <2>3
<1>4. PICK r : Followed(r, Int \X Int, one, 1, rest, m)
  BY <1>2, <1>3, ConcatIs
<1>5. /\ r \in Seq(Int \X Int) /\ r = one \o rest /\ Len(r) = m + 1 /\ r[1][1] = s /\ r[1][2] = e
      /\ \A i \in 1 .. m : r[1 + i] = rest[i]
  <2>1. r[1] = one[1]
    <3>1. 1 \in 1 .. 1
      OBVIOUS
    <3> QED
      BY <1>4, <3>1 DEF Followed
  <2> QED
    BY <1>2, <1>3, <1>4, <2>1 DEF Followed
<1>6. r # <<>>
  BY <1>5
<1>7. Last(r)[2] = to
  <2>1. CASE m = 0
    <3>1. rest = <<>>
      <4>1. PICK X : X = Int \X Int
        OBVIOUS
      <4>2. rest \in Seq(X) /\ Len(rest) = 0
        BY <1>2, <2>1, <4>1
      <4> QED
        BY <4>2
    <3>2. e = to
      BY <1>1, <3>1 DEF Fill
    <3> QED
      BY <1>5, <2>1, <3>2 DEF Last
  <2>2. CASE m # 0
    <3>1. rest # <<>> /\ m \in 1 .. m
      BY <1>2, <2>2
    <3>2. rest[m][2] = to
      BY <1>2, <3>1 DEF Fill, Last
    <3>3. r[m + 1] = rest[m]
      <4>1. r[1 + m] = rest[m]
        BY <1>5, <3>1
      <4>2. 1 + m = m + 1
        OBVIOUS
      <4> QED
        BY <4>1, <4>2
    <3> QED
      BY <1>5, <3>2, <3>3 DEF Last
  <2> QED
    BY <2>1, <2>2
<1>8. ASSUME NEW n \in 1 .. m + 1 PROVE n = 1 \/ \E i \in 1 .. m : n = 1 + i
  <2>1. CASE n # 1
    <3>1. n - 1 \in 1 .. m /\ n = 1 + (n - 1)
      BY <2>1
    <3> QED
      BY <3>1
  <2> QED
    BY <2>1
<1>9. ASSUME NEW n \in 1 .. m + 1 PROVE r[n][2] - r[n][1] \in MinPiece .. Piece + MinPiece - 1
  <2>1. CASE n = 1
    BY <1>1, <1>5, <2>1
  <2>2. ASSUME NEW i \in 1 .. m, n = 1 + i PROVE r[n][2] - r[n][1] \in MinPiece .. Piece + MinPiece - 1
    <3>1. r[n] = rest[i]
      BY <1>5, <2>2
    <3> QED
      BY <1>2, <3>1 DEF Fill
  <2> QED
    BY <1>8, <2>1, <2>2
<1>10. ASSUME NEW n \in 1 .. m PROVE r[n][2] = r[n + 1][1]
  <2>1. CASE n = 1
    <3>1. rest # <<>> /\ rest[1][1] = e
      <4>1. rest # <<>>
        BY <1>2
      <4> QED
        BY <1>1, <4>1 DEF Fill
    <3>2. r[1 + 1] = rest[1]
      BY <1>5, <2>1
    <3> QED
      BY <1>5, <2>1, <3>1, <3>2
  <2>2. CASE n # 1
    <3>1. PICK i \in 1 .. m - 1 : n = 1 + i /\ n + 1 = 1 + (i + 1) /\ i \in 1 .. m /\ i + 1 \in 1 .. m
      <4>1. /\ n - 1 \in 1 .. m - 1 /\ n = 1 + (n - 1) /\ n + 1 = 1 + ((n - 1) + 1)
            /\ n - 1 \in 1 .. m /\ (n - 1) + 1 \in 1 .. m
        BY <2>2
      <4> QED
        BY <4>1
    <3>2. rest[i][2] = rest[i + 1][1]
      BY <1>2, <3>1 DEF Fill
    <3>3. r[n] = rest[i] /\ r[n + 1] = rest[i + 1]
      BY <1>5, <3>1
    <3> QED
      BY <3>2, <3>3
  <2> QED
    BY <2>1, <2>2
<1>11. Len(r) - 1 = m
  BY <1>5
<1> QED
  BY <1>1, <1>3, <1>5, <1>6, <1>7, <1>9, <1>10, <1>11 DEF Fill

\* Every turn is filled.
LEMMA PiecesFill ==
    ASSUME NEW from \in Int, NEW to \in Int, from <= to
    PROVE  Fill(Pieces(from, to), from, to)
<1> DEFINE cut == CHOOSE g : g = [s \in from .. to |-> PiecesFrom(g, s, to)]
<1>1. Pieces(from, to) = cut[from]
  BY Zenon DEF Pieces, PiecesFrom, EndFrom
<1>2. cut = [s \in from .. to |-> PiecesFrom(cut, s, to)]
  BY CutExists
<1> HIDE DEF cut
<1>3. \A s \in from .. to : cut[s] = PiecesFrom(cut, s, to)
  BY <1>2
<1>4. PICK M \in Nat \ {0} : M = MinPiece
  BY CutsConstants
<1> DEFINE Good == {d \in Nat : \A s \in from .. to : to - s <= d => Fill(cut[s], s, to)}
<1>5. ASSUME NEW s \in from .. to, to - s < MinPiece PROVE Fill(cut[s], s, to)
  <2>1. cut[s] = <<>>
    BY <1>3, <1>5 DEF PiecesFrom
  <2>2. <<>> \in Seq(Int \X Int) /\ Len(<<>>) = 0 /\ ~(to - s >= MinPiece)
    BY <1>4, <1>5
  <2>3. 1 .. 0 = {} /\ 1 .. 0 - 1 = {}
    OBVIOUS
  <2> QED
    BY <2>1, <2>2, <2>3 DEF Fill
<1>6. 0 \in Good
  <2> SUFFICES ASSUME NEW s \in from .. to, to - s <= 0 PROVE Fill(cut[s], s, to)
    OBVIOUS
  <2>1. to - s < MinPiece
    BY <1>4
  <2> QED
    BY <1>5, <2>1
<1>7. ASSUME NEW d \in Nat, d \in Good PROVE d + 1 \in Good
  <2> SUFFICES ASSUME NEW s \in from .. to, to - s <= d + 1, ~(to - s < MinPiece) PROVE Fill(cut[s], s, to)
    BY <1>5
  <2>1. to - s >= MinPiece /\ s \in Int
    BY <1>4
  <2>2. PICK e \in from .. to : e = EndFrom(s, to) /\ to - e <= d
    <3>1. EndFrom(s, to) \in s + 1 .. to
      BY <2>1, EndFromIs
    <3> QED
      BY <3>1
  <2>3. Fill(cut[e], e, to)
    BY <1>7, <2>2
  <2>4. cut[s] = <<<<s, e>>>> \o cut[e]
    BY <1>3, <2>2 DEF PiecesFrom
  <2> HIDE DEF Good
  <2> QED
    BY <2>1, <2>2, <2>3, <2>4, PrependFills
<1>8. PICK d \in Nat : d = to - from
  OBVIOUS
<1>9. d \in Good
  <2> HIDE DEF Good
  <2> QED
    BY <1>6, <1>7, NumberInduction
<1>10. Fill(cut[from], from, to)
  BY <1>8, <1>9
<1> QED
  BY <1>1, <1>10

-----------------------------------------------------------------------------
(* Windows decoded again, transcribe.py.                                   *)

\* A time is inside one of the picked windows.
LEMMA InsidePicked ==
    ASSUME NEW X, NEW windows \in Seq(X), NEW again \in SUBSET DOMAIN windows, NEW t
    PROVE  Inside(t, Pick(windows, again)) <=> \E k \in again : windows[k][1] <= t /\ t <= windows[k][2]
<1>1. PICK spans : spans = Pick(windows, again)
  OBVIOUS
<1>2. PICK p : Arranges(p, again, windows, spans)
  BY <1>1, Picked
<1>3. DOMAIN spans = 1 .. Len(spans) /\ p \in [1 .. Len(spans) -> again]
  BY <1>2 DEF Arranges
<1>4. ASSUME NEW n \in DOMAIN spans, spans[n][1] <= t, t <= spans[n][2]
      PROVE  \E k \in again : windows[k][1] <= t /\ t <= windows[k][2]
  <2>1. spans[n] = windows[p[n]] /\ p[n] \in again
    BY <1>2, <1>3 DEF Arranges
  <2> QED
    BY <1>4, <2>1
<1>5. ASSUME NEW k \in again, windows[k][1] <= t, t <= windows[k][2]
      PROVE  \E n \in DOMAIN spans : spans[n][1] <= t /\ t <= spans[n][2]
  <2>1. PICK n \in DOMAIN spans : p[n] = k
    BY <1>2, <1>3 DEF Arranges
  <2>2. spans[n] = windows[k]
    BY <1>2, <1>3, <2>1 DEF Arranges
  <2> QED
    BY <1>5, <2>2
<1> QED
  BY <1>1, <1>4, <1>5 DEF Inside

\* A word of a window decoded again is not among words; any other is, or is on an edge.
Replaces(words, windows, again, w) ==
    /\ w.window \in again => w \notin words
    /\ w.window \notin again => w \in words \/ \E n \in again : w.start = windows[n][2]

\* Words of the windows decoded again go, the others stay but for one on an edge.
LEMMA DecodedAgain ==
    ASSUME NEW windows \in Seq(Int \X Int), AreWindows(windows), NEW again \in SUBSET DOMAIN windows,
           NEW first \in SUBSET WordsOf(windows, "first"), NEW second \in SUBSET WordsOf(windows, "again")
    PROVE  \A w \in first : Replaces(Redecode(first, Pick(windows, again), second), windows, again, w)
<1> SUFFICES ASSUME NEW w \in first
             PROVE  LET words == Redecode(first, Pick(windows, again), second) IN
                    /\ w.window \in again => w \notin words
                    /\ w.window \notin again => w \in words \/ \E n \in again : w.start = windows[n][2]
  BY Zenon DEF Replaces
<1>1. PICK N \in Nat : N = Len(windows) /\ DOMAIN windows = 1 .. N
  OBVIOUS
<1>2. PICK lo, hi : Ends(windows, N, lo, hi)
  BY <1>1, EndsExist
<1>3. /\ lo \in [1 .. N -> Int] /\ hi \in [1 .. N -> Int]
      /\ \A k \in 1 .. N : windows[k][1] = lo[k] /\ windows[k][2] = hi[k]
  BY <1>2 DEF Ends
<1>4. PICK t \in Int, m \in 1 .. N : t = w.start /\ m = w.window /\ lo[m] <= t /\ t < hi[m] /\ w.from = "first"
  <2>1. PICK t \in 0 .. Horizon, m \in 1 .. N : w = [start |-> t, window |-> m, from |-> "first"]
    BY <1>1 DEF WordsOf, Starts
  <2>2. windows[m][1] <= t /\ t < windows[m][2]
    BY <2>1 DEF WordsOf
  <2>3. t \in Int
    BY AlgorithmsConstants
  <2> QED
    BY <1>3, <2>1, <2>2, <2>3
<1>5. w \notin second
  <2>1. \A v \in second : v.from = "again"
    BY DEF WordsOf, Starts
  <2> QED
    BY <1>4, <2>1
<1>6. PICK words : words = Redecode(first, Pick(windows, again), second)
  OBVIOUS
<1>7. w \in words <=> ~\E k \in again : lo[k] <= t /\ t <= hi[k]
  <2>1. Inside(t, Pick(windows, again)) <=> \E k \in again : windows[k][1] <= t /\ t <= windows[k][2]
    BY InsidePicked
  <2>2. Inside(t, Pick(windows, again)) <=> \E k \in again : lo[k] <= t /\ t <= hi[k]
    BY <1>1, <1>3, <2>1
  <2>3. w \in words <=> ~Inside(t, Pick(windows, again))
    BY <1>4, <1>5, <1>6 DEF Redecode
  <2> QED
    BY <2>2, <2>3
<1>8. ASSUME m \in again PROVE w \notin words
  <2>1. hi[m] \in Int /\ t <= hi[m]
    BY <1>3, <1>4
  <2> QED
    BY <1>4, <1>7, <1>8, <2>1
<1>9. ASSUME m \notin again, w \notin words PROVE \E n \in again : t = windows[n][2]
  <2>1. PICK k \in again : lo[k] <= t /\ t <= hi[k]
    BY <1>7, <1>9
  <2>2. k \in 1 .. N /\ k # m
    BY <1>1, <1>9
  <2>3. PICK a \in Int, b \in Int, c \in Int, d \in Int : a = lo[k] /\ b = hi[k] /\ c = lo[m] /\ d = hi[m]
    BY <1>3, <2>2
  <2>4. \A i, j \in 1 .. N : i < j => hi[i] <= lo[j]
    BY <1>1, <1>3 DEF AreWindows
  <2>5. k < m => b <= c
    BY <2>2, <2>3, <2>4
  <2>6. m < k => d <= a
    BY <2>2, <2>3, <2>4
  <2>7. a <= t /\ t <= b /\ c <= t /\ t < d
    BY <1>4, <2>1, <2>3
  <2>8. t = b
    BY <2>2, <2>5, <2>6, <2>7
  <2> QED
    BY <1>3, <2>2, <2>3, <2>8
<1> QED
  BY <1>4, <1>6, <1>8, <1>9

-----------------------------------------------------------------------------
(* Where the turns of clean_turns come from.                               *)

\* A merged turn starts as one of the first k turns of t, and ends as one that
\* starts before any later merged turn does.
ComesFrom(t, k, out, m) ==
    /\ \E p \in 1 .. k : t[p].start = out[m].start /\ t[p].label = out[m].label
    /\ \E q \in 1 .. k : /\ t[q].end = out[m].end /\ t[q].label = out[m].label
                         /\ \A n \in m + 1 .. Len(out) : t[q].start <= out[n].start

ComeFrom(t, k, out) == Monotone(out) /\ \A m \in 1 .. Len(out) : ComesFrom(t, k, out, m)

\* Merging one more turn leaves it so.
LEMMA MergeComesFrom ==
    ASSUME NEW t \in Seq(Turn), Monotone(t), NEW i \in 1 .. Len(t),
           NEW out \in Seq(Turn), ComeFrom(t, i - 1, out)
    PROVE  ComeFrom(t, i, Merge(out, t[i]))
<1>1. PICK N \in Nat : N = Len(out) /\ DOMAIN out = 1 .. N
  OBVIOUS
<1>2. \A p \in 1 .. Len(t) : t[p] \in Turn /\ t[p].start \in Int /\ t[p].end \in Int
  BY DEF Turn
<1>3. \A m \in 1 .. N : out[m] \in Turn /\ out[m].start \in Int /\ out[m].end \in Int
  BY <1>1 DEF Turn
<1>4. \A p \in 1 .. i - 1 : p \in 1 .. Len(t) /\ p \in 1 .. i /\ p <= i
  OBVIOUS
<1>5. PICK new : new = Merge(out, t[i])
  OBVIOUS
<1>6. i \in 1 .. i
  OBVIOUS
<1>7. CASE out # <<>> /\ Last(out).label = t[i].label /\ t[i].start - Last(out).end <= MergeGap
  <2>1. N \in 1 .. N
    BY <1>1, <1>7
  <2>2. PICK e : e = Max({out[N].end, t[i].end})
    OBVIOUS
  <2>3. e = out[N].end \/ e = t[i].end
    BY <1>2, <1>3, <2>1, <2>2, OfTwo
  <2>4. new = [out EXCEPT ![N] = [out[N] EXCEPT !.end = e]]
    BY <1>1, <1>5, <1>7, <2>1, <2>2 DEF Merge, Last
  <2>5. Len(new) = N /\ \A m \in 1 .. N : m # N => new[m] = out[m]
    BY <1>1, <2>4
  <2>6. new[N].start = out[N].start /\ new[N].end = e /\ new[N].label = out[N].label
    <3>1. new[N] = [out[N] EXCEPT !.end = e]
      BY <1>1, <2>1, <2>4
    <3> QED
      BY <1>3, <2>1, <3>1 DEF Turn
  <2>7. \A m \in 1 .. N : new[m].start = out[m].start
    BY <2>5, <2>6
  <2>8. Monotone(new)
    BY <1>1, <2>5, <2>7 DEF ComeFrom, Monotone
  <2>9. ASSUME NEW m \in 1 .. N PROVE ComesFrom(t, i, new, m)
    <3>1. PICK p \in 1 .. i - 1 : t[p].start = out[m].start /\ t[p].label = out[m].label
      BY <1>1 DEF ComeFrom, ComesFrom
    <3>2. PICK q \in 1 .. i - 1 : /\ t[q].end = out[m].end /\ t[q].label = out[m].label
                                  /\ \A n \in m + 1 .. N : t[q].start <= out[n].start
      BY <1>1 DEF ComeFrom, ComesFrom
    <3>3. p \in 1 .. i /\ t[p].start = new[m].start /\ t[p].label = new[m].label
      BY <1>4, <2>5, <2>6, <3>1
    <3>4. \A n \in m + 1 .. N : n \in 1 .. N
      OBVIOUS
    <3>5. CASE new[m].end = out[m].end
      <4>1. q \in 1 .. i /\ t[q].end = new[m].end /\ t[q].label = new[m].label
        BY <1>4, <2>5, <2>6, <3>2, <3>5
      <4>2. \A n \in m + 1 .. Len(new) : t[q].start <= new[n].start
        BY <2>5, <2>7, <3>2, <3>4
      <4> QED
        BY <3>3, <4>1, <4>2 DEF ComesFrom
    <3>6. CASE new[m].end # out[m].end
      <4>1. m = N /\ new[m].end = t[i].end /\ t[i].label = new[m].label
        <5>1. Last(out).label = out[N].label
          BY <1>1 DEF Last
        <5> QED
          BY <1>7, <2>3, <2>5, <2>6, <3>6, <5>1
      <4>2. \A n \in m + 1 .. Len(new) : t[i].start <= new[n].start
        BY <2>5, <4>1
      <4> QED
        BY <1>6, <3>3, <4>1, <4>2 DEF ComesFrom
    <3> QED
      BY <3>5, <3>6
  <2> QED
    BY <1>5, <2>5, <2>8, <2>9 DEF ComeFrom
<1>8. CASE ~(out # <<>> /\ Last(out).label = t[i].label /\ t[i].start - Last(out).end <= MergeGap)
  <2>1. new = Append(out, t[i])
    BY <1>5, <1>8 DEF Merge
  <2>2. Len(new) = N + 1 /\ new[N + 1] = t[i] /\ \A m \in 1 .. N : new[m] = out[m]
    BY <1>1, <2>1
  <2>3. ASSUME NEW m \in 1 .. N PROVE new[m].start <= t[i].start
    <3>1. PICK p \in 1 .. i - 1 : t[p].start = out[m].start /\ t[p].label = out[m].label
      BY <1>1 DEF ComeFrom, ComesFrom
    <3>2. t[p].start <= t[i].start
      BY <1>4 DEF Monotone
    <3> QED
      BY <2>2, <3>1, <3>2
  <2>4. Monotone(new)
    <3> SUFFICES ASSUME NEW m \in 1 .. N + 1, NEW n \in 1 .. N + 1, m <= n PROVE new[m].start <= new[n].start
      BY <2>2 DEF Monotone
    <3>1. CASE n \in 1 .. N
      <4>1. m \in 1 .. N
        BY <3>1
      <4> QED
        BY <1>1, <2>2, <3>1, <4>1 DEF ComeFrom, Monotone
    <3>2. CASE n = N + 1 /\ m \in 1 .. N
      BY <2>2, <2>3, <3>2
    <3>3. CASE n = N + 1 /\ m = N + 1
      <4>1. new[m].start \in Int
        BY <1>2, <2>2, <3>3
      <4> QED
        BY <3>3, <4>1
    <3> QED
      BY <3>1, <3>2, <3>3
  <2>5. ASSUME NEW m \in 1 .. N PROVE ComesFrom(t, i, new, m)
    <3>1. PICK p \in 1 .. i - 1 : t[p].start = out[m].start /\ t[p].label = out[m].label
      BY <1>1 DEF ComeFrom, ComesFrom
    <3>2. PICK q \in 1 .. i - 1 : /\ t[q].end = out[m].end /\ t[q].label = out[m].label
                                  /\ \A n \in m + 1 .. N : t[q].start <= out[n].start
      BY <1>1 DEF ComeFrom, ComesFrom
    <3>3. t[q].start <= t[i].start
      BY <1>4 DEF Monotone
    <3>4. \A n \in m + 1 .. N + 1 : (n \in m + 1 .. N /\ n \in 1 .. N) \/ n = N + 1
      OBVIOUS
    <3>5. \A n \in m + 1 .. Len(new) : t[q].start <= new[n].start
      BY <2>2, <3>2, <3>3, <3>4
    <3> QED
      BY <1>4, <2>2, <3>1, <3>2, <3>5 DEF ComesFrom
  <2>6. ComesFrom(t, i, new, N + 1)
    <3>1. \A n \in N + 1 + 1 .. Len(new) : t[i].start <= new[n].start
      BY <2>2
    <3> QED
      BY <1>6, <2>2, <3>1 DEF ComesFrom
  <2> QED
    BY <1>5, <2>2, <2>4, <2>5, <2>6 DEF ComeFrom
<1> QED
  BY <1>7, <1>8

\* merge_adjacent merges neighbours only.
LEMMA MergedComeFrom ==
    ASSUME NEW t \in Seq(Turn), Monotone(t)
    PROVE  ComeFrom(t, Len(t), MergeAdjacent(t))
<1>1. PICK N \in Nat : N = Len(t)
  OBVIOUS
<1>2. PICK f : /\ f \in [0 .. N -> Seq(Turn)] /\ f[0] = <<>> /\ f[N] = MergeAdjacent(t)
               /\ \A i \in 1 .. N : f[i] = Merge(f[i - 1], t[i])
  BY <1>1, MergedSteps
<1> DEFINE Good == {i \in Nat : i <= N => ComeFrom(t, i, f[i])}
<1>3. 0 \in Good
  BY <1>2 DEF ComeFrom, Monotone
<1>4. ASSUME NEW i \in Nat, i \in Good PROVE i + 1 \in Good
  <2> SUFFICES ASSUME i + 1 <= N PROVE ComeFrom(t, i + 1, f[i + 1])
    OBVIOUS
  <2>1. PICK j \in 1 .. N : j = i + 1 /\ j - 1 = i
    OBVIOUS
  <2>2. ComeFrom(t, j - 1, f[j - 1]) /\ f[j - 1] \in Seq(Turn)
    BY <1>2, <1>4, <2>1
  <2>3. ComeFrom(t, j, Merge(f[j - 1], t[j]))
    BY <1>1, <2>1, <2>2, MergeComesFrom
  <2> QED
    BY <1>2, <2>1, <2>3
<1>5. Nat \subseteq Good
  <2> HIDE DEF Good
  <2> QED
    BY <1>3, <1>4, NumberInduction
<1> QED
  BY <1>1, <1>2, <1>5

\* One turn of t has the voice of m, and one of another voice shares time with m.
OverlappedIn(t, m) ==
    \E p, q \in 1 .. Len(t) : /\ t[p].label = m.label /\ t[q].label # m.label
                              /\ t[q].start < m.end /\ m.start < t[q].end

\* What talks across a merged turn is one turn that does so.
LEMMA OverlapsOneTurn ==
    ASSUME NEW t \in Seq(Turn), Monotone(t), NEW out \in Seq(Turn), ComeFrom(t, Len(t), out)
    PROVE  \A n, i \in 1 .. Len(out) : CrossTalk(out[n], out[i]) => OverlappedIn(t, out[n])
<1> SUFFICES ASSUME NEW n \in 1 .. Len(out), NEW i \in 1 .. Len(out), CrossTalk(out[n], out[i])
             PROVE  \E p, q \in 1 .. Len(t) : /\ t[p].label = out[n].label /\ t[q].label # out[n].label
                                              /\ t[q].start < out[n].end /\ out[n].start < t[q].end
  BY Zenon DEF OverlappedIn
<1>1. out[n] \in Turn /\ out[i] \in Turn
  OBVIOUS
<1>2. out[n].label # out[i].label /\ out[n].start < out[i].end /\ out[i].start < out[n].end
  BY <1>1, CrossTalkMeans
<1>3. PICK p \in 1 .. Len(t) : t[p].start = out[n].start /\ t[p].label = out[n].label
  BY DEF ComeFrom, ComesFrom
<1>4. i < n \/ n < i
  BY <1>2
<1>5. CASE i < n
  <2>1. PICK q \in 1 .. Len(t) : /\ t[q].end = out[i].end /\ t[q].label = out[i].label
                                 /\ \A m \in i + 1 .. Len(out) : t[q].start <= out[m].start
    BY DEF ComeFrom, ComesFrom
  <2>2. t[q].start <= out[n].start
    BY <1>5, <2>1
  <2>3. t[q] \in Turn
    OBVIOUS
  <2>4. /\ t[q].start \in Nat /\ out[n].start \in Nat /\ out[n].end \in Nat
        /\ out[n].start < out[n].end
    BY <1>1, <2>3, TurnTimes
  <2>5. t[q].start < out[n].end
    BY <2>2, <2>4
  <2> QED
    BY <1>2, <1>3, <2>1, <2>5
<1>6. CASE n < i
  <2>1. PICK q \in 1 .. Len(t) : t[q].start = out[i].start /\ t[q].label = out[i].label
    BY DEF ComeFrom, ComesFrom
  <2>2. out[n].start <= out[i].start
    BY <1>6 DEF ComeFrom, Monotone
  <2>3. t[q] \in Turn
    OBVIOUS
  <2>4. /\ t[q].start \in Nat /\ t[q].end \in Nat /\ out[n].start \in Nat
        /\ t[q].start < t[q].end
    BY <1>1, <2>3, TurnTimes
  <2>5. out[n].start <= t[q].start
    BY <2>1, <2>2
  <2>6. out[n].start < t[q].end
    BY <2>4, <2>5
  <2> QED
    BY <1>2, <1>3, <2>1, <2>6
<1> QED
  BY <1>4, <1>5, <1>6

\* What is picked is in the list, and what is to be picked is picked.
LEMMA PickedAreIn ==
    ASSUME NEW s \in Seq(Turn), NEW I \in SUBSET (DOMAIN s)
    PROVE  /\ Pick(s, I) \in Seq(Turn)
           /\ \A n \in DOMAIN Pick(s, I) : \E i \in I : Pick(s, I)[n] = s[i]
           /\ \A i \in I : \E n \in DOMAIN Pick(s, I) : Pick(s, I)[n] = s[i]
<1>1. PICK r : r = Pick(s, I)
  OBVIOUS
<1>2. r \in Seq(Turn)
  BY <1>1, Picked
<1>3. PICK p : Arranges(p, I, s, r)
  BY <1>1, Picked
<1>4. DOMAIN r = 1 .. Len(r)
  BY <1>3 DEF Arranges
<1>5. \A n \in DOMAIN r : \E i \in I : r[n] = s[i]
  BY <1>3, <1>4 DEF Arranges
<1>6. \A i \in I : \E n \in DOMAIN r : r[n] = s[i]
  BY <1>3, <1>4 DEF Arranges
<1> QED
  BY <1>1, <1>2, <1>5, <1>6

\* So it is with the long turns of a list, and with the short ones.
LEMMA ByLengthAreIn ==
    ASSUME NEW s \in Seq(Turn)
    PROVE  /\ \A n \in DOMAIN LongTurns(s) : \E i \in DOMAIN s : LongTurns(s)[n] = s[i] /\ Length(s[i]) >= MinTurn
           /\ \A i \in DOMAIN s : Length(s[i]) >= MinTurn => \E n \in DOMAIN LongTurns(s) : LongTurns(s)[n] = s[i]
           /\ \A i \in DOMAIN s : Length(s[i]) < MinTurn => \E n \in DOMAIN ShortTurns(s) : ShortTurns(s)[n] = s[i]
<1>1. PICK I \in SUBSET (DOMAIN s) : I = {n \in DOMAIN s : Length(s[n]) >= MinTurn}
  OBVIOUS
<1>2. PICK J \in SUBSET (DOMAIN s) : J = {n \in DOMAIN s : Length(s[n]) < MinTurn}
  OBVIOUS
<1>3. LongTurns(s) = Pick(s, I) /\ ShortTurns(s) = Pick(s, J)
  BY <1>1, <1>2 DEF LongTurns, ShortTurns
<1>4. /\ \A n \in DOMAIN Pick(s, I) : \E i \in I : Pick(s, I)[n] = s[i]
      /\ \A i \in I : \E n \in DOMAIN Pick(s, I) : Pick(s, I)[n] = s[i]
  BY PickedAreIn
<1>5. \A i \in J : \E n \in DOMAIN Pick(s, J) : Pick(s, J)[n] = s[i]
  BY PickedAreIn
<1>6. ASSUME NEW n \in DOMAIN LongTurns(s)
      PROVE  \E i \in DOMAIN s : LongTurns(s)[n] = s[i] /\ Length(s[i]) >= MinTurn
  <2>1. PICK i \in I : LongTurns(s)[n] = s[i]
    BY <1>3, <1>4
  <2>2. i \in DOMAIN s /\ Length(s[i]) >= MinTurn
    BY <1>1
  <2> QED
    BY <2>1, <2>2
<1>7. ASSUME NEW i \in DOMAIN s, Length(s[i]) >= MinTurn
      PROVE  \E n \in DOMAIN LongTurns(s) : LongTurns(s)[n] = s[i]
  <2>1. i \in I
    BY <1>1, <1>7
  <2> QED
    BY <1>3, <1>4, <2>1
<1>8. ASSUME NEW i \in DOMAIN s, Length(s[i]) < MinTurn
      PROVE  \E n \in DOMAIN ShortTurns(s) : ShortTurns(s)[n] = s[i]
  <2>1. i \in J
    BY <1>2, <1>8
  <2> QED
    BY <1>3, <1>5, <2>1
<1> QED
  BY <1>6, <1>7, <1>8

\* Sorting by start keeps every turn and adds none.
LEMMA SortedAreIn ==
    ASSUME NEW s \in Seq(Turn)
    PROVE  /\ \A n \in DOMAIN ByStart(s) : \E i \in DOMAIN s : ByStart(s)[n] = s[i]
           /\ \A i \in DOMAIN s : \E n \in DOMAIN ByStart(s) : ByStart(s)[n] = s[i]
<1>1. PICK r : r = ByStart(s)
  OBVIOUS
<1>2. PICK p : Arranges(p, DOMAIN s, s, r)
  BY <1>1, ByStartSorts
<1>3. DOMAIN r = 1 .. Len(r)
  BY <1>2 DEF Arranges
<1>4. \A n \in DOMAIN r : \E i \in DOMAIN s : r[n] = s[i]
  BY <1>2, <1>3 DEF Arranges
<1>5. \A i \in DOMAIN s : \E n \in DOMAIN r : r[n] = s[i]
  BY <1>2, <1>3 DEF Arranges
<1> QED
  BY <1>1, <1>4, <1>5

\* What is left after the phantoms went are long turns of the diarizer's.
LEMMA KeptAreLong ==
    ASSUME NEW raw \in Seq(Turn)
    PROVE  /\ DropOnsetPhantoms(LongTurns(ByStart(raw))) \in Seq(Turn)
           /\ Monotone(DropOnsetPhantoms(LongTurns(ByStart(raw))))
           /\ \A n \in DOMAIN DropOnsetPhantoms(LongTurns(ByStart(raw))) :
                 \E a \in DOMAIN LongTurns(raw) : DropOnsetPhantoms(LongTurns(ByStart(raw)))[n] = LongTurns(raw)[a]
<1>1. PICK turns \in Seq(Turn) : turns = ByStart(raw) /\ Monotone(turns)
  BY ByStartSorts
<1>2. PICK I \in SUBSET (DOMAIN turns) : I = {n \in DOMAIN turns : Length(turns[n]) >= MinTurn}
  OBVIOUS
<1>3. PICK long \in Seq(Turn) : long = LongTurns(turns) /\ long = Pick(turns, I) /\ Monotone(long)
  BY <1>1, <1>2, PickedInOrder DEF LongTurns
<1>4. PICK J \in SUBSET (DOMAIN long) : J = {i \in DOMAIN long : ~\E j \in Scanned(long, i) : MuchLonger(long[j], long[i])}
  OBVIOUS
<1>5. PICK kept \in Seq(Turn) : kept = DropOnsetPhantoms(long) /\ kept = Pick(long, J) /\ Monotone(kept)
  BY <1>3, <1>4, PickedInOrder DEF DropOnsetPhantoms
<1>6. ASSUME NEW n \in DOMAIN kept PROVE \E a \in DOMAIN LongTurns(raw) : kept[n] = LongTurns(raw)[a]
  <2>1. PICK j \in DOMAIN long : kept[n] = long[j]
    BY <1>5, PickedAreIn
  <2>2. PICK k \in I : long[j] = turns[k]
    BY <1>3, PickedAreIn
  <2>3. PICK i \in DOMAIN raw : turns[k] = raw[i]
    BY <1>1, SortedAreIn
  <2>4. Length(raw[i]) >= MinTurn
    BY <1>2, <2>3
  <2>5. \E a \in DOMAIN LongTurns(raw) : LongTurns(raw)[a] = raw[i]
    BY <2>4, ByLengthAreIn
  <2> QED
    BY <2>1, <2>2, <2>3, <2>5
<1> QED
  BY <1>1, <1>3, <1>5, <1>6

\* A time snaps to a time.
LEMMA SnapsToATime ==
    ASSUME NEW x \in Nat, NEW edges \in SUBSET (0 .. Horizon) PROVE Nearest(x, edges) \in Int
<1>1. PICK s : s = Nearest(x, edges)
  OBVIOUS
<1>2. CASE s = x
  BY <1>1, <1>2
<1>3. CASE s # x
  <2>1. s \in edges
    BY <1>1, <1>3, SnapsNearby
  <2>2. s \in 0 .. Horizon
    BY <2>1
  <2> QED
    BY <1>1, <2>2, AlgorithmsConstants
<1> QED
  BY <1>2, <1>3

\* Each turn that is marked has one of its voice in kept, and one of another near it.
MarkedForOthers(kept, snapped) ==
    \A n \in DOMAIN snapped : snapped[n].is_overlap =>
       \E p, q \in DOMAIN kept : /\ kept[p].label = snapped[n].label /\ kept[q].label # snapped[n].label
                                 /\ kept[q].start < snapped[n].end + SnapTol
                                 /\ kept[q].end > snapped[n].start - SnapTol

\* A long turn is marked only for what a long turn of another voice shares with it.
LEMMA MarkedByLongTurns ==
    ASSUME NEW kept \in Seq(Turn), Monotone(kept), NEW edges \in SUBSET (0 .. Horizon)
    PROVE  MarkedForOthers(kept, SnapToVad(AnnotateOverlaps(MergeAdjacent(kept)), edges))
<1>1. PICK snapped : snapped = SnapToVad(AnnotateOverlaps(MergeAdjacent(kept)), edges)
  OBVIOUS
<1> SUFFICES ASSUME NEW n \in DOMAIN snapped
             PROVE  snapped[n].is_overlap =>
                      \E p, q \in DOMAIN kept :
                         /\ kept[p].label = snapped[n].label /\ kept[q].label # snapped[n].label
                         /\ kept[q].start < snapped[n].end + SnapTol
                         /\ kept[q].end > snapped[n].start - SnapTol
  BY <1>1, Zenon DEF MarkedForOthers
<1>2. PICK out \in Seq(Turn) : out = MergeAdjacent(kept) /\ ComeFrom(kept, Len(kept), out)
  BY MergeTyped, MergedComeFrom
<1>3. PICK marked \in Seq(Turn) : marked = AnnotateOverlaps(out)
  BY AnnotateTyped
<1>4. PICK N \in Nat : N = Len(out) /\ DOMAIN out = 1 .. N
  OBVIOUS
<1>5. Len(marked) = N
  BY <1>3, <1>4, AnnotateTyped
<1>6. snapped \in Seq(Turn) /\ Len(snapped) = N
  BY <1>1, <1>2, <1>3, <1>5, SnapTyped
<1>7. n \in 1 .. N
  BY <1>6
<1>8. marked[n].start = out[n].start /\ marked[n].end = out[n].end /\ marked[n].label = out[n].label
  BY <1>3, <1>4, <1>7, AnnotateTyped
<1>9. /\ snapped[n].label = marked[n].label /\ snapped[n].is_overlap = marked[n].is_overlap
      /\ snapped[n].start = Nearest(marked[n].start, edges)
      /\ snapped[n].end = IF Nearest(marked[n].end, edges) <= snapped[n].start THEN snapped[n].start + 1
                          ELSE Nearest(marked[n].end, edges)
  BY <1>1, <1>2, <1>3, <1>5, <1>7, SnapTyped
<1>10. ASSUME snapped[n].is_overlap PROVE \E i \in 1 .. N : CrossTalk(out[n], out[i])
  <2>1. marked[n].is_overlap
    BY <1>9, <1>10
  <2>2. marked[n].is_overlap = \E j \in DOMAIN out : CrossTalk(out[n], out[j])
    BY <1>2, <1>3, <1>4, <1>7, MarksEveryOverlap DEF ComeFrom
  <2> QED
    BY <1>4, <2>1, <2>2
<1>11. ASSUME NEW i \in 1 .. N, CrossTalk(out[n], out[i])
       PROVE  \E p, q \in DOMAIN kept : /\ kept[p].label = snapped[n].label /\ kept[q].label # snapped[n].label
                                        /\ kept[q].start < snapped[n].end + SnapTol
                                        /\ kept[q].end > snapped[n].start - SnapTol
  <2>1. PICK p, q \in 1 .. Len(kept) :
           /\ kept[p].label = out[n].label /\ kept[q].label # out[n].label
           /\ kept[q].start < out[n].end /\ out[n].start < kept[q].end
    <3>1. \A m, j \in 1 .. N : CrossTalk(out[m], out[j]) => OverlappedIn(kept, out[m])
      BY <1>2, <1>4, OverlapsOneTurn
    <3>2. OverlappedIn(kept, out[n])
      BY <1>7, <1>11, <3>1
    <3> QED
      BY <3>2, Zenon DEF OverlappedIn
  <2>2. PICK x, y : x = out[n].start /\ y = out[n].end /\ x \in Nat /\ y \in Nat
    <3>1. out[n] \in Turn
      BY <1>4, <1>7
    <3> QED
      BY <3>1, TurnTimes
  <2>3. PICK c, d : c = kept[q].start /\ d = kept[q].end /\ c \in Nat /\ d \in Nat
    <3>1. kept[q] \in Turn
      OBVIOUS
    <3> QED
      BY <3>1, TurnTimes
  <2>4. c < y /\ x < d
    BY <2>1, <2>2, <2>3
  <2>5. PICK a, b : a = snapped[n].start /\ b = snapped[n].end
    OBVIOUS
  <2>6. PICK e : e = Nearest(y, edges)
    OBVIOUS
  <2>7. a = Nearest(x, edges) /\ b = IF e <= a THEN a + 1 ELSE e
    BY <1>8, <1>9, <2>2, <2>5, <2>6
  <2>8. a \in Int /\ e \in Int
    BY <2>2, <2>6, <2>7, SnapsToATime, Zenon
  <2>9. a <= x + SnapTol /\ y - SnapTol <= e
    BY <2>2, <2>6, <2>7, SnapsNearby, Zenon
  <2>10. PICK T \in Nat : T = SnapTol
    BY TurnsConstants
  <2>11. c < b + SnapTol /\ d > a - SnapTol
    <3>1. a <= x + T /\ y - T <= e
      BY <2>9, <2>10
    <3>2. b \in Int /\ e <= b
      BY <2>7, <2>8
    <3>3. x \in Nat /\ y \in Nat /\ c \in Nat /\ d \in Nat /\ a \in Int
      BY <2>2, <2>3, <2>8
    <3>4. c < b + T /\ d > a - T
      BY <2>4, <2>8, <3>1, <3>2, <3>3
    <3> QED
      BY <2>10, <3>4
  <2>12. p \in DOMAIN kept /\ q \in DOMAIN kept
    OBVIOUS
  <2> QED
    BY <1>8, <1>9, <2>1, <2>3, <2>5, <2>11, <2>12
<1> QED
  BY <1>10, <1>11, Zenon

-----------------------------------------------------------------------------
(* The behaviours of ClipAlgorithms.                                       *)

\* Each stage has computed what it does of an input that the stage before can hand over.
Cleaned(turns) == \E raw \in RawTurns, edges \in Edges : turns = CleanTurns(raw, edges)

Computed ==
    /\ stage = "pack" => given \in Vads /\ made = PackWindows(given)
    /\ stage = "decode" =>
          \E vad \in Vads : LET windows == PackWindows(vad) IN
             \E again \in SUBSET DOMAIN windows, first \in SUBSET WordsOf(windows, "first") :
                /\ given = [windows |-> windows, again |-> again, first |-> first]
                /\ made = Redecode(first, Pick(windows, again), {w \in WordsOf(windows, "again") : w.window \in again})
    /\ stage = "pieces" => given \in Intervals /\ made = Pieces(given[1], given[2])
    /\ stage = "batch" => given \in BoundedSeq(1 .. Budget + 1, MaxRows) /\ made = Groups(given)
    /\ stage = "clean" =>
          \E raw \in RawTurns, edges \in Edges :
             given = [raw |-> raw, edges |-> edges] /\ made = CleanTurns(raw, edges)
    /\ stage = "count" => Cleaned(given) /\ made = CountInterruptions(given)
    /\ stage = "reconcile" =>
          \E turns, words : /\ Cleaned(turns) /\ Len(turns) > 0 /\ words \in WordSeqs
                            /\ given = [turns |-> turns, words |-> AssignWords(words, turns)]
                            /\ made = Regroup(Smooth(AssignWords(words, turns)))

\* It is never anything else.
LEMMA AlwaysComputed == Spec => []Computed
<1>1. Init => Computed
  BY DEF Init, Computed
<1>2. Computed /\ [Next]_vars => Computed'
  <2> SUFFICES ASSUME Computed, [Next]_vars PROVE Computed'
    OBVIOUS
  <2>1. CASE Pack
    BY <2>1 DEF Pack, Ran, Computed
  <2>2. CASE DecodeAgain
    <3>1. PICK vad \in Vads : \E again \in SUBSET DOMAIN PackWindows(vad),
                                 first \in SUBSET {w \in WordsOf(PackWindows(vad), "first") : w.start \in FirstTicks} :
             Ran("decode", [windows |-> PackWindows(vad), again |-> again, first |-> first],
                 Redecode(first, Pick(PackWindows(vad), again), {w \in WordsOf(PackWindows(vad), "again") : w.window \in again}))
      BY <2>2 DEF DecodeAgain
    <3>2. PICK windows : windows = PackWindows(vad)
      OBVIOUS
    <3>3. PICK again \in SUBSET DOMAIN windows, first \in SUBSET WordsOf(windows, "first") :
             Ran("decode", [windows |-> windows, again |-> again, first |-> first],
                 Redecode(first, Pick(windows, again), {w \in WordsOf(windows, "again") : w.window \in again}))
      BY <3>1, <3>2
    <3>4. /\ stage' = "decode" /\ given' = [windows |-> windows, again |-> again, first |-> first]
          /\ made' = Redecode(first, Pick(windows, again), {w \in WordsOf(windows, "again") : w.window \in again})
      BY <3>3 DEF Ran
    <3> QED
      BY <3>2, <3>4 DEF Computed
  <2>3. CASE CutPieces
    BY <2>3 DEF CutPieces, Ran, Computed
  <2>4. CASE Batch
    BY <2>4 DEF Batch, Ran, Computed
  <2>5. CASE Clean
    BY <2>5 DEF Clean, Ran, Computed
  <2>6. CASE Tidy
    BY <2>6 DEF Tidy, Ran, Computed
  <2>7. CASE Count
    BY <2>7 DEF Count, Ran, Computed, Cleaned
  <2>8. CASE Reconcile
    <3>1. Cleaned(made) /\ Len(made) > 0
      BY <2>8 DEF Reconcile, Computed, Cleaned
    <3> QED
      BY <2>8, <3>1 DEF Reconcile, Ran, Computed
  <2>9. CASE Rest
    BY <2>9 DEF Rest, Computed
  <2>10. CASE UNCHANGED vars
    BY <2>10 DEF vars, Computed, Cleaned
  <2> QED
    BY <2>1, <2>2, <2>3, <2>4, <2>5, <2>6, <2>7, <2>8, <2>9, <2>10 DEF Next
<1> QED
  BY <1>1, <1>2, PTL DEF Spec

\* What the diarizer yields are turns in order, and so is what is left of them.
LEMMA CleanedAreTurns ==
    /\ \A raw \in RawTurns : raw \in Seq(Turn) /\ Monotone(raw)
    /\ \A turns : Cleaned(turns) => turns \in Seq(Turn) /\ Monotone(turns)
<1>1. Horizon \in Nat /\ Edges \in SUBSET (SUBSET (0 .. Horizon))
  BY AlgorithmsConstants
<1>2. Raw \in SUBSET Turn
  <2> SUFFICES ASSUME NEW v \in Intervals, NEW l \in Voices
               PROVE  [start |-> v[1], end |-> v[2], label |-> l, is_overlap |-> FALSE, too_short |-> FALSE] \in Turn
    BY DEF Raw
  <2>1. v[1] \in 0 .. Horizon /\ v[2] \in 0 .. Horizon + 1 /\ v[1] < v[2]
    BY <1>1 DEF Intervals
  <2> QED
    BY <2>1 DEF Turn
<1>3. ASSUME NEW raw \in RawTurns PROVE raw \in Seq(Turn) /\ Monotone(raw)
  <2>1. PICK m \in 0 .. MaxTurns : raw \in [1 .. m -> Raw]
    BY DEF RawTurns, BoundedSeq, SeqOf
  <2>2. raw \in [1 .. m -> Turn] /\ m \in Nat
    BY <1>2, <2>1, AlgorithmsConstants
  <2>3. raw \in Seq(Turn)
    BY <2>2
  <2>4. InOrder(raw)
    BY DEF RawTurns
  <2> QED
    BY <2>3, <2>4, OrderIsMonotone
<1>4. ASSUME NEW raw \in RawTurns, NEW edges \in Edges
      PROVE  CleanTurns(raw, edges) \in Seq(Turn) /\ Monotone(CleanTurns(raw, edges))
  <2>1. edges \in SUBSET (0 .. Horizon)
    BY <1>1
  <2> QED
    BY <1>3, <2>1, CleanTyped
<1> QED
  BY <1>3, <1>4 DEF Cleaned

\* drop_onset_phantoms, annotate_overlaps and count_interruptions_all scan a
\* moving window of an ordered list and stop early: for any list of turns they
\* drop, mark and count what comparing every two turns would.
THEOREM ScansMissNothing == Spec => []ScansAreExhaustive
<1>1. Computed => ScansAreExhaustive
  <2> SUFFICES ASSUME Computed PROVE ScansAreExhaustive
    OBVIOUS
  <2>1. ASSUME stage = "clean"
        PROVE  LET t == given.raw IN
               /\ DropOnsetPhantoms(t) =
                     Pick(t, {i \in DOMAIN t : ~\E j \in DOMAIN t : Abs(t[i].start - t[j].start) <= StartTol /\ MuchLonger(t[j], t[i])})
               /\ \A i \in DOMAIN t : AnnotateOverlaps(t)[i].is_overlap = (\E j \in DOMAIN t : CrossTalk(t[i], t[j]))
    <3>1. PICK t \in RawTurns : t = given.raw
      BY <2>1 DEF Computed
    <3>2. t \in Seq(Turn) /\ Monotone(t) /\ DOMAIN t = 1 .. Len(t)
      BY CleanedAreTurns
    <3> QED
      BY <3>1, <3>2, DropsEveryPhantom, MarksEveryOverlap
  <2>2. ASSUME stage = "count", NEW l \in Labels(given)
        PROVE  made[l] = Cardinality({i \in DOMAIN given : given[i].label = l /\
                           \E j \in DOMAIN given : CrossTalk(given[i], given[j]) /\ given[j].start < given[i].start})
    <3>1. given \in Seq(Turn) /\ made = CountInterruptions(given)
      BY <2>2, CleanedAreTurns DEF Computed
    <3> QED
      BY <3>1, CountsEveryInterruption
  <2> QED
    BY <2>1, <2>2 DEF ScansAreExhaustive
<1> QED
  BY <1>1, AlwaysComputed, PTL

\* clean_turns sets the short turns aside, so that they disqualify nobody: for
\* any turns and any edges of speech every short turn is kept as it was, and a
\* long turn is marked only for a long turn of another voice.
THEOREM ShortTurnsDisqualifyNobody == Spec => []ShortTurnsStayApart
<1>1. ASSUME NEW raw \in RawTurns, NEW edges \in Edges, NEW out, out = CleanTurns(raw, edges)
      PROVE  /\ \A i \in DOMAIN raw : Length(raw[i]) < MinTurn =>
                   \E o \in ToSet(out) : /\ o.too_short /\ o.label = raw[i].label
                                         /\ o.start = raw[i].start /\ o.end = raw[i].end
             /\ \A o \in ToSet(out) : o.is_overlap /\ ~o.too_short =>
                   \E a, b \in ToSet(LongTurns(raw)) : /\ a.label = o.label /\ b.label # o.label
                                                       /\ b.start < o.end + SnapTol /\ b.end > o.start - SnapTol
             /\ InOrder(out)
  <2>1. raw \in Seq(Turn) /\ edges \in SUBSET (0 .. Horizon)
    BY CleanedAreTurns, AlgorithmsConstants
  <2>2. PICK turns \in Seq(Turn) : turns = ByStart(raw)
    BY <2>1, ByStartSorts
  <2>3. PICK kept \in Seq(Turn) : kept = DropOnsetPhantoms(LongTurns(turns)) /\ Monotone(kept)
    BY <2>1, <2>2, KeptAreLong
  <2>4. PICK snapped \in Seq(Turn) : snapped = SnapToVad(AnnotateOverlaps(MergeAdjacent(kept)), edges)
    BY <2>1, MergeTyped, AnnotateTyped, SnapTyped
  <2>5. PICK long \in Seq(Turn) : long = LongTurns(snapped)
    BY PickedByLength
  <2>6. PICK short \in Seq(Turn) : short = ShortTurns(turns)
    BY PickedByLength
  <2>7. PICK back \in Seq(Turn) : back = Interjections(short, long) /\ Len(back) = Len(short)
    <3>1. Interjections(short, long) \in Seq(Turn) /\ Len(Interjections(short, long)) = Len(short)
      BY InterjectionsTyped
    <3> QED
      BY <3>1
  <2>8. PICK all \in Seq(Turn) : all = long \o back
    <3>1. long \o back \in Seq(Turn)
      BY <2>5, <2>7
    <3> QED
      BY <3>1
  <2>9. out = ByStart(all)
    BY <1>1, <2>2, <2>3, <2>4, <2>5, <2>6, <2>7, <2>8 DEF CleanTurns
  <2>10. \A n \in DOMAIN short : /\ back[n].start = short[n].start /\ back[n].end = short[n].end
                                 /\ back[n].label = short[n].label /\ back[n].too_short = TRUE
    <3>1. \A n \in 1 .. Len(short) : LET a == Interjections(short, long)[n] IN
             a.start = short[n].start /\ a.end = short[n].end /\ a.label = short[n].label /\ a.too_short = TRUE
      BY InterjectionsTyped
    <3>2. DOMAIN short = 1 .. Len(short)
      OBVIOUS
    <3> QED
      BY <2>7, <3>1, <3>2
  <2>11. out \in Seq(Turn) /\ Monotone(out)
    BY <2>9, ByStartSorts
  <2>12. InOrder(out)
    <3>1. Len(out) \in Nat
      BY <2>11
    <3>2. \A n \in 1 .. Len(out) - 1 : n \in 1 .. Len(out) /\ n + 1 \in 1 .. Len(out) /\ n <= n + 1
      BY <3>1
    <3> QED
      BY <2>11, <3>2 DEF InOrder, Monotone
  <2>13. ASSUME NEW i \in DOMAIN raw, Length(raw[i]) < MinTurn
         PROVE  \E o \in ToSet(out) : /\ o.too_short /\ o.label = raw[i].label
                                      /\ o.start = raw[i].start /\ o.end = raw[i].end
    <3>1. PICK k \in DOMAIN turns : turns[k] = raw[i]
      BY <2>1, <2>2, SortedAreIn
    <3>2. Length(turns[k]) < MinTurn
      BY <2>13, <3>1
    <3>3. PICK n \in DOMAIN short : short[n] = turns[k]
      BY <2>6, <3>2, ByLengthAreIn
    <3>4. Len(long) + n \in DOMAIN all /\ all[Len(long) + n] = back[n]
      BY <2>7, <2>8
    <3>5. PICK m \in DOMAIN out : out[m] = all[Len(long) + n]
      BY <2>9, <3>4, SortedAreIn
    <3>6. out[m] \in ToSet(out)
      BY DEF ToSet
    <3> QED
      BY <2>10, <3>1, <3>3, <3>4, <3>5, <3>6
  <2>14. \A n \in DOMAIN snapped : snapped[n].is_overlap =>
            \E p, q \in DOMAIN kept : /\ kept[p].label = snapped[n].label /\ kept[q].label # snapped[n].label
                                      /\ kept[q].start < snapped[n].end + SnapTol
                                      /\ kept[q].end > snapped[n].start - SnapTol
    <3>1. kept \in Seq(Turn) /\ Monotone(kept) /\ edges \in SUBSET (0 .. Horizon)
      BY <2>1, <2>3
    <3>2. MarkedForOthers(kept, snapped)
      BY <2>4, <3>1, MarkedByLongTurns
    <3> QED
      BY <3>2, Zenon DEF MarkedForOthers
  <2>15. ASSUME NEW o \in ToSet(out), o.is_overlap, ~o.too_short
         PROVE  \E a, b \in ToSet(LongTurns(raw)) : /\ a.label = o.label /\ b.label # o.label
                                                    /\ b.start < o.end + SnapTol /\ b.end > o.start - SnapTol
    <3>1. PICK m \in DOMAIN out : o = out[m]
      BY DEF ToSet
    <3>2. PICK k \in DOMAIN all : o = all[k]
      BY <2>9, <3>1, SortedAreIn
    <3>3. k \in DOMAIN long
      <4>1. k \in DOMAIN long \/ k - Len(long) \in DOMAIN back
        BY <2>8
      <4>2. ASSUME k - Len(long) \in DOMAIN back, k \notin DOMAIN long PROVE FALSE
        <5>1. all[k] = back[k - Len(long)]
          BY <2>8, <4>2
        <5>2. k - Len(long) \in DOMAIN short
          BY <2>7, <4>2
        <5> QED
          BY <2>10, <2>15, <3>2, <5>1, <5>2
      <4> QED
        BY <4>1, <4>2
    <3>4. o = long[k]
      BY <2>8, <3>2, <3>3
    <3>5. PICK n \in DOMAIN snapped : o = snapped[n]
      BY <2>5, <3>3, <3>4, ByLengthAreIn
    <3>6. PICK p, q \in DOMAIN kept :
             /\ kept[p].label = o.label /\ kept[q].label # o.label
             /\ kept[q].start < o.end + SnapTol /\ kept[q].end > o.start - SnapTol
      BY <2>14, <2>15, <3>5, Zenon
    <3>7. \A i \in DOMAIN kept : kept[i] \in ToSet(LongTurns(raw))
      BY <2>1, <2>2, <2>3, KeptAreLong DEF ToSet
    <3> QED
      BY <3>6, <3>7
  <2> QED
    BY <2>12, <2>13, <2>15
<1>2. Computed => ShortTurnsStayApart
  <2> SUFFICES ASSUME Computed, stage = "clean" PROVE ShortTurnsStayApart
    BY DEF ShortTurnsStayApart
  <2>1. PICK raw \in RawTurns, edges \in Edges :
           given = [raw |-> raw, edges |-> edges] /\ made = CleanTurns(raw, edges)
    BY DEF Computed
  <2>2. given.raw = raw
    BY <2>1
  <2>3. PICK out : out = made /\ out = CleanTurns(raw, edges)
    BY <2>1
  <2> QED
    BY <1>1, <2>2, <2>3 DEF ShortTurnsStayApart
<1> QED
  BY <1>2, AlwaysComputed, PTL

\* assign_words carries a window along the words; smooth and regroup go word by
\* word: for any words and turns, each word goes to the turn it shares most time
\* with, is smoothed over only between two of its new speaker's, and the lines
\* are the words, in order, of one speaker each.
THEOREM WordsFollowTheVoices == Spec => []WordsGoToTheirSpeaker
<1>1. Computed => WordsGoToTheirSpeaker
  <2> SUFFICES ASSUME Computed, stage = "reconcile" PROVE WordsGoToTheirSpeaker
    BY DEF WordsGoToTheirSpeaker
  <2>1. PICK turns, words :
           /\ Cleaned(turns) /\ words \in WordSeqs
           /\ given = [turns |-> turns, words |-> AssignWords(words, turns)]
           /\ made = Regroup(Smooth(AssignWords(words, turns)))
    BY DEF Computed
  <2>2. turns \in Seq(Turn) /\ Monotone(turns) /\ words \in Seq(Word) /\ WordsInOrder(words)
    BY <2>1, CleanedAreTurns, WordsInOrderAre
  <2>3. PICK assigned : assigned = AssignWords(words, turns)
    OBVIOUS
  <2>4. PICK n \in Nat : n = Len(words)
    BY <2>2
  <2>5. DOMAIN assigned = 1 .. n /\ Len(assigned) = n
    <3>1. PICK K, T : assigned \in Seq(Assigned(K, T))
      BY <2>2, <2>3, AssignedTyped
    <3>2. Len(assigned) = n
      BY <2>2, <2>3, <2>4, AssignedTyped
    <3> QED
      BY <3>1, <3>2
  <2>6. \A i \in 1 .. n : assigned[i].start = words[i].start /\ assigned[i].end = words[i].end
    BY <2>2, <2>3, <2>4, AssignedTyped
  <2>7. PICK smooth : smooth = Smooth(assigned)
    OBVIOUS
  <2>8. PICK L, S : made \in Seq(Seq(Assigned(L, S)))
    BY <2>1, <2>2, ReconciledAreWhole
  <2>9. FlattenSeq(made) = smooth /\ OneVoiceEach(made) /\ Len(smooth) = n /\ SmoothedOver(smooth, assigned)
    BY <2>1, <2>2, <2>3, <2>4, <2>7, ReconciledAreWhole
  <2>10. given.turns = turns /\ given.words = assigned
    BY <2>1, <2>3
  <2>11. ASSUME NEW i \in 1 .. n
         PROVE  LET w == given.words[i]
                    most == Max({0} \cup {Shared(w, given.turns[j]) : j \in DOMAIN given.turns})
                    first == SelectInSeq(given.turns, LAMBDA t : Shared(w, t) = most)
                IN w.shared = most /\ (most > 0 => w.label = given.turns[first].label)
    <3>1. PICK a, u : a = given.words[i] /\ u = given.turns
      OBVIOUS
    <3>2. MostShared(a, turns) = MostShared(words[i], turns) /\ FirstWithMost(a, turns) = FirstWithMost(words[i], turns)
      BY <2>6, <2>10, <3>1, SameTimesShareTheSame
    <3>3. /\ a.shared = MostShared(words[i], turns)
          /\ MostShared(words[i], turns) > 0 => a.label = turns[FirstWithMost(words[i], turns)].label
      BY <2>2, <2>3, <2>4, <2>10, <3>1, AssignedToTheMost
    <3>4. a.shared = MostShared(a, u) /\ (MostShared(a, u) > 0 => a.label = u[FirstWithMost(a, u)].label)
      BY <2>10, <3>1, <3>2, <3>3
    <3>5. LET most == Max({0} \cup {Shared(a, u[j]) : j \in DOMAIN u})
              first == SelectInSeq(u, LAMBDA t : Shared(a, t) = most)
          IN a.shared = most /\ (most > 0 => a.label = u[first].label)
      BY <3>4, Zenon DEF MostShared, FirstWithMost, SelectInSeq
    <3> QED
      BY <3>1, <3>5, Zenon DEF SelectInSeq
  <2>12. ASSUME NEW i \in 1 .. n
         PROVE  /\ smooth[i].start = assigned[i].start
                /\ smooth[i].smoothed => smooth[i - 1].label = smooth[i].label /\ smooth[i + 1].label = smooth[i].label
                /\ ~smooth[i].smoothed => smooth[i].label = assigned[i].label
    BY <2>5, <2>9 DEF SmoothedOver
  <2>13. ASSUME NEW m \in DOMAIN made PROVE Cardinality(Labels(made[m])) = 1
    BY <2>8, <2>9, OneLabelEach
  <2>14. DOMAIN smooth = 1 .. n
    <3>1. \E K, T : smooth \in Seq(Assigned(K, T))
      <4>1. PICK K, T : assigned \in Seq(Assigned(K, T))
        BY <2>2, <2>3, AssignedTyped
      <4>2. \A i \in DOMAIN assigned : ~assigned[i].smoothed
        BY <2>2, <2>3, <2>4, <2>5, AssignedTyped
      <4> QED
        BY <2>7, <4>1, <4>2, SmoothIsSmooth
    <3> QED
      BY <2>9, <3>1
  <2>15. DOMAIN given.words = 1 .. n /\ DOMAIN FlattenSeq(made) = 1 .. n
    BY <2>5, <2>9, <2>10, <2>14
  <2>16. Len(FlattenSeq(made)) = Len(given.words)
    BY <2>5, <2>9, <2>10
  <2>17. \A i \in DOMAIN FlattenSeq(made) :
            /\ FlattenSeq(made)[i].start = given.words[i].start
            /\ FlattenSeq(made)[i].smoothed => /\ FlattenSeq(made)[i - 1].label = FlattenSeq(made)[i].label
                                               /\ FlattenSeq(made)[i + 1].label = FlattenSeq(made)[i].label
            /\ ~FlattenSeq(made)[i].smoothed => FlattenSeq(made)[i].label = given.words[i].label
    BY <2>9, <2>10, <2>12, <2>15
  <2> QED
    BY <2>11, <2>13, <2>15, <2>16, <2>17, Zenon DEF WordsGoToTheirSpeaker
<1> QED
  BY <1>1, AlwaysComputed, PTL

\* What the voice detector finds is regions in order, with pauses between.
LEMMA VadsAre ==
    \A vad \in Vads : /\ vad \in Seq(Int \X Int) /\ \A n \in 1 .. Len(vad) : vad[n][1] < vad[n][2]
                      /\ \A n \in 1 .. Len(vad) - 1 : vad[n][2] < vad[n + 1][1]
<1> SUFFICES ASSUME NEW vad \in Vads
             PROVE  /\ vad \in Seq(Int \X Int) /\ \A n \in 1 .. Len(vad) : vad[n][1] < vad[n][2]
                    /\ \A n \in 1 .. Len(vad) - 1 : vad[n][2] < vad[n + 1][1]
  OBVIOUS
<1>1. PICK m \in 0 .. (Horizon + 1) \div 2 : vad \in [1 .. m -> Intervals]
  BY DEF Vads, BoundedSeq, SeqOf
<1>2. \A v \in Intervals : v \in Int \X Int /\ v[1] < v[2]
  BY AlgorithmsConstants DEF Intervals
<1>3. vad \in [1 .. m -> Int \X Int] /\ \A n \in 1 .. m : vad[n][1] < vad[n][2]
  BY <1>1, <1>2
<1>4. m \in Nat
  OBVIOUS
<1>5. PICK X : X = Int \X Int
  OBVIOUS
<1>6. vad \in Seq(X) /\ Len(vad) = m
  BY <1>3, <1>4, <1>5
<1>7. \A n \in 1 .. Len(vad) - 1 : vad[n][2] < vad[n + 1][1]
  BY DEF Vads
<1> QED
  BY <1>3, <1>5, <1>6, <1>7

\* The windows hold every region within the decoder's length, and a second
\* decoding replaces the words of its windows and no others but those on an edge;
\* the pieces fill their turn; the batches hold every row within the budget: for
\* any regions, any turn and any rows.
THEOREM CutsLoseNothing == Spec => []CutsKeepEverything
<1>1. ASSUME Computed, stage = "pack"
      PROVE  /\ \A n \in DOMAIN made : made[n][2] - made[n][1] \in 1 .. Window
             /\ \A n \in 1 .. Len(made) - 1 : made[n][2] <= made[n + 1][1]
             /\ \A n \in DOMAIN given : \A t \in given[n][1] .. given[n][2] - 1 :
                   \E m \in DOMAIN made : made[m][1] <= t /\ t < made[m][2]
  <2>1. PICK vad : vad \in Vads /\ vad = given /\ made = PackWindows(vad)
    BY <1>1 DEF Computed
  <2>2. PICK windows : windows = made
    OBVIOUS
  <2>3. /\ windows \in Seq(Int \X Int) /\ AreWindows(windows)
        /\ \A n \in 1 .. Len(vad) : Hold(windows, vad[n][1], vad[n][2])
    BY <2>1, <2>2, VadsAre, WindowsHoldEveryRegion
  <2>4. PICK N \in Nat : N = Len(windows) /\ DOMAIN windows = 1 .. N
    BY <2>3
  <2>5. DOMAIN vad = 1 .. Len(vad)
    BY <2>1, VadsAre
  <2>6. \A n \in 1 .. N : windows[n][2] - windows[n][1] \in 1 .. Window
    BY <2>3, <2>4 DEF AreWindows
  <2>7. ASSUME NEW n \in 1 .. N - 1 PROVE windows[n][2] <= windows[n + 1][1]
    <3>1. n \in 1 .. N /\ n + 1 \in 1 .. N /\ n < n + 1
      OBVIOUS
    <3> QED
      BY <2>3, <2>4, <3>1 DEF AreWindows
  <2>8. \A n \in DOMAIN vad : \A t \in vad[n][1] .. vad[n][2] - 1 :
           \E m \in 1 .. N : windows[m][1] <= t /\ t < windows[m][2]
    BY <2>3, <2>4, <2>5 DEF Hold
  <2> QED
    BY <2>1, <2>2, <2>4, <2>6, <2>7, <2>8
<1>2. ASSUME Computed, stage = "pieces"
      PROVE  /\ given[2] - given[1] >= MinPiece <=> made # <<>>
             /\ made # <<>> => made[1][1] = given[1] /\ Last(made)[2] = given[2]
             /\ \A n \in DOMAIN made : made[n][2] - made[n][1] \in MinPiece .. Piece + MinPiece - 1
             /\ \A n \in 1 .. Len(made) - 1 : made[n][2] = made[n + 1][1]
  <2>1. PICK from, to : from = given[1] /\ to = given[2]
    OBVIOUS
  <2>2. from \in Int /\ to \in Int /\ from <= to
    <3>1. given \in Intervals
      BY <1>2 DEF Computed
    <3> QED
      BY <2>1, <3>1, AlgorithmsConstants DEF Intervals
  <2>3. PICK r : r = made /\ Fill(r, from, to)
    <3>1. made = Pieces(from, to)
      BY <1>2, <2>1 DEF Computed
    <3> QED
      BY <2>2, <3>1, PiecesFill
  <2>4. DOMAIN r = 1 .. Len(r)
    BY <2>3 DEF Fill
  <2> QED
    BY <2>1, <2>3, <2>4 DEF Fill
<1>3. ASSUME Computed, stage = "batch"
      PROVE  /\ Cardinality(ToSet(FlattenSeq(made))) = Len(given) /\ Len(FlattenSeq(made)) = Len(given)
             /\ \A n \in DOMAIN made : \/ Len(made[n]) = 1
                                       \/ Len(made[n]) * Max({given[i] : i \in ToSet(made[n])}) <= Budget
  <2>1. given \in BoundedSeq(1 .. Budget + 1, MaxRows) /\ made = Groups(given)
    BY <1>3 DEF Computed
  <2>2. given \in Seq(Nat)
    <3>1. PICK m \in 0 .. MaxRows : given \in [1 .. m -> 1 .. Budget + 1]
      BY <2>1 DEF BoundedSeq, SeqOf
    <3>2. given \in [1 .. m -> Nat] /\ m \in Nat
      BY <3>1, CutsConstants, AlgorithmsConstants
    <3> QED
      BY <3>2
  <2> QED
    BY <2>1, <2>2, BatchesKeepEveryRow
<1>4. ASSUME Computed, stage = "decode"
      PROVE  /\ \A w \in given.first : w.window \in given.again => w \notin made
             /\ \A w \in given.first : w.window \notin given.again =>
                   w \in made \/ \E n \in given.again : w.start = given.windows[n][2]
  <2>1. PICK vad \in Vads : LET windows == PackWindows(vad) IN
           \E again \in SUBSET DOMAIN windows, first \in SUBSET WordsOf(windows, "first") :
              /\ given = [windows |-> windows, again |-> again, first |-> first]
              /\ made = Redecode(first, Pick(windows, again), {w \in WordsOf(windows, "again") : w.window \in again})
    BY <1>4 DEF Computed
  <2>2. PICK windows : windows = PackWindows(vad)
    OBVIOUS
  <2>3. PICK again \in SUBSET DOMAIN windows, first \in SUBSET WordsOf(windows, "first") :
           /\ given = [windows |-> windows, again |-> again, first |-> first]
           /\ made = Redecode(first, Pick(windows, again), {w \in WordsOf(windows, "again") : w.window \in again})
    BY <2>1, <2>2
  <2>4. windows \in Seq(Int \X Int) /\ AreWindows(windows)
    BY <2>2, VadsAre, WindowsHoldEveryRegion
  <2>5. PICK second \in SUBSET WordsOf(windows, "again") : made = Redecode(first, Pick(windows, again), second)
    BY <2>3
  <2>6. ASSUME NEW w \in first
        PROVE  /\ w.window \in again => w \notin made
               /\ w.window \notin again => w \in made \/ \E n \in again : w.start = windows[n][2]
    <3>1. \A v \in first : Replaces(made, windows, again, v)
      BY <2>4, <2>5, DecodedAgain
    <3> QED
      BY <3>1, Zenon DEF Replaces
  <2>7. given.first = first /\ given.again = again /\ given.windows = windows
    BY <2>3
  <2> QED
    BY <2>6, <2>7
<1>5. Computed => CutsKeepEverything
  BY <1>1, <1>2, <1>3, <1>4, Zenon DEF CutsKeepEverything
<1> QED
  BY <1>5, AlwaysComputed, PTL
===============================================================================
