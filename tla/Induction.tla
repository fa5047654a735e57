------------------------------- MODULE Induction -------------------------------
(***************************************************************************)
(* Induction over the natural numbers, stated for sets: from the library's *)
(* theorem that < is well founded on Nat.  Definitions step by step, and   *)
(* what the library's folds over sequences come to.                        *)
(***************************************************************************)
EXTENDS Integers, FiniteSetsExt, WellFoundedInduction, TLAPS

(* A set of numbers that is not empty has a least one.                     *)
LEMMA LeastNumber ==
    ASSUME NEW T \in SUBSET Nat, T # {}
    PROVE  \E n \in T : \A m \in T : n <= m
<1> DEFINE Less == {p \in Nat \X Nat : p[1] < p[2]}
<1>1. IsWellFoundedOn(Less, Nat)
  <2>1. OpToRel(<, Nat) = Less
    BY DEF OpToRel
  <2> QED
    BY <2>1, NatLessThanWellFounded
<1> HIDE DEF Less
<1>2. PICK n \in T : \A m \in T : <<m, n>> \notin Less
  BY <1>1, WFMin
<1>3. ASSUME NEW m \in T, m < n PROVE FALSE
  <2>1. <<m, n>> \in Less
    BY <1>3 DEF Less
  <2> QED
    BY <1>2, <2>1
<1> QED
  BY <1>3

(* What holds of 0, and of n + 1 whenever it holds of n, holds of all.     *)
LEMMA NumberInduction ==
    ASSUME NEW S, 0 \in S, \A n \in Nat : n \in S => n + 1 \in S
    PROVE  Nat \subseteq S
<1> SUFFICES ASSUME Nat \ S # {} PROVE FALSE
  OBVIOUS
<1>1. PICK n \in Nat \ S : \A m \in Nat \ S : n <= m
  BY LeastNumber
<1>2. n - 1 \in Nat /\ n - 1 \in S
  BY <1>1
<1> QED
  BY <1>1, <1>2

(* A set of numbers with a bound has a greatest one.                       *)
LEMMA GreatestNumber ==
    ASSUME NEW b \in Nat, NEW T \in SUBSET (0 .. b), T # {}
    PROVE  \E n \in T : \A m \in T : m <= n
<1> DEFINE Gaps == {g \in 0 .. b : b - g \in T}
<1>1. ASSUME NEW n \in T PROVE b - n \in Gaps
  <2>1. n \in 0 .. b
    OBVIOUS
  <2>2. b - n \in 0 .. b /\ b - (b - n) = n
    BY <2>1
  <2> QED
    BY <2>2
<1>2. PICK g \in Gaps : \A h \in Gaps : g <= h
  <2>1. Gaps \subseteq Nat
    OBVIOUS
  <2>2. Gaps # {}
    <3>1. PICK n : n \in T
      OBVIOUS
    <3> HIDE DEF Gaps
    <3> QED
      BY <1>1, <3>1
  <2> HIDE DEF Gaps
  <2> QED
    BY <2>1, <2>2, LeastNumber
<1>3. ASSUME NEW m \in T PROVE m <= b - g
  <2>1. g <= b - m /\ m \in 0 .. b /\ g \in 0 .. b
    BY <1>1, <1>2
  <2> QED
    BY <2>1
<1> QED
  BY <1>2, <1>3

(* f starts at base and takes each value from the last, N times over.      *)
StepByStep(f, N, D, base, next) ==
    f \in [0 .. N -> D] /\ f[0] = base /\ \A i \in 1 .. N : f[i] = next[i][f[i - 1]]

(* A function can be defined step by step, each value from the last.       *)
LEMMA Recursion ==
    ASSUME NEW N \in Nat, NEW D, NEW base \in D, NEW next,
           \A i \in 1 .. N : \A d \in D : next[i][d] \in D
    PROVE  \E f : StepByStep(f, N, D, base, next)
<1> DEFINE Steps(f, n) == /\ f \in [0 .. n -> D]
                          /\ f[0] = base /\ \A i \in 1 .. n : f[i] = next[i][f[i - 1]]
           Good == {n \in Nat : n <= N => \E f : Steps(f, n)}
<1>1. 0 \in Good
  <2>1. Steps([i \in 0 .. 0 |-> base], 0)
    OBVIOUS
  <2> HIDE DEF Steps
  <2> QED
    BY <2>1
<1>2. ASSUME NEW n \in Nat, n + 1 <= N, NEW f, Steps(f, n) PROVE \E g : Steps(g, n + 1)
  <2> DEFINE g == [i \in 0 .. n + 1 |-> IF i = n + 1 THEN next[n + 1][f[n]] ELSE f[i]]
  <2>1. n \in 0 .. n /\ f[n] \in D
    BY <1>2
  <2>2. n + 1 \in 1 .. N /\ next[n + 1][f[n]] \in D
    BY <1>2, <2>1
  <2>3. g \in [0 .. n + 1 -> D]
    BY <1>2, <2>2
  <2>4. g[0] = base
    BY <1>2
  <2>5. ASSUME NEW i \in 1 .. n + 1 PROVE g[i] = next[i][g[i - 1]]
    <3>1. CASE i = n + 1
      <4>1. i - 1 = n /\ n \in 0 .. n + 1 /\ n # n + 1 /\ i \in 0 .. n + 1
        BY <3>1
      <4>2. g[i] = next[n + 1][f[n]] /\ g[i - 1] = f[n]
        BY <3>1, <4>1
      <4> QED
        BY <3>1, <4>2
    <3>2. CASE i # n + 1
      <4>1. i \in 1 .. n /\ i - 1 \in 0 .. n + 1 /\ i - 1 # n + 1 /\ i \in 0 .. n + 1
        BY <3>2
      <4>2. g[i] = f[i] /\ g[i - 1] = f[i - 1]
        BY <3>2, <4>1
      <4> QED
        BY <1>2, <4>1, <4>2
    <3> QED
      BY <3>1, <3>2
  <2> HIDE DEF g
  <2>6. Steps(g, n + 1)
    BY <2>3, <2>4, <2>5
  <2> HIDE DEF Steps
  <2> QED
    BY <2>6
<1>3. \A n \in Nat : n \in Good => n + 1 \in Good
  <2> HIDE DEF Steps
  <2> QED
    BY <1>2
<1>4. N \in Good
  <2> HIDE DEF Good
  <2> QED
    BY <1>1, <1>3, NumberInduction
<1> QED
  <2>1. PICK f : Steps(f, N)
    <3> HIDE DEF Steps
    <3> QED
      BY <1>4
  <2> QED
    BY <2>1 DEF StepByStep

(* The library's maximum of a set with a bound.                            *)
LEMMA MaxOfNumbers ==
    ASSUME NEW b \in Nat, NEW T \in SUBSET (0 .. b), T # {}
    PROVE  Max(T) \in T /\ \A n \in T : n <= Max(T)
<1>1. PICK m \in T : \A n \in T : n <= m
  BY GreatestNumber
<1>2. \A n \in T : m >= n
  <2> SUFFICES ASSUME NEW n \in T PROVE m >= n
    OBVIOUS
  <2>1. n <= m /\ n \in 0 .. b /\ m \in 0 .. b
    BY <1>1
  <2> QED
    BY <2>1
<1>3. Max(T) \in T /\ \A n \in T : Max(T) >= n
  BY <1>2 DEF Max
<1>4. ASSUME NEW n \in T PROVE n <= Max(T)
  <2>1. Max(T) >= n /\ n \in 0 .. b /\ Max(T) \in 0 .. b
    BY <1>3
  <2> QED
    BY <2>1
<1> QED
  BY <1>3, <1>4

(* ... and of a set of positive ones.                                      *)
LEMMA MaxOfNumbersFrom1 ==
    ASSUME NEW N \in Nat
    PROVE  \A T \in SUBSET (1 .. N) : T # {} => Max(T) \in 1 .. N
<1> SUFFICES ASSUME NEW T \in SUBSET (1 .. N), T # {} PROVE Max(T) \in 1 .. N
  OBVIOUS
<1>1. T \in SUBSET (0 .. N)
  OBVIOUS
<1> QED
  BY <1>1, MaxOfNumbers

(* g folds next over the sets of numbers up to N, the greatest last.       *)
FoldsTo(g, N, D, base, next) ==
    /\ g \in [SUBSET (1 .. N) -> D] /\ g[{}] = base
    /\ \A s \in SUBSET (1 .. N) : s # {} => g[s] = next[Max(s)][g[s \ {Max(s)}]]

(* There is such a function: the recursion over sets by which the library  *)
(* defines folds defines something.                                        *)
LEMMA FoldExists ==
    ASSUME NEW N \in Nat, NEW D, NEW base \in D, NEW next,
           \A i \in 1 .. N : \A d \in D : next[i][d] \in D
    PROVE  \E g : FoldsTo(g, N, D, base, next)
<1> DEFINE Maps == [SUBSET (1 .. N) -> D]
           none == [s \in SUBSET (1 .. N) |-> base]
           Up(i, h) == [s \in SUBSET (1 .. N) |-> IF i \in s THEN next[i][h[s \ {i}]] ELSE h[s]]
           up == [i \in 1 .. N |-> [h \in Maps |-> Up(i, h)]]
<1>1. PICK f : StepByStep(f, N, Maps, none, up)
  <2>1. none \in Maps
    OBVIOUS
  <2>2. \A i \in 1 .. N : \A h \in Maps : up[i][h] \in Maps
    <3> SUFFICES ASSUME NEW i \in 1 .. N, NEW h \in Maps, NEW s \in SUBSET (1 .. N)
                 PROVE  (IF i \in s THEN next[i][h[s \ {i}]] ELSE h[s]) \in D
      OBVIOUS
    <3>1. h[s \ {i}] \in D /\ h[s] \in D
      <4>1. s \ {i} \in SUBSET (1 .. N)
        OBVIOUS
      <4> QED
        BY <4>1
    <3> QED
      BY <3>1
  <2> HIDE DEF Maps, none, up
  <2> QED
    BY <2>1, <2>2, Recursion
<1>2. f \in [0 .. N -> Maps] /\ f[0] = none
  BY <1>1 DEF StepByStep
<1>3. ASSUME NEW i \in 1 .. N, NEW s \in SUBSET (1 .. N)
      PROVE  f[i][s] = IF i \in s THEN next[i][f[i - 1][s \ {i}]] ELSE f[i - 1][s]
  <2>1. i - 1 \in 0 .. N
    OBVIOUS
  <2>2. f[i - 1] \in Maps
    BY <1>2, <2>1
  <2>3. f[i] = up[i][f[i - 1]]
    BY <1>1 DEF StepByStep
  <2>4. f[i] = Up(i, f[i - 1])
    <3> HIDE DEF Up, Maps
    <3> QED
      BY <2>2, <2>3
  <2> QED
    BY <2>4
<1>4. ASSUME NEW i \in 0 .. N, NEW s \in SUBSET (1 .. N), s \subseteq 1 .. i
      PROVE  \A n \in Nat : i + n <= N => f[i + n][s] = f[i][s]
  <2> DEFINE Good == {n \in Nat : i + n <= N => f[i + n][s] = f[i][s]}
  <2>1. 0 \in Good
    OBVIOUS
  <2>2. ASSUME NEW n \in Nat, n \in Good PROVE n + 1 \in Good
    <3> SUFFICES ASSUME i + (n + 1) <= N PROVE f[i + (n + 1)][s] = f[i][s]
      OBVIOUS
    <3>1. PICK k \in 1 .. N : k = i + (n + 1) /\ k - 1 = i + n /\ i + n <= N /\ k \notin 1 .. i
      OBVIOUS
    <3>2. f[k][s] = f[k - 1][s]
      <4>1. k \notin s
        BY <1>4, <3>1
      <4> QED
        BY <1>3, <4>1
    <3> QED
      BY <2>2, <3>1, <3>2
  <2>3. Nat \subseteq Good
    <3> HIDE DEF Good
    <3> QED
      BY <2>1, <2>2, NumberInduction
  <2> QED
    BY <2>3 DEF Good
<1>5. ASSUME NEW i \in 0 .. N, NEW s \in SUBSET (1 .. N), s \subseteq 1 .. i
      PROVE  f[N][s] = f[i][s]
  <2>1. N - i \in Nat /\ i + (N - i) = N
    OBVIOUS
  <2>2. i + (N - i) <= N => f[i + (N - i)][s] = f[i][s]
    BY <1>4, <1>5, <2>1
  <2> QED
    BY <2>1, <2>2
<1> DEFINE g == f[N]
<1>6. g \in [SUBSET (1 .. N) -> D]
  <2>1. N \in 0 .. N
    OBVIOUS
  <2> QED
    BY <1>2, <2>1
<1>7. g[{}] = base
  <2>1. {} \in SUBSET (1 .. N) /\ {} \subseteq 1 .. 0 /\ 0 \in 0 .. N
    OBVIOUS
  <2>2. g[{}] = f[0][{}]
    BY <1>5, <2>1
  <2> QED
    BY <1>2, <2>1, <2>2
<1>8. ASSUME NEW s \in SUBSET (1 .. N), s # {} PROVE g[s] = next[Max(s)][g[s \ {Max(s)}]]
  <2>1. PICK m : m = Max(s)
    OBVIOUS
  <2>2. m \in s /\ \A n \in s : n <= m
    <3>1. s \in SUBSET (0 .. N)
      OBVIOUS
    <3> QED
      BY <1>8, <2>1, <3>1, MaxOfNumbers
  <2>3. m \in 1 .. N /\ m \in 0 .. N /\ m - 1 \in 0 .. N
    BY <2>2
  <2>4. s \subseteq 1 .. m /\ s \ {m} \subseteq 1 .. m - 1 /\ s \ {m} \in SUBSET (1 .. N)
    <3> SUFFICES ASSUME NEW n \in s PROVE n \in 1 .. m /\ (n # m => n \in 1 .. m - 1)
      OBVIOUS
    <3>1. n <= m /\ n \in 1 .. N
      BY <2>2
    <3> QED
      BY <2>3, <3>1
  <2>5. g[s] = f[m][s] /\ g[s \ {m}] = f[m - 1][s \ {m}]
    BY <1>5, <2>3, <2>4
  <2>6. f[m][s] = next[m][f[m - 1][s \ {m}]]
    BY <1>3, <2>2, <2>3
  <2> QED
    BY <2>1, <2>5, <2>6
<1> HIDE DEF g
<1> QED
  BY <1>6, <1>7, <1>8 DEF FoldsTo

(* What is computed by that recursion is computed step by step.            *)
LEMMA FoldUnfolds ==
    ASSUME NEW N \in Nat, NEW D, NEW base \in D, NEW next,
           \A i \in 1 .. N : \A d \in D : next[i][d] \in D,
           NEW F, F[{}] = base,
           \A s \in SUBSET (1 .. N) :
              s # {} /\ F[s \ {Max(s)}] \in D => F[s] = next[Max(s)][F[s \ {Max(s)}]]
    PROVE  StepByStep([i \in 0 .. N |-> F[1 .. i]], N, D, base, next)
<1>1. 1 .. 0 = {}
  OBVIOUS
<1>2. ASSUME NEW n \in Nat, n + 1 <= N, F[1 .. n] \in D
      PROVE  F[1 .. n + 1] = next[n + 1][F[1 .. n]] /\ F[1 .. n + 1] \in D
  <2>1. PICK S : S = 1 .. n + 1
    OBVIOUS
  <2>2. n + 1 \in S /\ S # {} /\ S \in SUBSET (1 .. N) /\ S \in SUBSET (0 .. n + 1) /\ n + 1 \in Nat
    <3>1. n + 1 \in S
      BY <2>1
    <3>2. \A k \in S : k \in 1 .. N /\ k \in 0 .. n + 1
      BY <1>2, <2>1
    <3> QED
      BY <3>1, <3>2
  <2>3. Max(S) = n + 1
    <3>1. PICK m : m = Max(S)
      OBVIOUS
    <3>2. m \in S /\ n + 1 <= m
      BY <2>2, <3>1, MaxOfNumbers
    <3> QED
      BY <2>1, <3>1, <3>2
  <2>6. S \ {n + 1} = 1 .. n
    BY <2>1
  <2>4. F[1 .. n + 1] = next[n + 1][F[1 .. n]]
    BY <1>2, <2>1, <2>2, <2>3, <2>6
  <2>5. n + 1 \in 1 .. N
    BY <1>2
  <2> QED
    BY <1>2, <2>4, <2>5
<1> DEFINE Good == {n \in Nat : n <= N => F[1 .. n] \in D}
<1>3. Nat \subseteq Good
  <2>1. 0 \in Good
    BY <1>1
  <2>2. ASSUME NEW n \in Nat, n \in Good PROVE n + 1 \in Good
    <3> SUFFICES ASSUME n + 1 <= N PROVE F[1 .. n + 1] \in D
      OBVIOUS
    <3>1. n <= N
      OBVIOUS
    <3>2. F[1 .. n] \in D
      BY <2>2, <3>1
    <3> QED
      BY <1>2, <3>2
  <2> HIDE DEF Good
  <2> QED
    BY <2>1, <2>2, NumberInduction
<1>4. \A n \in 0 .. N : F[1 .. n] \in D
  BY <1>3
<1> DEFINE f == [i \in 0 .. N |-> F[1 .. i]]
<1>5. f \in [0 .. N -> D] /\ f[0] = base
  BY <1>1, <1>4
<1>6. ASSUME NEW i \in 1 .. N PROVE f[i] = next[i][f[i - 1]]
  <2>1. PICK n \in Nat : n = i - 1 /\ i = n + 1 /\ n + 1 <= N /\ n \in 0 .. N
    OBVIOUS
  <2>2. F[1 .. n + 1] = next[n + 1][F[1 .. n]]
    BY <1>2, <1>4, <2>1
  <2>3. f[i] = F[1 .. i] /\ f[i - 1] = F[1 .. n]
    BY <2>1
  <2> QED
    BY <2>1, <2>2, <2>3
<1> QED
  BY <1>5, <1>6 DEF StepByStep
================================================================================
