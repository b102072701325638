---------------------------- MODULE DataInduction ----------------------------
(***************************************************************************)
(* Facts about data that the proofs of the components share: induction     *)
(* over the natural numbers and over the subsets of a finite set, with the *)
(* property given as the set of what has it; the functions a recursion     *)
(* defines; extremes of finite sets of integers; sums over finite sets.    *)
(***************************************************************************)
EXTENDS Integers, Sequences, FiniteSets, FiniteSetsExt, SequencesExt, FiniteSetTheorems, TLAPS

-----------------------------------------------------------------------------
(* Induction.                                                              *)

\* What has a property from 0 on, step by step, is every natural number.
LEMMA NatIsBuiltUp ==
    ASSUME NEW T, 0 \in T, \A n \in Nat : n \in T => n + 1 \in T
    PROVE  Nat \subseteq T
<1>. SUFFICES ASSUME Nat \ T # {} PROVE FALSE
  OBVIOUS
<1>1. \E n \in Nat \ T : \A m \in Nat \ T : ~(<<m, n>> \in OpToRel(<, Nat))
  BY NatLessThanWellFounded, WFMin
<1>2. PICK n \in Nat \ T : \A m \in Nat \ T : ~(<<m, n>> \in OpToRel(<, Nat))
  BY <1>1
<1>3. n # 0 /\ n - 1 \in Nat
  OBVIOUS
<1>4. n - 1 \notin T
  BY <1>3
<1>5. <<n - 1, n>> \in OpToRel(<, Nat)
  BY <1>3 DEF OpToRel
<1>. QED  BY <1>2, <1>3, <1>4, <1>5

\* What a finite set's subset has as soon as its strict subsets have it, every
\* subset has.
LEMMA FiniteIsBuiltUp ==
    ASSUME NEW S, IsFiniteSet(S), NEW F,
           \A T \in SUBSET S : (\A U \in SUBSET T : U # T => U \in F) => T \in F
    PROVE  SUBSET S \subseteq F
<1> DEFINE bad == (SUBSET S) \ F
           R == StrictSubsetOrdering(S)
<1>. SUFFICES ASSUME bad # {} PROVE FALSE
  OBVIOUS
<1>1. IsWellFoundedOn(R, SUBSET S)
  <2>1. FiniteSubsetsOf(S) = SUBSET S
    BY FS_FiniteSubsetsOfFinite
  <2>2. IsWellFoundedOn(StrictSubsetOrdering(S), FiniteSubsetsOf(S))
    BY FS_StrictSubsetOrderingWellFounded
  <2>. QED  BY <2>1, <2>2
<1>2. bad \subseteq SUBSET S
  OBVIOUS
<1>3. \E T \in bad : \A U \in bad : ~(<<U, T>> \in R)
  <2>. HIDE DEF R, bad
  <2>. QED  BY <1>1, <1>2, WFMin
<1>4. PICK T \in bad : \A U \in bad : ~(<<U, T>> \in R)
  BY <1>3
<1>5. ASSUME NEW U \in SUBSET T, U # T PROVE U \in F
  <2>1. U \in SUBSET S /\ T \in SUBSET S
    BY <1>4
  <2>2. <<U, T>> \in R
    BY <1>5, <2>1 DEF StrictSubsetOrdering
  <2>. QED  BY <1>4, <2>1, <2>2
<1>6. T \in SUBSET S /\ T \notin F
  BY <1>4
<1>. QED  BY <1>5, <1>6

-----------------------------------------------------------------------------
(* Functions by recursion over the natural numbers: the k-th step is F[k]. *)

Follows(g, a, F, n) == g[0] = a /\ \A k \in 0..(n - 1) : g[k + 1] = F[k][g[k]]

LEMMA FollowersAgree ==
    ASSUME NEW a, NEW F, NEW m \in Nat, NEW n \in Nat, NEW g, NEW h,
           Follows(g, a, F, m), Follows(h, a, F, n)
    PROVE  \A k \in Nat : k <= m /\ k <= n => g[k] = h[k]
<1> DEFINE T == {k \in Nat : k <= m /\ k <= n => g[k] = h[k]}
<1>1. 0 \in T
  BY DEF Follows
<1>2. ASSUME NEW k \in Nat, k \in T PROVE k + 1 \in T
  BY <1>2 DEF Follows
<1>. HIDE DEF T
<1>3. Nat \subseteq T
  BY <1>1, <1>2, NatIsBuiltUp
<1>. QED  BY <1>3 DEF T

StaysIn(F, D) == \A n \in Nat : F[n] \in [D -> D]
Recursion(g, a, F) == g[0] = a /\ \A n \in Nat : g[n + 1] = F[n][g[n]]

\* A recursion whose steps stay in D defines a function into D.
LEMMA RecursionExists ==
    ASSUME NEW D, NEW a, a \in D, NEW F, StaysIn(F, D)
    PROVE  \E g \in [Nat -> D] : Recursion(g, a, F)
<1>0. \A n \in Nat : F[n] \in [D -> D]
  BY DEF StaysIn
<1> DEFINE T == {n \in Nat : \E g \in [Nat -> D] : Follows(g, a, F, n)}
<1>1. 0 \in T
  <2>1. Follows([k \in Nat |-> a], a, F, 0)
    BY DEF Follows
  <2>. QED  BY <2>1
<1>2. ASSUME NEW n \in Nat, n \in T PROVE n + 1 \in T
  <2>1. PICK g \in [Nat -> D] : Follows(g, a, F, n)
    BY <1>2
  <2>. DEFINE h == [g EXCEPT ![n + 1] = F[n][g[n]]]
  <2>2. h \in [Nat -> D]
    BY <1>0
  <2>3. ASSUME NEW k \in 0..n PROVE h[k + 1] = F[k][h[k]]
    <3>1. h[k] = g[k]
      OBVIOUS
    <3>2. CASE k = n
      BY <3>1, <3>2
    <3>3. CASE k # n
      <4>1. k \in 0..(n - 1) /\ k + 1 # n + 1 /\ k + 1 \in Nat
        BY <3>3
      <4>2. h[k + 1] = g[k + 1]
        BY <4>1
      <4>3. g[k + 1] = F[k][g[k]]
        BY <4>1, <2>1 DEF Follows
      <4>. QED  BY <4>2, <4>3, <3>1
    <3>. QED  BY <3>2, <3>3
  <2>4. h[0] = a
    BY <2>1 DEF Follows
  <2>5. Follows(h, a, F, n + 1)
    <3>1. 0..((n + 1) - 1) = 0..n
      OBVIOUS
    <3>. HIDE DEF h
    <3>. QED  BY <2>3, <2>4, <3>1 DEF Follows
  <2>. HIDE DEF h
  <2>6. \E f \in [Nat -> D] : Follows(f, a, F, n + 1)
    BY <2>2, <2>5
  <2>. QED  BY <2>6
<1>. HIDE DEF T
<1>3. Nat \subseteq T
  BY <1>1, <1>2, NatIsBuiltUp
<1> DEFINE G(n) == CHOOSE g \in [Nat -> D] : Follows(g, a, F, n)
           g == [n \in Nat |-> G(n)[n]]
<1>4. ASSUME NEW n \in Nat PROVE G(n) \in [Nat -> D] /\ Follows(G(n), a, F, n)
  BY <1>3 DEF T
<1>. HIDE DEF G
<1>5. g \in [Nat -> D]
  BY <1>4
<1>6. g[0] = a
  BY <1>4 DEF Follows
<1>7. ASSUME NEW n \in Nat PROVE g[n + 1] = F[n][g[n]]
  <2>1. n + 1 \in Nat /\ n \in 0..((n + 1) - 1)
    OBVIOUS
  <2>2. G(n + 1)[n + 1] = F[n][G(n + 1)[n]]
    BY <2>1, <1>4 DEF Follows
  <2>3. G(n + 1)[n] = G(n)[n]
    BY <2>1, <1>4, FollowersAgree
  <2>. QED  BY <2>1, <2>2, <2>3
<1>. HIDE DEF g
<1>8. Recursion(g, a, F)
  BY <1>6, <1>7 DEF Recursion
<1>. QED  BY <1>5, <1>8

-----------------------------------------------------------------------------
(* Arithmetic, finite images, lists.                                       *)

LEMMA QuotientIsInteger ==
    ASSUME NEW x \in Int, NEW d \in Nat \ {0}
    PROVE  x \div d \in Int
OBVIOUS

\* Division rounds down, so it stays between the multiples that bound it.
LEMMA QuotientBetween ==
    ASSUME NEW x \in Int, NEW d \in Nat \ {0}, NEW lo \in Int, NEW hi \in Int,
           lo * d <= x, x <= hi * d
    PROVE  lo <= x \div d /\ x \div d <= hi
<1> DEFINE q == x \div d
           r == x % d
<1>1. q \in Int /\ r \in 0..(d - 1) /\ x = d * q + r
  OBVIOUS
<1>. HIDE DEF q, r
<1>2. lo <= q
  <2> SUFFICES ASSUME q <= lo - 1 PROVE FALSE
    BY <1>1
  <2>1. d * q <= d * (lo - 1)
    BY <1>1, q <= lo - 1
  <2>2. d * (lo - 1) = lo * d - d
    OBVIOUS
  <2>. QED  BY <1>1, <2>1, <2>2
<1>3. q <= hi
  <2> SUFFICES ASSUME hi + 1 <= q PROVE FALSE
    BY <1>1
  <2>1. d * (hi + 1) <= d * q
    BY <1>1, hi + 1 <= q
  <2>2. d * (hi + 1) = hi * d + d
    OBVIOUS
  <2>. QED  BY <1>1, <2>1, <2>2
<1>. QED  BY <1>2, <1>3 DEF q

LEMMA ShareBetween ==
    ASSUME NEW x \in Int, NEW d \in Nat \ {0}, NEW lo \in Int, NEW hi \in Int,
           lo * d <= x, x <= hi * d
    PROVE  x \div d \in lo..hi
BY QuotientIsInteger, QuotientBetween

LEMMA RemainderIs ==
    ASSUME NEW d \in Nat \ {0}, NEW x \in Int, NEW q \in Int, NEW r \in 0..(d - 1), x = d * q + r
    PROVE  x % d = r
<1> DEFINE p == x \div d
           m == x % d
<1>1. p \in Int /\ m \in 0..(d - 1) /\ x = d * p + m
  OBVIOUS
<1>. HIDE DEF p, m
<1>2. p = q
  <2>1. CASE p <= q - 1
    <3>1. d * p <= d * (q - 1) /\ d * (q - 1) = d * q - d
      BY <1>1, <2>1
    <3>. QED  BY <1>1, <3>1
  <2>2. CASE q <= p - 1
    <3>1. d * q <= d * (p - 1) /\ d * (p - 1) = d * p - d
      BY <1>1, <2>2
    <3>. QED  BY <1>1, <3>1
  <2>. QED  BY <1>1, <2>1, <2>2
<1>. QED  BY <1>1, <1>2 DEF m

\* Walking around a circle of d places from a: i is reached after (i - a) % d steps.
LEMMA AroundTheDay ==
    ASSUME NEW d \in Nat \ {0}, NEW a \in 0..(d - 1)
    PROVE  /\ \A i \in 0..(d - 1) : (i - a) % d \in 0..(d - 1) /\ (a + ((i - a) % d)) % d = i
           /\ \A k \in 0..(d - 1) : (a + k) % d \in 0..(d - 1) /\ (((a + k) % d) - a) % d = k
<1>1. ASSUME NEW i \in 0..(d - 1) PROVE (i - a) % d \in 0..(d - 1) /\ (a + ((i - a) % d)) % d = i
  <2>1. CASE i >= a
    <3>1. (i - a) % d = i - a
      <4>1. i - a = d * 0 + (i - a) /\ i - a \in 0..(d - 1)
        BY <2>1
      <4>. QED  BY <4>1, RemainderIs
    <3>2. i % d = i
      <4>1. i = d * 0 + i
        OBVIOUS
      <4>. QED  BY <4>1, RemainderIs
    <3>3. a + (i - a) = i /\ i - a \in 0..(d - 1)
      BY <2>1
    <3>. QED  BY <3>1, <3>2, <3>3
  <2>2. CASE i < a
    <3>1. (i - a) % d = i - a + d
      <4>1. i - a = d * (-1) + (i - a + d) /\ i - a + d \in 0..(d - 1)
        BY <2>2
      <4>. QED  BY <4>1, RemainderIs
    <3>2. (i + d) % d = i
      <4>1. i + d = d * 1 + i
        OBVIOUS
      <4>. QED  BY <4>1, RemainderIs
    <3>3. a + (i - a + d) = i + d /\ i - a + d \in 0..(d - 1)
      BY <2>2
    <3>. QED  BY <3>1, <3>2, <3>3
  <2>. QED  BY <2>1, <2>2
<1>2. ASSUME NEW k \in 0..(d - 1) PROVE (a + k) % d \in 0..(d - 1) /\ (((a + k) % d) - a) % d = k
  <2>1. CASE a + k < d
    <3>1. (a + k) % d = a + k
      <4>1. a + k = d * 0 + (a + k) /\ a + k \in 0..(d - 1)
        BY <2>1
      <4>. QED  BY <4>1, RemainderIs
    <3>2. k % d = k
      <4>1. k = d * 0 + k
        OBVIOUS
      <4>. QED  BY <4>1, RemainderIs
    <3>3. (a + k) - a = k /\ a + k \in 0..(d - 1)
      BY <2>1
    <3>. QED  BY <3>1, <3>2, <3>3
  <2>2. CASE a + k >= d
    <3>1. (a + k) % d = a + k - d
      <4>1. a + k = d * 1 + (a + k - d) /\ a + k - d \in 0..(d - 1)
        BY <2>2
      <4>. QED  BY <4>1, RemainderIs
    <3>2. (k - d) % d = k
      <4>1. k - d = d * (-1) + k
        OBVIOUS
      <4>. QED  BY <4>1, RemainderIs
    <3>3. (a + k - d) - a = k - d /\ a + k - d \in 0..(d - 1)
      BY <2>2
    <3>. QED  BY <3>1, <3>2, <3>3
  <2>. QED  BY <2>1, <2>2
<1>. QED  BY <1>1, <1>2

LEMMA ImageIsFinite ==
    ASSUME NEW S, IsFiniteSet(S), NEW f
    PROVE  IsFiniteSet({f[x] : x \in S})
<1> DEFINE T == {f[x] : x \in S}
           g == [x \in S |-> f[x]]
<1>1. g \in Surjection(S, T)
  BY DEF Surjection
<1>. HIDE DEF T, g
<1>2. IsFiniteSet(T)
  BY <1>1, FS_Surjection
<1>. QED  BY <1>2 DEF T

LEMMA ListsAreSequences ==
    ASSUME NEW n \in Nat, NEW S, NEW f \in [1..n -> S]
    PROVE  f \in Seq(S) /\ Len(f) = n
OBVIOUS

-----------------------------------------------------------------------------
(* Extremes.                                                               *)

LEMMA LeastExists ==
    ASSUME NEW S \in SUBSET Int, IsFiniteSet(S), S # {}
    PROVE  Min(S) \in S /\ \A y \in S : Min(S) <= y
<1> DEFINE F == {T \in SUBSET S : T # {} => \E x \in T : \A y \in T : x <= y}
<1>1. ASSUME NEW T \in SUBSET S, \A U \in SUBSET T : U # T => U \in F
      PROVE  T \in F
  <2>. SUFFICES ASSUME T # {} PROVE \E x \in T : \A y \in T : x <= y
    OBVIOUS
  <2>1. PICK z \in T : TRUE
    OBVIOUS
  <2>2. T \ {z} \in F
    BY <2>1, <1>1
  <2>3. CASE T \ {z} = {}
    BY <2>1, <2>3
  <2>4. CASE T \ {z} # {}
    <3>1. PICK x \in T \ {z} : \A y \in T \ {z} : x <= y
      BY <2>2, <2>4
    <3>2. x \in Int /\ z \in Int /\ \A y \in T : y \in Int
      BY <2>1, <3>1
    <3>3. CASE x <= z
      BY <3>1, <3>3
    <3>4. CASE z <= x
      BY <2>1, <3>1, <3>2, <3>4
    <3>. QED  BY <3>2, <3>3, <3>4
  <2>. QED  BY <2>3, <2>4
<1>. HIDE DEF F
<1>2. S \in F
  BY <1>1, FiniteIsBuiltUp
<1>3. \E x \in S : \A y \in S : x <= y
  BY <1>2 DEF F
<1>. QED  BY <1>3 DEF Min

LEMMA GreatestExists ==
    ASSUME NEW S \in SUBSET Int, IsFiniteSet(S), S # {}
    PROVE  Max(S) \in S /\ \A y \in S : y <= Max(S)
<1> DEFINE F == {T \in SUBSET S : T # {} => \E x \in T : \A y \in T : x >= y}
<1>1. ASSUME NEW T \in SUBSET S, \A U \in SUBSET T : U # T => U \in F
      PROVE  T \in F
  <2>. SUFFICES ASSUME T # {} PROVE \E x \in T : \A y \in T : x >= y
    OBVIOUS
  <2>1. PICK z \in T : TRUE
    OBVIOUS
  <2>2. T \ {z} \in F
    BY <2>1, <1>1
  <2>3. CASE T \ {z} = {}
    BY <2>1, <2>3
  <2>4. CASE T \ {z} # {}
    <3>1. PICK x \in T \ {z} : \A y \in T \ {z} : x >= y
      BY <2>2, <2>4
    <3>2. x \in Int /\ z \in Int /\ \A y \in T : y \in Int
      BY <2>1, <3>1
    <3>3. CASE x >= z
      BY <3>1, <3>3
    <3>4. CASE z >= x
      BY <2>1, <3>1, <3>2, <3>4
    <3>. QED  BY <3>2, <3>3, <3>4
  <2>. QED  BY <2>3, <2>4
<1>. HIDE DEF F
<1>2. S \in F
  BY <1>1, FiniteIsBuiltUp
<1>3. \E x \in S : \A y \in S : x >= y
  BY <1>2 DEF F
<1>4. Max(S) \in S /\ \A y \in S : Max(S) >= y
  BY <1>3 DEF Max
<1>. QED  BY <1>4

-----------------------------------------------------------------------------
(* The elements of a finite set of integers in ascending order.            *)

Increasing(seq) == \A i, j \in DOMAIN seq : i < j => seq[i] < seq[j]

LEMMA RanksIncrease ==
    ASSUME NEW S, IsFiniteSet(S), S \subseteq Int, NEW a \in S, NEW b \in S, a < b
    PROVE  Cardinality({c \in S : c <= a}) < Cardinality({c \in S : c <= b})
<1> DEFINE A == {c \in S : c <= a}
           B == {c \in S : c <= b}
<1>0. a \in Int /\ b \in Int /\ \A c \in S : c \in Int
  OBVIOUS
<1>1. A \subseteq B /\ b \in B \ A /\ B \subseteq S
  <2>1. b <= b /\ ~(b <= a) /\ \A c \in S : c <= a => c <= b
    BY <1>0
  <2>. QED  BY <2>1
<1>. HIDE DEF A, B
<1>2. IsFiniteSet(B) /\ IsFiniteSet(A)
  BY <1>1, FS_Subset
<1>3. Cardinality(A) <= Cardinality(B) /\ (Cardinality(A) = Cardinality(B) => A = B)
  BY <1>1, <1>2, FS_Subset
<1>4. Cardinality(A) \in Nat /\ Cardinality(B) \in Nat
  BY <1>2, FS_CardinalityType
<1>5. Cardinality(A) < Cardinality(B)
  BY <1>1, <1>3, <1>4
<1>. QED  BY <1>5 DEF A, B

LEMMA OrderExists ==
    ASSUME NEW S, IsFiniteSet(S), S \subseteq Int
    PROVE  \E seq \in [1..Cardinality(S) -> S] : Increasing(seq)
<1> DEFINE n == Cardinality(S)
           rank == [b \in S |-> Cardinality({c \in S : c <= b})]
<1>1. n \in Nat
  BY FS_CardinalityType
<1>2. ASSUME NEW b \in S PROVE rank[b] \in 1..n
  <2>1. {c \in S : c <= b} \subseteq S /\ b \in {c \in S : c <= b}
    OBVIOUS
  <2>. DEFINE B == {c \in S : c <= b}
  <2>. HIDE DEF B
  <2>2. B \subseteq S /\ b \in B
    BY <2>1 DEF B
  <2>3. IsFiniteSet(B) /\ Cardinality(B) <= n /\ Cardinality(B) \in Nat
    BY <2>2, FS_Subset, FS_CardinalityType
  <2>4. Cardinality(B) # 0
    BY <2>2, <2>3, FS_EmptySet
  <2>. QED  BY <2>3, <2>4, <1>1 DEF B
<1>3. \A a, b \in S : a < b => rank[a] < rank[b]
  BY RanksIncrease
<1>. HIDE DEF rank
<1>4. rank \in Injection(S, 1..n)
  <2>1. ASSUME NEW a \in S, NEW b \in S, rank[a] = rank[b] PROVE a = b
    <3>1. a \in Int /\ b \in Int /\ rank[a] \in Int
      BY <1>1, <1>2
    <3>2. ~(a < b) /\ ~(b < a)
      BY <3>1, <2>1, <1>3
    <3>. QED  BY <3>1, <3>2
  <2>2. rank \in [S -> 1..n]
    BY <1>2 DEF rank
  <2>. QED  BY <2>1, <2>2 DEF Injection, IsInjective
<1>5. rank \in Surjection(S, 1..n)
  <2>1. IsFiniteSet(1..n) /\ Cardinality(1..n) = n
    BY <1>1, FS_Interval
  <2>. QED  BY <1>4, <2>1, FS_Injection
<1> DEFINE seq == [i \in 1..n |-> CHOOSE b \in S : rank[b] = i]
<1>6. \A i \in 1..n : seq[i] \in S /\ rank[seq[i]] = i
  BY <1>5 DEF Surjection
<1>7. ASSUME NEW i \in 1..n, NEW j \in 1..n, i < j PROVE seq[i] < seq[j]
  <2>. HIDE DEF seq
  <2>1. seq[i] \in Int /\ seq[j] \in Int
    BY <1>6
  <2>2. ~(rank[seq[j]] < rank[seq[i]]) /\ seq[i] # seq[j]
    BY <1>1, <1>6, <1>7
  <2>. QED  BY <2>1, <2>2, <1>3, <1>6
<1>8. seq \in [1..n -> S]
  BY <1>6
<1>9. Increasing(seq)
  BY <1>7 DEF Increasing
<1>. HIDE DEF seq
<1>. QED  BY <1>8, <1>9

-----------------------------------------------------------------------------
(* Sums of w over a finite set.  SumFunctionOnSet is a fold, which is a    *)
(* recursion over the subsets.                                             *)

Ints(w, S) == \A x \in S : w[x] \in Int
First(s) == CHOOSE x \in s : TRUE
Tallies(g, w, S) ==
    g = [s \in SUBSET S |-> IF s = {} THEN 0 ELSE w[First(s)] + g[s \ {First(s)}]]

LEMMA FirstIsIn == ASSUME NEW s, s # {} PROVE First(s) \in s
BY DEF First

LEMMA TallyStep ==
    ASSUME NEW w, NEW S, NEW g, Tallies(g, w, S), NEW s \in SUBSET S
    PROVE  g[s] = IF s = {} THEN 0 ELSE w[First(s)] + g[s \ {First(s)}]
BY DEF Tallies

LEMMA TalliesAgree ==
    ASSUME NEW w, NEW S, IsFiniteSet(S), NEW R, S \subseteq R,
           NEW g, Tallies(g, w, S), NEW h, Tallies(h, w, R)
    PROVE  \A s \in SUBSET S : g[s] = h[s]
<1> DEFINE F == {s \in SUBSET S : g[s] = h[s]}
<1>1. ASSUME NEW s \in SUBSET S, \A U \in SUBSET s : U # s => U \in F
      PROVE  s \in F
  <2>0. s \in SUBSET R
    OBVIOUS
  <2>1. CASE s = {}
    BY <2>0, <2>1, TallyStep
  <2>2. CASE s # {}
    <3>1. First(s) \in s
      BY <2>2, FirstIsIn
    <3>2. s \ {First(s)} \in F
      BY <3>1, <1>1
    <3>3. g[s \ {First(s)}] = h[s \ {First(s)}]
      BY <3>2
    <3>4. g[s] = w[First(s)] + g[s \ {First(s)}] /\ h[s] = w[First(s)] + h[s \ {First(s)}]
      BY <2>0, <2>2, TallyStep
    <3>. QED  BY <3>3, <3>4
  <2>. QED  BY <2>1, <2>2
<1>. HIDE DEF F
<1>2. SUBSET S \subseteq F
  BY <1>1, FiniteIsBuiltUp
<1>. QED  BY <1>2 DEF F

LEMMA TallyExists ==
    ASSUME NEW w, NEW S, IsFiniteSet(S), Ints(w, S)
    PROVE  \E g \in [SUBSET S -> Int] : Tallies(g, w, S)
<1> DEFINE F == {T \in SUBSET S : \E g \in [SUBSET T -> Int] : Tallies(g, w, T)}
<1>1. ASSUME NEW T \in SUBSET S, \A U \in SUBSET T : U # T => U \in F
      PROVE  T \in F
  <2> DEFINE G(U) == CHOOSE g \in [SUBSET U -> Int] : Tallies(g, w, U)
             sum(U) == IF U = {} THEN 0 ELSE w[First(U)] + G(U \ {First(U)})[U \ {First(U)}]
             h == [U \in SUBSET T |-> sum(U)]
  <2>1. ASSUME NEW U \in SUBSET T, U # T
        PROVE  G(U) \in [SUBSET U -> Int] /\ Tallies(G(U), w, U)
    BY <2>1, <1>1
  <2>. HIDE DEF G
  <2>2. ASSUME NEW U \in SUBSET T, U # {}
        PROVE  /\ First(U) \in U /\ U \ {First(U)} \in SUBSET T /\ U \ {First(U)} # T
               /\ U \ {First(U)} \in SUBSET U
    BY <2>2, FirstIsIn
  <2>3. ASSUME NEW U \in SUBSET T PROVE sum(U) \in Int
    <3>1. CASE U = {}
      BY <3>1
    <3>2. CASE U # {}
      <4>1. G(U \ {First(U)})[U \ {First(U)}] \in Int
        <5>. DEFINE V == U \ {First(U)}
        <5>1. V \in SUBSET T /\ V # T
          BY <2>2, <3>2
        <5>2. V \in SUBSET V
          OBVIOUS
        <5>. HIDE DEF V
        <5>3. G(V)[V] \in Int
          BY <2>1, <5>1, <5>2
        <5>. QED  BY <5>3 DEF V
      <4>2. w[First(U)] \in Int
        BY <2>2, <3>2 DEF Ints
      <4>. QED  BY <4>1, <4>2, <3>2
    <3>. QED  BY <3>1, <3>2
  <2>4. h \in [SUBSET T -> Int]
    BY <2>3
  <2>5. ASSUME NEW U \in SUBSET T, U # T PROVE G(U)[U] = sum(U)
    <3>1. G(U)[U] = IF U = {} THEN 0 ELSE w[First(U)] + G(U)[U \ {First(U)}]
      <4>1. Tallies(G(U), w, U) /\ U \in SUBSET U
        BY <2>1, <2>5
      <4>. QED  BY <4>1, TallyStep
    <3>2. CASE U # {}
      <4> DEFINE V == U \ {First(U)}
      <4>1. V \in SUBSET U /\ V \in SUBSET T /\ V # T
        BY <2>2, <3>2
      <4>2. Tallies(G(V), w, V) /\ Tallies(G(U), w, U)
        BY <2>1, <2>5, <4>1
      <4>3. IsFiniteSet(V)
        BY <4>1, FS_Subset
      <4>4. V \in SUBSET V
        OBVIOUS
      <4>. HIDE DEF V
      <4>5. G(V)[V] = G(U)[V]
        BY <4>1, <4>2, <4>3, <4>4, TalliesAgree
      <4>. QED  BY <4>5, <3>1, <3>2 DEF V
    <3>. QED  BY <3>1, <3>2
  <2>6. ASSUME NEW U \in SUBSET T
        PROVE  sum(U) = IF U = {} THEN 0 ELSE w[First(U)] + h[U \ {First(U)}]
    <3>1. CASE U # {}
      <4>1. U \ {First(U)} \in SUBSET T /\ U \ {First(U)} # T
        BY <2>2, <3>1
      <4>2. h[U \ {First(U)}] = sum(U \ {First(U)})
        BY <4>1
      <4>3. G(U \ {First(U)})[U \ {First(U)}] = h[U \ {First(U)}]
        BY <4>1, <4>2, <2>5
      <4>. QED  BY <3>1, <4>3
    <3>. QED  BY <3>1
  <2>7. Tallies(h, w, T)
    <3>1. h = [U \in SUBSET T |-> IF U = {} THEN 0 ELSE w[First(U)] + h[U \ {First(U)}]]
      <4>. DEFINE k == h
      <4>1. h = [U \in SUBSET T |-> IF U = {} THEN 0 ELSE w[First(U)] + k[U \ {First(U)}]]
        <5>. HIDE DEF sum
        <5>1. \A U \in SUBSET T : sum(U) = IF U = {} THEN 0 ELSE w[First(U)] + k[U \ {First(U)}]
          BY <2>6
        <5>. HIDE DEF k
        <5>. QED  BY <5>1
      <4>. QED  BY <4>1
    <3>. HIDE DEF h
    <3>. QED  BY <3>1 DEF Tallies
  <2>. HIDE DEF h
  <2>8. \E g \in [SUBSET T -> Int] : Tallies(g, w, T)
    BY <2>4, <2>7
  <2>. QED  BY <2>8
<1>. HIDE DEF F
<1>2. S \in F
  BY <1>1, FiniteIsBuiltUp
<1>. QED  BY <1>2 DEF F

LEMMA SumIsTally ==
    ASSUME NEW w, NEW S, IsFiniteSet(S), Ints(w, S), NEW g, Tallies(g, w, S)
    PROVE  SumFunctionOnSet(w, S) = g[S]
<1>1. \A h : Tallies(h, w, S) => h = g
  <2>. SUFFICES ASSUME NEW h, Tallies(h, w, S) PROVE h = g
    OBVIOUS
  <2>1. \A s \in SUBSET S : h[s] = g[s]
    BY TalliesAgree
  <2>2. h = [s \in SUBSET S |-> h[s]] /\ g = [s \in SUBSET S |-> g[s]]
    BY DEF Tallies
  <2>. QED  BY <2>1, <2>2
<1>. QED
  BY <1>1 DEF Tallies, First, SumFunctionOnSet, FoldFunctionOnSet, MapThenFoldSet

LEMMA SumOfNone == ASSUME NEW w PROVE SumFunctionOnSet(w, {}) = 0
<1>1. IsFiniteSet({}) /\ Ints(w, {})
  BY FS_EmptySet DEF Ints
<1>2. PICK g \in [SUBSET {} -> Int] : Tallies(g, w, {})
  BY <1>1, TallyExists
<1>3. g[{}] = 0
  BY <1>2, TallyStep
<1>. QED  BY <1>1, <1>2, <1>3, SumIsTally

LEMMA SumIsInt ==
    ASSUME NEW w, NEW S, IsFiniteSet(S), Ints(w, S)
    PROVE  SumFunctionOnSet(w, S) \in Int
<1>1. PICK g \in [SUBSET S -> Int] : Tallies(g, w, S)
  BY TallyExists
<1>2. g[S] \in Int
  OBVIOUS
<1>. QED  BY <1>1, <1>2, SumIsTally

LEMMA SumOfFirst ==
    ASSUME NEW w, NEW S, IsFiniteSet(S), Ints(w, S), S # {}
    PROVE  SumFunctionOnSet(w, S) = w[First(S)] + SumFunctionOnSet(w, S \ {First(S)})
<1> DEFINE V == S \ {First(S)}
<1>1. PICK g \in [SUBSET S -> Int] : Tallies(g, w, S)
  BY TallyExists
<1>2. IsFiniteSet(V) /\ Ints(w, V) /\ V \subseteq S
  BY FS_Subset DEF Ints
<1>3. PICK h \in [SUBSET V -> Int] : Tallies(h, w, V)
  BY <1>2, TallyExists
<1>4. g[S] = w[First(S)] + g[V]
  BY <1>1, TallyStep
<1>. HIDE DEF V
<1>5. h[V] = g[V]
  BY <1>1, <1>2, <1>3, TalliesAgree
<1>6. SumFunctionOnSet(w, S) = g[S] /\ SumFunctionOnSet(w, V) = h[V]
  BY <1>1, <1>2, <1>3, SumIsTally
<1>. QED  BY <1>4, <1>5, <1>6 DEF V

\* The order in which a sum is taken does not matter.
LEMMA SumWithout ==
    ASSUME NEW w, NEW S, IsFiniteSet(S), Ints(w, S), NEW x \in S
    PROVE  SumFunctionOnSet(w, S) = w[x] + SumFunctionOnSet(w, S \ {x})
<1> DEFINE Sum(T) == SumFunctionOnSet(w, T)
           F == {T \in SUBSET S : \A y \in T : Sum(T) = w[y] + Sum(T \ {y})}
<1>0. \A T \in SUBSET S : IsFiniteSet(T) /\ Ints(w, T) /\ Sum(T) \in Int
  BY FS_Subset, SumIsInt DEF Ints
<1>1. ASSUME NEW T \in SUBSET S, \A U \in SUBSET T : U # T => U \in F
      PROVE  T \in F
  <2>. SUFFICES ASSUME NEW y \in T PROVE Sum(T) = w[y] + Sum(T \ {y})
    OBVIOUS
  <2>. DEFINE a == First(T)
  <2>1. a \in T
    BY FirstIsIn
  <2>2. Sum(T) = w[a] + Sum(T \ {a})
    BY <1>0, SumOfFirst
  <2>3. CASE a = y
    BY <2>2, <2>3
  <2>4. CASE a # y
    <3>. HIDE DEF a
    <3>1. T \ {a} \in F /\ T \ {y} \in F
      BY <2>1, <1>1
    <3>2. Sum(T \ {a}) = w[y] + Sum((T \ {a}) \ {y})
      BY <3>1, <2>4
    <3>3. Sum(T \ {y}) = w[a] + Sum((T \ {y}) \ {a})
      BY <3>1, <2>1, <2>4
    <3>4. (T \ {a}) \ {y} = (T \ {y}) \ {a}
      OBVIOUS
    <3>5. Sum((T \ {a}) \ {y}) \in Int /\ w[a] \in Int /\ w[y] \in Int
      BY <1>0, <2>1 DEF Ints
    <3> DEFINE u == Sum((T \ {a}) \ {y})
               p == Sum(T \ {a})
               q == Sum(T \ {y})
    <3>6. p = w[y] + u /\ q = w[a] + u /\ u \in Int
      BY <3>2, <3>3, <3>4, <3>5
    <3>. HIDE DEF u, p, q, Sum
    <3>7. w[a] + p = w[y] + q
      BY <3>5, <3>6
    <3>. QED  BY <2>2, <3>7 DEF p, q
  <2>. QED  BY <2>3, <2>4
<1>. HIDE DEF F
<1>2. S \in F
  BY <1>1, FiniteIsBuiltUp
<1>. QED  BY <1>2 DEF F

LEMMA SumWith ==
    ASSUME NEW w, NEW S, IsFiniteSet(S), Ints(w, S), NEW x, x \notin S, w[x] \in Int
    PROVE  SumFunctionOnSet(w, S \union {x}) = w[x] + SumFunctionOnSet(w, S)
<1>1. IsFiniteSet(S \union {x}) /\ Ints(w, S \union {x})
  BY FS_AddElement DEF Ints
<1>2. (S \union {x}) \ {x} = S
  OBVIOUS
<1>. QED  BY <1>1, <1>2, SumWithout

\* Induction for sums: what holds of the empty set, and of a set with one
\* element more, holds of every subset of a finite set.
LEMMA FiniteByElements ==
    ASSUME NEW S, IsFiniteSet(S), NEW F, {} \in F,
           \A T \in SUBSET S : \A x \in S \ T : T \in F => T \union {x} \in F
    PROVE  SUBSET S \subseteq F
<1>1. ASSUME NEW T \in SUBSET S, \A U \in SUBSET T : U # T => U \in F
      PROVE  T \in F
  <2>1. CASE T = {}
    BY <2>1
  <2>2. CASE T # {}
    <3>1. PICK x \in T : TRUE
      BY <2>2
    <3>2. T \ {x} \in F /\ T \ {x} \in SUBSET S /\ x \in S \ (T \ {x})
      BY <1>1, <3>1
    <3>3. (T \ {x}) \union {x} = T
      BY <3>1
    <3>. QED  BY <3>2, <3>3
  <2>. QED  BY <2>1, <2>2
<1>. QED  BY <1>1, FiniteIsBuiltUp

LEMMA SumIsMonotone ==
    ASSUME NEW S, IsFiniteSet(S), NEW v, NEW w, Ints(v, S), Ints(w, S),
           \A x \in S : v[x] <= w[x]
    PROVE  SumFunctionOnSet(v, S) <= SumFunctionOnSet(w, S)
<1> DEFINE F == {T \in SUBSET S : SumFunctionOnSet(v, T) <= SumFunctionOnSet(w, T)}
<1>0. \A T \in SUBSET S : /\ IsFiniteSet(T) /\ Ints(v, T) /\ Ints(w, T)
                          /\ SumFunctionOnSet(v, T) \in Int /\ SumFunctionOnSet(w, T) \in Int
  BY FS_Subset, SumIsInt DEF Ints
<1>1. {} \in F
  BY SumOfNone
<1>2. ASSUME NEW T \in SUBSET S, NEW x \in S \ T, T \in F PROVE T \union {x} \in F
  <2>1. v[x] \in Int /\ w[x] \in Int /\ v[x] <= w[x]
    BY DEF Ints
  <2>2. /\ SumFunctionOnSet(v, T \union {x}) = v[x] + SumFunctionOnSet(v, T)
        /\ SumFunctionOnSet(w, T \union {x}) = w[x] + SumFunctionOnSet(w, T)
    BY <1>0, <2>1, SumWith
  <2>3. SumFunctionOnSet(v, T \union {x}) <= SumFunctionOnSet(w, T \union {x})
    BY <1>0, <1>2, <2>1, <2>2
  <2>. QED  BY <2>3
<1>. HIDE DEF F
<1>3. S \in F
  BY <1>1, <1>2, FiniteByElements
<1>. QED  BY <1>3 DEF F

\* Sums of pointwise combinations: a * v + b * w.
Combines(u, a, v, b, w, S) == \A x \in S : u[x] = a * v[x] + b * w[x]

LEMMA SumIsLinear ==
    ASSUME NEW S, IsFiniteSet(S), NEW u, NEW v, NEW w, Ints(v, S), Ints(w, S),
           NEW a \in Int, NEW b \in Int, Combines(u, a, v, b, w, S)
    PROVE  SumFunctionOnSet(u, S) = a * SumFunctionOnSet(v, S) + b * SumFunctionOnSet(w, S)
<1> DEFINE Is(T) == SumFunctionOnSet(u, T) = a * SumFunctionOnSet(v, T) + b * SumFunctionOnSet(w, T)
           F == {T \in SUBSET S : Is(T)}
<1>a. Ints(u, S)
  BY DEF Ints, Combines
<1>0. \A T \in SUBSET S : /\ IsFiniteSet(T) /\ Ints(u, T) /\ Ints(v, T) /\ Ints(w, T)
                          /\ SumFunctionOnSet(v, T) \in Int /\ SumFunctionOnSet(w, T) \in Int
  BY <1>a, FS_Subset, SumIsInt DEF Ints
<1>1. {} \in F
  BY SumOfNone
<1>2. ASSUME NEW T \in SUBSET S, NEW x \in S \ T, T \in F PROVE T \union {x} \in F
  <2>1. v[x] \in Int /\ w[x] \in Int /\ u[x] \in Int /\ u[x] = a * v[x] + b * w[x]
    BY <1>a DEF Ints, Combines
  <2>2. /\ SumFunctionOnSet(u, T \union {x}) = u[x] + SumFunctionOnSet(u, T)
        /\ SumFunctionOnSet(v, T \union {x}) = v[x] + SumFunctionOnSet(v, T)
        /\ SumFunctionOnSet(w, T \union {x}) = w[x] + SumFunctionOnSet(w, T)
    BY <1>0, <2>1, SumWith
  <2>3. \A p, q, r, s \in Int : (a * p + b * q) + (a * r + b * s) = a * (p + r) + b * (q + s)
    OBVIOUS
  <2>4. SumFunctionOnSet(v, T) \in Int /\ SumFunctionOnSet(w, T) \in Int
    BY <1>0
  <2>5. Is(T \union {x})
    BY <1>2, <2>1, <2>2, <2>3, <2>4
  <2>. QED  BY <2>5
<1>. HIDE DEF F
<1>3. S \in F
  BY <1>1, <1>2, FiniteByElements
<1>. QED  BY <1>3 DEF F

LEMMA SumOfConstant ==
    ASSUME NEW S, IsFiniteSet(S), NEW w, NEW c \in Int, \A x \in S : w[x] = c
    PROVE  SumFunctionOnSet(w, S) = c * Cardinality(S)
<1> DEFINE F == {T \in SUBSET S : SumFunctionOnSet(w, T) = c * Cardinality(T)}
<1>0. \A T \in SUBSET S : IsFiniteSet(T) /\ Ints(w, T) /\ Cardinality(T) \in Nat
  BY FS_Subset, FS_CardinalityType DEF Ints
<1>1. {} \in F
  BY SumOfNone, FS_EmptySet
<1>2. ASSUME NEW T \in SUBSET S, NEW x \in S \ T, T \in F PROVE T \union {x} \in F
  <2>1. SumFunctionOnSet(w, T \union {x}) = c + SumFunctionOnSet(w, T)
    BY <1>0, SumWith
  <2>2. Cardinality(T \union {x}) = Cardinality(T) + 1
    BY <1>0, FS_AddElement
  <2>3. \A n \in Nat : c + c * n = c * (n + 1)
    OBVIOUS
  <2>4. SumFunctionOnSet(w, T \union {x}) = c * Cardinality(T \union {x})
    BY <1>0, <1>2, <2>1, <2>2, <2>3
  <2>. QED  BY <2>4
<1>. HIDE DEF F
<1>3. S \in F
  BY <1>1, <1>2, FiniteByElements
<1>. QED  BY <1>3 DEF F

\* Only the values count, and only where they are not zero.
LEMMA SumIsLocal ==
    ASSUME NEW S, IsFiniteSet(S), NEW v, NEW w, Ints(v, S), \A x \in S : v[x] = w[x]
    PROVE  SumFunctionOnSet(v, S) = SumFunctionOnSet(w, S)
<1>1. Ints(w, S) /\ \A x \in S : v[x] <= w[x] /\ w[x] <= v[x]
  BY DEF Ints
<1>2. SumFunctionOnSet(v, S) \in Int /\ SumFunctionOnSet(w, S) \in Int
  BY <1>1, SumIsInt
<1>3. SumFunctionOnSet(v, S) <= SumFunctionOnSet(w, S) /\ SumFunctionOnSet(w, S) <= SumFunctionOnSet(v, S)
  BY <1>1, SumIsMonotone
<1>. QED  BY <1>2, <1>3

LEMMA SumOfSupport ==
    ASSUME NEW S, IsFiniteSet(S), NEW w, Ints(w, S), NEW P \in SUBSET S,
           \A x \in S \ P : w[x] = 0
    PROVE  SumFunctionOnSet(w, S) = SumFunctionOnSet(w, P)
<1> DEFINE F == {T \in SUBSET S : SumFunctionOnSet(w, T) = SumFunctionOnSet(w, T \intersect P)}
<1>0. \A T \in SUBSET S : /\ IsFiniteSet(T) /\ Ints(w, T) /\ SumFunctionOnSet(w, T) \in Int
                          /\ T \intersect P \in SUBSET S
  BY FS_Subset, SumIsInt DEF Ints
<1>1. {} \in F
  <2>1. {} \intersect P = {}
    OBVIOUS
  <2>. QED  BY <2>1
<1>2. ASSUME NEW T \in SUBSET S, NEW x \in S \ T, T \in F PROVE T \union {x} \in F
  <2>1. w[x] \in Int
    BY DEF Ints
  <2>2. SumFunctionOnSet(w, T \union {x}) = w[x] + SumFunctionOnSet(w, T)
    BY <1>0, <2>1, SumWith
  <2>3. CASE x \in P
    <3>1. (T \union {x}) \intersect P = (T \intersect P) \union {x} /\ x \notin T \intersect P
      BY <2>3
    <3>2. IsFiniteSet(T \intersect P) /\ Ints(w, T \intersect P)
      BY <1>0
    <3>3. SumFunctionOnSet(w, (T \intersect P) \union {x}) = w[x] + SumFunctionOnSet(w, T \intersect P)
      BY <2>1, <3>1, <3>2, SumWith
    <3>4. SumFunctionOnSet(w, T \union {x}) = SumFunctionOnSet(w, (T \union {x}) \intersect P)
      BY <1>2, <2>2, <3>1, <3>3
    <3>. QED  BY <3>4
  <2>4. CASE x \notin P
    <3>1. (T \union {x}) \intersect P = T \intersect P /\ w[x] = 0
      BY <2>4
    <3>2. SumFunctionOnSet(w, T \union {x}) = SumFunctionOnSet(w, (T \union {x}) \intersect P)
      BY <1>0, <1>2, <2>2, <3>1
    <3>. QED  BY <3>2
  <2>. QED  BY <2>3, <2>4
<1>. HIDE DEF F
<1>3. S \in F
  BY <1>1, <1>2, FiniteByElements
<1>4. S \intersect P = P
  OBVIOUS
<1>. QED  BY <1>3, <1>4 DEF F

LEMMA SumIsNat ==
    ASSUME NEW S, IsFiniteSet(S), NEW w, \A x \in S : w[x] \in Nat
    PROVE  SumFunctionOnSet(w, S) \in Nat
<1> DEFINE z == [x \in S |-> 0]
<1>1. Ints(z, S) /\ Ints(w, S) /\ \A x \in S : z[x] <= w[x]
  BY DEF Ints
<1>2. SumFunctionOnSet(z, S) = 0 * Cardinality(S) /\ Cardinality(S) \in Nat
  <2>1. \A x \in S : z[x] = 0
    OBVIOUS
  <2>. HIDE DEF z
  <2>. QED  BY <2>1, SumOfConstant, FS_CardinalityType
<1>. HIDE DEF z
<1>3. SumFunctionOnSet(z, S) <= SumFunctionOnSet(w, S) /\ SumFunctionOnSet(w, S) \in Int
  BY <1>1, SumIsMonotone, SumIsInt
<1>. QED  BY <1>2, <1>3

LEMMA SumCoversEach ==
    ASSUME NEW S, IsFiniteSet(S), NEW w, \A x \in S : w[x] \in Nat, NEW x \in S
    PROVE  w[x] <= SumFunctionOnSet(w, S)
<1>1. SumFunctionOnSet(w, S) = w[x] + SumFunctionOnSet(w, S \ {x})
  BY SumWithout DEF Ints
<1>2. SumFunctionOnSet(w, S \ {x}) \in Nat
  <2>1. IsFiniteSet(S \ {x})
    BY FS_Subset
  <2>. QED  BY <2>1, SumIsNat
<1>. QED  BY <1>1, <1>2

\* A sum does not depend on how its terms are named.
LEMMA SumOverBijection ==
    ASSUME NEW S, NEW T, IsFiniteSet(S), NEW f \in Bijection(S, T),
           NEW u, NEW w, Ints(w, T), \A x \in S : u[x] = w[f[x]]
    PROVE  SumFunctionOnSet(u, S) = SumFunctionOnSet(w, T)
<1> DEFINE image(A) == {f[x] : x \in A}
           F == {A \in SUBSET S : SumFunctionOnSet(u, A) = SumFunctionOnSet(w, image(A))}
<1>1. /\ \A x \in S : f[x] \in T
      /\ \A x, y \in S : f[x] = f[y] => x = y
      /\ \A t \in T : \E x \in S : f[x] = t
  BY DEF Bijection, Injection, Surjection, IsInjective
<1>2. \A A \in SUBSET S : IsFiniteSet(A) /\ IsFiniteSet(image(A)) /\ Ints(u, A) /\ Ints(w, image(A))
  <2>1. \A A \in SUBSET S : IsFiniteSet(A) /\ IsFiniteSet(image(A))
    BY FS_Subset, ImageIsFinite
  <2>2. \A A \in SUBSET S : Ints(u, A) /\ Ints(w, image(A))
    BY <1>1 DEF Ints
  <2>. QED  BY <2>1, <2>2
<1>3. {} \in F
  <2>1. image({}) = {}
    OBVIOUS
  <2>. QED  BY <2>1, SumOfNone
<1>4. ASSUME NEW A \in SUBSET S, NEW x \in S \ A, A \in F PROVE A \union {x} \in F
  <2>1. image(A \union {x}) = image(A) \union {f[x]} /\ f[x] \notin image(A)
    BY <1>1
  <2>2. u[x] \in Int /\ w[f[x]] \in Int /\ u[x] = w[f[x]]
    BY <1>1 DEF Ints
  <2>3. SumFunctionOnSet(u, A \union {x}) = u[x] + SumFunctionOnSet(u, A)
    BY <1>2, <2>2, SumWith
  <2>. HIDE DEF image
  <2>4. SumFunctionOnSet(w, image(A) \union {f[x]}) = w[f[x]] + SumFunctionOnSet(w, image(A))
    BY <1>2, <2>1, <2>2, SumWith
  <2>. QED  BY <1>4, <2>1, <2>2, <2>3, <2>4
<1>. HIDE DEF F
<1>5. S \in F
  BY <1>3, <1>4, FiniteByElements
<1>6. image(S) = T
  BY <1>1
<1>. QED  BY <1>5, <1>6 DEF F

\* Terms that name the same thing twice count it twice.
LEMMA SumOverImage ==
    ASSUME NEW S, IsFiniteSet(S), NEW f, NEW u, NEW w,
           \A x \in S : w[f[x]] \in Nat /\ u[x] = w[f[x]]
    PROVE  SumFunctionOnSet(w, {f[x] : x \in S}) <= SumFunctionOnSet(u, S)
<1> DEFINE image(A) == {f[x] : x \in A}
           F == {A \in SUBSET S : SumFunctionOnSet(w, image(A)) <= SumFunctionOnSet(u, A)}
<1>1. \A A \in SUBSET S : IsFiniteSet(A) /\ IsFiniteSet(image(A)) /\ Ints(u, A) /\ Ints(w, image(A))
  <2>1. ASSUME NEW A \in SUBSET S PROVE IsFiniteSet(A) /\ IsFiniteSet(image(A))
    <3>1. IsFiniteSet(A)
      BY FS_Subset
    <3>. QED  BY <3>1, ImageIsFinite
  <2>2. \A A \in SUBSET S : Ints(u, A) /\ Ints(w, image(A))
    BY DEF Ints
  <2>. QED  BY <2>1, <2>2
<1>2. \A A \in SUBSET S : SumFunctionOnSet(u, A) \in Int /\ SumFunctionOnSet(w, image(A)) \in Int
  <2>. HIDE DEF image
  <2>. QED  BY <1>1, SumIsInt
<1>3. {} \in F
  <2>1. image({}) = {}
    OBVIOUS
  <2>. QED  BY <2>1, SumOfNone
<1>4. ASSUME NEW A \in SUBSET S, NEW x \in S \ A, A \in F PROVE A \union {x} \in F
  <2>1. image(A \union {x}) = image(A) \union {f[x]}
    OBVIOUS
  <2>2. u[x] \in Nat /\ u[x] = w[f[x]] /\ u[x] \in Int /\ w[f[x]] \in Int
    OBVIOUS
  <2>3. SumFunctionOnSet(u, A \union {x}) = u[x] + SumFunctionOnSet(u, A)
    <3>1. IsFiniteSet(A) /\ Ints(u, A) /\ x \notin A
      BY <1>1
    <3>. HIDE DEF image, F
    <3>. QED  BY <2>2, <3>1, SumWith, Zenon
  <2>4. SumFunctionOnSet(w, image(A)) <= SumFunctionOnSet(u, A)
    BY <1>4
  <2>. HIDE DEF image
  <2>5. CASE f[x] \in image(A)
    <3>1. image(A \union {x}) = image(A)
      BY <2>1, <2>5
    <3>2. SumFunctionOnSet(w, image(A)) <= u[x] + SumFunctionOnSet(u, A)
      BY <1>2, <2>2, <2>4
    <3>. QED  BY <2>3, <3>1, <3>2
  <2>6. CASE f[x] \notin image(A)
    <3>1. SumFunctionOnSet(w, image(A) \union {f[x]}) = w[f[x]] + SumFunctionOnSet(w, image(A))
      BY <1>1, <2>2, <2>6, SumWith
    <3>2. w[f[x]] + SumFunctionOnSet(w, image(A)) <= u[x] + SumFunctionOnSet(u, A)
      BY <1>2, <2>2, <2>4
    <3>. QED  BY <2>1, <2>3, <3>1, <3>2
  <2>. QED  BY <2>5, <2>6
<1>. HIDE DEF F
<1>5. S \in F
  BY <1>3, <1>4, FiniteByElements
<1>. QED  BY <1>5 DEF F

\* The quotients of parts that add up to p add up to the whole, less than one
\* short each.
LEMMA SharesAddUp ==
    ASSUME NEW S, IsFiniteSet(S), NEW n, \A b \in S : n[b] \in Nat,
           NEW x \in Nat, NEW d \in Nat \ {0}, NEW p \in Nat \ {0}, p = SumFunctionOnSet(n, S),
           NEW q, \A b \in S : q[b] = (x * n[b]) \div (d * p)
    PROVE  /\ d * SumFunctionOnSet(q, S) <= x
           /\ x <= d * (SumFunctionOnSet(q, S) + Cardinality(S))
<1> DEFINE dp == d * p
           whole == [b \in S |-> x * n[b]]
           low == [b \in S |-> dp * q[b]]
           high == [b \in S |-> dp * q[b] + dp * 1]
           one == [b \in S |-> 1]
           Q == SumFunctionOnSet(q, S)
           c == Cardinality(S)
<1>1. dp \in Nat \ {0}
  OBVIOUS
<1>2. \A b \in S : /\ q[b] \in Int /\ x * n[b] \in Int
                   /\ dp * q[b] <= x * n[b] /\ x * n[b] <= dp * q[b] + dp * 1
  <2>. SUFFICES ASSUME NEW b \in S
                PROVE  /\ q[b] \in Int /\ x * n[b] \in Int
                       /\ dp * q[b] <= x * n[b] /\ x * n[b] <= dp * q[b] + dp * 1
    OBVIOUS
  <2> DEFINE y == x * n[b]
             k == y \div dp
             r == y % dp
  <2>1. y \in Int
    OBVIOUS
  <2>. HIDE DEF y, dp
  <2>2. k \in Int /\ r \in 0..(dp - 1) /\ y = dp * k + r
    BY <1>1, <2>1
  <2>3. q[b] = k
    BY DEF y, dp
  <2>. HIDE DEF k, r
  <2>4. dp * k \in Int
    BY <1>1, <2>2
  <2> DEFINE z == dp * k
  <2>. HIDE DEF z
  <2>5. z <= y /\ y <= z + dp * 1
    BY <1>1, <2>1, <2>2, <2>4 DEF z
  <2>. QED  BY <2>1, <2>2, <2>3, <2>5 DEF y, z
<1>3. Ints(whole, S) /\ Ints(low, S) /\ Ints(high, S) /\ Ints(one, S) /\ Ints(q, S) /\ Ints(n, S)
  <2>1. \A b \in S : dp * q[b] \in Int /\ dp * q[b] + dp * 1 \in Int
    <3>. HIDE DEF dp
    <3>. QED  BY <1>1, <1>2
  <2>. HIDE DEF dp
  <2>. QED  BY <1>2, <2>1 DEF Ints
<1>4. Q \in Int /\ c \in Nat
  BY <1>3, SumIsInt, FS_CardinalityType
<1>5. SumFunctionOnSet(whole, S) = x * p
  <2>1. \A b \in S : whole[b] = x * n[b] + 0 * n[b]
    <3>1. \A b \in S : n[b] \in Nat /\ whole[b] = x * n[b]
      OBVIOUS
    <3>2. \A b \in S : 0 * n[b] = 0 /\ x * n[b] + 0 = x * n[b]
      BY <3>1
    <3>. HIDE DEF whole
    <3>. QED  BY <3>1, <3>2
  <2>. HIDE DEF whole
  <2>a. Combines(whole, x, n, 0, n, S) /\ x \in Int /\ 0 \in Int
    BY <2>1 DEF Combines
  <2>2. SumFunctionOnSet(whole, S) = x * SumFunctionOnSet(n, S) + 0 * SumFunctionOnSet(n, S)
    BY <1>3, <2>a, SumIsLinear
  <2>3. x * p + 0 * p = x * p
    OBVIOUS
  <2>. QED  BY <2>2, <2>3
<1>6. SumFunctionOnSet(low, S) = dp * Q
  <2>. HIDE DEF dp
  <2>1. \A b \in S : low[b] = dp * q[b] + 0 * q[b]
    <3>1. \A b \in S : q[b] \in Int /\ low[b] = dp * q[b]
      BY <1>2
    <3>2. \A b \in S : 0 * q[b] = 0 /\ dp * q[b] + 0 = dp * q[b]
      BY <1>1, <3>1
    <3>. HIDE DEF low
    <3>. QED  BY <3>1, <3>2
  <2>. HIDE DEF low
  <2>a. Combines(low, dp, q, 0, q, S) /\ dp \in Int /\ 0 \in Int
    BY <1>1, <2>1 DEF Combines
  <2>2. SumFunctionOnSet(low, S) = dp * SumFunctionOnSet(q, S) + 0 * SumFunctionOnSet(q, S)
    BY <1>3, <2>a, SumIsLinear
  <2>3. dp * Q + 0 * Q = dp * Q
    BY <1>1, <1>4
  <2>. QED  BY <2>2, <2>3
<1>7. SumFunctionOnSet(high, S) = dp * Q + dp * c
  <2>. HIDE DEF dp
  <2>1. \A b \in S : high[b] = dp * q[b] + dp * one[b]
    OBVIOUS
  <2>2. \A b \in S : one[b] = 1
    OBVIOUS
  <2>. HIDE DEF high, one
  <2>a. Combines(high, dp, q, dp, one, S) /\ dp \in Int
    BY <1>1, <2>1 DEF Combines
  <2>3. SumFunctionOnSet(high, S) = dp * SumFunctionOnSet(q, S) + dp * SumFunctionOnSet(one, S)
    BY <1>3, <2>a, SumIsLinear
  <2> DEFINE k == 1
  <2>4. k \in Int /\ \A b \in S : one[b] = k
    BY <2>2
  <2>. HIDE DEF k
  <2>5. SumFunctionOnSet(one, S) = k * Cardinality(S)
    BY <2>4, SumOfConstant
  <2>6. k * c = c
    BY <1>4 DEF k
  <2>. QED  BY <1>4, <2>3, <2>5, <2>6
<1>8. dp * Q <= x * p /\ x * p <= dp * Q + dp * c
  <2>1. \A b \in S : low[b] <= whole[b] /\ whole[b] <= high[b]
    <3>. HIDE DEF dp
    <3>. QED  BY <1>2
  <2>. HIDE DEF low, whole, high, dp, Q, c
  <2>2. SumFunctionOnSet(low, S) <= SumFunctionOnSet(whole, S)
    BY <1>3, <2>1, SumIsMonotone
  <2>3. SumFunctionOnSet(whole, S) <= SumFunctionOnSet(high, S)
    BY <1>3, <2>1, SumIsMonotone
  <2>. QED  BY <1>5, <1>6, <1>7, <2>2, <2>3
<1>. HIDE DEF Q, c, whole, low, high, one
<1>9. dp * Q = (d * Q) * p /\ dp * Q + dp * c = (d * (Q + c)) * p
  BY <1>4
<1> DEFINE a == d * Q
           e == d * (Q + c)
<1>10. a \in Int /\ e \in Int
  BY <1>4
<1>. HIDE DEF a, e, dp
<1>11. a * p <= x * p /\ x * p <= e * p
  BY <1>8, <1>9 DEF a, e
<1>12. a <= x
  <2>. SUFFICES ASSUME x + 1 <= a PROVE FALSE
    BY <1>10
  <2>1. (x + 1) * p <= a * p /\ (x + 1) * p = x * p + p
    BY <1>10
  <2>. QED  BY <1>10, <1>11, <2>1
<1>13. x <= e
  <2>. SUFFICES ASSUME e + 1 <= x PROVE FALSE
    BY <1>10
  <2>1. (e + 1) * p <= x * p /\ (e + 1) * p = e * p + p
    BY <1>10
  <2>. QED  BY <1>10, <1>11, <2>1
<1>. QED  BY <1>12, <1>13 DEF a, e, Q, c

-----------------------------------------------------------------------------
(* One list after another.                                                 *)

LEMMA SequencesAreLists ==
    ASSUME NEW S, NEW f \in Seq(S), NEW n, n = Len(f)
    PROVE  f \in [1..n -> S]
OBVIOUS

Joins(u, s, a, t, b) ==
    /\ u \in [1..(a + b) -> Int]
    /\ \A i \in 1..a : u[i] = s[i]
    /\ \A i \in 1..b : u[a + i] = t[i]

LEMMA Concatenated ==
    ASSUME NEW a \in Nat, NEW b \in Nat, NEW s \in [1..a -> Int], NEW t \in [1..b -> Int]
    PROVE  Joins(s \o t, s, a, t, b)
<1>1. s \in Seq(Int) /\ Len(s) = a /\ t \in Seq(Int) /\ Len(t) = b
  BY ListsAreSequences
<1>2. s \o t \in Seq(Int) /\ Len(s \o t) = a + b
  BY SMTT(30), <1>1
<1>3. s \o t \in [1..(a + b) -> Int]
  BY <1>2, SequencesAreLists
<1>4. \A i \in 1..a : (s \o t)[i] = s[i]
  BY <1>1
<1>5. \A i \in 1..b : (s \o t)[a + i] = t[i]
  <2>. SUFFICES ASSUME NEW i \in 1..b PROVE (s \o t)[a + i] = t[i]
    OBVIOUS
  <2> DEFINE j == a + i
  <2>1. j \in 1..(a + b) /\ ~(j <= a) /\ j - a = i
    OBVIOUS
  <2>2. ASSUME NEW k \in 1..(Len(s) + Len(t))
        PROVE  (s \o t)[k] = IF k <= Len(s) THEN s[k] ELSE t[k - Len(s)]
    BY SMTT(30), <1>1
  <2>. HIDE DEF j
  <2>3. (s \o t)[j] = t[j - a]
    BY <1>1, <2>1, <2>2
  <2>4. (s \o t)[j] = t[i]
    BY Zenon, <2>1, <2>3
  <2>. QED  BY Zenon, <2>4 DEF j
<1>. QED  BY <1>3, <1>4, <1>5 DEF Joins

Flattened(f, seqs, n) == f = [i \in 1..n |-> IF i = 1 THEN seqs[i] ELSE f[i - 1] \o seqs[i]]

LEMMA FlattenExists ==
    ASSUME NEW S, NEW n \in Nat \ {0}, NEW seqs, \A i \in 1..n : seqs[i] \in Seq(S)
    PROVE  \E f : Flattened(f, seqs, n)
<1> DEFINE next(k) == IF k + 2 <= n THEN seqs[k + 2] ELSE <<>>
           F == [k \in Nat |-> [s \in Seq(S) |-> s \o next(k)]]
<1>1. StaysIn(F, Seq(S))
  <2>1. ASSUME NEW k \in Nat PROVE next(k) \in Seq(S)
    <3>1. CASE k + 2 <= n
      <4>1. k + 2 \in 1..n
        BY <3>1
      <4>. QED  BY <3>1, <4>1
    <3>2. CASE ~(k + 2 <= n)
      BY <3>2
    <3>. QED  BY <3>1, <3>2
  <2>. HIDE DEF next
  <2>2. \A k \in Nat, s \in Seq(S) : s \o next(k) \in Seq(S)
    BY <2>1
  <2>. QED  BY <2>2 DEF StaysIn
<1>2. seqs[1] \in Seq(S)
  OBVIOUS
<1>3. \A k \in Nat, s \in Seq(S) : F[k][s] = s \o next(k)
  OBVIOUS
<1>. HIDE DEF F
<1>4. PICK g \in [Nat -> Seq(S)] : Recursion(g, seqs[1], F)
  BY <1>1, <1>2, RecursionExists
<1> DEFINE f == [i \in 1..n |-> g[i - 1]]
<1>5. ASSUME NEW i \in 1..n PROVE g[i - 1] = IF i = 1 THEN seqs[i] ELSE f[i - 1] \o seqs[i]
  <2>1. CASE i = 1
    BY <1>4, <2>1 DEF Recursion
  <2>2. CASE i # 1
    <3>1. i - 2 \in Nat /\ (i - 2) + 1 = i - 1 /\ (i - 2) + 2 = i /\ i - 1 \in 1..n /\ (i - 1) - 1 = i - 2
      BY <2>2
    <3>2. g[(i - 2) + 1] = F[i - 2][g[i - 2]]
      BY <3>1, <1>4 DEF Recursion
    <3>3. F[i - 2][g[i - 2]] = g[i - 2] \o next(i - 2)
      <4>. HIDE DEF next
      <4>1. g[i - 2] \in Seq(S)
        BY <3>1
      <4>. QED  BY <3>1, <4>1, <1>3
    <3>5. next(i - 2) = seqs[i]
      BY <3>1
    <3>4. f[i - 1] = g[i - 2]
      BY <3>1
    <3>. HIDE DEF next, f
    <3>. QED  BY <2>2, <3>1, <3>2, <3>3, <3>4, <3>5
  <2>. QED  BY <2>1, <2>2
<1>6. f = [i \in 1..n |-> IF i = 1 THEN seqs[i] ELSE f[i - 1] \o seqs[i]]
  <2> DEFINE e == f
  <2>1. \A i \in 1..n : g[i - 1] = IF i = 1 THEN seqs[i] ELSE e[i - 1] \o seqs[i]
    BY <1>5
  <2>2. f = [i \in 1..n |-> IF i = 1 THEN seqs[i] ELSE e[i - 1] \o seqs[i]]
    <3>. HIDE DEF e
    <3>. QED  BY <2>1
  <2>. QED  BY <2>2
<1>. HIDE DEF f
<1>. QED  BY <1>6 DEF Flattened

\* n lists of m numbers, flattened: m numbers from each, in order.
LEMMA FlattenOfEqualLists ==
    ASSUME NEW n \in Nat \ {0}, NEW m \in Nat, NEW seqs \in [1..n -> [1..m -> Int]]
    PROVE  /\ FlattenSeq(seqs) \in [1..(n * m) -> Int]
           /\ \A d \in 1..n, k \in 1..m : FlattenSeq(seqs)[(d - 1) * m + k] = seqs[d][k]
<1>1. Len(seqs) = n
  BY ListsAreSequences
<1>2. \A i \in 1..n : seqs[i] \in [1..m -> Int] /\ seqs[i] \in Seq(Int)
  BY ListsAreSequences
<1> DEFINE f == CHOOSE h : Flattened(h, seqs, n)
<1>3. Flattened(f, seqs, n)
  BY <1>2, FlattenExists
<1>4. FlattenSeq(seqs) = f[n]
  <2>1. Len(seqs) # 0
    BY <1>1
  <2>. QED  BY <1>1, <2>1 DEF FlattenSeq, Flattened
<1>. HIDE DEF f
<1>5. f[1] = seqs[1] /\ \A i \in 1..(n - 1) : f[i + 1] = f[i] \o seqs[i + 1]
  <2>1. f = [i \in 1..n |-> IF i = 1 THEN seqs[i] ELSE f[i - 1] \o seqs[i]]
    BY <1>3 DEF Flattened
  <2>2. f[1] = seqs[1]
    BY <2>1
  <2>3. ASSUME NEW i \in 1..(n - 1) PROVE f[i + 1] = f[i] \o seqs[i + 1]
    <3>1. i + 1 \in 1..n /\ i + 1 # 1 /\ (i + 1) - 1 = i
      OBVIOUS
    <3>. QED  BY <2>1, <3>1
  <2>. QED  BY <2>2, <2>3
<1> DEFINE Holds(i) == /\ f[i] \in [1..(i * m) -> Int]
                       /\ \A d \in 1..i, k \in 1..m : f[i][(d - 1) * m + k] = seqs[d][k]
           T == {i \in Nat : i + 1 <= n => Holds(i + 1)}
<1>6. 0 \in T
  <2>1. 1 * m = m /\ (1 - 1) * m = 0 /\ 0 + 1 = 1
    OBVIOUS
  <2>2. f[1] \in [1..(1 * m) -> Int]
    BY <1>2, <1>5, <2>1
  <2>3. ASSUME NEW d \in 1..1, NEW k \in 1..m PROVE f[1][(d - 1) * m + k] = seqs[d][k]
    <3>1. d = 1 /\ 0 + k = k
      OBVIOUS
    <3>. QED  BY <1>5, <2>1, <3>1
  <2>. QED  BY <2>1, <2>2, <2>3
<1>7. ASSUME NEW j \in Nat, j \in T PROVE j + 1 \in T
  <2> DEFINE i == j + 1
  <2>. SUFFICES ASSUME i + 1 <= n PROVE Holds(i + 1)
    OBVIOUS
  <2>1. i \in 1..(n - 1) /\ i \in Nat /\ i + 1 \in 1..n
    OBVIOUS
  <2>2. Holds(i)
    <3>. HIDE DEF Holds
    <3>1. j + 1 <= n
      OBVIOUS
    <3>2. j + 1 <= n => Holds(j + 1)
      BY <1>7
    <3>. QED  BY <3>1, <3>2
  <2>. HIDE DEF i
  <2> DEFINE a == i * m
  <2>3. a \in Nat /\ (i + 1) * m = a + m /\ ((i + 1) - 1) * m = a
    BY <2>1
  <2>4. f[i] \in [1..a -> Int] /\ seqs[i + 1] \in [1..m -> Int] /\ f[i + 1] = f[i] \o seqs[i + 1]
    BY <1>2, <1>5, <2>1, <2>2
  <2>. HIDE DEF a
  <2>5. /\ f[i + 1] \in [1..(a + m) -> Int]
        /\ \A x \in 1..a : f[i + 1][x] = f[i][x]
        /\ \A x \in 1..m : f[i + 1][a + x] = seqs[i + 1][x]
    <3> DEFINE s == f[i]
               t == seqs[i + 1]
    <3>1. s \in [1..a -> Int] /\ t \in [1..m -> Int] /\ f[i + 1] = s \o t /\ a \in Nat
      BY <2>3, <2>4
    <3>. HIDE DEF s, t
    <3>2. Joins(s \o t, s, a, t, m)
      BY <3>1, Concatenated
    <3>. QED  BY <3>1, <3>2 DEF s, t, Joins
  <2>6. ASSUME NEW d \in 1..(i + 1), NEW k \in 1..m PROVE f[i + 1][(d - 1) * m + k] = seqs[d][k]
    <3>1. CASE d = i + 1
      BY <2>3, <2>5, <3>1
    <3>2. CASE d # i + 1
      <4>1. d \in 1..i /\ d \in Nat /\ d <= i
        BY <2>1, <3>2
      <4>2. d * m <= i * m /\ (d - 1) * m = d * m - m /\ (d - 1) * m \in Nat
        BY <2>1, <4>1
      <4>3. (d - 1) * m + k \in 1..a
        <5> DEFINE x == (d - 1) * m
                   y == d * m
        <5>1. x \in Nat /\ y <= a /\ x = y - m /\ y \in Int
          BY <4>2, <2>1, <4>1 DEF a
        <5>. HIDE DEF x, y
        <5>2. x + k \in 1..a
          BY <5>1, <2>3
        <5>. QED  BY <5>2 DEF x
      <4>4. f[i + 1][(d - 1) * m + k] = f[i][(d - 1) * m + k]
        BY <2>5, <4>3
      <4>. QED  BY <2>2, <4>1, <4>4
    <3>. QED  BY <3>1, <3>2
  <2>. QED  BY <2>3, <2>5, <2>6
<1>. HIDE DEF T
<1>8. Nat \subseteq T
  BY <1>6, <1>7, NatIsBuiltUp
<1>9. Holds(n)
  <2>1. n - 1 \in Nat /\ (n - 1) + 1 = n
    OBVIOUS
  <2>2. n - 1 \in T
    BY <1>8, <2>1
  <2>. QED  BY <2>1, <2>2 DEF T
<1>. QED  BY <1>4, <1>9

\* Every position is in one of the lists.
LEMMA PositionInLists ==
    ASSUME NEW n \in Nat \ {0}, NEW m \in Nat, NEW i \in 1..(n * m)
    PROVE  \E d \in 1..n, k \in 1..m : i = (d - 1) * m + k
<1>0. m \in Nat \ {0} /\ i \in Nat /\ i >= 1 /\ i <= n * m
  <2>1. m # 0
    <3>. SUFFICES ASSUME m = 0 PROVE FALSE
      OBVIOUS
    <3>1. n * m = 0
      BY m = 0
    <3>. QED  BY <3>1
  <2>2. n * m \in Int
    OBVIOUS
  <2>. QED  BY <2>1, <2>2
<1> DEFINE x == i - 1
           q == x \div m
           r == x % m
<1>1. x \in Nat /\ 0 * m <= x /\ x <= (n * m) - 1
  BY <1>0
<1>2. q \in Int /\ r \in 0..(m - 1) /\ x = m * q + r
  <2>. HIDE DEF x
  <2>. QED  BY <1>0, <1>1
<1>. HIDE DEF q, r
<1>3. 0 <= q
  <2>. SUFFICES ASSUME q <= -1 PROVE FALSE
    BY <1>2
  <2>1. m * q <= m * (-1) /\ m * (-1) = -m
    BY <1>0, <1>2
  <2>. QED  BY <1>0, <1>1, <1>2, <2>1
<1>4. q <= n - 1
  <2>. SUFFICES ASSUME n <= q PROVE FALSE
    BY <1>2
  <2>1. m * n <= m * q /\ m * n = n * m
    BY <1>0, <1>2
  <2>. QED  BY <1>0, <1>1, <1>2, <2>1
<1> DEFINE d == q + 1
           k == r + 1
<1>5. d \in 1..n /\ k \in 1..m
  BY <1>0, <1>2, <1>3, <1>4
<1>6. (d - 1) * m = m * q
  <2>1. d - 1 = q
    BY <1>2
  <2>. QED  BY <1>2, <2>1
<1>7. i = (d - 1) * m + k
  BY <1>0, <1>1, <1>2, <1>6
<1>. HIDE DEF d, k
<1>. QED  BY <1>5, <1>7

-----------------------------------------------------------------------------
(* Families of sets: counted both ways, and their extremes.                *)

\* Pairs counted by their first members and by their second are as many.
LEMMA CountedBothWays ==
    ASSUME NEW I, IsFiniteSet(I), NEW J, IsFiniteSet(J), NEW rel, \A i \in I : rel[i] \in SUBSET J,
           NEW u, \A i \in I : u[i] = Cardinality(rel[i]),
           NEW v, \A j \in J : v[j] = Cardinality({i \in I : j \in rel[i]})
    PROVE  SumFunctionOnSet(u, I) = SumFunctionOnSet(v, J)
<1> DEFINE from(A, j) == {i \in A : j \in rel[i]}
           w(A) == [j \in J |-> Cardinality(from(A, j))]
           F == {A \in SUBSET I : SumFunctionOnSet(u, A) = SumFunctionOnSet(w(A), J)}
<1>1. \A A \in SUBSET I, j \in J : w(A)[j] = Cardinality(from(A, j)) /\ w(A)[j] \in Nat /\ IsFiniteSet(from(A, j))
  <2>. SUFFICES ASSUME NEW A \in SUBSET I, NEW j \in J
                PROVE  w(A)[j] = Cardinality(from(A, j)) /\ w(A)[j] \in Nat /\ IsFiniteSet(from(A, j))
    OBVIOUS
  <2>1. from(A, j) \subseteq I /\ w(A)[j] = Cardinality(from(A, j))
    OBVIOUS
  <2>. HIDE DEF from, w
  <2>2. IsFiniteSet(from(A, j))
    BY <2>1, FS_Subset
  <2>. QED  BY <2>1, <2>2, FS_CardinalityType
<1>2. \A i \in I : IsFiniteSet(rel[i]) /\ u[i] \in Nat
  <2>1. \A i \in I : IsFiniteSet(rel[i])
    BY FS_Subset
  <2>. QED  BY <2>1, FS_CardinalityType
<1>3. {} \in F
  <2>1. \A j \in J : from({}, j) = {}
    OBVIOUS
  <2>. HIDE DEF from
  <2>2. \A j \in J : w({})[j] = 0
    BY <2>1, FS_EmptySet
  <2>. HIDE DEF w
  <2>3. SumFunctionOnSet(w({}), J) = 0 * Cardinality(J) /\ Cardinality(J) \in Nat
    BY <2>2, SumOfConstant, FS_CardinalityType
  <2>. QED  BY <2>3, SumOfNone
<1>4. ASSUME NEW A \in SUBSET I, NEW x \in I \ A, A \in F PROVE A \union {x} \in F
  <2> DEFINE B == A \union {x}
             one == [j \in J |-> IF j \in rel[x] THEN 1 ELSE 0]
  <2>0. B \in SUBSET I /\ rel[x] \in SUBSET J /\ x \notin A /\ x \in I
    OBVIOUS
  <2>1. ASSUME NEW j \in J PROVE w(B)[j] = 1 * w(A)[j] + 1 * one[j]
    <3>1. w(A)[j] = Cardinality(from(A, j)) /\ w(B)[j] = Cardinality(from(B, j)) /\ w(A)[j] \in Nat
      BY <1>1, <2>0
    <3>2. IsFiniteSet(from(A, j)) /\ x \notin from(A, j)
      BY <1>1
    <3>3. CASE j \in rel[x]
      <4>1. from(B, j) = from(A, j) \union {x}
        BY <3>3
      <4>. HIDE DEF from
      <4>2. Cardinality(from(B, j)) = Cardinality(from(A, j)) + 1
        BY <3>2, <4>1, FS_AddElement
      <4>. HIDE DEF w
      <4>. QED  BY <3>1, <3>3, <4>2
    <3>4. CASE j \notin rel[x]
      <4>1. from(B, j) = from(A, j)
        BY <3>4
      <4>. HIDE DEF from, w
      <4>. QED  BY <3>1, <3>4, <4>1
    <3>. QED  BY <3>3, <3>4
  <2>2. \A j \in J : one[j] \in Int
    OBVIOUS
  <2>3. (\A j \in rel[x] : one[j] = 1) /\ \A j \in J \ rel[x] : one[j] = 0
    BY <2>0
  <2>. HIDE DEF one, from
  <2>4. Ints(w(A), J) /\ Ints(one, J) /\ Combines(w(B), 1, w(A), 1, one, J)
    <3>. HIDE DEF w, B
    <3>. QED  BY <1>1, <2>1, <2>2 DEF Ints, Combines
  <2>. HIDE DEF w
  <2>5. SumFunctionOnSet(w(B), J) = 1 * SumFunctionOnSet(w(A), J) + 1 * SumFunctionOnSet(one, J)
    BY <2>4, SumIsLinear
  <2>6. SumFunctionOnSet(one, J) = SumFunctionOnSet(one, rel[x])
    BY <2>0, <2>3, <2>4, SumOfSupport
  <2>7. SumFunctionOnSet(one, rel[x]) = 1 * Cardinality(rel[x])
    BY <1>2, <2>0, <2>3, SumOfConstant
  <2>8. SumFunctionOnSet(u, A \union {x}) = u[x] + SumFunctionOnSet(u, A)
    <3>1. IsFiniteSet(A) /\ Ints(u, A) /\ u[x] \in Int
      BY <1>2, FS_Subset DEF Ints
    <3>. QED  BY <2>0, <3>1, SumWith
  <2>9. SumFunctionOnSet(w(A), J) \in Int /\ u[x] = Cardinality(rel[x]) /\ u[x] \in Nat
    BY <1>2, <2>0, <2>4, SumIsInt
  <2>10. SumFunctionOnSet(u, A) = SumFunctionOnSet(w(A), J)
    BY <1>4
  <2>11. SumFunctionOnSet(u, B) = SumFunctionOnSet(w(B), J)
    BY <2>5, <2>6, <2>7, <2>8, <2>9, <2>10
  <2>. QED  BY <2>0, <2>11
<1>. HIDE DEF F
<1>5. I \in F
  BY <1>3, <1>4, FiniteByElements
<1>6. SumFunctionOnSet(w(I), J) = SumFunctionOnSet(v, J)
  <2>1. \A j \in J : w(I)[j] \in Int /\ w(I)[j] = v[j]
    <3>1. \A j \in J : v[j] = Cardinality(from(I, j))
      OBVIOUS
    <3>2. I \in SUBSET I
      OBVIOUS
    <3>. HIDE DEF w, from
    <3>. QED  BY <1>1, <3>1, <3>2
  <2>. HIDE DEF w
  <2>. QED  BY <2>1, SumIsLocal DEF Ints
<1>. QED  BY <1>5, <1>6 DEF F

LEMMA GreatestIs ==
    ASSUME NEW S \in SUBSET Int, NEW m \in S, \A y \in S : y <= m
    PROVE  Max(S) = m
<1>1. m \in S /\ \A y \in S : m >= y
  OBVIOUS
<1>2. Max(S) \in S /\ \A y \in S : Max(S) >= y
  BY <1>1 DEF Max
<1>3. Max(S) \in Int /\ m \in Int /\ Max(S) >= m /\ m >= Max(S)
  BY <1>1, <1>2
<1>. QED  BY <1>3

LEMMA LeastIs ==
    ASSUME NEW S \in SUBSET Int, NEW m \in S, \A y \in S : m <= y
    PROVE  Min(S) = m
<1>1. m \in S /\ \A y \in S : m <= y
  OBVIOUS
<1>2. Min(S) \in S /\ \A y \in S : Min(S) <= y
  BY <1>1 DEF Min
<1>3. Min(S) \in Int /\ m \in Int /\ Min(S) <= m /\ m <= Min(S)
  BY <1>1, <1>2
<1>. QED  BY <1>3

\* The extremes of a union of sets of integers are those of their extremes.
IntSets(f, B) == \A b \in B : f[b] \in SUBSET Int /\ IsFiniteSet(f[b])
United(f, B) == UNION {f[b] : b \in B}
Greatests(f, B) == {Max(f[b]) : b \in B}
Leasts(f, B) == {Min(f[b]) : b \in B}
Peaks(f, B) == {Max({0} \union f[b]) : b \in B}

LEMMA ExtremesOfUnion ==
    ASSUME NEW B, IsFiniteSet(B), NEW f, IntSets(f, B), \A b \in B : f[b] # {}
    PROVE  /\ Max(United(f, B)) = Max(Greatests(f, B))
           /\ Min(United(f, B)) = Min(Leasts(f, B))
<1> DEFINE U == UNION {f[b] : b \in B}
           g == [b \in B |-> Max(f[b])]
           h == [b \in B |-> Min(f[b])]
           most == {Max(f[b]) : b \in B}
           least == {Min(f[b]) : b \in B}
<1>1. CASE B = {}
  <2>1. (\A y : y \notin U) /\ (\A y : y \notin most) /\ \A y : y \notin least
    BY <1>1
  <2>. HIDE DEF U, most, least
  <2>2. U = {} /\ most = {} /\ least = {}
    BY <2>1
  <2>3. Max(U) = Max(most) /\ Min(U) = Min(least)
    BY <2>2
  <2>. QED  BY <2>3 DEF U, most, least, United, Greatests, Leasts
<1>2. CASE B # {}
  <2>1. ASSUME NEW b \in B
        PROVE  /\ Max(f[b]) \in f[b] /\ Max(f[b]) \in Int /\ \A y \in f[b] : y <= Max(f[b]) /\ y \in Int
               /\ Min(f[b]) \in f[b] /\ Min(f[b]) \in Int /\ \A y \in f[b] : Min(f[b]) <= y
    <3>1. f[b] \in SUBSET Int /\ IsFiniteSet(f[b]) /\ f[b] # {}
      BY DEF IntSets
    <3>. QED  BY <3>1, GreatestExists, LeastExists
  <2>2. /\ most \in SUBSET Int /\ most # {} /\ most = {g[b] : b \in B}
        /\ least \in SUBSET Int /\ least # {} /\ least = {h[b] : b \in B}
    BY <1>2, <2>1
  <2>3. U \in SUBSET Int
    BY <2>1
  <2>. HIDE DEF g, h
  <2>4. IsFiniteSet(most) /\ IsFiniteSet(least)
    <3>1. IsFiniteSet({g[b] : b \in B}) /\ IsFiniteSet({h[b] : b \in B})
      BY ImageIsFinite
    <3>. HIDE DEF most, least
    <3>. QED  BY <2>2, <3>1
  <2>5. Max(most) \in most /\ (\A y \in most : y <= Max(most)) /\ Min(least) \in least /\ \A y \in least : Min(least) <= y
    <3>. HIDE DEF most, least
    <3>. QED  BY <2>2, <2>4, GreatestExists, LeastExists
  <2>. DEFINE m == Max(most)
              l == Min(least)
  <2>6. m \in U /\ l \in U
    <3>1. (\A b \in B : Max(f[b]) \in U) /\ \A b \in B : Min(f[b]) \in U
      BY <2>1
    <3>. HIDE DEF U
    <3>. QED  BY <2>5, <3>1
  <2>7. ASSUME NEW y \in U PROVE y <= m /\ l <= y
    <3>1. PICK b \in B : y \in f[b]
      OBVIOUS
    <3>2. Max(f[b]) \in most /\ Min(f[b]) \in least
      OBVIOUS
    <3>3. y \in Int /\ y <= Max(f[b]) /\ Min(f[b]) <= y /\ Max(f[b]) \in Int /\ Min(f[b]) \in Int
      BY <2>1, <3>1
    <3>4. Max(f[b]) <= m /\ l <= Min(f[b]) /\ m \in Int /\ l \in Int
      <4>. HIDE DEF most, least
      <4>. QED  BY <2>2, <2>5, <3>2
    <3>. HIDE DEF m, l
    <3>. QED  BY <3>3, <3>4
  <2>. HIDE DEF U, m, l
  <2>8. Max(U) = m /\ Min(U) = l
    BY <2>3, <2>6, <2>7, GreatestIs, LeastIs
  <2>. QED  BY <2>8 DEF U, m, l, United, Greatests, Leasts
<1>. QED  BY <1>1, <1>2

LEMMA PeakOfUnion ==
    ASSUME NEW B, IsFiniteSet(B), NEW f, IntSets(f, B)
    PROVE  Max({0} \union United(f, B)) = Max({0} \union Peaks(f, B))
<1> DEFINE U == {0} \union UNION {f[b] : b \in B}
           g == [b \in B |-> Max({0} \union f[b])]
           peaks == {0} \union {Max({0} \union f[b]) : b \in B}
<1>1. ASSUME NEW b \in B
      PROVE  /\ g[b] \in {0} \union f[b] /\ g[b] \in Int /\ 0 <= g[b]
             /\ \A y \in f[b] : y <= g[b] /\ y \in Int
  <2> DEFINE S == {0} \union f[b]
  <2>1. S \in SUBSET Int /\ S # {} /\ f[b] \in SUBSET Int /\ IsFiniteSet(f[b]) /\ g[b] = Max(S)
    BY DEF IntSets
  <2>2. IsFiniteSet(f[b] \union {0}) /\ f[b] \union {0} = S
    BY <2>1, FS_AddElement
  <2>3. 0 \in S /\ \A y \in f[b] : y \in S
    OBVIOUS
  <2>4. IsFiniteSet(S)
    BY <2>2
  <2>. HIDE DEF S, g
  <2>5. Max(S) \in S /\ \A y \in S : y <= Max(S)
    BY <2>1, <2>4, GreatestExists
  <2>6. \A y \in S : y \in Int
    BY <2>1
  <2>. QED  BY <2>1, <2>3, <2>5, <2>6 DEF S
<1>2. peaks = {0} \union {g[b] : b \in B}
  OBVIOUS
<1>. HIDE DEF g
<1>3. peaks \in SUBSET Int /\ peaks # {}
  <2>1. \A y \in peaks : y \in Int
    <3>. HIDE DEF peaks
    <3>. QED  BY <1>1, <1>2
  <2>2. 0 \in peaks
    OBVIOUS
  <2>. HIDE DEF peaks
  <2>. QED  BY <2>1, <2>2
<1>4. U \in SUBSET Int
  <2>1. \A y \in U : y \in Int
    BY <1>1
  <2>. HIDE DEF U
  <2>. QED  BY <2>1
<1>5. IsFiniteSet(peaks)
  <2>1. IsFiniteSet({g[b] : b \in B})
    BY ImageIsFinite
  <2>2. IsFiniteSet({g[b] : b \in B} \union {0})
    BY <2>1, FS_AddElement
  <2>3. peaks = {g[b] : b \in B} \union {0}
    BY <1>2
  <2>. QED  BY <2>2, <2>3
<1> DEFINE m == Max(peaks)
<1>6. m \in peaks /\ \A y \in peaks : y <= m
  <2>. HIDE DEF peaks
  <2>. QED  BY <1>3, <1>5, GreatestExists
<1>. HIDE DEF m, peaks
<1>7. m \in U
  <2>1. \A b \in B : g[b] \in U
    BY <1>1
  <2>2. 0 \in U
    OBVIOUS
  <2>. HIDE DEF U
  <2>. QED  BY <1>2, <1>6, <2>1, <2>2
<1>8. ASSUME NEW y \in U PROVE y <= m
  <2>0. m \in Int /\ 0 <= m
    BY <1>2, <1>3, <1>6
  <2>1. CASE y = 0
    BY <2>0, <2>1
  <2>2. CASE y # 0
    <3>1. PICK b \in B : y \in f[b]
      BY <2>2
    <3>2. g[b] <= m
      BY <1>2, <1>6
    <3>3. y <= g[b] /\ y \in Int /\ g[b] \in Int
      BY <1>1, <3>1
    <3>. QED  BY <2>0, <3>2, <3>3
  <2>. QED  BY <2>1, <2>2
<1>. HIDE DEF U
<1>9. Max(U) = m
  BY <1>4, <1>7, <1>8, GreatestIs
<1>. QED  BY <1>9 DEF U, m, peaks, United, Peaks
=============================================================================
