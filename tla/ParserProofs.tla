---------------------------- MODULE ParserProofs ----------------------------
(***************************************************************************)
(* What main/mqtt_parser.c and the loop over its packets do, for every     *)
(* input: the walk of mqtt_topic_matches decides as the levels do; what is *)
(* built is parsed; and a stream is served however it is cut into reads.   *)
(*                                                                         *)
(* First, what that takes of the naturals: least elements, induction over  *)
(* a set, functions defined by recursion, the elements of a finite set in  *)
(* their order.  All of it speaks of sets and functions where the library  *)
(* speaks of operators, so that it can be applied to a given one.          *)
(***************************************************************************)
EXTENDS Topics, Wire, FiniteSetTheorems, WellFoundedInduction, TLAPS

\* A set of naturals has a least element.
LEMMA LeastElement ==
  ASSUME NEW T, T \subseteq Nat, T # {}
  PROVE  \E i \in T : \A j \in T : i <= j
<1>1. PICK i \in T : \A j \in T : <<j, i>> \notin OpToRel(<, Nat)
  BY NatLessThanWellFounded, WFMin
<1>2. \A j \in T : ~(j < i)
  BY <1>1 DEF OpToRel
<1>3. QED  BY <1>2

\* What holds of 0, and of the next number when of one, holds of all.
LEMMA Inductive ==
  ASSUME NEW T, 0 \in T, \A n \in Nat : n \in T => n + 1 \in T
  PROVE  Nat \subseteq T
<1> DEFINE U == Nat \ T
<1>1. SUFFICES ASSUME U # {} PROVE FALSE
  OBVIOUS
<1>2. PICK x \in U : \A y \in U : x <= y
  <2>1. U \subseteq Nat
    OBVIOUS
  <2> HIDE DEF U
  <2>2. QED  BY <1>1, <2>1, LeastElement
<1>3. x - 1 \in Nat /\ x - 1 \notin U
  <2>1. x \in Nat /\ x # 0
    OBVIOUS
  <2> HIDE DEF U
  <2>2. QED  BY <1>2, <2>1
<1>4. QED  BY <1>3

\* What holds of n, and of the number below when of one down to m, holds of all of m..n.
LEMMA Downward ==
  ASSUME NEW m \in Int, NEW n \in Int, NEW T,
         m <= n => n \in T, \A k \in m..n : k \in T /\ k > m => k - 1 \in T
  PROVE  m..n \subseteq T
<1> DEFINE U == {x \in Nat : x <= n - m => n - x \in T}
<1>1. 0 \in U
  OBVIOUS
<1>2. \A x \in Nat : x \in U => x + 1 \in U
  <2>1. SUFFICES ASSUME NEW x \in Nat, x \in U, x + 1 <= n - m PROVE n - (x + 1) \in T
    OBVIOUS
  <2>2. n - x \in T /\ n - x \in m..n /\ n - x > m /\ (n - x) - 1 = n - (x + 1)
    BY <2>1
  <2>3. QED  BY <2>2
<1>3. Nat \subseteq U
  <2> HIDE DEF U
  <2>1. QED  BY <1>1, <1>2, Inductive
<1>4. ASSUME NEW k \in m..n PROVE k \in T
  <2>1. n - k \in Nat /\ n - k <= n - m /\ n - (n - k) = k
    OBVIOUS
  <2>2. QED  BY <1>3, <2>1
<1>5. QED  BY <1>4

\* What f is below n.
Before(f, n) == [m \in 0..(n - 1) |-> f[m]]

\* H[n][g] is the value at n of a function to V that is g below n.
Computes(H, N, V) == \A n \in 0..N : \A g \in [0..(n - 1) -> V] : H[n][g] \in V

Computed(f, H, N, V) == f \in [0..N -> V] /\ \A n \in 0..N : f[n] = H[n][Before(f, n)]

\* A function may be defined from its values at smaller numbers.
LEMMA Recursion ==
  ASSUME NEW N \in Nat, NEW V, NEW H, Computes(H, N, V)
  PROVE  \E f : Computed(f, H, N, V)
<1> DEFINE UpTo(f, k) == /\ f \in [0..(k - 1) -> V]
                         /\ \A n \in 0..(k - 1) : f[n] = H[n][Before(f, n)]
           T == {k \in Nat : k <= N + 1 => \E f : UpTo(f, k)}
<1>1. 0 \in T
  <2>1. UpTo([m \in 0..(0 - 1) |-> m], 0)
    OBVIOUS
  <2>2. QED  BY <2>1
<1>2. ASSUME NEW k \in Nat, k \in T PROVE k + 1 \in T
  <2>1. SUFFICES ASSUME k + 1 <= N + 1 PROVE \E f : UpTo(f, k + 1)
    <3> HIDE DEF UpTo
    <3>1. QED  OBVIOUS
  <2>2. PICK g : UpTo(g, k)
    BY <1>2, <2>1
  <2> DEFINE f == [n \in 0..k |-> IF n = k THEN H[k][g] ELSE g[n]]
  <2>3. g \in [0..(k - 1) -> V] /\ H[k][g] \in V
    BY <2>1, <2>2 DEF Computes
  <2>4. f \in [0..(k + 1 - 1) -> V]
    BY <2>3
  <2>5. ASSUME NEW n \in 0..k
        PROVE  f[n] = H[n][Before(f, n)]
    <3>1. Before(f, n) = Before(g, n)
      BY DEF Before
    <3>2. CASE n = k
      <4>1. Before(g, k) = g
        BY <2>3 DEF Before
      <4>2. f[k] = H[k][g]
        OBVIOUS
      <4> HIDE DEF f
      <4>3. QED  BY <3>1, <3>2, <4>1, <4>2
    <3>3. CASE n # k
      <4>1. n \in 0..(k - 1) /\ f[n] = g[n]
        BY <3>3
      <4>2. g[n] = H[n][Before(g, n)]
        BY <2>2, <4>1
      <4> HIDE DEF f
      <4>3. QED  BY <3>1, <4>1, <4>2
    <3>4. QED  BY <3>2, <3>3
  <2>6. UpTo(f, k + 1)
    <3>1. 0..(k + 1 - 1) = 0..k
      OBVIOUS
    <3> HIDE DEF f
    <3>2. QED  BY <2>4, <2>5, <3>1
  <2>7. QED  BY <2>6
<1>3. N + 1 \in T
  <2> HIDE DEF T
  <2>1. QED  BY <1>1, <1>2, Inductive
<1>4. PICK f : UpTo(f, N + 1)
  BY <1>3
<1>5. 0..(N + 1 - 1) = 0..N
  OBVIOUS
<1>6. QED  BY <1>4, <1>5 DEF Computed

LEMMA BeforeIs ==
  ASSUME NEW N \in Nat, NEW V, NEW f \in [0..N -> V], NEW k \in 0..N
  PROVE  Before(f, k) \in [0..(k - 1) -> V] /\ \A j \in 0..(k - 1) : Before(f, k)[j] = f[j]
<1>1. \A j \in 0..(k - 1) : j \in 0..N
  OBVIOUS
<1>2. QED  BY <1>1 DEF Before

-----------------------------------------------------------------------------
(* The elements of a finite set, in their order: the rank of an element is *)
(* how many are below it.                                                  *)

LEMMA Ranks ==
  ASSUME NEW S, S \subseteq Nat, IsFiniteSet(S)
  PROVE  /\ \A i \in S : Cardinality({x \in S : x < i}) \in 0..(Cardinality(S) - 1)
         /\ \A i, j \in S : i < j => Cardinality({x \in S : x < i}) < Cardinality({x \in S : x < j})
         /\ \A k \in 1..Cardinality(S) : \E i \in S : Cardinality({x \in S : x < i}) = k - 1
<1> DEFINE Below(i) == {x \in S : x < i}
           rank == [i \in S |-> Cardinality(Below(i))]
           n == Cardinality(S)
<1>1. n \in Nat
  BY FS_CardinalityType
<1>2. \A i \in S : /\ IsFiniteSet(Below(i)) /\ Cardinality(Below(i)) \in Nat
                   /\ Cardinality(Below(i)) <= n /\ Cardinality(Below(i)) # n
  <2>1. SUFFICES ASSUME NEW i \in S
                 PROVE  /\ IsFiniteSet(Below(i)) /\ Cardinality(Below(i)) \in Nat
                        /\ Cardinality(Below(i)) <= n /\ Cardinality(Below(i)) # n
    OBVIOUS
  <2>2. Below(i) \in SUBSET S /\ Below(i) # S
    OBVIOUS
  <2> HIDE DEF Below
  <2>3. QED  BY <2>2, FS_Subset, FS_CardinalityType
<1>3. ASSUME NEW i \in S, NEW j \in S, i < j
      PROVE  Cardinality(Below(i)) < Cardinality(Below(j))
  <2>1. Below(i) \in SUBSET Below(j) /\ Below(i) # Below(j)
    <3>1. i \in Below(j) /\ i \notin Below(i)
      BY <1>3
    <3>2. \A x \in Below(i) : x \in Below(j)
      BY <1>3
    <3>3. QED  BY <3>1, <3>2
  <2> HIDE DEF Below
  <2>2. Cardinality(Below(i)) <= Cardinality(Below(j)) /\ Cardinality(Below(i)) # Cardinality(Below(j))
    BY <1>2, <2>1, FS_Subset
  <2>3. QED  BY <1>2, <2>2
<1>4. rank \in Injection(S, 0..(n - 1))
  <2> HIDE DEF Below, n
  <2>1. \A i \in S : rank[i] = Cardinality(Below(i)) /\ rank[i] \in 0..(n - 1)
    BY <1>1, <1>2
  <2>2. \A i, j \in S : i < j => rank[i] < rank[j]
    BY <1>3
  <2>3. rank \in [S -> 0..(n - 1)]
    BY <2>1
  <2> HIDE DEF rank
  <2>4. \A i, j \in S : rank[i] = rank[j] => i = j
    <3>1. SUFFICES ASSUME NEW i \in S, NEW j \in S, rank[i] = rank[j], i # j PROVE FALSE
      OBVIOUS
    <3>2. i \in Nat /\ j \in Nat /\ rank[i] \in Nat
      BY <2>1, <1>1
    <3>3. QED  BY <2>2, <3>1, <3>2
  <2>5. QED  BY <2>3, <2>4 DEF Injection, IsInjective
<1>5. rank \in Surjection(S, 0..(n - 1))
  <2> HIDE DEF rank
  <2>1. IsFiniteSet(0..(n - 1)) /\ Cardinality(0..(n - 1)) = n
    <3> HIDE DEF n
    <3>1. n - 1 \in Int
      BY <1>1
    <3>2. /\ IsFiniteSet(0..(n - 1))
          /\ Cardinality(0..(n - 1)) = IF 0 > n - 1 THEN 0 ELSE n - 1 - 0 + 1
      BY <3>1, FS_Interval
    <3>3. QED  BY <1>1, <3>2
  <2>2. QED  BY <1>4, <2>1, FS_Injection
<1>6. \A k \in 1..n : \E i \in S : Cardinality(Below(i)) = k - 1
  <2>1. \A k \in 1..n : k - 1 \in 0..(n - 1)
    BY <1>1
  <2>2. \A k \in 0..(n - 1) : \E i \in S : rank[i] = k
    <3> HIDE DEF rank, n
    <3>1. QED  BY <1>5 DEF Surjection
  <2> HIDE DEF Below, n
  <2>3. QED  BY <2>1, <2>2
<1>7. \A i \in S : Cardinality(Below(i)) \in 0..(n - 1)
  <2> HIDE DEF Below, n
  <2>1. QED  BY <1>1, <1>2
<1>8. QED
  <2> HIDE DEF n
  <2>1. QED  BY <1>3, <1>6, <1>7 DEF n

-----------------------------------------------------------------------------
(* Where levels end *)

\* What a filter or a topic is made of.
Strings == Seq(TopicChar \cup {"+", "#"})

\* Where a level ends: at the next "/", or after the string.
LEMMA EndOf ==
  ASSUME NEW s \in Strings, NEW i \in 1..(Len(s) + 1)
  PROVE  /\ LevelEnd(s, i) \in i..(Len(s) + 1)
         /\ LevelEnd(s, i) <= Len(s) => s[LevelEnd(s, i)] = "/"
         /\ \A j \in i..(LevelEnd(s, i) - 1) : s[j] # "/"
<1> DEFINE ends == {j \in i..Len(s) : s[j] = "/"}
<1>1. Len(s) \in Nat
  BY DEF Strings
<1>2. CASE ends = {}
  BY <1>1, <1>2 DEF LevelEnd
<1>3. CASE ends # {}
  <2>1. ends \subseteq Nat
    BY <1>1
  <2>2. PICK m \in ends : \A j \in ends : m <= j
    <3> HIDE DEF ends
    <3>1. QED  BY <1>3, <2>1, LeastElement
  <2>3. Min(ends) \in ends /\ \A j \in ends : Min(ends) <= j
    <3> HIDE DEF ends
    <3>1. QED  BY <2>2 DEF Min
  <2>4. LevelEnd(s, i) = Min(ends)
    BY <1>3 DEF LevelEnd
  <2>5. PICK e \in ends : e = LevelEnd(s, i) /\ \A j \in ends : e <= j
    <3> HIDE DEF ends
    <3>1. QED  BY <2>3, <2>4
  <2>6. QED  BY <1>1, <2>5
<1>4. QED  BY <1>2, <1>3

\* There is one such place.
LEMMA EndIs ==
  ASSUME NEW s \in Strings, NEW i \in 1..(Len(s) + 1), NEW e \in i..(Len(s) + 1),
         e <= Len(s) => s[e] = "/", \A j \in i..(e - 1) : s[j] # "/"
  PROVE  LevelEnd(s, i) = e
<1>1. Len(s) \in Nat
  BY DEF Strings
<1>2. PICK d \in i..(Len(s) + 1) : /\ d = LevelEnd(s, i)
                                   /\ d <= Len(s) => s[d] = "/"
                                   /\ \A j \in i..(d - 1) : s[j] # "/"
  BY EndOf
<1>3. ~(d < e)
  BY <1>1, <1>2
<1>4. ~(e < d)
  BY <1>1, <1>2
<1>5. QED  BY <1>1, <1>2, <1>3, <1>4

LEMMA EndAt ==
  ASSUME NEW s \in Strings, NEW i \in 1..(Len(s) + 1)
  PROVE  /\ i = Len(s) + 1 => LevelEnd(s, i) = i
         /\ i <= Len(s) /\ s[i] = "/" => LevelEnd(s, i) = i
         /\ i <= Len(s) /\ s[i] # "/" => LevelEnd(s, i) > i /\ LevelEnd(s, i + 1) = LevelEnd(s, i)
<1>1. Len(s) \in Nat
  BY DEF Strings
<1>2. PICK d \in i..(Len(s) + 1) : /\ d = LevelEnd(s, i)
                                   /\ d <= Len(s) => s[d] = "/"
                                   /\ \A j \in i..(d - 1) : s[j] # "/"
  BY EndOf
<1>3. ASSUME i <= Len(s), s[i] = "/" PROVE d = i
  BY <1>1, <1>2, <1>3
<1>4. ASSUME i <= Len(s), s[i] # "/" PROVE d > i /\ LevelEnd(s, i + 1) = d
  <2>1. d > i
    BY <1>1, <1>2, <1>4
  <2>2. i + 1 \in 1..(Len(s) + 1) /\ d \in (i + 1)..(Len(s) + 1) /\ \A j \in (i + 1)..(d - 1) : s[j] # "/"
    BY <1>1, <1>2, <1>4, <2>1
  <2>3. QED  BY <1>2, <2>1, <2>2, EndIs
<1>5. QED  BY <1>1, <1>2, <1>3, <1>4

\* What the walk leaves behind at each place of filter and topic.
IsWalk(f, t, walk) ==
  /\ walk \in [1..(Len(f) + 1) -> [1..(Len(t) + 1) -> BOOLEAN]]
  /\ \A i \in 1..(Len(f) + 1) : \A j \in 1..(Len(t) + 1) :
       walk[i][j] <=> IF i > Len(f) THEN j > Len(t) ELSE Turn(f, t, i, j, walk[i + 1])

LEMMA WalkIs ==
  ASSUME NEW f \in Strings, NEW t \in Strings
  PROVE  \E walk : IsWalk(f, t, walk) /\ (mqtt_topic_matches(f, t) <=> walk[1][1])
<1> DEFINE N == Len(f)
           V == [1..(Len(t) + 1) -> BOOLEAN]
           Row(i, next) == [j \in 1..(Len(t) + 1) |->
                              IF i > Len(f) THEN j > Len(t) ELSE Turn(f, t, i, j, next)]
           H == [n \in 0..N |-> [g \in [0..(n - 1) -> V] |-> Row(N + 1 - n, g[n - 1])]]
<1>1. N \in Nat /\ Len(t) \in Nat
  BY DEF Strings
<1>2. ASSUME NEW i \in 1..(N + 1), NEW next, i <= N => next \in V
      PROVE  Row(i, next) \in V
  <2>1. ASSUME NEW j \in 1..(Len(t) + 1), i <= N
        PROVE  Turn(f, t, i, j, next) \in BOOLEAN
    BY Zenon DEF Turn
  <2>2. ASSUME NEW j \in 1..(Len(t) + 1)
        PROVE  (IF i > Len(f) THEN j > Len(t) ELSE Turn(f, t, i, j, next)) \in BOOLEAN
    <3>1. CASE i <= N
      <4>1. ~(i > Len(f)) /\ (Turn(f, t, i, j, next) \in BOOLEAN)
        BY <1>1, <2>1, <3>1
      <4>2. QED  BY <4>1
    <3>2. CASE i > N
      BY <3>2
    <3>3. QED  BY <1>1, <3>1, <3>2
  <2>3. QED  BY <2>2
<1>3. Computes(H, N, V)
  <2>1. SUFFICES ASSUME NEW n \in 0..N, NEW g \in [0..(n - 1) -> V] PROVE H[n][g] \in V
    BY DEF Computes
  <2>2. H[n][g] = Row(N + 1 - n, g[n - 1])
    OBVIOUS
  <2>3. N + 1 - n \in 1..(N + 1) /\ (N + 1 - n <= N => g[n - 1] \in V)
    <3> HIDE DEF V
    <3>1. QED  BY <1>1
  <2> HIDE DEF V, H, Row
  <2>4. QED  BY <1>2, <2>2, <2>3
<1>4. PICK r : Computed(r, H, N, V)
  <2> HIDE DEF V, H, N
  <2>1. QED  BY <1>1, <1>3, Recursion
<1> DEFINE w == [i \in 1..(N + 1) |-> r[N + 1 - i]]
           Is(walk) == walk = [i \in 1..(Len(f) + 1) |-> Row(i, walk[i + 1])]
           chosen == CHOOSE walk : Is(walk)
<1>5. Is(w)
  <2>1. ASSUME NEW i \in 1..(N + 1) PROVE w[i] = Row(i, w[i + 1])
    <3>1. w[i] = r[N + 1 - i] /\ N + 1 - i \in 0..N
      BY <1>1
    <3> DEFINE n == N + 1 - i
               g == Before(r, n)
    <3>2. r[n] = H[n][g]
      BY <1>4, <3>1 DEF Computed
    <3>3. g \in [0..(n - 1) -> V]
      <4> HIDE DEF V
      <4>1. QED  BY <1>1, <1>4 DEF Before, Computed
    <3>4. H[n][g] = Row(N + 1 - n, g[n - 1])
      <4> HIDE DEF g, V, Row
      <4>1. n \in 0..N
        BY <3>1
      <4> HIDE DEF n
      <4>2. QED  BY <3>3, <4>1
    <3>5. N + 1 - n = i
      BY <1>1
    <3>6. CASE i > Len(f)
      <4>1. Row(i, g[n - 1]) = Row(i, w[i + 1])
        BY <3>6
      <4> HIDE DEF Row, g, n, H, w
      <4>2. QED  BY <3>1, <3>2, <3>4, <3>5, <4>1 DEF n
    <3>7. CASE i <= Len(f)
      <4>1. g[n - 1] = w[i + 1]
        <5>1. n - 1 \in 0..(n - 1) /\ i + 1 \in 1..(N + 1) /\ N + 1 - (i + 1) = n - 1
          BY <1>1, <3>7
        <5> HIDE DEF n, N
        <5>2. QED  BY <5>1 DEF Before
      <4> HIDE DEF Row, g, n, H, w
      <4>2. QED  BY <3>1, <3>2, <3>4, <3>5, <4>1 DEF n
    <3>8. QED  BY <1>1, <3>6, <3>7
  <2>2. w = [i \in 1..(N + 1) |-> w[i]]
    OBVIOUS
  <2> HIDE DEF Row, w
  <2>3. QED  BY <2>1, <2>2
<1>6. Is(chosen)
  <2> HIDE DEF Is, w
  <2>1. QED  BY <1>5
<1>7. mqtt_topic_matches(f, t) = chosen[1][1]
  BY DEF mqtt_topic_matches
<1> HIDE DEF chosen
<1>8. ASSUME NEW i \in 1..(N + 1) PROVE chosen[i] = Row(i, chosen[i + 1])
  <2> HIDE DEF Row
  <2>1. QED  BY <1>6
<1>9. 1..(N + 1) \subseteq {i \in 1..(N + 1) : chosen[i] \in V}
  <2> DEFINE T == {i \in 1..(N + 1) : chosen[i] \in V}
  <2>1. N + 1 \in T
    <3>1. N + 1 \in 1..(N + 1) /\ ~(N + 1 <= N)
      BY <1>1
    <3> HIDE DEF V, Row, N
    <3>2. QED  BY <1>2, <1>8, <3>1
  <2>2. ASSUME NEW k \in 1..(N + 1), k \in T, k > 1 PROVE k - 1 \in T
    <3>1. k - 1 \in 1..(N + 1) /\ (k - 1) + 1 = k
      BY <1>1, <2>2
    <3> HIDE DEF V, Row, N
    <3>2. QED  BY <1>2, <1>8, <2>2, <3>1
  <2>3. 1 \in Int /\ N + 1 \in Int
    BY <1>1
  <2> HIDE DEF T, N
  <2>4. 1..(N + 1) \subseteq T
    BY <2>1, <2>2, <2>3, Downward
  <2>5. QED  BY <2>4 DEF T
<1>10. ASSUME NEW i \in 1..(N + 1), NEW j \in 1..(Len(t) + 1)
       PROVE  chosen[i][j] <=> IF i > Len(f) THEN j > Len(t) ELSE Turn(f, t, i, j, chosen[i + 1])
  BY <1>8
<1>11. chosen \in [1..(N + 1) -> V]
  <2>1. chosen = [i \in 1..(N + 1) |-> Row(i, chosen[i + 1])]
    BY <1>6
  <2> HIDE DEF V, Row, N
  <2>2. QED  BY <1>9, <2>1
<1>12. QED  BY <1>7, <1>10, <1>11 DEF IsWalk

-----------------------------------------------------------------------------
(* A level of the filter, walked through. *)

Wildcard == {"+", "#"}

\* The start of a level is no obstacle to a character that matches itself.
LEMMA PlainTurn ==
  ASSUME NEW f \in Strings, NEW t \in Strings, NEW i \in 1..Len(f), NEW j \in 1..(Len(t) + 1),
         NEW walk, IsWalk(f, t, walk), f[i] \notin Wildcard
  PROVE  /\ j > Len(t) => (walk[i][j] <=> EndsWithParent(f, i))
         /\ j <= Len(t) => (walk[i][j] <=> f[i] = t[j] /\ walk[i + 1][j + 1])
<1>1. Len(f) \in Nat /\ Len(t) \in Nat
  BY DEF Strings
<1>2. ~(i > Len(f)) /\ i \in 1..(Len(f) + 1)
  BY <1>1
<1>3. walk[i][j] <=> Turn(f, t, i, j, walk[i + 1])
  <2>1. walk[i][j] <=> IF i > Len(f) THEN j > Len(t) ELSE Turn(f, t, i, j, walk[i + 1])
    BY <1>2 DEF IsWalk
  <2>2. QED  BY <1>2, <2>1
<1>4. ASSUME j > Len(t) PROVE walk[i][j] <=> EndsWithParent(f, i)
  <2>1. EndsWithParent(f, i) => ~Starts(f, i, "$") /\ ~Starts(t, j, "$")
    BY <1>1, <1>4 DEF EndsWithParent, Starts
  <2>2. Turn(f, t, i, j, walk[i + 1]) <=>
          ((i = 1 \/ f[i - 1] = "/") => (Starts(f, i, "$") <=> Starts(t, j, "$"))) /\ EndsWithParent(f, i)
    <3>1. f[i] # "#" /\ f[i] # "+" /\ f[i] \notin {"#", "+"}
      BY DEF Wildcard
    <3>2. QED  BY <1>4, <3>1 DEF Turn
  <2>3. QED  BY <1>3, <2>1, <2>2
<1>5. ASSUME j <= Len(t) PROVE walk[i][j] <=> f[i] = t[j] /\ walk[i + 1][j + 1]
  <2>1. f[i] = t[j] => (Starts(f, i, "$") <=> Starts(t, j, "$"))
    BY <1>1, <1>5 DEF Starts
  <2>2. Turn(f, t, i, j, walk[i + 1]) <=>
          /\ (i = 1 \/ f[i - 1] = "/") => (Starts(f, i, "$") <=> Starts(t, j, "$"))
          /\ f[i] = t[j] /\ walk[i + 1][j + 1]
    <3>1. f[i] # "#" /\ f[i] # "+" /\ f[i] \notin {"#", "+"} /\ ~(j > Len(t))
      BY <1>1, <1>5 DEF Wildcard
    <3>2. QED  BY <3>1 DEF Turn
  <2>3. QED  BY <1>3, <2>1, <2>2
<1>6. QED  BY <1>4, <1>5

\* Where the filter is at the end of a level, the topic must be too.
LEMMA EndTurn ==
  ASSUME NEW f \in Strings, NEW t \in Strings, NEW i \in 1..(Len(f) + 1), NEW j \in 1..(Len(t) + 1),
         NEW walk, IsWalk(f, t, walk), LevelEnd(f, i) = i, walk[i][j]
  PROVE  LevelEnd(t, j) = j
<1>1. Len(f) \in Nat /\ Len(t) \in Nat
  BY DEF Strings
<1>2. CASE i = Len(f) + 1
  <2>1. j > Len(t)
    <3>1. i > Len(f)
      BY <1>1, <1>2
    <3>2. walk[i][j] <=> IF i > Len(f) THEN j > Len(t) ELSE Turn(f, t, i, j, walk[i + 1])
      BY DEF IsWalk
    <3>3. QED  BY <3>1, <3>2
  <2>2. j = Len(t) + 1
    BY <1>1, <2>1
  <2>3. QED  BY <2>2, EndAt
<1>3. CASE i # Len(f) + 1
  <2>1. i \in 1..Len(f) /\ f[i] = "/" /\ f[i] \notin Wildcard
    <3>1. i \in 1..Len(f) /\ i <= Len(f)
      BY <1>1, <1>3
    <3>2. f[i] = "/"
      BY <3>1, EndOf
    <3>3. QED  BY <3>1, <3>2 DEF Wildcard
  <2>2. CASE j <= Len(t)
    <3>1. t[j] = "/"
      BY <2>1, <2>2, PlainTurn
    <3>2. QED  BY <2>2, <3>1, EndAt
  <2>3. CASE ~(j <= Len(t))
    <3>1. j = Len(t) + 1
      BY <1>1, <2>3
    <3>2. QED  BY <3>1, EndAt
  <2>4. QED  BY <2>2, <2>3
<1>4. QED  BY <1>2, <1>3

\* From i of filter and j of topic their levels go on alike.
Alike(f, t, i, j) ==
  /\ LevelEnd(f, i) - i = LevelEnd(t, j) - j
  /\ \A x \in 0..(LevelEnd(f, i) - i - 1) : f[i + x] = t[j + x]

LEMMA PlainLevel ==
  ASSUME NEW f \in Strings, NEW t \in Strings, NEW p \in 1..(Len(f) + 1), NEW q \in 1..(Len(t) + 1),
         NEW walk, IsWalk(f, t, walk), \A x \in p..(LevelEnd(f, p) - 1) : f[x] \notin Wildcard
  PROVE  walk[p][q] <=> Alike(f, t, p, q) /\ walk[LevelEnd(f, p)][LevelEnd(t, q)]
<1>1. Len(f) \in Nat /\ Len(t) \in Nat
  BY DEF Strings
<1>2. PICK e \in p..(Len(f) + 1) : /\ e = LevelEnd(f, p)
                                   /\ e <= Len(f) => f[e] = "/"
                                   /\ \A j \in p..(e - 1) : f[j] # "/"
  BY EndOf
<1>3. ASSUME NEW i \in p..e PROVE i \in 1..(Len(f) + 1) /\ LevelEnd(f, i) = e
  <2>1. i \in 1..(Len(f) + 1) /\ e \in i..(Len(f) + 1) /\ \A j \in i..(e - 1) : f[j] # "/"
    BY <1>1, <1>2
  <2>2. QED  BY <1>2, <2>1, EndIs
<1> DEFINE T == {i \in p..e : \A j \in 1..(Len(t) + 1) :
                   walk[i][j] <=> Alike(f, t, i, j) /\ walk[e][LevelEnd(t, j)]}
<1>4. e \in T
  <2>1. e \in p..e
    BY <1>1, <1>2
  <2>2. ASSUME NEW j \in 1..(Len(t) + 1)
        PROVE  walk[e][j] <=> Alike(f, t, e, j) /\ walk[e][LevelEnd(t, j)]
    <3>1. LevelEnd(f, e) = e /\ e \in 1..(Len(f) + 1)
      BY <1>3, <2>1
    <3>2. LevelEnd(t, j) \in Int
      BY <1>1, EndOf
    <3>3. Alike(f, t, e, j) <=> LevelEnd(t, j) = j
      BY <1>1, <3>1, <3>2 DEF Alike
    <3>4. walk[e][j] => LevelEnd(t, j) = j
      BY <3>1, EndTurn
    <3>5. QED  BY <3>3, <3>4
  <2>3. QED  BY <2>1, <2>2
<1>5. ASSUME NEW k \in p..e, k \in T, k > p PROVE k - 1 \in T
  <2> DEFINE i == k - 1
  <2>1. i \in p..e /\ i + 1 = k /\ i \in 1..Len(f) /\ i < e /\ f[i] # "/" /\ f[i] \notin Wildcard
    <3>1. i \in p..e /\ i + 1 = k /\ i \in 1..Len(f) /\ i < e /\ i \in p..(e - 1)
      BY <1>1, <1>2, <1>5
    <3>2. QED  BY <1>2, <3>1
  <2> HIDE DEF i
  <2>2. LevelEnd(f, i) = e /\ LevelEnd(f, k) = e
    BY <1>3, <2>1
  <2>3. ASSUME NEW j \in 1..(Len(t) + 1)
        PROVE  walk[i][j] <=> Alike(f, t, i, j) /\ walk[e][LevelEnd(t, j)]
    <3>1. PICK d \in j..(Len(t) + 1) : d = LevelEnd(t, j)
      BY EndOf
    <3>2. CASE j > Len(t)
      <4>1. d = j
        BY <1>1, <3>1, <3>2
      <4>2. ~Alike(f, t, i, j)
        BY <1>1, <2>1, <2>2, <3>1, <4>1 DEF Alike
      <4>3. ~EndsWithParent(f, i)
        BY <2>1 DEF EndsWithParent, Starts
      <4>4. QED  BY <2>1, <3>2, <4>2, <4>3, PlainTurn
    <3>3. CASE j <= Len(t) /\ t[j] = f[i]
      <4>1. j + 1 \in 1..(Len(t) + 1) /\ LevelEnd(t, j + 1) = d /\ d > j
        BY <1>1, <2>1, <3>1, <3>3, EndAt
      <4>2. walk[i][j] <=> walk[k][j + 1]
        BY <2>1, <3>3, PlainTurn
      <4>3. walk[k][j + 1] <=> Alike(f, t, k, j + 1) /\ walk[e][d]
        BY <1>5, <4>1
      <4>4. Alike(f, t, i, j) <=> Alike(f, t, k, j + 1)
        <5>1. ASSUME Alike(f, t, i, j) PROVE Alike(f, t, k, j + 1)
          <6>1. e - k = d - (j + 1)
            BY <1>1, <2>1, <2>2, <3>1, <5>1 DEF Alike
          <6>2. ASSUME NEW x \in 0..(e - k - 1) PROVE f[k + x] = t[(j + 1) + x]
            <7>1. x + 1 \in 0..(e - i - 1) /\ i + (x + 1) = k + x /\ j + (x + 1) = (j + 1) + x
              BY <1>1, <2>1
            <7>2. f[i + (x + 1)] = t[j + (x + 1)]
              BY <2>2, <5>1, <7>1 DEF Alike
            <7>3. QED  BY <7>1, <7>2
          <6>3. QED  BY <2>2, <4>1, <6>1, <6>2 DEF Alike
        <5>2. ASSUME Alike(f, t, k, j + 1) PROVE Alike(f, t, i, j)
          <6>1. e - i = d - j
            BY <1>1, <2>1, <2>2, <4>1, <5>2 DEF Alike
          <6>2. ASSUME NEW x \in 0..(e - i - 1) PROVE f[i + x] = t[j + x]
            <7>1. CASE x = 0
              BY <2>1, <3>3, <7>1
            <7>2. CASE x # 0
              <8>1. x - 1 \in 0..(e - k - 1) /\ i + x = k + (x - 1) /\ j + x = (j + 1) + (x - 1)
                BY <1>1, <2>1, <7>2
              <8>2. f[k + (x - 1)] = t[(j + 1) + (x - 1)]
                BY <2>2, <5>2, <8>1 DEF Alike
              <8>3. QED  BY <8>1, <8>2
            <7>3. QED  BY <7>1, <7>2
          <6>3. QED  BY <2>2, <3>1, <6>1, <6>2 DEF Alike
        <5>3. QED  BY <5>1, <5>2
      <4>5. QED  BY <3>1, <4>2, <4>3, <4>4
    <3>4. CASE j <= Len(t) /\ t[j] # f[i]
      <4>1. ~walk[i][j]
        BY <2>1, <3>4, PlainTurn
      <4>2. ~Alike(f, t, i, j)
        <5>1. 0 \in 0..(e - i - 1) /\ i + 0 = i /\ j + 0 = j
          BY <1>1, <2>1
        <5>2. QED  BY <2>2, <3>4, <5>1 DEF Alike
      <4>3. QED  BY <4>1, <4>2
    <3>5. QED  BY <1>1, <3>2, <3>3, <3>4
  <2>4. i \in T
    BY <2>1, <2>3
  <2>5. QED  BY <2>4 DEF i
<1>6. p..e \subseteq T
  <2>1. p \in Int /\ e \in Int
    BY <1>1
  <2> HIDE DEF T
  <2>2. QED  BY <1>4, <1>5, <2>1, Downward
<1>7. p \in p..e
  BY <1>1
<1>8. QED  BY <1>2, <1>6, <1>7

\* A wildcard that is a level of its own takes up the level, but a reserved one.
LEMMA WildTurn ==
  ASSUME NEW f \in Strings, NEW t \in Strings, NEW i \in 1..Len(f), NEW j \in 1..(Len(t) + 1),
         NEW walk, IsWalk(f, t, walk), i = 1 \/ f[i - 1] = "/"
  PROVE  /\ f[i] = "+" => (walk[i][j] <=> ~Starts(t, j, "$") /\ j <= Len(t) /\ walk[i + 1][LevelEnd(t, j)])
         /\ f[i] = "#" /\ i = Len(f) => (walk[i][j] <=> ~Starts(t, j, "$"))
<1>1. Len(f) \in Nat /\ Len(t) \in Nat
  BY DEF Strings
<1>2. ~(i > Len(f)) /\ i \in 1..(Len(f) + 1)
  BY <1>1
<1>3. walk[i][j] <=> Turn(f, t, i, j, walk[i + 1])
  <2>1. walk[i][j] <=> IF i > Len(f) THEN j > Len(t) ELSE Turn(f, t, i, j, walk[i + 1])
    BY <1>2 DEF IsWalk
  <2>2. QED  BY <1>2, <2>1
<1>4. ASSUME f[i] = "+"
      PROVE  walk[i][j] <=> ~Starts(t, j, "$") /\ j <= Len(t) /\ walk[i + 1][LevelEnd(t, j)]
  <2>1. ~Starts(f, i, "$") /\ f[i] # "#" /\ ~(f[i] \notin {"#", "+"})
    BY <1>4 DEF Starts
  <2>2. j <= Len(t) => (Starts(t, j, "$") <=> t[j] = "$")
    BY DEF Starts
  <2>3. Turn(f, t, i, j, walk[i + 1]) <=>
          ~Starts(t, j, "$") /\ j <= Len(t) /\ t[j] # "$" /\ walk[i + 1][LevelEnd(t, j)]
    BY <1>4, <2>1 DEF Turn
  <2>4. QED  BY <1>3, <2>2, <2>3
<1>5. ASSUME f[i] = "#", i = Len(f)
      PROVE  walk[i][j] <=> ~Starts(t, j, "$")
  <2>1. ~Starts(f, i, "$") /\ f[i] # "+" /\ ~(f[i] \notin {"#", "+"})
    BY <1>5 DEF Starts
  <2>2. Turn(f, t, i, j, walk[i + 1]) <=> ~Starts(t, j, "$")
    BY <1>5, <2>1 DEF Turn
  <2>3. QED  BY <1>3, <2>2
<1>6. QED  BY <1>4, <1>5

-----------------------------------------------------------------------------
(* The levels of a string: the kth goes from p[k] to before p[k + 1] - 1.  *)

Splits(s, n, p) ==
  /\ n \in Nat \ {0} /\ p \in [1..(n + 1) -> Nat] /\ p[1] = 1
  /\ Levels(s) = [k \in 1..n |-> SubSeq(s, p[k], LevelEnd(s, p[k]) - 1)]
  /\ \A k \in 1..n : /\ p[k] \in 1..(Len(s) + 1) /\ p[k + 1] = LevelEnd(s, p[k]) + 1
                     /\ p[k] = 1 \/ s[p[k] - 1] = "/"
                     /\ k = n <=> LevelEnd(s, p[k]) = Len(s) + 1

LEMMA LevelsAre ==
  ASSUME NEW s \in Strings
  PROVE  \E n, p : Splits(s, n, p)
<1> DEFINE ends == {i \in DOMAIN s : s[i] = "/"} \cup {Len(s) + 1}
           rank(i) == Cardinality({j \in ends : j < i})
           end(k) == IF k = 0 THEN 0
                     ELSE CHOOSE i \in ends : Cardinality({j \in ends : j < i}) = k - 1
           n == Cardinality(ends)
           p == [k \in 1..(n + 1) |-> end(k - 1) + 1]
<1>1. Len(s) \in Nat /\ DOMAIN s = 1..Len(s)
  BY DEF Strings
<1>2. ends \subseteq 1..(Len(s) + 1) /\ ends \subseteq Nat /\ Len(s) + 1 \in ends
  BY <1>1
<1>3. IsFiniteSet(ends) /\ n \in Nat
  <2>1. IsFiniteSet(1..(Len(s) + 1))
    BY <1>1, FS_Interval
  <2> HIDE DEF ends
  <2>2. QED  BY <1>2, <2>1, FS_Subset, FS_CardinalityType
<1>4. /\ \A i \in ends : rank(i) \in 0..(n - 1)
      /\ \A i, j \in ends : i < j => rank(i) < rank(j)
      /\ \A k \in 1..n : \E i \in ends : rank(i) = k - 1
  <2> HIDE DEF ends
  <2>1. QED  BY <1>2, <1>3, Ranks
<1> HIDE DEF rank
<1>5. \A k \in 1..n : end(k) \in ends /\ rank(end(k)) = k - 1
  <2>1. SUFFICES ASSUME NEW k \in 1..n PROVE end(k) \in ends /\ rank(end(k)) = k - 1
    OBVIOUS
  <2>2. end(k) = CHOOSE i \in ends : rank(i) = k - 1
    <3>1. k # 0
      <4> HIDE DEF n, end
      <4>1. QED  BY <1>3
    <3>2. QED  BY <3>1 DEF rank
  <2> HIDE DEF end, ends
  <2>3. QED  BY <1>4, <2>2
<1>6. end(0) = 0
  OBVIOUS
<1>7. n # 0
  <2> HIDE DEF ends, n
  <2>1. QED  BY <1>2, <1>3, <1>4
<1>8. Levels(s) = [k \in 1..n |-> SubSeq(s, end(k - 1) + 1, end(k) - 1)]
  BY DEF Levels
<1> HIDE DEF end, n
<1>9. ASSUME NEW k \in 1..n
      PROVE  /\ end(k) \in 1..(Len(s) + 1) /\ (end(k) <= Len(s) => s[end(k)] = "/")
             /\ k = n <=> end(k) = Len(s) + 1
  <2>1. end(k) \in ends /\ rank(end(k)) = k - 1
    <3> HIDE DEF ends
    <3>1. QED  BY <1>5
  <2>2. end(k) \in 1..(Len(s) + 1) /\ (end(k) <= Len(s) => s[end(k)] = "/")
    BY <1>1, <2>1
  <2>3. ASSUME k = n PROVE ~(end(k) < Len(s) + 1)
    <3> HIDE DEF ends
    <3>1. SUFFICES ASSUME end(k) < Len(s) + 1 PROVE FALSE
      OBVIOUS
    <3>2. rank(end(k)) < rank(Len(s) + 1)
      BY <1>2, <1>4, <2>1, <3>1
    <3>3. rank(Len(s) + 1) \in 0..(n - 1)
      BY <1>2, <1>4
    <3>4. QED  BY <1>3, <2>1, <2>3, <3>2, <3>3
  <2>4. ASSUME end(k) = Len(s) + 1 PROVE k = n
    <3>1. n \in 1..n
      BY <1>3, <1>7
    <3>2. end(n) \in ends /\ rank(end(n)) = n - 1
      <4> HIDE DEF ends
      <4>1. QED  BY <1>5, <3>1
    <3>3. end(n) <= end(k)
      <4> HIDE DEF ends
      <4>1. end(n) \in 1..(Len(s) + 1)
        BY <1>2, <3>2
      <4>2. QED  BY <1>1, <2>4, <4>1
    <3>4. ~(end(n) < end(k))
      <4> HIDE DEF ends
      <4>1. QED  BY <1>3, <1>4, <2>1, <3>2
    <3>5. end(n) = end(k)
      <4>1. end(n) \in Nat /\ end(k) \in Nat
        <5> HIDE DEF ends
        <5>1. QED  BY <1>2, <2>1, <3>2
      <4>2. QED  BY <3>3, <3>4, <4>1
    <3>6. k - 1 = n - 1
      BY <2>1, <3>2, <3>5
    <3>7. QED  BY <1>3, <3>6
  <2>5. QED  BY <1>1, <2>2, <2>3, <2>4
<1>10. ASSUME NEW k \in 1..n
       PROVE  /\ end(k - 1) \in 0..Len(s) /\ (k # 1 => s[end(k - 1)] = "/")
              /\ LevelEnd(s, end(k - 1) + 1) = end(k)
  <2>1. /\ end(k) \in ends /\ end(k) \in 1..(Len(s) + 1) /\ (end(k) <= Len(s) => s[end(k)] = "/")
        /\ rank(end(k)) = k - 1
    <3> HIDE DEF ends
    <3>1. QED  BY <1>5, <1>9
  <2>2. ASSUME k # 1
        PROVE  /\ end(k - 1) \in ends /\ end(k - 1) \in 1..Len(s) /\ s[end(k - 1)] = "/"
               /\ rank(end(k - 1)) = k - 2
    <3>1. k - 1 \in 1..n /\ k - 1 # n /\ (k - 1) - 1 = k - 2
      BY <1>3, <2>2
    <3>2. /\ end(k - 1) \in ends /\ rank(end(k - 1)) = (k - 1) - 1
          /\ end(k - 1) \in 1..(Len(s) + 1) /\ (end(k - 1) <= Len(s) => s[end(k - 1)] = "/")
          /\ end(k - 1) # Len(s) + 1
      <4> HIDE DEF ends
      <4>1. QED  BY <1>5, <1>9, <3>1
    <3>3. QED  BY <1>1, <3>1, <3>2
  <2>3. end(k - 1) \in 0..Len(s)
    <3>1. k = 1 => end(k - 1) = 0
      BY <1>6
    <3>2. QED  BY <1>1, <2>2, <3>1
  <2>4. end(k - 1) < end(k)
    <3>1. CASE k = 1
      BY <1>6, <2>1, <3>1
    <3>2. CASE k # 1
      <4>1. ~(end(k) <= end(k - 1))
        <5>1. rank(end(k - 1)) < rank(end(k))
          BY <1>3, <2>1, <2>2, <3>2
        <5>2. rank(end(k)) \in Int /\ rank(end(k - 1)) \in Int
          BY <1>3, <2>1, <2>2, <3>2
        <5>3. end(k) \in Int /\ end(k - 1) \in Int
          BY <2>1, <2>3
        <5>4. end(k) < end(k - 1) => rank(end(k)) < rank(end(k - 1))
          <6> HIDE DEF ends
          <6>1. QED  BY <1>4, <2>1, <2>2, <3>2
        <5>5. QED  BY <5>1, <5>2, <5>3, <5>4
      <4>2. QED  BY <2>1, <2>3, <4>1
    <3>3. QED  BY <3>1, <3>2
  <2>5. ASSUME NEW x \in (end(k - 1) + 1)..(end(k) - 1) PROVE s[x] # "/"
    <3>1. SUFFICES ASSUME s[x] = "/" PROVE FALSE
      OBVIOUS
    <3>2. x \in ends /\ end(k - 1) < x /\ x < end(k)
      BY <1>1, <2>1, <2>3, <3>1
    <3>3. rank(x) \in 0..(n - 1) /\ rank(x) < k - 1
      <4> HIDE DEF ends
      <4>1. QED  BY <1>4, <2>1, <3>2
    <3>4. k # 1 => k - 2 < rank(x)
      <4> HIDE DEF ends
      <4>1. QED  BY <1>4, <2>2, <3>2
    <3>5. QED  BY <1>3, <3>3, <3>4
  <2>6. /\ end(k - 1) + 1 \in 1..(Len(s) + 1) /\ end(k) \in (end(k - 1) + 1)..(Len(s) + 1)
    BY <1>1, <2>1, <2>3, <2>4
  <2>7. LevelEnd(s, end(k - 1) + 1) = end(k)
    BY <2>1, <2>5, <2>6, EndIs
  <2>8. QED  BY <2>2, <2>3, <2>7
<1> HIDE DEF ends
<1>11. p \in [1..(n + 1) -> Nat] /\ p[1] = 1
  <2>1. \A k \in 1..(n + 1) : end(k - 1) \in Nat
    <3>1. SUFFICES ASSUME NEW k \in 1..(n + 1) PROVE end(k - 1) \in Nat
      OBVIOUS
    <3>2. CASE k = 1
      BY <1>6, <3>2
    <3>3. CASE k # 1
      <4>1. k - 1 \in 1..n
        BY <1>3, <3>3
      <4>2. QED  BY <1>1, <1>9, <4>1
    <3>4. QED  BY <3>2, <3>3
  <2>2. 1 \in 1..(n + 1) /\ 1 - 1 = 0
    BY <1>3
  <2>3. QED  BY <1>6, <2>1, <2>2
<1>12. ASSUME NEW k \in 1..n
       PROVE  /\ p[k] = end(k - 1) + 1 /\ p[k + 1] = end(k) + 1 /\ LevelEnd(s, p[k]) = end(k)
              /\ p[k] \in 1..(Len(s) + 1) /\ (p[k] = 1 \/ s[p[k] - 1] = "/")
  <2>1. k \in 1..(n + 1) /\ k + 1 \in 1..(n + 1) /\ (k + 1) - 1 = k
    BY <1>3
  <2>2. p[k] = end(k - 1) + 1 /\ p[k + 1] = end(k) + 1
    BY <2>1
  <2> HIDE DEF p
  <2>3. LevelEnd(s, p[k]) = end(k) /\ p[k] \in 1..(Len(s) + 1)
    BY <1>1, <1>10, <2>2
  <2>4. p[k] = 1 \/ s[p[k] - 1] = "/"
    <3>1. CASE k = 1
      BY <1>6, <2>2, <3>1
    <3>2. CASE k # 1
      <4>1. p[k] - 1 = end(k - 1)
        BY <1>10, <2>2
      <4>2. QED  BY <1>10, <3>2, <4>1
    <3>3. QED  BY <3>1, <3>2
  <2>5. QED  BY <2>2, <2>3, <2>4
<1>13. Levels(s) = [k \in 1..n |-> SubSeq(s, p[k], LevelEnd(s, p[k]) - 1)]
  <2> HIDE DEF p
  <2>1. QED  BY <1>8, <1>12
<1>14. Splits(s, n, p)
  <2> HIDE DEF p
  <2>1. \A k \in 1..n : /\ p[k] \in 1..(Len(s) + 1) /\ p[k + 1] = LevelEnd(s, p[k]) + 1
                        /\ p[k] = 1 \/ s[p[k] - 1] = "/"
                        /\ k = n <=> LevelEnd(s, p[k]) = Len(s) + 1
    BY <1>9, <1>12
  <2>2. QED  BY <1>3, <1>7, <1>11, <1>13, <2>1 DEF Splits
<1>15. QED  BY <1>14

\* What is in a level.
LEMMA LevelIs ==
  ASSUME NEW s \in Strings, NEW i \in 1..(Len(s) + 1)
  PROVE  LET e == LevelEnd(s, i)
             level == SubSeq(s, i, e - 1)
         IN /\ level = [x \in 1..(e - i) |-> s[i + x - 1]] /\ Len(level) = e - i
            /\ level = <<>> <=> e = i
            /\ \A c : level = <<c>> <=> e = i + 1 /\ s[i] = c
            /\ \A c : Contains(level, c) <=> \E x \in i..(e - 1) : s[x] = c
            /\ Reserved(level) <=> Starts(s, i, "$")
<1>1. Len(s) \in Nat
  BY DEF Strings
<1>2. PICK e \in i..(Len(s) + 1) : /\ e = LevelEnd(s, i)
                                   /\ e <= Len(s) => s[e] = "/"
  BY EndOf
<1> DEFINE level == SubSeq(s, i, e - 1)
<1>3. level = [x \in 1..(e - i) |-> s[i + x - 1]] /\ Len(level) = e - i
  <2>1. level = [x \in 1..((e - 1) - i + 1) |-> s[i + x - 1]] /\ Len(level) = (e - 1) - i + 1
    BY <1>1 DEF Strings
  <2>2. (e - 1) - i + 1 = e - i
    BY <1>1
  <2>3. QED  BY <2>1, <2>2
<1> HIDE DEF level
<1>4. level = <<>> <=> e = i
  <2>1. level = <<>> => e = i
    BY <1>1, <1>3
  <2>2. e = i => level = <<>>
    BY <1>1, <1>3
  <2>3. QED  BY <2>1, <2>2
<1>5. ASSUME NEW c PROVE level = <<c>> <=> e = i + 1 /\ s[i] = c
  <2>1. ASSUME level = <<c>> PROVE e = i + 1 /\ s[i] = c
    <3>1. e - i = 1 /\ level[1] = c
      <4>1. Len(<<c>>) = 1 /\ <<c>>[1] = c
        OBVIOUS
      <4>2. QED  BY ONLY <1>3, <2>1, <4>1
    <3>2. QED  BY <1>1, <1>3, <3>1
  <2>2. ASSUME e = i + 1, s[i] = c PROVE level = <<c>>
    <3>1. e - i = 1
      BY <1>1, <2>2
    <3>2. level = [x \in 1..1 |-> c]
      BY <1>1, <1>3, <2>2, <3>1
    <3>3. QED  BY <3>2
  <2>3. QED  BY <2>1, <2>2
<1>6. ASSUME NEW c PROVE Contains(level, c) <=> \E x \in i..(e - 1) : s[x] = c
  <2>1. ASSUME NEW x \in 1..Len(level), level[x] = c PROVE i + x - 1 \in i..(e - 1) /\ s[i + x - 1] = c
    BY <1>1, <1>3, <2>1
  <2>2. ASSUME NEW x \in i..(e - 1), s[x] = c PROVE x - i + 1 \in 1..Len(level) /\ level[x - i + 1] = c
    BY <1>1, <1>3, <2>2
  <2>3. QED  BY <2>1, <2>2 DEF Contains
<1>7. Reserved(level) <=> Starts(s, i, "$")
  BY <1>1, <1>2, <1>3 DEF Reserved, Starts
<1>8. QED  BY <1>2, <1>3, <1>4, <1>5, <1>6, <1>7 DEF level

LEMMA SameLevel ==
  ASSUME NEW f \in Strings, NEW t \in Strings, NEW i \in 1..(Len(f) + 1), NEW j \in 1..(Len(t) + 1)
  PROVE  SubSeq(f, i, LevelEnd(f, i) - 1) = SubSeq(t, j, LevelEnd(t, j) - 1) <=> Alike(f, t, i, j)
<1>1. Len(f) \in Nat /\ Len(t) \in Nat
  BY DEF Strings
<1>2. PICK e \in i..(Len(f) + 1) : e = LevelEnd(f, i)
  BY EndOf
<1>3. PICK d \in j..(Len(t) + 1) : d = LevelEnd(t, j)
  BY EndOf
<1> DEFINE a == SubSeq(f, i, e - 1)
           b == SubSeq(t, j, d - 1)
<1>4. a = [x \in 1..(e - i) |-> f[i + x - 1]] /\ Len(a) = e - i
  BY <1>2, LevelIs
<1>5. b = [x \in 1..(d - j) |-> t[j + x - 1]] /\ Len(b) = d - j
  BY <1>3, LevelIs
<1> HIDE DEF a, b
<1>6. ASSUME a = b PROVE e - i = d - j /\ \A x \in 0..(e - i - 1) : f[i + x] = t[j + x]
  <2>1. e - i = d - j
    BY <1>4, <1>5, <1>6
  <2>2. ASSUME NEW x \in 0..(e - i - 1) PROVE f[i + x] = t[j + x]
    <3>1. x + 1 \in 1..(e - i) /\ i + (x + 1) - 1 = i + x /\ j + (x + 1) - 1 = j + x
      BY <1>1
    <3>2. a[x + 1] = f[i + x]
      BY <1>4, <3>1
    <3>3. b[x + 1] = t[j + x]
      BY <1>5, <2>1, <3>1
    <3>4. QED  BY <1>6, <3>2, <3>3
  <2>3. QED  BY <2>1, <2>2
<1>7. ASSUME e - i = d - j, \A x \in 0..(e - i - 1) : f[i + x] = t[j + x] PROVE a = b
  <2>1. ASSUME NEW x \in 1..(e - i) PROVE f[i + x - 1] = t[j + x - 1]
    <3>1. x - 1 \in 0..(e - i - 1) /\ i + (x - 1) = i + x - 1 /\ j + (x - 1) = j + x - 1
      BY <1>1
    <3>2. QED  BY <1>7, <3>1
  <2>2. QED  BY <1>4, <1>5, <1>7, <2>1
<1>8. QED  BY <1>2, <1>3, <1>6, <1>7 DEF Alike, a, b

-----------------------------------------------------------------------------
(* Level by level. *)

\* A level of the topic against one of the filter that is not #.
LevelFits(fs, ts, k) ==
  \/ fs[k] = ts[k]
  \/ fs[k] = <<"+">> /\ ~Reserved(ts[k]) /\ (ts[k] # <<>> \/ k < Len(ts))

LEMMA LevelTurn ==
  ASSUME NEW f \in Strings, NEW t \in Strings, Valid(f),
         NEW n, NEW p, Splits(f, n, p), NEW m, NEW q, Splits(t, m, q),
         NEW walk, IsWalk(f, t, walk), NEW k \in 1..n, k <= m
  PROVE  LET fs == Levels(f)
             ts == Levels(t)
         IN IF fs[k] = <<"#">> THEN k = n /\ (walk[p[k]][q[k]] <=> ~Reserved(ts[k]))
            ELSE walk[p[k]][q[k]] <=>
                   LevelFits(fs, ts, k) /\ walk[LevelEnd(f, p[k])][LevelEnd(t, q[k])]
<1> DEFINE fs == Levels(f)
           ts == Levels(t)
           i == p[k]
           j == q[k]
           e == LevelEnd(f, i)
           d == LevelEnd(t, j)
<1>1. Len(f) \in Nat /\ Len(t) \in Nat
  BY DEF Strings
<1>2. /\ n \in Nat /\ m \in Nat /\ k \in 1..m /\ DOMAIN fs = 1..n /\ Len(fs) = n /\ Len(ts) = m
  BY DEF Splits
<1>3. /\ i \in 1..(Len(f) + 1) /\ fs[k] = SubSeq(f, i, e - 1) /\ (i = 1 \/ f[i - 1] = "/")
      /\ k = n <=> e = Len(f) + 1
  BY DEF Splits
<1>4. /\ j \in 1..(Len(t) + 1) /\ ts[k] = SubSeq(t, j, d - 1)
      /\ k = m <=> d = Len(t) + 1
  BY <1>2 DEF Splits
<1>5. /\ Contains(fs[k], "+") => fs[k] = <<"+">>
      /\ Contains(fs[k], "#") => fs[k] = <<"#">> /\ k = n
  BY <1>2 DEF Valid
<1> HIDE DEF fs, ts, i, j, e, d
<1>0. i \in 1..(Len(f) + 1) /\ j \in 1..(Len(t) + 1)
  BY <1>3, <1>4
<1>6. e \in i..(Len(f) + 1) /\ d \in j..(Len(t) + 1)
  BY <1>0, EndOf DEF e, d
<1>7. /\ \A c : fs[k] = <<c>> <=> e = i + 1 /\ f[i] = c
      /\ \A c : Contains(fs[k], c) <=> \E x \in i..(e - 1) : f[x] = c
  <2>1. LET level == SubSeq(f, i, e - 1)
        IN /\ \A c : level = <<c>> <=> e = i + 1 /\ f[i] = c
           /\ \A c : Contains(level, c) <=> \E x \in i..(e - 1) : f[x] = c
    BY <1>0, LevelIs DEF e
  <2>2. QED  BY <1>3, <2>1
<1>8. /\ Reserved(ts[k]) <=> Starts(t, j, "$")
      /\ ts[k] = <<>> <=> d = j
      /\ \A c : ts[k] = <<c>> <=> d = j + 1 /\ t[j] = c
  <2>1. LET level == SubSeq(t, j, d - 1)
        IN /\ Reserved(level) <=> Starts(t, j, "$")
           /\ level = <<>> <=> d = j
           /\ \A c : level = <<c>> <=> d = j + 1 /\ t[j] = c
    BY <1>0, LevelIs DEF d
  <2>2. QED  BY <1>4, <2>1
<1>10. CASE fs[k] = <<"#">>
  <2>1. e = i + 1 /\ f[i] = "#"
    BY <1>7, <1>10
  <2>2. Contains(fs[k], "#")
    <3>1. i \in i..(e - 1)
      BY <1>3, <1>1, <2>1
    <3>2. QED  BY <1>7, <2>1, <3>1
  <2>3. k = n /\ i \in 1..Len(f) /\ i = Len(f)
    BY <1>1, <1>3, <1>5, <2>1, <2>2
  <2>4. walk[i][j] <=> ~Starts(t, j, "$")
    <3>1. /\ i \in 1..Len(f) /\ j \in 1..(Len(t) + 1) /\ IsWalk(f, t, walk)
          /\ i = 1 \/ f[i - 1] = "/"
      BY <1>0, <1>3, <2>3
    <3>2. f[i] = "#" /\ i = Len(f) => (walk[i][j] <=> ~Starts(t, j, "$"))
      BY <3>1, WildTurn
    <3>3. QED  BY <2>1, <2>3, <3>2
  <2>5. QED  BY <1>8, <1>10, <2>3, <2>4 DEF fs, ts, i, j
<1>11. CASE fs[k] = <<"+">>
  <2>1. e = i + 1 /\ f[i] = "+"
    BY <1>7, <1>11
  <2>2. i \in 1..Len(f)
    BY <1>1, <1>3, <1>6, <2>1
  <2>3. walk[i][j] <=> ~Starts(t, j, "$") /\ j <= Len(t) /\ walk[e][d]
    BY <1>0, <1>3, <2>1, <2>2, WildTurn DEF d
  <2>4. (ts[k] # <<>> \/ k < Len(ts)) <=> j <= Len(t)
    <3>1. ts[k] = <<>> <=> d = j
      BY <1>8
    <3>2. k < Len(ts) <=> d # Len(t) + 1
      BY <1>2, <1>4
    <3>3. (d # j \/ d # Len(t) + 1) <=> j <= Len(t)
      BY <1>0, <1>1, <1>6
    <3>4. QED  BY <3>1, <3>2, <3>3
  <2>5. fs[k] = ts[k] => ~Starts(t, j, "$") /\ j <= Len(t)
    <3>1. SUFFICES ASSUME fs[k] = ts[k] PROVE ~Starts(t, j, "$") /\ j <= Len(t)
      OBVIOUS
    <3>2. ts[k] = <<"+">> 
      BY <1>11, <3>1
    <3>3. d = j + 1 /\ t[j] = "+"
      BY <1>8, <3>2
    <3>4. QED  BY <1>0, <1>1, <1>6, <3>3 DEF Starts
  <2>6. LevelFits(fs, ts, k) <=> ~Starts(t, j, "$") /\ j <= Len(t)
    BY <1>8, <1>11, <2>4, <2>5 DEF LevelFits
  <2>7. fs[k] # <<"#">>
    BY <1>11
  <2>8. QED  BY <2>3, <2>6, <2>7 DEF fs, ts, i, j, e, d
<1>12. CASE fs[k] # <<"#">> /\ fs[k] # <<"+">>
  <2>1. \A x \in i..(e - 1) : f[x] \notin Wildcard
    BY <1>5, <1>7, <1>12 DEF Wildcard
  <2>2. walk[i][j] <=> Alike(f, t, i, j) /\ walk[e][d]
    BY <1>0, <2>1, PlainLevel DEF e, d
  <2>3. fs[k] = ts[k] <=> Alike(f, t, i, j)
    <3>1. SubSeq(f, i, e - 1) = SubSeq(t, j, d - 1) <=> Alike(f, t, i, j)
      BY <1>0, SameLevel DEF e, d
    <3>2. QED  BY <1>3, <1>4, <3>1
  <2>4. LevelFits(fs, ts, k) <=> fs[k] = ts[k]
    BY <1>12 DEF LevelFits
  <2>5. QED  BY <1>12, <2>2, <2>3, <2>4 DEF fs, ts, i, j, e, d
<1>13. QED  BY <1>10, <1>11, <1>12

LEMMA MatchesLevels ==
  ASSUME NEW f \in Strings, NEW t \in Strings, Valid(f)
  PROVE  mqtt_topic_matches(f, t) <=> Matches(f, t)
<1>1. PICK walk : IsWalk(f, t, walk) /\ (mqtt_topic_matches(f, t) <=> walk[1][1])
  BY WalkIs
<1>2. PICK N, p : Splits(f, N, p)
  BY LevelsAre
<1>3. PICK M, q : Splits(t, M, q)
  BY LevelsAre
<1> DEFINE fs == Levels(f)
           ts == Levels(t)
           multi == fs[N] = <<"#">>
           n == IF multi THEN N - 1 ELSE N
           Rest(k) == /\ M = n \/ (multi /\ M > n /\ ~Reserved(ts[n + 1]))
                      /\ \A x \in k..n : LevelFits(fs, ts, x)
           low == IF N <= M THEN N ELSE M
           T == {k \in 1..low : walk[p[k]][q[k]] <=> Rest(k)}
<1>4. /\ N \in Nat \ {0} /\ M \in Nat \ {0} /\ Len(fs) = N /\ Len(ts) = M
      /\ p[1] = 1 /\ q[1] = 1 /\ n \in Nat /\ Len(f) \in Nat /\ Len(t) \in Nat
  <2>1. N \in Nat \ {0} /\ M \in Nat \ {0} /\ p[1] = 1 /\ q[1] = 1
    BY <1>2, <1>3 DEF Splits
  <2>2. Len(fs) = N /\ Len(ts) = M
    <3>1. /\ fs = [k \in 1..N |-> SubSeq(f, p[k], LevelEnd(f, p[k]) - 1)]
          /\ ts = [k \in 1..M |-> SubSeq(t, q[k], LevelEnd(t, q[k]) - 1)]
      BY <1>2, <1>3 DEF Splits
    <3> HIDE DEF fs, ts
    <3>2. QED  BY <2>1, <3>1
  <2>3. n \in Nat
    <3> HIDE DEF multi
    <3>1. QED  BY <2>1
  <2>4. Len(f) \in Nat /\ Len(t) \in Nat
    BY DEF Strings
  <2>5. QED  BY <2>1, <2>2, <2>3, <2>4
<1>5. Last(fs) = fs[N] /\ \A k \in 1..N : fs[k] = <<"#">> => k = N
  <2>1. ASSUME NEW k \in 1..N, fs[k] = <<"#">> PROVE k = N
    <3>1. Contains(fs[k], "#")
      BY <2>1 DEF Contains
    <3>2. DOMAIN fs = 1..N
      BY <1>2 DEF Splits
    <3> HIDE DEF fs
    <3>3. QED  BY <1>4, <3>1, <3>2 DEF Valid, fs
  <2>2. QED  BY <1>4, <2>1 DEF Last
<1>6. Matches(f, t) <=> Rest(1)
  <2>1. Matches(f, t) <=>
          /\ M = n \/ (multi /\ M > n /\ ~Reserved(ts[n + 1]))
          /\ \A k \in 1..n : \/ fs[k] = ts[k]
                             \/ fs[k] = <<"+">> /\ ~Reserved(ts[k]) /\ (ts[k] # <<>> \/ k < Len(ts))
    BY <1>4, <1>5 DEF Matches
  <2> HIDE DEF fs, ts, n, multi
  <2>2. QED  BY <2>1 DEF LevelFits
<1> HIDE DEF fs, ts
<1>7. ASSUME NEW k \in 1..low
      PROVE  walk[p[k]][q[k]] <=>
               IF fs[k] = <<"#">> THEN ~Reserved(ts[k])
               ELSE LevelFits(fs, ts, k) /\ walk[LevelEnd(f, p[k])][LevelEnd(t, q[k])]
  <2>1. k \in 1..N /\ k <= M
    BY <1>4
  <2>2. QED  BY <1>1, <1>2, <1>3, <2>1, LevelTurn DEF fs, ts
<1>8. ASSUME NEW k \in 1..low, fs[k] # <<"#">>
      PROVE  walk[LevelEnd(f, p[k])][LevelEnd(t, q[k])] <=>
               IF k = N THEN k = M
               ELSE IF k = M THEN fs[k + 1] = <<"#">>
               ELSE walk[p[k + 1]][q[k + 1]]
  <2> DEFINE e == LevelEnd(f, p[k])
             d == LevelEnd(t, q[k])
  <2>1. /\ k \in 1..N /\ k \in 1..M
        /\ e \in 1..(Len(f) + 1) /\ d \in 1..(Len(t) + 1) /\ p[k + 1] = e + 1 /\ q[k + 1] = d + 1
        /\ k = N <=> e = Len(f) + 1
        /\ k = M <=> d = Len(t) + 1
    <3>1. k \in 1..N /\ k \in 1..M
      BY <1>4
    <3>2. /\ p[k] \in 1..(Len(f) + 1) /\ p[k + 1] = e + 1
          /\ k = N <=> e = Len(f) + 1
      BY <1>2, <3>1 DEF Splits
    <3>3. /\ q[k] \in 1..(Len(t) + 1) /\ q[k + 1] = d + 1
          /\ k = M <=> d = Len(t) + 1
      BY <1>3, <3>1 DEF Splits
    <3>4. e \in p[k]..(Len(f) + 1) /\ d \in q[k]..(Len(t) + 1)
      BY <3>2, <3>3, EndOf
    <3> HIDE DEF e, d
    <3>5. e \in 1..(Len(f) + 1) /\ d \in 1..(Len(t) + 1)
      BY <1>4, <3>2, <3>3, <3>4
    <3>6. QED  BY <3>1, <3>2, <3>3, <3>5
  <2>2. (e <= Len(f) => f[e] = "/") /\ (d <= Len(t) => t[d] = "/")
    <3>1. p[k] \in 1..(Len(f) + 1) /\ q[k] \in 1..(Len(t) + 1)
      BY <1>2, <1>3, <2>1 DEF Splits
    <3>2. QED  BY <3>1, EndOf
  <2> HIDE DEF e, d
  <2>3. CASE k = N
    <3>1. e = Len(f) + 1 /\ e > Len(f)
      BY <1>4, <2>1, <2>3
    <3>2. walk[e][d] <=> IF e > Len(f) THEN d > Len(t) ELSE Turn(f, t, e, d, walk[e + 1])
      BY <1>1, <2>1 DEF IsWalk
    <3>3. d > Len(t) <=> d = Len(t) + 1
      BY <1>4, <2>1
    <3>4. QED  BY <2>1, <2>3, <3>1, <3>2, <3>3 DEF e, d
  <2>4. CASE k # N
    <3>1. e \in 1..Len(f) /\ f[e] = "/" /\ f[e] \notin Wildcard
      <4>1. e \in 1..Len(f) /\ e <= Len(f)
        BY <1>4, <2>1, <2>4
      <4>2. QED  BY <2>2, <4>1 DEF Wildcard
    <3>2. CASE k = M
      <4>1. d > Len(t)
        BY <1>4, <2>1, <3>2
      <4>2. walk[e][d] <=> EndsWithParent(f, e)
        BY <1>1, <2>1, <3>1, <4>1, PlainTurn
      <4>3. EndsWithParent(f, e) <=> fs[k + 1] = <<"#">>
        <5>1. /\ k + 1 \in 1..N /\ p[k + 1] = e + 1 /\ p[k + 1] \in 1..(Len(f) + 1)
              /\ fs[k + 1] = SubSeq(f, e + 1, LevelEnd(f, e + 1) - 1)
              /\ k + 1 = N <=> LevelEnd(f, e + 1) = Len(f) + 1
          <6>1. k + 1 \in 1..N
            BY <1>4, <2>1, <2>4
          <6>2. /\ p[k + 1] \in 1..(Len(f) + 1)
                /\ fs[k + 1] = SubSeq(f, p[k + 1], LevelEnd(f, p[k + 1]) - 1)
                /\ k + 1 = N <=> LevelEnd(f, p[k + 1]) = Len(f) + 1
            BY <1>2, <6>1 DEF Splits, fs
          <6>3. QED  BY <2>1, <6>1, <6>2
        <5>2. fs[k + 1] = <<"#">> <=> LevelEnd(f, e + 1) = (e + 1) + 1 /\ f[e + 1] = "#"
          <6>1. e + 1 \in 1..(Len(f) + 1)
            BY <5>1
          <6>2. SubSeq(f, e + 1, LevelEnd(f, e + 1) - 1) = <<"#">>
                  <=> LevelEnd(f, e + 1) = (e + 1) + 1 /\ f[e + 1] = "#"
            <7>1. LET level == SubSeq(f, e + 1, LevelEnd(f, e + 1) - 1)
                  IN \A c : level = <<c>> <=> LevelEnd(f, e + 1) = (e + 1) + 1 /\ f[e + 1] = c
              BY <6>1, LevelIs
            <7>2. QED  BY <7>1
          <6>3. QED  BY <5>1, <6>2
        <5>3. LevelEnd(f, e + 1) \in (e + 1)..(Len(f) + 1)
          BY <5>1, EndOf
        <5>4. ASSUME EndsWithParent(f, e) PROVE fs[k + 1] = <<"#">>
          <6>1. e + 1 <= Len(f) /\ f[e + 1] = "#"
            BY <5>4 DEF EndsWithParent, Starts
          <6>2. LevelEnd(f, e + 1) > e + 1
            BY <5>1, <6>1, EndAt
          <6>3. Contains(fs[k + 1], "#")
            <7>1. e + 1 \in (e + 1)..(LevelEnd(f, e + 1) - 1)
              BY <1>4, <2>1, <5>3, <6>2
            <7>2. QED  BY <5>1, <6>1, <7>1, LevelIs
          <6>4. k + 1 \in DOMAIN fs
            BY <1>2, <5>1 DEF Splits, fs
          <6>5. QED  BY <6>3, <6>4 DEF Valid, fs
        <5>5. ASSUME fs[k + 1] = <<"#">> PROVE EndsWithParent(f, e)
          <6>1. e + 1 <= Len(f) /\ f[e + 1] = "#"
            BY <1>4, <2>1, <5>2, <5>3, <5>5
          <6>2. QED  BY <1>4, <3>1, <6>1 DEF EndsWithParent, Starts
        <5>6. QED  BY <5>4, <5>5
      <4>4. QED  BY <2>4, <3>2, <4>2, <4>3 DEF e, d
    <3>3. CASE k # M
      <4>1. d <= Len(t) /\ t[d] = "/"
        BY <1>4, <2>1, <2>2, <3>3
      <4>2. walk[e][d] <=> f[e] = t[d] /\ walk[e + 1][d + 1]
        BY <1>1, <2>1, <3>1, <4>1, PlainTurn
      <4>3. walk[e][d] <=> walk[p[k + 1]][q[k + 1]]
        BY <2>1, <3>1, <4>1, <4>2
      <4>4. QED  BY <2>4, <3>3, <4>3 DEF e, d
    <3>4. QED  BY <3>2, <3>3
  <2>5. QED  BY <2>3, <2>4
<1>9. ASSUME NEW k \in 1..low, k < low => (walk[p[k + 1]][q[k + 1]] <=> Rest(k + 1))
      PROVE  walk[p[k]][q[k]] <=> Rest(k)
  <2>1. k \in 1..N /\ k \in 1..M /\ (k # N /\ k # M => k < low)
    BY <1>4
  <2>2. CASE fs[k] = <<"#">>
    <3>1. k = N /\ multi
      BY <1>5, <2>1, <2>2
    <3>2. n = N - 1 /\ n + 1 = k /\ M # n /\ M > n
      BY <1>4, <2>1, <3>1
    <3> HIDE DEF n, multi
    <3>3. ~\E x \in k..n : TRUE
      BY <1>4, <2>1, <3>1, <3>2
    <3>4. Rest(k) <=> ~Reserved(ts[k])
      BY <3>1, <3>2, <3>3
    <3>5. QED  BY <1>7, <2>2, <3>4
  <2>3. CASE fs[k] # <<"#">> /\ k = N
    <3>1. ~multi /\ n = N
      BY <2>3
    <3> HIDE DEF n, multi
    <3>2. k..n = {k}
      BY <2>1, <2>3, <3>1
    <3>3. Rest(k) <=> k = M /\ LevelFits(fs, ts, k)
      BY <2>3, <3>1, <3>2
    <3>4. walk[p[k]][q[k]] <=> LevelFits(fs, ts, k) /\ k = M
      BY <1>7, <1>8, <2>3
    <3>5. QED  BY <3>3, <3>4
  <2>4. CASE fs[k] # <<"#">> /\ k # N /\ k = M
    <3>1. walk[p[k]][q[k]] <=> LevelFits(fs, ts, k) /\ fs[k + 1] = <<"#">>
      BY <1>7, <1>8, <2>4
    <3>2. CASE fs[k + 1] = <<"#">>
      <4>1. k + 1 = N /\ multi
        BY <1>4, <1>5, <2>1, <2>4, <3>2
      <4>2. n = k /\ M = n
        BY <2>1, <2>4, <4>1
      <4> HIDE DEF n, multi
      <4>3. k..n = {k}
        BY <2>1, <4>2
      <4>4. Rest(k) <=> LevelFits(fs, ts, k)
        BY <4>2, <4>3
      <4>5. QED  BY <3>1, <3>2, <4>4
    <3>3. CASE fs[k + 1] # <<"#">>
      <4>1. M # n /\ ~(M > n)
        <5>1. CASE multi
          <6>1. k + 1 # N
            BY <3>3, <5>1
          <6>2. n = N - 1
            BY <5>1
          <6> HIDE DEF n, multi
          <6>3. QED  BY <1>4, <2>1, <2>4, <6>1, <6>2
        <5>2. CASE ~multi
          <6>1. n = N
            BY <5>2
          <6> HIDE DEF n, multi
          <6>2. QED  BY <1>4, <2>1, <2>4, <6>1
        <5>3. QED  BY <5>1, <5>2
      <4> HIDE DEF n, multi
      <4>2. ~Rest(k)
        BY <4>1
      <4>3. QED  BY <3>1, <3>3, <4>2
    <3>4. QED  BY <3>2, <3>3
  <2>5. CASE fs[k] # <<"#">> /\ k # N /\ k # M
    <3>1. walk[p[k]][q[k]] <=> LevelFits(fs, ts, k) /\ Rest(k + 1)
      <4> HIDE DEF Rest
      <4>1. QED  BY <1>7, <1>8, <1>9, <2>1, <2>5
    <3>2. k <= n
      <4>1. n >= N - 1
        <5> HIDE DEF multi
        <5>1. QED  BY <1>4
      <4> HIDE DEF n
      <4>2. QED  BY <1>4, <2>1, <2>5, <4>1
    <3> HIDE DEF n, multi
    <3>3. k..n = {k} \cup (k + 1)..n
      BY <1>4, <2>1, <3>2
    <3>4. Rest(k) <=> LevelFits(fs, ts, k) /\ Rest(k + 1)
      BY <3>3
    <3>5. QED  BY <3>1, <3>4
  <2>6. QED  BY <2>2, <2>3, <2>4, <2>5
<1> HIDE DEF Rest
<1>10. 1..low \subseteq T
  <2>1. low \in Nat /\ 1 <= low
    BY <1>4
  <2> HIDE DEF low
  <2>2. low \in T
    <3>1. low \in 1..low /\ ~(low < low)
      BY <2>1
    <3>2. QED  BY <1>9, <3>1
  <2>3. ASSUME NEW k \in 1..low, k \in T, k > 1 PROVE k - 1 \in T
    <3>1. k - 1 \in 1..low /\ (k - 1) + 1 = k
      BY <2>1, <2>3
    <3>2. walk[p[k]][q[k]] <=> Rest(k)
      BY <2>3
    <3>3. QED  BY <1>9, <3>1, <3>2
  <2>4. 1 \in Int /\ low \in Int
    BY <2>1
  <2> HIDE DEF T
  <2>5. QED  BY <2>1, <2>2, <2>3, <2>4, Downward
<1>11. 1 \in T
  <2>1. 1 \in 1..low
    BY <1>4
  <2> HIDE DEF T, low
  <2>2. QED  BY <1>10, <2>1
<1>12. walk[1][1] <=> Rest(1)
  BY <1>4, <1>11
<1>13. QED  BY <1>1, <1>6, <1>12

\* The filter is made of what filters are made of.
LEMMA StringsAtFirst == FilterInit => filter \in Strings
  BY DEF FilterInit, Strings

LEMMA StringsStay == filter \in Strings /\ [FilterNext]_filter => filter' \in Strings
  BY DEF FilterNext, Strings

\* The walk decides as the levels do.
LEMMA WalkByLevels == filter \in Strings => MatchIsByLevels
<1>1. SUFFICES ASSUME filter \in Strings, Valid(filter),
                      NEW n \in 1..TopicMax, NEW t \in [1..n -> TopicChar]
               PROVE  mqtt_topic_matches(filter, t) <=> Matches(filter, t)
  BY DEF MatchIsByLevels
<1>2. t \in Strings
  <2>1. n \in Nat
    BY <1>1
  <2>2. QED  BY <2>1 DEF Strings
<1>3. QED  BY <1>1, <1>2, MatchesLevels

-----------------------------------------------------------------------------
(* The remaining length: the digits of a number, and what is read of them. *)

\* What division by the base says.
LEMMA Digits ==
  ASSUME NEW b \in Nat, b >= 2, NEW v \in Nat
  PROVE  /\ v % b \in 0..(b - 1) /\ v \div b \in Nat
         /\ v = (v % b) + b * (v \div b)
         /\ v >= b => v \div b < v
         /\ v < b => v % b = v
         /\ ((v % b) + b) % b = v % b
<1>1. v % b \in 0..(b - 1) /\ v \div b \in Nat /\ v = (v % b) + b * (v \div b)
  OBVIOUS
<1>2. v >= b => v \div b < v
  OBVIOUS
<1>3. v < b => v % b = v
  OBVIOUS
<1>4. ((v % b) + b) % b = v % b
  OBVIOUS
<1>5. QED BY <1>1, <1>2, <1>3, <1>4

BaseIs == Base \in Nat /\ Base >= 2

\* The digits of v are one digit and those of the quotient.
First(v) == (v % Base) + Base
Encodes(d, n) ==
  d = [v \in 0..n |-> IF v < Base THEN <<v>> ELSE <<First(v)>> \o d[v \div Base]]

LEMMA OneFirst ==
  ASSUME NEW x, NEW y, x \in Nat, y \in Seq(Nat)
  PROVE  <<x>> \o y \in Seq(Nat)
OBVIOUS

LEMMA EncodesExists ==
  ASSUME BaseIs, NEW n \in Nat
  PROVE  \E d \in [0..n -> Seq(Nat)] : Encodes(d, n)
<1> DEFINE V == Seq(Nat)
           Val(v, g) == IF v < Base THEN <<v>> ELSE <<First(v)>> \o g[v \div Base]
           H == [v \in 0..n |-> [g \in [0..(v - 1) -> V] |-> Val(v, g)]]
<1>1. ASSUME NEW v \in 0..n PROVE v >= Base => v \div Base \in 0..(v - 1) /\ First(v) \in Nat
  <2>1. v \in Nat
    OBVIOUS
  <2>2. v >= Base => v \div Base < v /\ v \div Base \in Nat /\ v % Base \in 0..(Base - 1)
    BY <2>1, Digits DEF BaseIs
  <2>3. QED  BY <2>1, <2>2 DEF First, BaseIs
<1>2. Computes(H, n, V)
  <2>1. SUFFICES ASSUME NEW v \in 0..n, NEW g \in [0..(v - 1) -> V] PROVE H[v][g] \in V
    BY DEF Computes
  <2>2. H[v][g] = Val(v, g)
    OBVIOUS
  <2>3. CASE v < Base
    <3>1. Val(v, g) = <<v>> /\ v \in Nat
      BY <2>3
    <3>2. <<v>> \in Seq(Nat)
      BY <3>1
    <3> HIDE DEF H, Val
    <3>3. QED  BY <2>2, <3>1, <3>2
  <2>4. CASE ~(v < Base)
    <3>1. Val(v, g) = <<First(v)>> \o g[v \div Base]
      BY <2>4
    <3>2. v >= Base
      BY <2>4 DEF BaseIs
    <3>3. First(v) \in Nat /\ g[v \div Base] \in Seq(Nat)
      BY <1>1, <3>2
    <3> HIDE DEF H, Val
    <3>4. QED  BY <2>2, <3>1, <3>3, OneFirst
  <2>5. QED  BY <2>3, <2>4
<1>3. PICK d : Computed(d, H, n, V)
  <2> HIDE DEF V, H
  <2>1. QED  BY <1>2, Recursion
<1>4. ASSUME NEW v \in 0..n PROVE d[v] = Val(v, d)
  <2>1. d \in [0..n -> V] /\ d[v] = H[v][Before(d, v)]
    BY <1>3 DEF Computed
  <2>2. Before(d, v) \in [0..(v - 1) -> V] /\ \A k \in 0..(v - 1) : Before(d, v)[k] = d[k]
    <3> HIDE DEF V
    <3>1. QED  BY <2>1 DEF Before
  <2>3. H[v][Before(d, v)] = Val(v, Before(d, v))
    <3> HIDE DEF V, Val
    <3>1. QED  BY <2>2
  <2>4. Val(v, Before(d, v)) = Val(v, d)
    <3>1. CASE v < Base
      BY <3>1
    <3>2. CASE ~(v < Base)
      <4>1. v >= Base
        BY <3>2 DEF BaseIs
      <4>2. Before(d, v)[v \div Base] = d[v \div Base]
        BY <1>1, <2>2, <4>1
      <4>3. QED  BY <3>2, <4>2
    <3>3. QED  BY <3>1, <3>2
  <2> HIDE DEF Val, H
  <2>5. QED  BY <2>1, <2>3, <2>4
<1>5. d \in [0..n -> Seq(Nat)]
  BY <1>3 DEF Computed
<1>6. d = [v \in 0..n |-> Val(v, d)]
  <2> HIDE DEF Val
  <2>1. QED  BY <1>4, <1>5
<1>7. QED  BY <1>5, <1>6 DEF Encodes

LEMMA EncodesAlike ==
  ASSUME BaseIs, NEW n \in Nat, NEW m \in Nat, n <= m, NEW c, NEW d, Encodes(c, n), Encodes(d, m)
  PROVE  \A v \in 0..n : c[v] = d[v]
<1> DEFINE T == {v \in 0..n : c[v] # d[v]}
<1>1. SUFFICES ASSUME T # {} PROVE FALSE
  OBVIOUS
<1>2. PICK v \in T : \A u \in T : v <= u
  <2>1. T \subseteq Nat
    OBVIOUS
  <2> HIDE DEF T
  <2>2. QED  BY <1>1, <2>1, LeastElement
<1>3. v \in 0..n /\ v \in 0..m /\ v \in Nat
  OBVIOUS
<1>4. /\ c[v] = IF v < Base THEN <<v>> ELSE <<First(v)>> \o c[v \div Base]
      /\ d[v] = IF v < Base THEN <<v>> ELSE <<First(v)>> \o d[v \div Base]
  BY <1>3 DEF Encodes
<1>5. CASE v < Base
  BY <1>4, <1>5
<1>6. CASE ~(v < Base)
  <2>1. v \div Base < v /\ v \div Base \in Nat
    <3>1. v >= Base
      BY <1>3, <1>6 DEF BaseIs
    <3>2. QED  BY <1>3, <3>1, Digits DEF BaseIs
  <2>2. v \div Base \in 0..n /\ v \div Base \notin T
    <3> HIDE DEF T
    <3>1. QED  BY <1>2, <1>3, <2>1
  <2>3. c[v \div Base] = d[v \div Base]
    BY <2>2
  <2>4. QED  BY <1>4, <1>6, <2>3
<1>7. QED  BY <1>5, <1>6

LEMMA EncodeIs ==
  ASSUME BaseIs, NEW n \in Nat
  PROVE  /\ Encode(n) \in Seq(Nat)
         /\ n < Base => Encode(n) = <<n>>
         /\ n >= Base => Encode(n) = <<First(n)>> \o Encode(n \div Base) /\ n \div Base < n
<1> DEFINE Chosen(m) == CHOOSE d : Encodes(d, m)
<1>1. \A m \in Nat : Encodes(Chosen(m), m) /\ Encode(m) = Chosen(m)[m]
  <2>1. SUFFICES ASSUME NEW m \in Nat PROVE Encodes(Chosen(m), m) /\ Encode(m) = Chosen(m)[m]
    OBVIOUS
  <2>2. \E d : Encodes(d, m)
    BY EncodesExists
  <2>3. Encode(m) = Chosen(m)[m]
    BY DEF Encode, Encodes, First
  <2>4. QED  BY <2>2, <2>3
<1> HIDE DEF Chosen
<1>2. Encode(n) \in Seq(Nat)
  <2>1. PICK d \in [0..n -> Seq(Nat)] : Encodes(d, n)
    BY EncodesExists
  <2>2. n \in 0..n
    OBVIOUS
  <2>3. Chosen(n)[n] = d[n]
    BY <1>1, <2>1, <2>2, EncodesAlike
  <2>4. QED  BY <1>1, <2>1, <2>2, <2>3
<1>3. Encode(n) = IF n < Base THEN <<n>> ELSE <<First(n)>> \o Chosen(n)[n \div Base]
  <2>1. n \in 0..n
    OBVIOUS
  <2>2. Chosen(n)[n] = IF n < Base THEN <<n>> ELSE <<First(n)>> \o Chosen(n)[n \div Base]
    BY <1>1, <2>1 DEF Encodes
  <2>3. QED  BY <1>1, <2>2
<1>4. ASSUME n >= Base PROVE Encode(n) = <<First(n)>> \o Encode(n \div Base) /\ n \div Base < n
  <2>1. n \div Base < n /\ n \div Base \in Nat /\ ~(n < Base)
    BY <1>4, Digits DEF BaseIs
  <2> DEFINE m == n \div Base
  <2> HIDE DEF m
  <2>2. m < n /\ m \in Nat /\ m <= n /\ m \in 0..m
    BY <2>1 DEF m
  <2>3. Chosen(m)[m] = Chosen(n)[m]
    BY <1>1, <2>2, EncodesAlike
  <2>4. Encode(n) = <<First(n)>> \o Encode(m)
    BY <1>1, <1>3, <2>1, <2>2, <2>3 DEF m
  <2>5. QED  BY <2>1, <2>4 DEF m
<1>5. QED  BY <1>2, <1>3, <1>4

\* The digits, by what is left of n before each: r[i] before the ith.
Spelled(n, e, r) ==
  /\ e \in Seq(Nat) /\ Len(e) >= 1 /\ r \in [1..Len(e) -> Nat] /\ r[1] = n
  /\ \A i \in 1..(Len(e) - 1) : r[i] >= Base /\ r[i + 1] = r[i] \div Base /\ e[i] = First(r[i])
  /\ r[Len(e)] < Base /\ e[Len(e)] = r[Len(e)]

LEMMA EncodeSpells ==
  ASSUME BaseIs, NEW n \in Nat
  PROVE  \E r : Spelled(n, Encode(n), r)
<1> DEFINE T == {k \in Nat : ~\E r : Spelled(k, Encode(k), r)}
<1>1. SUFFICES ASSUME T # {} PROVE FALSE
  OBVIOUS
<1>2. PICK k \in T : \A j \in T : k <= j
  <2>1. T \subseteq Nat
    OBVIOUS
  <2> HIDE DEF T
  <2>2. QED  BY <1>1, <2>1, LeastElement
<1>3. k \in Nat
  OBVIOUS
<1>4. CASE k < Base
  <2>1. Encode(k) = <<k>> /\ Encode(k) \in Seq(Nat)
    BY <1>3, <1>4, EncodeIs
  <2>2. Len(<<k>>) = 1 /\ <<k>>[1] = k /\ [i \in 1..1 |-> k] \in [1..1 -> Nat]
    BY <1>3
  <2>3. Spelled(k, Encode(k), [i \in 1..1 |-> k])
    BY <1>3, <1>4, <2>1, <2>2 DEF Spelled
  <2>4. QED  BY <1>2, <2>3
<1>5. CASE ~(k < Base)
  <2> DEFINE m == k \div Base
             e == Encode(k)
             f == Encode(m)
  <2>1. k >= Base
    BY <1>3, <1>5 DEF BaseIs
  <2>2. m \in Nat /\ m < k /\ e = <<First(k)>> \o f /\ First(k) \in Nat /\ f \in Seq(Nat) /\ e \in Seq(Nat)
    <3>1. m \in Nat /\ m < k /\ k % Base \in 0..(Base - 1)
      BY <1>3, <2>1, Digits DEF BaseIs
    <3>2. First(k) \in Nat
      BY <3>1 DEF First, BaseIs
    <3>3. e = <<First(k)>> \o f /\ f \in Seq(Nat) /\ e \in Seq(Nat)
      BY <1>3, <2>1, <3>1, EncodeIs
    <3>4. QED  BY <3>1, <3>2, <3>3
  <2>3. PICK q : Spelled(m, f, q)
    <3>1. m \notin T
      <4> HIDE DEF T, m
      <4>1. QED  BY <1>2, <1>3, <2>2
    <3> HIDE DEF m
    <3>2. QED  BY <2>2, <3>1
  <2> DEFINE r == [i \in 1..Len(e) |-> IF i = 1 THEN k ELSE q[i - 1]]
  <2> HIDE DEF e, f, m
  <2>4. /\ Len(f) \in Nat /\ Len(f) >= 1 /\ Len(e) = Len(f) + 1 /\ e[1] = First(k)
        /\ \A i \in 2..Len(e) : e[i] = f[i - 1]
    BY <2>2, <2>3 DEF Spelled
  <2>5. r \in [1..Len(e) -> Nat] /\ r[1] = k
    BY <1>3, <2>3, <2>4 DEF Spelled
  <2>6. ASSUME NEW i \in 1..(Len(e) - 1)
        PROVE  r[i] >= Base /\ r[i + 1] = r[i] \div Base /\ e[i] = First(r[i])
    <3>1. i \in 1..Len(e) /\ i + 1 \in 1..Len(e) /\ r[i + 1] = q[i]
      BY <2>4
    <3>2. CASE i = 1
      <4>1. r[i] = k /\ q[1] = m
        BY <2>3, <3>1, <3>2 DEF Spelled
      <4> HIDE DEF r
      <4>2. QED  BY <2>1, <2>4, <3>1, <3>2, <4>1 DEF m
    <3>3. CASE i # 1
      <4>1. r[i] = q[i - 1] /\ i - 1 \in 1..(Len(f) - 1) /\ (i - 1) + 1 = i /\ e[i] = f[i - 1]
        BY <2>4, <3>1, <3>3
      <4>2. q[i - 1] >= Base /\ q[(i - 1) + 1] = q[i - 1] \div Base /\ f[i - 1] = First(q[i - 1])
        BY <2>3, <4>1 DEF Spelled
      <4> HIDE DEF r
      <4>3. QED  BY <3>1, <4>1, <4>2
    <3>4. QED  BY <3>2, <3>3
  <2>7. r[Len(e)] < Base /\ e[Len(e)] = r[Len(e)]
    <3>1. Len(e) \in 2..Len(e) /\ Len(e) - 1 = Len(f) /\ Len(e) \in 1..Len(e) /\ Len(e) # 1
      BY <2>4
    <3>2. r[Len(e)] = q[Len(f)] /\ e[Len(e)] = f[Len(f)]
      BY <2>4, <3>1
    <3> HIDE DEF r
    <3>3. QED  BY <2>3, <3>2 DEF Spelled
  <2>8. Spelled(k, e, r)
    <3> HIDE DEF r
    <3>1. QED  BY <2>2, <2>4, <2>5, <2>6, <2>7 DEF Spelled
  <2>9. QED  BY <1>2, <2>8 DEF e
<1>6. QED  BY <1>4, <1>5

\* Bytes that begin with the digits of n.
Begins(bytes, e) == Len(e) <= Len(bytes) /\ \A i \in 1..Len(e) : bytes[i] = e[i]

LEMMA EncodeShape ==
  ASSUME BaseIs, NEW n \in Nat
  PROVE  LET e == Encode(n)
         IN /\ e \in Seq(Nat) /\ Len(e) \in Nat /\ Len(e) >= 1
            /\ \A i \in 1..(Len(e) - 1) : ~(e[i] < Base)
            /\ e[Len(e)] < Base
<1> DEFINE e == Encode(n)
<1>1. PICK r : Spelled(n, e, r)
  BY EncodeSpells
<1> HIDE DEF e
<1>2. ASSUME NEW i \in 1..(Len(e) - 1) PROVE ~(e[i] < Base)
  <2>1. r[i] \in Nat /\ e[i] = First(r[i])
    BY <1>1 DEF Spelled
  <2>2. r[i] % Base \in 0..(Base - 1)
    BY <2>1, Digits DEF BaseIs
  <2>3. QED  BY <2>1, <2>2 DEF First, BaseIs
<1>3. e \in Seq(Nat) /\ Len(e) \in Nat /\ Len(e) >= 1 /\ e[Len(e)] < Base
  BY <1>1 DEF Spelled
<1>4. QED  BY <1>2, <1>3 DEF e

LEMMA MinIs ==
  ASSUME NEW S, S \subseteq Int, NEW x \in S, \A y \in S : x <= y
  PROVE  Min(S) = x
<1>1. Min(S) \in S /\ \A y \in S : Min(S) <= y
  BY DEF Min
<1>2. Min(S) <= x /\ x <= Min(S) /\ Min(S) \in Int /\ x \in Int
  BY <1>1
<1>3. QED  BY <1>2

Sized(bytes) == Len(bytes) \in Nat /\ DOMAIN bytes = 1..Len(bytes)

\* A length that is there is read back.
LEMMA DecodeWhole ==
  ASSUME BaseIs, NEW n \in Nat, NEW bytes, Sized(bytes), Begins(bytes, Encode(n)),
         Len(Encode(n)) <= LengthMax
  PROVE  Decode(bytes) = [bytes |-> Len(Encode(n)), value |-> n]
<1> DEFINE e == Encode(n)
           L == Len(e)
           ends == {i \in DOMAIN bytes : bytes[i] < Base}
           Is(v) == v = [i \in 1..(L + 1) |-> IF i > L THEN 0 ELSE (bytes[i] % Base) + Base * v[i + 1]]
           value == CHOOSE v : Is(v)
<1>1. PICK r : Spelled(n, e, r)
  BY EncodeSpells
<1> HIDE DEF e
<1>2. /\ L \in Nat /\ L >= 1 /\ r[1] = n
      /\ \A i \in 1..L : /\ r[i] \in Nat
                         /\ i < L => r[i + 1] = r[i] \div Base /\ bytes[i] = First(r[i])
                         /\ i = L => r[i] < Base /\ bytes[i] = r[i]
  BY <1>1 DEF Spelled, Begins, e
<1>3. \A i \in 1..L : /\ i < L => ~(bytes[i] < Base)
                      /\ i = L => bytes[i] < Base
  <2>1. SUFFICES ASSUME NEW i \in 1..L, i < L PROVE ~(bytes[i] < Base)
    BY <1>2
  <2>2. r[i] \in Nat /\ bytes[i] = First(r[i])
    BY <1>2, <2>1
  <2>3. r[i] % Base \in 0..(Base - 1)
    BY <2>2, Digits DEF BaseIs
  <2>4. QED  BY <2>2, <2>3 DEF First, BaseIs
<1>4. L \in DOMAIN bytes /\ DOMAIN bytes \subseteq Nat /\ L <= LengthMax /\ \A i \in DOMAIN bytes : i >= 1
  BY <1>2 DEF Begins, Sized, e
<1>5. ends # {} /\ Min(ends) = L
  <2>1. L \in ends /\ \A i \in ends : L <= i
    <3>1. L \in ends
      BY <1>2, <1>3, <1>4
    <3>2. ASSUME NEW i \in ends PROVE ~(i < L)
      <4>1. i \in DOMAIN bytes /\ bytes[i] < Base /\ i \in Nat /\ i >= 1
        BY <1>4
      <4> HIDE DEF L
      <4>2. QED  BY <1>2, <1>3, <4>1
    <3>3. \A i \in ends : i \in Nat
      BY <1>4
    <3> HIDE DEF ends, L
    <3>4. QED  BY <1>2, <3>1, <3>2, <3>3
  <2>2. ends \subseteq Int
    BY <1>4
  <2> HIDE DEF ends, L
  <2>3. QED  BY <2>1, <2>2, MinIs
<1> DEFINE w == [i \in 1..(L + 1) |-> IF i > L THEN 0 ELSE r[i]]
<1>6. ASSUME NEW i \in 1..L, NEW x, x = IF i = L THEN 0 ELSE r[i + 1]
      PROVE  (bytes[i] % Base) + Base * x = r[i]
  <2>1. r[i] \in Nat
    BY <1>2
  <2>2. /\ r[i] % Base \in 0..(Base - 1) /\ r[i] = (r[i] % Base) + Base * (r[i] \div Base)
        /\ r[i] < Base => r[i] % Base = r[i]
        /\ ((r[i] % Base) + Base) % Base = r[i] % Base
    BY <2>1, Digits DEF BaseIs
  <2>3. CASE i = L
    <3>1. bytes[i] % Base = r[i] /\ Base * x = 0
      BY <1>2, <1>6, <2>1, <2>2, <2>3 DEF BaseIs
    <3>2. QED  BY <2>1, <3>1
  <2>4. CASE i # L
    <3>1. i < L
      BY <1>2, <2>4
    <3>2. bytes[i] % Base = r[i] % Base /\ x = r[i] \div Base
      BY <1>2, <1>6, <2>2, <2>4, <3>1 DEF First
    <3>3. QED  BY <2>2, <3>2
  <2>5. QED  BY <2>3, <2>4
<1>7. Is(w)
  <2>1. ASSUME NEW i \in 1..(L + 1)
        PROVE  w[i] = IF i > L THEN 0 ELSE (bytes[i] % Base) + Base * w[i + 1]
    <3>1. CASE i > L
      BY <3>1
    <3>2. CASE ~(i > L)
      <4>1. i \in 1..L /\ i + 1 \in 1..(L + 1) /\ (i + 1 > L <=> i = L) /\ w[i] = r[i]
        BY <1>2, <3>2
      <4>2. w[i + 1] = IF i = L THEN 0 ELSE r[i + 1]
        BY <4>1
      <4> HIDE DEF w, L
      <4>3. QED  BY <1>6, <3>2, <4>1, <4>2
    <3>3. QED  BY <3>1, <3>2
  <2>2. w = [i \in 1..(L + 1) |-> w[i]]
    OBVIOUS
  <2> HIDE DEF w, L
  <2>3. QED  BY <2>1, <2>2
<1>8. Is(value)
  <2> HIDE DEF w, Is
  <2>1. QED  BY <1>7
<1>9. \A i \in 1..(L + 1) : value[i] = IF i > L THEN 0 ELSE (bytes[i] % Base) + Base * value[i + 1]
  <2> HIDE DEF value
  <2>1. QED  BY <1>8
<1> HIDE DEF value
<1>10. value[1] = n
  <2> DEFINE T == {i \in 1..L : value[i] = r[i]}
  <2>1. L \in T
    <3>1. L + 1 \in 1..(L + 1) /\ L + 1 > L /\ L \in 1..(L + 1) /\ L \in 1..L /\ ~(L > L)
      BY <1>2
    <3>2. value[L + 1] = 0 /\ value[L] = (bytes[L] % Base) + Base * value[L + 1]
      BY <1>9, <3>1
    <3> HIDE DEF L
    <3>3. QED  BY <1>6, <3>1, <3>2
  <2>2. ASSUME NEW k \in 1..L, k \in T, k > 1 PROVE k - 1 \in T
    <3> DEFINE i == k - 1
    <3>1. i \in 1..L /\ i \in 1..(L + 1) /\ i + 1 = k /\ ~(i > L) /\ i # L
      BY <1>2, <2>2
    <3> HIDE DEF i, L
    <3>2. value[i] = (bytes[i] % Base) + Base * value[i + 1] /\ value[i + 1] = r[i + 1]
      BY <1>9, <2>2, <3>1
    <3>3. value[i] = r[i]
      BY <1>6, <3>1, <3>2
    <3>4. QED  BY <3>1, <3>3 DEF i
  <2>3. 1 \in Int /\ L \in Int /\ 1 <= L
    BY <1>2
  <2> HIDE DEF T, L
  <2>4. 1..L \subseteq T
    BY <2>1, <2>2, <2>3, Downward
  <2>5. 1 \in T
    BY <2>3, <2>4
  <2>6. QED  BY <1>2, <2>5 DEF T
<1>11. Decode(bytes) = [bytes |-> L, value |-> value[1]]
  <2>1. Decode(bytes) =
          IF ends # {} /\ Min(ends) <= LengthMax
          THEN [bytes |-> Min(ends),
                value |-> (CHOOSE v : v = [i \in 1..(Min(ends) + 1) |->
                             IF i > Min(ends) THEN 0 ELSE (bytes[i] % Base) + Base * v[i + 1]])[1]]
          ELSE [bytes |-> 0, value |-> IF Len(bytes) > LengthMax THEN Malformed ELSE NeedMore]
    BY DEF Decode
  <2> HIDE DEF ends, L
  <2>2. QED  BY <1>4, <1>5, <2>1 DEF value
<1>12. QED  BY <1>10, <1>11 DEF e

\* One that is cut short asks for more, and one that does not end is malformed.
LEMMA DecodeCut ==
  ASSUME NEW bytes, Sized(bytes), LengthMax \in Nat,
         \A i \in 1..Len(bytes) : i <= LengthMax => ~(bytes[i] < Base)
  PROVE  Decode(bytes) = [bytes |-> 0, value |-> IF Len(bytes) > LengthMax THEN Malformed ELSE NeedMore]
<1> DEFINE ends == {i \in DOMAIN bytes : bytes[i] < Base}
<1>1. ends \subseteq Nat /\ \A i \in ends : ~(i <= LengthMax)
  BY DEF Sized
<1>2. ASSUME ends # {} PROVE Min(ends) \in ends
  <2>1. PICK m \in ends : \A j \in ends : m <= j
    <3> HIDE DEF ends
    <3>1. QED  BY <1>1, <1>2, LeastElement
  <2> HIDE DEF ends
  <2>2. QED  BY <2>1 DEF Min
<1>3. ~(ends # {} /\ Min(ends) <= LengthMax)
  <2> HIDE DEF ends
  <2>1. QED  BY <1>1, <1>2
<1>4. QED  BY <1>3 DEF Decode

-----------------------------------------------------------------------------
(* The parsers *)

\* What has been read of a body of a size.
Reading(room) == [ok : BOOLEAN, used : 0..room, fields : Seq(Nat)]

Sizes == BaseIs /\ LengthMax \in Nat /\ StringMax \in Nat /\ RecvSize \in Nat /\ PacketsMax \in Nat

LEMMA SmallerOf ==
  ASSUME NEW a \in Int, NEW b \in Int
  PROVE  Min({a, b}) = IF a <= b THEN a ELSE b
<1>1. CASE a <= b
  BY <1>1, MinIs
<1>2. CASE ~(a <= b)
  <2>1. {a, b} \subseteq Int /\ b \in {a, b} /\ \A y \in {a, b} : b <= y
    BY <1>2
  <2>2. Min({a, b}) = b
    BY <2>1, MinIs
  <2>3. QED  BY <1>2, <2>2
<1>3. QED  BY <1>1, <1>2

LEMMA ReadStringWithin ==
  ASSUME Sizes, NEW room \in Nat, NEW acc \in Reading(room), NEW n \in Nat, NEW extra \in Nat, NEW most
  PROVE  ReadString(acc, n, extra, room, most) \in Reading(room)
<1>1. Stored(n) \in Nat
  BY SmallerOf DEF Stored, Sizes
<1>2. acc.ok \in BOOLEAN /\ acc.used \in 0..room /\ acc.fields \in Seq(Nat)
  BY DEF Reading
<1>3. Append(acc.fields, Stored(n)) \in Seq(Nat) /\ <<>> \in Seq(Nat)
  BY <1>1, <1>2
<1>4. Bad(acc.used) \in Reading(room)
  BY <1>2, <1>3 DEF Bad, Reading
<1>5. ASSUME Fits(n + extra, room - acc.used)
      PROVE  [ok |-> TRUE, used |-> acc.used + 2 + n + extra,
              fields |-> Append(acc.fields, Stored(n))] \in Reading(room)
  <2>1. acc.used + 2 + n + extra \in 0..room
    BY <1>2, <1>5 DEF Fits
  <2>2. QED  BY <1>3, <2>1 DEF Reading
<1>6. QED  BY <1>4, <1>5 DEF ReadString

LEMMA ReadStringsWithin ==
  ASSUME Sizes, NEW room \in Nat, NEW lengths \in Seq(Nat), NEW extra \in Nat, NEW most
  PROVE  ReadStrings(lengths, extra, room, most) \in Reading(room)
<1> DEFINE N == Len(lengths)
           V == Reading(room)
           start == [ok |-> TRUE, used |-> 0, fields |-> <<>>]
           Val(k, g) == IF k = 0 THEN start ELSE ReadString(g[k - 1], lengths[k], extra, room, most)
           H == [k \in 0..N |-> [g \in [0..(k - 1) -> V] |-> Val(k, g)]]
           Is(read) == read = [k \in 0..N |-> Val(k, read)]
           read == CHOOSE r : Is(r)
<1>1. N \in Nat /\ \A k \in 1..N : lengths[k] \in Nat
  OBVIOUS
<1>2. start \in V
  BY DEF Reading
<1>3. ASSUME NEW k \in 0..N, NEW g, k # 0 => g[k - 1] \in V PROVE Val(k, g) \in V
  <2>1. k # 0 => lengths[k] \in Nat
    BY <1>1
  <2> HIDE DEF start, V, N
  <2>2. QED  BY <1>2, <1>3, <2>1, ReadStringWithin DEF V
<1>4. Computes(H, N, V)
  <2>1. SUFFICES ASSUME NEW k \in 0..N, NEW g \in [0..(k - 1) -> V] PROVE H[k][g] \in V
    BY DEF Computes
  <2>2. H[k][g] = Val(k, g)
    <3> HIDE DEF V, Val
    <3>1. QED  OBVIOUS
  <2>3. k # 0 => k - 1 \in 0..(k - 1)
    BY <1>1
  <2>4. k # 0 => g[k - 1] \in V
    <3> HIDE DEF V
    <3>1. QED  BY <2>3
  <2> HIDE DEF V, Val, H
  <2>5. QED  BY <1>3, <2>2, <2>4
<1>5. PICK f : Computed(f, H, N, V)
  <2> HIDE DEF V, H, N
  <2>1. QED  BY <1>1, <1>4, Recursion
<1>6. Is(f)
  <2>1. ASSUME NEW k \in 0..N PROVE f[k] = Val(k, f)
    <3>1. f \in [0..N -> V] /\ f[k] = H[k][Before(f, k)]
      BY <1>5 DEF Computed
    <3>2. Before(f, k) \in [0..(k - 1) -> V] /\ \A j \in 0..(k - 1) : Before(f, k)[j] = f[j]
      <4> HIDE DEF V
      <4>1. QED  BY <1>1, <3>1, BeforeIs
    <3>3. H[k][Before(f, k)] = Val(k, Before(f, k))
      <4> HIDE DEF V, Val
      <4>1. QED  BY <3>2
    <3>4. Val(k, Before(f, k)) = Val(k, f)
      <4>1. k # 0 => Before(f, k)[k - 1] = f[k - 1]
        BY <1>1, <3>2
      <4>2. QED  BY <4>1
    <3> HIDE DEF Val, H
    <3>5. QED  BY <3>1, <3>3, <3>4
  <2>2. f = [k \in 0..N |-> f[k]]
    BY <1>5 DEF Computed
  <2> HIDE DEF Val, N
  <2>3. QED  BY <2>1, <2>2
<1>7. Is(read)
  <2> HIDE DEF Is
  <2>1. QED  BY <1>6
<1>8. ASSUME NEW k \in 0..N PROVE read[k] = Val(k, read)
  <2> HIDE DEF read, Val, N
  <2>1. QED  BY <1>7
<1> HIDE DEF read
<1>9. Nat \subseteq {k \in Nat : k <= N => read[k] \in V}
  <2> DEFINE T == {k \in Nat : k <= N => read[k] \in V}
  <2>1. 0 \in T
    <3>1. 0 \in 0..N
      BY <1>1
    <3> HIDE DEF V, Val
    <3>2. QED  BY <1>3, <1>8, <3>1
  <2>2. ASSUME NEW k \in Nat, k \in T PROVE k + 1 \in T
    <3>1. SUFFICES ASSUME k + 1 <= N PROVE read[k + 1] \in V
      BY <1>1
    <3>2. k + 1 \in 0..N /\ (k + 1) - 1 = k /\ k <= N
      BY <1>1, <3>1
    <3>3. read[k] \in V
      BY <2>2, <3>2
    <3> HIDE DEF V, Val
    <3>4. QED  BY <1>3, <1>8, <3>2, <3>3
  <2> HIDE DEF T
  <2>3. Nat \subseteq T
    BY <2>1, <2>2, Inductive
  <2>4. QED  BY <2>3 DEF T
<1>10. read[N] \in V
  <2> HIDE DEF V
  <2>1. QED  BY <1>1, <1>9
<1>11. ReadStrings(lengths, extra, room, most) = read[N]
  BY DEF ReadStrings, read
<1>12. QED  BY <1>10, <1>11

\* A packet the constants admit.
Packet(p) == p.qos \in Nat /\ p.room \in Nat /\ p.lengths \in Seq(Nat)

LEMMA PaddedIs ==
  ASSUME NEW lengths \in Seq(Nat), NEW room \in Nat
  PROVE  /\ Padded(lengths, room) \in Seq(Nat)
         /\ room >= 1 => Head(Padded(lengths, room)) \in Nat
<1>1. [i \in 1..room |-> 0] \in Seq(Nat) /\ Len([i \in 1..room |-> 0]) = room
  OBVIOUS
<1>2. QED  BY <1>1 DEF Padded

\* No parser reads past the end of its packet.
LEMMA ParseWithin ==
  ASSUME Sizes, NEW p, Packet(p)
  PROVE  Parse(p).used \in 0..p.room
<1>1. p.room \in Nat /\ p.lengths \in Seq(Nat) /\ p.qos \in Nat
  BY DEF Packet
<1>2. ParseConnect(p).used \in 0..p.room
  <2>1. CASE p.room < 10
    BY <1>1, <2>1 DEF ParseConnect, Bad
  <2>2. CASE ~(p.room < 10)
    <3> DEFINE r == ReadStrings(p.lengths, 0, p.room - 10, Len(p.lengths))
    <3>1. r \in Reading(p.room - 10)
      <4>1. p.room - 10 \in Nat
        BY <1>1, <2>2
      <4>2. QED  BY <1>1, <4>1, ReadStringsWithin
    <3> HIDE DEF r
    <3>2. r.used \in 0..(p.room - 10) /\ 10 + r.used \in 0..p.room
      BY <1>1, <2>2, <3>1 DEF Reading
    <3>3. [r EXCEPT !.used = 10 + @].used = 10 + r.used
      BY <3>1 DEF Reading
    <3>4. Bad(10 + r.used).used = 10 + r.used
      BY DEF Bad
    <3>5. ParseConnect(p) \in {Bad(10 + r.used), [r EXCEPT !.used = 10 + @]}
      BY <2>2 DEF ParseConnect, r
    <3>6. QED  BY <3>2, <3>3, <3>4, <3>5
  <2>3. QED  BY <2>1, <2>2
<1>3. ASSUME NEW extra \in Nat PROVE ParseFilters(p, extra).used \in 0..p.room
  <2>1. CASE p.room < 2
    BY <1>1, <2>1 DEF ParseFilters, Bad
  <2>2. CASE ~(p.room < 2)
    <3> DEFINE r == ReadStrings(Padded(p.lengths, p.room), extra, p.room - 2, SubsMax)
    <3>1. r \in Reading(p.room - 2)
      <4>1. p.room - 2 \in Nat
        BY <1>1, <2>2
      <4>2. QED  BY <1>1, <4>1, PaddedIs, ReadStringsWithin
    <3> HIDE DEF r
    <3>2. r.used \in 0..(p.room - 2) /\ 2 + r.used \in 0..p.room
      BY <1>1, <2>2, <3>1 DEF Reading
    <3>3. [r EXCEPT !.used = 2 + @].used = 2 + r.used
      BY <3>1 DEF Reading
    <3>4. Bad(2 + r.used).used = 2 + r.used
      BY DEF Bad
    <3>5. ParseFilters(p, extra) \in {Bad(2 + r.used), [r EXCEPT !.used = 2 + @]}
      BY <2>2 DEF ParseFilters, r
    <3>6. QED  BY <3>2, <3>3, <3>4, <3>5
  <2>3. QED  BY <2>1, <2>2
<1>4. ParsePublish(p).used \in 0..p.room
  <2> DEFINE topic == Head(Padded(p.lengths, 1))
             id == IF p.qos > 0 THEN 2 ELSE 0
  <2>1. topic \in Nat /\ id \in 0..2
    BY <1>1, PaddedIs
  <2> HIDE DEF topic, id
  <2>2. CASE p.room < 2 \/ ~Fits(topic, p.room)
    <3>1. Min({2, p.room}) \in 0..p.room
      BY <1>1, SmallerOf
    <3>2. ParsePublish(p) = Bad(Min({2, p.room}))
      BY <2>2 DEF ParsePublish, topic
    <3>3. QED  BY <3>1, <3>2 DEF Bad
  <2>3. CASE ~(p.room < 2 \/ ~Fits(topic, p.room))
    <3>1. 2 + topic \in 0..p.room
      BY <1>1, <2>1, <2>3 DEF Fits
    <3>2. ParsePublish(p) = IF p.room < 2 + topic + id THEN Bad(2 + topic)
                            ELSE [ok |-> TRUE, used |-> p.room,
                                  fields |-> <<Stored(topic), p.room - (2 + topic + id)>>]
      BY <2>3 DEF ParsePublish, topic, id
    <3>3. QED  BY <1>1, <3>1, <3>2 DEF Bad
  <2>4. QED  BY <2>2, <2>3
<1>5. ParseAck(p).used \in 0..p.room
  BY <1>1 DEF ParseAck, Bad
<1>6. QED  BY <1>1, <1>2, <1>3, <1>4, <1>5 DEF Parse

\* A message that is built is parsed as it was.
LEMMA PublishParses ==
  ASSUME Sizes, NEW topic \in Nat, NEW payload \in Nat, NEW qos \in 0..1
  PROVE  LET p == BuildPublish(topic, payload, qos)
         IN Parse(p) = [ok |-> TRUE, used |-> p.room, fields |-> <<Stored(topic), payload>>]
<1> DEFINE p == BuildPublish(topic, payload, qos)
           id == IF qos > 0 THEN 2 ELSE 0
<1>1. p.type = "PUBLISH" /\ p.qos = qos /\ p.room = 2 + topic + payload + id /\ p.lengths = <<topic>>
  BY DEF BuildPublish
<1> HIDE DEF p
<1>2. Head(Padded(p.lengths, 1)) = topic
  <2>1. Padded(<<topic>>, 1) = <<topic>> \o [i \in 1..1 |-> 0]
    BY DEF Padded
  <2>2. Head(<<topic>> \o [i \in 1..1 |-> 0]) = topic
    OBVIOUS
  <2>3. QED  BY <1>1, <2>1, <2>2
<1>3. ~(p.room < 2 \/ ~Fits(topic, p.room)) /\ ~(p.room < 2 + topic + id)
      /\ p.room - (2 + topic + id) = payload
  BY <1>1 DEF Fits
<1>4. ParsePublish(p) = [ok |-> TRUE, used |-> p.room, fields |-> <<Stored(topic), payload>>]
  <2>1. ParsePublish(p) =
          IF p.room < 2 \/ ~Fits(topic, p.room) THEN Bad(Min({2, p.room}))
          ELSE IF p.room < 2 + topic + id THEN Bad(2 + topic)
          ELSE [ok |-> TRUE, used |-> p.room, fields |-> <<Stored(topic), p.room - (2 + topic + id)>>]
    <3> HIDE DEF id
    <3>1. QED  BY <1>1, <1>2 DEF ParsePublish, id
  <2> HIDE DEF id
  <2>2. QED  BY <1>3, <2>1
<1>5. Parse(p) = ParsePublish(p)
  BY <1>1 DEF Parse
<1>6. QED  BY <1>4, <1>5 DEF p

LEMMA BuiltIsParsed == WireAssumption => BuildsWhatItParses
<1>1. SUFFICES ASSUME WireAssumption,
                      NEW topic \in 0..(StringMax + 1), NEW payload \in 0..(StringMax + 1), NEW qos \in 0..1
      PROVE  LET p == BuildPublish(topic, payload, qos)
                 e == Encode(p.room)
             IN /\ Parse(p) = [ok |-> TRUE, used |-> p.room, fields |-> <<Stored(topic), payload>>]
                /\ Decode(e) = [bytes |-> Len(e), value |-> p.room]
                /\ \A n \in 0..(Len(e) - 1) : Decode(SubSeq(e, 1, n)).value = NeedMore
  BY DEF BuildsWhatItParses
<1> DEFINE p == BuildPublish(topic, payload, qos)
           room == p.room
           e == Encode(room)
<1>2. Sizes /\ BaseIs /\ topic \in Nat /\ payload \in Nat
  BY <1>1 DEF WireAssumption, Sizes, BaseIs
<1>3. room \in 0..(2 * StringMax + 6)
  <2>1. room = 2 + topic + payload + (IF qos > 0 THEN 2 ELSE 0)
    BY DEF BuildPublish
  <2>2. StringMax \in Nat
    BY <1>2 DEF Sizes
  <2> HIDE DEF p
  <2>3. QED  BY <1>2, <2>1, <2>2
<1> HIDE DEF room
<1>4. Len(e) <= LengthMax /\ room \in Nat /\ LengthMax \in Nat
  BY <1>1, <1>3 DEF WireAssumption
<1>5. /\ e \in Seq(Nat) /\ Len(e) \in Nat /\ Len(e) >= 1
      /\ \A i \in 1..(Len(e) - 1) : ~(e[i] < Base)
      /\ e[Len(e)] < Base
  BY <1>2, <1>4, EncodeShape
<1> HIDE DEF e
<1>6. Parse(p) = [ok |-> TRUE, used |-> p.room, fields |-> <<Stored(topic), payload>>]
  BY <1>2, PublishParses
<1>7. Decode(e) = [bytes |-> Len(e), value |-> room]
  <2>1. Sized(e) /\ Begins(e, Encode(room)) /\ Len(Encode(room)) <= LengthMax
    BY <1>4, <1>5 DEF Sized, Begins, e
  <2>2. QED  BY <1>2, <1>4, <2>1, DecodeWhole DEF e
<1>8. ASSUME NEW n \in 0..(Len(e) - 1) PROVE Decode(SubSeq(e, 1, n)).value = NeedMore
  <2> DEFINE s == SubSeq(e, 1, n)
  <2>1. Len(s) = n /\ Sized(s) /\ n \in Nat /\ ~(n > LengthMax) /\ \A i \in 1..n : s[i] = e[i]
    BY <1>4, <1>5 DEF Sized
  <2> HIDE DEF s
  <2>2. \A i \in 1..Len(s) : i <= LengthMax => ~(s[i] < Base)
    BY <1>5, <2>1
  <2>3. Decode(s) = [bytes |-> 0, value |-> IF Len(s) > LengthMax THEN Malformed ELSE NeedMore]
    BY <1>4, <2>1, <2>2, DecodeCut
  <2>4. QED  BY <2>1, <2>3 DEF s
<1>9. QED  BY <1>6, <1>7, <1>8 DEF e, room

-----------------------------------------------------------------------------
(* The stream: one frame after the other. *)

\* fl[i] is the concatenation of the first i sequences of ss.
Flattened(fl, ss, N, S) ==
  /\ fl \in [1..N -> Seq(S)]
  /\ FlattenSeq(ss) = fl[N] /\ fl[1] = ss[1]
  /\ \A i \in 2..N : fl[i] = fl[i - 1] \o ss[i]

LEMMA FlattenIs ==
  ASSUME NEW S, NEW ss, NEW N \in Nat, N >= 1, ss \in [1..N -> Seq(S)]
  PROVE  \E fl : Flattened(fl, ss, N, S)
<1> DEFINE V == Seq(S)
           Val(i, last) == IF i = 1 THEN ss[i] ELSE last \o ss[i]
           H == [k \in 0..(N - 1) |-> [g \in [0..(k - 1) -> V] |-> Val(k + 1, g[k - 1])]]
           Is(fl) == fl = [i \in 1..N |-> Val(i, fl[i - 1])]
           flat == CHOOSE fl : Is(fl)
<1>1. ASSUME NEW i \in 1..N, NEW last, i # 1 => last \in V PROVE Val(i, last) \in V
  BY <1>1
<1>2. Computes(H, N - 1, V)
  <2>1. SUFFICES ASSUME NEW k \in 0..(N - 1), NEW g \in [0..(k - 1) -> V] PROVE H[k][g] \in V
    BY DEF Computes
  <2>2. H[k][g] = Val(k + 1, g[k - 1])
    <3> HIDE DEF V, Val
    <3>1. QED  OBVIOUS
  <2>3. k + 1 \in 1..N /\ (k + 1 # 1 => k - 1 \in 0..(k - 1))
    OBVIOUS
  <2>4. k + 1 # 1 => g[k - 1] \in V
    <3> HIDE DEF V
    <3>1. QED  BY <2>3
  <2> HIDE DEF V, Val, H
  <2>5. QED  BY <1>1, <2>2, <2>3, <2>4
<1>3. PICK f : Computed(f, H, N - 1, V)
  <2>1. N - 1 \in Nat
    OBVIOUS
  <2> HIDE DEF V, H
  <2>2. QED  BY <1>2, <2>1, Recursion
<1> DEFINE w == [i \in 1..N |-> f[i - 1]]
<1>4. Is(w)
  <2>1. ASSUME NEW i \in 1..N PROVE w[i] = Val(i, w[i - 1])
    <3> DEFINE k == i - 1
    <3>1. k \in 0..(N - 1) /\ N - 1 \in Nat /\ k + 1 = i /\ w[i] = f[k]
      OBVIOUS
    <3> HIDE DEF k
    <3>2. f \in [0..(N - 1) -> V] /\ f[k] = H[k][Before(f, k)]
      BY <1>3, <3>1 DEF Computed
    <3>3. Before(f, k) \in [0..(k - 1) -> V] /\ \A j \in 0..(k - 1) : Before(f, k)[j] = f[j]
      <4> DEFINE M == N - 1
      <4> HIDE DEF V
      <4>1. M \in Nat /\ f \in [0..M -> V] /\ k \in 0..M
        BY <3>1, <3>2
      <4> HIDE DEF M
      <4>2. Before(f, k) \in [0..(k - 1) -> V]
        BY <4>1, BeforeIs
      <4>3. \A j \in 0..(k - 1) : Before(f, k)[j] = f[j]
        BY DEF Before
      <4>4. QED  BY <4>2, <4>3
    <3>4. H[k][Before(f, k)] = Val(k + 1, Before(f, k)[k - 1])
      <4> HIDE DEF V, Val
      <4>1. QED  BY <3>1, <3>3
    <3>5. i # 1 => Before(f, k)[k - 1] = w[i - 1]
      <4>1. SUFFICES ASSUME i # 1 PROVE Before(f, k)[k - 1] = w[i - 1]
        OBVIOUS
      <4>2. k - 1 \in 0..(k - 1) /\ i - 1 \in 1..N /\ (i - 1) - 1 = k - 1
        BY <3>1, <4>1
      <4>3. w[i - 1] = f[k - 1]
        BY <4>2
      <4> HIDE DEF w, V
      <4>4. QED  BY <3>3, <4>2, <4>3
    <3>6. Val(i, Before(f, k)[k - 1]) = Val(i, w[i - 1])
      BY <3>5
    <3> HIDE DEF Val, H, w
    <3>7. QED  BY <3>1, <3>2, <3>4, <3>6
  <2>2. w = [i \in 1..N |-> w[i]]
    OBVIOUS
  <2> HIDE DEF Val, w
  <2>3. QED  BY <2>1, <2>2
<1>5. Is(flat)
  <2> HIDE DEF Is, w
  <2>1. QED  BY <1>4
<1> HIDE DEF flat
<1>6. ASSUME NEW i \in 1..N PROVE flat[i] = Val(i, flat[i - 1])
  <2> HIDE DEF Val
  <2>1. QED  BY <1>5
<1>7. ASSUME NEW i \in 1..N PROVE flat[i] \in V
  <2> DEFINE T == {k \in Nat : k + 1 <= N => flat[k + 1] \in V}
  <2>1. 0 \in T
    <3>1. 0 + 1 = 1 /\ 1 \in 1..N
      OBVIOUS
    <3>2. flat[1] \in V
      <4> HIDE DEF V, Val
      <4>1. QED  BY <1>1, <1>6, <3>1
    <3> HIDE DEF V
    <3>3. QED  BY <3>1, <3>2
  <2>2. ASSUME NEW k \in Nat, k \in T PROVE k + 1 \in T
    <3>1. SUFFICES ASSUME (k + 1) + 1 <= N PROVE flat[(k + 1) + 1] \in V
      OBVIOUS
    <3>2. (k + 1) + 1 \in 1..N /\ ((k + 1) + 1) - 1 = k + 1 /\ k + 1 <= N
      BY <3>1
    <3>3. flat[k + 1] \in V
      BY <2>2, <3>2
    <3> HIDE DEF V, Val
    <3>4. QED  BY <1>1, <1>6, <3>2, <3>3
  <2> HIDE DEF T
  <2>3. Nat \subseteq T
    BY <2>1, <2>2, Inductive
  <2>4. i - 1 \in Nat /\ (i - 1) + 1 = i /\ i <= N
    OBVIOUS
  <2>5. i - 1 \in T
    BY <2>3, <2>4
  <2>6. (i - 1) + 1 <= N => flat[(i - 1) + 1] \in V
    BY <2>5 DEF T
  <2> HIDE DEF V
  <2>7. QED  BY <2>4, <2>6
<1>8. flat \in [1..N -> V]
  <2>1. flat = [i \in 1..N |-> Val(i, flat[i - 1])]
    BY <1>5
  <2> HIDE DEF V, Val
  <2>2. QED  BY <1>7, <2>1
<1>9. FlattenSeq(ss) = flat[N]
  <2>1. Len(ss) = N /\ N # 0
    OBVIOUS
  <2>2. FlattenSeq(ss) = IF Len(ss) = 0 THEN ss
                         ELSE (CHOOSE fl : fl = [i \in 1..Len(ss) |->
                                 IF i = 1 THEN ss[i] ELSE fl[i - 1] \o ss[i]])[Len(ss)]
    BY DEF FlattenSeq
  <2>3. QED  BY <2>1, <2>2 DEF flat
<1>10. flat[1] = ss[1]
  <2>1. 1 \in 1..N
    OBVIOUS
  <2>2. QED  BY <1>6, <2>1
<1>11. ASSUME NEW i \in 2..N PROVE flat[i] = flat[i - 1] \o ss[i]
  <2>1. i \in 1..N /\ i # 1
    OBVIOUS
  <2>2. QED  BY <1>6, <2>1
<1> HIDE DEF flat
<1>12. Flattened(flat, ss, N, S)
  BY <1>8, <1>9, <1>10, <1>11 DEF Flattened
<1>13. QED  BY <1>12

Byte == Nat \X Nat

\* Where the frames of the stream lie: the ith begins after off[i - 1].
Laid(off) ==
  /\ off \in [0..Len(sent) -> Nat] /\ off[0] = 0
  /\ \A i \in 1..Len(sent) : off[i] = off[i - 1] + FrameLength(sent[i])
  /\ Stream \in Seq(Byte) /\ Len(Stream) = off[Len(sent)]
  /\ \A i \in 1..Len(sent) : \A k \in 1..FrameLength(sent[i]) : Stream[off[i - 1] + k] = <<i, k>>

SentTyped == Len(sent) \in Nat /\ Len(sent) >= 1 /\ sent \in [1..Len(sent) -> Packets]

LEMMA PacketFacts ==
  ASSUME WireAssumption, NEW p \in Packets
  PROVE  /\ Sizes /\ BaseIs /\ Packet(p)
         /\ LET e == Encode(p.room)
            IN /\ e \in Seq(Nat) /\ Len(e) \in Nat /\ Len(e) >= 1 /\ Len(e) <= LengthMax
               /\ \A i \in 1..(Len(e) - 1) : ~(e[i] < Base)
               /\ e[Len(e)] < Base
               /\ FrameLength(p) = 1 + Len(e) + p.room
         /\ FrameLength(p) \in Nat /\ FrameLength(p) >= 2
         /\ p.type = "MALFORMED" => FrameLength(p) >= LengthMax + 2
<1>1. Sizes /\ BaseIs /\ Packet(p) /\ p.room \in Nat
  BY DEF WireAssumption, Sizes, BaseIs, Packet
<1> DEFINE e == Encode(p.room)
<1>2. /\ e \in Seq(Nat) /\ Len(e) \in Nat /\ Len(e) >= 1
      /\ \A i \in 1..(Len(e) - 1) : ~(e[i] < Base)
      /\ e[Len(e)] < Base
  BY <1>1, EncodeShape
<1>3. Len(e) <= LengthMax /\ (p.type = "MALFORMED" => p.room >= LengthMax)
  BY DEF WireAssumption
<1>4. FrameLength(p) = 1 + Len(e) + p.room
  BY DEF FrameLength
<1> HIDE DEF e
<1>5. /\ FrameLength(p) \in Nat /\ FrameLength(p) >= 2
      /\ p.type = "MALFORMED" => FrameLength(p) >= LengthMax + 2
  BY <1>1, <1>2, <1>3, <1>4 DEF Sizes
<1>6. QED  BY <1>1, <1>2, <1>3, <1>4, <1>5 DEF e

LEMMA ConcatIs ==
  ASSUME NEW S, NEW a \in Seq(S), NEW b \in Seq(S)
  PROVE  /\ a \o b \in Seq(S) /\ Len(a \o b) = Len(a) + Len(b) /\ Len(a) \in Nat /\ Len(b) \in Nat
         /\ \A k \in 1..Len(a) : (a \o b)[k] = a[k]
         /\ \A k \in 1..Len(b) : (a \o b)[Len(a) + k] = b[k]
<1>1. /\ a \o b \in Seq(S) /\ Len(a \o b) = Len(a) + Len(b) /\ Len(a) \in Nat /\ Len(b) \in Nat
  OBVIOUS
<1>2. \A k \in 1..Len(a) : (a \o b)[k] = a[k]
  OBVIOUS
<1>3. \A k \in 1..Len(b) : (a \o b)[Len(a) + k] = b[k]
  OBVIOUS
<1>4. QED  BY <1>1, <1>2, <1>3

LEMMA StreamLaid ==
  ASSUME WireAssumption, SentTyped
  PROVE  \E off : Laid(off)
<1> DEFINE N == Len(sent)
           ss == [i \in DOMAIN sent |-> Frame(i)]
<1>1. N \in Nat /\ N >= 1 /\ DOMAIN sent = 1..N
  BY DEF SentTyped
<1>2. ASSUME NEW i \in 1..N
      PROVE  /\ FrameLength(sent[i]) \in Nat /\ Frame(i) \in Seq(Byte)
             /\ Len(Frame(i)) = FrameLength(sent[i])
             /\ \A k \in 1..FrameLength(sent[i]) : Frame(i)[k] = <<i, k>>
  <2>1. FrameLength(sent[i]) \in Nat
    BY PacketFacts DEF SentTyped
  <2>2. i \in Nat
    BY <1>1
  <2> DEFINE m == FrameLength(sent[i])
  <2>3. Frame(i) = [k \in 1..m |-> <<i, k>>]
    BY DEF Frame
  <2> HIDE DEF m
  <2>4. Frame(i) \in [1..m -> Byte] /\ m \in Nat /\ \A k \in 1..m : Frame(i)[k] = <<i, k>>
    BY <2>1, <2>2, <2>3 DEF Byte, m
  <2>5. Frame(i) \in Seq(Byte) /\ Len(Frame(i)) = m
    <3> HIDE DEF Frame, Byte
    <3>1. QED  BY <2>4
  <2>6. QED  BY <2>1, <2>4, <2>5 DEF m
<1>3. ss \in [1..N -> Seq(Byte)]
  <2> HIDE DEF N
  <2>1. QED  BY <1>1, <1>2
<1>4. PICK fl \in [1..N -> Seq(Byte)] : /\ FlattenSeq(ss) = fl[N] /\ fl[1] = ss[1]
                                       /\ \A i \in 2..N : fl[i] = fl[i - 1] \o ss[i]
  <2> HIDE DEF N, ss
  <2>1. N \in Nat /\ N >= 1 /\ ss \in [1..N -> Seq(Byte)]
    BY <1>1, <1>3
  <2>2. \E fl : Flattened(fl, ss, N, Byte)
    BY <2>1, FlattenIs
  <2>3. QED  BY <2>2 DEF Flattened
<1>5. Stream = fl[N] /\ \A i \in 1..N : ss[i] = Frame(i)
  BY <1>1, <1>4 DEF Stream
<1> DEFINE off == [i \in 0..N |-> IF i = 0 THEN 0 ELSE Len(fl[i])]
<1> HIDE DEF ss, N
<1>6. off \in [0..N -> Nat] /\ off[0] = 0 /\ \A i \in 1..N : off[i] = Len(fl[i]) /\ fl[i] \in Seq(Byte)
  BY <1>1, <1>4
<1> HIDE DEF off
<1>7. ASSUME NEW i \in 1..N
      PROVE  /\ off[i] = off[i - 1] + FrameLength(sent[i])
             /\ \A k \in 1..FrameLength(sent[i]) : fl[i][off[i - 1] + k] = <<i, k>>
             /\ i # 1 => \A k \in 1..off[i - 1] : fl[i][k] = fl[i - 1][k]
  <2>1. CASE i = 1
    <3>1. fl[1] = Frame(1) /\ off[1] = Len(fl[1]) /\ i - 1 = 0
      BY <1>1, <1>4, <1>5, <1>6, <2>1
    <3>2. off[i - 1] = 0 /\ \A k \in 1..FrameLength(sent[i]) : 0 + k = k
      BY <1>6, <2>1, <1>2
    <3>3. QED  BY <1>2, <2>1, <3>1, <3>2
  <2>2. CASE i # 1
    <3>1. i - 1 \in 1..N /\ i \in 2..N
      BY <1>1, <2>2
    <3> DEFINE a == fl[i - 1]
               b == Frame(i)
    <3>2. /\ fl[i] = a \o b /\ a \in Seq(Byte) /\ b \in Seq(Byte) /\ Len(a) = off[i - 1]
          /\ Len(b) = FrameLength(sent[i]) /\ off[i] = Len(fl[i])
          /\ \A k \in 1..FrameLength(sent[i]) : b[k] = <<i, k>>
      BY <1>2, <1>4, <1>5, <1>6, <3>1
    <3> HIDE DEF a, b
    <3>3. /\ Len(a \o b) = Len(a) + Len(b) /\ Len(a) \in Nat /\ Len(b) \in Nat
          /\ \A k \in 1..Len(a) : (a \o b)[k] = a[k]
          /\ \A k \in 1..Len(b) : (a \o b)[Len(a) + k] = b[k]
      <4>1. a \in Seq(Byte) /\ b \in Seq(Byte)
        BY <3>2
      <4>2. QED  BY <4>1, ConcatIs
    <3>4. QED  BY <3>2, <3>3 DEF a
  <2>3. QED  BY <2>1, <2>2
<1>8. \A i \in 1..N : \A j \in 1..i : off[j] <= off[i] /\ \A k \in 1..off[j] : fl[i][k] = fl[j][k]
  <2> DEFINE T == {i \in Nat : i \in 1..N => \A j \in 1..i : off[j] <= off[i] /\ \A k \in 1..off[j] : fl[i][k] = fl[j][k]}
  <2>1. 0 \in T
    OBVIOUS
  <2>2. ASSUME NEW m \in Nat, m \in T PROVE m + 1 \in T
    <3>1. SUFFICES ASSUME m + 1 \in 1..N, NEW j \in 1..(m + 1)
          PROVE  off[j] <= off[m + 1] /\ \A k \in 1..off[j] : fl[m + 1][k] = fl[j][k]
      OBVIOUS
    <3>2. m + 1 \in 0..N /\ off[m + 1] \in Nat
      BY <1>6, <3>1
    <3>3. CASE j = m + 1
      BY <3>2, <3>3
    <3>4. CASE j # m + 1
      <4>1. m \in 1..N /\ j \in 1..m /\ m + 1 # 1 /\ (m + 1) - 1 = m /\ m \in 0..N /\ j \in 0..N
        BY <1>1, <3>1, <3>4
      <4>2. off[j] <= off[m] /\ \A k \in 1..off[j] : fl[m][k] = fl[j][k]
        BY <2>2, <4>1
      <4>3. FrameLength(sent[m + 1]) \in Nat /\ off[m] \in Nat /\ off[j] \in Nat
        BY <1>2, <1>6, <3>1, <4>1
      <4>4. off[m + 1] = off[m] + FrameLength(sent[m + 1]) /\ \A k \in 1..off[m] : fl[m + 1][k] = fl[m][k]
        BY <1>7, <3>1, <4>1
      <4>5. \A k \in 1..off[j] : k \in 1..off[m]
        BY <4>2, <4>3
      <4>6. QED  BY <4>2, <4>3, <4>4, <4>5
    <3>5. QED  BY <3>3, <3>4
  <2> HIDE DEF T
  <2>3. Nat \subseteq T
    BY <2>1, <2>2, Inductive
  <2>4. QED  BY <1>1, <2>3 DEF T
<1>9. ASSUME NEW i \in 1..N, NEW k \in 1..FrameLength(sent[i]) PROVE fl[N][off[i - 1] + k] = <<i, k>>
  <2>1. N \in 1..N /\ i \in 1..N /\ i - 1 \in 0..N /\ i \in 0..N
    BY <1>1
  <2>2. FrameLength(sent[i]) \in Nat /\ off[i - 1] \in Nat /\ off[i] = off[i - 1] + FrameLength(sent[i])
    BY <1>2, <1>6, <1>7, <2>1
  <2>3. off[i - 1] + k \in 1..off[i]
    BY <2>2
  <2>4. fl[N][off[i - 1] + k] = fl[i][off[i - 1] + k]
    BY <1>8, <2>1, <2>3
  <2>5. QED  BY <1>7, <2>4
<1>10. fl[N] \in Seq(Byte) /\ Len(fl[N]) = off[N]
  BY <1>1, <1>6
<1>11. Laid(off)
  BY <1>5, <1>6, <1>7, <1>9, <1>10 DEF Laid, N
<1>12. QED  BY <1>11

\* recv_buf holds what has arrived of the packets after the nth.
Buffered(off, n) ==
  /\ n \in 0..Len(sent) /\ arrived \in Nat /\ off[n] <= arrived /\ arrived <= Len(Stream)
  /\ recv_buf \in Seq(Byte) /\ Len(recv_buf) = arrived - off[n] /\ Len(recv_buf) <= RecvSize
  /\ \A k \in 1..Len(recv_buf) : recv_buf[k] = Stream[off[n] + k]

Values == [k \in DOMAIN recv_buf |-> Value(recv_buf[k])]

\* Enough of the next packet to make out what it is.
Wanted(p) == IF p.type = "MALFORMED" THEN LengthMax + 2 ELSE FrameLength(p)
Enough(n) == Len(recv_buf) >= Wanted(sent[n + 1])

LEMMA FrontIs ==
  ASSUME WireAssumption, SentTyped, NEW off, Laid(off), NEW n, Buffered(off, n), n < Len(sent)
  PROVE  /\ n \in Nat /\ n + 1 \in 1..Len(sent) /\ sent[n + 1] \in Packets
         /\ off[n] \in Nat /\ off[n + 1] = off[n] + FrameLength(sent[n + 1])
         /\ Len(recv_buf) \in Nat /\ DOMAIN recv_buf = 1..Len(recv_buf)
         /\ \A k \in 1..Len(recv_buf) : k <= FrameLength(sent[n + 1]) => recv_buf[k] = <<n + 1, k>>
<1>1. n \in 0..Len(sent) /\ Len(sent) \in Nat /\ n + 1 \in 1..Len(sent) /\ (n + 1) - 1 = n /\ n \in Nat
  BY DEF Buffered, SentTyped
<1>2. sent[n + 1] \in Packets
  BY <1>1 DEF SentTyped
<1>3. off[n] \in Nat /\ off[n + 1] = off[n] + FrameLength(sent[n + 1])
  BY <1>1 DEF Laid
<1>4. Len(recv_buf) \in Nat /\ DOMAIN recv_buf = 1..Len(recv_buf)
  BY DEF Buffered
<1>5. FrameLength(sent[n + 1]) \in Nat
  BY <1>2, PacketFacts
<1>6. ASSUME NEW k \in 1..Len(recv_buf), k <= FrameLength(sent[n + 1])
      PROVE  recv_buf[k] = <<n + 1, k>>
  <2>1. k \in 1..FrameLength(sent[n + 1])
    BY <1>4, <1>5, <1>6
  <2>2. Stream[off[(n + 1) - 1] + k] = <<n + 1, k>>
    BY <1>1, <2>1 DEF Laid
  <2>3. recv_buf[k] = Stream[off[n] + k]
    BY <1>6 DEF Buffered
  <2>4. QED  BY <1>1, <2>2, <2>3
<1>7. QED  BY <1>1, <1>2, <1>3, <1>4, <1>6

\* The bytes of the buffer but the first, as they are read.
LEMMA TailIs ==
  ASSUME WireAssumption, SentTyped, NEW off, Laid(off), NEW n, Buffered(off, n), n < Len(sent)
  PROVE  /\ Len(Values) = Len(recv_buf)
         /\ Len(recv_buf) >= 1 =>
              /\ Sized(Tail(Values)) /\ Len(Tail(Values)) = Len(recv_buf) - 1
              /\ \A i \in 1..(Len(recv_buf) - 1) :
                   i + 1 <= FrameLength(sent[n + 1]) => Tail(Values)[i] = Value(<<n + 1, i + 1>>)
<1> DEFINE m == Len(recv_buf)
           B == Values
           V == {Value(b) : b \in Byte}
<1>1. /\ m \in Nat /\ DOMAIN recv_buf = 1..m
      /\ \A k \in 1..m : k <= FrameLength(sent[n + 1]) => recv_buf[k] = <<n + 1, k>>
  BY FrontIs
<1>2. recv_buf \in Seq(Byte)
  BY DEF Buffered
<1> HIDE DEF m
<1>3. B = [k \in 1..m |-> Value(recv_buf[k])] /\ \A k \in 1..m : recv_buf[k] \in Byte
  BY <1>1, <1>2 DEF Values
<1>4. B \in [1..m -> V] /\ \A k \in 1..m : B[k] = Value(recv_buf[k])
  BY <1>3
<1> HIDE DEF B, V
<1>5. B \in Seq(V) /\ Len(B) = m
  BY <1>1, <1>4
<1>6. ASSUME m >= 1
      PROVE  /\ Tail(B) \in Seq(V) /\ Len(Tail(B)) = m - 1
             /\ \A i \in 1..(m - 1) : Tail(B)[i] = B[i + 1]
  BY <1>1, <1>5, <1>6
<1>7. ASSUME m >= 1 PROVE Sized(Tail(B))
  BY <1>1, <1>6, <1>7 DEF Sized
<1>8. ASSUME m >= 1, NEW i \in 1..(m - 1), i + 1 <= FrameLength(sent[n + 1])
      PROVE  Tail(B)[i] = Value(<<n + 1, i + 1>>)
  <2>1. i + 1 \in 1..m
    BY <1>1, <1>8
  <2>2. Tail(B)[i] = B[i + 1] /\ B[i + 1] = Value(recv_buf[i + 1])
    BY <1>4, <1>6, <1>8, <2>1
  <2>3. recv_buf[i + 1] = <<n + 1, i + 1>>
    BY <1>1, <1>8, <2>1
  <2>4. QED  BY <2>2, <2>3
<1>9. QED  BY <1>5, <1>6, <1>7, <1>8 DEF B, m

\* mqtt_packet_length knows a packet when it is there.
LEMMA PacketLengthIs ==
  ASSUME WireAssumption, SentTyped, NEW off, Laid(off), NEW n, Buffered(off, n), n < Len(sent)
  PROVE  PacketLength(Values) = IF ~Enough(n) THEN NeedMore
                                ELSE IF sent[n + 1].type = "MALFORMED" THEN Malformed
                                ELSE FrameLength(sent[n + 1])
<1> DEFINE p == sent[n + 1]
           e == Encode(p.room)
           L == Len(e)
           m == Len(recv_buf)
           T == Tail(Values)
<1>1. p \in Packets /\ m \in Nat
  BY FrontIs
<1>2. /\ BaseIs /\ p.room \in Nat /\ LengthMax \in Nat
      /\ FrameLength(p) \in Nat /\ FrameLength(p) >= 2
      /\ p.type = "MALFORMED" => FrameLength(p) >= LengthMax + 2
  BY <1>1, PacketFacts DEF Sizes, Packet
<1>3. /\ L \in Nat /\ L >= 1 /\ L <= LengthMax /\ FrameLength(p) = 1 + L + p.room
      /\ \A i \in 1..(L - 1) : ~(e[i] < Base)
  BY <1>1, PacketFacts
<1>4. /\ Len(Values) = m
      /\ m >= 1 => /\ Sized(T) /\ Len(T) = m - 1
                   /\ \A i \in 1..(m - 1) : i + 1 <= FrameLength(p) => T[i] = Value(<<n + 1, i + 1>>)
  BY TailIs
<1>5. ASSUME NEW i \in 1..L, p.type # "MALFORMED" PROVE Value(<<n + 1, i + 1>>) = e[i]
  <2>1. i + 1 # 1 /\ i + 1 <= 1 + L /\ (i + 1) - 1 = i
    BY <1>3
  <2>2. <<n + 1, i + 1>>[1] = n + 1 /\ <<n + 1, i + 1>>[2] = i + 1
    OBVIOUS
  <2>3. QED  BY <1>5, <2>1, <2>2 DEF Value
<1>6. ASSUME NEW i \in Nat, i >= 1, p.type = "MALFORMED" PROVE Value(<<n + 1, i + 1>>) = Base
  <2>1. i + 1 # 1
    BY <1>6
  <2>2. <<n + 1, i + 1>>[1] = n + 1 /\ <<n + 1, i + 1>>[2] = i + 1
    OBVIOUS
  <2>3. QED  BY <1>6, <2>1, <2>2 DEF Value
<1>7. Enough(n) <=> m >= IF p.type = "MALFORMED" THEN LengthMax + 2 ELSE FrameLength(p)
  BY DEF Enough, Wanted
<1>8. PacketLength(Values) = IF m < 2 THEN NeedMore
                             ELSE IF Decode(T).bytes = 0 THEN Decode(T).value
                             ELSE IF m < 1 + Decode(T).bytes + Decode(T).value THEN NeedMore
                             ELSE 1 + Decode(T).bytes + Decode(T).value
  BY <1>4 DEF PacketLength
<1>9. p.type = "MALFORMED" \/ p.type # "MALFORMED"
  OBVIOUS
<1> HIDE DEF e, L, m, T, p
<1>10. CASE m < 2
  BY <1>1, <1>2, <1>7, <1>8, <1>10 DEF p
<1>11. CASE m >= 2 /\ p.type = "MALFORMED"
  <2>1. ASSUME NEW i \in 1..Len(T), i <= LengthMax PROVE ~(T[i] < Base)
    <3>1. i \in 1..(m - 1) /\ i \in Nat /\ i >= 1 /\ i + 1 <= FrameLength(p)
      BY <1>1, <1>2, <1>4, <1>11, <2>1
    <3>2. T[i] = Value(<<n + 1, i + 1>>)
      BY <1>1, <1>4, <1>11, <3>1
    <3>3. Value(<<n + 1, i + 1>>) = Base
      BY <1>6, <1>11, <3>1
    <3>4. QED  BY <1>2, <3>2, <3>3 DEF BaseIs
  <2>2. Decode(T) = [bytes |-> 0, value |-> IF Len(T) > LengthMax THEN Malformed ELSE NeedMore]
    BY <1>2, <1>4, <1>11, <2>1, DecodeCut
  <2>3. Decode(T).bytes = 0 /\ Decode(T).value = IF m - 1 > LengthMax THEN Malformed ELSE NeedMore
    BY <1>4, <1>11, <2>2
  <2>4. Enough(n) <=> m - 1 > LengthMax
    BY <1>1, <1>2, <1>7, <1>11
  <2>5. ~(m < 2)
    BY <1>1, <1>11
  <2>6. QED  BY <1>8, <1>11, <2>3, <2>4, <2>5 DEF p
<1>12. CASE m >= 2 /\ p.type # "MALFORMED" /\ m < 1 + L
  <2>1. ASSUME NEW i \in 1..Len(T), i <= LengthMax PROVE ~(T[i] < Base)
    <3>1. i \in 1..(m - 1) /\ i \in 1..(L - 1) /\ i \in 1..L /\ i + 1 <= FrameLength(p)
      BY <1>1, <1>2, <1>3, <1>4, <1>12, <2>1
    <3>2. T[i] = Value(<<n + 1, i + 1>>)
      BY <1>1, <1>4, <1>12, <3>1
    <3>3. Value(<<n + 1, i + 1>>) = e[i]
      BY <1>5, <1>12, <3>1
    <3>4. QED  BY <1>3, <3>1, <3>2, <3>3
  <2>2. Decode(T) = [bytes |-> 0, value |-> IF Len(T) > LengthMax THEN Malformed ELSE NeedMore]
    BY <1>2, <1>4, <1>12, <2>1, DecodeCut
  <2>3. ~(m - 1 > LengthMax) /\ ~(m < 2)
    BY <1>1, <1>2, <1>3, <1>12
  <2>4. Decode(T).bytes = 0 /\ Decode(T).value = NeedMore
    BY <1>4, <1>12, <2>2, <2>3
  <2>5. ~Enough(n)
    BY <1>1, <1>2, <1>3, <1>7, <1>12
  <2>6. QED  BY <1>8, <2>3, <2>4, <2>5
<1>13. CASE m >= 2 /\ p.type # "MALFORMED" /\ ~(m < 1 + L)
  <2>1. ASSUME NEW i \in 1..L PROVE T[i] = e[i]
    <3>1. i \in 1..(m - 1) /\ i + 1 <= FrameLength(p)
      BY <1>1, <1>2, <1>3, <1>13
    <3>2. T[i] = Value(<<n + 1, i + 1>>)
      BY <1>1, <1>4, <1>13, <3>1
    <3>3. Value(<<n + 1, i + 1>>) = e[i]
      BY <1>5, <1>13
    <3>4. QED  BY <3>2, <3>3
  <2>2. L <= Len(T)
    BY <1>1, <1>3, <1>4, <1>13
  <2>3. Begins(T, e)
    BY <2>1, <2>2 DEF Begins, L
  <2>4. Sized(T)
    BY <1>1, <1>4, <1>13
  <2>5. Decode(T) = [bytes |-> L, value |-> p.room]
    BY <1>2, <1>3, <2>3, <2>4, DecodeWhole DEF e, L
  <2>6. Decode(T).bytes = L /\ Decode(T).value = p.room
    BY <2>5
  <2>7. L # 0 /\ ~(m < 2) /\ 1 + L + p.room = FrameLength(p)
    BY <1>1, <1>3, <1>13
  <2>8. Enough(n) <=> ~(m < FrameLength(p))
    BY <1>1, <1>2, <1>7, <1>13
  <2>9. PacketLength(Values) = IF m < FrameLength(p) THEN NeedMore ELSE FrameLength(p)
    BY <1>8, <2>6, <2>7
  <2>10. QED  BY <1>13, <2>8, <2>9 DEF p
<1>14. QED
  <2>1. m < 2 \/ m >= 2
    BY <1>1
  <2>2. QED  BY <2>1, <1>10, <1>11, <1>12, <1>13

LEMMA WantedIs ==
  ASSUME WireAssumption, NEW p \in Packets
  PROVE  Wanted(p) \in Nat /\ Wanted(p) >= 2 /\ Wanted(p) <= FrameLength(p)
<1>1. /\ FrameLength(p) \in Nat /\ FrameLength(p) >= 2 /\ LengthMax \in Nat
      /\ p.type = "MALFORMED" => FrameLength(p) >= LengthMax + 2
  BY PacketFacts DEF Sizes
<1>2. QED  BY <1>1 DEF Wanted

LEMMA EmptyLacks ==
  ASSUME WireAssumption, SentTyped, Len(recv_buf) = 0, NEW n \in 0..Len(sent), n < Len(sent)
  PROVE  ~Enough(n)
<1>1. n + 1 \in 1..Len(sent)
  BY DEF SentTyped
<1>2. sent[n + 1] \in Packets
  BY <1>1 DEF SentTyped
<1>3. QED  BY <1>2, WantedIs DEF Enough

\* What is known of the first n packets when they have been handled.
Done(n) == [i \in 1..n |-> [bytes |-> Frame(i), parsed |-> Parse(sent[i])]]

LEMMA DoneIs ==
  ASSUME NEW n \in Nat
  PROVE  /\ Len(Done(n)) = n /\ (Done(n) = <<>> <=> n = 0)
         /\ Append(Done(n), [bytes |-> Frame(n + 1), parsed |-> Parse(sent[n + 1])]) = Done(n + 1)
<1> DEFINE R(i) == [bytes |-> Frame(i), parsed |-> Parse(sent[i])]
           S == {R(i) : i \in Nat}
<1>1. \A k \in Nat : Done(k) = [i \in 1..k |-> R(i)]
  BY DEF Done
<1>2. \A i \in Nat : R(i) \in S
  OBVIOUS
<1> HIDE DEF R, S
<1>3. ASSUME NEW k \in Nat
      PROVE  Done(k) \in Seq(S) /\ Len(Done(k)) = k /\ \A i \in 1..k : Done(k)[i] = R(i)
  <2>1. Done(k) \in [1..k -> S] /\ \A i \in 1..k : Done(k)[i] = R(i)
    BY <1>1, <1>2
  <2>2. QED  BY <2>1
<1>4. Done(n) = <<>> <=> n = 0
  BY <1>3
<1> DEFINE a == Append(Done(n), R(n + 1))
<1>5. a \in Seq(S) /\ Len(a) = n + 1 /\ \A i \in 1..(n + 1) : a[i] = R(i)
  <2>1. a \in Seq(S) /\ Len(a) = n + 1 /\ a[n + 1] = R(n + 1)
    BY <1>2, <1>3
  <2>2. \A i \in 1..n : a[i] = Done(n)[i]
    BY <1>3
  <2>3. ASSUME NEW i \in 1..(n + 1) PROVE a[i] = R(i)
    <3>1. i = n + 1 \/ i \in 1..n
      OBVIOUS
    <3> HIDE DEF a
    <3>2. QED  BY <1>3, <2>1, <2>2, <3>1
  <2>4. QED  BY <2>1, <2>3
<1>6. a = Done(n + 1)
  <2>1. n + 1 \in Nat
    OBVIOUS
  <2>2. Done(n + 1) \in Seq(S) /\ Len(Done(n + 1)) = n + 1 /\ \A i \in 1..(n + 1) : Done(n + 1)[i] = R(i)
    BY <1>3, <2>1
  <2> HIDE DEF a
  <2>3. a = [i \in 1..(n + 1) |-> a[i]] /\ Done(n + 1) = [i \in 1..(n + 1) |-> Done(n + 1)[i]]
    BY <1>5, <2>2
  <2>4. \A i \in 1..(n + 1) : a[i] = Done(n + 1)[i]
    BY <1>5, <2>2
  <2>5. QED  BY <2>3, <2>4
<1>7. QED  BY <1>3, <1>4, <1>6 DEF R

\* The first n packets are handled; what has arrived of the rest is in the buffer,
\* which is read from only when there is too little of the next one in it.
Serving(off, n) ==
  /\ Laid(off) /\ n \in 0..Len(sent) /\ handled = Done(n)
  /\ at \in {"select", "process"} => Buffered(off, n)
  /\ at = "select" /\ n < Len(sent) => ~Enough(n)

StreamInv == SentTyped /\ ServedToTheEnd /\ \E off, n : Serving(off, n)

LEMMA NextIs ==
  ASSUME SentTyped, NEW off, Laid(off), NEW n \in 0..Len(sent), handled = Done(n)
  PROVE  /\ n \in Nat /\ Len(sent) \in Nat /\ Len(handled) = n /\ (handled = <<>> <=> n = 0)
         /\ off[n] \in Nat /\ off[Len(sent)] = Len(Stream) /\ off[0] = 0
         /\ n = Len(sent) \/ n < Len(sent)
<1>1. Len(sent) \in Nat
  BY DEF SentTyped
<1> DEFINE m == Len(sent)
<1>2. m \in Nat /\ n \in 0..m
  BY <1>1
<1> HIDE DEF m
<1>3. n \in Nat /\ (n = m \/ n < m)
  BY <1>2
<1>4. QED  BY <1>1, <1>3, DoneIs DEF Laid, m

LEMMA StreamInit ==
  ASSUME WireAssumption, Init
  PROVE  StreamInv
<1>1. SentTyped
  <2>1. PICK m \in 1..PacketsMax : sent \in [1..m -> Packets]
    BY DEF Init
  <2>2. m \in Nat /\ m >= 1
    BY DEF WireAssumption
  <2>3. sent \in Seq(Packets) /\ Len(sent) = m
    BY <2>1, <2>2
  <2>4. QED  BY <2>1, <2>2, <2>3 DEF SentTyped
<1>2. PICK off : Laid(off)
  BY <1>1, StreamLaid
<1>3. handled = Done(0) /\ 0 \in 0..Len(sent)
  <2>1. Done(0) = <<>> /\ handled = <<>> /\ Len(sent) \in Nat
    BY <1>1, DoneIs DEF Init, SentTyped
  <2>2. QED  BY <2>1
<1>4. off[0] = 0 /\ Len(Stream) \in Nat
  BY <1>2 DEF Laid
<1>5. recv_buf = <<>> /\ arrived = 0 /\ at = "select"
  BY DEF Init
<1>6. recv_buf \in Seq(Byte) /\ Len(recv_buf) = 0 /\ RecvSize \in Nat
  BY <1>5 DEF WireAssumption
<1>7. Buffered(off, 0)
  BY <1>3, <1>4, <1>5, <1>6 DEF Buffered
<1>8. 0 < Len(sent) => ~Enough(0)
  BY <1>1, <1>6, EmptyLacks
<1>9. Serving(off, 0)
  BY <1>2, <1>3, <1>7, <1>8 DEF Serving
<1>10. ServedToTheEnd
  BY <1>5 DEF ServedToTheEnd
<1>11. QED  BY <1>1, <1>9, <1>10 DEF StreamInv

LEMMA SentKept ==
  ASSUME sent' = sent
  PROVE  /\ SentTyped <=> SentTyped' /\ Len(sent') = Len(sent)
         /\ Stream' = Stream /\ \A off : Laid(off) <=> Laid(off)'
         /\ \A n : Done(n)' = Done(n)
<1>1. Stream' = Stream
  BY DEF Stream, Frame
<1>2. QED  BY <1>1 DEF SentTyped, Laid, Done, Frame

\* Nothing that is at rest may have been stopped without cause.
LEMMA ServedOther ==
  /\ at \in {"select", "process"} => ServedToTheEnd
  /\ at' \in {"select", "process"} => ServedToTheEnd'
BY DEF ServedToTheEnd

LEMMA RecvServes ==
  ASSUME WireAssumption, SentTyped, NEW off, NEW n, Serving(off, n), Recv
  PROVE  Serving(off, n)' /\ ServedToTheEnd'
<1>1. /\ Laid(off) /\ n \in 0..Len(sent) /\ handled = Done(n) /\ Buffered(off, n)
      /\ n < Len(sent) => ~Enough(n)
  BY DEF Serving, Recv
<1>2. sent' = sent /\ handled' = handled
  BY DEF Recv
<1>3. Laid(off)' /\ (n \in 0..Len(sent))' /\ (handled = Done(n))' /\ Stream' = Stream
  BY <1>1, <1>2, SentKept
<1>4. /\ n \in Nat /\ Len(sent) \in Nat /\ Len(handled) = n /\ off[n] \in Nat
      /\ off[Len(sent)] = Len(Stream) /\ (n = Len(sent) \/ n < Len(sent))
  BY <1>1, NextIs
<1>5. /\ arrived \in Nat /\ off[n] <= arrived /\ arrived <= Len(Stream)
      /\ recv_buf \in Seq(Byte) /\ Len(recv_buf) = arrived - off[n] /\ Len(recv_buf) <= RecvSize
      /\ \A k \in 1..Len(recv_buf) : recv_buf[k] = Stream[off[n] + k]
  BY <1>1 DEF Buffered
<1>6. RecvSize \in Nat /\ Len(Stream) \in Nat /\ Stream \in Seq(Byte) /\ Len(recv_buf) \in Nat
  BY <1>1, <1>5 DEF WireAssumption, Laid
<1>7. CASE RecvSize - Len(recv_buf) = 0
  <2>1. at' = "full" /\ Len(recv_buf) = RecvSize
    BY <1>6, <1>7 DEF Recv
  <2>2. Serving(off, n)'
    BY <1>3, <2>1 DEF Serving
  <2>3. CASE n < Len(sent)
    <3>1. n + 1 \in 1..Len(sent)
      BY <1>4, <2>3
    <3>2. sent[n + 1] \in Packets
      BY <3>1 DEF SentTyped
    <3>3. Wanted(sent[n + 1]) \in Nat /\ Wanted(sent[n + 1]) <= FrameLength(sent[n + 1])
      BY <3>2, WantedIs
    <3>4. FrameLength(sent[n + 1]) \in Nat
      BY <3>2, PacketFacts
    <3>5. RecvSize < FrameLength(sent[n + 1])
      BY <1>1, <1>6, <2>1, <2>3, <3>3, <3>4 DEF Enough
    <3>6. FrameLength(sent[n + 1]) > RecvSize
      BY <1>6, <3>4, <3>5
    <3>7. QED  BY <1>2, <1>4, <2>1, <2>2, <2>3, <3>6 DEF ServedToTheEnd
  <2>4. CASE n = Len(sent)
    <3>1. Len(recv_buf) = 0
      BY <1>4, <1>5, <1>6, <2>4
    <3>2. sent[1] \in Packets
      BY DEF SentTyped
    <3>3. FrameLength(sent[1]) > RecvSize
      BY <2>1, <3>1, <3>2, PacketFacts
    <3>4. ~(n < Len(sent))
      BY <1>4, <2>4
    <3>5. QED  BY <1>2, <1>4, <2>1, <2>2, <3>3, <3>4 DEF ServedToTheEnd
  <2>5. QED  BY <1>4, <2>3, <2>4
<1>8. CASE RecvSize - Len(recv_buf) # 0
  <2>1. PICK k \in 1..Min({RecvSize - Len(recv_buf), Len(Stream) - arrived}) :
          /\ recv_buf' = recv_buf \o SubSeq(Stream, arrived + 1, arrived + k)
          /\ arrived' = arrived + k
          /\ at' = "process"
    BY <1>8 DEF Recv
  <2>2. k \in Nat /\ k >= 1 /\ k <= RecvSize - Len(recv_buf) /\ k <= Len(Stream) - arrived
    <3>1. RecvSize - Len(recv_buf) \in Int /\ Len(Stream) - arrived \in Int
      BY <1>5, <1>6
    <3>2. Min({RecvSize - Len(recv_buf), Len(Stream) - arrived})
            = IF RecvSize - Len(recv_buf) <= Len(Stream) - arrived
              THEN RecvSize - Len(recv_buf) ELSE Len(Stream) - arrived
      BY <3>1, SmallerOf
    <3>3. QED  BY <1>5, <1>6, <3>1, <3>2
  <2> DEFINE b == SubSeq(Stream, arrived + 1, arrived + k)
             a == recv_buf
  <2>3. b \in Seq(Byte) /\ Len(b) = k /\ \A i \in 1..k : b[i] = Stream[arrived + i]
    BY <1>5, <1>6, <2>2
  <2>4. a \in Seq(Byte) /\ b \in Seq(Byte)
    BY <1>5, <2>3
  <2>5. recv_buf' = a \o b /\ a = recv_buf
    BY <2>1
  <2> HIDE DEF a, b
  <2>6. /\ a \o b \in Seq(Byte) /\ Len(a \o b) = Len(a) + k
        /\ \A i \in 1..Len(a) : (a \o b)[i] = a[i]
        /\ \A i \in 1..k : (a \o b)[Len(a) + i] = b[i]
    <3>1. Len(b) = k
      BY <2>3
    <3>2. /\ a \o b \in Seq(Byte) /\ Len(a \o b) = Len(a) + Len(b)
          /\ \A i \in 1..Len(a) : (a \o b)[i] = a[i]
          /\ \A i \in 1..Len(b) : (a \o b)[Len(a) + i] = b[i]
      BY <2>4, ConcatIs
    <3>3. QED  BY <3>1, <3>2
  <2>7. Len(a) \in Nat /\ Len(a) = arrived - off[n] /\ Len(a) + k <= RecvSize /\ Len(a \o b) = Len(a) + k
    <3>1. Len(a) = Len(recv_buf)
      BY <2>5
    <3> HIDE DEF b
    <3>2. Len(recv_buf) \in Nat /\ RecvSize \in Nat /\ k \in Nat /\ k <= RecvSize - Len(recv_buf)
      BY <1>6, <2>2
    <3>3. QED  BY <1>5, <2>6, <3>1, <3>2
  <2>8. ASSUME NEW i \in 1..(Len(a) + k) PROVE (a \o b)[i] = Stream[off[n] + i]
    <3>1. CASE i \in 1..Len(a)
      BY <1>5, <2>5, <2>6, <3>1
    <3>2. CASE i \notin 1..Len(a)
      <4>1. i - Len(a) \in 1..k /\ Len(a) + (i - Len(a)) = i /\ arrived + (i - Len(a)) = off[n] + i
        <5> DEFINE l == Len(a)
                   o == off[n]
        <5>1. arrived \in Nat /\ o \in Nat /\ k \in Nat /\ l \in Nat /\ l = arrived - o
          BY <1>4, <1>5, <2>2, <2>7
        <5>2. i \in Nat /\ i >= 1 /\ i <= l + k /\ ~(i <= l)
          BY <5>1, <3>2
        <5> HIDE DEF l, o
        <5>3. i - l \in 1..k /\ l + (i - l) = i /\ arrived + (i - l) = o + i
          BY <5>1, <5>2
        <5>4. QED  BY <5>3 DEF l, o
      <4>2. (a \o b)[Len(a) + (i - Len(a))] = Stream[arrived + (i - Len(a))]
        BY <2>3, <2>6, <4>1
      <4>3. QED  BY <4>1, <4>2
    <3>3. QED  BY <3>1, <3>2
  <2>9. Buffered(off, n)'
    <3>1. /\ arrived' \in Nat /\ off[n] <= arrived' /\ arrived' <= Len(Stream)
          /\ Len(a \o b) = arrived' - off[n] /\ Len(a \o b) <= RecvSize
      BY <1>4, <1>5, <1>6, <2>1, <2>2, <2>7
    <3>2. \A i \in 1..Len(a \o b) : (a \o b)[i] = Stream[off[n] + i]
      BY <2>6, <2>8
    <3>3. QED  BY <1>3, <2>5, <2>6, <3>1, <3>2 DEF Buffered
  <2>10. Serving(off, n)'
    BY <1>3, <2>1, <2>9 DEF Serving
  <2>11. QED  BY <2>1, <2>10, ServedOther
<1>9. QED  BY <1>7, <1>8

LEMMA OffsetsGrow ==
  ASSUME WireAssumption, SentTyped, NEW off, Laid(off), NEW n \in Nat, n < Len(sent)
  PROVE  off[n] \in Nat /\ off[n] + FrameLength(sent[n + 1]) <= off[Len(sent)]
<1>1. Len(sent) \in Nat /\ \A i \in 0..Len(sent) : off[i] \in Nat
  BY DEF SentTyped, Laid
<1> DEFINE N == Len(sent)
           T == {i \in Nat : n + 1 + i <= N => off[n + 1] <= off[n + 1 + i]}
<1>2. N \in Nat /\ n + 1 \in 0..N /\ n \in 0..N
  BY <1>1
<1>3. off[n + 1] = off[n] + FrameLength(sent[n + 1]) /\ off[n] \in Nat /\ off[n + 1] \in Nat
  <2>1. n + 1 \in 1..Len(sent) /\ (n + 1) - 1 = n
    BY <1>1
  <2>2. QED  BY <1>1, <1>2, <2>1 DEF Laid
<1>4. ASSUME NEW i \in 1..N PROVE off[i - 1] <= off[i]
  <2>1. off[i] = off[i - 1] + FrameLength(sent[i]) /\ sent[i] \in Packets
    BY <1>4 DEF Laid, SentTyped
  <2>2. FrameLength(sent[i]) \in Nat
    BY <2>1, PacketFacts
  <2>3. off[i - 1] \in Nat
    BY <1>1, <1>4
  <2>4. QED  BY <2>1, <2>2, <2>3
<1> HIDE DEF N
<1>5. 0 \in T
  BY <1>2, <1>3
<1>6. ASSUME NEW i \in Nat, i \in T PROVE i + 1 \in T
  <2>1. SUFFICES ASSUME n + 1 + (i + 1) <= N PROVE off[n + 1] <= off[n + 1 + (i + 1)]
    OBVIOUS
  <2>2. n + 1 + i <= N /\ n + 1 + (i + 1) \in 1..N /\ (n + 1 + (i + 1)) - 1 = n + 1 + i
    BY <1>2, <2>1
  <2>3. off[n + 1] <= off[n + 1 + i] /\ off[n + 1 + i] <= off[n + 1 + (i + 1)]
    BY <1>4, <1>6, <2>2
  <2>4. off[n + 1 + i] \in Nat /\ off[n + 1 + (i + 1)] \in Nat /\ off[n + 1] \in Nat
    BY <1>1, <1>2, <2>2 DEF N
  <2>5. QED  BY <2>3, <2>4
<1> HIDE DEF T
<1>7. Nat \subseteq T
  BY <1>5, <1>6, Inductive
<1>8. N - (n + 1) \in T /\ n + 1 + (N - (n + 1)) = N
  BY <1>2, <1>7
<1>9. off[n + 1] <= off[N]
  BY <1>2, <1>8 DEF T
<1>10. QED  BY <1>3, <1>9 DEF N

LEMMA CloseServes ==
  ASSUME WireAssumption, SentTyped, NEW off, NEW n, Serving(off, n), Close
  PROVE  Serving(off, n)' /\ ServedToTheEnd'
<1>1. /\ Laid(off) /\ n \in 0..Len(sent) /\ handled = Done(n) /\ Buffered(off, n)
      /\ n < Len(sent) => ~Enough(n)
  BY DEF Serving, Close
<1>2. sent' = sent /\ handled' = handled /\ at' = "closed" /\ arrived = Len(Stream)
  BY DEF Close
<1>3. Laid(off)' /\ (n \in 0..Len(sent))' /\ (handled = Done(n))'
  BY <1>1, <1>2, SentKept
<1>4. Serving(off, n)'
  BY <1>2, <1>3 DEF Serving
<1>5. /\ n \in Nat /\ Len(sent) \in Nat /\ Len(handled) = n /\ off[n] \in Nat
      /\ off[Len(sent)] = Len(Stream) /\ (n = Len(sent) \/ n < Len(sent))
  BY <1>1, NextIs
<1>6. ASSUME n < Len(sent) PROVE FALSE
  <2>1. off[n] + FrameLength(sent[n + 1]) <= arrived
    BY <1>1, <1>2, <1>5, <1>6, OffsetsGrow
  <2>2. sent[n + 1] \in Packets
    <3>1. n + 1 \in 1..Len(sent)
      BY <1>5, <1>6
    <3>2. QED  BY <3>1 DEF SentTyped
  <2>3. Len(recv_buf) = arrived - off[n] /\ arrived \in Nat
    BY <1>1 DEF Buffered
  <2>4. FrameLength(sent[n + 1]) \in Nat /\ Wanted(sent[n + 1]) \in Nat
        /\ Wanted(sent[n + 1]) <= FrameLength(sent[n + 1])
    BY <2>2, PacketFacts, WantedIs
  <2>5. Len(recv_buf) >= Wanted(sent[n + 1])
    BY <1>5, <2>1, <2>3, <2>4
  <2>6. QED  BY <1>1, <1>6, <2>5 DEF Enough
<1>7. QED  BY <1>2, <1>4, <1>5, <1>6 DEF ServedToTheEnd

LEMMA FrontOf ==
  ASSUME WireAssumption, SentTyped, NEW off, Laid(off), NEW n, Buffered(off, n), n < Len(sent),
         FrameLength(sent[n + 1]) <= Len(recv_buf)
  PROVE  SubSeq(recv_buf, 1, FrameLength(sent[n + 1])) = Frame(n + 1)
<1> DEFINE m == FrameLength(sent[n + 1])
           s == SubSeq(recv_buf, 1, m)
<1>1. /\ sent[n + 1] \in Packets /\ Len(recv_buf) \in Nat
      /\ \A k \in 1..Len(recv_buf) : k <= m => recv_buf[k] = <<n + 1, k>>
  BY FrontIs
<1>2. m \in Nat /\ m <= Len(recv_buf) /\ recv_buf \in Seq(Byte)
  BY <1>1, PacketFacts DEF Buffered
<1>3. Frame(n + 1) = [k \in 1..m |-> <<n + 1, k>>]
  BY DEF Frame
<1> HIDE DEF m
<1>4. s \in Seq(Byte) /\ Len(s) = m /\ \A k \in 1..m : s[k] = recv_buf[k]
  BY <1>2
<1>5. \A k \in 1..m : s[k] = <<n + 1, k>>
  <2> HIDE DEF s
  <2>1. ASSUME NEW k \in 1..m PROVE s[k] = <<n + 1, k>>
    <3>1. k \in 1..Len(recv_buf) /\ k <= m
      BY <1>1, <1>2
    <3>2. QED  BY <1>1, <1>4, <3>1
  <2>2. QED  BY <2>1
<1>6. s = [k \in 1..m |-> s[k]]
  <2> HIDE DEF s
  <2>1. QED  BY <1>4
<1> HIDE DEF s
<1>7. s = Frame(n + 1)
  BY <1>3, <1>5, <1>6
<1>8. QED  BY <1>7 DEF s, m

\* What is left in the buffer is the rest of the stream.
LEMMA ConsumedIs ==
  ASSUME WireAssumption, SentTyped, NEW off, Laid(off), NEW n, Buffered(off, n), n < Len(sent),
         FrameLength(sent[n + 1]) <= Len(recv_buf), UNCHANGED <<sent, arrived>>,
         recv_buf' = Consumed(FrameLength(sent[n + 1]))
  PROVE  Buffered(off, n + 1)'
<1> DEFINE m == FrameLength(sent[n + 1])
           l == Len(recv_buf)
           s == SubSeq(recv_buf, m + 1, l)
           o == off[n]
<1>1. /\ n \in Nat /\ n + 1 \in 1..Len(sent) /\ sent[n + 1] \in Packets /\ l \in Nat
      /\ o \in Nat /\ off[n + 1] = o + m
  BY FrontIs
<1>2. m \in Nat /\ m <= l /\ recv_buf \in Seq(Byte) /\ l <= RecvSize /\ RecvSize \in Nat
  BY <1>1, PacketFacts DEF Buffered, WireAssumption
<1>3. arrived \in Nat /\ arrived <= Len(Stream) /\ l = arrived - o
      /\ \A k \in 1..l : recv_buf[k] = Stream[o + k]
  BY DEF Buffered
<1>4. Stream' = Stream /\ Len(sent') = Len(sent) /\ arrived' = arrived /\ Len(sent) \in Nat
  BY SentKept DEF SentTyped
<1>5. recv_buf' = s
  BY DEF Consumed
<1> HIDE DEF m, l, o
<1>6. s \in Seq(Byte) /\ Len(s) = l - m /\ \A k \in 1..(l - m) : s[k] = recv_buf[m + k]
  <2>1. \A k \in 1..(l - m) : s[k] = recv_buf[m + k]
    BY <1>1, <1>2 DEF l
  <2>2. s \in Seq(Byte) /\ Len(s) = l - m
    BY <1>1, <1>2 DEF l
  <2>3. QED  BY <2>1, <2>2
<1> HIDE DEF s
<1>7. ASSUME NEW k \in 1..(l - m) PROVE s[k] = Stream[(o + m) + k]
  <2>1. m + k \in 1..l /\ o + (m + k) = (o + m) + k
    BY <1>1, <1>2
  <2>2. s[k] = Stream[o + (m + k)]
    BY <1>3, <1>6, <2>1
  <2>3. QED  BY <2>1, <2>2
<1>8. /\ o + m <= arrived /\ Len(s) = arrived - (o + m) /\ Len(s) <= RecvSize
  BY <1>1, <1>2, <1>3, <1>6
<1>9. \A k \in 1..Len(s) : s[k] = Stream[(o + m) + k]
  BY <1>6, <1>7
<1>10. n + 1 \in 0..Len(sent)
  BY <1>1, <1>4
<1>11. QED  BY <1>1, <1>3, <1>4, <1>5, <1>6, <1>8, <1>9, <1>10 DEF Buffered

LEMMA ProcessServes ==
  ASSUME WireAssumption, SentTyped, NEW off, NEW n, Serving(off, n), Process
  PROVE  (\E m : Serving(off, m)') /\ ServedToTheEnd'
<1>1. /\ Laid(off) /\ n \in 0..Len(sent) /\ handled = Done(n) /\ Buffered(off, n) /\ at = "process"
  BY DEF Serving, Process
<1>2. sent' = sent /\ arrived' = arrived /\ UNCHANGED <<sent, arrived>>
  BY DEF Process
<1>3. /\ Laid(off)' /\ Len(sent') = Len(sent) /\ Stream' = Stream /\ \A m : Done(m)' = Done(m)
  BY <1>1, <1>2, SentKept
<1>4. /\ n \in Nat /\ Len(sent) \in Nat /\ Len(handled) = n /\ off[n] \in Nat
      /\ off[Len(sent)] = Len(Stream) /\ (n = Len(sent) \/ n < Len(sent))
      /\ handled = <<>> <=> n = 0
  BY <1>1, NextIs
<1>5. recv_buf \in Seq(Byte) /\ Len(recv_buf) \in Nat /\ (recv_buf = <<>> <=> Len(recv_buf) = 0)
  BY <1>1 DEF Buffered
<1>6. ASSUME recv_buf' = recv_buf PROVE Buffered(off, n)'
  <2>1. (n \in 0..Len(sent))' /\ Len(Stream)' = Len(Stream)
    BY <1>1, <1>3
  <2>2. QED  BY <1>1, <1>2, <1>3, <1>6, <2>1 DEF Buffered
<1> DEFINE length == IF recv_buf = <<>> THEN NeedMore ELSE PacketLength(Values)
           p == sent[recv_buf[1][1]]
           More == length = NeedMore /\ at' = "select" /\ UNCHANGED <<recv_buf, handled>>
           Endless == /\ length # NeedMore /\ length = Malformed /\ at' = "malformed"
                      /\ UNCHANGED <<recv_buf, handled>>
           Stranger == /\ length # NeedMore /\ length # Malformed /\ ~Connected /\ p.type # "CONNECT"
                       /\ at' = "not CONNECT" /\ UNCHANGED <<recv_buf, handled>>
           Handle == /\ length # NeedMore /\ length # Malformed
                     /\ handled' = Append(handled, [bytes |-> SubSeq(recv_buf, 1, length),
                                                    parsed |-> Parse(p)])
                     /\ \/ at' = "refused" /\ ~Parse(p).ok
                        \/ at' = "disconnected" /\ p.type = "DISCONNECT"
                        \/ recv_buf' = Consumed(length) /\ at' = at
<1>7. More \/ Endless \/ Stranger \/ Handle
  BY DEF Process, Values
<1>8. CASE recv_buf = <<>>
  <2>1. More
    BY <1>7, <1>8
  <2>2. (n < Len(sent) => ~Enough(n))'
    <3>1. ASSUME n < Len(sent) PROVE ~(Len(recv_buf) >= Wanted(sent[n + 1]))
      BY <1>1, <1>5, <1>8, <3>1, EmptyLacks DEF Enough
    <3>2. QED  BY <1>2, <1>3, <2>1, <3>1 DEF Enough
  <2>3. Serving(off, n)'
    <3>1. (n \in 0..Len(sent))' /\ (handled = Done(n))'
      BY <1>1, <1>3, <2>1
    <3>2. QED  BY <1>3, <1>6, <2>1, <2>2, <3>1 DEF Serving
  <2>4. QED  BY <2>1, <2>3, ServedOther
<1>9. CASE recv_buf # <<>>
  <2>1. n < Len(sent)
    <3>1. SUFFICES ASSUME n = Len(sent) PROVE FALSE
      BY <1>4
    <3>2. Len(recv_buf) = arrived - off[n] /\ arrived \in Nat /\ arrived <= off[n]
      BY <1>1, <1>4, <3>1 DEF Buffered
    <3>3. QED  BY <1>4, <1>5, <1>9, <3>2
  <2> DEFINE q == sent[n + 1]
  <2>2. q \in Packets /\ n + 1 \in 1..Len(sent) /\ n + 1 \in 0..Len(sent)
    <3>1. n + 1 \in 1..Len(sent) /\ n + 1 \in 0..Len(sent)
      BY <1>4, <2>1
    <3>2. QED  BY <3>1 DEF SentTyped
  <2>3. /\ FrameLength(q) \in Nat /\ FrameLength(q) >= 2 /\ Wanted(q) \in Nat
        /\ q.type # "MALFORMED" => Wanted(q) = FrameLength(q)
    BY <2>2, PacketFacts, WantedIs DEF Wanted
  <2>4. p = q
    <3>1. 1 \in 1..Len(recv_buf) /\ 1 <= FrameLength(q)
      BY <1>5, <1>9, <2>3
    <3>2. recv_buf[1] = <<n + 1, 1>>
      BY <1>1, <2>1, <3>1, FrontIs
    <3>3. QED  BY <3>2
  <2>5. length = IF ~Enough(n) THEN NeedMore ELSE IF q.type = "MALFORMED" THEN Malformed
                 ELSE FrameLength(q)
    BY <1>1, <1>9, <2>1, PacketLengthIs
  <2>6. (n \in 0..Len(sent))'
    BY <1>1, <1>3
  <2> HIDE DEF length, p
  <2>7. CASE More
    <3>1. ~Enough(n)
      BY <2>3, <2>5, <2>7 DEF NeedMore, Malformed
    <3>2. ~Enough(n)'
      BY <1>2, <2>7, <3>1 DEF Enough
    <3>3. (handled = Done(n))'
      BY <1>1, <1>3, <2>7
    <3>4. Serving(off, n)'
      BY <1>3, <1>6, <2>6, <2>7, <3>2, <3>3 DEF Serving
    <3>5. QED  BY <2>7, <3>4, ServedOther
  <2>8. CASE Endless
    <3>1. q.type = "MALFORMED"
      BY <2>3, <2>5, <2>8 DEF NeedMore, Malformed
    <3>2. (handled = Done(n))' /\ Len(handled') = n
      BY <1>1, <1>3, <1>4, <2>8
    <3>3. Serving(off, n)'
      BY <1>3, <2>6, <2>8, <3>2 DEF Serving
    <3>4. QED  BY <1>2, <2>1, <2>8, <3>1, <3>2, <3>3 DEF ServedToTheEnd
  <2>9. CASE Stranger
    <3>1. q.type # "CONNECT" /\ handled' = <<>> /\ n = 0 /\ n + 1 = 1 /\ Len(handled') = 0
      <4>1. handled = <<>> /\ handled' = handled /\ p.type # "CONNECT"
        BY <2>9 DEF Connected
      <4>2. q.type # "CONNECT"
        BY <2>4, <4>1
      <4>3. n = 0 /\ n + 1 = 1 /\ Len(handled') = 0
        BY <1>4, <4>1
      <4>4. QED  BY <4>1, <4>2, <4>3
    <3>2. (handled = Done(n))'
      BY <1>1, <1>3, <2>9
    <3>3. Serving(off, n)'
      BY <1>3, <2>6, <2>9, <3>2 DEF Serving
    <3>4. ServedToTheEnd'
      <4>1. at' = "not CONNECT" /\ Len(handled') < Len(sent') /\ sent'[Len(handled') + 1] = q
        BY <1>2, <1>3, <2>1, <2>9, <3>1
      <4>2. QED  BY <3>1, <4>1 DEF ServedToTheEnd
    <3>5. QED  BY <3>3, <3>4
  <2>10. CASE Handle
    <3>1. Enough(n) /\ q.type # "MALFORMED" /\ length = FrameLength(q)
      BY <2>3, <2>5, <2>10 DEF NeedMore, Malformed
    <3>2. FrameLength(q) <= Len(recv_buf)
      BY <1>5, <2>3, <3>1 DEF Enough
    <3>3. SubSeq(recv_buf, 1, length) = Frame(n + 1)
      BY <1>1, <2>1, <3>1, <3>2, FrontOf
    <3>4. handled' = Append(Done(n), [bytes |-> Frame(n + 1), parsed |-> Parse(q)])
      BY <1>1, <2>4, <2>10, <3>3
    <3>5. handled' = Done(n + 1) /\ Len(Done(n + 1)) = n + 1
      BY <1>4, <3>4, DoneIs
    <3>6. (handled = Done(n + 1))' /\ (n + 1 \in 0..Len(sent))' /\ sent'[Len(handled')] = q
      BY <1>2, <1>3, <2>2, <3>5
    <3>7. CASE at' = "refused" /\ ~Parse(p).ok
      <4>1. Serving(off, n + 1)'
        BY <1>3, <3>6, <3>7 DEF Serving
      <4>2. ServedToTheEnd'
        BY <2>4, <3>6, <3>7 DEF ServedToTheEnd
      <4>3. QED  BY <4>1, <4>2
    <3>8. CASE at' = "disconnected" /\ p.type = "DISCONNECT"
      <4>1. Serving(off, n + 1)'
        BY <1>3, <3>6, <3>8 DEF Serving
      <4>2. ServedToTheEnd'
        BY <2>4, <3>6, <3>8 DEF ServedToTheEnd
      <4>3. QED  BY <4>1, <4>2
    <3>9. CASE recv_buf' = Consumed(length) /\ at' = at
      <4>1. recv_buf' = Consumed(FrameLength(sent[n + 1])) /\ at' = "process"
        BY <1>1, <3>1, <3>9
      <4>2. Buffered(off, n + 1)'
        BY <1>1, <1>2, <2>1, <3>2, <4>1, ConsumedIs
      <4>3. Serving(off, n + 1)'
        BY <1>3, <3>6, <4>1, <4>2 DEF Serving
      <4>4. QED  BY <4>1, <4>3, ServedOther
    <3>10. QED  BY <2>10, <3>7, <3>8, <3>9
  <2>11. QED  BY <1>7, <2>7, <2>8, <2>9, <2>10
<1>10. QED  BY <1>8, <1>9

LEMMA StreamStep ==
  ASSUME WireAssumption, StreamInv, [Next]_wirevars
  PROVE  StreamInv'
<1>1. PICK off, n : Serving(off, n)
  BY DEF StreamInv
<1>2. SentTyped /\ ServedToTheEnd
  BY DEF StreamInv
<1>3. CASE UNCHANGED wirevars
  <2>1. /\ sent' = sent /\ arrived' = arrived /\ recv_buf' = recv_buf /\ at' = at
        /\ handled' = handled
    BY <1>3 DEF wirevars
  <2>2. SentTyped' /\ Laid(off)' /\ Stream' = Stream /\ Len(sent') = Len(sent) /\ Done(n)' = Done(n)
    BY <1>1, <1>2, <2>1, SentKept DEF Serving
  <2>3. Serving(off, n)'
    <3>1. Buffered(off, n) => Buffered(off, n)'
      BY <2>1, <2>2 DEF Buffered
    <3>2. Enough(n)' <=> Enough(n)
      BY <2>1 DEF Enough
    <3>3. QED  BY <1>1, <2>1, <2>2, <3>1, <3>2 DEF Serving
  <2>4. ServedToTheEnd'
    BY <1>2, <2>1 DEF ServedToTheEnd
  <2>5. QED  BY <2>2, <2>3, <2>4 DEF StreamInv
<1>4. CASE Next
  <2>1. sent' = sent
    BY <1>4 DEF Next, Recv, Close, Process
  <2>2. SentTyped'
    BY <1>2, <2>1, SentKept
  <2>3. (\E m : Serving(off, m)') /\ ServedToTheEnd'
    BY <1>1, <1>2, <1>4, RecvServes, CloseServes, ProcessServes DEF Next
  <2>4. QED  BY <2>2, <2>3 DEF StreamInv
<1>5. QED  BY <1>3, <1>4

LEMMA StreamHolds ==
  ASSUME WireAssumption, StreamInv
  PROVE  PacketsWhole /\ ServedToTheEnd
<1>1. PICK off, n : Serving(off, n)
  BY DEF StreamInv
<1>2. n \in 0..Len(sent) /\ handled = Done(n) /\ Len(sent) \in Nat /\ sent \in [1..Len(sent) -> Packets]
  BY <1>1 DEF Serving, StreamInv, SentTyped
<1>3. DOMAIN handled = 1..n /\ n \in Nat
  BY <1>2 DEF Done
<1>4. ASSUME NEW i \in 1..n
      PROVE handled[i].bytes = Frame(i) /\ handled[i].parsed.used <= sent[i].room
  <2>1. handled[i] = [bytes |-> Frame(i), parsed |-> Parse(sent[i])]
    BY <1>2 DEF Done
  <2>2. i \in 1..Len(sent)
    BY <1>2, <1>3
  <2>3. sent[i] \in Packets
    BY <1>2, <2>2
  <2>4. Sizes /\ Packet(sent[i])
    BY <2>3, PacketFacts
  <2>5. Parse(sent[i]).used \in 0..sent[i].room /\ sent[i].room \in Nat
    BY <2>4, ParseWithin DEF Packet
  <2>6. QED  BY <2>1, <2>5
<1>5. QED  BY <1>3, <1>4 DEF PacketsWhole, StreamInv
=============================================================================
