-------------------------- MODULE TimerBlobProofs --------------------------
(***************************************************************************)
(* The text that keeps the schedules: what append_json_string writes of a  *)
(* string, parse_json_string reads back, what serialize_blob writes of a   *)
(* slot, parse_slot_object reads back, and so a boot loads what was saved. *)
(* For strings of any characters and any length, any bounds of the fields, *)
(* any forms and bodies, and any number of slots.                          *)
(***************************************************************************)
EXTENDS TimerBlob, WellFoundedInduction, TLAPS

-----------------------------------------------------------------------------
(* Naturals: least elements, induction over a set, and functions defined   *)
(* by recursion, of sets and functions where the library has operators.    *)

\* A set of naturals has a least element.
LEMMA LeastElement ==
  ASSUME NEW T, T \subseteq Nat, T # {}
  PROVE  \E i \in T : \A j \in T : i <= j
<1>1. PICK i \in T : \A j \in T : <<j, i>> \notin OpToRel(<, Nat)
  BY NatLessThanWellFounded, WFMin
<1>2. \A j \in T : ~(j < i)
  BY <1>1 DEF OpToRel
<1>3. QED  BY <1>2

\* What holds of 0, and of the next number when of one, holds of all.
LEMMA Inductive ==
  ASSUME NEW T, 0 \in T, \A n \in Nat : n \in T => n + 1 \in T
  PROVE  Nat \subseteq T
<1> DEFINE U == Nat \ T
<1>1. SUFFICES ASSUME U # {} PROVE FALSE
  OBVIOUS
<1>2. PICK x \in U : \A y \in U : x <= y
  <2>1. U \subseteq Nat
    OBVIOUS
  <2> HIDE DEF U
  <2>2. QED  BY <1>1, <2>1, LeastElement
<1>3. x - 1 \in Nat /\ x - 1 \notin U
  <2>1. x \in Nat /\ x # 0
    OBVIOUS
  <2> HIDE DEF U
  <2>2. QED  BY <1>2, <2>1
<1>4. QED  BY <1>3

\* What holds of n, and of the number below when of one down to m, holds of all of m..n.
LEMMA Downward ==
  ASSUME NEW m \in Int, NEW n \in Int, NEW T,
         m <= n => n \in T, \A k \in m..n : k \in T /\ k > m => k - 1 \in T
  PROVE  m..n \subseteq T
<1> DEFINE U == {x \in Nat : x <= n - m => n - x \in T}
<1>1. 0 \in U
  OBVIOUS
<1>2. \A x \in Nat : x \in U => x + 1 \in U
  <2>1. SUFFICES ASSUME NEW x \in Nat, x \in U, x + 1 <= n - m PROVE n - (x + 1) \in T
    OBVIOUS
  <2>2. n - x \in T /\ n - x \in m..n /\ n - x > m /\ (n - x) - 1 = n - (x + 1)
    BY <2>1
  <2>3. QED  BY <2>2
<1>3. Nat \subseteq U
  <2> HIDE DEF U
  <2>1. QED  BY <1>1, <1>2, Inductive
<1>4. ASSUME NEW k \in m..n PROVE k \in T
  <2>1. n - k \in Nat /\ n - k <= n - m /\ n - (n - k) = k
    OBVIOUS
  <2>2. QED  BY <1>3, <2>1
<1>5. QED  BY <1>4

\* What f is below n.
Before(f, n) == [m \in 0..(n - 1) |-> f[m]]

\* H[n][g] is the value at n of a function to V that is g below n.
Computes(H, N, V) == \A n \in 0..N : \A g \in [0..(n - 1) -> V] : H[n][g] \in V

Computed(f, H, N, V) == f \in [0..N -> V] /\ \A n \in 0..N : f[n] = H[n][Before(f, n)]

\* A function may be defined from its values at smaller numbers.
LEMMA Recursion ==
  ASSUME NEW N \in Nat, NEW V, NEW H, Computes(H, N, V)
  PROVE  \E f : Computed(f, H, N, V)
<1> DEFINE Fits(f, k) == /\ f \in [0..(k - 1) -> V]
                         /\ \A n \in 0..(k - 1) : f[n] = H[n][Before(f, n)]
           T == {k \in Nat : k <= N + 1 => \E f : Fits(f, k)}
<1>1. 0 \in T
  <2>1. Fits([m \in 0..(0 - 1) |-> m], 0)
    OBVIOUS
  <2>2. QED  BY <2>1
<1>2. ASSUME NEW k \in Nat, k \in T PROVE k + 1 \in T
  <2>1. SUFFICES ASSUME k + 1 <= N + 1 PROVE \E f : Fits(f, k + 1)
    <3> HIDE DEF Fits
    <3>1. QED  OBVIOUS
  <2>2. PICK g : Fits(g, k)
    BY <1>2, <2>1
  <2> DEFINE f == [n \in 0..k |-> IF n = k THEN H[k][g] ELSE g[n]]
  <2>3. g \in [0..(k - 1) -> V] /\ H[k][g] \in V
    BY <2>1, <2>2 DEF Computes
  <2>4. f \in [0..(k + 1 - 1) -> V]
    BY <2>3
  <2>5. ASSUME NEW n \in 0..k
        PROVE  f[n] = H[n][Before(f, n)]
    <3>1. Before(f, n) = Before(g, n)
      BY DEF Before
    <3>2. CASE n = k
      <4>1. Before(g, k) = g
        BY <2>3 DEF Before
      <4>2. f[k] = H[k][g]
        OBVIOUS
      <4> HIDE DEF f
      <4>3. QED  BY <3>1, <3>2, <4>1, <4>2
    <3>3. CASE n # k
      <4>1. n \in 0..(k - 1) /\ f[n] = g[n]
        BY <3>3
      <4>2. g[n] = H[n][Before(g, n)]
        BY <2>2, <4>1
      <4> HIDE DEF f
      <4>3. QED  BY <3>1, <4>1, <4>2
    <3>4. QED  BY <3>2, <3>3
  <2>6. Fits(f, k + 1)
    <3>1. 0..(k + 1 - 1) = 0..k
      OBVIOUS
    <3> HIDE DEF f
    <3>2. QED  BY <2>4, <2>5, <3>1
  <2>7. QED  BY <2>6
<1>3. N + 1 \in T
  <2> HIDE DEF T
  <2>1. QED  BY <1>1, <1>2, Inductive
<1>4. PICK f : Fits(f, N + 1)
  BY <1>3
<1>5. 0..(N + 1 - 1) = 0..N
  OBVIOUS
<1>6. QED  BY <1>4, <1>5 DEF Computed

LEMMA BeforeIs ==
  ASSUME NEW N \in Nat, NEW V, NEW f \in [0..N -> V], NEW k \in 0..N
  PROVE  Before(f, k) \in [0..(k - 1) -> V] /\ \A j \in 0..(k - 1) : Before(f, k)[j] = f[j]
<1>1. \A j \in 0..(k - 1) : j \in 0..N
  OBVIOUS
<1>2. QED  BY <1>1 DEF Before

-----------------------------------------------------------------------------
(* Sequences *)

\* fl[i] is the concatenation of the first i sequences of ss.
Flattened(fl, ss, N, S) ==
  /\ fl \in [1..N -> Seq(S)]
  /\ FlattenSeq(ss) = fl[N] /\ fl[1] = ss[1]
  /\ \A i \in 2..N : fl[i] = fl[i - 1] \o ss[i]

LEMMA FlattenIs ==
  ASSUME NEW S, NEW ss, NEW N \in Nat, N >= 1, ss \in [1..N -> Seq(S)]
  PROVE  \E fl : Flattened(fl, ss, N, S)
<1> DEFINE V == Seq(S)
           Val(i, last) == IF i = 1 THEN ss[i] ELSE last \o ss[i]
           H == [k \in 0..(N - 1) |-> [g \in [0..(k - 1) -> V] |-> Val(k + 1, g[k - 1])]]
           Is(fl) == fl = [i \in 1..N |-> Val(i, fl[i - 1])]
           flat == CHOOSE fl : Is(fl)
<1>1. ASSUME NEW i \in 1..N, NEW last, i # 1 => last \in V PROVE Val(i, last) \in V
  BY <1>1
<1>2. Computes(H, N - 1, V)
  <2>1. SUFFICES ASSUME NEW k \in 0..(N - 1), NEW g \in [0..(k - 1) -> V] PROVE H[k][g] \in V
    BY DEF Computes
  <2>2. H[k][g] = Val(k + 1, g[k - 1])
    <3> HIDE DEF V, Val
    <3>1. QED  OBVIOUS
  <2>3. k + 1 \in 1..N /\ (k + 1 # 1 => k - 1 \in 0..(k - 1))
    OBVIOUS
  <2>4. k + 1 # 1 => g[k - 1] \in V
    <3> HIDE DEF V
    <3>1. QED  BY <2>3
  <2> HIDE DEF V, Val, H
  <2>5. QED  BY <1>1, <2>2, <2>3, <2>4
<1>3. PICK f : Computed(f, H, N - 1, V)
  <2>1. N - 1 \in Nat
    OBVIOUS
  <2> HIDE DEF V, H
  <2>2. QED  BY <1>2, <2>1, Recursion
<1> DEFINE w == [i \in 1..N |-> f[i - 1]]
<1>4. Is(w)
  <2>1. ASSUME NEW i \in 1..N PROVE w[i] = Val(i, w[i - 1])
    <3> DEFINE k == i - 1
    <3>1. k \in 0..(N - 1) /\ N - 1 \in Nat /\ k + 1 = i /\ w[i] = f[k]
      OBVIOUS
    <3> HIDE DEF k
    <3>2. f \in [0..(N - 1) -> V] /\ f[k] = H[k][Before(f, k)]
      BY <1>3, <3>1 DEF Computed
    <3>3. Before(f, k) \in [0..(k - 1) -> V] /\ \A j \in 0..(k - 1) : Before(f, k)[j] = f[j]
      <4> DEFINE M == N - 1
      <4> HIDE DEF V
      <4>1. M \in Nat /\ f \in [0..M -> V] /\ k \in 0..M
        BY <3>1, <3>2
      <4> HIDE DEF M
      <4>2. Before(f, k) \in [0..(k - 1) -> V]
        BY <4>1, BeforeIs
      <4>3. \A j \in 0..(k - 1) : Before(f, k)[j] = f[j]
        BY DEF Before
      <4>4. QED  BY <4>2, <4>3
    <3>4. H[k][Before(f, k)] = Val(k + 1, Before(f, k)[k - 1])
      <4> HIDE DEF V, Val
      <4>1. QED  BY <3>1, <3>3
    <3>5. i # 1 => Before(f, k)[k - 1] = w[i - 1]
      <4>1. SUFFICES ASSUME i # 1 PROVE Before(f, k)[k - 1] = w[i - 1]
        OBVIOUS
      <4>2. k - 1 \in 0..(k - 1) /\ i - 1 \in 1..N /\ (i - 1) - 1 = k - 1
        BY <3>1, <4>1
      <4>3. w[i - 1] = f[k - 1]
        BY <4>2
      <4> HIDE DEF w, V
      <4>4. QED  BY <3>3, <4>2, <4>3
    <3>6. Val(i, Before(f, k)[k - 1]) = Val(i, w[i - 1])
      BY <3>5
    <3> HIDE DEF Val, H, w
    <3>7. QED  BY <3>1, <3>2, <3>4, <3>6
  <2>2. w = [i \in 1..N |-> w[i]]
    OBVIOUS
  <2> HIDE DEF Val, w
  <2>3. QED  BY <2>1, <2>2
<1>5. Is(flat)
  <2> HIDE DEF Is, w
  <2>1. QED  BY <1>4
<1> HIDE DEF flat
<1>6. ASSUME NEW i \in 1..N PROVE flat[i] = Val(i, flat[i - 1])
  <2> HIDE DEF Val
  <2>1. QED  BY <1>5
<1>7. ASSUME NEW i \in 1..N PROVE flat[i] \in V
  <2> DEFINE T == {k \in Nat : k + 1 <= N => flat[k + 1] \in V}
  <2>1. 0 \in T
    <3>1. 0 + 1 = 1 /\ 1 \in 1..N
      OBVIOUS
    <3>2. flat[1] \in V
      <4> HIDE DEF V, Val
      <4>1. QED  BY <1>1, <1>6, <3>1
    <3> HIDE DEF V
    <3>3. QED  BY <3>1, <3>2
  <2>2. ASSUME NEW k \in Nat, k \in T PROVE k + 1 \in T
    <3>1. SUFFICES ASSUME (k + 1) + 1 <= N PROVE flat[(k + 1) + 1] \in V
      OBVIOUS
    <3>2. (k + 1) + 1 \in 1..N /\ ((k + 1) + 1) - 1 = k + 1 /\ k + 1 <= N
      BY <3>1
    <3>3. flat[k + 1] \in V
      BY <2>2, <3>2
    <3> HIDE DEF V, Val
    <3>4. QED  BY <1>1, <1>6, <3>2, <3>3
  <2> HIDE DEF T
  <2>3. Nat \subseteq T
    BY <2>1, <2>2, Inductive
  <2>4. i - 1 \in Nat /\ (i - 1) + 1 = i /\ i <= N
    OBVIOUS
  <2>5. i - 1 \in T
    BY <2>3, <2>4
  <2>6. (i - 1) + 1 <= N => flat[(i - 1) + 1] \in V
    BY <2>5 DEF T
  <2> HIDE DEF V
  <2>7. QED  BY <2>4, <2>6
<1>8. flat \in [1..N -> V]
  <2>1. flat = [i \in 1..N |-> Val(i, flat[i - 1])]
    BY <1>5
  <2> HIDE DEF V, Val
  <2>2. QED  BY <1>7, <2>1
<1>9. FlattenSeq(ss) = flat[N]
  <2>1. Len(ss) = N /\ N # 0
    OBVIOUS
  <2>2. FlattenSeq(ss) = IF Len(ss) = 0 THEN ss
                         ELSE (CHOOSE fl : fl = [i \in 1..Len(ss) |->
                                 IF i = 1 THEN ss[i] ELSE fl[i - 1] \o ss[i]])[Len(ss)]
    BY DEF FlattenSeq
  <2>3. QED  BY <2>1, <2>2 DEF flat
<1>10. flat[1] = ss[1]
  <2>1. 1 \in 1..N
    OBVIOUS
  <2>2. QED  BY <1>6, <2>1
<1>11. ASSUME NEW i \in 2..N PROVE flat[i] = flat[i - 1] \o ss[i]
  <2>1. i \in 1..N /\ i # 1
    OBVIOUS
  <2>2. QED  BY <1>6, <2>1
<1> HIDE DEF flat
<1>12. Flattened(flat, ss, N, S)
  BY <1>8, <1>9, <1>10, <1>11 DEF Flattened
<1>13. QED  BY <1>12

LEMMA ConcatIs ==
  ASSUME NEW S, NEW a \in Seq(S), NEW b \in Seq(S)
  PROVE  /\ a \o b \in Seq(S) /\ Len(a \o b) = Len(a) + Len(b) /\ Len(a) \in Nat /\ Len(b) \in Nat
         /\ \A k \in 1..Len(a) : (a \o b)[k] = a[k]
         /\ \A k \in 1..Len(b) : (a \o b)[Len(a) + k] = b[k]
<1>1. /\ a \o b \in Seq(S) /\ Len(a \o b) = Len(a) + Len(b) /\ Len(a) \in Nat /\ Len(b) \in Nat
  OBVIOUS
<1>2. \A k \in 1..Len(a) : (a \o b)[k] = a[k]
  OBVIOUS
<1>3. \A k \in 1..Len(b) : (a \o b)[Len(a) + k] = b[k]
  OBVIOUS
<1>4. QED  BY <1>1, <1>2, <1>3

\* Where the sequences of ss lie in their concatenation: the ith begins after off[i - 1].
LiesAt(off, ss, N, S) ==
  /\ off \in [0..N -> Nat] /\ off[0] = 0
  /\ \A i \in 1..N : off[i] = off[i - 1] + Len(ss[i])
  /\ FlattenSeq(ss) \in Seq(S) /\ Len(FlattenSeq(ss)) = off[N]
  /\ \A i \in 1..N : \A k \in 1..Len(ss[i]) : FlattenSeq(ss)[off[i - 1] + k] = ss[i][k]

LEMMA Lies ==
  ASSUME NEW S, NEW ss, NEW N \in Nat, N >= 1, ss \in [1..N -> Seq(S)]
  PROVE  \E off : LiesAt(off, ss, N, S)
<1>2. ASSUME NEW i \in 1..N PROVE ss[i] \in Seq(S) /\ Len(ss[i]) \in Nat
  OBVIOUS
<1>4. PICK fl : Flattened(fl, ss, N, S)
  BY FlattenIs
<1>5. /\ fl \in [1..N -> Seq(S)] /\ FlattenSeq(ss) = fl[N] /\ fl[1] = ss[1]
      /\ \A i \in 2..N : fl[i] = fl[i - 1] \o ss[i]
  BY <1>4 DEF Flattened
<1> DEFINE off == [i \in 0..N |-> IF i = 0 THEN 0 ELSE Len(fl[i])]
<1>6. off \in [0..N -> Nat] /\ off[0] = 0 /\ \A i \in 1..N : off[i] = Len(fl[i]) /\ fl[i] \in Seq(S)
  BY <1>5
<1> HIDE DEF off
<1>7. ASSUME NEW i \in 1..N
      PROVE  /\ off[i] = off[i - 1] + Len(ss[i])
             /\ \A k \in 1..Len(ss[i]) : fl[i][off[i - 1] + k] = ss[i][k]
             /\ i # 1 => \A k \in 1..off[i - 1] : fl[i][k] = fl[i - 1][k]
  <2>1. CASE i = 1
    <3>1. fl[1] = ss[1] /\ off[1] = Len(fl[1]) /\ i - 1 = 0
      BY <1>5, <1>6, <2>1
    <3>2. off[i - 1] = 0 /\ \A k \in 1..Len(ss[i]) : 0 + k = k
      BY <1>6, <2>1, <1>2
    <3>3. QED  BY <1>2, <2>1, <3>1, <3>2
  <2>2. CASE i # 1
    <3>1. i - 1 \in 1..N /\ i \in 2..N
      BY <2>2
    <3> DEFINE a == fl[i - 1]
               b == ss[i]
    <3>2. /\ fl[i] = a \o b /\ a \in Seq(S) /\ b \in Seq(S) /\ Len(a) = off[i - 1]
          /\ off[i] = Len(fl[i])
      BY <1>2, <1>5, <1>6, <3>1
    <3> HIDE DEF a, b
    <3>3. /\ Len(a \o b) = Len(a) + Len(b) /\ Len(a) \in Nat /\ Len(b) \in Nat
          /\ \A k \in 1..Len(a) : (a \o b)[k] = a[k]
          /\ \A k \in 1..Len(b) : (a \o b)[Len(a) + k] = b[k]
      <4>1. a \in Seq(S) /\ b \in Seq(S)
        BY <3>2
      <4>2. QED  BY <4>1, ConcatIs
    <3>4. QED  BY <3>2, <3>3 DEF a, b
  <2>3. QED  BY <2>1, <2>2
<1>8. \A i \in 1..N : \A j \in 1..i : off[j] <= off[i] /\ \A k \in 1..off[j] : fl[i][k] = fl[j][k]
  <2> DEFINE T == {i \in Nat : i \in 1..N => \A j \in 1..i : off[j] <= off[i] /\ \A k \in 1..off[j] : fl[i][k] = fl[j][k]}
  <2>1. 0 \in T
    OBVIOUS
  <2>2. ASSUME NEW m \in Nat, m \in T PROVE m + 1 \in T
    <3>1. SUFFICES ASSUME m + 1 \in 1..N, NEW j \in 1..(m + 1)
          PROVE  off[j] <= off[m + 1] /\ \A k \in 1..off[j] : fl[m + 1][k] = fl[j][k]
      OBVIOUS
    <3>2. m + 1 \in 0..N /\ off[m + 1] \in Nat
      BY <1>6, <3>1
    <3>3. CASE j = m + 1
      BY <3>2, <3>3
    <3>4. CASE j # m + 1
      <4>1. m \in 1..N /\ j \in 1..m /\ m + 1 # 1 /\ (m + 1) - 1 = m /\ m \in 0..N /\ j \in 0..N
        BY <3>1, <3>4
      <4>2. off[j] <= off[m] /\ \A k \in 1..off[j] : fl[m][k] = fl[j][k]
        BY <2>2, <4>1
      <4>3. Len(ss[m + 1]) \in Nat /\ off[m] \in Nat /\ off[j] \in Nat
        BY <1>2, <1>6, <3>1, <4>1
      <4>4. off[m + 1] = off[m] + Len(ss[m + 1]) /\ \A k \in 1..off[m] : fl[m + 1][k] = fl[m][k]
        BY <1>7, <3>1, <4>1
      <4>5. \A k \in 1..off[j] : k \in 1..off[m]
        BY <4>2, <4>3
      <4>6. QED  BY <4>2, <4>3, <4>4, <4>5
    <3>5. QED  BY <3>3, <3>4
  <2> HIDE DEF T
  <2>3. Nat \subseteq T
    BY <2>1, <2>2, Inductive
  <2>4. QED  BY <2>3 DEF T
<1>9. ASSUME NEW i \in 1..N, NEW k \in 1..Len(ss[i]) PROVE fl[N][off[i - 1] + k] = ss[i][k]
  <2>1. N \in 1..N /\ i \in 1..N /\ i - 1 \in 0..N /\ i \in 0..N
    OBVIOUS
  <2>2. Len(ss[i]) \in Nat /\ off[i - 1] \in Nat /\ off[i] = off[i - 1] + Len(ss[i])
    BY <1>2, <1>6, <1>7, <2>1
  <2>3. off[i - 1] + k \in 1..off[i]
    BY <2>2
  <2>4. fl[N][off[i - 1] + k] = fl[i][off[i - 1] + k]
    BY <1>8, <2>1, <2>3
  <2>5. QED  BY <1>7, <2>4
<1>10. fl[N] \in Seq(S) /\ Len(fl[N]) = off[N]
  BY <1>6
<1>11. LiesAt(off, ss, N, S)
  BY <1>5, <1>6, <1>7, <1>9, <1>10 DEF LiesAt
<1>12. QED  BY <1>11

-----------------------------------------------------------------------------
(* Strings: what parse_json_string reads of a text, from its end, and that *)
(* what append_json_string writes is read back.                            *)

\* What is read from the ith character on, rest being what is after that one.
Chars(t, i, rest) ==
  IF i > Len(t) THEN <<"bad">>
  ELSE IF t[i] = Quote THEN (IF i = Len(t) THEN <<>> ELSE <<"bad">>)
  ELSE IF i + Width(t, i) > Len(t) \/ ~Known(t, i) THEN <<"bad">>
  ELSE <<t[i + Width(t, i) - 1]>> \o rest

IsRead(f, t) == f = [i \in 1..(Len(t) + 1) |-> Chars(t, i, f[i + Width(t, i)])]

LEMMA WidthIs == \A t, i : Width(t, i) \in {1, 2, 6}
BY DEF Width

LEMMA CharsIs ==
  ASSUME NEW C, NEW t \in Seq(C), NEW i \in 1..(Len(t) + 1), NEW rest,
         i + Width(t, i) <= Len(t) => rest \in Seq(C \cup {"bad"})
  PROVE  Chars(t, i, rest) \in Seq(C \cup {"bad"})
<1> DEFINE D == C \cup {"bad"}
           w == Width(t, i)
<1>1. <<>> \in Seq(D) /\ <<"bad">> \in Seq(D) /\ Len(t) \in Nat /\ w \in {1, 2, 6}
  BY WidthIs
<1>2. ASSUME ~(i + w > Len(t)) PROVE <<t[i + w - 1]>> \o rest \in Seq(D)
  <2> HIDE DEF w
  <2>1. i + w - 1 \in 1..Len(t) /\ i + w <= Len(t)
    BY <1>1, <1>2
  <2>2. t[i + w - 1] \in C /\ rest \in Seq(D)
    BY <2>1 DEF w
  <2> DEFINE c == t[i + w - 1]
  <2>3. c \in D /\ rest \in Seq(D)
    BY <2>2
  <2> HIDE DEF c, D
  <2>4. <<c>> \o rest \in Seq(D)
    BY <2>3
  <2>5. QED  BY <2>4 DEF c
<1> HIDE DEF D, w
<1>3. QED  BY <1>1, <1>2 DEF Chars, w, D

LEMMA ReadExists ==
  ASSUME NEW C, NEW t \in Seq(C)
  PROVE  \E f \in [1..(Len(t) + 1) -> Seq(C \cup {"bad"})] : IsRead(f, t)
<1> DEFINE N == Len(t)
           V == Seq(C \cup {"bad"})
           w(m) == Width(t, (N + 1) - m)
           H == [m \in 0..N |-> [g \in [0..(m - 1) -> V] |-> Chars(t, (N + 1) - m, g[m - w(m)])]]
<1>1. N \in Nat
  OBVIOUS
<1>2. ASSUME NEW m \in 0..N
      PROVE  /\ (N + 1) - m \in 1..(N + 1)
             /\ ((N + 1) - m) + w(m) <= N => m - w(m) \in 0..(m - 1)
  <2>1. w(m) \in {1, 2, 6}
    BY WidthIs
  <2> HIDE DEF w, N
  <2>2. QED  BY <1>1, <2>1
<1>3. Computes(H, N, V)
  <2>1. SUFFICES ASSUME NEW m \in 0..N, NEW g \in [0..(m - 1) -> V] PROVE H[m][g] \in V
    BY DEF Computes
  <2>2. H[m][g] = Chars(t, (N + 1) - m, g[m - w(m)])
    OBVIOUS
  <2>3. ((N + 1) - m) + w(m) <= N => g[m - w(m)] \in V
    <3> HIDE DEF V, H, w, N
    <3>1. QED  BY <1>2
  <2>4. Chars(t, (N + 1) - m, g[m - w(m)]) \in V
    <3> DEFINE i == (N + 1) - m
               rest == g[m - w(m)]
    <3>1. i \in 1..(Len(t) + 1) /\ (i + Width(t, i) <= Len(t) => rest \in Seq(C \cup {"bad"}))
      BY <1>2, <2>3
    <3> HIDE DEF i, rest
    <3>2. Chars(t, i, rest) \in Seq(C \cup {"bad"})
      BY <3>1, CharsIs
    <3>3. QED  BY <3>2 DEF i, rest
  <2> HIDE DEF H, V, w
  <2>5. QED  BY <2>2, <2>4
<1>4. PICK g : Computed(g, H, N, V)
  <2> HIDE DEF V, H, N
  <2>1. QED  BY <1>1, <1>3, Recursion
<1> DEFINE f == [i \in 1..(N + 1) |-> g[(N + 1) - i]]
<1>5. ASSUME NEW i \in 1..(N + 1) PROVE f[i] \in V /\ f[i] = Chars(t, i, f[i + Width(t, i)])
  <2> DEFINE m == (N + 1) - i
  <2>1. m \in 0..N /\ (N + 1) - m = i /\ f[i] = g[m]
    BY <1>1
  <2> HIDE DEF m
  <2>2. g \in [0..N -> V] /\ g[m] = H[m][Before(g, m)]
    BY <1>4, <2>1 DEF Computed
  <2>3. Before(g, m) \in [0..(m - 1) -> V] /\ \A j \in 0..(m - 1) : Before(g, m)[j] = g[j]
    <3> HIDE DEF V, H, f
    <3>1. \A j \in 0..(m - 1) : j \in 0..N
      BY <1>1, <2>1
    <3>2. QED  BY <2>2, <3>1 DEF Before
  <2>4. H[m][Before(g, m)] = Chars(t, i, Before(g, m)[m - w(m)])
    <3> HIDE DEF V
    <3>1. QED  BY <2>1, <2>3
  <2>5. w(m) = Width(t, i)
    BY <2>1
  <2>6. CASE i + Width(t, i) <= N
    <3>1. m - w(m) \in 0..(m - 1)
      <4> HIDE DEF w
      <4>1. QED  BY <1>2, <2>1, <2>5, <2>6
    <3>2. Before(g, m)[m - w(m)] = g[m - w(m)]
      <4> HIDE DEF w
      <4>1. QED  BY <2>3, <3>1
    <3>3. i + Width(t, i) \in 1..(N + 1) /\ (N + 1) - (i + Width(t, i)) = m - w(m)
      <4>1. Width(t, i) \in {1, 2, 6}
        BY WidthIs
      <4> HIDE DEF w, N
      <4>2. QED  BY <1>1, <2>1, <2>5, <2>6, <4>1
    <3>4. f[i + Width(t, i)] = g[m - w(m)]
      <4> HIDE DEF w
      <4>1. QED  BY <3>3
    <3> HIDE DEF f, w, H, V
    <3>5. QED  BY <2>1, <2>2, <2>4, <3>2, <3>4
  <2>7. CASE ~(i + Width(t, i) <= N)
    <3>1. i + Width(t, i) > Len(t)
      <4>1. Width(t, i) \in {1, 2, 6}
        BY WidthIs
      <4>2. QED  BY <1>1, <2>7, <4>1
    <3>2. \A x, y : Chars(t, i, x) = Chars(t, i, y)
      BY <3>1 DEF Chars
    <3> HIDE DEF f, w, H, V
    <3>3. QED  BY <2>1, <2>2, <2>4, <3>2
  <2>8. QED  BY <2>6, <2>7
<1>6. f \in [1..(Len(t) + 1) -> V]
  <2> HIDE DEF V
  <2>1. \A i \in 1..(N + 1) : g[(N + 1) - i] \in V
    BY <1>5
  <2>2. QED  BY <2>1
<1>7. IsRead(f, t)
  <2>1. f = [i \in 1..(N + 1) |-> f[i]]
    OBVIOUS
  <2> HIDE DEF f, V
  <2>2. QED  BY <1>5, <2>1 DEF IsRead
<1>8. QED  BY <1>6, <1>7

Reads(f, t, C, max) ==
  /\ f \in [1..(Len(t) + 1) -> Seq(C \cup {"bad"})]
  /\ \A i \in 1..(Len(t) + 1) : f[i] = Chars(t, i, f[i + Width(t, i)])
  /\ Unquoted(t, max) = IF Contains(f[1], "bad") \/ Len(f[1]) > max THEN Bad
                        ELSE [bytes |-> f[1]]

LEMMA UnquotedIs ==
  ASSUME NEW C, NEW t \in Seq(C), NEW max
  PROVE  \E f : Reads(f, t, C, max)
<1> DEFINE D == Seq(C \cup {"bad"})
           h == CHOOSE f : IsRead(f, t)
<1>1. IsRead(h, t)
  <2>1. \E f : IsRead(f, t)
    BY ReadExists
  <2>2. QED  BY <2>1
<1>3. Len(t) \in Nat
  OBVIOUS
<1>4. \A i \in 1..(Len(t) + 1) : h[i] = Chars(t, i, h[i + Width(t, i)])
  <2> HIDE DEF h
  <2>1. QED  BY <1>1 DEF IsRead
<1>5. \A i \in 1..(Len(t) + 1) : h[i] \in D
  <2> DEFINE T == {i \in 1..(Len(t) + 1) : \A j \in i..(Len(t) + 1) : h[j] \in D}
             n == Len(t) + 1
  <2> HIDE DEF h, D
  <2>1. n \in Int /\ n >= 1
    BY <1>3
  <2>2. ASSUME NEW i \in 1..n, \A j \in (i + 1)..n : h[j] \in D PROVE h[i] \in D
    <3>1. i \in 1..(Len(t) + 1)
      OBVIOUS
    <3>2. i + Width(t, i) <= Len(t) => i + Width(t, i) \in (i + 1)..n
      <4>1. Width(t, i) \in {1, 2, 6}
        BY WidthIs
      <4>2. QED  BY <1>3, <4>1
    <3>3. i + Width(t, i) <= Len(t) => h[i + Width(t, i)] \in D
      BY <2>2, <3>2
    <3> DEFINE rest == h[i + Width(t, i)]
    <3>4. i + Width(t, i) <= Len(t) => rest \in Seq(C \cup {"bad"})
      BY <3>3 DEF D
    <3> HIDE DEF rest
    <3>5. Chars(t, i, rest) \in Seq(C \cup {"bad"})
      BY <3>1, <3>4, CharsIs
    <3>6. QED  BY <1>4, <3>1, <3>5 DEF D, rest
  <2>3. n \in T
    <3>1. \A j \in (n + 1)..n : h[j] \in D
      BY <2>1
    <3>2. n \in 1..n
      BY <2>1
    <3>3. h[n] \in D
      BY <2>2, <3>1, <3>2
    <3>4. \A j \in n..n : j = n
      BY <2>1
    <3>5. QED  BY <3>2, <3>3, <3>4
  <2>4. ASSUME NEW k \in 1..n, k \in T, k > 1 PROVE k - 1 \in T
    <3>1. k - 1 \in 1..n /\ (k - 1) + 1 = k
      BY <2>1, <2>4
    <3>2. h[k - 1] \in D
      BY <2>2, <2>4, <3>1
    <3>3. \A j \in (k - 1)..n : j = k - 1 \/ j \in k..n
      BY <2>1, <2>4
    <3>4. QED  BY <2>4, <3>1, <3>2, <3>3
  <2> HIDE DEF T, n
  <2>5. 1..n \subseteq T
    BY <2>1, <2>3, <2>4, Downward
  <2>6. 1 \in T /\ 1 \in 1..n
    BY <2>1, <2>5
  <2>7. QED  BY <2>6 DEF T, n
<1>6. h \in [1..(Len(t) + 1) -> D]
  <2> HIDE DEF h, D
  <2>1. h = [i \in 1..(Len(t) + 1) |-> Chars(t, i, h[i + Width(t, i)])]
    BY <1>1 DEF IsRead
  <2>2. QED  BY <1>4, <1>5, <2>1
<1>7. Unquoted(t, max) = IF Contains(h[1], "bad") \/ Len(h[1]) > max THEN Bad
                         ELSE [bytes |-> h[1]]
  BY DEF Unquoted, IsRead, Chars
<1> HIDE DEF h
<1>8. Reads(h, t, C, max)
  BY <1>4, <1>6, <1>7 DEF Reads
<1>9. QED  BY <1>8

\* A string that is read is one of characters, and no longer than fits.
LEMMA UnquotedIsString ==
  ASSUME NEW C, "bad" \notin C, NEW t \in Seq(C), NEW max \in Nat
  PROVE  \/ Unquoted(t, max) = Bad
         \/ \E s \in Seq(C) : Unquoted(t, max) = [bytes |-> s] /\ Len(s) <= max
<1>1. PICK f : Reads(f, t, C, max)
  BY UnquotedIs
<1>2. 1 \in 1..(Len(t) + 1)
  OBVIOUS
<1> DEFINE s == f[1]
<1>3. s \in Seq(C \cup {"bad"})
  BY <1>1, <1>2 DEF Reads
<1> HIDE DEF s
<1>4. ASSUME ~Contains(s, "bad"), ~(Len(s) > max) PROVE s \in Seq(C) /\ Len(s) <= max
  <2>1. \A i \in 1..Len(s) : s[i] # "bad"
    BY <1>4 DEF Contains
  <2>2. \A i \in 1..Len(s) : s[i] \in C
    BY <1>3, <2>1
  <2>3. Len(s) \in Nat /\ s = [i \in 1..Len(s) |-> s[i]]
    BY <1>3
  <2>4. s \in [1..Len(s) -> C]
    BY <2>2, <2>3
  <2>5. QED  BY <1>4, <2>3, <2>4
<1>5. Unquoted(t, max) = IF Contains(s, "bad") \/ Len(s) > max THEN Bad ELSE [bytes |-> s]
  BY <1>1 DEF Reads, s
<1>6. CASE Contains(s, "bad") \/ Len(s) > max
  BY <1>5, <1>6
<1>7. CASE ~(Contains(s, "bad") \/ Len(s) > max)
  <2>1. s \in Seq(C) /\ Len(s) <= max
    BY <1>4, <1>7
  <2>2. QED  BY <1>5, <1>7, <2>1
<1>8. QED  BY <1>6, <1>7

\* The characters of a text.
Marks(C) == C \cup {"\\", "u", "0", "h", Quote}

\* What a character looks like in a text.
Writes(e, c, S) ==
  /\ e \in Seq(S) /\ Len(e) \in {1, 2, 6} /\ e[Len(e)] = c
  /\ Len(e) = 1 => c # "\\" /\ c # Quote
  /\ Len(e) = 2 => e[1] = "\\" /\ c \in {Quote, "\\"}
  /\ Len(e) = 6 => e[1] = "\\" /\ e[2] = "u"

LEMMA EscapeIs ==
  ASSUME NEW C, NEW c \in C
  PROVE  Writes(Escape(c), c, Marks(C))
<1> DEFINE S == Marks(C)
<1>1. c \in S /\ "\\" \in S /\ "u" \in S /\ "0" \in S /\ "h" \in S
  BY DEF Marks
<1>2. Quote # "\\" /\ Control # Quote /\ Control # "\\"
  BY DEF Quote, Control
<1> HIDE DEF S
<1>3. CASE c \in {Quote, "\\"}
  <2> DEFINE e == <<"\\", c>>
  <2>1. Escape(c) = e
    BY <1>2, <1>3 DEF Escape
  <2>2. e \in Seq(S) /\ Len(e) = 2 /\ e[1] = "\\" /\ e[2] = c
    BY <1>1
  <2> HIDE DEF e
  <2>3. Writes(e, c, S)
    BY <1>3, <2>2 DEF Writes
  <2>4. QED  BY <2>1, <2>3 DEF S
<1>4. CASE c \notin {Quote, "\\"} /\ c = Control
  <2> DEFINE e == <<"\\", "u", "0", "0", "h", c>>
  <2>1. Escape(c) = e
    BY <1>2, <1>4 DEF Escape
  <2>2. e \in Seq(S)
    BY <1>1
  <2>3. Len(e) = 6 /\ e[1] = "\\" /\ e[2] = "u" /\ e[6] = c
    OBVIOUS
  <2> HIDE DEF e
  <2>4. Writes(e, c, S)
    BY <2>2, <2>3 DEF Writes
  <2>5. QED  BY <2>1, <2>4 DEF S
<1>5. CASE c \notin {Quote, "\\"} /\ c # Control
  <2> DEFINE e == <<c>>
  <2>1. Escape(c) = e
    BY <1>5 DEF Escape
  <2>2. e \in Seq(S) /\ Len(e) = 1 /\ e[1] = c
    BY <1>1
  <2> HIDE DEF e
  <2>3. Writes(e, c, S)
    BY <1>5, <2>2 DEF Writes
  <2>4. QED  BY <2>1, <2>3 DEF S
<1>6. QED  BY <1>3, <1>4, <1>5

\* Where the characters of s lie in what is written of it.
Spread(off, s, C) ==
  LET n == Len(s)
      t == Quoted(s)
  IN /\ off \in [0..n -> Nat] /\ off[0] = 0
     /\ \A i \in 1..n : off[i] = off[i - 1] + Len(Escape(s[i]))
     /\ t \in Seq(Marks(C)) /\ Len(t) = off[n] + 1 /\ t[off[n] + 1] = Quote
     /\ \A i \in 1..n : \A k \in 1..Len(Escape(s[i])) : t[off[i - 1] + k] = Escape(s[i])[k]

LEMMA QuotedIs ==
  ASSUME NEW C, NEW s \in Seq(C), s # <<>>
  PROVE  \E off : Spread(off, s, C)
<1> DEFINE n == Len(s)
           ss == [i \in 1..n |-> Escape(s[i])]
           S == Marks(C)
<1>1. n \in Nat /\ n >= 1 /\ \A i \in 1..n : s[i] \in C
  OBVIOUS
<1>2. \A i \in 1..n : Escape(s[i]) \in Seq(S) /\ Len(Escape(s[i])) \in {1, 2, 6}
  BY <1>1, EscapeIs DEF Writes
<1> HIDE DEF n, S
<1>3. ss \in [1..n -> Seq(S)] /\ \A i \in 1..n : ss[i] = Escape(s[i])
  BY <1>2
<1>4. Quoted(s) = FlattenSeq(ss) \o <<Quote>>
  BY DEF Quoted, n
<1> HIDE DEF ss
<1>5. PICK off : LiesAt(off, ss, n, S)
  BY <1>1, <1>3, Lies
<1> DEFINE a == FlattenSeq(ss)
           b == <<Quote>>
<1>6. /\ off \in [0..n -> Nat] /\ off[0] = 0
      /\ \A i \in 1..n : off[i] = off[i - 1] + Len(ss[i])
      /\ a \in Seq(S) /\ Len(a) = off[n]
      /\ \A i \in 1..n : \A k \in 1..Len(ss[i]) : a[off[i - 1] + k] = ss[i][k]
  BY <1>5 DEF LiesAt
<1>7. b \in Seq(S) /\ Len(b) = 1 /\ b[1] = Quote
  <2>1. Quote \in S
    BY DEF S, Marks
  <2>2. QED  BY <2>1
<1> HIDE DEF a, b
<1>8. /\ a \o b \in Seq(S) /\ Len(a \o b) = Len(a) + Len(b) /\ Len(a) \in Nat
      /\ \A k \in 1..Len(a) : (a \o b)[k] = a[k]
      /\ \A k \in 1..Len(b) : (a \o b)[Len(a) + k] = b[k]
  <2>1. a \in Seq(S) /\ b \in Seq(S)
    BY <1>6, <1>7
  <2>2. QED  BY <2>1, ConcatIs
<1>9. /\ Len(a \o b) = off[n] + 1 /\ (a \o b)[off[n] + 1] = Quote
  <2>1. 1 \in 1..Len(b)
    BY <1>7
  <2>2. QED  BY <1>6, <1>7, <1>8, <2>1
<1>10. \A i \in 0..n : off[i] <= off[n]
  <2> DEFINE T == {i \in 0..n : off[i] <= off[n]}
  <2>1. n \in T /\ n \in Int /\ 0 \in Int /\ 0 <= n
    BY <1>1, <1>6
  <2>2. ASSUME NEW k \in 0..n, k \in T, k > 0 PROVE k - 1 \in T
    <3>1. k \in 1..n /\ k - 1 \in 0..n
      BY <1>1, <2>2
    <3>2. off[k] = off[k - 1] + Len(ss[k]) /\ Len(ss[k]) \in {1, 2, 6} /\ off[k - 1] \in Nat
          /\ off[k] <= off[n] /\ off[n] \in Nat
      BY <1>1, <1>2, <1>3, <1>6, <2>2, <3>1
    <3>3. off[k - 1] <= off[n]
      BY <3>2
    <3>4. QED  BY <3>1, <3>3
  <2> HIDE DEF T
  <2>3. 0..n \subseteq T
    BY <2>1, <2>2, Downward
  <2>4. QED  BY <2>3 DEF T
<1>11. ASSUME NEW i \in 1..n, NEW k \in 1..Len(Escape(s[i]))
       PROVE  (a \o b)[off[i - 1] + k] = Escape(s[i])[k]
  <2>0. i \in 0..n /\ i - 1 \in 0..n
    BY <1>1
  <2>1. ss[i] = Escape(s[i]) /\ off[i] = off[i - 1] + Len(ss[i])
    BY <1>3, <1>6
  <2>2. off[i] <= off[n] /\ off[i - 1] \in Nat /\ off[i] \in Nat /\ off[n] \in Nat /\ Len(ss[i]) \in {1, 2, 6}
    BY <1>1, <1>2, <1>3, <1>6, <1>10, <2>0, <2>1
  <2>3. k \in 1..Len(ss[i]) /\ off[i - 1] + k \in 1..Len(a)
    BY <1>6, <2>1, <2>2
  <2>4. (a \o b)[off[i - 1] + k] = a[off[i - 1] + k] /\ a[off[i - 1] + k] = ss[i][k]
    BY <1>6, <1>8, <2>3
  <2>5. QED  BY <2>1, <2>4
<1>12. Quoted(s) = a \o b
  BY <1>4 DEF a, b
<1>13. \A i \in 1..n : off[i] = off[i - 1] + Len(Escape(s[i]))
  BY <1>3, <1>6
<1>14. Spread(off, s, C)
  BY <1>6, <1>8, <1>9, <1>11, <1>12, <1>13 DEF Spread, n, S
<1>15. QED  BY <1>14

LEMMA SubSeqHead ==
  ASSUME NEW C, NEW s \in Seq(C), NEW k \in 1..Len(s)
  PROVE  <<s[k]>> \o SubSeq(s, k + 1, Len(s)) = SubSeq(s, k, Len(s))
<1> DEFINE n == Len(s)
           a == <<s[k]>>
           b == SubSeq(s, k + 1, n)
           d == SubSeq(s, k, n)
<1>1. n \in Nat /\ s[k] \in C /\ k \in 1..n
  OBVIOUS
<1>2. a \in Seq(C) /\ Len(a) = 1 /\ a[1] = s[k]
  BY <1>1
<1>3. b \in Seq(C) /\ Len(b) = n - k /\ \A i \in 1..(n - k) : b[i] = s[k + i]
  <2>1. b \in Seq(C) /\ Len(b) = n - k
    BY <1>1
  <2>2. \A i \in 1..(n - k) : b[i] = s[k + i]
    BY <1>1
  <2>3. QED  BY <2>1, <2>2
<1>4. d \in Seq(C) /\ Len(d) = (n - k) + 1 /\ \A i \in 1..((n - k) + 1) : d[i] = s[(k + i) - 1]
  <2>1. d \in Seq(C) /\ Len(d) = (n - k) + 1
    BY <1>1
  <2>2. \A i \in 1..((n - k) + 1) : d[i] = s[(k + i) - 1]
    BY <1>1
  <2>3. QED  BY <2>1, <2>2
<1> HIDE DEF n, a, b, d
<1>5. /\ a \o b \in Seq(C) /\ Len(a \o b) = Len(a) + Len(b)
      /\ \A i \in 1..Len(a) : (a \o b)[i] = a[i]
      /\ \A i \in 1..Len(b) : (a \o b)[Len(a) + i] = b[i]
  <2>1. a \in Seq(C) /\ b \in Seq(C)
    BY <1>2, <1>3
  <2>2. QED  BY <2>1, ConcatIs
<1>6. ASSUME NEW i \in 1..((n - k) + 1) PROVE (a \o b)[i] = d[i]
  <2>1. CASE i = 1
    <3>1. 1 \in 1..Len(a) /\ (k + 1) - 1 = k
      BY <1>1, <1>2
    <3>2. d[1] = s[k]
      BY <1>4, <2>1, <3>1
    <3>3. QED  BY <1>2, <1>5, <2>1, <3>1, <3>2
  <2>2. CASE i # 1
    <3>1. i - 1 \in 1..(n - k) /\ 1 + (i - 1) = i /\ k + (i - 1) = (k + i) - 1
      BY <1>1, <2>2
    <3>2. (a \o b)[1 + (i - 1)] = b[i - 1] /\ b[i - 1] = s[k + (i - 1)]
      BY <1>2, <1>3, <1>5, <3>1
    <3>3. QED  BY <1>4, <3>1, <3>2
  <2>3. QED  BY <2>1, <2>2
<1>7. Len(a \o b) = (n - k) + 1
  BY <1>1, <1>2, <1>3, <1>5
<1>8. a \o b = d
  <2> DEFINE e == a \o b
             m == (n - k) + 1
  <2>1. /\ e \in Seq(C) /\ Len(e) = m /\ d \in Seq(C) /\ Len(d) = m
        /\ \A i \in 1..m : e[i] = d[i]
    BY <1>4, <1>5, <1>6, <1>7
  <2> HIDE DEF e, m
  <2>2. e = [i \in 1..m |-> e[i]] /\ d = [i \in 1..m |-> d[i]]
    BY <2>1
  <2>3. e = d
    BY <2>1, <2>2
  <2>4. QED  BY <2>3 DEF e
<1>9. QED  BY <1>8 DEF a, b, d, n

\* Of the character at off[k - 1] + 1, one is read and the rest from off[k] + 1 on.
OneRead(s, off, k) ==
  \A i, rest : i = off[k - 1] + 1 =>
    /\ i + Width(Quoted(s), i) = off[k] + 1
    /\ Chars(Quoted(s), i, rest) = <<s[k]>> \o rest

LEMMA CharRead ==
  ASSUME NEW C, NEW s \in Seq(C), NEW off, Spread(off, s, C), NEW k \in 1..Len(s),
         off[k] <= off[Len(s)]
  PROVE  OneRead(s, off, k)
<1> SUFFICES ASSUME NEW rest, NEW i, i = off[k - 1] + 1
             PROVE  /\ i + Width(Quoted(s), i) = off[k] + 1
                    /\ Chars(Quoted(s), i, rest) = <<s[k]>> \o rest
  BY DEF OneRead
<1> DEFINE t == Quoted(s)
           n == Len(s)
           c == s[k]
           e == Escape(c)
           L == Len(e)
<1>1. n \in Nat /\ k \in 0..n /\ k - 1 \in 0..n /\ n \in 0..n /\ c \in C
  OBVIOUS
<1>2. /\ off[k - 1] \in Nat /\ off[k] \in Nat /\ off[n] \in Nat /\ off[k] = off[k - 1] + L
      /\ Len(t) = off[n] + 1
      /\ \A j \in 1..L : t[off[k - 1] + j] = e[j]
  BY <1>1 DEF Spread
<1>3. /\ L \in {1, 2, 6} /\ e[L] = c
      /\ L = 1 => c # "\\" /\ c # Quote
      /\ L = 2 => e[1] = "\\" /\ c \in {Quote, "\\"}
      /\ L = 6 => e[1] = "\\" /\ e[2] = "u"
  BY <1>1, EscapeIs DEF Writes
<1>4. off[k] <= off[n]
  OBVIOUS
<1> HIDE DEF t, n, c, e, L
<1>5. i \in Nat /\ i + L = off[k] + 1 /\ i + L <= Len(t) /\ i <= Len(t) /\ i < Len(t)
  <2> DEFINE x == off[k - 1]
             y == off[k]
             z == off[n]
             l == Len(t)
  <2>1. i = x + 1 /\ x \in Nat /\ y \in Nat /\ z \in Nat /\ y = x + L /\ l = z + 1 /\ y <= z /\ L \in {1, 2, 6}
    BY <1>2, <1>3, <1>4
  <2> HIDE DEF x, y, z, l
  <2>2. i \in Nat /\ i + L = y + 1 /\ i + L <= l /\ i <= l /\ i < l
    BY <2>1
  <2>3. QED  BY <2>2 DEF y, l
<1>6. t[i] = e[1] /\ (L # 1 => t[i + 1] = e[2]) /\ t[i + L - 1] = c
  <2>1. 1 \in 1..L /\ L \in 1..L /\ (L # 1 => 2 \in 1..L /\ off[k - 1] + 2 = i + 1)
        /\ off[k - 1] + L = i + L - 1
    BY <1>2, <1>3
  <2>2. QED  BY <1>2, <1>3, <2>1
<1>7. t[i] # Quote /\ Width(t, i) = L /\ Known(t, i)
  <2>1. CASE L = 1
    BY <1>3, <1>6, <2>1 DEF Width, Known
  <2>2. CASE L = 2
    <3>1. t[i] = "\\" /\ t[i + 1] \in {Quote, "\\"} /\ t[i + 1] # "u"
      BY <1>3, <1>6, <2>2 DEF Quote
    <3>2. QED  BY <2>2, <3>1 DEF Width, Known, Quote
  <2>3. CASE L = 6
    <3>1. t[i] = "\\" /\ t[i + 1] = "u"
      BY <1>3, <1>6, <2>3
    <3>2. QED  BY <1>5, <2>3, <3>1 DEF Width, Known, Quote
  <2>4. QED  BY <1>3, <2>1, <2>2, <2>3
<1>8. ~(i > Len(t)) /\ ~(i + L > Len(t))
  BY <1>2, <1>3, <1>5
<1>9. Chars(t, i, rest) = <<c>> \o rest
  BY <1>6, <1>7, <1>8 DEF Chars
<1>10. QED  BY <1>5, <1>7, <1>9 DEF t, c

\* A string that is written is read back, if the reader has room for it.
LEMMA ReadBack ==
  ASSUME NEW C, "bad" \notin C, NEW s \in Seq(C), s # <<>>, NEW max \in Nat, Len(s) <= max
  PROVE  Unquoted(Quoted(s), max) = [bytes |-> s]
<1> DEFINE t == Quoted(s)
           n == Len(s)
<1>1. n \in Nat /\ n >= 1
  OBVIOUS
<1>2. PICK off : Spread(off, s, C)
  BY QuotedIs
<1>3. /\ off \in [0..n -> Nat] /\ off[0] = 0
      /\ \A i \in 1..n : off[i] = off[i - 1] + Len(Escape(s[i]))
      /\ t \in Seq(Marks(C)) /\ Len(t) = off[n] + 1 /\ t[off[n] + 1] = Quote
  BY <1>2 DEF Spread
<1>20. PICK f : Reads(f, t, Marks(C), max)
  <2> HIDE DEF t
  <2>1. QED  BY <1>3, UnquotedIs
<1>4. /\ \A i \in 1..(Len(t) + 1) : f[i] = Chars(t, i, f[i + Width(t, i)])
      /\ Unquoted(t, max) = IF Contains(f[1], "bad") \/ Len(f[1]) > max THEN Bad
                            ELSE [bytes |-> f[1]]
  BY <1>20 DEF Reads
<1> HIDE DEF t, n
<1> DEFINE T == {k \in 0..n : off[k] <= off[n] /\ f[off[k] + 1] = SubSeq(s, k + 1, n)}
<1>5. n \in T
  <2>1. n \in 0..n /\ off[n] \in Nat
    BY <1>1, <1>3
  <2> DEFINE i == off[n] + 1
  <2>2. i \in 1..(Len(t) + 1) /\ i = Len(t) /\ t[i] = Quote /\ ~(i > Len(t))
    BY <1>3, <2>1
  <2>3. f[i] = Chars(t, i, f[i + Width(t, i)])
    BY <1>4, <2>2
  <2>4. f[i] = <<>>
    <3> HIDE DEF i
    <3>1. QED  BY <2>2, <2>3 DEF Chars
  <2>5. SubSeq(s, n + 1, n) = <<>>
    BY <1>1 DEF n
  <2> DEFINE S(k) == SubSeq(s, k + 1, n)
             F(k) == f[off[k] + 1]
  <2>6. F(n) = S(n) /\ off[n] <= off[n]
    BY <2>1, <2>4, <2>5
  <2> HIDE DEF S, F
  <2>7. n \in {k \in 0..n : off[k] <= off[n] /\ F(k) = S(k)}
    BY <2>1, <2>6
  <2>8. QED  BY <2>7 DEF F, S
<1>6. ASSUME NEW k \in 0..n, k \in T, k > 0 PROVE k - 1 \in T
  <2>1. k \in 1..n /\ k - 1 \in 0..n /\ (k - 1) + 1 = k
    BY <1>1, <1>6
  <2>2. off[k] <= off[n] /\ f[off[k] + 1] = SubSeq(s, k + 1, n)
    BY <1>6
  <2> DEFINE i == off[k - 1] + 1
             rest == f[off[k] + 1]
  <2>3. /\ i + Width(t, i) = off[k] + 1
        /\ Chars(t, i, rest) = <<s[k]>> \o rest
    <3>1. Spread(off, s, C) /\ k \in 1..Len(s) /\ off[k] <= off[Len(s)] /\ i = off[k - 1] + 1
      BY <1>2, <2>1, <2>2 DEF n
    <3> HIDE DEF i, rest, T
    <3>2. OneRead(s, off, k)
      BY <3>1, CharRead
    <3>3. i + Width(Quoted(s), i) = off[k] + 1 /\ Chars(Quoted(s), i, rest) = <<s[k]>> \o rest
      BY <3>1, <3>2 DEF OneRead
    <3>4. QED  BY <3>3 DEF t
  <2>4. off[k - 1] \in Nat /\ off[k] \in Nat /\ off[n] \in Nat /\ off[k - 1] <= off[k]
    <3>1. off[k - 1] \in Nat /\ off[k] \in Nat /\ off[n] \in Nat
      BY <1>1, <1>3, <2>1
    <3>2. s[k] \in C
      BY <2>1 DEF n
    <3>3. off[k] = off[k - 1] + Len(Escape(s[k])) /\ Len(Escape(s[k])) \in {1, 2, 6}
      BY <1>3, <2>1, <3>2, EscapeIs DEF Writes
    <3>4. QED  BY <3>1, <3>3
  <2>5. off[k - 1] <= off[n] /\ i \in 1..(Len(t) + 1)
    <3> DEFINE x == off[k - 1]
               y == off[k]
               z == off[n]
               l == Len(t)
    <3>1. i = x + 1 /\ x \in Nat /\ y \in Nat /\ z \in Nat /\ x <= y /\ l = z + 1 /\ y <= z
      BY <1>3, <2>2, <2>4
    <3> HIDE DEF i, x, y, z, l
    <3>2. x <= z /\ i \in 1..(l + 1)
      BY <3>1
    <3>3. QED  BY <3>2 DEF x, z, l
  <2>6. f[i] = <<s[k]>> \o SubSeq(s, k + 1, n)
    <3>1. f[i] = Chars(t, i, f[i + Width(t, i)])
      <4> HIDE DEF i
      <4>1. QED  BY <1>4, <2>5
    <3>2. QED  BY <2>2, <2>3, <3>1
  <2>7. <<s[k]>> \o SubSeq(s, k + 1, n) = SubSeq(s, k, n)
    BY <2>1, SubSeqHead DEF n
  <2> DEFINE S(j) == SubSeq(s, j + 1, n)
             F(j) == f[off[j] + 1]
             j0 == k - 1
  <2>8. F(j0) = S(j0) /\ off[j0] <= off[n] /\ j0 \in 0..n
    BY <2>1, <2>5, <2>6, <2>7
  <2> HIDE DEF S, F, j0
  <2>9. j0 \in {j \in 0..n : off[j] <= off[n] /\ F(j) = S(j)}
    BY <2>8
  <2>10. QED  BY <2>9 DEF F, S, j0
<1> HIDE DEF T
<1>7. 0..n \subseteq T
  <2>1. n \in Int /\ 0 \in Int /\ 0 <= n
    BY <1>1
  <2>2. QED  BY <1>5, <1>6, <2>1, Downward
<1>8. f[1] = SubSeq(s, 1, n)
  <2>1. 0 \in T
    BY <1>1, <1>7
  <2>2. f[off[0] + 1] = SubSeq(s, 0 + 1, n)
    BY <2>1 DEF T
  <2>3. QED  BY <1>3, <2>2
<1>9. SubSeq(s, 1, n) = s
  BY DEF n
<1>10. ~Contains(s, "bad") /\ ~(Len(s) > max)
  <2>1. \A i \in 1..Len(s) : s[i] \in C
    OBVIOUS
  <2>2. QED  BY <2>1, <1>1 DEF Contains, n
<1>11. QED  BY <1>4, <1>8, <1>9, <1>10 DEF t

-----------------------------------------------------------------------------
(* Slots: what parse_slot_object makes of the members of an object, and    *)
(* that of those serialize_blob writes it makes the slot they are of.      *)

\* r[k] is the slot read of the first k members.
ParsedAs(r, m, V) ==
  /\ r \in [0..Len(m) -> V] /\ r[0] = EmptySlot
  /\ \A k \in 1..Len(m) : r[k] = Take(r[k - 1], m[k])
  /\ ParseSlot(m) = r[Len(m)]

LEMMA ParseIs ==
  ASSUME NEW V, NEW m, Len(m) \in Nat, EmptySlot \in V,
         \A k \in 1..Len(m) : \A v \in V : Take(v, m[k]) \in V
  PROVE  \E r : ParsedAs(r, m, V)
<1> DEFINE N == Len(m)
           Val(k, last) == IF k = 0 THEN EmptySlot ELSE Take(last, m[k])
           H == [k \in 0..N |-> [g \in [0..(k - 1) -> V] |-> Val(k, g[k - 1])]]
           Is(r) == r = [k \in 0..N |-> Val(k, r[k - 1])]
           read == CHOOSE r : Is(r)
<1>0. N \in Nat
  OBVIOUS
<1>1. ASSUME NEW k \in 0..N, NEW last, k # 0 => last \in V PROVE Val(k, last) \in V
  <2>1. k # 0 => k \in 1..Len(m)
    BY <1>0
  <2>2. QED  BY <1>1, <2>1
<1> HIDE DEF N
<1>2. Computes(H, N, V)
  <2>1. SUFFICES ASSUME NEW k \in 0..N, NEW g \in [0..(k - 1) -> V] PROVE H[k][g] \in V
    BY DEF Computes
  <2>2. H[k][g] = Val(k, g[k - 1])
    <3> HIDE DEF Val
    <3>1. QED  OBVIOUS
  <2>3. k # 0 => k - 1 \in 0..(k - 1)
    BY <1>0
  <2>4. k # 0 => g[k - 1] \in V
    BY <2>3
  <2> HIDE DEF Val, H
  <2>5. QED  BY <1>1, <2>2, <2>4
<1>3. PICK f : Computed(f, H, N, V)
  <2> HIDE DEF H
  <2>2. QED  BY <1>0, <1>2, Recursion
<1>4. ASSUME NEW k \in 0..N PROVE f[k] \in V /\ f[k] = Val(k, f[k - 1])
  <2>1. f \in [0..N -> V] /\ f[k] = H[k][Before(f, k)]
    BY <1>3 DEF Computed
  <2>2. Before(f, k) \in [0..(k - 1) -> V] /\ \A j \in 0..(k - 1) : Before(f, k)[j] = f[j]
    <3> HIDE DEF H
    <3>1. Before(f, k) \in [0..(k - 1) -> V]
      BY <1>0, <2>1, BeforeIs
    <3>2. QED  BY <3>1 DEF Before
  <2>3. H[k][Before(f, k)] = Val(k, Before(f, k)[k - 1])
    <3> HIDE DEF Val
    <3>1. QED  BY <2>2
  <2>4. k # 0 => Before(f, k)[k - 1] = f[k - 1]
    <3>1. k # 0 => k - 1 \in 0..(k - 1)
      BY <1>0
    <3>2. QED  BY <2>2, <3>1
  <2>5. Val(k, Before(f, k)[k - 1]) = Val(k, f[k - 1])
    BY <2>4
  <2> HIDE DEF Val, H
  <2>6. QED  BY <2>1, <2>3, <2>5
<1>5. f = [k \in 0..N |-> f[k]]
  <2> HIDE DEF H
  <2>1. f \in [0..N -> V]
    BY <1>3 DEF Computed
  <2>2. QED  BY <2>1
<1>6. Is(f)
  <2> HIDE DEF Val, H
  <2>1. QED  BY <1>4, <1>5
<1>7. Is(read)
  <2> HIDE DEF Is, H
  <2>1. QED  BY <1>6
<1> HIDE DEF read
<1>8. ASSUME NEW k \in 0..N PROVE read[k] = Val(k, read[k - 1])
  <2> HIDE DEF Val
  <2>1. QED  BY <1>7
<1>9. \A k \in 0..N : read[k] \in V
  <2> DEFINE T == {k \in Nat : k \in 0..N => read[k] \in V}
  <2> HIDE DEF H
  <2>1. 0 \in T
    <3>1. 0 \in 0..N
      BY <1>0
    <3> HIDE DEF Val
    <3>2. QED  BY <1>1, <1>8, <3>1
  <2>2. ASSUME NEW k \in Nat, k \in T PROVE k + 1 \in T
    <3>1. SUFFICES ASSUME k + 1 \in 0..N PROVE read[k + 1] \in V
      OBVIOUS
    <3>2. k \in 0..N /\ (k + 1) - 1 = k
      BY <1>0, <3>1
    <3>3. read[k] \in V
      BY <2>2, <3>2
    <3> HIDE DEF Val
    <3>4. QED  BY <1>1, <1>8, <3>1, <3>2, <3>3
  <2> HIDE DEF T
  <2>3. Nat \subseteq T
    BY <2>1, <2>2, Inductive
  <2>4. QED  BY <2>3 DEF T
<1>10. read \in [0..N -> V]
  <2>1. read = [k \in 0..N |-> Val(k, read[k - 1])]
    BY <1>7
  <2> HIDE DEF Val, H
  <2>2. QED  BY <1>8, <1>9, <2>1
<1>11. read[0] = EmptySlot /\ \A k \in 1..N : read[k] = Take(read[k - 1], m[k])
  <2>1. 0 \in 0..N /\ \A k \in 1..N : k \in 0..N /\ k # 0
    BY <1>0
  <2>2. QED  BY <1>8, <2>1
<1>12. ParseSlot(m) = read[N]
  BY DEF ParseSlot, read, N
<1>13. ParsedAs(read, m, V)
  BY <1>10, <1>11, <1>12 DEF ParsedAs, N
<1>14. QED  BY <1>13

\* What a field may hold.
FieldOf(f, w) ==
  /\ f = "days" => w \subseteq Days
  /\ f \in Flags => w \in {0, 1}
  /\ f \in DOMAIN Top => w \in 0..Top[f]
  /\ f \in Strings => w \in Seq(Char) /\ Len(w) <= Length[f]

LEMMA Fields ==
  /\ DOMAIN EmptySlot = {"arm", "repeat", "retain", "qos", "window", "minute", "days", "topic", "payload", "label"}
  /\ DOMAIN Top = {"qos", "window", "minute"}
  /\ Top["qos"] = 1 /\ Top["window"] = WindowMax /\ Top["minute"] = MinuteMax
  /\ Flags = {"arm", "repeat", "retain"} /\ Strings = {"topic", "payload", "label"}
  /\ \A f \in Flags \cup DOMAIN Top : EmptySlot[f] = 0
  /\ EmptySlot["days"] = {} /\ \A f \in Strings : EmptySlot[f] = <<>>
  /\ "bad" \notin DOMAIN EmptySlot
BY DEF EmptySlot, Top, Flags, Strings

LEMMA SlotIs ==
  ASSUME NEW s
  PROVE  SlotOf(s) <=> /\ s = [f \in DOMAIN EmptySlot |-> s[f]]
                          /\ \A f \in DOMAIN EmptySlot : FieldOf(f, s[f])
<1>1. Flags \subseteq DOMAIN EmptySlot /\ DOMAIN Top \subseteq DOMAIN EmptySlot
      /\ Strings \subseteq DOMAIN EmptySlot /\ "days" \in DOMAIN EmptySlot
  BY Fields
<1>2. ASSUME SlotOf(s), NEW f \in DOMAIN EmptySlot PROVE FieldOf(f, s[f])
  BY <1>2 DEF SlotOf, FieldOf
<1>3. ASSUME s = [f \in DOMAIN EmptySlot |-> s[f]], \A f \in DOMAIN EmptySlot : FieldOf(f, s[f])
      PROVE  SlotOf(s)
  <2>1. s.days \subseteq Days
    BY <1>1, <1>3 DEF FieldOf
  <2>2. \A f \in Flags : s[f] \in {0, 1}
    BY <1>1, <1>3 DEF FieldOf
  <2>3. \A f \in DOMAIN Top : s[f] \in 0..Top[f]
    BY <1>1, <1>3 DEF FieldOf
  <2>4. \A f \in Strings : s[f] \in Seq(Char) /\ Len(s[f]) <= Length[f]
    BY <1>1, <1>3 DEF FieldOf
  <2>5. QED  BY <1>3, <2>1, <2>2, <2>3, <2>4 DEF SlotOf
<1>4. SlotOf(s) => s = [f \in DOMAIN EmptySlot |-> s[f]]
  BY DEF SlotOf
<1>5. QED  BY <1>2, <1>3, <1>4

LEMMA PutField ==
  ASSUME NEW s, SlotOf(s), NEW k \in DOMAIN EmptySlot, NEW w, FieldOf(k, w)
  PROVE  SlotOf([s EXCEPT ![k] = w])
<1> DEFINE D == DOMAIN EmptySlot
           e == [s EXCEPT ![k] = w]
<1>1. s = [f \in D |-> s[f]] /\ \A f \in D : FieldOf(f, s[f])
  BY SlotIs
<1> HIDE DEF D
<1>2. k \in D
  BY DEF D
<1>3. e = [f \in D |-> e[f]] /\ e[k] = w /\ \A f \in D : f # k => e[f] = s[f]
  BY <1>1, <1>2
<1> HIDE DEF e
<1>4. \A f \in D : FieldOf(f, e[f])
  BY <1>1, <1>3
<1>5. SlotOf(e)
  BY <1>3, <1>4, SlotIs DEF D
<1>6. QED  BY <1>5 DEF e

LEMMA EmptyIsSlot ==
  ASSUME BlobAssumption
  PROVE  SlotOf(EmptySlot)
<1>1. WindowMax \in Nat /\ MinuteMax \in Nat /\ \A f \in Strings : Length[f] \in Nat
  BY DEF BlobAssumption
<1>2. \A f \in DOMAIN Top : EmptySlot[f] \in 0..Top[f]
  BY <1>1, Fields
<1>3. <<>> \in Seq(Char) /\ Len(<<>>) = 0
  OBVIOUS
<1>4. ASSUME NEW f \in Strings PROVE EmptySlot[f] \in Seq(Char) /\ Len(EmptySlot[f]) <= Length[f]
  <2> DEFINE l == Length[f]
  <2>1. EmptySlot[f] = <<>> /\ l \in Nat
    BY <1>1, Fields
  <2> HIDE DEF l
  <2>2. <<>> \in Seq(Char) /\ Len(<<>>) <= l
    BY <1>3, <2>1
  <2>3. QED  BY <2>1, <2>2 DEF l
<1>5. EmptySlot = [f \in DOMAIN EmptySlot |-> EmptySlot[f]]
  BY DEF EmptySlot
<1>6. EmptySlot.days \subseteq Days
  BY Fields
<1>7. \A f \in Flags : EmptySlot[f] \in {0, 1}
  BY Fields
<1>8. QED  BY <1>2, <1>4, <1>5, <1>6, <1>7 DEF SlotOf

\* One member of a body leaves a slot, or none at all.
LEMMA TakeKeeps ==
  ASSUME BlobAssumption, NEW v, v = Bad \/ SlotOf(v), NEW m,
         m.key \in Strings => m.value \in Seq(Char), m.key = "days" => m.value \subseteq Days
  PROVE  Take(v, m) = Bad \/ SlotOf(Take(v, m))
<1> DEFINE k == m.key
           w == m.value
<1>1. "bad" \notin Char /\ \A f \in Strings : Length[f] \in Nat
  BY DEF BlobAssumption
<1>2. CASE v = Bad
  BY <1>2 DEF Take
<1>3. CASE v # Bad /\ k \in Strings
  <2>1. SlotOf(v) /\ k \in DOMAIN EmptySlot /\ Length[k] \in Nat /\ w \in Seq(Char)
    BY <1>1, <1>3, Fields
  <2> DEFINE u == Unquoted(w, Length[k])
  <2>2. u = Bad \/ \E x \in Seq(Char) : u = [bytes |-> x] /\ Len(x) <= Length[k]
    <3> DEFINE x == w
               l == Length[k]
    <3>1. x \in Seq(Char) /\ l \in Nat
      BY <2>1
    <3> HIDE DEF x, l
    <3>2. Unquoted(x, l) = Bad \/ \E y \in Seq(Char) : Unquoted(x, l) = [bytes |-> y] /\ Len(y) <= l
      BY <1>1, <3>1, UnquotedIsString
    <3>3. QED  BY <3>2 DEF x, l
  <2>3. Take(v, m) = IF u = Bad THEN Bad ELSE [v EXCEPT ![k] = u.bytes]
    BY <1>3 DEF Take
  <2> HIDE DEF u
  <2>4. CASE u = Bad
    BY <2>3, <2>4
  <2>5. CASE u # Bad
    <3>1. PICK x \in Seq(Char) : u = [bytes |-> x] /\ Len(x) <= Length[k]
      BY <2>2, <2>5
    <3>2. u.bytes = x
      BY <3>1
    <3>3. FieldOf(k, x)
      BY <1>3, <3>1, Fields DEF FieldOf
    <3>4. SlotOf([v EXCEPT ![k] = x])
      <4> HIDE DEF k
      <4>1. QED  BY <2>1, <3>3, PutField
    <3>5. QED  BY <2>3, <2>5, <3>2, <3>4
  <2>6. QED  BY <2>4, <2>5
<1>4. CASE v # Bad /\ k \in DOMAIN Top
  <2>1. SlotOf(v) /\ k \in DOMAIN EmptySlot /\ k \notin Strings
    BY <1>4, Fields
  <2>2. Take(v, m) = IF w \in 0..Top[k] THEN [v EXCEPT ![k] = w] ELSE Bad
    BY <1>4, <2>1 DEF Take
  <2>3. CASE w \in 0..Top[k]
    <3>1. FieldOf(k, w)
      BY <1>4, <2>3, Fields DEF FieldOf
    <3>2. SlotOf([v EXCEPT ![k] = w])
      <4> HIDE DEF k, w
      <4>1. QED  BY <2>1, <3>1, PutField
    <3>3. QED  BY <2>2, <2>3, <3>2
  <2>4. QED  BY <2>2, <2>3
<1>5. CASE v # Bad /\ k \in Flags
  <2> DEFINE b == IF w = 0 THEN 0 ELSE 1
  <2>1. SlotOf(v) /\ k \in DOMAIN EmptySlot /\ k \notin Strings /\ k \notin DOMAIN Top
    BY <1>5, Fields
  <2>2. Take(v, m) = [v EXCEPT ![k] = b]
    BY <1>5, <2>1 DEF Take
  <2>3. FieldOf(k, b)
    BY <1>5, Fields DEF FieldOf
  <2>4. SlotOf([v EXCEPT ![k] = b])
    <3> HIDE DEF k, b
    <3>1. QED  BY <2>1, <2>3, PutField
  <2>5. QED  BY <2>2, <2>4
<1>6. CASE v # Bad /\ k = "days"
  <2>1. SlotOf(v) /\ k \in DOMAIN EmptySlot /\ k \notin Strings /\ k \notin DOMAIN Top /\ k \notin Flags
    BY <1>6, Fields
  <2>2. Take(v, m) = [v EXCEPT ![k] = w]
    BY <1>6, <2>1 DEF Take
  <2>3. FieldOf(k, w)
    BY <1>6, Fields DEF FieldOf
  <2>4. SlotOf([v EXCEPT ![k] = w])
    <3> HIDE DEF k, w
    <3>1. QED  BY <2>1, <2>3, PutField
  <2>5. QED  BY <2>2, <2>4
<1>7. CASE v # Bad /\ k \notin Strings /\ k \notin DOMAIN Top /\ k \notin Flags /\ k # "days"
  <2>1. Take(v, m) = v
    BY <1>7 DEF Take
  <2>2. QED  BY <1>7, <2>1
<1>8. QED  BY <1>2, <1>3, <1>4, <1>5, <1>6, <1>7

\* A body makes a slot, or none at all.
LEMMA BodyParses ==
  ASSUME BlobAssumption, NEW m, MembersOf(m)
  PROVE  ParseSlot(m) = Bad \/ SlotOf(ParseSlot(m))
<1> DEFINE W == {0, 1} \cup 0..WindowMax \cup 0..MinuteMax \cup Seq(Char) \cup SUBSET Days
           V == {Bad} \cup {s \in [DOMAIN EmptySlot -> W] : SlotOf(s)}
<1>1. ASSUME NEW s PROVE s \in V <=> s = Bad \/ SlotOf(s)
  <2>1. ASSUME SlotOf(s) PROVE s \in [DOMAIN EmptySlot -> W]
    <3>1. s = [f \in DOMAIN EmptySlot |-> s[f]] /\ \A f \in DOMAIN EmptySlot : FieldOf(f, s[f])
      BY <2>1, SlotIs
    <3>2. \A f \in DOMAIN EmptySlot : f \in Strings \cup Flags \cup {"days", "qos", "window", "minute"}
      BY Fields
    <3>3. \A f \in DOMAIN EmptySlot : s[f] \in W
      BY <3>1, <3>2, Fields DEF FieldOf
    <3> HIDE DEF W
    <3>4. QED  BY <3>1, <3>3
  <2> HIDE DEF W
  <2>2. QED  BY <2>1
<1> HIDE DEF V
<1>2. EmptySlot \in V
  BY <1>1, EmptyIsSlot
<1>3. Len(m) \in Nat
  BY DEF MembersOf
<1>4. ASSUME NEW k \in 1..Len(m), NEW v \in V PROVE Take(v, m[k]) \in V
  <2>1. v = Bad \/ SlotOf(v)
    BY <1>1
  <2>2. /\ m[k].key \in Strings => m[k].value \in Seq(Char)
        /\ m[k].key = "days" => m[k].value \subseteq Days
    BY DEF MembersOf
  <2>3. Take(v, m[k]) = Bad \/ SlotOf(Take(v, m[k]))
    BY <2>1, <2>2, TakeKeeps
  <2>4. QED  BY <1>1, <2>3
<1>5. PICK r : ParsedAs(r, m, V)
  BY <1>2, <1>3, <1>4, ParseIs
<1>6. ParseSlot(m) = r[Len(m)] /\ r[Len(m)] \in V
  <2>1. Len(m) \in 0..Len(m)
    BY <1>3
  <2>2. QED  BY <1>5, <2>1 DEF ParsedAs
<1>7. QED  BY <1>1, <1>6

\* The member that serialize_blob writes of a field, and s with the fields of K alone.
Member(s, f) == [key |-> f, value |-> IF f \in Strings THEN Quoted(s[f]) ELSE s[f]]
Only(s, K) == [f \in DOMAIN EmptySlot |-> IF f \in K THEN s[f] ELSE EmptySlot[f]]

\* Of a member that was written, the field it is of is read.
LEMMA TakeReads ==
  ASSUME BlobAssumption, NEW s, SlotOf(s), NEW K, NEW f \in DOMAIN EmptySlot,
         f \in Strings => s[f] # <<>>
  PROVE  Take(Only(s, K), Member(s, f)) = Only(s, K \cup {f})
<1> DEFINE v == Only(s, K)
           m == Member(s, f)
           w == s[f]
<1>1. "bad" \notin Char /\ \A g \in Strings : Length[g] \in Nat
  BY DEF BlobAssumption
<1>2. v # Bad
  <2>1. DOMAIN v = DOMAIN EmptySlot /\ DOMAIN Bad = {"bad"}
    BY DEF Only, Bad
  <2>2. DOMAIN v # DOMAIN Bad
    BY <2>1, Fields
  <2> HIDE DEF v
  <2>3. QED  BY <2>2
<1>3. [v EXCEPT ![f] = w] = Only(s, K \cup {f})
  BY DEF Only
<1>4. FieldOf(f, w)
  BY SlotIs
<1>5. m.key = f /\ m.value = IF f \in Strings THEN Quoted(w) ELSE w
  BY DEF Member
<1> HIDE DEF v, m
<1>6. CASE f \in Strings
  <2> DEFINE l == Length[f]
  <2>1. w \in Seq(Char) /\ w # <<>> /\ l \in Nat /\ Len(w) <= l
    BY <1>1, <1>4, <1>6 DEF FieldOf
  <2>2. Unquoted(Quoted(w), l) = [bytes |-> w]
    <3> DEFINE x == w
    <3> HIDE DEF l, x
    <3>1. x \in Seq(Char) /\ x # <<>> /\ l \in Nat /\ Len(x) <= l
      BY <2>1 DEF x
    <3>2. Unquoted(Quoted(x), l) = [bytes |-> x]
      BY <1>1, <3>1, ReadBack
    <3>3. QED  BY <3>2 DEF x
  <2>3. Unquoted(m.value, Length[m.key]) = [bytes |-> w]
    BY <1>5, <1>6, <2>2
  <2>4. [bytes |-> w] # Bad
    <3>1. DOMAIN [bytes |-> w] = {"bytes"} /\ DOMAIN Bad = {"bad"}
      BY DEF Bad
    <3>2. QED  BY <3>1
  <2>5. Take(v, m) = [v EXCEPT ![f] = w]
    <3> DEFINE u == [bytes |-> w]
    <3>1. u.bytes = w /\ u # Bad /\ Unquoted(m.value, Length[m.key]) = u
      BY <2>3, <2>4
    <3> HIDE DEF u, w
    <3>2. QED  BY <1>2, <1>5, <1>6, <3>1 DEF Take
  <2>6. QED  BY <1>3, <2>5 DEF v, m
<1>7. CASE f \notin Strings
  <2>1. m.value = w
    BY <1>5, <1>7
  <2>2. f \in DOMAIN Top \/ f \in Flags \/ f = "days"
    BY <1>7, Fields
  <2>3. Take(v, m) = [v EXCEPT ![f] = w]
    <3>1. CASE f \in DOMAIN Top
      <4>1. w \in 0..Top[f]
        BY <1>4, <3>1 DEF FieldOf
      <4> HIDE DEF w
      <4>2. QED  BY <1>2, <1>5, <1>7, <2>1, <3>1, <4>1 DEF Take
    <3>2. CASE f \notin DOMAIN Top /\ f \in Flags
      <4>1. w \in {0, 1}
        BY <1>4, <3>2 DEF FieldOf
      <4>2. (IF w = 0 THEN 0 ELSE 1) = w
        BY <4>1
      <4>3. Take(v, m) = [v EXCEPT ![f] = IF w = 0 THEN 0 ELSE 1]
        <5> HIDE DEF w
        <5>1. QED  BY <1>2, <1>5, <1>7, <2>1, <3>2 DEF Take
      <4> HIDE DEF w
      <4>4. QED  BY <4>2, <4>3
    <3>3. CASE f = "days"
      <4>1. f \notin DOMAIN Top /\ f \notin Flags
        BY <3>3, Fields
      <4>2. m.key = "days" /\ m.value = w
        BY <1>5, <2>1, <3>3
      <4> HIDE DEF w
      <4>3. Take(v, m) = [v EXCEPT !.days = m.value]
        BY <1>2, <1>5, <1>7, <3>3, <4>1 DEF Take
      <4>4. QED  BY <3>3, <4>2, <4>3
    <3>4. QED  BY <2>2, <3>1, <3>2, <3>3
  <2>4. QED  BY <1>3, <2>3 DEF v, m
<1>8. QED  BY <1>6, <1>7

\* a has members that were written of s, among them those of the fields of K.
Covers(a, s, K) ==
  /\ a \in Seq({Member(s, f) : f \in {g \in DOMAIN EmptySlot : g \in Strings => s[g] # <<>>}})
  /\ \A f \in K : \E j \in 1..Len(a) : a[j] = Member(s, f)

LEMMA WrittenConcat ==
  ASSUME NEW s, NEW a, NEW K, Covers(a, s, K), NEW b, NEW L, Covers(b, s, L)
  PROVE  Covers(a \o b, s, K \cup L)
<1> DEFINE S == {Member(s, f) : f \in {g \in DOMAIN EmptySlot : g \in Strings => s[g] # <<>>}}
<1>1. a \in Seq(S) /\ b \in Seq(S)
  BY DEF Covers
<1> HIDE DEF S
<1>2. /\ a \o b \in Seq(S) /\ Len(a \o b) = Len(a) + Len(b) /\ Len(a) \in Nat /\ Len(b) \in Nat
      /\ \A k \in 1..Len(a) : (a \o b)[k] = a[k]
      /\ \A k \in 1..Len(b) : (a \o b)[Len(a) + k] = b[k]
  BY <1>1, ConcatIs
<1>3. ASSUME NEW f \in K PROVE \E j \in 1..Len(a \o b) : (a \o b)[j] = Member(s, f)
  <2>1. PICK j \in 1..Len(a) : a[j] = Member(s, f)
    BY DEF Covers
  <2>2. j \in 1..Len(a \o b) /\ (a \o b)[j] = a[j]
    BY <1>2
  <2>3. QED  BY <2>1, <2>2
<1>4. ASSUME NEW f \in L PROVE \E j \in 1..Len(a \o b) : (a \o b)[j] = Member(s, f)
  <2>1. PICK j \in 1..Len(b) : b[j] = Member(s, f)
    BY DEF Covers
  <2>2. Len(a) + j \in 1..Len(a \o b) /\ (a \o b)[Len(a) + j] = b[j]
    BY <1>2
  <2>3. QED  BY <2>1, <2>2
<1>5. QED  BY <1>2, <1>3, <1>4 DEF Covers, S

LEMMA WrittenIs ==
  ASSUME NEW s, NEW f \in Strings
  PROVE  Covers(Written(s, f), s, IF s[f] = <<>> THEN {} ELSE {f})
<1> DEFINE S == {Member(s, g) : g \in {h \in DOMAIN EmptySlot : h \in Strings => s[h] # <<>>}}
<1>1. CASE s[f] = <<>>
  <2>1. Written(s, f) = <<>>
    BY <1>1 DEF Written
  <2>2. <<>> \in Seq(S)
    OBVIOUS
  <2>3. QED  BY <1>1, <2>1, <2>2 DEF Covers
<1>2. CASE s[f] # <<>>
  <2> DEFINE m == Member(s, f)
  <2>1. Written(s, f) = <<m>>
    BY <1>2 DEF Written, Member
  <2>2. m \in S
    BY <1>2, Fields
  <2> HIDE DEF m, S
  <2>3. <<m>> \in Seq(S) /\ Len(<<m>>) = 1 /\ <<m>>[1] = m /\ 1 \in 1..1
    BY <2>2
  <2>4. QED  BY <1>2, <2>1, <2>3 DEF Covers, S, m
<1>3. QED  BY <1>1, <1>2

LEMMA MembersIs ==
  ASSUME NEW s, s # EmptySlot
  PROVE  \E K : /\ Covers(Members(s), s, K)
                /\ \A f \in DOMAIN EmptySlot : f \notin K => f \in Strings /\ s[f] = <<>>
<1> DEFINE names == <<"arm", "repeat", "retain", "qos", "window", "minute", "days">>
           a == [i \in 1..7 |-> LET k == names[i] IN [key |-> k, value |-> s[k]]]
           A == {"arm", "repeat", "retain", "qos", "window", "minute", "days"}
           N(f) == IF s[f] = <<>> THEN {} ELSE {f}
           S == {Member(s, f) : f \in {g \in DOMAIN EmptySlot : g \in Strings => s[g] # <<>>}}
<1>1. \A f \in A : f \in DOMAIN EmptySlot /\ f \notin Strings
  BY Fields
<1>2. \A i \in 1..7 : names[i] \in A
  <2>1. \A i \in 1..7 : i \in {1, 2, 3, 4, 5, 6, 7}
    OBVIOUS
  <2>2. QED  BY <2>1
<1>3. \A f \in A : \E i \in 1..7 : names[i] = f
  <2>1. /\ names[1] = "arm" /\ names[2] = "repeat" /\ names[3] = "retain" /\ names[4] = "qos"
        /\ names[5] = "window" /\ names[6] = "minute" /\ names[7] = "days"
    OBVIOUS
  <2>2. 1 \in 1..7 /\ 2 \in 1..7 /\ 3 \in 1..7 /\ 4 \in 1..7 /\ 5 \in 1..7 /\ 6 \in 1..7 /\ 7 \in 1..7
    OBVIOUS
  <2> HIDE DEF names
  <2>3. QED  BY <2>1, <2>2
<1>4. \A i \in 1..7 : a[i] = Member(s, names[i])
  <2> HIDE DEF names, A
  <2>1. QED  BY <1>1, <1>2 DEF Member
<1>5. Covers(a, s, A)
  <2>1. a = [i \in 1..7 |-> Member(s, names[i])]
    <3> HIDE DEF names, A
    <3>1. \A i \in 1..7 : [key |-> names[i], value |-> s[names[i]]] = Member(s, names[i])
      BY <1>1, <1>2 DEF Member
    <3>2. QED  BY <3>1
  <2> HIDE DEF a, names, A
  <2>2. \A i \in 1..7 : Member(s, names[i]) \in S
    BY <1>1, <1>2
  <2> HIDE DEF S
  <2>3. a \in [1..7 -> S]
    BY <2>1, <2>2
  <2>4. a \in Seq(S) /\ Len(a) = 7
    <3>1. \A n \in Nat : \A b \in [1..n -> S] : b \in Seq(S) /\ Len(b) = n
      OBVIOUS
    <3>2. 7 \in Nat
      OBVIOUS
    <3>3. QED  BY <2>3, <3>1, <3>2
  <2>5. \A f \in A : \E j \in 1..Len(a) : a[j] = Member(s, f)
    BY <1>3, <1>4, <2>4
  <2>6. QED  BY <2>4, <2>5 DEF Covers, S
<1>6. Members(s) = ((a \o Written(s, "topic")) \o Written(s, "payload")) \o Written(s, "label")
  BY DEF Members
<1> DEFINE w1 == Written(s, "topic")
           w2 == Written(s, "payload")
           w3 == Written(s, "label")
           K == ((A \cup N("topic")) \cup N("payload")) \cup N("label")
<1>7. Covers(w1, s, N("topic")) /\ Covers(w2, s, N("payload")) /\ Covers(w3, s, N("label"))
  <2>1. "topic" \in Strings /\ "payload" \in Strings /\ "label" \in Strings
    BY Fields
  <2>2. QED  BY <2>1, WrittenIs
<1>8. Covers(((a \o w1) \o w2) \o w3, s, K)
  <2> HIDE DEF a, w1, w2, w3, A, N
  <2>1. Covers(a \o w1, s, A \cup N("topic"))
    BY <1>5, <1>7, WrittenConcat
  <2>2. Covers((a \o w1) \o w2, s, (A \cup N("topic")) \cup N("payload"))
    BY <1>7, <2>1, WrittenConcat
  <2>3. QED  BY <1>7, <2>2, WrittenConcat
<1>9. \A f \in DOMAIN EmptySlot : f \notin K => f \in Strings /\ s[f] = <<>>
  <2>1. \A f \in DOMAIN EmptySlot : f \in A \/ f = "topic" \/ f = "payload" \/ f = "label"
    BY Fields
  <2>2. QED  BY <2>1, Fields
<1> HIDE DEF a, K
<1>10. QED  BY <1>6, <1>8, <1>9

\* What serialize_blob writes of a slot is read back as that slot.
LEMMA SlotGivesBack ==
  ASSUME BlobAssumption, NEW s, SlotOf(s)
  PROVE  ParseSlot(Members(s)) = s
<1> DEFINE m == Members(s)
           D == DOMAIN EmptySlot
           R == {f \in D : f \in Strings => s[f] # <<>>}
           S == {Member(s, f) : f \in R}
           V == {Only(s, K) : K \in SUBSET D}
<1>1. s = [f \in D |-> s[f]]
  BY SlotIs
<1>2. Only(s, {}) = EmptySlot
  <2>1. EmptySlot = [f \in D |-> EmptySlot[f]]
    BY DEF EmptySlot
  <2>2. QED  BY <2>1 DEF Only
<1>3. EmptySlot \in V
  <2>1. {} \in SUBSET D
    OBVIOUS
  <2>2. QED  BY <1>2, <2>1
<1>4. ASSUME NEW f \in R, NEW K PROVE Take(Only(s, K), Member(s, f)) = Only(s, K \cup {f})
  <2>1. f \in DOMAIN EmptySlot /\ (f \in Strings => s[f] # <<>>)
    OBVIOUS
  <2> HIDE DEF R
  <2>2. QED  BY <2>1, TakeReads
<1>5. CASE s = EmptySlot
  <2>1. m = <<>>
    BY <1>5 DEF Members
  <2>2. Len(m) = 0 /\ 1..Len(m) = {}
    BY <2>1
  <2> HIDE DEF m, V
  <2>3. PICK r : ParsedAs(r, m, V)
    BY <1>3, <2>2, ParseIs
  <2>4. QED  BY <1>5, <2>2, <2>3 DEF ParsedAs, m
<1>6. CASE s # EmptySlot
  <2>1. PICK K : /\ Covers(m, s, K)
                 /\ \A f \in DOMAIN EmptySlot : f \notin K => f \in Strings /\ s[f] = <<>>
    BY <1>6, MembersIs
  <2>2. m \in Seq(S) /\ \A f \in K : \E j \in 1..Len(m) : m[j] = Member(s, f)
    BY <2>1 DEF Covers
  <2> HIDE DEF m
  <2>3. Len(m) \in Nat /\ \A k \in 1..Len(m) : m[k] \in S
    <3> HIDE DEF S
    <3>1. QED  BY <2>2
  <2>4. ASSUME NEW k \in 1..Len(m) PROVE m[k].key \in R /\ m[k] = Member(s, m[k].key)
    <3>1. PICK f \in R : m[k] = Member(s, f)
      BY <2>3
    <3>2. m[k].key = f
      BY <3>1 DEF Member
    <3>3. QED  BY <3>1, <3>2
  <2>5. ASSUME NEW k \in 1..Len(m), NEW v \in V PROVE Take(v, m[k]) \in V
    <3>1. PICK L \in SUBSET D : v = Only(s, L)
      OBVIOUS
    <3> DEFINE f == m[k].key
    <3>2. f \in R /\ m[k] = Member(s, f)
      BY <2>4
    <3> HIDE DEF f
    <3>3. Take(v, m[k]) = Only(s, L \cup {f})
      BY <1>4, <3>1, <3>2
    <3>4. L \cup {f} \in SUBSET D
      BY <3>2
    <3>5. QED  BY <3>3, <3>4
  <2> HIDE DEF V
  <2>6. PICK r : ParsedAs(r, m, V)
    BY <1>3, <2>3, <2>5, ParseIs
  <2>7. /\ r[0] = EmptySlot /\ ParseSlot(m) = r[Len(m)]
        /\ \A k \in 1..Len(m) : r[k] = Take(r[k - 1], m[k])
    BY <2>6 DEF ParsedAs
  <2> DEFINE Keys(k) == {m[j].key : j \in 1..k}
             T == {k \in Nat : k <= Len(m) => r[k] = Only(s, Keys(k))}
             n == Len(m)
  <2>8. 0 \in T
    <3>1. Keys(0) = {}
      OBVIOUS
    <3> HIDE DEF Keys
    <3>2. r[0] = Only(s, Keys(0))
      BY <1>2, <2>7, <3>1
    <3>3. QED  BY <3>2
  <2>9. ASSUME NEW k \in Nat, k \in T PROVE k + 1 \in T
    <3>1. SUFFICES ASSUME k + 1 <= Len(m) PROVE r[k + 1] = Only(s, Keys(k + 1))
      OBVIOUS
    <3>2. k <= Len(m) /\ k + 1 \in 1..Len(m) /\ (k + 1) - 1 = k
      BY <2>3, <3>1
    <3> DEFINE f == m[k + 1].key
    <3>3. f \in R /\ m[k + 1] = Member(s, f)
      BY <2>4, <3>2
    <3>4. Keys(k + 1) = Keys(k) \cup {f}
      <4>1. 1..(k + 1) = 1..k \cup {k + 1}
        OBVIOUS
      <4>2. QED  BY <4>1
    <3> HIDE DEF f
    <3>5. r[k] = Only(s, Keys(k))
      BY <2>9, <3>2
    <3> HIDE DEF Keys, T
    <3>6. r[k + 1] = Take(Only(s, Keys(k)), Member(s, f))
      BY <2>7, <3>2, <3>3, <3>5
    <3>7. QED  BY <1>4, <3>3, <3>4, <3>6
  <2> HIDE DEF T
  <2>10. Nat \subseteq T
    BY <2>8, <2>9, Inductive
  <2>11. r[n] = Only(s, Keys(n))
    <3>1. n \in Nat
      BY <2>3
    <3> HIDE DEF n
    <3>2. n \in T
      BY <2>10, <3>1
    <3> HIDE DEF Keys
    <3>3. QED  BY <3>1, <3>2 DEF T, n
  <2>12. \A f \in D : f \notin Keys(n) => s[f] = EmptySlot[f]
    <3>1. SUFFICES ASSUME NEW f \in D, f \notin Keys(n) PROVE s[f] = EmptySlot[f]
      OBVIOUS
    <3>2. f \notin K
      <4>1. SUFFICES ASSUME f \in K PROVE FALSE
        OBVIOUS
      <4>2. PICK j \in 1..Len(m) : m[j] = Member(s, f)
        BY <2>2, <4>1
      <4>3. m[j].key = f
        BY <4>2 DEF Member
      <4>4. QED  BY <3>1, <4>3
    <3>3. QED  BY <2>1, <3>2, Fields
  <2>13. Only(s, Keys(n)) = s
    <3> HIDE DEF Keys
    <3>1. QED  BY <1>1, <2>12 DEF Only
  <2>14. QED  BY <2>7, <2>11, <2>13 DEF m, n
<1>7. QED  BY <1>5, <1>6

-----------------------------------------------------------------------------
(* What a boot loads *)

\* A slot that is armed can be published.
Sound(s) ==
  /\ SlotOf(s)
  /\ s.arm = 1 =>
       /\ s.days # {} /\ s.topic # <<>> /\ s.topic[1] # Dollar
       /\ \A j \in 1..Len(s.topic) : s.topic[j] # Control
AllSound(S, m) ==
  /\ S = [i \in Slot |-> S[i]] /\ \A i \in Slot : Sound(S[i])
  /\ m \in {0, 1}

\* The text is of slots that were once in RAM; of those that are there now, if the last
\* save did not fail.
Was(S, m) ==
  AllSound(S, m) /\ blob = Serialized(S, m) /\ (~lost => slots = S /\ master = m)
BlobInv ==
  /\ AllSound(slots, master) /\ lost \in BOOLEAN
  /\ \/ blob = NoBlob /\ (~lost => slots = [i \in Slot |-> EmptySlot] /\ master = 1)
     \/ \E S, m : Was(S, m)

LEMMA SlotIsNotBad ==
  ASSUME NEW s, SlotOf(s)
  PROVE  s # Bad
<1>1. DOMAIN s = DOMAIN EmptySlot
  BY SlotIs
<1>2. DOMAIN Bad = {"bad"}
  BY DEF Bad
<1>3. DOMAIN s # DOMAIN Bad
  BY <1>1, <1>2, Fields
<1>4. QED  BY <1>3

LEMMA EmptyIsSound ==
  ASSUME BlobAssumption
  PROVE  Sound(EmptySlot)
<1>1. SlotOf(EmptySlot) /\ EmptySlot.arm = 0
  BY EmptyIsSlot, Fields
<1>2. QED  BY <1>1 DEF Sound

LEMMA ValidIsSound ==
  ASSUME NEW s, SlotOf(s), Valid(s)
  PROVE  Sound(s)
<1>1. ASSUME s.arm = 1
      PROVE  /\ s.days # {} /\ s.topic # <<>> /\ s.topic[1] # Dollar
             /\ \A j \in 1..Len(s.topic) : s.topic[j] # Control
  BY <1>1 DEF Valid, PublishTopic, Contains
<1>2. QED  BY <1>1 DEF Sound

LEMMA TextIsThere == \A S, m : Serialized(S, m) # NoBlob
<1>1. SUFFICES ASSUME NEW S, NEW m PROVE Serialized(S, m) # NoBlob
  OBVIOUS
<1>2. "me" \in DOMAIN Serialized(S, m) /\ DOMAIN NoBlob = {"none"}
  BY DEF NoBlob, Serialized
<1>3. "me" \notin DOMAIN NoBlob
  BY <1>2
<1>4. QED  BY <1>2, <1>3

\* What was serialized is loaded.
LEMMA BlobIsLoaded ==
  ASSUME BlobAssumption, NEW S, NEW m, AllSound(S, m)
  PROVE  Loaded(Serialized(S, m)) = [slots |-> S, me |-> m]
<1> DEFINE b == Serialized(S, m)
           read == [i \in Slot |-> ParseSlot(b.slots[i])]
           B == [i \in Slot |-> Members(S[i])]
<1>1. b = [me |-> m, slots |-> B] /\ b.me = m /\ b.slots = B
  BY DEF Serialized
<1>2. b # NoBlob
  BY TextIsThere
<1>3. ASSUME NEW i \in Slot PROVE read[i] = S[i] /\ read[i] # Bad
  <2>1. SlotOf(S[i])
    BY DEF AllSound, Sound
  <2>2. read[i] = ParseSlot(Members(S[i]))
    BY <1>1
  <2> HIDE DEF read
  <2>3. QED  BY <2>1, <2>2, SlotGivesBack, SlotIsNotBad
<1>4. read = S
  <2>1. read = [i \in Slot |-> read[i]] /\ S = [i \in Slot |-> S[i]]
    BY DEF AllSound
  <2> HIDE DEF read
  <2>2. QED  BY <1>3, <2>1
<1>5. Loaded(b) = [slots |-> read, me |-> b.me]
  <2>1. ~(\E i \in Slot : ParseSlot(b.slots[i]) = Bad)
    BY <1>3
  <2>2. ~(\E i \in Slot : read[i] = Bad)
    BY <1>3
  <2> HIDE DEF b
  <2>3. QED  BY <1>2, <2>1 DEF Loaded
<1>6. QED  BY <1>1, <1>4, <1>5

LEMMA NothingIsLoaded ==
  Loaded(NoBlob) = [slots |-> [i \in Slot |-> EmptySlot], me |-> 1]
BY DEF Loaded

LEMMA DefaultsAreSound ==
  ASSUME BlobAssumption
  PROVE  AllSound([i \in Slot |-> EmptySlot], 1)
BY EmptyIsSound DEF AllSound

LEMMA BlobInvInit ==
  ASSUME BlobAssumption, Init
  PROVE  BlobInv
BY DefaultsAreSound DEF Init, BlobInv

\* A save writes what is in RAM, or nothing.
LEMMA SaveKeeps ==
  ASSUME BlobInv, AllSound(slots', master'), Save
  PROVE  BlobInv'
<1>1. CASE blob' = Serialized(slots', master') /\ lost' = FALSE
  <2>1. PICK S, m : S = slots' /\ m = master'
    OBVIOUS
  <2>2. Was(S, m)'
    BY <1>1, <2>1 DEF Was, AllSound, Serialized
  <2>3. QED  BY <1>1, <2>2 DEF BlobInv, AllSound
<1>2. CASE blob' = blob /\ lost' = TRUE
  <2>1. CASE blob = NoBlob
    BY <1>2, <2>1 DEF BlobInv, AllSound
  <2>2. CASE blob # NoBlob
    <3>1. PICK S, m : Was(S, m)
      BY <2>2 DEF BlobInv
    <3>2. Was(S, m)'
      BY <1>2, <3>1 DEF Was, AllSound, Serialized
    <3>3. QED  BY <1>2, <3>2 DEF BlobInv, AllSound
  <2>3. QED  BY <2>1, <2>2
<1>3. QED  BY <1>1, <1>2 DEF Save

LEMMA SlotReplaced ==
  ASSUME AllSound(slots, master), NEW i \in Slot, NEW s, Sound(s),
         slots' = [slots EXCEPT ![i] = s], master' \in {0, 1}
  PROVE  AllSound(slots', master')
BY DEF AllSound

LEMMA BlobInvStep ==
  ASSUME BlobAssumption, BlobInv, [Next]_vars
  PROVE  BlobInv'
<1>0. AllSound(slots, master) /\ master \in {0, 1}
  BY DEF BlobInv, AllSound
<1>1. ASSUME NEW i \in Slot, NEW s, SlotOf(s), Store(i, s) PROVE BlobInv'
  <2>1. Sound(s) /\ slots' = [slots EXCEPT ![i] = s] /\ master' = master /\ Save
    BY <1>1, ValidIsSound DEF Store
  <2>2. AllSound(slots', master')
    BY <1>0, <2>1, SlotReplaced
  <2>3. QED  BY <2>1, <2>2, SaveKeeps
<1>2. ASSUME NEW i \in Slot, SaveForm(i) PROVE BlobInv'
  <2>1. PICK s \in Forms : Store(i, s)
    BY <1>2 DEF SaveForm
  <2>2. SlotOf(s)
    BY DEF BlobAssumption
  <2>3. QED  BY <1>1, <2>1, <2>2
<1>3. ASSUME NEW i \in Slot, Put(i) PROVE BlobInv'
  <2>1. PICK body \in Bodies : ParseSlot(body) # Bad /\ Store(i, ParseSlot(body))
    BY <1>3 DEF Put
  <2>2. MembersOf(body)
    BY DEF BlobAssumption
  <2>3. SlotOf(ParseSlot(body))
    BY <2>1, <2>2, BodyParses
  <2>4. QED  BY <1>1, <2>1, <2>3
<1>4. ASSUME NEW i \in Slot, Clear(i) PROVE BlobInv'
  <2>1. slots' = [slots EXCEPT ![i] = EmptySlot] /\ master' = master /\ Save
    BY <1>4 DEF Clear
  <2>2. AllSound(slots', master')
    BY <1>0, <2>1, EmptyIsSound, SlotReplaced
  <2>3. QED  BY <2>1, <2>2, SaveKeeps
<1>5. ASSUME NEW i \in Slot, FireOnce(i) PROVE BlobInv'
  <2> DEFINE s == [slots[i] EXCEPT !.arm = 0]
  <2>1. SlotOf(slots[i])
    BY <1>0 DEF AllSound, Sound
  <2>2. "arm" \in DOMAIN EmptySlot /\ FieldOf("arm", 0)
    BY Fields DEF FieldOf
  <2>3. SlotOf(s)
    BY <2>1, <2>2, PutField
  <2>4. s.arm = 0
    <3>1. DOMAIN slots[i] = DOMAIN EmptySlot
      BY <2>1, SlotIs
    <3>2. QED  BY <2>2, <3>1
  <2> HIDE DEF s
  <2>5. Sound(s)
    BY <2>3, <2>4 DEF Sound
  <2>6. slots' = [slots EXCEPT ![i] = s] /\ master' = master /\ Save
    BY <1>5 DEF FireOnce, s
  <2>7. AllSound(slots', master')
    BY <1>0, <2>5, <2>6, SlotReplaced
  <2>8. QED  BY <2>6, <2>7, SaveKeeps
<1>6. CASE SetMaster
  <2>1. slots' = slots /\ master' = 1 - master /\ Save
    BY <1>6 DEF SetMaster
  <2>2. AllSound(slots', master')
    BY <1>0, <2>1 DEF AllSound
  <2>3. QED  BY <2>1, <2>2, SaveKeeps
<1>7. CASE Reboot
  <2>1. /\ slots' = Loaded(blob).slots /\ master' = Loaded(blob).me
        /\ lost' = FALSE /\ blob' = blob
    BY <1>7 DEF Reboot
  <2>2. CASE blob = NoBlob
    <3>1. slots' = [i \in Slot |-> EmptySlot] /\ master' = 1
      BY <2>1, <2>2, NothingIsLoaded
    <3>2. AllSound(slots', master')
      BY <3>1, DefaultsAreSound
    <3>3. QED  BY <2>1, <2>2, <3>1, <3>2 DEF BlobInv, AllSound
  <2>3. CASE blob # NoBlob
    <3>1. PICK S, m : Was(S, m)
      BY <2>3 DEF BlobInv
    <3>2. AllSound(S, m) /\ blob = Serialized(S, m)
      BY <3>1 DEF Was
    <3>3. slots' = S /\ master' = m
      BY <2>1, <3>2, BlobIsLoaded
    <3>4. Was(S, m)'
      BY <2>1, <3>2, <3>3 DEF Was, AllSound, Serialized
    <3>5. AllSound(slots', master')
      BY <3>2, <3>3
    <3>6. QED  BY <2>1, <3>4, <3>5 DEF BlobInv, AllSound
  <2>4. QED  BY <2>2, <2>3
<1>8. CASE UNCHANGED vars
  <2>1. slots' = slots /\ master' = master /\ blob' = blob /\ lost' = lost
    BY <1>8 DEF vars
  <2>2. \A S, m : Was(S, m) => Was(S, m)'
    BY <2>1 DEF Was, AllSound, Serialized
  <2>3. AllSound(slots', master')
    BY <1>0, <2>1
  <2>4. QED  BY <2>1, <2>2, <2>3 DEF BlobInv, AllSound
<1>9. QED  BY <1>2, <1>3, <1>4, <1>5, <1>6, <1>7, <1>8 DEF Next

\* The text gives back what it was written of.
LEMMA BlobInvGivesBack ==
  ASSUME BlobAssumption, BlobInv
  PROVE  BlobGivesBack
<1>1. SUFFICES ASSUME ~lost PROVE Loaded(blob) = [slots |-> slots, me |-> master]
  BY DEF BlobGivesBack
<1>2. CASE blob = NoBlob
  <2>1. \A S, m : ~Was(S, m)
    BY <1>2, TextIsThere DEF Was
  <2>2. slots = [i \in Slot |-> EmptySlot] /\ master = 1
    BY <1>1, <2>1 DEF BlobInv
  <2>3. QED  BY <1>2, <2>2, NothingIsLoaded
<1>3. CASE blob # NoBlob
  <2>1. PICK S, m : Was(S, m)
    BY <1>3 DEF BlobInv
  <2>2. AllSound(S, m) /\ blob = Serialized(S, m) /\ slots = S /\ master = m
    BY <1>1, <2>1 DEF Was
  <2>3. QED  BY <2>2, BlobIsLoaded
<1>4. QED  BY <1>2, <1>3

LEMMA BlobInvPublishable == BlobInv => OnlyPublishable
BY DEF BlobInv, AllSound, Sound, OnlyPublishable

LEMMA BlobInvTypes == BlobInv => TypeOK
<1>1. SUFFICES ASSUME BlobInv PROVE TypeOK
  OBVIOUS
<1>2. DOMAIN slots = Slot /\ master \in {0, 1} /\ lost \in BOOLEAN
  <2>1. AllSound(slots, master) /\ lost \in BOOLEAN
    BY <1>1 DEF BlobInv
  <2>2. slots = [i \in Slot |-> slots[i]] /\ master \in {0, 1}
    BY <2>1 DEF AllSound
  <2>3. DOMAIN slots = DOMAIN [i \in Slot |-> slots[i]]
    BY <2>2
  <2>4. QED  BY <2>1, <2>2, <2>3
<1>3. ASSUME NEW i \in Slot
      PROVE  /\ DOMAIN slots[i] = DOMAIN EmptySlot /\ slots[i].days \subseteq Days
             /\ \A f \in Flags : slots[i][f] \in {0, 1}
             /\ \A f \in DOMAIN Top : slots[i][f] \in 0..Top[f]
             /\ \A f \in Strings : Len(slots[i][f]) <= Length[f]
  <2>1. SlotOf(slots[i])
    BY <1>1 DEF BlobInv, AllSound, Sound
  <2>2. DOMAIN slots[i] = DOMAIN EmptySlot
    BY <2>1, SlotIs
  <2>3. QED  BY <2>1, <2>2 DEF SlotOf
<1>4. QED  BY <1>2, <1>3 DEF TypeOK
=============================================================================
