--------------------------- MODULE NtpRateProofs ---------------------------
(***************************************************************************)
(* The rate limit of the SNTP server, for every set of sources, every size *)
(* of the table, every rate and every window.                              *)
(***************************************************************************)
EXTENDS NtpRate, WellFoundedInduction, TLAPS

LEMMA LeastElement ==
  ASSUME NEW T, T \subseteq Nat, T # {}
  PROVE  \E i \in T : \A j \in T : i <= j
<1>1. PICK i \in T : \A j \in T : <<j, i>> \notin OpToRel(<, Nat)
  BY NatLessThanWellFounded, WFMin
<1>2. \A j \in T : ~(j < i)
  BY <1>1 DEF OpToRel
<1>3. QED  BY <1>2

-----------------------------------------------------------------------------
(* What an entry knows of the times at which its source was answered: its  *)
(* count is that of the last ones, and before them there was a window of   *)
(* silence.                                                                *)

Counts(last, count, times) ==
  LET n == Len(times) IN
  /\ times \in Seq(Nat)
  /\ count \in 1..Rate /\ count <= n
  /\ times[n] = last
  /\ \A i, j \in 1..n : i <= j => times[i] <= times[j]
  /\ n > count => times[n - count + 1] - times[n - count] > RateWindow
  /\ n > Rate => times[n] - times[n - Rate] > RateWindow

\* The first answer to a source that has got a place.
LEMMA FirstAnswer ==
  ASSUME RateAssumption, NEW m \in Nat
  PROVE  Counts(m, 1, Append(<<>>, m))
<1>1. /\ Append(<<>>, m) \in Seq(Nat) /\ Len(Append(<<>>, m)) = 1 /\ Append(<<>>, m)[1] = m
  OBVIOUS
<1>2. QED  BY <1>1 DEF Counts, RateAssumption

\* An answer within the rate keeps the account, whether the window is over or not.
LEMMA NextAnswer ==
  ASSUME RateAssumption, NEW last \in Nat, NEW count, NEW times, Counts(last, count, times),
         NEW m \in Nat, last <= m,
         NEW now, now = IF m - last > RateWindow THEN 0 ELSE count, now < Rate
  PROVE  Counts(m, now + 1, Append(times, m))
<1> DEFINE n == Len(times)
           ts == Append(times, m)
<1>1. /\ n \in Nat /\ n >= 1 /\ count \in Nat /\ count >= 1 /\ count <= n /\ times \in Seq(Nat)
      /\ times[n] = last /\ RateWindow \in Nat /\ Rate \in Nat /\ Rate >= 1
      /\ \A i \in 1..n : times[i] \in Nat
  BY DEF Counts, RateAssumption
<1>2. /\ ts \in Seq(Nat) /\ Len(ts) = n + 1 /\ ts[n + 1] = m
      /\ \A i \in 1..n : ts[i] = times[i]
  BY <1>1
<1>3. \A i, j \in 1..n : i <= j => times[i] <= times[j]
  BY DEF Counts
<1>4. n > count => times[n - count + 1] - times[n - count] > RateWindow
  BY DEF Counts
<1> HIDE DEF n, ts
<1>5. \A i \in 1..n : times[i] <= last
  BY <1>1, <1>3
<1>6. \A i, j \in 1..(n + 1) : i <= j => ts[i] <= ts[j]
  <2>1. SUFFICES ASSUME NEW i \in 1..(n + 1), NEW j \in 1..(n + 1), i <= j PROVE ts[i] <= ts[j]
    OBVIOUS
  <2>2. CASE j \in 1..n
    <3>1. i \in 1..n
      BY <1>1, <2>1, <2>2
    <3>2. QED  BY <1>2, <1>3, <2>1, <2>2, <3>1
  <2>3. CASE j = n + 1 /\ i \in 1..n
    <3>1. ts[i] = times[i] /\ times[i] \in Nat /\ times[i] <= last /\ ts[j] = m
      BY <1>1, <1>2, <1>5, <2>3
    <3>2. QED  BY <3>1
  <2>4. CASE i = n + 1 /\ j = n + 1
    BY <1>2, <2>4
  <2>5. QED  BY <1>1, <2>1, <2>2, <2>3, <2>4
<1>7. now \in Nat /\ now + 1 \in 1..Rate /\ now + 1 <= n + 1
  BY <1>1
\* The answers of this run began after a window of silence.
<1>8. n + 1 > now + 1 => ts[n - now + 1] - ts[n - now] > RateWindow
  <2>1. CASE m - last > RateWindow
    BY <1>1, <1>2, <2>1
  <2>2. CASE m - last <= RateWindow
    <3>1. now = count
      BY <1>1, <2>2
    <3>2. SUFFICES ASSUME n > count PROVE ts[n - count + 1] - ts[n - count] > RateWindow
      BY <1>1, <3>1
    <3>3. n - count \in 1..n /\ n - count + 1 \in 1..n
      BY <1>1, <3>2
    <3>4. ts[n - count] = times[n - count] /\ ts[n - count + 1] = times[n - count + 1]
      BY <1>2, <3>3
    <3>5. QED  BY <1>4, <3>2, <3>4
  <2>3. QED  BY <1>1, <2>1, <2>2
<1>9. n + 1 > Rate => m - ts[n + 1 - Rate] > RateWindow
  <2>1. SUFFICES ASSUME n + 1 > Rate PROVE m - ts[n + 1 - Rate] > RateWindow
    OBVIOUS
  <2>2. n + 1 - Rate \in 1..n /\ ts[n + 1 - Rate] = times[n + 1 - Rate]
    BY <1>1, <1>2, <2>1
  <2>3. CASE m - last > RateWindow
    BY <1>1, <1>5, <2>2, <2>3
  <2>4. CASE m - last <= RateWindow
    <3>1. now = count /\ n > count
      BY <1>1, <2>1, <2>4
    <3>2. n - count \in 1..n /\ n - count + 1 \in 1..n /\ n + 1 - Rate <= n - count
      BY <1>1, <2>1, <3>1
    <3>3. times[n + 1 - Rate] <= times[n - count] /\ times[n - count + 1] <= last
      BY <1>3, <1>5, <2>2, <3>2
    <3> DEFINE x == times[n - count + 1]  y == times[n - count]  z == times[n + 1 - Rate]
    <3>4. x \in Nat /\ y \in Nat /\ z \in Nat /\ x - y > RateWindow /\ z <= y /\ x <= last
      BY <1>1, <1>4, <2>2, <3>1, <3>2, <3>3
    <3> HIDE DEF x, y, z
    <3>5. m - z > RateWindow
      BY <1>1, <3>4
    <3>6. QED  BY <2>2, <3>5 DEF z
  <2>5. QED  BY <1>1, <2>3, <2>4
<1>10. Counts(m, now + 1, ts)
  <2> DEFINE k == Len(ts)  c == now + 1
  <2>1. k = n + 1 /\ k - c + 1 = n - now + 1 /\ k - c = n - now /\ k - Rate = n + 1 - Rate
    <3>1. k = n + 1
      BY <1>2
    <3> HIDE DEF k
    <3>2. QED  BY <1>1, <1>7, <3>1
  <2>2. k > c => ts[k - c + 1] - ts[k - c] > RateWindow
    BY <1>8, <2>1
  <2>3. k > Rate => ts[k] - ts[k - Rate] > RateWindow
    <3>1. ts[k] = m
      BY <1>2
    <3> HIDE DEF k
    <3>2. QED  BY <1>9, <2>1, <3>1
  <2>4. c \in 1..Rate /\ c <= k /\ ts[k] = m /\ \A i, j \in 1..k : i <= j => ts[i] <= ts[j]
    BY <1>2, <1>6, <1>7, <2>1
  <2>5. QED  BY <1>2, <2>2, <2>3, <2>4 DEF Counts
<1>11. QED  BY <1>10 DEF ts

-----------------------------------------------------------------------------
(* The table.                                                              *)

RateInv ==
  /\ moment \in Nat
  /\ table \in [1..Places -> [addr : Source \cup {"none"}, last : Nat, count : Nat]]
  /\ \A p \in 1..Places : table[p].last <= moment
  /\ \A p, q \in 1..Places : table[p].addr = table[q].addr /\ p # q => table[p].addr = "none"
  /\ DOMAIN answered = Source
  /\ \A p \in 1..Places : table[p].addr \in Source =>
       Counts(table[p].last, table[p].count, answered[table[p].addr])
  /\ \A s \in Source : PlaceOf(s) = {} => answered[s] = <<>>
  /\ refused \subseteq Source
  /\ \A s \in refused : \E p \in PlaceOf(s) : moment - table[p].last <= RateWindow

\* A source that is new gets a place of the table.
LEMMA NewPlaceIsOne ==
  ASSUME RateAssumption, RateInv
  PROVE  NewPlace \in 1..Places
<1>1. \A T : T \subseteq 1..Places /\ T # {} => Min(T) \in T
  <2>1. SUFFICES ASSUME NEW T, T \subseteq 1..Places, T # {} PROVE Min(T) \in T
    OBVIOUS
  <2>2. T \subseteq Nat
    BY <2>1
  <2>3. \E x \in T : \A y \in T : x <= y
    BY <2>1, <2>2, LeastElement
  <2>4. QED  BY <2>3 DEF Min
<1>2. PlaceOf("none") \subseteq 1..Places
  BY DEF PlaceOf
<1>3. Lasts(1..Places) \subseteq 1..Places /\ Lasts(1..Places) # {}
  <2> DEFINE lasts == {table[p].last : p \in 1..Places}
  <2>1. lasts \subseteq Nat
    BY DEF RateInv
  <2>2. 1 \in 1..Places
    BY DEF RateAssumption
  <2>3. lasts # {}
    BY <2>2
  <2>4. PICK l \in lasts : \A k \in lasts : l <= k
    BY <2>1, <2>3, LeastElement
  <2>5. PICK p \in 1..Places : table[p].last = l
    BY <2>4
  <2>6. p \in Lasts(1..Places)
    BY <2>4, <2>5 DEF Lasts
  <2>7. QED  BY <2>6 DEF Lasts
<1>4. QED  BY <1>1, <1>2, <1>3 DEF NewPlace

LEMMA RateInit ==
  ASSUME RateAssumption, Init
  PROVE  RateInv
<1>1. \A p \in 1..Places : table[p] = Free
  BY DEF Init
<1>2. Free \in [addr : Source \cup {"none"}, last : Nat, count : Nat] /\ Free.addr = "none" /\ Free.last = 0
  BY DEF Free
<1>3. QED  BY <1>1, <1>2 DEF Init, RateInv, RateAssumption

\* A source that is answered takes a place, its own or that of another.
LEMMA PutStep ==
  ASSUME RateAssumption, RateInv,
         NEW s \in Source, NEW p \in 1..Places, NEW n, NEW before,
         table[p].addr = s \/ PlaceOf(s) = {},
         Put(s, p, n, before), Counts(moment, n, Append(before, moment))
  PROVE  RateInv'
<1> DEFINE e == [addr |-> s, last |-> moment, count |-> n]
<1>1. /\ table' = [table EXCEPT ![p] = e] /\ moment' = moment
      /\ answered' = [q \in Source |-> IF q = s THEN Append(before, moment)
                                       ELSE IF q = table[p].addr THEN <<>> ELSE answered[q]]
      /\ refused' = refused \ {table[p].addr}
  BY DEF Put
<1>2. n \in Nat /\ moment \in Nat /\ s # "none"
  BY DEF Counts, RateAssumption, RateInv
<1>3. /\ e \in [addr : Source \cup {"none"}, last : Nat, count : Nat]
      /\ e.addr = s /\ e.last = moment /\ e.count = n
  BY <1>2
<1>4. /\ table' \in [1..Places -> [addr : Source \cup {"none"}, last : Nat, count : Nat]]
      /\ table'[p] = e /\ \A q \in 1..Places : q # p => table'[q] = table[q]
  BY <1>1, <1>3 DEF RateInv
<1> HIDE DEF e
<1>5. \A q \in 1..Places : table'[q].last <= moment'
  BY <1>1, <1>2, <1>3, <1>4 DEF RateInv
<1>6. \A q \in 1..Places : q # p => table[q].addr # s
  BY <1>2 DEF RateInv, PlaceOf
<1>7. \A q, r \in 1..Places : table'[q].addr = table'[r].addr /\ q # r => table'[q].addr = "none"
  BY <1>2, <1>3, <1>4, <1>6 DEF RateInv
<1>8. \A q \in 1..Places : table'[q].addr \in Source =>
        Counts(table'[q].last, table'[q].count, answered'[table'[q].addr])
  <2>1. SUFFICES ASSUME NEW q \in 1..Places, table'[q].addr \in Source
                 PROVE  Counts(table'[q].last, table'[q].count, answered'[table'[q].addr])
    OBVIOUS
  <2>2. CASE q = p
    BY <1>1, <1>3, <1>4, <2>2
  <2>3. CASE q # p
    <3>1. table'[q] = table[q] /\ table[q].addr # s /\ table[q].addr # table[p].addr
      BY <1>2, <1>4, <1>6, <2>1, <2>3 DEF RateInv, RateAssumption
    <3>2. answered'[table'[q].addr] = answered[table[q].addr]
      BY <1>1, <2>1, <3>1
    <3>3. QED  BY <2>1, <3>1, <3>2 DEF RateInv
  <2>4. QED  BY <2>2, <2>3
<1>9. \A q \in Source : PlaceOf(q)' = {} => answered'[q] = <<>>
  <2>1. SUFFICES ASSUME NEW q \in Source, PlaceOf(q)' = {} PROVE answered'[q] = <<>>
    OBVIOUS
  <2>2. q # s
    BY <1>3, <1>4, <2>1 DEF PlaceOf
  <2>3. CASE q = table[p].addr
    BY <1>1, <2>2, <2>3
  <2>4. CASE q # table[p].addr
    <3>1. PlaceOf(q) = {}
      BY <1>4, <2>1, <2>4 DEF PlaceOf
    <3>2. QED  BY <1>1, <2>2, <2>4, <3>1 DEF RateInv
  <2>5. QED  BY <2>3, <2>4
<1>10. \A q \in refused' : \E r \in PlaceOf(q)' : moment' - table'[r].last <= RateWindow
  <2>1. SUFFICES ASSUME NEW q \in refused, q # table[p].addr
                 PROVE  \E r \in PlaceOf(q)' : moment' - table'[r].last <= RateWindow
    BY <1>1
  <2>2. PICK r \in PlaceOf(q) : moment - table[r].last <= RateWindow
    BY DEF RateInv
  <2>3. r \in 1..Places /\ table[r].addr = q /\ r # p
    BY <2>1, <2>2 DEF PlaceOf
  <2>4. r \in PlaceOf(q)' /\ table'[r] = table[r]
    BY <1>4, <2>3 DEF PlaceOf
  <2>5. QED  BY <1>1, <2>2, <2>4
<1>11. DOMAIN answered' = Source /\ refused' \subseteq Source
  BY <1>1 DEF RateInv
<1>12. QED
  BY <1>1, <1>2, <1>4, <1>5, <1>7, <1>8, <1>9, <1>10, <1>11 DEF RateInv

LEMMA RateStep ==
  ASSUME RateAssumption, RateInv, [Next]_ratevars
  PROVE  RateInv'
<1>1. ASSUME NEW s \in Source, NEW p \in PlaceOf(s), CountNow(table[p]) < Rate,
             Put(s, p, CountNow(table[p]) + 1, answered[s])
      PROVE  RateInv'
  <2>1. p \in 1..Places /\ table[p].addr = s
    BY <1>1 DEF PlaceOf
  <2>2. /\ Counts(table[p].last, table[p].count, answered[s]) /\ table[p].last \in Nat
        /\ moment \in Nat /\ table[p].last <= moment
    BY <2>1 DEF RateInv
  <2>3. Counts(moment, CountNow(table[p]) + 1, Append(answered[s], moment))
    BY <1>1, <2>2, NextAnswer DEF CountNow
  <2>4. QED  BY <1>1, <2>1, <2>3, PutStep
<1>2. ASSUME NEW s \in Source, PlaceOf(s) = {}, Put(s, NewPlace, 1, <<>>)
      PROVE  RateInv'
  <2>1. Counts(moment, 1, Append(<<>>, moment))
    BY FirstAnswer DEF RateInv
  <2>2. QED  BY <1>2, <2>1, NewPlaceIsOne, PutStep
<1>3. ASSUME NEW s \in Source, Refuse(s) PROVE RateInv'
  <2>1. PICK p \in PlaceOf(s) :
          CountNow(table[p]) >= Rate /\ refused' = refused \cup {s} /\ UNCHANGED <<moment, table, answered>>
    BY <1>3 DEF Refuse
  <2>2. moment - table[p].last <= RateWindow
    BY <2>1 DEF CountNow, RateAssumption, RateInv, PlaceOf
  <2>3. \A q \in Source \cup {"none"} : PlaceOf(q)' = PlaceOf(q)
    BY <2>1 DEF PlaceOf
  <2>4. QED  BY <1>3, <2>1, <2>2, <2>3 DEF RateInv
<1>4. CASE RateTick
  BY <1>4 DEF RateTick, RateInv, PlaceOf
<1>5. CASE UNCHANGED ratevars
  BY <1>5 DEF ratevars, RateInv, PlaceOf
<1>6. QED  BY <1>1, <1>2, <1>3, <1>4, <1>5 DEF Next, Serve

\* No source is served more often than the rate in any window, wherever it begins, and
\* none is refused without having been served in the window (ntp_rate_allow).
THEOREM RateHolds ==
  ASSUME RateAssumption
  PROVE  Spec => []RateBounded
<1>1. Init => RateInv
  BY RateInit
<1>2. RateInv /\ [Next]_ratevars => RateInv'
  BY RateStep
<1>3. RateInv => RateBounded
  <2>1. SUFFICES ASSUME RateInv, NEW s \in Source
                 PROVE  /\ Len(answered[s]) > Rate =>
                             answered[s][Len(answered[s])] - answered[s][Len(answered[s]) - Rate] > RateWindow
                        /\ s \in refused => moment - answered[s][Len(answered[s])] <= RateWindow
    BY DEF RateBounded
  <2>2. CASE PlaceOf(s) = {}
    <3>1. answered[s] = <<>> /\ s \notin refused
      BY <2>1, <2>2 DEF RateInv
    <3>2. ~(Len(answered[s]) > Rate)
      BY <3>1 DEF RateAssumption
    <3>3. QED  BY <3>1, <3>2
  <2>3. CASE PlaceOf(s) # {}
    <3>1. PICK p \in 1..Places : table[p].addr = s
      BY <2>3 DEF PlaceOf
    <3>2. Counts(table[p].last, table[p].count, answered[s])
      BY <2>1, <3>1 DEF RateInv
    <3>3. \A q \in PlaceOf(s) : q = p
      BY <2>1, <3>1 DEF PlaceOf, RateInv, RateAssumption
    <3>4. s \in refused => moment - table[p].last <= RateWindow
      BY <2>1, <3>3 DEF RateInv
    <3>5. QED  BY <3>2, <3>4 DEF Counts
  <2>4. QED  BY <2>2, <2>3
<1>4. QED  BY <1>1, <1>2, <1>3, PTL DEF Spec
-----------------------------------------------------------------------------
(* The types.                                                              *)

Counted == moment <= RateTimeMax /\ \A p \in 1..Places : table[p].count <= Rate

LEMMA CountedStep ==
  ASSUME RateAssumption, RateInv, Counted, [Next]_ratevars
  PROVE  Counted'
<1>1. ASSUME NEW s, NEW p, NEW n, NEW before, n <= Rate, Put(s, p, n, before)
      PROVE  Counted'
  <2> DEFINE e == [addr |-> s, last |-> moment, count |-> n]
  <2>1. table' = [table EXCEPT ![p] = e] /\ moment' = moment
    BY <1>1 DEF Put
  <2>2. e.count = n
    OBVIOUS
  <2> HIDE DEF e
  <2>3. DOMAIN table = 1..Places
    BY DEF RateInv
  <2>4. \A q \in 1..Places : table'[q] = IF q = p THEN e ELSE table[q]
    BY <2>1, <2>3
  <2>5. QED  BY <1>1, <2>1, <2>2, <2>4 DEF Counted
<1>2. ASSUME NEW s \in Source, Serve(s) PROVE Counted'
  <2>1. \A p \in PlaceOf(s) : CountNow(table[p]) < Rate => CountNow(table[p]) + 1 <= Rate
    <3>1. SUFFICES ASSUME NEW p \in PlaceOf(s), CountNow(table[p]) < Rate
                   PROVE  CountNow(table[p]) + 1 <= Rate
      OBVIOUS
    <3>2. table[p].count \in Nat
      BY DEF PlaceOf, RateInv
    <3>3. CountNow(table[p]) \in Nat
      BY <3>2 DEF CountNow
    <3>4. QED  BY <3>1, <3>3 DEF RateAssumption
  <2>2. 1 <= Rate
    BY DEF RateAssumption
  <2>3. QED  BY <1>1, <1>2, <2>1, <2>2 DEF Serve
<1>3. ASSUME NEW s \in Source, Refuse(s) PROVE Counted'
  BY <1>3 DEF Refuse, Counted
<1>4. CASE RateTick
  BY <1>4 DEF RateTick, Counted, RateInv, RateAssumption
<1>5. CASE UNCHANGED ratevars
  BY <1>5 DEF ratevars, Counted
<1>6. QED  BY <1>2, <1>3, <1>4, <1>5 DEF Next

\* Every variable keeps its type: no count goes over the rate, and no source has two places.
THEOREM TypeCorrect ==
  ASSUME RateAssumption
  PROVE  Spec => []TypeOK
<1>1. Init => RateInv /\ Counted
  BY RateInit DEF Init, Free, Counted, RateAssumption
<1>2. RateInv /\ Counted /\ [Next]_ratevars => RateInv' /\ Counted'
  BY RateStep, CountedStep
<1>3. RateInv /\ Counted => TypeOK
  <2>1. SUFFICES ASSUME RateInv, Counted PROVE TypeOK
    OBVIOUS
  <2>2. \A p \in 1..Places : table[p] \in [addr : Source \cup {"none"}, last : 0..moment, count : 0..Rate]
    <3>1. SUFFICES ASSUME NEW p \in 1..Places
                   PROVE  table[p] \in [addr : Source \cup {"none"}, last : 0..moment, count : 0..Rate]
      OBVIOUS
    <3>2. table[p] \in [addr : Source \cup {"none"}, last : Nat, count : Nat]
      BY <2>1 DEF RateInv
    <3>3. table[p].last <= moment /\ table[p].count <= Rate
      BY <2>1 DEF RateInv, Counted
    <3>4. moment \in Nat /\ Rate \in Nat
      BY <2>1 DEF RateInv, RateAssumption
    <3>5. QED  BY <3>2, <3>3, <3>4
  <2>3. moment \in 0..RateTimeMax
    BY <2>1 DEF RateInv, Counted, RateAssumption
  <2>4. QED  BY <2>1, <2>2, <2>3 DEF RateInv, TypeOK
<1>4. QED  BY <1>1, <1>2, <1>3, PTL DEF Spec
=============================================================================
