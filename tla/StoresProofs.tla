---------------------------- MODULE StoresProofs ----------------------------
(***************************************************************************)
(* The registry of the tester feed and the events it delivers, for any     *)
(* number of consumers, connections, buffers and pieces of an event; the   *)
(* in-flight tables, for any clients, slots and sizes of messages; and the *)
(* retained store, for any topics, payloads and limits.                    *)
(***************************************************************************)
EXTENDS MCStores, SequenceTheorems, FiniteSetTheorems, TLAPS

-----------------------------------------------------------------------------
(* Types *)

\* There is an event to send only when one was published.
EventExists == fanout # "idle" => seq > 0

\* The slot a connection holds is registered with its buffer, and each buffer
\* there is belongs to one connection.
Holds(c) == conn[c].where \in {"registered", "running", "closing"}

OwnBuffer ==
  /\ \A c \in Conn : conn[c].where # "idle" => conn[c].sb \in allocated
  /\ \A c, d \in Conn : c # d /\ conn[c].where # "idle" /\ conn[d].where # "idle"
                         => conn[c].sb # conn[d].sb

OwnSlot ==
  /\ \A c \in Conn : Holds(c) => conn[c].slot \in Consumer
                                  /\ consumers[conn[c].slot] = conn[c].sb
  /\ \A i \in Registered : \E c \in Conn : Holds(c) /\ conn[c].slot = i

OneUpgrade ==
  /\ \A c, d \in Upgrading : c = d
  /\ \A c \in Conn : conn[c].where = "created" => Free # {}

Counted == count = Cardinality(Registered)

RegistryInv == TypeOK /\ EventExists /\ OwnBuffer /\ OwnSlot /\ OneUpgrade /\ Counted

LEMMA RegisteredFinite ==
  ASSUME NEW S \in SUBSET Consumer
  PROVE  IsFiniteSet(S) /\ Cardinality(S) \in 0..NConsumers
<1>1. IsFiniteSet(Consumer) /\ Cardinality(Consumer) = NConsumers
  BY FS_Interval, FeedAssumption DEF Consumer
<1>2. IsFiniteSet(S) /\ Cardinality(S) <= Cardinality(Consumer)
  BY <1>1, FS_Subset
<1>3. Cardinality(S) \in Nat
  BY <1>2, FS_CardinalityType
<1>4. QED  BY <1>1, <1>2, <1>3, FeedAssumption

\* A step that moves a connection on.
LEMMA Moved ==
  ASSUME TypeOK, NEW c \in Conn, NEW w \in Where, conn' = [conn EXCEPT ![c].where = w]
  PROVE  /\ conn' \in [Conn -> Ctx]
         /\ conn'[c].where = w /\ conn'[c].sb = conn[c].sb /\ conn'[c].slot = conn[c].slot
         /\ \A d \in Conn \ {c} : conn'[d] = conn[d]
<1>1. \A x \in Ctx : LET y == [x EXCEPT !.where = w] IN
        y \in Ctx /\ y.where = w /\ y.sb = x.sb /\ y.slot = x.slot
  BY DEF Ctx
<1>2. conn[c] \in Ctx /\ conn'[c] = [conn[c] EXCEPT !.where = w]
  BY DEF TypeOK
<1>3. QED  BY <1>1, <1>2 DEF TypeOK

LEMMA MinOfTwo ==
  ASSUME NEW a \in Int, NEW b \in Int
  PROVE  Min({a, b}) = IF a <= b THEN a ELSE b
<1>1. \E x \in {a, b} : \A y \in {a, b} : x <= y
  OBVIOUS
<1>2. Min({a, b}) \in {a, b} /\ \A y \in {a, b} : Min({a, b}) <= y
  BY <1>1 DEF Min
<1>3. QED  BY <1>2

LEMMA FunctionIsSeq ==
  ASSUME NEW S, NEW m \in Nat, NEW f \in [1..m -> S]
  PROVE  f \in Seq(S) /\ Len(f) = m
<1>1. f \in Seq(S)
  BY DEF Seq
<1>2. DOMAIN f = 1..m /\ DOMAIN f = 1..Len(f) /\ Len(f) \in Nat
  BY <1>1, LenProperties
<1>3. QED  BY <1>2

\* What Send appends is the beginning of the event, as much as there is room for.
LEMMA WrittenIs ==
  ASSUME TypeOK, seq > 0, NEW d \in Seq(Piece),
         NEW n \in Int, n = Min({Capacity - Len(d), PieceCount})
  PROVE  /\ Written(d) \in Seq(Piece)
         /\ Len(Written(d)) = Len(d) + (IF n > 0 THEN n ELSE 0)
         /\ \A k \in 1..Len(d) : Written(d)[k] = d[k]
         /\ \A k \in 1..n : Written(d)[Len(d) + k] = [seq |-> seq, part |-> k]
<1> DEFINE e == [p \in 1..n |-> [seq |-> seq, part |-> p]]
<1>1. Len(d) \in Nat /\ PieceCount \in Nat /\ Capacity - Len(d) \in Int
  <2>1. PieceCount * NEvents \in Int
    BY FeedAssumption
  <2>2. QED  BY <2>1, LenProperties, FeedAssumption DEF Capacity
<1>2. n \in Int /\ n <= PieceCount
  BY <1>1, MinOfTwo
<1>3. \A k \in 1..n : e[k] \in Piece
  BY <1>1, <1>2 DEF Piece, TypeOK
<1>4. e \in Seq(Piece) /\ Len(e) = IF n > 0 THEN n ELSE 0
  <2>1. PICK m \in Nat : 1..n = 1..m /\ m = IF n > 0 THEN n ELSE 0
    <3>1. CASE n > 0
      BY <3>1
    <3>2. CASE ~(n > 0)
      BY <3>2
    <3>3. QED  BY <3>1, <3>2
  <2>2. e = [p \in 1..m |-> [seq |-> seq, part |-> p]]
    BY <2>1
  <2>3. \A p \in 1..m : [seq |-> seq, part |-> p] \in Piece
    BY <1>3, <2>1
  <2>4. e \in [1..m -> Piece]
    BY <2>2, <2>3
  <2> HIDE DEF e
  <2>5. e \in Seq(Piece) /\ Len(e) = m
    BY <2>4, FunctionIsSeq
  <2>6. QED  BY <2>1, <2>5
<1>5. /\ d \o e \in Seq(Piece) /\ Len(d \o e) = Len(d) + Len(e)
      /\ \A k \in 1..(Len(d) + Len(e)) : (d \o e)[k] = IF k <= Len(d) THEN d[k] ELSE e[k - Len(d)]
  BY <1>4, ConcatProperties
<1>6. Written(d) = d \o e
  BY DEF Written
<1>7. \A k \in 1..n : e[k] = [seq |-> seq, part |-> k]
  OBVIOUS
<1> HIDE DEF e
<1>8. Len(e) = IF n > 0 THEN n ELSE 0
  BY <1>4
<1>9. ASSUME NEW k \in 1..n
      PROVE  Written(d)[Len(d) + k] = [seq |-> seq, part |-> k]
  <2>1. Len(e) = n /\ Len(d) + k \in 1..(Len(d) + Len(e)) /\ ~(Len(d) + k <= Len(d))
    BY <1>1, <1>2, <1>8
  <2>2. (d \o e)[Len(d) + k] = e[Len(d) + k - Len(d)] /\ Len(d) + k - Len(d) = k
    <3>1. (d \o e)[Len(d) + k] = e[Len(d) + k - Len(d)]
      BY <1>5, <2>1
    <3>2. QED  BY <1>1, <1>2, <3>1
  <2>3. QED  BY <1>6, <1>7, <2>2
<1>10. \A k \in 1..Len(d) : Written(d)[k] = d[k]
  BY <1>1, <1>2, <1>5, <1>6, <1>8
<1>11. QED  BY <1>2, <1>5, <1>6, <1>8, <1>9, <1>10

\* What Receive takes from a buffer, and what it leaves.
LEMMA TakenIs ==
  ASSUME NEW d \in Seq(Piece), NEW n \in 0..Len(d)
  PROVE  /\ SubSeq(d, 1, n) \in Seq(Piece) /\ SubSeq(d, n + 1, Len(d)) \in Seq(Piece)
         /\ Len(SubSeq(d, 1, n)) = n /\ Len(SubSeq(d, n + 1, Len(d))) = Len(d) - n
         /\ \A k \in 1..n : SubSeq(d, 1, n)[k] = d[k]
         /\ \A k \in 1..(Len(d) - n) : SubSeq(d, n + 1, Len(d))[k] = d[n + k]
<1>1. Len(d) \in Nat /\ n \in Nat /\ \A k \in 1..Len(d) : d[k] \in Piece
  BY LenProperties, ElementOfSeq
<1>2. (\A k \in 1..n : d[k] \in Piece) /\ (\A k \in (n + 1)..Len(d) : d[k] \in Piece)
  BY <1>1
<1>3. /\ SubSeq(d, 1, n) \in Seq(Piece)
      /\ Len(SubSeq(d, 1, n)) = (IF 1 <= n THEN n - 1 + 1 ELSE 0)
      /\ \A k \in 1..(n - 1 + 1) : SubSeq(d, 1, n)[k] = d[1 + k - 1]
  BY <1>1, <1>2, SubSeqProperties
<1>4. /\ SubSeq(d, n + 1, Len(d)) \in Seq(Piece)
      /\ Len(SubSeq(d, n + 1, Len(d))) = (IF n + 1 <= Len(d) THEN Len(d) - (n + 1) + 1 ELSE 0)
      /\ \A k \in 1..(Len(d) - (n + 1) + 1) : SubSeq(d, n + 1, Len(d))[k] = d[n + 1 + k - 1]
  BY <1>1, <1>2, SubSeqProperties
<1>5. QED  BY <1>1, <1>3, <1>4

LEMMA RegistryInit == Init => RegistryInv
<1> SUFFICES ASSUME Init PROVE RegistryInv
  OBVIOUS
<1>1. Registered = {}
  BY DEF Init, Registered
<1>2. conn \in [Conn -> Ctx]
  BY DEF Init, NoCtx, Ctx, Where
<1>3. data \in [Buffer -> Seq(Piece)] /\ received \in [Conn -> Seq(Seq(Piece))]
  BY EmptySeq DEF Init
<1>4. TypeOK
  BY <1>2, <1>3, FeedAssumption DEF Init, TypeOK
<1>5. Counted
  BY <1>1, FS_EmptySet DEF Init, Counted
<1>6. EventExists /\ OwnBuffer /\ OwnSlot /\ OneUpgrade
  BY <1>1 DEF Init, EventExists, OwnBuffer, OwnSlot, OneUpgrade, NoCtx, Holds, Upgrading
<1>7. QED  BY <1>4, <1>5, <1>6 DEF RegistryInv

\* What a connection keeps in its slot is registered, and only there.
LEMMA HeldSlot ==
  ASSUME RegistryInv, NEW c \in Conn, Holds(c)
  PROVE  /\ conn[c].slot \in Registered /\ conn[c].slot \in Consumer
         /\ consumers[conn[c].slot] = conn[c].sb
         /\ \A d \in Conn : d # c /\ Holds(d) => conn[d].slot # conn[c].slot
<1>1. conn[c].sb \in Buffer /\ conn[c].where # "idle"
  BY DEF RegistryInv, OwnBuffer, TypeOK, Holds
<1>2. \A d \in Conn : Holds(d) => conn[d].where # "idle" /\ consumers[conn[d].slot] = conn[d].sb
  BY DEF RegistryInv, OwnSlot, Holds
<1>3. conn[c].slot \in Consumer /\ consumers[conn[c].slot] = conn[c].sb
  BY DEF RegistryInv, OwnSlot
<1>4. conn[c].slot \in Registered
  BY <1>1, <1>3, FeedAssumption DEF Registered
<1>5. QED  BY <1>1, <1>2, <1>3, <1>4 DEF RegistryInv, OwnBuffer

LEMMA CreateStep ==
  ASSUME RegistryInv, NEW c \in Conn, Create(c)
  PROVE  RegistryInv'
<1>1. PICK b \in Buffer \ allocated :
        /\ allocated' = allocated \cup {b}
        /\ data' = [data EXCEPT ![b] = <<>>]
        /\ conn' = [conn EXCEPT ![c] = [where |-> "created", sb |-> b, slot |-> NoSlot]]
  BY DEF Create
<1>2. conn[c].where = "idle" /\ Upgrading = {} /\ Free # {}
  BY DEF Create
<1>3. Registered' = Registered /\ Free' = Free
  BY DEF Create, registry, Registered, Free
<1>4. [where |-> "created", sb |-> b, slot |-> NoSlot] \in Ctx
  BY DEF Ctx, Where
<1>5. /\ conn' \in [Conn -> Ctx]
      /\ conn'[c].where = "created" /\ conn'[c].sb = b
      /\ \A d \in Conn \ {c} : conn'[d] = conn[d]
  BY <1>1, <1>4 DEF RegistryInv, TypeOK
<1>6. data' \in [Buffer -> Seq(Piece)] /\ received' \in [Conn -> Seq(Seq(Piece))]
  BY <1>1, EmptySeq DEF Create, RegistryInv, TypeOK
<1>7. TypeOK'
  BY <1>1, <1>5, <1>6 DEF Create, registry, broker, RegistryInv, TypeOK
<1>8. OwnBuffer'
  BY <1>1, <1>2, <1>5 DEF RegistryInv, OwnBuffer
<1>9. OwnSlot'
  BY <1>2, <1>3, <1>5 DEF Create, registry, RegistryInv, OwnSlot, Holds
<1>10. OneUpgrade'
  <2>1. Upgrading' \subseteq {c}
    BY <1>2, <1>5 DEF Upgrading
  <2>2. QED  BY <1>2, <1>3, <2>1 DEF OneUpgrade
<1>11. Counted' /\ EventExists'
  BY <1>3 DEF Create, registry, broker, RegistryInv, Counted, EventExists
<1>12. QED  BY <1>7, <1>8, <1>9, <1>10, <1>11 DEF RegistryInv

LEMMA RegisterStep ==
  ASSUME RegistryInv, NEW c \in Conn, Register(c)
  PROVE  RegistryInv'
<1>1. PICK i \in Free :
        /\ consumers' = [consumers EXCEPT ![i] = conn[c].sb]
        /\ conn' = [conn EXCEPT ![c] = [where |-> "registered", sb |-> conn[c].sb, slot |-> i]]
  BY DEF Register, First
<1>2. /\ conn[c].where = "created" /\ conn[c].sb \in Buffer /\ conn[c].sb \in allocated
      /\ i \in Consumer /\ i \notin Registered
  BY DEF Register, RegistryInv, OwnBuffer, TypeOK, Free
<1>3. /\ conn' \in [Conn -> Ctx]
      /\ conn'[c].where = "registered" /\ conn'[c].sb = conn[c].sb /\ conn'[c].slot = i
      /\ \A d \in Conn \ {c} : conn'[d] = conn[d]
  <2> DEFINE y == [where |-> "registered", sb |-> conn[c].sb, slot |-> i]
  <2>1. y \in Ctx
    BY <1>2 DEF Ctx, Where
  <2>2. QED  BY <1>1, <2>1 DEF RegistryInv, TypeOK
<1>4. /\ consumers' \in [Consumer -> Buffer \cup {NoBuffer}]
      /\ consumers'[i] = conn[c].sb /\ \A j \in Consumer \ {i} : consumers'[j] = consumers[j]
  BY <1>1, <1>2 DEF RegistryInv, TypeOK
<1>5. Registered' = Registered \cup {i}
  BY <1>2, <1>4, FeedAssumption DEF Registered
<1>6. Cardinality(Registered') = Cardinality(Registered) + 1
  <2>1. IsFiniteSet(Registered)
    BY RegisteredFinite DEF Registered
  <2>2. QED  BY <1>2, <1>5, <2>1, FS_AddElement
<1>7. Counted' /\ count' \in 0..NConsumers
  <2>1. count' = count + 1 /\ count \in 0..NConsumers /\ count = Cardinality(Registered)
    BY DEF Register, RegistryInv, Counted, TypeOK
  <2>2. Registered' \in SUBSET Consumer
    BY DEF Registered
  <2>3. Cardinality(Registered') \in 0..NConsumers
    BY <2>2, RegisteredFinite
  <2>4. QED  BY <1>6, <2>1, <2>3 DEF Counted
<1>8. TypeOK'
  BY <1>3, <1>4, <1>7 DEF Register, broker, RegistryInv, TypeOK
<1>9. OwnBuffer'
  BY <1>2, <1>3 DEF Register, RegistryInv, OwnBuffer
<1>10. OwnSlot'
  <2>1. \A d \in Conn : d # c /\ Holds(d) => conn[d].slot \in Registered /\ conn[d].slot # i
    BY <1>2, HeldSlot
  <2>2. \A d \in Conn : Holds(d)' <=> d = c \/ Holds(d)
    BY <1>3 DEF Holds
  <2>3. \A d \in Conn : Holds(d)' => conn'[d].slot \in Consumer
                                     /\ consumers'[conn'[d].slot] = conn'[d].sb
    BY <1>2, <1>3, <1>4, <2>1, <2>2 DEF RegistryInv, OwnSlot
  <2>4. \A d \in Conn : Holds(d) => d # c
    BY <1>2 DEF Holds
  <2>5. \A j \in Registered' : \E d \in Conn : Holds(d)' /\ conn'[d].slot = j
    BY <1>3, <1>5, <2>2, <2>4 DEF RegistryInv, OwnSlot
  <2>6. QED  BY <2>3, <2>5 DEF OwnSlot
<1>11. OneUpgrade'
  <2>1. \A d \in Upgrading : d = c
    BY <1>2 DEF RegistryInv, OneUpgrade, Upgrading
  <2>2. \A d \in Conn : d \in Upgrading' => d = c
    BY <1>3, <2>1 DEF Upgrading
  <2>3. \A d \in Conn : conn'[d].where = "created" => d \in Upgrading'
    BY DEF Upgrading
  <2>4. QED  BY <1>3, <2>2, <2>3 DEF OneUpgrade, Upgrading
<1>12. EventExists'
  BY DEF Register, broker, RegistryInv, EventExists
<1>13. QED  BY <1>7, <1>8, <1>9, <1>10, <1>11, <1>12 DEF RegistryInv

\* The steps that move a connection on and touch neither the registry nor the heap.
LEMMA MoveStep ==
  ASSUME RegistryInv, NEW c \in Conn, NEW w \in {"running", "closing"},
         conn[c].where \in {"registered", "running"},
         conn' = [conn EXCEPT ![c].where = w],
         UNCHANGED <<registry, allocated, data, received, broker>>
  PROVE  RegistryInv'
<1>1. w \in Where
  BY DEF Where
<1>2. /\ conn' \in [Conn -> Ctx]
      /\ conn'[c].where = w /\ conn'[c].sb = conn[c].sb /\ conn'[c].slot = conn[c].slot
      /\ \A d \in Conn \ {c} : conn'[d] = conn[d]
  BY <1>1, Moved DEF RegistryInv
<1>3. Registered' = Registered /\ Free' = Free /\ consumers' = consumers
  BY DEF registry, Registered, Free
<1>4. \A d \in Conn : Holds(d)' <=> Holds(d)
  BY <1>2 DEF Holds
<1>5. TypeOK' /\ EventExists' /\ Counted'
  BY <1>2, <1>3 DEF registry, broker, RegistryInv, TypeOK, EventExists, Counted
<1>6. OwnBuffer' /\ OwnSlot'
  BY <1>2, <1>3, <1>4 DEF RegistryInv, OwnBuffer, OwnSlot
<1>7. OneUpgrade'
  BY <1>2, <1>3 DEF RegistryInv, OneUpgrade, Upgrading
<1>8. QED  BY <1>5, <1>6, <1>7 DEF RegistryInv

LEMMA UnregisterStep ==
  ASSUME RegistryInv, NEW c \in Conn, Unregister(c)
  PROVE  RegistryInv'
<1> DEFINE i == conn[c].slot
<1>1. conn[c].where = "closing" /\ Holds(c)
  BY DEF Unregister, Holds
<1>2. /\ i \in Registered /\ i \in Consumer
      /\ \A d \in Conn : d # c /\ Holds(d) => conn[d].slot # i
  BY <1>1, HeldSlot
<1>3. /\ consumers' = [consumers EXCEPT ![i] = NoBuffer]
      /\ count' = IF count > 0 THEN count - 1 ELSE 0
  BY <1>2 DEF Unregister
<1>4. /\ conn' \in [Conn -> Ctx]
      /\ conn'[c].where = "unregistered" /\ conn'[c].sb = conn[c].sb
      /\ \A d \in Conn \ {c} : conn'[d] = conn[d]
  <2>1. "unregistered" \in Where /\ conn' = [conn EXCEPT ![c].where = "unregistered"]
    BY DEF Where, Unregister
  <2>2. QED  BY <2>1, Moved DEF RegistryInv
<1>5. /\ consumers' \in [Consumer -> Buffer \cup {NoBuffer}]
      /\ consumers'[i] = NoBuffer /\ \A j \in Consumer \ {i} : consumers'[j] = consumers[j]
  BY <1>2, <1>3 DEF RegistryInv, TypeOK
<1>6. Registered' = Registered \ {i}
  BY <1>2, <1>5 DEF Registered
<1>7. Counted' /\ count' \in 0..NConsumers
  <2>1. IsFiniteSet(Registered) /\ Cardinality(Registered) \in 0..NConsumers
    BY RegisteredFinite DEF Registered
  <2>2. Cardinality(Registered') = Cardinality(Registered) - 1
    BY <1>2, <1>6, <2>1, FS_RemoveElement
  <2>3. Cardinality(Registered) # 0
    BY <1>2, <2>1, FS_EmptySet
  <2>4. count = Cardinality(Registered)
    BY DEF RegistryInv, Counted
  <2>5. QED  BY <1>3, <2>1, <2>2, <2>3, <2>4, FeedAssumption DEF Counted
<1>8. TypeOK'
  BY <1>4, <1>5, <1>7 DEF Unregister, broker, RegistryInv, TypeOK
<1>9. OwnBuffer'
  BY <1>1, <1>4 DEF Unregister, RegistryInv, OwnBuffer
<1>10. OwnSlot'
  <2>1. \A d \in Conn : Holds(d)' <=> d # c /\ Holds(d)
    BY <1>4 DEF Holds
  <2>2. \A d \in Conn : Holds(d)' => conn'[d].slot \in Consumer
                                     /\ consumers'[conn'[d].slot] = conn'[d].sb
    BY <1>2, <1>4, <1>5, <2>1 DEF RegistryInv, OwnSlot
  <2>3. \A j \in Registered' : \E d \in Conn : Holds(d)' /\ conn'[d].slot = j
    BY <1>4, <1>6, <2>1 DEF RegistryInv, OwnSlot
  <2>4. QED  BY <2>2, <2>3 DEF OwnSlot
<1>11. OneUpgrade'
  <2>1. Free \subseteq Free'
    BY <1>6 DEF Free
  <2>2. QED  BY <1>1, <1>4, <2>1 DEF RegistryInv, OneUpgrade, Upgrading
<1>12. EventExists'
  BY DEF Unregister, broker, RegistryInv, EventExists
<1>13. QED  BY <1>7, <1>8, <1>9, <1>10, <1>11, <1>12 DEF RegistryInv

LEMMA DeleteStep ==
  ASSUME RegistryInv, NEW c \in Conn, Delete(c)
  PROVE  RegistryInv'
<1>1. conn[c].where = "unregistered"
  BY DEF Delete
<1>2. NoCtx \in Ctx /\ NoCtx.where = "idle"
  BY DEF NoCtx, Ctx, Where
<1>3. /\ conn' \in [Conn -> Ctx] /\ conn'[c].where = "idle"
      /\ \A d \in Conn \ {c} : conn'[d] = conn[d]
  BY <1>2 DEF Delete, RegistryInv, TypeOK
<1>4. Registered' = Registered /\ Free' = Free /\ consumers' = consumers
  BY DEF Delete, registry, Registered, Free
<1>5. \A d \in Conn : Holds(d)' <=> Holds(d) /\ d # c
  BY <1>3 DEF Holds
<1>6. \A d \in Conn : Holds(d) => d # c
  BY <1>1 DEF Holds
<1>7. TypeOK'
  BY <1>3, <1>4 DEF Delete, registry, broker, RegistryInv, TypeOK
<1>8. EventExists' /\ Counted'
  BY <1>4 DEF Delete, registry, broker, RegistryInv, EventExists, Counted
<1>9. OwnBuffer'
  BY <1>1, <1>3 DEF Delete, RegistryInv, OwnBuffer
<1>10. OwnSlot'
  BY <1>3, <1>4, <1>5, <1>6 DEF RegistryInv, OwnSlot
<1>11. OneUpgrade'
  BY <1>3, <1>4 DEF RegistryInv, OneUpgrade, Upgrading
<1>12. QED  BY <1>7, <1>8, <1>9, <1>10, <1>11 DEF RegistryInv

LEMMA ReceiveTypes ==
  ASSUME RegistryInv, NEW c \in Conn, Receive(c)
  PROVE  TypeOK'
<1> DEFINE b == conn[c].sb  d == data[b]  n == Min({PieceCount, Len(d)})
<1>1. b \in Buffer /\ d \in Seq(Piece) /\ Len(d) \in Nat
  BY LenProperties DEF Receive, RegistryInv, OwnBuffer, TypeOK
<1>2. n \in 0..Len(d)
  <2>1. PieceCount \in Int /\ PieceCount > 0 /\ Len(d) \in Int /\ Len(d) >= 0
    BY <1>1, FeedAssumption
  <2>2. n = IF PieceCount <= Len(d) THEN PieceCount ELSE Len(d)
    BY <2>1, MinOfTwo
  <2> HIDE DEF n, d
  <2>3. QED  BY <2>1, <2>2
<1>3. SubSeq(d, 1, n) \in Seq(Piece) /\ SubSeq(d, n + 1, Len(d)) \in Seq(Piece)
  BY <1>1, <1>2, TakenIs
<1>4. data' \in [Buffer -> Seq(Piece)]
  BY <1>1, <1>3 DEF Receive, RegistryInv, TypeOK
<1>5. received' \in [Conn -> Seq(Seq(Piece))]
  <2>1. received[c] \in Seq(Seq(Piece))
    BY DEF RegistryInv, TypeOK
  <2>2. Append(received[c], SubSeq(d, 1, n)) \in Seq(Seq(Piece))
    BY <1>3, <2>1, AppendProperties
  <2>3. QED  BY <2>2 DEF Receive, RegistryInv, TypeOK
<1>6. QED  BY <1>4, <1>5 DEF Receive, registry, broker, RegistryInv, TypeOK

LEMMA SendTypes ==
  ASSUME RegistryInv, fanout = "send", NEW i \in Pending, SendTo(i)
  PROVE  TypeOK'
<1>1. i \in Consumer /\ handles[i] \in Buffer
  BY DEF Pending, RegistryInv, TypeOK
<1>2. Capacity - Len(data[handles[i]]) \in Int /\ PieceCount \in Int
  <2>1. Len(data[handles[i]]) \in Nat
    BY <1>1, LenProperties DEF RegistryInv, TypeOK
  <2>2. PieceCount * NEvents \in Int
    BY FeedAssumption
  <2>3. QED  BY <2>1, <2>2, FeedAssumption DEF Capacity
<1>3. Min({Capacity - Len(data[handles[i]]), PieceCount}) \in Int
  BY <1>2, MinOfTwo
<1>4. Written(data[handles[i]]) \in Seq(Piece)
  BY <1>1, <1>3, WrittenIs DEF RegistryInv, TypeOK, EventExists
<1>5. data' \in [Buffer -> Seq(Piece)]
  BY <1>1, <1>4 DEF SendTo, RegistryInv, TypeOK
<1>6. handles' \in [Consumer -> Buffer \cup {NoBuffer}]
  BY <1>1 DEF SendTo, RegistryInv, TypeOK
<1>7. QED  BY <1>5, <1>6 DEF SendTo, registry, RegistryInv, TypeOK

LEMMA RegistryStep ==
  ASSUME RegistryInv, [Next]_vars
  PROVE  RegistryInv'
<1>1. ASSUME UNCHANGED <<registry, allocated, conn>>, TypeOK', EventExists'
      PROVE  RegistryInv'
  <2>1. Registered' = Registered /\ Free' = Free /\ Upgrading' = Upgrading /\ consumers' = consumers
    BY <1>1 DEF registry, Registered, Free, Upgrading
  <2>2. \A c \in Conn : Holds(c)' <=> Holds(c)
    BY <1>1 DEF Holds
  <2>3. OwnBuffer' /\ OwnSlot' /\ OneUpgrade' /\ Counted'
    BY <1>1, <2>1, <2>2 DEF registry, RegistryInv, OwnBuffer, OwnSlot, OneUpgrade, Counted
  <2>4. QED  BY <1>1, <2>3 DEF RegistryInv
<1>2. ASSUME NEW c \in Conn, Create(c) \/ Register(c) \/ Unregister(c) \/ Delete(c)
      PROVE  RegistryInv'
  BY <1>2, CreateStep, RegisterStep, UnregisterStep, DeleteStep
<1>3. ASSUME NEW c \in Conn, Spawn(c) \/ SpawnFails(c) \/ Close(c)
      PROVE  RegistryInv'
  BY <1>3, MoveStep DEF Spawn, SpawnFails, Close
<1>4. ASSUME NEW c \in Conn, Receive(c)
      PROVE  RegistryInv'
  <2>1. EventExists' /\ UNCHANGED <<registry, allocated, conn>>
    BY <1>4 DEF Receive, broker, RegistryInv, EventExists
  <2>2. QED  BY <1>1, <1>4, <2>1, ReceiveTypes
<1>5. CASE Publish
  <2>1. seq \in Nat /\ seq' \in 0..MaxEvents /\ seq' > 0
    BY <1>5, FeedAssumption DEF Publish, RegistryInv, TypeOK
  <2>2. TypeOK' /\ EventExists' /\ UNCHANGED <<registry, allocated, conn>>
    BY <1>5, <2>1 DEF Publish, registry, RegistryInv, TypeOK, EventExists
  <2>3. QED  BY <1>1, <2>2
<1>6. CASE Snapshot
  <2>1. TypeOK' /\ EventExists' /\ UNCHANGED <<registry, allocated, conn>>
    BY <1>6 DEF Snapshot, registry, RegistryInv, TypeOK, EventExists
  <2>2. QED  BY <1>1, <2>1
<1>7. CASE Send
  <2>1. PICK i \in Pending : fanout = "send" /\ SendTo(i)
    BY <1>7 DEF Send, First
  <2>2. EventExists' /\ UNCHANGED <<registry, allocated, conn>>
    BY <2>1 DEF SendTo, RegistryInv, EventExists
  <2>3. QED  BY <1>1, <2>1, <2>2, SendTypes
<1>8. CASE UNCHANGED vars
  BY <1>1, <1>8 DEF vars, registry, RegistryInv, TypeOK, EventExists
<1>9. QED
  BY <1>2, <1>3, <1>4, <1>5, <1>6, <1>7, <1>8 DEF Next

LEMMA RegistryAlways == Spec => []RegistryInv
<1>1. RegistryInv /\ [Next]_vars => RegistryInv'
  BY RegistryStep
<1>2. QED  BY <1>1, RegistryInit, PTL DEF Spec

\* The state of the feed keeps its types.
THEOREM FeedTypes == Spec => []TypeOK
<1>1. RegistryInv => TypeOK
  BY DEF RegistryInv
<1>2. QED  BY <1>1, RegistryAlways, PTL

\* What is registered exists and belongs to one connection that will give it back, on
\* the failure paths of the upgrade too; the count is right; and a connection let past
\* the early look finds a slot.
THEOREM RegistryStaysSound == Spec => []RegistrySound
<1>1. RegistryInv => RegistrySound
  BY DEF RegistryInv, OwnBuffer, OwnSlot, OneUpgrade, Counted, Holds, RegistrySound
<1>2. QED  BY <1>1, RegistryAlways, PTL

-----------------------------------------------------------------------------
(* Whole events in a buffer *)

\* A buffer holds whole events: every piece is in its place among the pieces of its
\* event, the events are in the order of their numbers, and no number comes twice.
Whole(d) ==
  /\ \E m \in 0..NEvents : Len(d) = m * PieceCount
  /\ \A k \in 1..Len(d), q \in 1..PieceCount :
       /\ k - d[k].part + q \in 1..Len(d)
       /\ d[k - d[k].part + q] = [seq |-> d[k].seq, part |-> q]
  /\ \A k, l \in 1..Len(d) :
       /\ k <= l => d[k].seq <= d[l].seq
       /\ d[k].seq = d[l].seq => l - k = d[l].part - d[k].part

LEMMA Pieces ==
  ASSUME NEW d \in Seq(Piece)
  PROVE  /\ Len(d) \in Nat
         /\ \A k \in 1..Len(d) : /\ d[k] \in Piece
                                 /\ d[k].seq \in Nat /\ d[k].part \in 1..PieceCount
                                 /\ d[k].part \in Nat
<1>1. Len(d) \in Nat /\ \A k \in 1..Len(d) : d[k] \in Piece
  BY LenProperties, ElementOfSeq
<1>2. \A x \in Piece : x.seq \in Nat /\ x.part \in 1..PieceCount /\ x.part \in Nat
  BY FeedAssumption DEF Piece
<1>3. QED  BY <1>1, <1>2

\* A buffer takes an event as a whole or not at all.
LEMMA RoomForAll ==
  ASSUME NEW d \in Seq(Piece), Whole(d),
         NEW n \in Int, n = Min({Capacity - Len(d), PieceCount})
  PROVE  n = PieceCount \/ n = 0
<1>1. PICK m \in 0..NEvents : Len(d) = m * PieceCount
  BY DEF Whole
<1>2. PieceCount \in Nat /\ NEvents \in Nat /\ m \in Nat
  BY FeedAssumption
<1>3. Capacity - Len(d) = (NEvents - m) * PieceCount
  BY <1>1, <1>2 DEF Capacity
<1>4. CASE m = NEvents
  <2>1. Capacity - Len(d) = 0
    BY <1>2, <1>3, <1>4
  <2>2. QED  BY <1>2, <2>1, MinOfTwo
<1>5. CASE m < NEvents
  <2>1. PICK r \in Nat : NEvents - m = r + 1
    <3>1. NEvents - m - 1 \in Nat /\ NEvents - m = (NEvents - m - 1) + 1
      BY <1>2, <1>5
    <3>2. QED  BY <3>1
  <2>2. (r + 1) * PieceCount = r * PieceCount + PieceCount /\ r * PieceCount \in Nat
    BY <1>2, <2>1
  <2>3. Capacity - Len(d) \in Int /\ PieceCount <= Capacity - Len(d)
    BY <1>2, <1>3, <2>1, <2>2
  <2>4. QED  BY <1>2, <2>3, MinOfTwo
<1>6. QED  BY <1>2, <1>4, <1>5

LEMMA WrittenWhole ==
  ASSUME TypeOK, seq > 0, NEW d \in Seq(Piece), Whole(d),
         \A k \in 1..Len(d) : d[k].seq < seq
  PROVE  /\ Whole(Written(d))
         /\ \A k \in 1..Len(Written(d)) :
              \/ k \in 1..Len(d) /\ Written(d)[k] = d[k]
              \/ Written(d)[k].seq = seq
<1> DEFINE P == PieceCount  w == Written(d)  L == Len(d)
<1>1. PICK n \in Int : n = Min({Capacity - Len(d), PieceCount})
  <2>1. Capacity - Len(d) \in Int /\ PieceCount \in Int
    <3>1. PieceCount * NEvents \in Int /\ Len(d) \in Nat
      BY FeedAssumption, Pieces
    <3>2. QED  BY <3>1, FeedAssumption DEF Capacity
  <2>2. QED  BY <2>1, MinOfTwo
<1>2. /\ w \in Seq(Piece) /\ Len(w) = L + (IF n > 0 THEN n ELSE 0)
      /\ \A k \in 1..L : w[k] = d[k]
      /\ \A k \in 1..n : w[L + k] = [seq |-> seq, part |-> k]
  BY <1>1, WrittenIs
<1>3. n = P \/ n = 0
  BY <1>1, RoomForAll
<1>4. /\ L \in Nat /\ P \in Nat /\ P > 0 /\ seq \in Nat
      /\ \A k \in 1..L : d[k].seq \in Nat /\ d[k].part \in 1..P /\ d[k].part \in Nat
  BY Pieces, FeedAssumption DEF TypeOK
<1>5. CASE n = 0
  <2>1. Len(w) = L /\ \A k \in 1..L : w[k] = d[k]
    BY <1>2, <1>4, <1>5
  <2>2. w = d
    BY <1>2, <2>1, SeqEqual
  <2>3. QED  BY <2>2
<1>6. CASE n = P
  <2>1. Len(w) = L + P
    BY <1>2, <1>4, <1>6
  <2>2. \A k \in 1..(L + P) : \/ k \in 1..L
                              \/ k - L \in 1..P /\ k \notin 1..L /\ w[k] = [seq |-> seq, part |-> k - L]
                                 /\ w[k].seq = seq
    <3>1. \A k \in 1..(L + P) : k \in 1..L \/ (k - L \in 1..P /\ k \notin 1..L /\ L + (k - L) = k)
      BY <1>4
    <3>2. \A k \in 1..P : w[L + k] = [seq |-> seq, part |-> k] /\ w[L + k].seq = seq
      BY <1>2, <1>6
    <3> HIDE DEF w, L, P
    <3>3. QED  BY <3>1, <3>2
  <2> HIDE DEF w, L, P
  <2>3. \E m \in 0..NEvents : Len(w) = m * PieceCount
    <3>1. PICK m \in 0..NEvents : L = m * PieceCount
      BY DEF Whole, L
    <3>2. m \in Nat /\ NEvents \in Nat /\ P \in Nat /\ P > 0
      BY <1>4, FeedAssumption
    <3>3. Len(w) = (m + 1) * PieceCount
      BY <2>1, <3>1, <3>2 DEF P
    <3>4. m # NEvents
      <4>1. CASE m = NEvents
        <5>1. Capacity - Len(d) = 0
          BY <3>1, <3>2, <4>1 DEF Capacity, L, P
        <5>2. n = 0
          BY <1>1, <3>2, <5>1, MinOfTwo DEF P
        <5>3. QED  BY <1>6, <3>2, <5>2
      <4>2. QED  BY <4>1
    <3>5. m + 1 \in 0..NEvents
      BY <3>2, <3>4
    <3>6. QED  BY <3>3, <3>5
  <2>4. ASSUME NEW k \in 1..(L + P), NEW q \in 1..P
        PROVE  /\ k - w[k].part + q \in 1..(L + P)
               /\ w[k - w[k].part + q] = [seq |-> w[k].seq, part |-> q]
    <3>1. CASE k \in 1..L
      <4>1. w[k] = d[k]
        BY <1>2, <3>1 DEF L
      <4>2. /\ k - d[k].part + q \in 1..L
            /\ d[k - d[k].part + q] = [seq |-> d[k].seq, part |-> q]
        BY <3>1 DEF Whole, L, P
      <4>3. k - d[k].part + q \in 1..(L + P)
        BY <1>4, <4>2
      <4>4. QED  BY <1>2, <4>1, <4>2, <4>3
    <3>2. CASE k - L \in 1..P /\ w[k] = [seq |-> seq, part |-> k - L]
      <4>1. w[k].part = k - L /\ w[k].seq = seq /\ k - (k - L) + q = L + q
        BY <1>4, <3>2
      <4>2. L + q \in 1..(L + P)
        BY <1>4
      <4>3. w[L + q] = [seq |-> seq, part |-> q]
        BY <1>2, <1>6
      <4>4. QED  BY <4>1, <4>2, <4>3
    <3>3. QED  BY <2>2, <3>1, <3>2
  <2>5. ASSUME NEW k \in 1..(L + P), NEW l \in 1..(L + P)
        PROVE  /\ k <= l => w[k].seq <= w[l].seq
               /\ w[k].seq = w[l].seq => l - k = w[l].part - w[k].part
    <3>1. CASE k \in 1..L /\ l \in 1..L
      <4>1. w[k] = d[k] /\ w[l] = d[l]
        BY <1>2, <3>1
      <4>2. QED  BY <3>1, <4>1 DEF Whole, L
    <3>2. CASE k \in 1..L /\ l \notin 1..L
      <4>1. w[k] = d[k] /\ d[k].seq < seq /\ w[l].seq = seq /\ d[k].seq \in Nat
        BY <1>2, <1>4, <2>2, <3>2 DEF L
      <4>2. QED  BY <1>4, <4>1
    <3>3. CASE k \notin 1..L /\ l \in 1..L
      <4>1. w[l] = d[l] /\ d[l].seq < seq /\ w[k].seq = seq /\ d[l].seq \in Nat
        BY <1>2, <1>4, <2>2, <3>3 DEF L
      <4>2. ~(k <= l)
        BY <1>4, <3>3
      <4>3. QED  BY <1>4, <4>1, <4>2
    <3>4. CASE k \notin 1..L /\ l \notin 1..L
      <4>1. w[k] = [seq |-> seq, part |-> k - L] /\ w[l] = [seq |-> seq, part |-> l - L]
        BY <2>2, <3>4
      <4>2. (l - L) - (k - L) = l - k
        BY <1>4
      <4>3. QED  BY <1>4, <4>1, <4>2
    <3>5. QED  BY <3>1, <3>2, <3>3, <3>4
  <2>6. \A k \in 1..(L + P) : (k \in 1..L /\ w[k] = d[k]) \/ w[k].seq = seq
    BY <1>2, <2>2
  <2>7. Whole(w)
    <3>1. /\ \A k \in 1..Len(w), q \in 1..PieceCount :
               /\ k - w[k].part + q \in 1..Len(w)
               /\ w[k - w[k].part + q] = [seq |-> w[k].seq, part |-> q]
      BY <2>1, <2>4 DEF P
    <3>2. \A k, l \in 1..Len(w) :
            /\ k <= l => w[k].seq <= w[l].seq
            /\ w[k].seq = w[l].seq => l - k = w[l].part - w[k].part
      BY <2>1, <2>5
    <3>3. QED  BY <2>3, <3>1, <3>2 DEF Whole
  <2>8. QED  BY <2>1, <2>6, <2>7 DEF w, L
<1>7. QED  BY <1>3, <1>5, <1>6

\* A task that finds anything in its buffer finds a whole event, and leaves whole ones.
LEMMA TakenWhole ==
  ASSUME NEW d \in Seq(Piece), Whole(d), Len(d) > 0,
         NEW n, n = Min({PieceCount, Len(d)})
  PROVE  /\ n = PieceCount /\ n \in 1..Len(d)
         /\ \A k \in 1..PieceCount : d[k] = [seq |-> d[1].seq, part |-> k]
         /\ Whole(SubSeq(d, n + 1, Len(d)))
         /\ \A k \in 1..(Len(d) - n) : d[1].seq < d[n + k].seq
<1> DEFINE P == PieceCount  L == Len(d)  r == SubSeq(d, n + 1, Len(d))
<1>1. /\ L \in Nat /\ L > 0 /\ P \in Nat /\ P > 0 /\ NEvents \in Nat
      /\ \A k \in 1..L : d[k].seq \in Nat /\ d[k].part \in 1..P /\ d[k].part \in Nat
  BY Pieces, FeedAssumption
<1>2. PICK m \in 1..NEvents : L = m * PieceCount
  <2>1. PICK m \in 0..NEvents : L = m * PieceCount
    BY DEF Whole
  <2>2. m # 0
    BY <1>1, <2>1
  <2>3. m \in 1..NEvents
    BY <1>1, <2>1, <2>2
  <2>4. QED  BY <2>1, <2>3
<1>3. PICK j \in Nat : m = j + 1 /\ L = j * PieceCount + P /\ j * PieceCount \in Nat /\ j \in 0..NEvents
  <2>1. m - 1 \in Nat /\ m = (m - 1) + 1 /\ m - 1 \in 0..NEvents
    BY <1>1, <1>2
  <2>2. ((m - 1) + 1) * P = (m - 1) * P + P /\ (m - 1) * P \in Nat
    BY <1>1, <2>1
  <2>3. QED  BY <1>2, <2>1, <2>2
<1>4. n = P /\ n \in 1..L
  <2>1. P <= L
    BY <1>1, <1>3
  <2>2. QED  BY <1>1, <2>1, MinOfTwo
<1>5. \A k \in 1..P : /\ d[k] = [seq |-> d[1].seq, part |-> k]
                      /\ d[k].seq = d[1].seq /\ d[k].part = k
  <2>1. 1 \in 1..L /\ 1 \in 1..P
    BY <1>1
  <2>2. 1 - d[1].part + 1 \in 1..L
    BY <2>1 DEF Whole
  <2>3. d[1].part = 1
    BY <1>1, <2>1, <2>2
  <2>4. ASSUME NEW k \in 1..P
        PROVE  /\ d[k] = [seq |-> d[1].seq, part |-> k]
               /\ d[k].seq = d[1].seq /\ d[k].part = k
    <3>1. d[1 - d[1].part + k] = [seq |-> d[1].seq, part |-> k]
      BY <2>1 DEF Whole
    <3>2. 1 - d[1].part + k = k
      BY <1>1, <2>3
    <3>3. QED  BY <3>1, <3>2
  <2>5. QED  BY <2>4
<1>6. \A k \in 1..(L - n) : d[1].seq < d[n + k].seq
  <2> SUFFICES ASSUME NEW k \in 1..(L - n)
               PROVE  d[1].seq < d[n + k].seq
    OBVIOUS
  <2>1. 1 \in 1..L /\ n + k \in 1..L /\ 1 <= n + k /\ 1 \in 1..P
    BY <1>1, <1>4
  <2>2. d[1].seq <= d[n + k].seq
    BY <2>1 DEF Whole
  <2>3. d[1].seq # d[n + k].seq
    <3>1. SUFFICES ASSUME d[1].seq = d[n + k].seq
                   PROVE  FALSE
      OBVIOUS
    <3>2. (n + k) - 1 = d[n + k].part - d[1].part
      BY <2>1, <3>1 DEF Whole
    <3>3. d[1].part = 1 /\ d[n + k].part \in 1..P
      <4>1. d[1].part = 1
        BY <1>5, <2>1
      <4>2. d[n + k].part \in 1..P
        BY <1>1, <2>1
      <4>3. QED  BY <4>1, <4>2
    <3>4. QED  BY <1>1, <1>4, <3>2, <3>3
  <2>4. QED  BY <1>1, <2>1, <2>2, <2>3
<1>7. /\ r \in Seq(Piece) /\ Len(r) = L - n
      /\ \A k \in 1..(L - n) : r[k] = d[n + k]
  <2>1. n \in 0..Len(d)
    BY <1>1, <1>4
  <2>2. QED  BY <2>1, TakenIs
<1>8. Whole(r)
  <2>1. \E i \in 0..NEvents : Len(r) = i * PieceCount
    <3>1. L - n = j * PieceCount
      BY <1>1, <1>3, <1>4
    <3>2. QED  BY <1>3, <1>7, <3>1
  <2> HIDE DEF r
  <2>2. ASSUME NEW k \in 1..(L - n), NEW q \in 1..P
        PROVE  /\ k - r[k].part + q \in 1..(L - n)
               /\ r[k - r[k].part + q] = [seq |-> r[k].seq, part |-> q]
    <3> DEFINE p == d[n + k].part  o == k - p + q
    <3>1. n + k \in 1..L /\ k \in Nat /\ q \in Nat /\ n \in Nat
      BY <1>1, <1>4
    <3>2. r[k] = d[n + k] /\ p \in 1..P /\ p \in Nat /\ d[n + k].seq \in Nat
      BY <1>1, <1>7, <3>1
    <3>3. (n + k) - p + q \in 1..L /\ d[(n + k) - p + q] = [seq |-> d[n + k].seq, part |-> q]
      BY <3>1 DEF Whole
    <3>4. (n + k) - p + q = n + o
      <4>1. p \in Int /\ n \in Int /\ k \in Int /\ q \in Int
        <5>1. p \in Nat
          BY <3>2
        <5> HIDE DEF p
        <5>2. QED  BY <3>1, <5>1
      <4>2. \A x, y, z, u \in Int : (x + y) - z + u = x + (y - z + u)
        OBVIOUS
      <4> HIDE DEF p
      <4>3. (n + k) - p + q = n + (k - p + q)
        BY <4>1, <4>2
      <4>4. QED  BY <4>3 DEF o
    <3>5. o \in Int
      <4>1. p \in Nat
        BY <3>2
      <4> HIDE DEF p
      <4>2. QED  BY <3>1, <4>1
    <3>6. n + o \in 1..L /\ d[n + o] = [seq |-> d[n + k].seq, part |-> q]
      BY <3>3, <3>4
    <3>7. ~(n + o \in 1..P)
      <4>1. SUFFICES ASSUME n + o \in 1..P
                     PROVE  FALSE
        OBVIOUS
      <4>2. d[n + o].seq = d[1].seq
        BY <1>5, <4>1
      <4>3. d[n + o].seq = d[n + k].seq
        BY <3>6
      <4>4. d[1].seq < d[n + k].seq /\ d[1].seq \in Nat
        <5>1. 1 \in 1..L
          BY <1>1
        <5>2. QED  BY <1>1, <1>6, <5>1
      <4>5. QED  BY <3>2, <4>2, <4>3, <4>4
    <3>8. o \in 1..(L - n)
      <4> HIDE DEF o
      <4>1. QED  BY <1>1, <1>4, <3>5, <3>6, <3>7
    <3>9. r[o] = d[n + o]
      BY <1>7, <3>8
    <3>10. QED  BY <3>2, <3>6, <3>8, <3>9
  <2>3. ASSUME NEW k \in 1..(L - n), NEW l \in 1..(L - n)
        PROVE  /\ k <= l => r[k].seq <= r[l].seq
               /\ r[k].seq = r[l].seq => l - k = r[l].part - r[k].part
    <3>1. n + k \in 1..L /\ n + l \in 1..L /\ (k <= l => n + k <= n + l) /\ (n + l) - (n + k) = l - k
      BY <1>1, <1>4
    <3>2. r[k] = d[n + k] /\ r[l] = d[n + l]
      BY <1>7
    <3>3. /\ n + k <= n + l => d[n + k].seq <= d[n + l].seq
          /\ d[n + k].seq = d[n + l].seq => (n + l) - (n + k) = d[n + l].part - d[n + k].part
      BY <3>1 DEF Whole
    <3>4. QED  BY <3>1, <3>2, <3>3
  <2>4. /\ \A k \in 1..Len(r), q \in 1..PieceCount :
             /\ k - r[k].part + q \in 1..Len(r)
             /\ r[k - r[k].part + q] = [seq |-> r[k].seq, part |-> q]
    BY <1>7, <2>2
  <2>5. \A k, l \in 1..Len(r) :
          /\ k <= l => r[k].seq <= r[l].seq
          /\ r[k].seq = r[l].seq => l - k = r[l].part - r[k].part
    BY <1>7, <2>3
  <2>6. QED  BY <2>1, <2>4, <2>5 DEF Whole
<1>9. QED  BY <1>4, <1>5, <1>6, <1>8

-----------------------------------------------------------------------------
(* The stream: the events in the buffers and those the tasks have emitted *)

\* The event numbered seq is still to be sent to buffer b.
Upcoming(b) == fanout = "event" \/ (fanout = "send" /\ \E i \in Pending : handles[i] = b)

\* An event numbered n that has been sent to b.
Sent(b, n) == n \in 0..seq /\ (Upcoming(b) => n # seq)

Held(b) == {data[b][k].seq : k \in 1..Len(data[b])}
Emitted(c) == {received[c][k][1].seq : k \in DOMAIN received[c]}

SentOnce == \A i, j \in Pending : handles[i] = handles[j] => i = j

BuffersInOrder ==
  \A b \in Buffer : Whole(data[b]) /\ \A n \in Held(b) : Sent(b, n)

\* What a task has emitted is older than what its buffer holds.
TasksInOrder ==
  /\ \A c \in Conn : conn[c].where \in {"created", "registered"} => received[c] = <<>>
  /\ \A c \in Conn, b \in Buffer : conn[c].where = "running" /\ conn[c].sb = b
       => \A n \in Emitted(c) : Sent(b, n) /\ \A m \in Held(b) : n < m

StreamInv == SentOnce /\ BuffersInOrder /\ TasksInOrder /\ WholeEventsInOrder

LEMMA NothingIsWhole == Whole(<<>>)
<1>1. Len(<<>>) = 0 /\ 0 \in 0..NEvents /\ 0 = 0 * PieceCount
  BY FeedAssumption
<1>2. QED  BY <1>1 DEF Whole

LEMMA StreamInit == ASSUME Init PROVE StreamInv
<1>1. SentOnce
  BY DEF Init, SentOnce, Pending
<1>2. BuffersInOrder
  BY NothingIsWhole DEF Init, BuffersInOrder, Held
<1>3. TasksInOrder /\ WholeEventsInOrder
  BY DEF Init, TasksInOrder, WholeEventsInOrder, NoCtx
<1>4. QED  BY <1>1, <1>2, <1>3 DEF StreamInv

LEMMA HeldNumbers ==
  ASSUME TypeOK, NEW b \in Buffer
  PROVE  Held(b) \subseteq Nat
BY Pieces DEF TypeOK, Held

\* A step of the sender that leaves the buffers alone.
LEMMA SenderStep ==
  ASSUME StreamInv, UNCHANGED <<data, conn, received>>, SentOnce',
         \A b \in Buffer, n \in Nat : Sent(b, n) => Sent(b, n)'
  PROVE  StreamInv'
<1>1. /\ \A b \in Buffer : Held(b)' = Held(b) /\ data'[b] = data[b]
      /\ \A c \in Conn : Emitted(c)' = Emitted(c) /\ conn'[c] = conn[c] /\ received'[c] = received[c]
  BY DEF Held, Emitted
<1>2. \A b \in Buffer : \A n : Sent(b, n) => Sent(b, n)'
  BY DEF Sent
<1>3. BuffersInOrder'
  BY <1>1, <1>2 DEF StreamInv, BuffersInOrder
<1>4. TasksInOrder'
  BY <1>1, <1>2 DEF StreamInv, TasksInOrder
<1>5. WholeEventsInOrder'
  BY DEF StreamInv, WholeEventsInOrder
<1>6. QED  BY <1>3, <1>4, <1>5 DEF StreamInv

\* A step of a connection, of which the sender knows nothing.
LEMMA ConnStep ==
  ASSUME StreamInv, UNCHANGED <<broker, data, received>>, NEW c \in Conn,
         \A d \in Conn \ {c} : conn'[d] = conn[d],
         conn'[c].where = "running" => conn[c].where = "registered",
         conn'[c].where \in {"created", "registered"} => conn[c].where \in {"created", "registered"}
  PROVE  StreamInv'
<1>1. /\ Pending' = Pending /\ handles' = handles
      /\ \A b \in Buffer : Held(b)' = Held(b) /\ data'[b] = data[b]
      /\ \A d \in Conn : Emitted(d)' = Emitted(d) /\ received'[d] = received[d]
  BY DEF broker, Pending, Held, Emitted
<1>2. \A b \in Buffer : \A n : Sent(b, n)' <=> Sent(b, n)
  BY <1>1 DEF broker, Sent, Upcoming
<1>3. SentOnce'
  BY <1>1 DEF StreamInv, SentOnce
<1>4. BuffersInOrder'
  BY <1>1, <1>2 DEF StreamInv, BuffersInOrder
<1>5. TasksInOrder'
  <2>1. \A d \in Conn : conn'[d].where \in {"created", "registered"} => received'[d] = <<>>
    BY <1>1 DEF StreamInv, TasksInOrder
  <2>2. conn'[c].where = "running" => Emitted(c)' = {}
    BY <1>1 DEF StreamInv, TasksInOrder, Emitted
  <2>3. QED  BY <1>1, <1>2, <2>1, <2>2 DEF StreamInv, TasksInOrder
<1>6. WholeEventsInOrder'
  BY DEF StreamInv, WholeEventsInOrder
<1>7. QED  BY <1>3, <1>4, <1>5, <1>6 DEF StreamInv

\* A new buffer is empty, and so is what its task has emitted.
LEMMA CreateStream ==
  ASSUME RegistryInv, StreamInv, NEW c \in Conn, Create(c)
  PROVE  StreamInv'
<1>1. PICK b \in Buffer \ allocated :
        /\ data' = [data EXCEPT ![b] = <<>>]
        /\ conn' = [conn EXCEPT ![c] = [where |-> "created", sb |-> b, slot |-> NoSlot]]
  BY DEF Create
<1>2. received' = [received EXCEPT ![c] = <<>>] /\ UNCHANGED <<seq, handles, fanout>>
  BY DEF Create, broker
<1>3. /\ data'[b] = <<>> /\ \A a \in Buffer \ {b} : data'[a] = data[a]
      /\ conn'[c].where = "created" /\ \A d \in Conn \ {c} : conn'[d] = conn[d]
      /\ received'[c] = <<>> /\ \A d \in Conn \ {c} : received'[d] = received[d]
  BY <1>1, <1>2 DEF RegistryInv, TypeOK
<1>4. /\ Held(b)' = {} /\ \A a \in Buffer \ {b} : Held(a)' = Held(a)
      /\ Emitted(c)' = {} /\ \A d \in Conn \ {c} : Emitted(d)' = Emitted(d)
  BY <1>3 DEF Held, Emitted
<1>5. /\ Pending' = Pending
      /\ \A a \in Buffer : \A n : Sent(a, n)' <=> Sent(a, n)
  BY <1>2 DEF Pending, Sent, Upcoming
<1>6. SentOnce'
  BY <1>2, <1>5 DEF StreamInv, SentOnce
<1>7. BuffersInOrder'
  BY <1>3, <1>4, <1>5, NothingIsWhole DEF StreamInv, BuffersInOrder
<1>8. TasksInOrder'
  <2>1. \A d \in Conn : conn[d].where = "running" => conn[d].sb # b
    BY DEF RegistryInv, OwnBuffer
  <2>2. QED  BY <1>3, <1>4, <1>5, <2>1 DEF StreamInv, TasksInOrder
<1>9. WholeEventsInOrder'
  BY <1>3 DEF StreamInv, WholeEventsInOrder
<1>10. QED  BY <1>6, <1>7, <1>8, <1>9 DEF StreamInv

LEMMA SendStream ==
  ASSUME RegistryInv, StreamInv, fanout = "send", NEW i \in Pending, SendTo(i)
  PROVE  StreamInv'
<1>1. PICK b \in Buffer : b = handles[i]
  BY DEF Pending, RegistryInv, TypeOK
<1>2. /\ data' = IF b \in allocated THEN [data EXCEPT ![b] = Written(data[b])] ELSE data
      /\ handles' = [handles EXCEPT ![i] = NoBuffer]
      /\ fanout' = IF Pending = {i} THEN "idle" ELSE "send"
      /\ UNCHANGED <<conn, seq, received>>
  BY <1>1 DEF SendTo
<1>3. /\ Pending' = Pending \ {i} /\ \A j \in Pending' : handles'[j] = handles[j]
      /\ i \in Consumer
  BY <1>2 DEF RegistryInv, TypeOK, Pending
<1>4. SentOnce'
  BY <1>3 DEF StreamInv, SentOnce
<1>5. /\ \A a \in Buffer : Upcoming(a)' => Upcoming(a)
      /\ Upcoming(b) /\ ~Upcoming(b)'
  BY <1>1, <1>2, <1>3 DEF StreamInv, SentOnce, Upcoming
<1>6. seq \in Nat /\ seq > 0 /\ seq' = seq
  BY <1>2, FeedAssumption DEF RegistryInv, TypeOK, EventExists
<1>7. /\ \A a \in Buffer : \A n : Sent(a, n) => Sent(a, n)'
      /\ Sent(b, seq)'
      /\ \A n : Sent(b, n) => n \in Nat /\ n < seq
  BY <1>5, <1>6 DEF Sent
<1>8. /\ Whole(data'[b])
      /\ \A n \in Held(b)' : n \in Held(b) \/ n = seq
      /\ \A a \in Buffer \ {b} : data'[a] = data[a]
  <2>1. CASE b \notin allocated
    BY <1>2, <2>1 DEF StreamInv, BuffersInOrder, Held
  <2>2. CASE b \in allocated
    <3>1. data'[b] = Written(data[b]) /\ \A a \in Buffer \ {b} : data'[a] = data[a]
      BY <1>2, <2>2 DEF RegistryInv, TypeOK
    <3>2. data[b] \in Seq(Piece) /\ Whole(data[b])
      BY DEF RegistryInv, TypeOK, StreamInv, BuffersInOrder
    <3>3. \A k \in 1..Len(data[b]) : data[b][k].seq < seq
      BY <1>7 DEF StreamInv, BuffersInOrder, Held
    <3>4. /\ Whole(Written(data[b]))
          /\ \A k \in 1..Len(Written(data[b])) :
               \/ k \in 1..Len(data[b]) /\ Written(data[b])[k] = data[b][k]
               \/ Written(data[b])[k].seq = seq
      BY <1>6, <3>2, <3>3, WrittenWhole DEF RegistryInv
    <3>5. \A n \in Held(b)' : n \in Held(b) \/ n = seq
      <4>1. SUFFICES ASSUME NEW k \in 1..Len(data'[b])
                     PROVE  data'[b][k].seq \in Held(b) \/ data'[b][k].seq = seq
        BY <4>1 DEF Held
      <4>2. QED  BY <3>1, <3>4, <4>1 DEF Held
    <3>6. QED  BY <3>1, <3>4, <3>5
  <2>3. QED  BY <2>1, <2>2
<1>9. \A a \in Buffer \ {b} : Held(a)' = Held(a)
  BY <1>8 DEF Held
<1>10. BuffersInOrder'
  <2>1. ASSUME NEW a \in Buffer \ {b}
        PROVE  Whole(data'[a]) /\ \A n \in Held(a)' : Sent(a, n)'
    BY <1>7, <1>8, <1>9 DEF StreamInv, BuffersInOrder
  <2>2. \A n \in Held(b)' : Sent(b, n)'
    BY <1>6, <1>7, <1>8 DEF StreamInv, BuffersInOrder
  <2>3. QED  BY <1>8, <2>1, <2>2 DEF BuffersInOrder
<1>11. \A c \in Conn : Emitted(c)' = Emitted(c) /\ received'[c] = received[c] /\ conn'[c] = conn[c]
  BY <1>2 DEF Emitted
<1>12. TasksInOrder'
  <2>1. ASSUME NEW c \in Conn, NEW a \in Buffer, conn[c].where = "running", conn[c].sb = a,
               NEW n \in Emitted(c)
        PROVE  Sent(a, n)' /\ \A m \in Held(a)' : n < m
    <3>1. Sent(a, n) /\ \A m \in Held(a) : n < m
      BY <2>1 DEF StreamInv, TasksInOrder
    <3>2. QED  BY <1>7, <1>8, <1>9, <3>1
  <2>2. QED  BY <1>11, <2>1 DEF StreamInv, TasksInOrder
<1>13. WholeEventsInOrder'
  BY <1>2 DEF StreamInv, WholeEventsInOrder
<1>14. QED  BY <1>4, <1>10, <1>12, <1>13 DEF StreamInv

LEMMA ReceiveStream ==
  ASSUME RegistryInv, StreamInv, NEW c \in Conn, Receive(c)
  PROVE  StreamInv'
<1>1. PICK b \in Buffer : b = conn[c].sb
  BY DEF Receive, RegistryInv, OwnBuffer, TypeOK
<1> DEFINE d == data[b]  n == Min({PieceCount, Len(d)})  e == SubSeq(d, 1, n)
           r == SubSeq(d, n + 1, Len(d))
<1>2. /\ conn[c].where = "running" /\ n > 0
      /\ received' = IF n = PieceCount THEN [received EXCEPT ![c] = Append(received[c], e)]
                     ELSE received
      /\ data' = [data EXCEPT ![b] = r]
      /\ UNCHANGED <<conn, seq, handles, fanout>>
  BY <1>1 DEF Receive, broker
<1>3. d \in Seq(Piece) /\ Whole(d) /\ Len(d) \in Nat /\ PieceCount \in Nat /\ PieceCount > 0
  BY LenProperties, FeedAssumption DEF RegistryInv, TypeOK, StreamInv, BuffersInOrder
<1>4. Len(d) > 0
  <2> HIDE DEF d
  <2>1. n = IF PieceCount <= Len(d) THEN PieceCount ELSE Len(d)
    BY <1>3, MinOfTwo
  <2> HIDE DEF n
  <2>2. QED  BY <1>2, <1>3, <2>1
<1>5. /\ n = PieceCount /\ n \in 1..Len(d)
      /\ \A k \in 1..PieceCount : d[k] = [seq |-> d[1].seq, part |-> k]
      /\ Whole(r)
      /\ \A k \in 1..(Len(d) - n) : d[1].seq < d[n + k].seq
  BY <1>3, <1>4, TakenWhole
<1>6. /\ e \in Seq(Piece) /\ Len(e) = n /\ \A k \in 1..n : e[k] = d[k]
      /\ r \in Seq(Piece) /\ Len(r) = Len(d) - n
      /\ \A k \in 1..(Len(d) - n) : r[k] = d[n + k]
  <2>1. n \in 0..Len(d)
    <3> HIDE DEF n, d
    <3>1. QED  BY <1>3, <1>5
  <2>2. QED  BY <1>3, <2>1, TakenIs
<1>7. /\ received'[c] = Append(received[c], e)
      /\ \A x \in Conn \ {c} : received'[x] = received[x]
      /\ data'[b] = r /\ \A a \in Buffer \ {b} : data'[a] = data[a]
  BY <1>2, <1>5 DEF RegistryInv, TypeOK
<1>8. /\ \A x \in Conn \ {c} : Emitted(x)' = Emitted(x)
      /\ \A a \in Buffer \ {b} : Held(a)' = Held(a)
  BY <1>7 DEF Emitted, Held
<1> DEFINE s == d[1].seq
<1> HIDE DEF e, r, n
<1>9. 1 \in 1..Len(d) /\ s \in Held(b) /\ e[1].seq = s
  BY <1>3, <1>4, <1>5, <1>6 DEF Held
<1>10. \A m \in Held(b)' : m \in Held(b) /\ s < m
  <2>1. SUFFICES ASSUME NEW k \in 1..Len(r)
                 PROVE  r[k].seq \in Held(b) /\ s < r[k].seq
    BY <1>7, <2>1 DEF Held
  <2>2. k \in 1..(Len(d) - n) /\ n + k \in 1..Len(d)
    <3> HIDE DEF d
    <3>1. QED  BY <1>3, <1>5, <1>6
  <2>3. QED  BY <1>5, <1>6, <2>2 DEF Held
<1>11. Len(received[c]) \in Nat /\ received[c] \in Seq(Seq(Piece))
  BY LenProperties DEF RegistryInv, TypeOK
<1>12. /\ DOMAIN received'[c] = 1..(Len(received[c]) + 1)
       /\ DOMAIN received[c] = 1..Len(received[c])
       /\ \A k \in 1..Len(received[c]) : received'[c][k] = received[c][k]
       /\ received'[c][Len(received[c]) + 1] = e
  BY <1>6, <1>7, <1>11, AppendProperties, LenProperties
<1>13. \A m \in Emitted(c)' : m \in Emitted(c) \/ m = s
  <2>1. SUFFICES ASSUME NEW k \in DOMAIN received'[c]
                 PROVE  received'[c][k][1].seq \in Emitted(c) \/ received'[c][k][1].seq = s
    BY <2>1 DEF Emitted
  <2>2. k \in 1..Len(received[c]) \/ k = Len(received[c]) + 1
    BY <1>11, <1>12
  <2>3. QED  BY <1>9, <1>12, <2>2 DEF Emitted
<1>14. Pending' = Pending /\ \A a \in Buffer : \A m : Sent(a, m)' <=> Sent(a, m)
  BY <1>2 DEF Pending, Sent, Upcoming
<1>15. SentOnce'
  BY <1>2, <1>14 DEF StreamInv, SentOnce
<1>16. BuffersInOrder'
  BY <1>5, <1>7, <1>8, <1>10, <1>14 DEF StreamInv, BuffersInOrder
<1>17. TasksInOrder'
  <2>1. \A x \in Conn \ {c} : conn[x].where = "running" => conn[x].sb # b
    BY <1>1, <1>2 DEF RegistryInv, OwnBuffer
  <2>2. Sent(b, s)
    BY <1>9 DEF StreamInv, BuffersInOrder
  <2>3. \A m \in Emitted(c) : Sent(b, m) /\ \A l \in Held(b) : m < l
    BY <1>1, <1>2 DEF StreamInv, TasksInOrder
  <2>4. \A m \in Emitted(c)' : Sent(b, m)' /\ \A l \in Held(b)' : m < l
    BY <1>10, <1>13, <1>14, <2>2, <2>3
  <2>5. \A x \in Conn \ {c} : conn[x].where \in {"created", "registered"} => received[x] = <<>>
    BY DEF StreamInv, TasksInOrder
  <2>6. \A x \in Conn \ {c}, a \in Buffer : conn[x].where = "running" /\ conn[x].sb = a
          => \A m \in Emitted(x) : Sent(a, m) /\ \A l \in Held(a) : m < l
    BY DEF StreamInv, TasksInOrder
  <2>7. QED  BY <1>1, <1>2, <1>7, <1>8, <1>14, <2>1, <2>4, <2>5, <2>6 DEF TasksInOrder
<1>18. WholeEventsInOrder'
  <2>1. \A p \in 1..PieceCount : e[p].part = p /\ e[p].seq = e[1].seq
    <3>1. SUFFICES ASSUME NEW p \in 1..PieceCount
                   PROVE  e[p].part = p /\ e[p].seq = s
      BY <1>9, <3>1
    <3>2. p \in 1..n
      BY <1>5
    <3>3. e[p] = [seq |-> s, part |-> p]
      BY <1>5, <1>6, <3>2
    <3>4. QED  BY <3>3
  <2>2. ASSUME NEW x \in Conn, NEW k \in DOMAIN received'[x]
        PROVE  /\ \A p \in 1..PieceCount : received'[x][k][p].part = p
                                            /\ received'[x][k][p].seq = received'[x][k][1].seq
               /\ k > 1 => received'[x][k - 1][1].seq < received'[x][k][1].seq
    <3>1. CASE x # c
      BY <1>7, <3>1 DEF StreamInv, WholeEventsInOrder
    <3>2. CASE x = c /\ k \in 1..Len(received[c])
      <4>1. k \in DOMAIN received[c] /\ received'[c][k] = received[c][k]
        BY <1>12, <3>2
      <4>2. k > 1 => received'[c][k - 1] = received[c][k - 1]
        <5>1. k > 1 => k - 1 \in 1..Len(received[c])
          BY <1>11, <3>2
        <5>2. QED  BY <1>12, <5>1
      <4>3. QED  BY <3>2, <4>1, <4>2 DEF StreamInv, WholeEventsInOrder
    <3>3. CASE x = c /\ k = Len(received[c]) + 1
      <4>1. received'[c][k] = e
        BY <1>12, <3>3
      <4>2. ASSUME k > 1
            PROVE  received'[c][k - 1][1].seq < e[1].seq
        <5>1. k - 1 \in 1..Len(received[c])
          BY <1>11, <3>3, <4>2
        <5>2. received'[c][k - 1][1].seq \in Emitted(c)
          BY <1>12, <5>1 DEF Emitted
        <5>3. QED  BY <1>1, <1>2, <1>9, <5>2 DEF StreamInv, TasksInOrder
      <4>3. QED  BY <2>1, <3>3, <4>1, <4>2
    <3>4. QED  BY <1>11, <1>12, <2>2, <3>1, <3>2, <3>3
  <2>3. QED  BY <2>2 DEF WholeEventsInOrder
<1>19. QED  BY <1>15, <1>16, <1>17, <1>18 DEF StreamInv

LEMMA StreamStep ==
  ASSUME RegistryInv, StreamInv, [Next]_vars
  PROVE  StreamInv'
<1>1. ASSUME NEW c \in Conn, Create(c) \/ Receive(c)
      PROVE  StreamInv'
  BY <1>1, CreateStream, ReceiveStream
<1>2. ASSUME NEW c \in Conn, Register(c)
      PROVE  StreamInv'
  <2>1. PICK i \in Consumer :
          conn' = [conn EXCEPT ![c] = [where |-> "registered", sb |-> conn[c].sb, slot |-> i]]
    BY <1>2 DEF Register, First, Free
  <2>2. conn'[c].where = "registered" /\ \A d \in Conn \ {c} : conn'[d] = conn[d]
    BY <2>1 DEF RegistryInv, TypeOK
  <2>3. conn[c].where = "created" /\ UNCHANGED <<broker, data, received>>
    BY <1>2 DEF Register
  <2>4. QED  BY <2>2, <2>3, ConnStep
<1>3. ASSUME NEW c \in Conn, NEW w \in Where, conn' = [conn EXCEPT ![c].where = w],
             w = "running" => conn[c].where = "registered", w \notin {"created", "registered"},
             UNCHANGED <<broker, data, received>>
      PROVE  StreamInv'
  <2>1. conn'[c].where = w /\ \A d \in Conn \ {c} : conn'[d] = conn[d]
    BY <1>3, Moved DEF RegistryInv
  <2>2. QED  BY <1>3, <2>1, ConnStep
<1>4. ASSUME NEW c \in Conn, Spawn(c) \/ SpawnFails(c) \/ Close(c) \/ Unregister(c)
      PROVE  StreamInv'
  BY <1>3, <1>4 DEF Spawn, SpawnFails, Close, Unregister, Where
<1>5. ASSUME NEW c \in Conn, Delete(c)
      PROVE  StreamInv'
  <2>1. conn'[c].where = "idle" /\ \A d \in Conn \ {c} : conn'[d] = conn[d]
    BY <1>5 DEF Delete, NoCtx, RegistryInv, TypeOK
  <2>2. UNCHANGED <<broker, data, received>>
    BY <1>5 DEF Delete
  <2>3. QED  BY <2>1, <2>2, ConnStep
<1>6. CASE Publish
  <2>1. seq \in Nat /\ seq' = seq + 1 /\ fanout = "idle"
        /\ UNCHANGED <<data, conn, received, handles>>
    BY <1>6, FeedAssumption DEF Publish, RegistryInv, TypeOK
  <2>2. SentOnce'
    BY <2>1 DEF StreamInv, SentOnce, Pending
  <2>3. \A b \in Buffer, n \in Nat : Sent(b, n) => Sent(b, n)'
    BY <2>1 DEF Sent
  <2>4. QED  BY <2>1, <2>2, <2>3, SenderStep
<1>7. CASE Snapshot
  <2>1. fanout = "event" /\ handles' = consumers /\ UNCHANGED <<data, conn, received, seq>>
    BY <1>7 DEF Snapshot
  <2>2. SentOnce'
    <3>1. SUFFICES ASSUME NEW i \in Registered, NEW j \in Registered, consumers[i] = consumers[j]
                   PROVE  i = j
      BY <2>1, <3>1 DEF SentOnce, Pending, Registered
    <3>2. PICK c \in Conn : Holds(c) /\ conn[c].slot = i
      BY DEF RegistryInv, OwnSlot
    <3>3. PICK d \in Conn : Holds(d) /\ conn[d].slot = j
      BY DEF RegistryInv, OwnSlot
    <3>4. conn[c].sb = conn[d].sb
      BY <3>1, <3>2, <3>3 DEF RegistryInv, OwnSlot
    <3>5. c = d
      BY <3>2, <3>3, <3>4 DEF RegistryInv, OwnBuffer, Holds
    <3>6. QED  BY <3>2, <3>3, <3>5
  <2>3. \A b \in Buffer, n \in Nat : Sent(b, n) => Sent(b, n)'
    BY <2>1 DEF Sent, Upcoming
  <2>4. QED  BY <2>1, <2>2, <2>3, SenderStep
<1>8. CASE Send
  <2>1. PICK i \in Pending : fanout = "send" /\ SendTo(i)
    BY <1>8 DEF Send, First
  <2>2. QED  BY <2>1, SendStream
<1>9. CASE UNCHANGED vars
  <2>1. UNCHANGED <<data, conn, received, seq, handles, fanout>>
    BY <1>9 DEF vars
  <2>2. SentOnce' /\ \A b \in Buffer, n \in Nat : Sent(b, n) => Sent(b, n)'
    BY <2>1 DEF StreamInv, SentOnce, Pending, Sent, Upcoming
  <2>3. QED  BY <2>1, <2>2, SenderStep
<1>10. QED
  BY <1>1, <1>2, <1>4, <1>5, <1>6, <1>7, <1>8, <1>9 DEF Next

\* A ws_task emits whole events, each newer than the one before, whatever the sizes
\* of the buffers and the events and however often a buffer's address is used again.
THEOREM EventsComeWhole == Spec => []WholeEventsInOrder
<1>1. Init => RegistryInv /\ StreamInv
  BY RegistryInit, StreamInit
<1>2. RegistryInv /\ StreamInv /\ [Next]_vars => (RegistryInv /\ StreamInv)'
  BY RegistryStep, StreamStep
<1>3. RegistryInv /\ StreamInv => WholeEventsInOrder
  BY DEF StreamInv
<1>4. QED  BY <1>1, <1>2, <1>3, PTL DEF Spec

-----------------------------------------------------------------------------
(* Sets of naturals *)

LEMMA LeastOf ==
  ASSUME NEW T \in SUBSET Nat, T # {}
  PROVE  \E i \in T : \A j \in T : i <= j
<1>1. PICK i \in T : \A j \in T : <<j, i>> \notin OpToRel(<, Nat)
  BY NatLessThanWellFounded, WFMin
<1>2. \A j \in T : ~(j < i)
  BY <1>1 DEF OpToRel
<1>3. QED  BY <1>2

LEMMA GreatestOf ==
  ASSUME NEW m \in Nat, NEW T \in SUBSET (0..m), T # {}
  PROVE  \E i \in T : \A j \in T : j <= i
<1> DEFINE U == {m - x : x \in T}
<1>1. U \in SUBSET Nat /\ U # {}
  <2>1. \A x \in T : m - x \in Nat
    OBVIOUS
  <2>2. QED  BY <2>1
<1> HIDE DEF U
<1>2. PICK y \in U : \A z \in U : y <= z
  BY <1>1, LeastOf
<1>3. PICK i \in T : y = m - i
  BY DEF U
<1>4. \A j \in T : m - i <= m - j
  BY <1>2, <1>3 DEF U
<1>5. QED  BY <1>4

-----------------------------------------------------------------------------
(* The in-flight tables.  Each message has waited, and waits for, what the *)
(* schedule of its resends says; the bytes are counted message by message. *)

\* The age at which the wait after so many resends is over.
Elapsed == <<1, 2, 4, 8, 12, 16>>

OnSchedule(e) == e.age + e.wait = Elapsed[e.retries + 1]

Tables == [Client -> [Qos1!MsgSlot -> Qos1!Msg \cup {NoMsg}]]

Entry(c, k) == inflight[c][k]

Scheduled == \A c \in Client, k \in Qos1!MsgSlot :
  Entry(c, k) # NoMsg => OnSchedule(Entry(c, k)) /\ (walked => Entry(c, k).wait >= 1)

AllBytes == Qos1!BytesOf(Qos1!ActiveSlots)

BytesCounted == IsFiniteSet(AllBytes) /\ bytes = Cardinality(AllBytes) /\ bytes <= BytesMax

InflightInv == inflight \in Tables /\ bytes \in Nat /\ walked \in BOOLEAN
               /\ Scheduled /\ BytesCounted

LEMMA SameCount == \A S : Qos1!Cardinality(S) = Cardinality(S)
BY DEF Qos1!Cardinality, Cardinality

LEMMA FreeSlotIsOne ==
  ASSUME Qos1!InflightAssumption, NEW S \in SUBSET Qos1!MsgSlot, S # {}
  PROVE  Qos1!Min(S) \in S
<1>1. S \subseteq Nat
  BY DEF Qos1!MsgSlot
<1>2. \E k \in S : \A j \in S : k <= j
  BY <1>1, LeastOf
<1>3. QED  BY <1>2 DEF Qos1!Min

LEMMA SlotFields ==
  ASSUME inflight \in Tables, NEW c \in Client, NEW k \in Qos1!MsgSlot
  PROVE  Entry(c, k) \in Qos1!Msg \cup {NoMsg}
BY DEF Tables, Entry

LEMMA MsgFields ==
  ASSUME Qos1!InflightAssumption
  PROVE  \A e \in Qos1!Msg : /\ e.size \in Size /\ e.retries \in 0..5
                             /\ e.wait \in 0..4 /\ e.age \in Nat /\ e # NoMsg
BY DEF Qos1!InflightAssumption, Qos1!Msg

\* Giving slots back takes off exactly the bytes of their messages.
LEMMA FreedBytes ==
  ASSUME InflightInv, NEW P \in SUBSET Qos1!ActiveSlots,
         Qos1!ActiveSlots' = Qos1!ActiveSlots \ P,
         \A p \in Qos1!ActiveSlots \ P : Qos1!SizeOf(p)' = Qos1!SizeOf(p),
         bytes' = Qos1!Freed(P)
  PROVE  BytesCounted' /\ bytes' \in Nat
<1> DEFINE B(p) == {p} \X (1..Qos1!SizeOf(p))
<1>1. AllBytes' = AllBytes \ Qos1!BytesOf(P)
  <2>1. AllBytes' = UNION {B(p) : p \in Qos1!ActiveSlots \ P}
    <3>1. AllBytes' = UNION {{p} \X (1..Qos1!SizeOf(p)') : p \in Qos1!ActiveSlots'}
      BY DEF AllBytes, Qos1!BytesOf
    <3>2. QED  BY <3>1
  <2>2. AllBytes = UNION {B(p) : p \in Qos1!ActiveSlots}
    BY DEF AllBytes, Qos1!BytesOf
  <2>3. Qos1!BytesOf(P) = UNION {B(p) : p \in P}
    BY DEF Qos1!BytesOf
  <2>4. \A p, q : p # q => B(p) \cap B(q) = {}
    OBVIOUS
  <2> HIDE DEF B
  <2>5. QED  BY <2>1, <2>2, <2>3, <2>4
<1>2. Qos1!BytesOf(P) \subseteq AllBytes
  BY DEF AllBytes, Qos1!BytesOf
<1>3. AllBytes \cap Qos1!BytesOf(P) = Qos1!BytesOf(P)
  BY <1>2
<1>4. /\ IsFiniteSet(AllBytes')
      /\ Cardinality(AllBytes') = Cardinality(AllBytes) - Cardinality(Qos1!BytesOf(P))
  <2> DEFINE R == Qos1!BytesOf(P)
  <2>1. IsFiniteSet(AllBytes)
    BY DEF InflightInv, BytesCounted
  <2> HIDE DEF R
  <2>2. /\ IsFiniteSet(AllBytes \ R)
        /\ Cardinality(AllBytes \ R) = Cardinality(AllBytes) - Cardinality(AllBytes \cap R)
    BY <2>1, FS_Difference
  <2>3. QED  BY <1>1, <1>3, <2>2 DEF R
<1>5. Cardinality(AllBytes') \in Nat /\ Cardinality(AllBytes) \in Nat
      /\ Cardinality(Qos1!BytesOf(P)) \in Nat
      /\ Cardinality(Qos1!BytesOf(P)) <= Cardinality(AllBytes)
  BY <1>2, <1>4, FS_CardinalityType, FS_Subset DEF InflightInv, BytesCounted
<1>6. bytes' = bytes - Cardinality(Qos1!BytesOf(P))
  BY <1>5, SameCount DEF Qos1!Freed, Qos1!Weight, InflightInv, BytesCounted
<1>7. BytesMax' = BytesMax
  OBVIOUS
<1>8. bytes' = Cardinality(AllBytes') /\ bytes' \in Nat /\ bytes' <= bytes
  BY <1>4, <1>5, <1>6 DEF InflightInv, BytesCounted
<1>9. bytes \in Nat /\ bytes <= BytesMax /\ BytesMax \in Nat
  BY InflightSizes DEF InflightInv, BytesCounted, Qos1!InflightAssumption
<1>10. bytes' <= BytesMax
  BY <1>8, <1>9
<1>11. QED  BY <1>4, <1>8, <1>10 DEF BytesCounted

\* A message put into a free slot brings its own bytes, and no others.
LEMMA AddedBytes ==
  ASSUME InflightInv, NEW p \in Qos1!Slots \ Qos1!ActiveSlots, NEW n \in Nat,
         Qos1!ActiveSlots' = Qos1!ActiveSlots \cup {p},
         Qos1!SizeOf(p)' = n,
         \A q \in Qos1!ActiveSlots : Qos1!SizeOf(q)' = Qos1!SizeOf(q),
         bytes' = bytes + n, bytes + n <= BytesMax
  PROVE  BytesCounted' /\ bytes' \in Nat
<1> DEFINE New == {p} \X (1..n)
<1>1. AllBytes' = AllBytes \cup New
  <2>1. AllBytes' = UNION {{q} \X (1..Qos1!SizeOf(q)') : q \in Qos1!ActiveSlots'}
    BY DEF AllBytes, Qos1!BytesOf
  <2>2. AllBytes = UNION {{q} \X (1..Qos1!SizeOf(q)) : q \in Qos1!ActiveSlots}
    BY DEF AllBytes, Qos1!BytesOf
  <2>3. QED  BY <2>1, <2>2
<1>2. AllBytes \cap New = {}
  BY DEF AllBytes, Qos1!BytesOf
<1>3. IsFiniteSet(New) /\ Cardinality(New) = n
  <2>1. IsFiniteSet({p}) /\ Cardinality({p}) = 1
    BY FS_Singleton
  <2>2. IsFiniteSet(1..n) /\ Cardinality(1..n) = n
    BY FS_Interval
  <2>3. /\ IsFiniteSet({p} \X (1..n))
        /\ Cardinality({p} \X (1..n)) = Cardinality({p}) * Cardinality(1..n)
    BY <2>1, <2>2, FS_Product
  <2>4. QED  BY <2>1, <2>2, <2>3
<1> HIDE DEF New
<1>4. IsFiniteSet(AllBytes') /\ Cardinality(AllBytes') = Cardinality(AllBytes) + n
  <2>1. IsFiniteSet(AllBytes) /\ Cardinality(AllBytes) \in Nat
    BY FS_CardinalityType DEF InflightInv, BytesCounted
  <2>2. Cardinality({}) = 0
    BY FS_EmptySet
  <2>3. /\ IsFiniteSet(AllBytes \cup New)
        /\ Cardinality(AllBytes \cup New) =
             Cardinality(AllBytes) + Cardinality(New) - Cardinality(AllBytes \cap New)
    BY <1>3, <2>1, FS_Union
  <2>4. Cardinality(AllBytes \cap New) = 0
    BY <1>2, <2>2
  <2>5. Cardinality(AllBytes \cup New) = Cardinality(AllBytes) + n
    BY <1>3, <2>1, <2>3, <2>4
  <2>6. QED  BY <1>1, <2>3, <2>5
<1>5. QED  BY <1>4 DEF BytesCounted, InflightInv

LEMMA ActiveIs ==
  /\ Qos1!ActiveSlots = {p \in Qos1!Slots : Entry(p[1], p[2]) # NoMsg}
  /\ Qos1!ActiveSlots' = {p \in Qos1!Slots : Entry(p[1], p[2])' # NoMsg}
  /\ \A c \in Client : Qos1!Active(c) = {k \in Qos1!MsgSlot : Entry(c, k) # NoMsg}
BY DEF Qos1!ActiveSlots, Qos1!Active, Qos1!Slots, Entry

LEMMA SizeIs ==
  \A p : Qos1!SizeOf(p) = Entry(p[1], p[2]).size /\ Qos1!SizeOf(p)' = Entry(p[1], p[2])'.size
BY DEF Qos1!SizeOf, Entry

\* A step that changes one slot.
LEMMA SlotWritten ==
  ASSUME inflight \in Tables, NEW c \in Client, NEW k \in Qos1!MsgSlot,
         NEW v \in Qos1!Msg \cup {NoMsg}, inflight' = [inflight EXCEPT ![c][k] = v]
  PROVE  /\ inflight' \in Tables
         /\ Entry(c, k)' = v
         /\ \A d \in Client, j \in Qos1!MsgSlot : d # c \/ j # k => Entry(d, j)' = Entry(d, j)
BY DEF Tables, Entry

LEMMA EnqueueStep ==
  ASSUME Qos1!InflightAssumption, InflightInv, NEW c \in Client, NEW n \in Size, Qos1!Enqueue(c, n)
  PROVE  InflightInv'
<1>0. PICK k : k = Qos1!Min(Qos1!MsgSlot \ Qos1!Active(c))
  OBVIOUS
<1> DEFINE e == [size |-> n, retries |-> 0, wait |-> RetryInitial, age |-> 0]
<1>1. k \in Qos1!MsgSlot /\ k \notin Qos1!Active(c)
  BY <1>0, FreeSlotIsOne DEF Qos1!Enqueue
<1>2. n \in Nat /\ RetryInitial = 1
  BY DEF Qos1!InflightAssumption
<1>3. e \in Qos1!Msg /\ e # NoMsg /\ e.size = n /\ OnSchedule(e) /\ e.wait = 1
  <2>1. e \in Qos1!Msg
    BY DEF Qos1!Msg, Qos1!InflightAssumption
  <2>2. e.age + e.wait = 1 /\ e.retries + 1 = 1 /\ e.size = n /\ e.wait = 1
    BY <1>2
  <2>3. Elapsed[1] = 1
    BY DEF Elapsed
  <2>4. e # NoMsg
    BY <2>1, MsgFields
  <2> HIDE DEF e
  <2>5. QED  BY <2>1, <2>2, <2>3, <2>4 DEF OnSchedule
<1>4. inflight' = [inflight EXCEPT ![c][k] = e] /\ bytes' = bytes + n /\ walked' = walked
  BY <1>0 DEF Qos1!Enqueue
<1>5. bytes + n <= BytesMax
  BY DEF Qos1!Enqueue, Qos1!Room
<1> HIDE DEF e
<1>6. /\ inflight' \in Tables
      /\ Entry(c, k)' = e
      /\ \A d \in Client, j \in Qos1!MsgSlot : d # c \/ j # k => Entry(d, j)' = Entry(d, j)
  BY <1>1, <1>3, <1>4, SlotWritten DEF InflightInv
<1>7. Scheduled'
  BY <1>3, <1>4, <1>6 DEF Scheduled, InflightInv
<1> DEFINE p == <<c, k>>
<1>8. p \in Qos1!Slots /\ p[1] = c /\ p[2] = k
  BY <1>1 DEF Qos1!Slots
<1>9. Entry(c, k) = NoMsg
  BY <1>1, ActiveIs
<1>10. \A q \in Qos1!Slots : q # p =>
         /\ Entry(q[1], q[2])' = Entry(q[1], q[2]) /\ Qos1!SizeOf(q)' = Qos1!SizeOf(q)
  <2>1. \A q \in Qos1!Slots : q # p => Entry(q[1], q[2])' = Entry(q[1], q[2])
    BY <1>6 DEF Qos1!Slots
  <2> HIDE DEF p
  <2>2. QED  BY <2>1, SizeIs
<1>11. Qos1!ActiveSlots' = Qos1!ActiveSlots \cup {p} /\ p \in Qos1!Slots \ Qos1!ActiveSlots
  BY <1>3, <1>6, <1>8, <1>9, <1>10, ActiveIs
<1>12. Qos1!SizeOf(p)' = n
  BY <1>3, <1>6, <1>8, SizeIs
<1>13. \A q \in Qos1!ActiveSlots : Qos1!SizeOf(q)' = Qos1!SizeOf(q)
  BY <1>10, <1>11, ActiveIs
<1> HIDE DEF p
<1>14. BytesCounted' /\ bytes' \in Nat
  BY <1>2, <1>4, <1>5, <1>11, <1>12, <1>13, AddedBytes
<1>15. walked' \in BOOLEAN
  BY <1>4 DEF InflightInv
<1>16. QED  BY <1>6, <1>7, <1>14, <1>15 DEF InflightInv

\* A step that keeps or frees every slot, and pays for what it frees.
LEMMA KeptOrFreed ==
  ASSUME InflightInv, inflight' \in Tables, NEW P \in SUBSET Qos1!ActiveSlots,
         \A p \in P : Entry(p[1], p[2])' = NoMsg,
         \A p \in Qos1!ActiveSlots \ P :
           Entry(p[1], p[2])' # NoMsg /\ Entry(p[1], p[2])'.size = Entry(p[1], p[2]).size,
         \A p \in Qos1!Slots \ Qos1!ActiveSlots : Entry(p[1], p[2])' = NoMsg,
         bytes' = Qos1!Freed(P)
  PROVE  BytesCounted' /\ bytes' \in Nat
<1>1. Qos1!ActiveSlots' = Qos1!ActiveSlots \ P
  BY ActiveIs
<1>2. \A p \in Qos1!ActiveSlots \ P : Qos1!SizeOf(p)' = Qos1!SizeOf(p)
  BY SizeIs
<1>3. QED  BY <1>1, <1>2, FreedBytes

LEMMA PubackStep ==
  ASSUME Qos1!InflightAssumption, InflightInv, NEW c \in Client, NEW k \in Qos1!MsgSlot, Qos1!Puback(c, k)
  PROVE  InflightInv'
<1> DEFINE p == <<c, k>>
<1>1. /\ inflight' \in Tables
      /\ Entry(c, k)' = NoMsg
      /\ \A d \in Client, j \in Qos1!MsgSlot : d # c \/ j # k => Entry(d, j)' = Entry(d, j)
  BY SlotWritten DEF InflightInv, Qos1!Puback
<1>2. bytes' = Qos1!Freed({p}) /\ walked' = walked /\ k \in Qos1!Active(c)
  BY DEF Qos1!Puback
<1>3. Scheduled'
  BY <1>1, <1>2 DEF Scheduled, InflightInv
<1>4. p \in Qos1!ActiveSlots /\ p[1] = c /\ p[2] = k
  BY <1>2, ActiveIs DEF Qos1!Slots
<1>5. \A q \in Qos1!Slots : q # p => Entry(q[1], q[2])' = Entry(q[1], q[2])
  BY <1>1 DEF Qos1!Slots
<1>6. /\ \A q \in {p} : Entry(q[1], q[2])' = NoMsg
      /\ \A q \in Qos1!ActiveSlots \ {p} :
           Entry(q[1], q[2])' # NoMsg /\ Entry(q[1], q[2])'.size = Entry(q[1], q[2]).size
      /\ \A q \in Qos1!Slots \ Qos1!ActiveSlots : Entry(q[1], q[2])' = NoMsg
  BY <1>1, <1>4, <1>5, ActiveIs
<1> HIDE DEF p
<1>7. BytesCounted' /\ bytes' \in Nat
  BY <1>1, <1>2, <1>4, <1>6, KeptOrFreed
<1>8. QED  BY <1>1, <1>2, <1>3, <1>7 DEF InflightInv

LEMMA DisconnectStep ==
  ASSUME Qos1!InflightAssumption, InflightInv, NEW c \in Client, Qos1!Disconnect(c)
  PROVE  InflightInv'
<1> DEFINE P == {c} \X Qos1!Active(c)
<1>1. inflight' = [inflight EXCEPT ![c] = Qos1!NoMsgs] /\ bytes' = Qos1!Freed(P)
      /\ walked' = walked
  BY DEF Qos1!Disconnect
<1>2. Qos1!NoMsgs \in [Qos1!MsgSlot -> Qos1!Msg \cup {NoMsg}]
  BY DEF Qos1!NoMsgs
<1>3. /\ inflight' \in Tables
      /\ \A k \in Qos1!MsgSlot : Entry(c, k)' = NoMsg
      /\ \A d \in Client, j \in Qos1!MsgSlot : d # c => Entry(d, j)' = Entry(d, j)
  BY <1>1, <1>2 DEF InflightInv, Tables, Entry, Qos1!NoMsgs
<1>4. Scheduled'
  BY <1>1, <1>3 DEF Scheduled, InflightInv
<1>5. P = {p \in Qos1!ActiveSlots : p[1] = c}
  BY ActiveIs DEF Qos1!Slots
<1>6. /\ P \subseteq Qos1!ActiveSlots
      /\ \A q \in P : Entry(q[1], q[2])' = NoMsg
      /\ \A q \in Qos1!ActiveSlots \ P :
           Entry(q[1], q[2])' # NoMsg /\ Entry(q[1], q[2])'.size = Entry(q[1], q[2]).size
      /\ \A q \in Qos1!Slots \ Qos1!ActiveSlots : Entry(q[1], q[2])' = NoMsg
  <2> HIDE DEF P
  <2>1. \A q \in Qos1!Slots : q[1] \in Client /\ q[2] \in Qos1!MsgSlot
    BY DEF Qos1!Slots
  <2>2. QED  BY <1>3, <1>5, <2>1, ActiveIs
<1> HIDE DEF P
<1>7. BytesCounted' /\ bytes' \in Nat
  BY <1>1, <1>3, <1>6, KeptOrFreed
<1>8. QED  BY <1>1, <1>3, <1>4, <1>7 DEF InflightInv

\* A message as its walk leaves it.
LEMMA WalkedIs ==
  ASSUME Qos1!InflightAssumption, InflightInv, NEW c \in Client, NEW k \in Qos1!MsgSlot
  PROVE  /\ Qos1!Walked(c, k) \in Qos1!Msg \cup {NoMsg}
         /\ Qos1!Walked(c, k) # NoMsg =>
              /\ Entry(c, k) # NoMsg
              /\ Qos1!Walked(c, k).size = Entry(c, k).size
              /\ OnSchedule(Qos1!Walked(c, k))
              /\ Qos1!Walked(c, k).wait >= 1
         /\ Qos1!Walked(c, k) = NoMsg /\ Entry(c, k) # NoMsg =>
              Qos1!GivenUp(<<c, k>>) /\ Entry(c, k).age = 16
         /\ Entry(c, k) # NoMsg /\ Qos1!GivenUp(<<c, k>>) => Qos1!Walked(c, k) = NoMsg
<1> DEFINE e == Entry(c, k)
           r == e.retries
           w == [e EXCEPT !.retries = @ + 1, !.wait = Qos1!Delay(r + 1)]
<1>1. e = inflight[c][k] /\ e \in Qos1!Msg \cup {NoMsg} /\ Qos1!Due(<<c, k>>) = (e.wait = 0)
      /\ Qos1!GivenUp(<<c, k>>) = (Qos1!Due(<<c, k>>) /\ e.retries >= RetryMax)
  BY SlotFields DEF InflightInv, Entry, Qos1!Due, Qos1!GivenUp
<1>2. Qos1!Walked(c, k) = IF e = NoMsg \/ ~Qos1!Due(<<c, k>>) THEN e
                          ELSE IF Qos1!GivenUp(<<c, k>>) THEN NoMsg ELSE w
  BY <1>1 DEF Qos1!Walked
<1>3. RetryInitial = 1 /\ RetryCap = 4 /\ RetryMax = 5
  BY DEF Qos1!InflightAssumption
<1>4. e # NoMsg => OnSchedule(e) /\ e \in Qos1!Msg
  BY <1>1 DEF InflightInv, Scheduled
<1>5. CASE e = NoMsg
  BY <1>2, <1>5
<1>6. CASE e # NoMsg /\ ~Qos1!Due(<<c, k>>)
  <2>1. e.wait # 0 /\ e.wait \in 0..4
    BY <1>1, <1>4, <1>6, MsgFields
  <2>2. e.wait >= 1 /\ Qos1!Walked(c, k) = e /\ ~Qos1!GivenUp(<<c, k>>)
    BY <1>1, <1>2, <1>6, <2>1
  <2>3. QED  BY <1>4, <1>6, <2>2
<1>7. CASE e # NoMsg /\ Qos1!Due(<<c, k>>) /\ Qos1!GivenUp(<<c, k>>)
  <2>1. e.wait = 0 /\ e.retries >= 5 /\ e.retries \in 0..5 /\ e.age \in Nat
    BY <1>1, <1>3, <1>4, <1>7, MsgFields
  <2>2. e.retries + 1 = 6
    BY <2>1
  <2>3. e.age + e.wait = Elapsed[6]
    BY <1>4, <1>7, <2>2 DEF OnSchedule
  <2>4. e.age = 16
    BY <2>1, <2>3 DEF Elapsed
  <2>5. QED  BY <1>2, <1>7, <2>4
<1>8. CASE e # NoMsg /\ Qos1!Due(<<c, k>>) /\ ~Qos1!GivenUp(<<c, k>>)
  <2>1. e.wait = 0 /\ r \in 0..5 /\ ~(r >= 5) /\ e.age \in Nat
    BY <1>1, <1>3, <1>4, <1>8, MsgFields
  <2>2. r \in 0..4
    BY <2>1
  <2>3. e.age = Elapsed[r + 1]
    <3>1. e.age + e.wait = Elapsed[r + 1]
      BY <1>4, <1>8 DEF OnSchedule
    <3>2. QED  BY <2>1, <3>1
  <2>4. /\ Qos1!Delay(r + 1) \in 1..4
        /\ Elapsed[r + 1] + Qos1!Delay(r + 1) = Elapsed[r + 2]
    <3>1. r = 0 \/ r = 1 \/ r = 2 \/ r = 3 \/ r = 4
      BY <2>2
    <3> HIDE DEF r
    <3>2. QED  BY <1>3, <3>1 DEF Qos1!Delay, Qos1!Shifted, Elapsed
  <2>5. w \in Qos1!Msg /\ w.size = e.size /\ w.retries = r + 1
        /\ w.wait = Qos1!Delay(r + 1) /\ w.age = e.age
    <3> DEFINE q == Qos1!Delay(r + 1)
    <3>1. r + 1 \in 0..RetryMax /\ q \in 0..RetryCap
      BY <1>3, <2>2, <2>4
    <3> HIDE DEF q, r
    <3>2. [e EXCEPT !.retries = r + 1, !.wait = q] \in Qos1!Msg
      BY <1>4, <1>8, <3>1 DEF Qos1!Msg
    <3>3. LET x == [e EXCEPT !.retries = r + 1, !.wait = q] IN
            x.size = e.size /\ x.retries = r + 1 /\ x.wait = q /\ x.age = e.age
      BY <1>4, <1>8 DEF Qos1!Msg
    <3>4. w = [e EXCEPT !.retries = r + 1, !.wait = q]
      BY DEF q, r
    <3> HIDE DEF w
    <3>5. QED  BY <3>2, <3>3, <3>4 DEF q
  <2>6. Qos1!Walked(c, k) = w
    BY <1>2, <1>8
  <2>7. w # NoMsg
    BY <2>5, MsgFields
  <2> HIDE DEF w
  <2>8. w.age + w.wait = Elapsed[r + 2] /\ w.retries + 1 = r + 2
    BY <2>2, <2>3, <2>4, <2>5
  <2>9. OnSchedule(w) /\ w.wait >= 1
    BY <2>4, <2>5, <2>8 DEF OnSchedule
  <2>10. QED  BY <1>8, <2>5, <2>6, <2>7, <2>9
<1>9. QED  BY <1>5, <1>6, <1>7, <1>8

\* What the walk drops of a client it keeps has been through the whole schedule.
NotEarly == \A c \in Client : \A k \in Qos1!Active(c) :
  (walked' /\ ~walked /\ inflight'[c][k] = NoMsg
     /\ \E other \in Qos1!MsgSlot : inflight'[c][other] # NoMsg)
  => inflight[c][k].age = Qos1!Patience

LEMMA WalkStep ==
  ASSUME Qos1!InflightAssumption, InflightInv, Qos1!Walk
  PROVE  InflightInv' /\ NotEarly
<1> DEFINE resent(c) == {k \in Qos1!Active(c) : Qos1!Due(<<c, k>>) /\ ~Qos1!GivenUp(<<c, k>>)}
<1>1. PICK failed \in SUBSET {c \in Client : resent(c) # {}} :
        /\ inflight' = [c \in Client |-> IF c \in failed THEN Qos1!NoMsgs
                          ELSE [k \in Qos1!MsgSlot |-> Qos1!Walked(c, k)]]
        /\ bytes' = Qos1!Freed({p \in Qos1!ActiveSlots : p[1] \in failed \/ Qos1!GivenUp(p)})
  BY DEF Qos1!Walk
<1>2. walked' = TRUE /\ ~walked
  BY DEF Qos1!Walk
<1>3. \A c \in Client, k \in Qos1!MsgSlot :
        Entry(c, k)' = IF c \in failed THEN NoMsg ELSE Qos1!Walked(c, k)
  BY <1>1 DEF Entry, Qos1!NoMsgs
<1>4. inflight' \in Tables
  <2>1. \A c \in Client, k \in Qos1!MsgSlot : Qos1!Walked(c, k) \in Qos1!Msg \cup {NoMsg}
    BY WalkedIs
  <2>2. QED  BY <1>1, <2>1 DEF Tables, Qos1!NoMsgs
<1>5. Scheduled'
  BY <1>3, WalkedIs DEF Scheduled
<1> DEFINE P == {p \in Qos1!ActiveSlots : p[1] \in failed \/ Qos1!GivenUp(p)}
<1>6. \A p \in Qos1!Slots : /\ p[1] \in Client /\ p[2] \in Qos1!MsgSlot
                            /\ p = <<p[1], p[2]>>
  BY DEF Qos1!Slots
<1>7. P \subseteq Qos1!ActiveSlots
  OBVIOUS
<1>8. \A q \in P : Entry(q[1], q[2])' = NoMsg
  BY <1>3, <1>6, WalkedIs, ActiveIs
<1>9. \A q \in Qos1!ActiveSlots \ P :
        Entry(q[1], q[2])' # NoMsg /\ Entry(q[1], q[2])'.size = Entry(q[1], q[2]).size
  BY <1>3, <1>6, WalkedIs, ActiveIs
<1>10. \A q \in Qos1!Slots \ Qos1!ActiveSlots : Entry(q[1], q[2])' = NoMsg
  BY <1>3, <1>6, WalkedIs, ActiveIs
<1>11. BytesCounted' /\ bytes' \in Nat
  <2>1. bytes' = Qos1!Freed(P)
    BY <1>1
  <2> HIDE DEF P
  <2>2. QED  BY <1>4, <1>7, <1>8, <1>9, <1>10, <2>1, KeptOrFreed
<1>12. NotEarly
  <2>1. Qos1!Patience = 16
    BY DEF Qos1!Patience, Qos1!Backoff
  <2>2. ASSUME NEW c \in Client, NEW k \in Qos1!Active(c), inflight'[c][k] = NoMsg,
               NEW other \in Qos1!MsgSlot, inflight'[c][other] # NoMsg
        PROVE  inflight[c][k].age = 16
    <3>1. k \in Qos1!MsgSlot /\ Entry(c, k) # NoMsg /\ Entry(c, k) = inflight[c][k]
      BY ActiveIs DEF Entry
    <3>2. Entry(c, k)' = NoMsg /\ Entry(c, other)' # NoMsg
      BY <2>2 DEF Entry
    <3>3. QED  BY <1>3, <3>1, <3>2, WalkedIs
  <2>3. QED  BY <2>1, <2>2 DEF NotEarly
<1>13. QED  BY <1>2, <1>4, <1>5, <1>11, <1>12 DEF InflightInv

LEMMA TickStep ==
  ASSUME Qos1!InflightAssumption, InflightInv, Qos1!Tick
  PROVE  InflightInv'
<1> DEFINE Older(e) == [e EXCEPT !.wait = @ - 1, !.age = @ + 1]
<1>1. walked /\ walked' = FALSE /\ bytes' = bytes
      /\ inflight' = [c \in Client |-> [k \in Qos1!MsgSlot |->
           IF k \in Qos1!Active(c) THEN Older(inflight[c][k]) ELSE NoMsg]]
  BY DEF Qos1!Tick
<1>2. \A c \in Client, k \in Qos1!MsgSlot :
        Entry(c, k)' = IF Entry(c, k) # NoMsg THEN Older(Entry(c, k)) ELSE NoMsg
  <2> HIDE DEF Older
  <2>1. QED  BY <1>1, ActiveIs DEF Entry
<1>3. ASSUME NEW e \in Qos1!Msg, OnSchedule(e), e.wait >= 1
      PROVE  Older(e) \in Qos1!Msg /\ Older(e).size = e.size /\ OnSchedule(Older(e))
  <2>1. e.wait - 1 \in 0..RetryCap /\ e.age + 1 \in Nat /\ e.wait \in Nat /\ e.age \in Nat
    BY <1>3, MsgFields DEF Qos1!InflightAssumption
  <2>2. Older(e) \in Qos1!Msg
    BY <2>1 DEF Qos1!Msg
  <2>3. Older(e).size = e.size /\ Older(e).retries = e.retries
        /\ Older(e).wait = e.wait - 1 /\ Older(e).age = e.age + 1
    BY DEF Qos1!Msg
  <2> HIDE DEF Older
  <2>4. Older(e).age + Older(e).wait = e.age + e.wait
    BY <2>1, <2>3
  <2>5. QED  BY <1>3, <2>2, <2>3, <2>4 DEF OnSchedule
<1> HIDE DEF Older
<1>4. \A c \in Client, k \in Qos1!MsgSlot : Entry(c, k) # NoMsg =>
        /\ Older(Entry(c, k)) \in Qos1!Msg
        /\ Older(Entry(c, k)).size = Entry(c, k).size /\ OnSchedule(Older(Entry(c, k)))
  BY <1>1, <1>3, SlotFields DEF InflightInv, Scheduled
<1>5. inflight' \in Tables
  BY <1>1, <1>4, ActiveIs DEF Tables, Entry
<1>6. Scheduled'
  BY <1>1, <1>2, <1>4 DEF Scheduled
<1>7. \A c \in Client, k \in Qos1!MsgSlot : Entry(c, k) # NoMsg =>
        Entry(c, k)' # NoMsg /\ Entry(c, k)'.size = Entry(c, k).size
  BY <1>2, <1>4, MsgFields
<1>8. \A q \in Qos1!Slots : q[1] \in Client /\ q[2] \in Qos1!MsgSlot
  BY DEF Qos1!Slots
<1>9. Qos1!ActiveSlots' = Qos1!ActiveSlots
  BY <1>2, <1>7, <1>8, ActiveIs
<1>10. \A q \in Qos1!ActiveSlots : Qos1!SizeOf(q)' = Qos1!SizeOf(q)
  BY <1>7, <1>8, ActiveIs, SizeIs
<1>11. AllBytes' = AllBytes
  <2>1. AllBytes' = UNION {{q} \X (1..Qos1!SizeOf(q)') : q \in Qos1!ActiveSlots'}
    BY DEF AllBytes, Qos1!BytesOf
  <2>2. AllBytes = UNION {{q} \X (1..Qos1!SizeOf(q)) : q \in Qos1!ActiveSlots}
    BY DEF AllBytes, Qos1!BytesOf
  <2>3. QED  BY <1>9, <1>10, <2>1, <2>2
<1>12. BytesCounted' /\ bytes' \in Nat
  BY <1>1, <1>11 DEF InflightInv, BytesCounted
<1>13. QED  BY <1>1, <1>5, <1>6, <1>12 DEF InflightInv

LEMMA InflightInit == Qos1!InflightAssumption /\ Qos1!Init => InflightInv
<1> SUFFICES ASSUME Qos1!InflightAssumption, Qos1!Init PROVE InflightInv
  OBVIOUS
<1>1. \A c \in Client, k \in Qos1!MsgSlot : Entry(c, k) = NoMsg
  BY DEF Qos1!Init, Qos1!NoMsgs, Entry
<1>2. Qos1!ActiveSlots = {}
  BY <1>1, ActiveIs DEF Qos1!Slots
<1>3. AllBytes = {}
  BY <1>2 DEF AllBytes, Qos1!BytesOf
<1>4. BytesCounted
  BY <1>3, FS_EmptySet DEF BytesCounted, Qos1!Init, Qos1!InflightAssumption
<1>5. QED  BY <1>1, <1>4 DEF InflightInv, Scheduled, Qos1!Init, Qos1!NoMsgs, Tables

LEMMA InflightStep ==
  ASSUME Qos1!InflightAssumption, InflightInv, [Qos1!Next]_Qos1!vars
  PROVE  InflightInv' /\ [NotEarly]_Qos1!vars
<1>1. CASE UNCHANGED Qos1!vars
  <2>1. UNCHANGED <<inflight, bytes, walked>>
    BY <1>1 DEF Qos1!vars
  <2>2. AllBytes' = AllBytes /\ \A c, k : Entry(c, k)' = Entry(c, k)
    BY <2>1 DEF AllBytes, Qos1!BytesOf, Qos1!ActiveSlots, Qos1!SizeOf, Qos1!Active, Entry
  <2>3. InflightInv'
    BY <2>1, <2>2 DEF InflightInv, Scheduled, BytesCounted
  <2>4. QED  BY <1>1, <2>3
<1>2. ASSUME walked' = walked \/ walked PROVE NotEarly
  BY <1>2 DEF NotEarly
<1>3. ASSUME NEW c \in Client, NEW n \in Size, Qos1!Enqueue(c, n)
      PROVE  InflightInv' /\ [NotEarly]_Qos1!vars
  BY <1>2, <1>3, EnqueueStep DEF Qos1!Enqueue
<1>4. ASSUME NEW c \in Client, NEW k \in Qos1!MsgSlot, Qos1!Puback(c, k)
      PROVE  InflightInv' /\ [NotEarly]_Qos1!vars
  BY <1>2, <1>4, PubackStep DEF Qos1!Puback
<1>5. ASSUME NEW c \in Client, Qos1!Disconnect(c)
      PROVE  InflightInv' /\ [NotEarly]_Qos1!vars
  BY <1>2, <1>5, DisconnectStep DEF Qos1!Disconnect
<1>6. CASE Qos1!Walk
  BY <1>6, WalkStep
<1>7. CASE Qos1!Tick
  BY <1>2, <1>7, TickStep DEF Qos1!Tick
<1>8. QED  BY <1>1, <1>3, <1>4, <1>5, <1>6, <1>7 DEF Qos1!Next

LEMMA InflightSteps ==
  /\ MCInit => Qos1!Init
  /\ [MCNext]_<<part, vars, storevars, inflightvars>> => [Qos1!Next]_Qos1!vars
BY DEF MCInit, MCNext, inflightvars, Qos1!vars

LEMMA InflightAlways == MCSpec => []InflightInv
<1>1. MCInit => InflightInv
  BY InflightSteps, InflightInit, InflightSizes
<1>2. InflightInv /\ [MCNext]_<<part, vars, storevars, inflightvars>> => InflightInv'
  BY InflightSteps, InflightStep, InflightSizes
<1>3. QED  BY <1>1, <1>2, PTL DEF MCSpec

\* The byte counter of the in-flight tables is the size of what they hold, and stays under
\* the cap, whichever messages come, are acknowledged, given up or lost with their client
\* (inflight_enqueue, inflight_free_slot, inflight_free_all_for_client).
THEOREM BytesAreCounted == MCSpec => []BytesUnderCap
<1>1. InflightInv => BytesUnderCap
  BY SameCount DEF InflightInv, BytesCounted, AllBytes, BytesUnderCap, Qos1!BytesUnderCap,
                   Qos1!Weight
<1>2. QED  BY <1>1, InflightAlways, PTL

\* A message is resent on the schedule inflight_walk documents: whoever else is served, its
\* slot is free after 240 s, and a client that is kept loses it not a deadline earlier.
THEOREM ResentOnSchedule == MCSpec => RetriedOnSchedule
<1>1. InflightInv => Qos1!BoundedRetention
  <2>1. ASSUME InflightInv, NEW c \in Client, NEW k \in Qos1!Active(c)
        PROVE  inflight[c][k].age <= 16
    <3>1. k \in Qos1!MsgSlot /\ Entry(c, k) # NoMsg /\ Entry(c, k) = inflight[c][k]
      BY <2>1, ActiveIs DEF Entry
    <3>2. Entry(c, k) \in Qos1!Msg /\ OnSchedule(Entry(c, k))
      BY <2>1, <3>1, SlotFields DEF InflightInv, Scheduled
    <3>3. Entry(c, k).retries \in 0..5 /\ Entry(c, k).age \in Nat /\ Entry(c, k).wait \in 0..4
      BY <3>2, MsgFields, InflightSizes
    <3> DEFINE r == Entry(c, k).retries
    <3>4. Elapsed[r + 1] \in 0..16
      <4> HIDE DEF r
      <4>1. r \in 0..5 => Elapsed[r + 1] \in 0..16
        BY DEF Elapsed
      <4>2. QED  BY <3>3, <4>1 DEF r
    <3>5. Entry(c, k).age <= 16
      BY <3>2, <3>3, <3>4 DEF OnSchedule
    <3>6. QED  BY <3>1, <3>5
  <2>2. Qos1!Patience = 16
    BY DEF Qos1!Patience, Qos1!Backoff
  <2>3. QED  BY <2>1, <2>2 DEF Qos1!BoundedRetention
<1>2. InflightInv /\ [MCNext]_<<part, vars, storevars, inflightvars>> => [NotEarly]_Qos1!vars
  BY InflightSteps, InflightStep, InflightSizes
<1>3. MCSpec => Qos1!NoEarlyAbandon
  BY <1>2, InflightAlways, PTL DEF MCSpec, NotEarly, Qos1!NoEarlyAbandon
<1>4. MCSpec => []Qos1!BoundedRetention
  BY <1>1, InflightAlways, PTL
<1>5. QED  BY <1>3, <1>4 DEF RetriedOnSchedule

-----------------------------------------------------------------------------
(* The retained store.  What is left of a list when messages are removed.  *)

LEMMA KeptCount == \A S : Kept!Cardinality(S) = Cardinality(S)
BY DEF Kept!Cardinality, Cardinality

\* The elements of a set of numbers, one after the other.
LEMMA Places ==
  ASSUME NEW m \in Nat, NEW K \in SUBSET (1..m)
  PROVE  /\ IsFiniteSet(K) /\ Cardinality(K) \in Nat
         /\ \A n \in 1..Cardinality(K) : Kept!Place(K, n) \in K
         /\ \A n, l \in 1..Cardinality(K) : Kept!Place(K, n) = Kept!Place(K, l) => n = l
         /\ \A i \in K : \E n \in 1..Cardinality(K) : Kept!Place(K, n) = i
<1> DEFINE UpTo(i) == {j \in K : j <= i}
           rank(i) == Cardinality(UpTo(i))
           c == Cardinality(K)
<1>1. IsFiniteSet(K) /\ c \in Nat
  <2>1. IsFiniteSet(1..m)
    BY FS_Interval
  <2>2. IsFiniteSet(K)
    BY <2>1, FS_Subset
  <2>3. QED  BY <2>2, FS_CardinalityType
<1>2. ASSUME NEW i \in K
      PROVE  IsFiniteSet(UpTo(i)) /\ rank(i) \in 1..c /\ i \in UpTo(i)
  <2>1. UpTo(i) \in SUBSET K /\ i \in UpTo(i)
    OBVIOUS
  <2> HIDE DEF UpTo
  <2>2. IsFiniteSet(UpTo(i)) /\ rank(i) <= c
    BY <1>1, <2>1, FS_Subset
  <2>3. rank(i) \in Nat /\ rank(i) # 0
    BY <2>1, <2>2, FS_CardinalityType, FS_EmptySet
  <2>4. QED  BY <1>1, <2>1, <2>2, <2>3
<1>3. ASSUME NEW i \in K, NEW j \in K, i < j
      PROVE  rank(i) # rank(j)
  <2>1. i \in Int /\ j \in Int /\ \A k \in K : k \in Int
    OBVIOUS
  <2>2. UpTo(i) \in SUBSET UpTo(j) /\ j \in UpTo(j) /\ j \notin UpTo(i)
    <3>1. ~(j <= i) /\ \A k \in K : k <= i => k <= j
      BY <1>3, <2>1
    <3>2. UpTo(i) \subseteq UpTo(j) /\ j \notin UpTo(i)
      BY <3>1
    <3>3. j \in UpTo(j)
      BY <1>2
    <3> HIDE DEF UpTo
    <3>4. QED  BY <3>2, <3>3
  <2> HIDE DEF UpTo
  <2>3. QED  BY <1>2, <2>2, FS_Subset
<1>4. \A i, j \in K : rank(i) = rank(j) => i = j
  <2>1. \A i, j \in K : i # j => i < j \/ j < i
    OBVIOUS
  <2> HIDE DEF rank
  <2>2. QED  BY <1>3, <2>1
<1> DEFINE f == [i \in K |-> rank(i)]
<1>5. \A n \in 1..c : \E i \in K : rank(i) = n
  <2>1. f \in Injection(K, 1..c)
    <3> HIDE DEF rank, c
    <3>1. \A i \in K : rank(i) \in 1..c
      BY <1>2
    <3>2. QED  BY <1>4, <3>1 DEF Injection, IsInjective
  <2>2. IsFiniteSet(1..c) /\ Cardinality(1..c) = c
    BY <1>1, FS_Interval
  <2> HIDE DEF f
  <2>3. f \in Surjection(K, 1..c)
    BY <2>1, <2>2, FS_Injection
  <2>4. \A n \in 1..c : \E i \in K : f[i] = n
    BY <2>3 DEF Surjection
  <2> HIDE DEF rank
  <2>5. QED  BY <2>4 DEF f
<1>6. \A n \in 1..c : Kept!Place(K, n) \in K /\ rank(Kept!Place(K, n)) = n
  <2>1. ASSUME NEW n \in 1..c
        PROVE  Kept!Place(K, n) \in K /\ rank(Kept!Place(K, n)) = n
    <3>1. Kept!Place(K, n) = CHOOSE i \in K : rank(i) = n
      BY KeptCount DEF Kept!Place
    <3> HIDE DEF rank
    <3>2. QED  BY <1>5, <3>1
  <2>2. QED  BY <2>1
<1> HIDE DEF rank, c
<1>7. \A i \in K : rank(i) \in 1..c /\ Kept!Place(K, rank(i)) = i
  BY <1>2, <1>4, <1>6
<1>8. QED  BY <1>1, <1>6, <1>7 DEF c

\* The messages of a list, and that no topic comes twice in it.
Messages(list) == {list[i] : i \in DOMAIN list}
NoTwice(list) == \A i, j \in DOMAIN list : list[i].topic = list[j].topic => i = j

LEMMA OnlyIs ==
  ASSUME NEW S, NEW list \in Seq(S), NEW K \in SUBSET (DOMAIN list)
  PROVE  /\ Kept!Only(list, K) \in Seq(S)
         /\ Len(Kept!Only(list, K)) = Cardinality(K)
         /\ IsFiniteSet(K)
         /\ Messages(Kept!Only(list, K)) = {list[i] : i \in K}
         /\ NoTwice(list) => NoTwice(Kept!Only(list, K))
<1> DEFINE c == Cardinality(K)
           only == [n \in 1..c |-> list[Kept!Place(K, n)]]
<1>1. DOMAIN list = 1..Len(list) /\ Len(list) \in Nat /\ \A i \in DOMAIN list : list[i] \in S
  OBVIOUS
<1>2. /\ IsFiniteSet(K) /\ c \in Nat
      /\ \A n \in 1..c : Kept!Place(K, n) \in K
      /\ \A n, l \in 1..c : Kept!Place(K, n) = Kept!Place(K, l) => n = l
      /\ \A i \in K : \E n \in 1..c : Kept!Place(K, n) = i
  BY <1>1, Places
<1>3. Kept!Only(list, K) = only
  BY KeptCount DEF Kept!Only
<1> HIDE DEF c
<1>4. DOMAIN only = 1..c /\ \A n \in 1..c : only[n] = list[Kept!Place(K, n)]
  OBVIOUS
<1>5. \A n \in 1..c : only[n] \in S
  BY <1>1, <1>2, <1>4
<1> HIDE DEF only
<1>6. only \in Seq(S) /\ Len(only) = c
  <2>1. only = [n \in 1..c |-> only[n]]
    BY <1>4 DEF only
  <2>2. only \in [1..c -> S]
    BY <1>5, <2>1
  <2>3. QED  BY <1>2, <2>2, SeqDef
<1>7. Messages(only) = {list[i] : i \in K}
  BY <1>2, <1>4 DEF Messages
<1>8. NoTwice(list) => NoTwice(only)
  BY <1>2, <1>4 DEF NoTwice
<1>9. QED  BY <1>2, <1>3, <1>6, <1>7, <1>8 DEF c

\* What messages take, byte by byte.
BytesOf(M) == UNION {{r} \X (1..Kept!MsgSize(r)) : r \in M}
Takes(M) == Cardinality(BytesOf(M))

LEMMA TakesIs ==
  \A M : Kept!Weight(M) = Takes(M) /\ Kept!Sizes(M) = Takes(M)
BY KeptCount DEF Kept!Weight, Kept!Sizes, Takes, BytesOf, Kept!MsgSize

LEMMA TakesNothing == IsFiniteSet(BytesOf({})) /\ Takes({}) = 0
<1>1. BytesOf({}) = {}
  BY DEF BytesOf
<1>2. QED  BY <1>1, FS_EmptySet DEF Takes

LEMMA TakesLess ==
  ASSUME NEW M, IsFiniteSet(BytesOf(M)), NEW T \in SUBSET M
  PROVE  /\ IsFiniteSet(BytesOf(T)) /\ IsFiniteSet(BytesOf(M \ T))
         /\ Takes(M) \in Nat /\ Takes(T) \in 0..Takes(M)
         /\ Takes(M \ T) = Takes(M) - Takes(T)
<1> DEFINE B(r) == {r} \X (1..Kept!MsgSize(r))
<1>1. BytesOf(M \ T) = BytesOf(M) \ BytesOf(T)
  <2>1. \A p, q : p # q => B(p) \cap B(q) = {}
    OBVIOUS
  <2>2. \A N : BytesOf(N) = UNION {B(r) : r \in N}
    BY DEF BytesOf
  <2> HIDE DEF B
  <2>3. QED  BY <2>1, <2>2
<1>2. BytesOf(T) \in SUBSET BytesOf(M)
  BY DEF BytesOf
<1>3. IsFiniteSet(BytesOf(T)) /\ Takes(T) <= Takes(M)
  BY <1>2, FS_Subset DEF Takes
<1>4. Takes(M) \in Nat /\ Takes(T) \in Nat
  BY <1>3, FS_CardinalityType DEF Takes
<1>5. /\ IsFiniteSet(BytesOf(M) \ BytesOf(T))
      /\ Cardinality(BytesOf(M) \ BytesOf(T))
           = Cardinality(BytesOf(M)) - Cardinality(BytesOf(M) \cap BytesOf(T))
  BY FS_Difference
<1>6. BytesOf(M) \cap BytesOf(T) = BytesOf(T)
  BY <1>2
<1>7. Takes(T) \in 0..Takes(M)
  BY <1>3, <1>4
<1>8. IsFiniteSet(BytesOf(M \ T)) /\ Takes(M \ T) = Takes(M) - Takes(T)
  BY <1>1, <1>5, <1>6 DEF Takes
<1>9. QED  BY <1>3, <1>4, <1>7, <1>8

LEMMA TakesMore ==
  ASSUME NEW M, IsFiniteSet(BytesOf(M)), NEW r, r \notin M, Kept!MsgSize(r) \in Nat
  PROVE  /\ IsFiniteSet(BytesOf(M \cup {r}))
         /\ Takes(M \cup {r}) = Takes(M) + Kept!MsgSize(r)
<1> DEFINE n == Kept!MsgSize(r)
           New == {r} \X (1..n)
<1>1. BytesOf(M \cup {r}) = BytesOf(M) \cup New
  BY DEF BytesOf
<1>2. BytesOf(M) \cap New = {}
  BY DEF BytesOf
<1> HIDE DEF n
<1>3. IsFiniteSet(New) /\ Cardinality(New) = n
  <2>1. IsFiniteSet({r}) /\ Cardinality({r}) = 1
    BY FS_Singleton
  <2>2. IsFiniteSet(1..n) /\ Cardinality(1..n) = n
    BY FS_Interval DEF n
  <2>3. /\ IsFiniteSet({r} \X (1..n))
        /\ Cardinality({r} \X (1..n)) = Cardinality({r}) * Cardinality(1..n)
    BY <2>1, <2>2, FS_Product
  <2>4. n \in Nat
    BY DEF n
  <2>5. QED  BY <2>1, <2>2, <2>3, <2>4
<1> HIDE DEF New
<1>4. Takes(M) \in Nat
  BY FS_CardinalityType DEF Takes
<1>5. /\ IsFiniteSet(BytesOf(M) \cup New)
      /\ Cardinality(BytesOf(M) \cup New) =
           Cardinality(BytesOf(M)) + Cardinality(New) - Cardinality(BytesOf(M) \cap New)
  BY <1>3, FS_Union
<1>6. Cardinality(BytesOf(M) \cap New) = 0
  BY <1>2, FS_EmptySet
<1>7. n \in Nat
  BY DEF n
<1>8. Cardinality(BytesOf(M) \cup New) = Takes(M) + n
  BY <1>3, <1>4, <1>5, <1>6, <1>7 DEF Takes
<1>9. QED  BY <1>1, <1>5, <1>8 DEF Takes, n

-----------------------------------------------------------------------------
(* A store that counts its bytes and holds no topic twice, and what        *)
(* retain_remove makes of it.                                              *)

StoreType == [list: Seq(Kept!Retained), bytes: Nat]

Sound(s) == /\ s \in StoreType
            /\ NoTwice(s.list)
            /\ IsFiniteSet(BytesOf(Messages(s.list)))
            /\ s.bytes = Takes(Messages(s.list))

TakenAt(s, P) == {s.list[i] : i \in P}

LEMMA RemovedIs ==
  ASSUME NEW s, Sound(s), NEW P \in SUBSET (DOMAIN s.list)
  PROVE  /\ Sound(Kept!Removed(s, P))
         /\ Messages(Kept!Removed(s, P).list) = Messages(s.list) \ TakenAt(s, P)
         /\ Len(Kept!Removed(s, P).list) = Cardinality(DOMAIN s.list \ P)
         /\ Kept!Removed(s, P).bytes = Kept!Left(s, P)
         /\ Kept!Left(s, P) = s.bytes - Takes(TakenAt(s, P))
         /\ Takes(TakenAt(s, P)) \in 0..s.bytes
<1> DEFINE K == DOMAIN s.list \ P
           list == Kept!Only(s.list, K)
           M == Messages(s.list)
           T == TakenAt(s, P)
<1>1. s.list \in Seq(Kept!Retained) /\ s.bytes \in Nat
  BY DEF Sound, StoreType
<1>2. /\ list \in Seq(Kept!Retained)
      /\ Len(list) = Cardinality(K)
      /\ Messages(list) = {s.list[i] : i \in K}
      /\ NoTwice(list)
  BY <1>1, OnlyIs DEF Sound
<1>3. T \subseteq M
  BY DEF Messages, TakenAt
<1>4. Messages(list) = M \ T
  <2>1. \A i \in DOMAIN s.list, j \in P : s.list[i] = s.list[j] => i = j
    BY DEF Sound, NoTwice
  <2>2. QED  BY <1>2, <2>1 DEF Messages, TakenAt
<1> HIDE DEF M, T
<1>5. /\ IsFiniteSet(BytesOf(M \ T)) /\ Takes(T) \in 0..Takes(M) /\ Takes(M) \in Nat
      /\ Takes(M \ T) = Takes(M) - Takes(T)
  BY <1>3, TakesLess DEF Sound, M
<1>6. s.bytes = Takes(M)
  BY DEF Sound, M
<1>7. Kept!Left(s, P) = IF s.bytes >= Takes(T) THEN s.bytes - Takes(T) ELSE 0
  BY TakesIs DEF Kept!Left, T, TakenAt
<1>8. Kept!Left(s, P) = s.bytes - Takes(T) /\ Kept!Left(s, P) \in Nat
  BY <1>5, <1>6, <1>7
<1> HIDE DEF list
<1>9. /\ Kept!Removed(s, P) \in StoreType
      /\ Kept!Removed(s, P).list = list /\ Kept!Removed(s, P).bytes = Kept!Left(s, P)
  BY <1>2, <1>8 DEF Kept!Removed, StoreType, list
<1>10. Sound(Kept!Removed(s, P))
  BY <1>2, <1>4, <1>5, <1>6, <1>8, <1>9 DEF Sound
<1>11. QED  BY <1>2, <1>4, <1>5, <1>6, <1>8, <1>9, <1>10 DEF M, T

\* Eviction goes through the messages in a total order: by the clock, and by their place.
Stamp(s, i) == Kept!Clock(s.list[i].stored_at)
Goes(s, i, j) == Stamp(s, i) < Stamp(s, j) \/ (Stamp(s, i) = Stamp(s, j) /\ i < j)

LEMMA BeforeIs ==
  \A s, i : Kept!Before(s, i) = {j \in DOMAIN s.list : Goes(s, j, i)}
BY DEF Kept!Before, Goes, Stamp

LEMMA ClockIs ==
  ASSUME Kept!RetainAssumption
  PROVE  /\ \A x \in Nat : Kept!Clock(x) \in 0..ClockWrap
         /\ \A x \in Nat : x < ClockWrap => Kept!Clock(x) = x
  BY DEF Kept!RetainAssumption, Kept!Clock

LEMMA PlaceFacts ==
  ASSUME Kept!RetainAssumption, NEW s, Sound(s), NEW i \in DOMAIN s.list
  PROVE  /\ i \in 0..Len(s.list) /\ Len(s.list) \in Nat
         /\ s.list[i] \in Kept!Retained
         /\ s.list[i].topic \in Topic
         /\ s.list[i].payload \in Payload \ {0}
         /\ s.list[i].stored_at \in 0..UptimeMax
         /\ Stamp(s, i) \in 0..ClockWrap
         /\ Kept!MsgSize(s.list[i]) \in Nat
<1>1. s.list \in Seq(Kept!Retained)
  BY DEF Sound, StoreType
<1>2. s.list[i] \in Kept!Retained /\ i \in 0..Len(s.list) /\ Len(s.list) \in Nat
  BY <1>1
<1>3. /\ s.list[i].topic \in Topic /\ s.list[i].payload \in Payload \ {0}
      /\ s.list[i].stored_at \in 0..UptimeMax
  BY <1>2 DEF Kept!Retained
<1>4. s.list[i].stored_at \in Nat
  BY <1>3
<1>5. Stamp(s, i) \in 0..ClockWrap
  BY <1>4, ClockIs DEF Stamp
<1>6. Kept!MsgSize(s.list[i]) \in Nat
  <2>1. s.list[i].payload \in Nat /\ Overhead \in Nat
    BY <1>3 DEF Kept!RetainAssumption
  <2>2. QED  BY <2>1 DEF Kept!MsgSize
<1>7. QED  BY <1>2, <1>3, <1>5, <1>6

LEMMA GoesIsOrder ==
  ASSUME Kept!RetainAssumption, NEW s, Sound(s)
  PROVE  /\ \A i, j \in DOMAIN s.list : i = j \/ Goes(s, i, j) \/ Goes(s, j, i)
         /\ \A i, j \in DOMAIN s.list : ~(Goes(s, i, j) /\ Goes(s, j, i))
         /\ \A i \in DOMAIN s.list : ~Goes(s, i, i)
         /\ \A i, j, k \in DOMAIN s.list : Goes(s, i, j) /\ Goes(s, j, k) => Goes(s, i, k)
<1>1. \A i \in DOMAIN s.list : i \in Int /\ Stamp(s, i) \in Int
  BY PlaceFacts
<1>2. QED  BY <1>1 DEF Goes

LEMMA FirstGone ==
  ASSUME Kept!RetainAssumption, NEW s, Sound(s), NEW X \in SUBSET (DOMAIN s.list), X # {}
  PROVE  \E i \in X : \A j \in X : i = j \/ Goes(s, i, j)
<1> DEFINE A == {Stamp(s, i) : i \in X}
<1>1. \A i \in X : i \in Nat /\ Stamp(s, i) \in Nat
  BY PlaceFacts
<1>2. A \in SUBSET Nat /\ A # {}
  BY <1>1
<1> HIDE DEF A
<1>3. PICK a \in A : \A b \in A : a <= b
  BY <1>2, LeastOf
<1> DEFINE B == {i \in X : Stamp(s, i) = a}
<1>4. B \in SUBSET Nat /\ B # {}
  BY <1>1, <1>3 DEF A
<1>5. PICK i \in B : \A j \in B : i <= j
  BY <1>4, LeastOf
<1>6. ASSUME NEW j \in X PROVE i = j \/ Goes(s, i, j)
  <2>1. a <= Stamp(s, j) /\ Stamp(s, i) = a /\ a \in Nat /\ Stamp(s, j) \in Nat
    BY <1>1, <1>3, <1>5 DEF A
  <2>2. CASE Stamp(s, j) = a
    <3>1. i <= j /\ i \in Nat /\ j \in Nat
      BY <1>1, <1>5, <2>2
    <3>2. QED  BY <2>1, <2>2, <3>1 DEF Goes
  <2>3. CASE Stamp(s, j) # a
    BY <2>1, <2>3 DEF Goes
  <2>4. QED  BY <2>2, <2>3
<1>7. QED  BY <1>5, <1>6

LEMMA LastGone ==
  ASSUME Kept!RetainAssumption, NEW s, Sound(s), NEW X \in SUBSET (DOMAIN s.list), X # {}
  PROVE  \E i \in X : \A j \in X : i = j \/ Goes(s, j, i)
<1> DEFINE A == {Stamp(s, i) : i \in X}
<1>1. /\ \A i \in X : i \in 0..Len(s.list) /\ Stamp(s, i) \in 0..ClockWrap
      /\ Len(s.list) \in Nat /\ ClockWrap \in Nat
  BY PlaceFacts DEF Kept!RetainAssumption
<1>2. A \in SUBSET (0..ClockWrap) /\ A # {}
  BY <1>1
<1> HIDE DEF A
<1>3. PICK a \in A : \A b \in A : b <= a
  BY <1>1, <1>2, GreatestOf
<1> DEFINE B == {i \in X : Stamp(s, i) = a}
<1>4. B \in SUBSET (0..Len(s.list)) /\ B # {}
  BY <1>1, <1>3 DEF A
<1>5. PICK i \in B : \A j \in B : j <= i
  BY <1>1, <1>4, GreatestOf
<1>6. ASSUME NEW j \in X PROVE i = j \/ Goes(s, j, i)
  <2>1. Stamp(s, j) <= a /\ Stamp(s, i) = a /\ a \in Nat /\ Stamp(s, j) \in Nat
    BY <1>1, <1>3, <1>5 DEF A
  <2>2. CASE Stamp(s, j) = a
    <3>1. j <= i /\ i \in Nat /\ j \in Nat
      BY <1>1, <1>5, <2>2
    <3>2. QED  BY <2>1, <2>2, <3>1 DEF Goes
  <2>3. CASE Stamp(s, j) # a
    BY <2>1, <2>3 DEF Goes
  <2>4. QED  BY <2>2, <2>3
<1>7. QED  BY <1>5, <1>6

\* What eviction takes: with a message all that go before it; enough, or all there is;
\* and with the last one still there the limit would be exceeded.
LEMMA EvictionIs ==
  ASSUME Kept!RetainAssumption, NEW s, Sound(s), NEW n \in Nat, NEW limit \in Nat
  PROVE  LET E == Kept!Evicted(s, n, limit)
             after == Kept!EvictedFor(s, n, limit) IN
         /\ E \subseteq DOMAIN s.list
         /\ \A i \in E, j \in DOMAIN s.list : Goes(s, j, i) => j \in E
         /\ Sound(after)
         /\ Messages(after.list) = Messages(s.list) \ TakenAt(s, E)
         /\ after.list = <<>> \/ after.bytes + n <= limit
         /\ E # {} => \E i \in E : after.bytes + n + Kept!MsgSize(s.list[i]) > limit
<1> DEFINE E == Kept!Evicted(s, n, limit)
           after == Kept!EvictedFor(s, n, limit)
           B(i) == Kept!Before(s, i)
<1>1. E = {i \in DOMAIN s.list : Kept!Left(s, B(i)) + n > limit}
  BY DEF Kept!Evicted
<1>2. \A i : B(i) = {j \in DOMAIN s.list : Goes(s, j, i)}
  BY BeforeIs
<1>3. E \in SUBSET (DOMAIN s.list) /\ \A i : B(i) \in SUBSET (DOMAIN s.list)
  BY <1>1, <1>2
<1>4. /\ Sound(after)
      /\ Messages(after.list) = Messages(s.list) \ TakenAt(s, E)
      /\ Len(after.list) = Cardinality(DOMAIN s.list \ E)
      /\ after.bytes = Kept!Left(s, E)
  BY <1>3, RemovedIs DEF Kept!EvictedFor
<1> HIDE DEF E, after, B
<1>5. ASSUME NEW P \in SUBSET (DOMAIN s.list), NEW Q \in SUBSET P
      PROVE  Kept!Left(s, Q) \in Nat /\ Kept!Left(s, P) <= Kept!Left(s, Q)
  <2>1. /\ Kept!Left(s, P) = s.bytes - Takes(TakenAt(s, P)) /\ Takes(TakenAt(s, P)) \in 0..s.bytes
        /\ Kept!Left(s, Q) = s.bytes - Takes(TakenAt(s, Q)) /\ Takes(TakenAt(s, Q)) \in 0..s.bytes
    BY RemovedIs
  <2>2. TakenAt(s, Q) \in SUBSET TakenAt(s, P) /\ TakenAt(s, P) \in SUBSET Messages(s.list)
    BY DEF TakenAt, Messages
  <2>3. IsFiniteSet(BytesOf(TakenAt(s, P)))
    BY <2>2, TakesLess DEF Sound
  <2>4. Takes(TakenAt(s, Q)) \in 0..Takes(TakenAt(s, P))
    BY <2>2, <2>3, TakesLess
  <2>5. s.bytes \in Nat
    BY DEF Sound, StoreType
  <2>6. QED  BY <2>1, <2>4, <2>5
<1>6. ASSUME NEW i \in E, NEW j \in DOMAIN s.list, Goes(s, j, i)
      PROVE  j \in E
  <2>1. B(j) \in SUBSET B(i)
    BY <1>1, <1>2, <1>3, <1>6, GoesIsOrder
  <2>2. Kept!Left(s, B(i)) <= Kept!Left(s, B(j)) /\ Kept!Left(s, B(j)) \in Nat
    BY <1>3, <1>5, <2>1
  <2>3. Kept!Left(s, B(i)) \in Nat
    BY <1>3, <1>5
  <2>4. Kept!Left(s, B(i)) + n > limit
    BY <1>1
  <2>5. QED  BY <1>1, <2>2, <2>3, <2>4
<1>7. after.list = <<>> \/ after.bytes + n <= limit
  <2>1. CASE DOMAIN s.list \ E = {}
    <3>1. Len(after.list) = 0
      BY <1>4, <2>1, FS_EmptySet
    <3>2. QED  BY <1>4, <3>1 DEF Sound, StoreType
  <2>2. CASE DOMAIN s.list \ E # {}
    <3>1. PICK i \in DOMAIN s.list \ E : \A j \in DOMAIN s.list \ E : i = j \/ Goes(s, i, j)
      BY <2>2, FirstGone
    <3>2. B(i) \in SUBSET E
      BY <1>2, <3>1, GoesIsOrder
    <3>3. Kept!Left(s, E) <= Kept!Left(s, B(i)) /\ Kept!Left(s, B(i)) \in Nat
          /\ Kept!Left(s, E) \in Nat
      BY <1>3, <1>5, <3>2
    <3>4. ~(Kept!Left(s, B(i)) + n > limit)
      BY <1>1, <3>1
    <3>5. QED  BY <1>4, <3>3, <3>4
  <2>3. QED  BY <2>1, <2>2
<1>8. ASSUME E # {}
      PROVE  \E i \in E : after.bytes + n + Kept!MsgSize(s.list[i]) > limit
  <2>1. PICK i \in E : \A j \in E : i = j \/ Goes(s, j, i)
    BY <1>3, <1>8, LastGone
  <2>2. E = B(i) \cup {i} /\ i \notin B(i)
    BY <1>2, <1>3, <1>6, <2>1, GoesIsOrder
  <2>3. TakenAt(s, E) = TakenAt(s, B(i)) \cup {s.list[i]} /\ s.list[i] \notin TakenAt(s, B(i))
    <3>1. \A j \in B(i) : s.list[j] # s.list[i]
      BY <1>3, <2>2 DEF Sound, NoTwice
    <3>2. QED  BY <2>2, <3>1 DEF TakenAt
  <2>4. Kept!MsgSize(s.list[i]) \in Nat
    BY <1>3, PlaceFacts
  <2>5. TakenAt(s, B(i)) \in SUBSET Messages(s.list)
    BY <1>3 DEF TakenAt, Messages
  <2>6. IsFiniteSet(BytesOf(TakenAt(s, B(i))))
    BY <2>5, TakesLess DEF Sound
  <2>7. Takes(TakenAt(s, E)) = Takes(TakenAt(s, B(i))) + Kept!MsgSize(s.list[i])
    BY <2>3, <2>4, <2>6, TakesMore
  <2>8. /\ Kept!Left(s, E) = s.bytes - Takes(TakenAt(s, E))
        /\ Kept!Left(s, B(i)) = s.bytes - Takes(TakenAt(s, B(i)))
        /\ Takes(TakenAt(s, E)) \in 0..s.bytes /\ Takes(TakenAt(s, B(i))) \in 0..s.bytes
    BY <1>3, RemovedIs
  <2>9. Kept!Left(s, B(i)) + n > limit
    BY <1>1, <2>1
  <2>10. s.bytes \in Nat
    BY DEF Sound, StoreType
  <2>11. after.bytes + n + Kept!MsgSize(s.list[i]) > limit
    BY <1>4, <2>4, <2>7, <2>8, <2>9, <2>10
  <2>12. QED  BY <2>11
<1>9. QED  BY <1>3, <1>4, <1>6, <1>7, <1>8 DEF E, after

LEMMA RetainClockIsSlow ==
  ASSUME Kept!RetainAssumption, NEW a \in Nat, NEW b \in Nat, a <= b
  PROVE  /\ Kept!Clock(a) \in Nat /\ Kept!Clock(b) \in Nat
         /\ Kept!Clock(b) - Kept!Clock(a) <= b - a
<1>1. ClockWrap \in Nat \ {0}
  BY DEF Kept!RetainAssumption
<1> DEFINE ca == Kept!Clock(a)
           cb == Kept!Clock(b)
           qa == a \div ClockWrap
           qb == b \div ClockWrap
<1>2. /\ qa \in Nat /\ ca \in Nat /\ a = ClockWrap * qa + ca /\ ca < ClockWrap
      /\ qb \in Nat /\ cb \in Nat /\ b = ClockWrap * qb + cb /\ cb < ClockWrap
  BY <1>1 DEF Kept!Clock
<1> HIDE DEF qa, qb, ca, cb
<1>3. qa <= qb
  <2>1. SUFFICES ASSUME qb + 1 <= qa PROVE FALSE
    BY <1>2
  <2>2. ClockWrap * (qb + 1) <= ClockWrap * qa
    BY <1>1, <1>2, <2>1
  <2>3. ClockWrap * (qb + 1) = ClockWrap * qb + ClockWrap
    BY <1>1, <1>2
  <2>4. QED  BY <1>1, <1>2, <2>2, <2>3
<1>4. ClockWrap * qa <= ClockWrap * qb
  BY <1>1, <1>2, <1>3
<1>5. QED  BY <1>1, <1>2, <1>4 DEF ca, cb

LEMMA LeastPlace ==
  ASSUME NEW s, Sound(s), NEW X \in SUBSET (DOMAIN s.list), X # {}
  PROVE  Kept!Min(X) \in X
<1>1. X \in SUBSET Nat
  BY DEF Sound, StoreType
<1>2. \E i \in X : \A j \in X : i <= j
  BY <1>1, LeastOf
<1>3. QED  BY <1>2 DEF Kept!Min

\* The store without a topic: what was stored for it, and only that, is gone.
LEMMA WithoutIs ==
  ASSUME NEW s, Sound(s), NEW t
  PROVE  /\ Sound(Kept!Without(s, t))
         /\ Messages(Kept!Without(s, t).list) = {r \in Messages(s.list) : r.topic # t}
         /\ \E P \in SUBSET (DOMAIN s.list) :
              Kept!Without(s, t) = s \/ Kept!Without(s, t) = Kept!Removed(s, P)
<1> DEFINE A == Kept!At(s, t)
<1>1. A = {i \in DOMAIN s.list : s.list[i].topic = t}
  BY DEF Kept!At
<1>2. CASE A = {}
  <2>1. Kept!Without(s, t) = s
    BY <1>2 DEF Kept!Without
  <2>2. \A r \in Messages(s.list) : r.topic # t
    BY <1>1, <1>2 DEF Messages
  <2>3. QED  BY <2>1, <2>2
<1>3. CASE A # {}
  <2> DEFINE i == Kept!Min(A)
  <2>1. A \in SUBSET (DOMAIN s.list)
    BY <1>1
  <2> HIDE DEF A
  <2>2. i \in A
    BY <1>3, <2>1, LeastPlace
  <2>3. Kept!Without(s, t) = Kept!Removed(s, {i})
    BY <1>3 DEF Kept!Without, A
  <2>4. i \in DOMAIN s.list /\ s.list[i].topic = t
    BY <1>1, <2>2
  <2> HIDE DEF i
  <2>5. /\ Sound(Kept!Removed(s, {i}))
        /\ Messages(Kept!Removed(s, {i}).list) = Messages(s.list) \ TakenAt(s, {i})
    BY <2>4, RemovedIs
  <2>6. \A r \in Messages(s.list) : r.topic = t <=> r \in TakenAt(s, {i})
    BY <2>4 DEF Messages, TakenAt, Sound, NoTwice
  <2>7. Messages(s.list) \ TakenAt(s, {i}) = {r \in Messages(s.list) : r.topic # t}
    BY <2>6
  <2>8. QED  BY <2>3, <2>4, <2>5, <2>7
<1>4. QED  BY <1>2, <1>3

\* Under the limit, but for one message alone.
Capped(s) == (\E limit \in Limits : s.bytes <= limit) \/ Len(s.list) = 1

LEMMA CappedWithout ==
  ASSUME Kept!RetainAssumption, NEW s, Sound(s), Capped(s), NEW P \in SUBSET (DOMAIN s.list)
  PROVE  Capped(Kept!Removed(s, P))
<1> DEFINE r == Kept!Removed(s, P)
<1>1. /\ Sound(r)
      /\ Len(r.list) = Cardinality(DOMAIN s.list \ P)
      /\ r.bytes = s.bytes - Takes(TakenAt(s, P))
      /\ Takes(TakenAt(s, P)) \in 0..s.bytes
  BY RemovedIs
<1>2. s.bytes \in Nat /\ r.bytes \in Nat
  BY <1>1 DEF Sound, StoreType
<1> HIDE DEF r
<1>3. r.bytes <= s.bytes
  BY <1>1, <1>2
<1>4. CASE \E limit \in Limits : s.bytes <= limit
  <2>1. PICK limit \in Limits : s.bytes <= limit
    BY <1>4
  <2>2. limit \in Nat
    BY DEF Kept!RetainAssumption
  <2>3. r.bytes <= limit
    BY <1>2, <1>3, <2>1, <2>2
  <2>4. QED  BY <2>3 DEF Capped, r
<1>5. CASE Len(s.list) = 1
  <2>1. DOMAIN s.list = {1}
    BY <1>5 DEF Sound, StoreType
  <2>2. CASE 1 \in P
    <3>1. DOMAIN s.list \ P = {}
      BY <2>1, <2>2
    <3>2. Len(r.list) = 0 /\ r.list \in Seq(Kept!Retained)
      BY <1>1, <3>1, FS_EmptySet DEF Sound, StoreType
    <3>3. Messages(r.list) = {}
      BY <3>2 DEF Messages
    <3>4. r.bytes = 0
      BY <1>1, <3>3, TakesNothing DEF Sound
    <3>5. PICK limit \in Limits : TRUE
      BY DEF Kept!RetainAssumption
    <3>6. limit \in Nat
      BY DEF Kept!RetainAssumption
    <3>7. r.bytes <= limit
      BY <3>4, <3>6
    <3>8. QED  BY <3>7 DEF Capped, r
  <2>3. CASE 1 \notin P
    <3>1. DOMAIN s.list \ P = {1}
      BY <2>1, <2>3
    <3>2. Len(r.list) = 1
      BY <1>1, <3>1, FS_Singleton
    <3>3. QED  BY <3>2 DEF Capped, r
  <2>4. QED  BY <2>2, <2>3
<1>6. QED  BY <1>4, <1>5 DEF Capped

\* What storing a message for t leaves of the others, and what it puts out.
LEMMA StoredIs ==
  ASSUME Kept!RetainAssumption, Sound(store), NEW t, NEW p \in Nat, NEW limit \in Nat,
         Kept!StoreIn(t, p, limit)
  PROVE  LET w == Kept!Without(store, t)
             room == Kept!EvictedFor(w, Overhead + p, limit)
             msg == [topic |-> t, payload |-> p, stored_at |-> uptime] IN
         /\ Sound(w) /\ Sound(room) /\ Overhead + p \in Nat
         /\ store' = [list |-> <<msg>> \o room.list, bytes |-> room.bytes + (Overhead + p)]
         /\ Messages(store'.list) = {msg} \cup Messages(room.list)
         /\ Messages(room.list) \subseteq Messages(w.list)
<1> DEFINE w == Kept!Without(store, t)
           room == Kept!EvictedFor(w, Overhead + p, limit)
           msg == [topic |-> t, payload |-> p, stored_at |-> uptime]
<1>1. Overhead + p \in Nat /\ Overhead \in Nat
  BY DEF Kept!RetainAssumption
<1>2. Sound(w)
  BY WithoutIs
<1> HIDE DEF w
<1>3. Sound(room) /\ Messages(room.list) = Messages(w.list) \ TakenAt(w, Kept!Evicted(w, Overhead + p, limit))
  BY <1>1, <1>2, EvictionIs
<1>4. store' = [list |-> <<msg>> \o room.list, bytes |-> (room.bytes + Overhead) + p]
  BY DEF Kept!StoreIn, w
<1>5. room.bytes \in Nat /\ room.list \in Seq(Kept!Retained)
  BY <1>3 DEF Sound, StoreType
<1> HIDE DEF room, msg
<1>6. store' = [list |-> <<msg>> \o room.list, bytes |-> room.bytes + (Overhead + p)]
  <2>1. (room.bytes + Overhead) + p = room.bytes + (Overhead + p)
    BY <1>1, <1>5
  <2>2. QED  BY <1>4, <2>1
<1>7. Messages(<<msg>> \o room.list) = {msg} \cup Messages(room.list)
  <2> DEFINE l == <<msg>> \o room.list
             m == Len(room.list)
  <2>1. /\ m \in Nat /\ DOMAIN room.list = 1..m
        /\ DOMAIN l = 1..(m + 1) /\ l[1] = msg
        /\ \A i \in 1..m : l[i + 1] = room.list[i]
    BY <1>5
  <2> HIDE DEF l, m
  <2>2. \A i \in 1..(m + 1) : i = 1 \/ (i - 1 \in 1..m /\ (i - 1) + 1 = i)
    BY <2>1
  <2>3. \A i \in 1..m : i + 1 \in 1..(m + 1)
    BY <2>1
  <2>4. 1 \in 1..(m + 1)
    BY <2>1
  <2>5. Messages(l) = {msg} \cup Messages(room.list)
    <3>1. ASSUME NEW i \in 1..(m + 1) PROVE l[i] \in {msg} \cup Messages(room.list)
      <4>1. CASE i = 1
        BY <2>1, <4>1
      <4>2. CASE i # 1
        <5>1. i - 1 \in 1..m /\ l[i] = room.list[i - 1]
          BY <2>1, <2>2, <4>2
        <5>2. QED  BY <2>1, <5>1 DEF Messages
      <4>3. QED  BY <4>1, <4>2
    <3>2. Messages(l) \subseteq {msg} \cup Messages(room.list)
      BY <2>1, <3>1 DEF Messages
    <3>3. msg \in Messages(l)
      BY <2>1, <2>4 DEF Messages
    <3>4. ASSUME NEW i \in 1..m PROVE room.list[i] \in Messages(l)
      BY <2>1, <2>3 DEF Messages
    <3>5. Messages(room.list) \subseteq Messages(l)
      BY <2>1, <3>4 DEF Messages
    <3>6. QED  BY <3>2, <3>3, <3>5
  <2>6. QED  BY <2>5 DEF l
<1>8. store'.list = <<msg>> \o room.list
  BY <1>6
<1>9. QED  BY <1>1, <1>2, <1>3, <1>6, <1>7, <1>8 DEF w, room, msg

-----------------------------------------------------------------------------
(* The retained store over time. *)

Stored(s) == \A r \in Messages(s.list) : r.stored_at <= uptime

Fresh(s) == uptime < ClockWrap /\ Ttl > 0 =>
              \A r \in Messages(s.list) : last_stats <= r.stored_at + Ttl

SweptInTime == uptime < ClockWrap => uptime - last_stats <= StatsEvery + 1

RetainInv == /\ Sound(store) /\ Capped(store)
             /\ uptime \in 0..UptimeMax /\ last_stats \in 0..uptime
             /\ Stored(store) /\ Fresh(store) /\ SweptInTime

LEMMA MessageFields ==
  ASSUME Kept!RetainAssumption, NEW s, Sound(s)
  PROVE  \A r \in Messages(s.list) :
           /\ r \in Kept!Retained /\ r.topic \in Topic /\ r.payload \in Payload \ {0}
           /\ r.payload \in Nat /\ r.stored_at \in 0..UptimeMax
<1>1. \A i \in DOMAIN s.list :
        /\ s.list[i] \in Kept!Retained /\ s.list[i].topic \in Topic
        /\ s.list[i].payload \in Payload \ {0} /\ s.list[i].stored_at \in 0..UptimeMax
  BY PlaceFacts
<1>2. \A p \in Payload : p \in Nat
  BY DEF Kept!RetainAssumption
<1>3. QED  BY <1>1, <1>2 DEF Messages

LEMMA RetainTimes ==
  ASSUME Kept!RetainAssumption, RetainInv
  PROVE  /\ uptime \in Nat /\ last_stats \in Nat /\ last_stats <= uptime /\ uptime <= UptimeMax
         /\ Ttl \in Nat /\ StatsEvery \in Nat /\ ClockWrap \in Nat \ {0} /\ UptimeMax \in Nat
BY DEF Kept!RetainAssumption, RetainInv

\* A step that only removes messages, at one time.
LEMMA OnlyRemoves ==
  ASSUME Kept!RetainAssumption, RetainInv, NEW P \in SUBSET (DOMAIN store.list),
         store' = store \/ store' = Kept!Removed(store, P), UNCHANGED <<uptime, last_stats>>
  PROVE  RetainInv'
<1>1. CASE store' = store
  BY <1>1 DEF RetainInv, Stored, Fresh, SweptInTime
<1>2. CASE store' = Kept!Removed(store, P)
  <2>1. Sound(store') /\ Capped(store')
    BY <1>2, RemovedIs, CappedWithout DEF RetainInv
  <2>2. Messages(store'.list) \subseteq Messages(store.list)
    BY <1>2, RemovedIs DEF RetainInv
  <2>3. QED  BY <2>1, <2>2 DEF RetainInv, Stored, Fresh, SweptInTime
<1>3. QED  BY <1>1, <1>2

LEMMA DeleteRetained ==
  ASSUME Kept!RetainAssumption, RetainInv, NEW t \in Topic, Kept!Delete(t)
  PROVE  RetainInv'
<1>1. store' = Kept!Without(store, t) /\ UNCHANGED <<uptime, last_stats>>
  BY DEF Kept!Delete
<1>2. PICK P \in SUBSET (DOMAIN store.list) :
        Kept!Without(store, t) = store \/ Kept!Without(store, t) = Kept!Removed(store, P)
  BY WithoutIs DEF RetainInv
<1>3. QED  BY <1>1, <1>2, OnlyRemoves

\* What is new in the store is the message, and its topic comes once.
LEMMA StoreRetained ==
  ASSUME Kept!RetainAssumption, RetainInv,
         NEW t \in Topic, NEW p \in Payload, Kept!StoreMsg(t, p)
  PROVE  RetainInv'
<1>1. PICK limit \in Limits : Kept!StoreIn(t, p, limit)
  BY DEF Kept!StoreMsg
<1>2. p \in Nat \ {0} /\ limit \in Nat /\ UNCHANGED <<uptime, last_stats>>
  BY DEF Kept!StoreMsg, Kept!RetainAssumption
<1> DEFINE w == Kept!Without(store, t)
           n == Overhead + p
           room == Kept!EvictedFor(w, n, limit)
           msg == [topic |-> t, payload |-> p, stored_at |-> uptime]
<1>3. /\ Sound(w) /\ Sound(room) /\ n \in Nat
      /\ store' = [list |-> <<msg>> \o room.list, bytes |-> room.bytes + n]
      /\ Messages(store'.list) = {msg} \cup Messages(room.list)
      /\ Messages(room.list) \subseteq Messages(w.list)
  BY <1>1, <1>2, StoredIs DEF RetainInv
<1>4. Messages(w.list) = {r \in Messages(store.list) : r.topic # t}
  BY WithoutIs DEF RetainInv
<1>5. room.list = <<>> \/ room.bytes + n <= limit
  <2> HIDE DEF w, n
  <2>1. QED  BY <1>2, <1>3, EvictionIs
<1>6. msg \in Kept!Retained /\ Kept!MsgSize(msg) = n /\ msg.topic = t /\ msg.stored_at = uptime
  BY <1>2 DEF Kept!Retained, Kept!MsgSize, RetainInv
<1> HIDE DEF msg, room, w, n
<1>7. room.list \in Seq(Kept!Retained) /\ room.bytes \in Nat
  BY <1>3 DEF Sound, StoreType
<1>8. /\ store' \in StoreType /\ store'.list = <<msg>> \o room.list
      /\ store'.bytes = room.bytes + n
  BY <1>3, <1>6, <1>7 DEF StoreType
<1>9. \A r \in Messages(room.list) : r.topic # t
  BY <1>3, <1>4
<1>10. NoTwice(store'.list)
  <2> DEFINE m == Len(room.list)
             l == <<msg>> \o room.list
  <2>1. /\ m \in Nat /\ DOMAIN room.list = 1..m
        /\ DOMAIN l = 1..(m + 1) /\ l[1] = msg
        /\ \A i \in 1..m : l[i + 1] = room.list[i]
    BY <1>7
  <2> HIDE DEF l, m
  <2>2. \A i \in 1..(m + 1) : i = 1 \/ (i - 1 \in 1..m /\ l[i] = room.list[i - 1])
    <3>1. \A i \in 1..(m + 1) : i = 1 \/ (i - 1 \in 1..m /\ (i - 1) + 1 = i)
      BY <2>1
    <3>2. QED  BY <2>1, <3>1
  <2>3. \A i \in 1..m : room.list[i].topic # t
    BY <1>9, <2>1 DEF Messages
  <2>4. \A i, j \in 1..m : room.list[i].topic = room.list[j].topic => i = j
    BY <1>3, <2>1 DEF Sound, NoTwice
  <2>5. ASSUME NEW i \in 1..(m + 1), NEW j \in 1..(m + 1), l[i].topic = l[j].topic
        PROVE  i = j
    <3>1. CASE i = 1 \/ j = 1
      BY <1>6, <2>1, <2>2, <2>3, <2>5, <3>1
    <3>2. CASE i # 1 /\ j # 1
      <4>1. /\ i - 1 \in 1..m /\ l[i] = room.list[i - 1]
            /\ j - 1 \in 1..m /\ l[j] = room.list[j - 1]
        BY <2>2, <3>2
      <4>2. i - 1 = j - 1
        BY <2>4, <2>5, <4>1
      <4>3. QED  BY <4>2
    <3>3. QED  BY <3>1, <3>2
  <2>6. QED  BY <1>8, <2>1, <2>5 DEF NoTwice, l
<1>11. /\ IsFiniteSet(BytesOf(Messages(store'.list)))
       /\ Takes(Messages(store'.list)) = Takes(Messages(room.list)) + n
  <2>1. msg \notin Messages(room.list)
    BY <1>6, <1>9
  <2>2. Messages(store'.list) = Messages(room.list) \cup {msg}
    BY <1>3
  <2>3. QED  BY <1>3, <1>6, <2>1, <2>2, TakesMore DEF Sound
<1>12. Sound(store')
  BY <1>3, <1>8, <1>10, <1>11 DEF Sound
<1>13. Capped(store')
  <2>1. CASE room.list = <<>>
    <3>1. Len(store'.list) = 1
      BY <1>8, <2>1
    <3>2. QED  BY <3>1 DEF Capped
  <2>2. CASE room.bytes + n <= limit
    BY <1>8, <2>2 DEF Capped
  <2>3. QED  BY <1>5, <2>1, <2>2
<1>14. \A r \in Messages(store'.list) : r = msg \/ r \in Messages(store.list)
  BY <1>3, <1>4
<1>15. Stored(store)'
  BY <1>2, <1>6, <1>14, RetainTimes DEF Stored, RetainInv
<1>16. Fresh(store)'
  BY <1>2, <1>6, <1>14, RetainTimes DEF Fresh, RetainInv
<1>17. QED  BY <1>2, <1>12, <1>13, <1>15, <1>16 DEF RetainInv, SweptInTime

LEMMA StatsRetained ==
  ASSUME Kept!RetainAssumption, RetainInv, Kept!Stats
  PROVE  RetainInv'
<1> DEFINE O == Kept!Old(store)
<1>1. /\ store' = Kept!Removed(store, O) /\ last_stats' = uptime /\ uptime' = uptime
      /\ O = {i \in DOMAIN store.list : Kept!Expired(store.list[i])}
  BY DEF Kept!Stats, Kept!Swept, Kept!Old
<1>2. O \in SUBSET (DOMAIN store.list)
  BY <1>1
<1> HIDE DEF O
<1>3. /\ Sound(store') /\ Capped(store')
      /\ Messages(store'.list) = Messages(store.list) \ TakenAt(store, O)
  BY <1>1, <1>2, RemovedIs, CappedWithout DEF RetainInv
<1>4. Stored(store)'
  BY <1>1, <1>3 DEF Stored, RetainInv
<1>5. Fresh(store)'
  <2>1. SUFFICES ASSUME uptime < ClockWrap, Ttl > 0, NEW r \in Messages(store'.list)
                 PROVE  uptime <= r.stored_at + Ttl
    BY <1>1 DEF Fresh
  <2>2. r \in Messages(store.list) /\ r \notin TakenAt(store, O)
    BY <1>3
  <2>3. ~Kept!Expired(r)
    BY <1>1, <2>2 DEF Messages, TakenAt
  <2>4. r.stored_at \in 0..UptimeMax /\ r.stored_at <= uptime
    BY <2>2, MessageFields DEF RetainInv, Stored
  <2>5. Kept!Clock(uptime) = uptime /\ Kept!Clock(r.stored_at) = r.stored_at
    <3>1. uptime \in Nat /\ r.stored_at \in Nat /\ r.stored_at < ClockWrap
      BY <2>1, <2>4, RetainTimes
    <3>2. QED  BY <2>1, <3>1, ClockIs
  <2>6. ~(uptime - r.stored_at > Ttl)
    BY <2>1, <2>3, <2>5 DEF Kept!Expired
  <2>7. QED  BY <2>4, <2>6, RetainTimes
<1>6. SweptInTime'
  BY <1>1, RetainTimes DEF SweptInTime
<1>7. QED  BY <1>1, <1>3, <1>4, <1>5, <1>6, RetainTimes DEF RetainInv

LEMMA TickRetained ==
  ASSUME Kept!RetainAssumption, RetainInv, Kept!Tick
  PROVE  RetainInv'
<1>1. /\ ~Kept!StatsDue /\ uptime < UptimeMax /\ uptime' = uptime + 1
      /\ store' = store /\ last_stats' = last_stats
  BY DEF Kept!Tick
<1>2. Stored(store)'
  <2>1. \A r \in Messages(store.list) : r.stored_at <= uptime /\ r.stored_at \in 0..UptimeMax
    BY MessageFields DEF RetainInv, Stored
  <2>2. QED  BY <1>1, <2>1, RetainTimes DEF Stored
<1>3. uptime' < ClockWrap => uptime < ClockWrap
  BY <1>1, RetainTimes
<1>4. Fresh(store)'
  BY <1>1, <1>3 DEF Fresh, RetainInv
<1>5. SweptInTime'
  <2>1. SUFFICES ASSUME uptime' < ClockWrap PROVE uptime' - last_stats <= StatsEvery + 1
    BY <1>1 DEF SweptInTime
  <2>2. Kept!Clock(uptime) = uptime /\ Kept!Clock(last_stats) = last_stats
    <3>1. last_stats < ClockWrap /\ uptime < ClockWrap
      BY <1>3, <2>1, RetainTimes
    <3>2. QED  BY <3>1, ClockIs, RetainTimes
  <2>3. ~(uptime - last_stats > StatsEvery)
    BY <1>1, <2>2 DEF Kept!StatsDue
  <2>4. QED  BY <1>1, <2>3, RetainTimes
<1>6. uptime' \in 0..UptimeMax /\ last_stats' \in 0..uptime'
  BY <1>1, RetainTimes
<1>7. QED  BY <1>1, <1>2, <1>4, <1>5, <1>6 DEF RetainInv

LEMMA RetainInit == Kept!RetainAssumption /\ Kept!Init => RetainInv
<1> SUFFICES ASSUME Kept!RetainAssumption, Kept!Init PROVE RetainInv
  OBVIOUS
<1>1. store = [list |-> <<>>, bytes |-> 0] /\ uptime = 0 /\ last_stats = 0
  BY DEF Kept!Init
<1>2. store.list = <<>> /\ store.bytes = 0 /\ store \in StoreType
  BY <1>1 DEF StoreType
<1>3. Messages(store.list) = {}
  BY <1>2 DEF Messages
<1>4. Sound(store)
  <2>1. NoTwice(store.list)
    BY <1>2 DEF NoTwice
  <2>2. IsFiniteSet(BytesOf(Messages(store.list))) /\ Takes(Messages(store.list)) = 0
    BY <1>3, TakesNothing
  <2>3. QED  BY <1>2, <2>1, <2>2 DEF Sound
<1>5. Capped(store)
  <2>1. PICK limit \in Limits : limit \in Nat
    BY DEF Kept!RetainAssumption
  <2>2. store.bytes <= limit
    BY <1>2, <2>1
  <2>3. QED  BY <2>2 DEF Capped
<1>6. SweptInTime
  BY <1>1 DEF SweptInTime, Kept!RetainAssumption
<1>7. uptime \in 0..UptimeMax /\ last_stats \in 0..uptime
  BY <1>1 DEF Kept!RetainAssumption
<1>8. QED  BY <1>3, <1>4, <1>5, <1>6, <1>7 DEF RetainInv, Stored, Fresh

LEMMA RetainStep ==
  ASSUME Kept!RetainAssumption, RetainInv, [Kept!Next]_Kept!vars
  PROVE  RetainInv'
<1>1. CASE UNCHANGED Kept!vars
  <2>1. UNCHANGED <<store, uptime, last_stats>>
    BY <1>1 DEF Kept!vars
  <2>2. QED  BY <2>1 DEF RetainInv, Stored, Fresh, SweptInTime
<1>2. QED  BY <1>1, StoreRetained, DeleteRetained, StatsRetained, TickRetained DEF Kept!Next

LEMMA RetainSteps ==
  /\ MCInit => Kept!Init
  /\ [MCNext]_<<part, vars, storevars, inflightvars>> => [Kept!Next]_Kept!vars
BY DEF MCInit, MCNext, storevars, Kept!vars

LEMMA RetainAlways == MCSpec => []RetainInv
<1>1. MCInit => RetainInv
  BY RetainSteps, RetainInit, RetainSizes
<1>2. RetainInv /\ [MCNext]_<<part, vars, storevars, inflightvars>> => RetainInv'
  BY RetainSteps, RetainStep, RetainSizes
<1>3. QED  BY <1>1, <1>2, PTL DEF MCSpec

\* Every message is counted, over the limit there is one alone, and until the clock wraps
\* none is kept past its TTL by more than a period of the sweep (retain_store,
\* retain_evict_for_space, retain_evict_expired).
THEOREM StoreStaysBounded == MCSpec => []RetainedBounded
<1>1. RetainInv => RetainedBounded
  <2> SUFFICES ASSUME RetainInv PROVE RetainedBounded
    OBVIOUS
  <2>1. Kept!Msgs(store) = Messages(store.list)
    BY DEF Kept!Msgs, Messages
  <2>2. store.bytes = Kept!Sizes(Kept!Msgs(store))
    BY <2>1, TakesIs DEF RetainInv, Sound
  <2>3. Kept!RetainedWithinLimit
    BY <2>2 DEF Kept!RetainedWithinLimit, RetainInv, Capped
  <2>4. Kept!ExpiresInTime
    <3>1. SUFFICES ASSUME Ttl > 0, uptime < ClockWrap, NEW i \in DOMAIN store.list
                   PROVE  uptime - store.list[i].stored_at <= Ttl + StatsEvery + 1
      BY DEF Kept!ExpiresInTime, Kept!Age
    <3>2. store.list[i] \in Messages(store.list)
      BY DEF Messages
    <3> DEFINE at == store.list[i].stored_at
    <3>3. last_stats <= at + Ttl /\ uptime - last_stats <= StatsEvery + 1
      BY <3>1, <3>2 DEF RetainInv, Fresh, SweptInTime
    <3>4. at \in Nat
      BY <3>2, MessageFields, RetainSizes DEF RetainInv
    <3> HIDE DEF at
    <3>5. uptime - at <= Ttl + StatsEvery + 1
      BY <3>3, <3>4, RetainTimes, RetainSizes
    <3>6. QED  BY <3>5 DEF at
  <2>5. QED  BY <2>3, <2>4 DEF RetainedBounded
<1>2. QED  BY <1>1, RetainAlways, PTL

-----------------------------------------------------------------------------
(* The store implements the map of RetainedMap. *)

Value(s, t) == IF Kept!At(s, t) = {} THEN 0 ELSE s.list[Kept!Min(Kept!At(s, t))].payload
KeptMap == [t \in Topic |-> Value(store, t)]

LEMMA ValueIs ==
  ASSUME NEW s, Sound(s), NEW t
  PROVE  /\ \A r \in Messages(s.list) : r.topic = t => Value(s, t) = r.payload
         /\ (\A r \in Messages(s.list) : r.topic # t) => Value(s, t) = 0
<1> DEFINE A == Kept!At(s, t)
<1>1. A = {i \in DOMAIN s.list : s.list[i].topic = t}
  BY DEF Kept!At
<1>2. CASE A = {}
  BY <1>1, <1>2 DEF Messages, Value
<1>3. CASE A # {}
  <2>1. A \in SUBSET (DOMAIN s.list)
    BY <1>1
  <2> HIDE DEF A
  <2>2. Kept!Min(A) \in A
    BY <1>3, <2>1, LeastPlace
  <2>3. Value(s, t) = s.list[Kept!Min(A)].payload
    BY <1>3 DEF Value, A
  <2>4. \A i \in A : i = Kept!Min(A)
    BY <1>1, <2>2 DEF Sound, NoTwice
  <2>5. \A r \in Messages(s.list) : r.topic = t => r.payload = s.list[Kept!Min(A)].payload
    BY <1>1, <2>4 DEF Messages
  <2>6. \E r \in Messages(s.list) : r.topic = t
    BY <1>1, <2>2 DEF Messages
  <2>7. QED  BY <2>3, <2>5, <2>6
<1>4. QED  BY <1>2, <1>3

\* A topic keeps its message or loses it, when the store only loses messages of others.
LEMMA ValueKept ==
  ASSUME NEW s, Sound(s), NEW q, Sound(q), NEW t,
         \A r \in Messages(q.list) : r.topic = t => r \in Messages(s.list)
  PROVE  Value(q, t) = 0 \/ Value(q, t) = Value(s, t)
<1>1. CASE \A r \in Messages(q.list) : r.topic # t
  BY <1>1, ValueIs
<1>2. CASE \E r \in Messages(q.list) : r.topic = t
  BY <1>2, ValueIs
<1>3. QED  BY <1>1, <1>2

MapPut(t, p) ==
  \E out \in SUBSET (Topic \ {t}) :
    KeptMap' = [u \in Topic |-> IF u = t THEN p ELSE IF u \in out THEN 0 ELSE KeptMap[u]]
MapForget == \E out \in SUBSET Topic :
  KeptMap' = [u \in Topic |-> IF u \in out THEN 0 ELSE KeptMap[u]]
MapClear(t) == KeptMap' = [KeptMap EXCEPT ![t] = 0]

LEMMA MapAfter == KeptMap' = [t \in Topic |-> Value(store', t)]
BY DEF KeptMap, Value, Kept!At

LEMMA StoreMaps ==
  ASSUME Kept!RetainAssumption, RetainInv, RetainInv',
         NEW t \in Topic, NEW p \in Payload, Kept!StoreMsg(t, p)
  PROVE  MapPut(t, p)
<1>1. PICK limit \in Limits : Kept!StoreIn(t, p, limit)
  BY DEF Kept!StoreMsg
<1>2. p \in Nat /\ limit \in Nat
  BY DEF Kept!RetainAssumption
<1> DEFINE msg == [topic |-> t, payload |-> p, stored_at |-> uptime]
<1>3. PICK M : /\ Messages(store'.list) = {msg} \cup M
               /\ M \subseteq {r \in Messages(store.list) : r.topic # t}
  <2>1. Messages(Kept!Without(store, t).list) = {r \in Messages(store.list) : r.topic # t}
    BY WithoutIs DEF RetainInv
  <2> DEFINE w == Kept!Without(store, t)
             room == Kept!EvictedFor(w, Overhead + p, limit)
  <2>2. /\ Messages(store'.list) = {msg} \cup Messages(room.list)
        /\ Messages(room.list) \subseteq Messages(w.list)
    BY <1>1, <1>2, StoredIs DEF RetainInv
  <2> HIDE DEF w, room
  <2>3. QED  BY <2>1, <2>2 DEF w
<1>4. msg.topic = t /\ msg.payload = p
  OBVIOUS
<1> HIDE DEF msg
<1>5. Sound(store) /\ Sound(store')
  BY DEF RetainInv
<1>6. Value(store', t) = p
  BY <1>3, <1>4, <1>5, ValueIs
<1>7. ASSUME NEW u \in Topic, u # t
      PROVE  Value(store', u) = 0 \/ Value(store', u) = Value(store, u)
  <2>1. \A r \in Messages(store'.list) : r.topic = u => r \in Messages(store.list)
    BY <1>3, <1>4, <1>7
  <2>2. QED  BY <1>5, <2>1, ValueKept
<1> DEFINE out == {u \in Topic \ {t} : Value(store', u) = 0}
<1>8. \A u \in Topic : Value(store', u) =
        IF u = t THEN p ELSE IF u \in out THEN 0 ELSE KeptMap[u]
  BY <1>6, <1>7 DEF KeptMap
<1>9. out \in SUBSET (Topic \ {t})
  OBVIOUS
<1> HIDE DEF out
<1>10. QED  BY <1>8, <1>9, MapAfter DEF MapPut

LEMMA DeleteMaps ==
  ASSUME Kept!RetainAssumption, RetainInv, RetainInv', NEW t \in Topic, Kept!Delete(t)
  PROVE  MapClear(t)
<1>1. Sound(store) /\ Sound(store')
  BY DEF RetainInv
<1>2. Messages(store'.list) = {r \in Messages(store.list) : r.topic # t}
  BY <1>1, WithoutIs DEF Kept!Delete
<1>3. Value(store', t) = 0
  BY <1>1, <1>2, ValueIs
<1>4. ASSUME NEW u \in Topic, u # t PROVE Value(store', u) = Value(store, u)
  <2>1. CASE \E r \in Messages(store.list) : r.topic = u
    <3>1. PICK r \in Messages(store.list) : r.topic = u
      BY <2>1
    <3>2. r \in Messages(store'.list)
      BY <1>2, <1>4, <3>1
    <3>3. QED  BY <1>1, <3>1, <3>2, ValueIs
  <2>2. CASE \A r \in Messages(store.list) : r.topic # u
    <3>1. \A r \in Messages(store'.list) : r.topic # u
      BY <1>2, <2>2
    <3>2. QED  BY <1>1, <2>2, <3>1, ValueIs
  <2>3. QED  BY <2>1, <2>2
<1>5. \A u \in Topic : Value(store', u) = IF u = t THEN 0 ELSE KeptMap[u]
  BY <1>3, <1>4 DEF KeptMap
<1>6. [KeptMap EXCEPT ![t] = 0] = [u \in Topic |-> IF u = t THEN 0 ELSE KeptMap[u]]
  BY DEF KeptMap
<1>7. QED  BY <1>5, <1>6, MapAfter DEF MapClear

LEMMA StatsMaps ==
  ASSUME Kept!RetainAssumption, RetainInv, RetainInv', Kept!Stats
  PROVE  MapForget
<1>1. Sound(store) /\ Sound(store')
  BY DEF RetainInv
<1>2. Kept!Old(store) \in SUBSET (DOMAIN store.list) /\ store' = Kept!Removed(store, Kept!Old(store))
  BY DEF Kept!Stats, Kept!Swept, Kept!Old
<1>3. Messages(store'.list) \subseteq Messages(store.list)
  BY <1>1, <1>2, RemovedIs
<1>4. \A u \in Topic : Value(store', u) = 0 \/ Value(store', u) = Value(store, u)
  BY <1>1, <1>3, ValueKept
<1> DEFINE out == {u \in Topic : Value(store', u) = 0}
<1>5. \A u \in Topic : Value(store', u) = IF u \in out THEN 0 ELSE KeptMap[u]
  BY <1>4 DEF KeptMap
<1>6. out \in SUBSET Topic
  OBVIOUS
<1> HIDE DEF out
<1>7. QED  BY <1>5, <1>6, MapAfter DEF MapForget

LEMMA MapStep ==
  ASSUME Kept!RetainAssumption, RetainInv, RetainInv', [Kept!Next]_Kept!vars
  PROVE  [Kept!Latest!Next]_KeptMap
<1>1. CASE UNCHANGED Kept!vars
  <2>1. UNCHANGED store
    BY <1>1 DEF Kept!vars
  <2>2. UNCHANGED KeptMap
    BY <2>1, MapAfter DEF KeptMap
  <2>3. QED  BY <2>2
<1>2. ASSUME NEW t \in Topic, NEW p \in Payload, Kept!StoreMsg(t, p)
      PROVE  Kept!Latest!Next
  <2>1. MapPut(t, p)
    BY <1>2, StoreMaps
  <2>2. Kept!Latest!Put(t, p)
    BY <2>1 DEF MapPut, KeptMap, Value, Kept!Delivered, Kept!Latest!Put
  <2>3. QED  BY <2>2 DEF Kept!Latest!Next
<1>3. ASSUME NEW t \in Topic, Kept!Delete(t) PROVE Kept!Latest!Next
  <2>1. MapClear(t)
    BY <1>3, DeleteMaps
  <2>2. Kept!Latest!Clear(t)
    BY <2>1 DEF MapClear, KeptMap, Value, Kept!Delivered, Kept!Latest!Clear
  <2>3. QED  BY <2>2 DEF Kept!Latest!Next
<1>4. CASE Kept!Stats
  <2>1. MapForget
    BY <1>4, StatsMaps
  <2>2. Kept!Latest!Forget
    BY <2>1 DEF MapForget, KeptMap, Value, Kept!Delivered, Kept!Latest!Forget
  <2>3. QED  BY <2>2 DEF Kept!Latest!Next
<1>5. CASE Kept!Tick
  <2>1. store' = store
    BY <1>5 DEF Kept!Tick
  <2>2. QED  BY <2>1, MapAfter DEF KeptMap
<1>6. QED  BY <1>1, <1>2, <1>3, <1>4, <1>5 DEF Kept!Next

\* The list implements the map of RetainedMap: a subscriber is sent the last message stored
\* for a topic or none, over replacement, deletion, eviction and expiry (retain_deliver).
THEOREM StoreImplementsMap == MCSpec => ImplementsMap
<1>1. MCInit => Kept!Latest!Init
  <2>1. MCInit => KeptMap = [t \in Topic |-> 0]
    <3> SUFFICES ASSUME MCInit PROVE KeptMap = [t \in Topic |-> 0]
      OBVIOUS
    <3>1. store.list = <<>>
      BY RetainSteps DEF Kept!Init
    <3>2. \A t : Kept!At(store, t) = {}
      BY <3>1 DEF Kept!At
    <3>3. QED  BY <3>2 DEF KeptMap, Value
  <2>2. QED  BY <2>1 DEF KeptMap, Value, Kept!Delivered, Kept!Latest!Init
<1>2. RetainInv /\ RetainInv' /\ [MCNext]_<<part, vars, storevars, inflightvars>>
        => [Kept!Latest!Next]_KeptMap
  BY RetainSteps, MapStep, RetainSizes
<1>3. MCSpec => [][Kept!Latest!Next]_KeptMap
  BY <1>2, RetainAlways, PTL DEF MCSpec
<1>4. MCSpec => MCInit
  BY DEF MCSpec
<1>5. QED
  BY <1>1, <1>3, <1>4, PTL DEF ImplementsMap, Kept!ImplementsMap, Kept!Latest!Spec, KeptMap, Value,
                            Kept!Delivered

-----------------------------------------------------------------------------
(* What the store loses had to go. *)

NeededRoom ==
  \A t \in Topic, p \in 1..MsgMax, limit \in Limits : Kept!StoreIn(t, p, limit) =>
    LET out == {i \in Kept!Gone : store.list[i].topic # t} IN
    out # {} => \E i \in out : store'.bytes + Overhead + store.list[i].payload > limit

OldestFirst ==
  \A t \in Topic, p \in Payload : Kept!StoreMsg(t, p) /\ uptime < ClockWrap =>
    \A i \in Kept!Gone : store.list[i].topic # t =>
      \A j \in DOMAIN store.list :
        Kept!Age(store.list[j]) > Kept!Age(store.list[i])
          => j \in Kept!Gone \/ store.list[j].topic = t

SweptWhenOld ==
  last_stats' # last_stats => \A i \in Kept!Gone : Kept!Age(store.list[i]) > Ttl

\* What is gone of the other topics is what the eviction took.
LEMMA GoneIs ==
  ASSUME Kept!RetainAssumption, Sound(store),
         NEW t, NEW p \in Nat, NEW limit \in Nat, Kept!StoreIn(t, p, limit)
  PROVE  LET w == Kept!Without(store, t)
             E == Kept!Evicted(w, Overhead + p, limit) IN
         /\ \A i \in Kept!Gone : store.list[i].topic # t => store.list[i] \in TakenAt(w, E)
         /\ \A i \in DOMAIN store.list :
              store.list[i].topic # t /\ store.list[i] \in TakenAt(w, E) => i \in Kept!Gone
<1> DEFINE w == Kept!Without(store, t)
           n == Overhead + p
           room == Kept!EvictedFor(w, n, limit)
           E == Kept!Evicted(w, n, limit)
           msg == [topic |-> t, payload |-> p, stored_at |-> uptime]
<1>1. /\ Sound(w) /\ n \in Nat
      /\ Messages(store'.list) = {msg} \cup Messages(room.list)
  BY StoredIs
<1>2. msg.topic = t
  OBVIOUS
<1>3. Messages(w.list) = {r \in Messages(store.list) : r.topic # t}
  BY WithoutIs
<1> HIDE DEF msg, w, n
<1>4. Messages(room.list) = Messages(w.list) \ TakenAt(w, E)
  BY <1>1, EvictionIs
<1>5. Kept!Gone = {i \in DOMAIN store.list : store.list[i] \notin Messages(store'.list)}
  BY DEF Kept!Gone, Kept!Msgs, Messages
<1> HIDE DEF room, E
<1>6. \A i \in DOMAIN store.list : store.list[i] \in Messages(store.list)
  BY DEF Messages
<1>7. \A i \in DOMAIN store.list : store.list[i].topic # t =>
        (i \in Kept!Gone <=> store.list[i] \in TakenAt(w, E))
  BY <1>1, <1>2, <1>3, <1>4, <1>5, <1>6
<1>8. \A i \in Kept!Gone : i \in DOMAIN store.list
  BY <1>5
<1>9. QED  BY <1>7, <1>8 DEF E, w, n

LEMMA NeededRoomHolds ==
  ASSUME Kept!RetainAssumption, RetainInv
  PROVE  NeededRoom
<1> SUFFICES ASSUME NEW t \in Topic, NEW p \in 1..MsgMax, NEW limit \in Limits,
                    Kept!StoreIn(t, p, limit),
                    NEW g \in Kept!Gone, store.list[g].topic # t
             PROVE  \E i \in {i \in Kept!Gone : store.list[i].topic # t} :
                      store'.bytes + Overhead + store.list[i].payload > limit
  BY DEF NeededRoom
<1> DEFINE w == Kept!Without(store, t)
           n == Overhead + p
           room == Kept!EvictedFor(w, n, limit)
           E == Kept!Evicted(w, n, limit)
<1>1. p \in Nat /\ limit \in Nat /\ Sound(store) /\ Overhead \in Nat
  BY DEF Kept!RetainAssumption, RetainInv
<1>2. /\ Sound(w) /\ Sound(room) /\ n \in Nat
      /\ store'.bytes = room.bytes + n
  <2> DEFINE msg == [topic |-> t, payload |-> p, stored_at |-> uptime]
  <2>1. /\ Sound(w) /\ Sound(room) /\ n \in Nat
        /\ store' = [list |-> <<msg>> \o room.list, bytes |-> room.bytes + n]
    BY <1>1, StoredIs
  <2> HIDE DEF w, room, n, msg
  <2>2. QED  BY <2>1
<1>3. Messages(w.list) = {r \in Messages(store.list) : r.topic # t}
  BY <1>1, WithoutIs
<1>4. /\ \A i \in Kept!Gone : store.list[i].topic # t => store.list[i] \in TakenAt(w, E)
      /\ \A i \in DOMAIN store.list :
           store.list[i].topic # t /\ store.list[i] \in TakenAt(w, E) => i \in Kept!Gone
  BY <1>1, GoneIs
<1>5. E # {}
  BY <1>4 DEF TakenAt
<1> HIDE DEF w, n
<1>6. PICK e \in E : room.bytes + n + Kept!MsgSize(w.list[e]) > limit
  BY <1>1, <1>2, <1>5, EvictionIs
<1>7. e \in DOMAIN w.list
  BY <1>1, <1>2, EvictionIs
<1> HIDE DEF E, room
<1>8. w.list[e] \in TakenAt(w, E) /\ w.list[e] \in Messages(w.list)
  BY <1>7 DEF TakenAt, Messages
<1>9. PICK i \in DOMAIN store.list : store.list[i] = w.list[e]
  BY <1>3, <1>8 DEF Messages
<1>10. store.list[i].topic # t /\ i \in Kept!Gone
  BY <1>3, <1>4, <1>8, <1>9
<1>11. store.list[i].payload \in Nat
  BY <1>1, <1>3, <1>8, <1>9, MessageFields
<1>12. room.bytes \in Nat
  BY <1>2 DEF Sound, StoreType
<1>13. Kept!MsgSize(w.list[e]) = Overhead + store.list[i].payload
  BY <1>9 DEF Kept!MsgSize
<1>14. store'.bytes + Overhead + store.list[i].payload > limit
  BY <1>1, <1>2, <1>6, <1>11, <1>12, <1>13
<1>15. QED  BY <1>10, <1>14

LEMMA OldestFirstHolds ==
  ASSUME Kept!RetainAssumption, RetainInv
  PROVE  OldestFirst
<1> SUFFICES ASSUME NEW t \in Topic, NEW p \in Payload, Kept!StoreMsg(t, p), uptime < ClockWrap,
                    NEW i \in Kept!Gone, store.list[i].topic # t,
                    NEW j \in DOMAIN store.list, store.list[j].topic # t,
                    Kept!Age(store.list[j]) > Kept!Age(store.list[i])
             PROVE  j \in Kept!Gone
  BY DEF OldestFirst
<1>1. PICK limit \in Limits : Kept!StoreIn(t, p, limit)
  BY DEF Kept!StoreMsg
<1> DEFINE w == Kept!Without(store, t)
           n == Overhead + p
           E == Kept!Evicted(w, n, limit)
<1>2. p \in Nat /\ limit \in Nat /\ Sound(store) /\ Overhead \in Nat
  BY DEF Kept!RetainAssumption, RetainInv
<1>3. Sound(w) /\ n \in Nat
  BY <1>1, <1>2, StoredIs
<1>4. Messages(w.list) = {r \in Messages(store.list) : r.topic # t}
  BY <1>2, WithoutIs
<1>5. /\ \A k \in Kept!Gone : store.list[k].topic # t => store.list[k] \in TakenAt(w, E)
      /\ \A k \in DOMAIN store.list :
           store.list[k].topic # t /\ store.list[k] \in TakenAt(w, E) => k \in Kept!Gone
  BY <1>1, <1>2, GoneIs
<1> HIDE DEF w, n
<1>6. /\ E \subseteq DOMAIN w.list
      /\ \A a \in E, b \in DOMAIN w.list : Goes(w, b, a) => b \in E
  BY <1>2, <1>3, EvictionIs
<1> HIDE DEF E
<1>7. PICK a \in E : w.list[a] = store.list[i]
  BY <1>5 DEF TakenAt
<1>8. store.list[j] \in Messages(w.list)
  BY <1>4 DEF Messages
<1>9. PICK b \in DOMAIN w.list : w.list[b] = store.list[j]
  BY <1>8 DEF Messages
<1>10. w.list[a] \in Messages(store.list) /\ w.list[b] \in Messages(store.list)
  BY <1>4, <1>6, <1>7, <1>8, <1>9 DEF Messages
<1> DEFINE x == w.list[a].stored_at
           y == w.list[b].stored_at
<1>11. x \in 0..UptimeMax /\ y \in 0..UptimeMax /\ x <= uptime /\ y <= uptime
  BY <1>2, <1>10, MessageFields DEF RetainInv, Stored
<1>12. uptime - y > uptime - x
  BY <1>7, <1>9 DEF Kept!Age
<1> HIDE DEF x, y
<1>13. x \in Nat /\ y \in Nat /\ x < ClockWrap /\ y < ClockWrap /\ y < x
  BY <1>11, <1>12, RetainTimes
<1>14. Stamp(w, a) = x /\ Stamp(w, b) = y
  <2>1. Kept!Clock(x) = x /\ Kept!Clock(y) = y
    BY <1>13, ClockIs
  <2>2. QED  BY <2>1 DEF Stamp, x, y
<1>15. b \in E
  BY <1>6, <1>9, <1>13, <1>14 DEF Goes
<1>16. QED  BY <1>5, <1>9, <1>15 DEF TakenAt

LEMMA SweptWhenOldHolds ==
  ASSUME Kept!RetainAssumption, RetainInv, [Kept!Next]_Kept!vars
  PROVE  SweptWhenOld
<1> SUFFICES ASSUME last_stats' # last_stats, NEW i \in Kept!Gone
             PROVE  uptime - store.list[i].stored_at > Ttl
  BY DEF SweptWhenOld, Kept!Age
<1>1. Kept!Stats
  BY DEF Kept!Next, Kept!vars, Kept!StoreMsg, Kept!Delete, Kept!Tick
<1>2. /\ store' = Kept!Removed(store, Kept!Old(store))
      /\ Kept!Old(store) = {k \in DOMAIN store.list : Kept!Expired(store.list[k])}
  BY <1>1 DEF Kept!Stats, Kept!Swept, Kept!Old
<1>3. Messages(store'.list) = Messages(store.list) \ TakenAt(store, Kept!Old(store))
  BY <1>2, RemovedIs DEF RetainInv
<1> DEFINE r == store.list[i]
<1>4. i \in DOMAIN store.list /\ r \in Messages(store.list) /\ r \notin Messages(store'.list)
  BY DEF Kept!Gone, Kept!Msgs, Messages
<1>5. r \in TakenAt(store, Kept!Old(store))
  BY <1>3, <1>4
<1>6. Kept!Expired(r)
  BY <1>2, <1>5 DEF TakenAt
<1>7. r.stored_at \in Nat /\ r.stored_at <= uptime
  BY <1>4, MessageFields DEF RetainInv, Stored
<1> DEFINE at == r.stored_at
<1>8. Kept!Clock(uptime) - Kept!Clock(at) > Ttl
  BY <1>6 DEF Kept!Expired
<1> HIDE DEF at
<1>9. at \in Nat /\ at <= uptime
  BY <1>7 DEF at
<1>10. /\ Kept!Clock(at) \in Nat /\ Kept!Clock(uptime) \in Nat
       /\ Kept!Clock(uptime) - Kept!Clock(at) <= uptime - at
  BY <1>9, RetainClockIsSlow, RetainTimes
<1>11. uptime - at > Ttl
  BY <1>8, <1>9, <1>10, RetainTimes
<1>12. QED  BY <1>11 DEF at

\* An eviction takes no message more than the new one needs and, until the clock wraps, the
\* older ones first; the sweep takes what has outlived its TTL, also after the wrap
\* (retain_evict_for_space, retain_evict_expired).
THEOREM StoreLosesNoMore == MCSpec => LosesNoMore
<1>1. RetainInv /\ [MCNext]_<<part, vars, storevars, inflightvars>>
        => [store' # store => NeededRoom /\ OldestFirst /\ SweptWhenOld]_Kept!vars
  BY RetainSteps, NeededRoomHolds, OldestFirstHolds, SweptWhenOldHolds, RetainSizes
<1>2. MCSpec => [][store' # store => NeededRoom /\ OldestFirst /\ SweptWhenOld]_Kept!vars
  BY <1>1, RetainAlways, PTL DEF MCSpec
<1>3. QED
  BY <1>2, PTL DEF LosesNoMore, Kept!LosesNoMore, NeededRoom, OldestFirst, SweptWhenOld

-----------------------------------------------------------------------------
(* The three of them: types. *)

LEMMA FeedSteps ==
  /\ MCInit => Init
  /\ [MCNext]_<<part, vars, storevars, inflightvars>> => [Next]_vars
BY DEF MCInit, MCNext

\* What the stores keep has its type, in every state of every run.
THEOREM StoresTypes == MCSpec => []TypesOK
<1>1. MCSpec => []RegistryInv
  <2>1. MCInit => RegistryInv
    BY FeedSteps, RegistryInit
  <2>2. RegistryInv /\ [MCNext]_<<part, vars, storevars, inflightvars>> => RegistryInv'
    BY FeedSteps, RegistryStep
  <2>3. QED  BY <2>1, <2>2, PTL DEF MCSpec
<1>2. InflightInv => Qos1!TypeOK
  BY DEF InflightInv, Tables, Qos1!TypeOK
<1>3. RetainInv => Kept!TypeOK
  <2> SUFFICES ASSUME RetainInv PROVE Kept!TypeOK
    OBVIOUS
  <2>1. last_stats \in 0..UptimeMax
    BY RetainTimes, RetainSizes DEF RetainInv
  <2>2. QED  BY <2>1 DEF RetainInv, Sound, StoreType, Kept!TypeOK
<1>4. RegistryInv => TypeOK
  BY DEF RegistryInv
<1>5. QED  BY <1>1, <1>2, <1>3, <1>4, InflightAlways, RetainAlways, PTL DEF TypesOK
=============================================================================
