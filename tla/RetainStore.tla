----------------------------- MODULE RetainStore -----------------------------
(***************************************************************************)
(* The retained-message store of main/mqtt_broker.c: a linked list with    *)
(* the newest message at its head, a count of the bytes it holds, eviction *)
(* under a memory limit and expiry after a TTL.  It lives on broker_task   *)
(* alone.                                                                  *)
(*                                                                         *)
(* A payload is its length; 0 is the empty payload that deletes.  Time is  *)
(* in ticks of get_time_ms, whose 32-bit milliseconds wrap: the program    *)
(* sees Clock(t), and the properties the time itself.                      *)
(***************************************************************************)
EXTENDS Integers, FiniteSets, Sequences, FiniteSetsExt

CONSTANTS
  Topic,
  Payload,       \* lengths of the payloads published, 0 among them
  Overhead,      \* sizeof(retained_msg_t) + topic_len + 1
  MsgMax,        \* BROKER_RETAIN_MAX_MSG_SIZE
  Limits,        \* what get_retain_mem_limit may return
  Ttl,           \* s_retain_ttl_sec; 0 is never
  StatsEvery,    \* the stats period, 30 s
  ClockWrap,     \* get_time_ms counts modulo this
  UptimeMax      \* bound on the run

RetainAssumption ==
  /\ Payload \subseteq Nat
  /\ Limits \subseteq Nat /\ Limits # {}
  /\ Overhead \in Nat \ {0} /\ MsgMax \in Nat
  /\ Ttl \in Nat /\ StatsEvery \in Nat
  /\ ClockWrap \in Nat \ {0} /\ UptimeMax \in Nat

Retained == [topic: Topic, payload: Payload \ {0}, stored_at: 0..UptimeMax]

VARIABLES
  store,        \* [list: s_retained_head, bytes: s_retained_bytes]
  uptime,
  last_stats    \* when the loop last logged its statistics

vars == <<store, uptime, last_stats>>

Init ==
  /\ store = [list |-> <<>>, bytes |-> 0]
  /\ uptime = 0
  /\ last_stats = 0

-----------------------------------------------------------------------------
(* A name that ends in _Bug is the definition below it with one defect.    *)

Clock(t) == t % ClockWrap

MsgSize_Bug(r) == r.payload  \* the struct and the topic are not counted
MsgSize(r) == Overhead + r.payload

\* The list with only its messages at the places of K, in their order.
Place(K, n) == CHOOSE i \in K : Cardinality({j \in K : j <= i}) = n
Only(list, K) == [n \in 1..Cardinality(K) |-> list[Place(K, n)]]

\* What the messages of M take, byte by byte.
Weight(M) == Cardinality(UNION {{r} \X (1..MsgSize(r)) : r \in M})

\* retain_remove of the messages at the places of P: the byte count, with its guard
\* against underflow, and the list.
Left(s, P) ==
  LET n == Weight({s.list[i] : i \in P}) IN IF s.bytes >= n THEN s.bytes - n ELSE 0
Removed(s, P) == [list |-> Only(s.list, DOMAIN s.list \ P), bytes |-> Left(s, P)]

At(s, t) == {i \in DOMAIN s.list : s.list[i].topic = t}

\* The list is searched from its head and one message is removed, if any.
Without_Bug(s, t) == s  \* the old message is not looked for
Without(s, t) == IF At(s, t) = {} THEN s ELSE Removed(s, {Min(At(s, t))})

\* What eviction takes before the i-th message: of the least clock, and of
\* equals the first from the head.
Before_Bug(s, i) == {j \in DOMAIN s.list : j < i}  \* from the head
Before(s, i) ==
  LET stamp(j) == Clock(s.list[j].stored_at) IN
  {j \in DOMAIN s.list : stamp(j) < stamp(i) \/ (stamp(j) = stamp(i) /\ j < i)}

\* retain_evict_for_space: when the loop comes to a message, those before it
\* are gone, and it goes if there still is no room for n bytes.
Evicted(s, n, limit) == {i \in DOMAIN s.list : Left(s, Before(s, i)) + n > limit}
EvictedFor_Bug(s, n, limit) ==  \* IF instead of WHILE
  Removed(s, {i \in Evicted(s, n, limit) : Before(s, i) = {}})
EvictedFor(s, n, limit) == Removed(s, Evicted(s, n, limit))

-----------------------------------------------------------------------------
(* retain_store.  A failed allocation leaves the store as it is. *)

Delete(t) ==
  /\ 0 \in Payload
  /\ store' = Without(store, t)
  /\ UNCHANGED <<uptime, last_stats>>

StoreIn_Bug(t, p, limit) ==  \* room is made before the old message is removed
  LET msg == [topic |-> t, payload |-> p, stored_at |-> uptime]
      room == Without(EvictedFor(store, Overhead + p, limit), t)
  IN store' = [list |-> <<msg>> \o room.list, bytes |-> room.bytes + Overhead + p]
StoreIn(t, p, limit) ==
  LET msg == [topic |-> t, payload |-> p, stored_at |-> uptime]
      room == EvictedFor(Without(store, t), Overhead + p, limit)
  IN store' = [list |-> <<msg>> \o room.list, bytes |-> room.bytes + Overhead + p]

StoreMsg_Empty(t, p) ==  \* an empty payload is stored like another
  /\ p <= MsgMax
  /\ \E limit \in Limits : StoreIn(t, p, limit)
  /\ UNCHANGED <<uptime, last_stats>>
StoreMsg(t, p) ==
  /\ p \in 1..MsgMax
  /\ \E limit \in Limits : StoreIn(t, p, limit)
  /\ UNCHANGED <<uptime, last_stats>>

-----------------------------------------------------------------------------
(* The statistics branch of broker_task, with retain_evict_expired. *)

StatsDue == Clock(uptime) - Clock(last_stats) > StatsEvery

Expired_Bug(r) ==  \* one tick early
  Clock(uptime) - Clock(r.stored_at) >= Ttl
Expired(r) == Ttl > 0 /\ Clock(uptime) - Clock(r.stored_at) > Ttl

Old(s) == {i \in DOMAIN s.list : Expired(s.list[i])}
Swept_Bug(s) ==  \* the walk ends at the first message it removes
  IF Old(s) = {} THEN s ELSE Removed(s, {Min(Old(s))})
Swept(s) == Removed(s, Old(s))

Stats ==
  /\ StatsDue
  /\ last_stats' = uptime
  /\ store' = Swept(store)
  /\ UNCHANGED uptime

\* The loop turns every 100 ms: what is due is done before time goes on.
Tick ==
  /\ ~StatsDue
  /\ uptime < UptimeMax
  /\ uptime' = uptime + 1
  /\ UNCHANGED <<store, last_stats>>

Next ==
  \/ \E t \in Topic, p \in Payload : StoreMsg(t, p)
  \/ \E t \in Topic : Delete(t)
  \/ Stats
  \/ Tick

Spec == Init /\ [][Next]_vars

-----------------------------------------------------------------------------
(* What a subscriber is sent: retain_deliver walks the list from its head, *)
(* and sends every message whose topic matches.  Topic by topic, the       *)
(* payload of the first one, or 0.                                         *)

Delivered(t) ==
  IF At(store, t) = {} THEN 0 ELSE store.list[Min(At(store, t))].payload

Latest == INSTANCE RetainedMap WITH
  NoPayload <- 0,
  kept <- [t \in Topic |-> Delivered(t)]

-----------------------------------------------------------------------------
(* Properties *)

Msgs(s) == {s.list[i] : i \in DOMAIN s.list}
Sizes(M) == Cardinality(UNION {{r} \X (1..Overhead + r.payload) : r \in M})
Age(r) == uptime - r.stored_at
Gone == {i \in DOMAIN store.list : store.list[i] \notin Msgs(store')}

\* The list holds messages, and the byte count is a number.
TypeOK ==
  /\ store \in [list: Seq(Retained), bytes: Nat]
  /\ uptime \in 0..UptimeMax
  /\ last_stats \in 0..UptimeMax

\* A subscriber is sent at most one retained message for a topic, and it is
\* the last one stored: the list implements the map of RetainedMap, over
\* replacement, deletion, eviction and expiry.
ImplementsMap == Latest!Spec

\* s_retained_bytes is the size of what the list holds (retain_store adds what
\* retain_free_msg will take away), and over the limit the store holds the one
\* message it was given last.
RetainedWithinLimit ==
  /\ store.bytes = Sizes(Msgs(store))
  /\ (\E limit \in Limits : store.bytes <= limit) \/ Len(store.list) = 1

\* What goes must go.  retain_evict_for_space takes no message more than the new
\* one needs (with the last one taken still there the limit would be exceeded; the
\* old message for the same topic does not count); until the clock wraps it takes the
\* older of messages stored in different ticks; and the sweep takes what has outlived its TTL.
LosesNoMore ==
  [][store' # store =>
     /\ \A t \in Topic, p \in 1..MsgMax, limit \in Limits : StoreIn(t, p, limit) =>
          LET out == {i \in Gone : store.list[i].topic # t} IN
          out # {} => \E i \in out :
            store'.bytes + Overhead + store.list[i].payload > limit
     /\ \A t \in Topic, p \in Payload : StoreMsg(t, p) /\ uptime < ClockWrap =>
          \A i \in Gone : store.list[i].topic # t =>
            \A j \in DOMAIN store.list :
              Age(store.list[j]) > Age(store.list[i])
                => j \in Gone \/ store.list[j].topic = t
     /\ last_stats' # last_stats => \A i \in Gone : Age(store.list[i]) > Ttl]_vars

\* Until the clock wraps a message outlives its TTL by no more than a period of the sweep.
ExpiresInTime ==
  Ttl > 0 /\ uptime < ClockWrap =>
    \A i \in DOMAIN store.list : Age(store.list[i]) <= Ttl + StatsEvery + 1
=============================================================================
