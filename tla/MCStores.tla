------------------------------ MODULE MCStores ------------------------------
(***************************************************************************)
(* What holds messages under a limit: the retained store, the in-flight    *)
(* tables and the buffers of the tester feed.  They share no state: a run  *)
(* takes one of them and lets it run alone.                                *)
(***************************************************************************)
EXTENDS TesterFeed, TLC

CONSTANTS
  Topic, Payload, Overhead, MsgMax, Limits, Ttl, StatsEvery, ClockWrap, UptimeMax,
  Client, NInflight, Size, BytesMax, FrameMax, RetryInitial, RetryCap, RetryMax, NoMsg

VARIABLES
  part,
  store, uptime, last_stats,
  inflight, bytes, walked

storevars == <<store, uptime, last_stats>>
inflightvars == <<inflight, bytes, walked>>

Kept == INSTANCE RetainStore
Qos1 == INSTANCE Inflight

ASSUME RetainSizes == Kept!RetainAssumption
ASSUME InflightSizes == Qos1!InflightAssumption

Symmetry == Permutations(Client) \cup Permutations(Conn)

MCInit ==
  /\ part \in {"retained", "inflight", "feed"}
  /\ Init /\ Kept!Init /\ Qos1!Init

MCNext ==
  /\ UNCHANGED part
  /\ \/ part = "retained" /\ Kept!Next /\ UNCHANGED <<vars, inflightvars>>
     \/ part = "inflight" /\ Qos1!Next /\ UNCHANGED <<vars, storevars>>
     \/ part = "feed" /\ Next /\ UNCHANGED <<storevars, inflightvars>>

MCSpec == MCInit /\ [][MCNext]_<<part, vars, storevars, inflightvars>>

-----------------------------------------------------------------------------
(* The properties of the parts, where their modules state them. *)

\* The variables of each part keep their types.
TypesOK == TypeOK /\ Kept!TypeOK /\ Qos1!TypeOK

\* The bytes of the in-flight tables are counted right and stay under the cap.
BytesUnderCap == Qos1!BytesUnderCap

\* A message nobody acknowledges gives its slot back when the schedule of its retries is
\* over, and not before (check_retries).
RetriedOnSchedule == []Qos1!BoundedRetention /\ Qos1!NoEarlyAbandon

\* The retained store stays within its limit, and what is too old is gone.
RetainedBounded == Kept!RetainedWithinLimit /\ Kept!ExpiresInTime

\* What the store loses had to go: eviction takes no more than it needs and the oldest
\* first, the sweep what has outlived its TTL (retain_evict_for_space).
LosesNoMore == Kept!LosesNoMore

\* What a subscriber is sent is the last message stored for each topic: the list
\* implements the map of RetainedMap (retain_store, retain_deliver).
ImplementsMap == Kept!ImplementsMap
=============================================================================
