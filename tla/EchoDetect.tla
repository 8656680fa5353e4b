----------------------------- MODULE EchoDetect ------------------------------
(***************************************************************************)
(* Echo detection (main/echo_detect.c): the broker task tells it of every  *)
(* publish (echo_track), the portal reads, clears and configures it.  The  *)
(* table is under s_echo_mux, so each call is one step; what echo_track    *)
(* reads of the table after that only goes to the log.                     *)
(*                                                                         *)
(* Time is in seconds.  The windows are measured with the tick clock,      *)
(* which wraps; a detection is stamped with wall time, which only serves   *)
(* to compare detections: here their order.                                *)
(***************************************************************************)
EXTENDS Integers, FiniteSets, FiniteSetsExt

CONSTANTS
  EchoTopic,
  MaxTopics,     \* ECHO_MAX_TOPICS: 32
  MinCounts,     \* thresholds the portal may set: 1..255 in the code
  Window,        \* s_window_sec
  EchoWrap,      \* now_ms counts modulo this
  EchoTimeMax,   \* bound on the run
  PublishMax     \* bound on the publishes of the run

VARIABLES
  time,
  enabled,      \* s_enabled
  min_count,    \* s_min_count
  entries,      \* s_entries[0..s_count-1], by topic
  detections,   \* how many topics have been flagged: the stamp of the next
  heard,        \* history: publishes of the last Window seconds, for topics in
                \* the table, since they came in: of each its second and its
                \* number in that second
  changed,      \* history: when the settings last changed
  published     \* how many publishes there were, for the bound

evars == <<time, enabled, min_count, entries, detections, heard, changed, published>>

\* start is window_start, round the part of it that now_ms has lost.
Entry == [count: 0..PublishMax, start: 0..(EchoWrap - 1), round: Nat, detected_at: Nat]
Heard == [at: 0..EchoTimeMax, number: 1..PublishMax]

\* What the module of the instance must assume: the clock wraps, not at once, and no
\* number of publishes is negative.
EchoAssumption ==
  /\ EchoWrap \in Nat \ {0} /\ Window \in Nat /\ EchoTimeMax \in Nat /\ PublishMax \in Nat
  /\ MinCounts \subseteq Nat \ {0} /\ MaxTopics \in Nat

NoEntry == [count |-> 0, start |-> 0, round |-> 0, detected_at |-> 0]

Init ==
  /\ time = 0 /\ enabled = TRUE
  /\ min_count \in MinCounts
  /\ entries = [t \in {} |-> NoEntry] /\ heard = [t \in {} |-> {}]
  /\ detections = 0 /\ changed = -1 /\ published = 0

-----------------------------------------------------------------------------
(* A name that ends in _Bug is the definition below it with one defect.    *)

now_ms == time % EchoWrap

Tracked == DOMAIN entries
Detected(t) == entries[t].detected_at # 0

\* find_free_slot of a full table: the topic evicted is the undetected one with
\* the oldest window, or if all are detected the first detected.
Victims_Bug == {t \in Tracked : \A u \in Tracked : entries[t].start <= entries[u].start}
Victims ==
  LET undetected == {t \in Tracked : ~Detected(t)} IN
  IF undetected # {}
    THEN {t \in undetected : \A u \in undetected : entries[t].start <= entries[u].start}
    ELSE {t \in Tracked : \A u \in Tracked : entries[t].detected_at <= entries[u].detected_at}

\* The entry of a publish, flagged when the count of its window is reached.
Flag(e) == IF e.detected_at = 0 /\ e.count >= min_count
           THEN [e EXCEPT !.detected_at = detections + 1] ELSE e

Opened_Bug(e) == [e EXCEPT !.count = 0, !.start = now_ms, !.round = time \div EchoWrap]
Opened(e) == [e EXCEPT !.count = 1, !.start = now_ms, !.round = time \div EchoWrap]
NewEntry == Opened(NoEntry)

Expired_Bug(e) == FALSE
Expired(e) == now_ms - e.start > Window

Counted(e) == IF Expired(e) THEN Opened(e) ELSE [e EXCEPT !.count = @ + 1]

\* What has been heard of t that is not older than a window at the time now; and with
\* one more publish.
Recent(t, now) == {p \in heard[t] : now - p.at <= Window}
Louder(t) ==
  LET old == IF t \in Tracked THEN Recent(t, time) ELSE {} IN
  old \cup {[at |-> time, number |-> 1 + Cardinality({p \in old : p.at = time})]}

Tracks(t, e, gone) ==
  LET kept == (Tracked \ gone) \cup {t} IN
  /\ entries' = [u \in kept |-> IF u = t THEN e ELSE entries[u]]
  /\ heard' = [u \in kept |-> IF u = t THEN Louder(t) ELSE heard[u]]
  /\ detections' = IF e.detected_at > detections THEN e.detected_at ELSE detections
  /\ published' = published + 1
  /\ UNCHANGED <<time, enabled, min_count, changed>>

echo_track(t) ==
  /\ enabled
  /\ published < PublishMax
  /\ \/ t \in Tracked /\ Tracks(t, Flag(Counted(entries[t])), {t})
     \/ t \notin Tracked /\ Cardinality(Tracked) < MaxTopics /\ Tracks(t, Flag(NewEntry), {})
     \/ /\ t \notin Tracked /\ Cardinality(Tracked) = MaxTopics
        /\ \E v \in Victims : Tracks(t, Flag(NewEntry), {v})

echo_reset ==
  /\ entries' = [t \in Tracked |-> NoEntry]
  /\ heard' = [t \in Tracked |-> {}]
  /\ UNCHANGED <<time, enabled, min_count, detections, changed, published>>

\* The settings page writes to NVS and loads what it wrote (echo_load_config):
\* once, in a run.
Configure(n, on) ==
  /\ changed = -1
  /\ min_count' = n /\ enabled' = on
  /\ <<n, on>> # <<min_count, enabled>>
  /\ changed' = time
  /\ UNCHANGED <<time, entries, detections, heard, published>>

EchoTick ==
  /\ time < EchoTimeMax
  /\ time' = time + 1
  /\ heard' = [t \in Tracked |-> Recent(t, time + 1)]
  /\ UNCHANGED <<enabled, min_count, entries, detections, changed, published>>

Next ==
  \/ \E t \in EchoTopic : echo_track(t)
  \/ echo_reset
  \/ \E n \in MinCounts, on \in BOOLEAN : Configure(n, on)
  \/ EchoTick

Spec == Init /\ [][Next]_evars

-----------------------------------------------------------------------------
(* Properties *)

TypeOK ==
  /\ time \in 0..EchoTimeMax
  /\ enabled \in BOOLEAN /\ min_count \in MinCounts
  /\ Tracked \subseteq EchoTopic /\ Cardinality(Tracked) <= MaxTopics
  /\ \A t \in Tracked : entries[t] \in Entry
  /\ DOMAIN heard = Tracked /\ \A t \in Tracked : heard[t] \subseteq Heard

\* What echo_get_detected reports can be relied on: a topic is flagged only when
\* it was published min_count times within one window (unless the clock has
\* wrapped in the window), and keeps its flag until the list is cleared or every
\* topic of the full table is flagged.
FlagsAreEarned ==
  [][/\ \A t \in DOMAIN entries' :
          entries'[t].detected_at > detections /\ entries'[t].round = time \div EchoWrap
            => Cardinality(heard'[t]) >= min_count
     /\ \A t \in Tracked :
          Detected(t) /\ (t \in DOMAIN entries' => entries'[t].detected_at = 0) =>
            \/ \A u \in DOMAIN entries' : entries'[u].count = 0
            \/ \A u \in Tracked : Detected(u)]_evars

\* An echo loop that goes on is found.  The windows are fixed, so that N publishes may
\* lie across two of them; but of 2N - 1 publishes in Window seconds,
\* the settings unchanged, N fall into one of the windows, and the last of them
\* flags the topic if no other did.
LoopsFlagged ==
  [][\A t \in DOMAIN entries' :
       LET counted == {p \in heard'[t] : p.at > changed} IN
       (t \in Tracked => entries'[t] # entries[t]) /\ Cardinality(counted) >= 2 * min_count - 1
         => entries'[t].detected_at # 0]_evars
=============================================================================
