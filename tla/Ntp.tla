-------------------------------- MODULE Ntp ---------------------------------
(***************************************************************************)
(* The SNTP client and server (main/ntp.c).  The client's callback runs in *)
(* the task of esp_sntp, which has already set the clock; the server is a  *)
(* task of its own that reads the same variables without a lock.           *)
(*                                                                         *)
(* A tick of true time is Unit parts of a second; the chip's oscillator    *)
(* counts Unit + osc of its own parts in one, and everything the code      *)
(* calls a microsecond is such a part.  A drift in parts per million is    *)
(* here in parts per Unit.                                                 *)
(***************************************************************************)
EXTENDS Integers, Sequences, FiniteSetsExt

CONSTANTS
  Unit,
  Oscillators,   \* deviations of the oscillator, parts in a tick
  Noises,        \* errors of an upstream's answer
  Poll,          \* s_poll_s, in ticks
  Ring,          \* NTP_DRIFT_RING_SIZE: 8
  MinBase,       \* shortest baseline of an estimate (60 s), in ticks
  Clamp,         \* largest drift believed (500 ppm)
  Epoch,         \* the true time at boot
  NtpTimeMax     \* bound on the run, in ticks

VARIABLES
  ticks,         \* true time since boot
  osc,
  offset,        \* gettimeofday is esp_timer_get_time plus this
  sync,          \* how far esp_sntp is with an answer: none, set, flagged
  synced,        \* s_synced
  last_sync,     \* s_last_sync_us
  ring, head, count,  \* s_drift_ring, s_drift_head, s_drift_count
  ppm,           \* s_drift_ppm
  server,        \* the reply the server task is writing
  history        \* every sync recorded: the reference of the ring

ntpvars == <<ticks, osc, offset, sync, synced, last_sync, ring, head, count, ppm, server, history>>

Unknown == -2147483647 - 1   \* INT32_MIN
Never == 0             \* the zero NTP timestamp
Idle == [at |-> "idle"]

\* What the module of the instance must assume: the oscillator runs, an upstream's errors
\* are bounded, and the time since 1970 is longer than any correction of an uptime.
NtpAssumption ==
  /\ Unit \in Nat \ {0} /\ Poll \in Nat /\ Ring \in Nat \ {0, 1}
  /\ MinBase \in Nat \ {0} /\ Clamp \in Nat /\ Unknown < -Clamp
  /\ Epoch \in Nat /\ NtpTimeMax \in Nat
  /\ Oscillators \subseteq Int /\ \A o \in Oscillators : Unit + o > 0
  /\ Noises \subseteq Int /\ \E low, high \in Noises : \A e \in Noises : low <= e /\ e <= high
  /\ \A o \in Oscillators, e \in Noises :
       Epoch + e > Clamp * ((NtpTimeMax * (Unit + o)) \div Unit)

Init ==
  /\ ticks = 0 /\ osc \in Oscillators /\ offset = 0
  /\ sync = "none" /\ synced = FALSE /\ last_sync = 0
  /\ ring = [i \in 0..(Ring - 1) |-> [mono |-> 0, wall |-> 0]]
  /\ head = 0 /\ count = 0 /\ ppm = Unknown
  /\ server = Idle
  /\ history = <<>>

-----------------------------------------------------------------------------
(* The clock.  A name that ends in _Bug is the definition below it with    *)
(* one defect.                                                             *)

mono == ticks * (Unit + osc)       \* esp_timer_get_time
wall == mono + offset              \* gettimeofday
True == Epoch + ticks * Unit

Quotient(a, b) == IF a >= 0 THEN a \div b ELSE -((-a) \div b)   \* C's division

free_running ==
  LET age == (mono - last_sync) \div Unit IN
  IF ~synced \/ age <= 2 * Poll THEN 0 ELSE age

ntp_now == IF synced THEN wall ELSE Never

corrected_now ==
  IF free_running = 0 \/ ppm = Unknown THEN ntp_now ELSE ntp_now - ppm * free_running

\* ntp_drift_record
Estimate(d_mono, d_wall) ==
  IF d_mono < MinBase * Unit THEN Unknown
  ELSE LET p == Quotient((d_wall - d_mono) * Unit, d_mono) IN
       IF p > Clamp THEN Clamp ELSE IF p < -Clamp THEN -Clamp ELSE p

Oldest_Bug(n) == 0
Oldest(n) == IF n = Ring THEN (head + 1) % Ring ELSE 0

Record(s) ==
  LET n == IF count < Ring THEN count + 1 ELSE count
      r == [ring EXCEPT ![head] = s]
  IN /\ ring' = r /\ head' = (head + 1) % Ring /\ count' = n
     /\ ppm' = IF n < 2 THEN Unknown
               ELSE Estimate(s.mono - r[Oldest(n)].mono, s.wall - r[Oldest(n)].wall)

-----------------------------------------------------------------------------
(* esp_sntp and its callback, on_sntp_synced *)

\* An answer of an upstream, no two in a tick: esp_sntp sets the clock.
SetTime(noise) ==
  /\ sync = "none" /\ (history = <<>> \/ last_sync # mono)
  /\ offset' = True + noise - mono
  /\ sync' = "set"
  /\ UNCHANGED <<ticks, osc, synced, last_sync, ring, head, count, ppm, server, history>>

Flag ==
  /\ sync = "set"
  /\ synced' = TRUE /\ sync' = "flagged"
  /\ UNCHANGED <<ticks, osc, offset, last_sync, ring, head, count, ppm, server, history>>

\* The wall time recorded is the upstream's, whenever the callback runs.
Note ==
  /\ sync = "flagged"
  /\ LET s == [mono |-> mono, wall |-> wall] IN
       Record(s) /\ history' = Append(history, s)
  /\ last_sync' = mono
  /\ sync' = "none"
  /\ UNCHANGED <<ticks, osc, offset, synced, server>>

-----------------------------------------------------------------------------
(* The server task.  at: what it does next. *)

\* A packet arrives; one of the wrong size or mode, or over the rate of
\* NtpRate, goes no further.
Receive ==
  /\ server.at = "idle"
  /\ server' = [at |-> "snapshot", rx |-> corrected_now,
                known |-> synced /\ sync # "flagged", syncs |-> Len(history),
                synced |-> FALSE, stratum |-> 16, reference |-> Never, tx |-> Never]
  /\ UNCHANGED <<ticks, osc, offset, sync, synced, last_sync, ring, head, count, ppm, history>>

Snapshot ==
  /\ server.at = "snapshot"
  /\ server' = [server EXCEPT !.at = "stratum", !.synced = synced]
  /\ UNCHANGED <<ticks, osc, offset, sync, synced, last_sync, ring, head, count, ppm, history>>

\* ntp_advertised_stratum reads s_synced again.
Stratum ==
  /\ server.at = "stratum"
  /\ server' = [server EXCEPT !.at = "stamp", !.stratum = IF synced THEN 3 ELSE 16]
  /\ UNCHANGED <<ticks, osc, offset, sync, synced, last_sync, ring, head, count, ppm, history>>

Stamped(us) == IF us <= 0 THEN Never ELSE us     \* ntp_epoch_us_to_ntp

Reference_Bug == server.rx - mono
Reference == server.rx - (mono - last_sync)

Stamp ==
  /\ server.at = "stamp"
  /\ server' = [server EXCEPT !.at = "send",
       !.reference = IF server.synced THEN Stamped(Reference) ELSE Never,
       !.tx = Stamped(corrected_now)]
  /\ UNCHANGED <<ticks, osc, offset, sync, synced, last_sync, ring, head, count, ppm, history>>

Send ==
  /\ server.at = "send"
  /\ server' = Idle
  /\ UNCHANGED <<ticks, osc, offset, sync, synced, last_sync, ring, head, count, ppm, history>>

\* A step of either task takes less than a tick, the answer of an upstream
\* may take any time.
NtpTick ==
  /\ ticks < NtpTimeMax
  /\ sync = "none" /\ server.at = "idle"
  /\ ticks' = ticks + 1
  /\ UNCHANGED <<osc, offset, sync, synced, last_sync, ring, head, count, ppm, server, history>>

Next ==
  \/ \E noise \in Noises : SetTime(noise)
  \/ Flag \/ Note
  \/ Receive \/ Snapshot \/ Stratum \/ Stamp \/ Send
  \/ NtpTick

Spec == Init /\ [][Next]_ntpvars

-----------------------------------------------------------------------------
(* Properties *)

TypeOK ==
  /\ ticks \in 0..NtpTimeMax /\ osc \in Oscillators /\ offset \in Int
  /\ sync \in {"none", "set", "flagged"} /\ synced \in BOOLEAN
  /\ last_sync \in 0..mono
  /\ ring \in [0..(Ring - 1) -> [mono : 0..mono, wall : Nat]]
  /\ head \in 0..(Ring - 1) /\ count \in 0..Ring
  /\ ppm = Unknown \/ ppm \in -Clamp..Clamp

Abs(n) == IF n < 0 THEN -n ELSE n

\* The drift is that between the newest sync and the oldest of the last Ring,
\* "the longest measurement baseline", through every turn of the ring, and so no
\* further from the oscillator's own than the errors of two answers over it.
DriftOfTheRing ==
  LET n == Len(history)
      first == history[IF n > Ring THEN n - Ring + 1 ELSE 1]
      d_mono == history[n].mono - first.mono
      d_true == (d_mono \div (Unit + osc)) * Unit
      spread == Max({x - y : x, y \in Noises})
  IN IF n < 2 THEN ppm = Unknown
     ELSE /\ ppm = Estimate(d_mono, history[n].wall - first.wall)
          /\ ppm \notin {Unknown, Clamp, -Clamp} =>
               Abs(ppm * d_mono - (d_true - d_mono) * Unit) <= spread * Unit + d_mono

\* What the server tells: a request that comes when no sync is being recorded and
\* the clock is good gets no alarm, stratum 3 and a reference near the last
\* sync; one answered before the first sync is told so in every field.  Between the
\* two the fields of one reply may disagree (s_synced is read twice, and set
\* before s_last_sync_us).
ReplyCoherent ==
  server.at = "send" =>
    /\ server.known =>
         /\ server.synced /\ server.stratum = 3 /\ server.tx # Never
         /\ sync = "none" /\ server.syncs = Len(history) =>
              LET last == history[server.syncs].wall
                  bend == IF free_running = 0 \/ ppm = Unknown THEN 0 ELSE ppm * free_running
              IN server.reference + bend \in last - Unit..last
    /\ ~synced => server.stratum = 16 /\ server.tx = Never /\ server.reference = Never

\* The correction for a free-running clock brings it nearer to the true time
\* (Drift compensation: "corrected = gettimeofday() + drift_ppm * dt").
CorrectionHelps ==
  sync = "none" /\ synced => Abs(corrected_now - True) <= Abs(ntp_now - True)
=============================================================================
