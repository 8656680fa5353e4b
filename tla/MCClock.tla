------------------------------ MODULE MCClock -------------------------------
(***************************************************************************)
(* What measures time: the keep-alive check, the SNTP client and server,   *)
(* its rate limit, and echo detection.  Each reads a clock of its own and  *)
(* shares no state with the others: a run takes one of them and lets it    *)
(* run alone.                                                              *)
(***************************************************************************)
EXTENDS KeepAlive, TLC

CONSTANTS
  Unit, Oscillators, Noises, Poll, Ring, MinBase, Clamp, Epoch, NtpTimeMax,
  Source, Places, Rate, RateWindow, RateTimeMax,
  EchoTopic, MaxTopics, MinCounts, Window, EchoWrap, EchoTimeMax, PublishMax

VARIABLES
  part,
  ticks, osc, offset, sync, synced, last_sync, ring, head, count, ppm, server, history,
  moment, table, answered, refused,
  time, enabled, min_count, entries, detections, heard, changed, published

sntpvars == <<ticks, osc, offset, sync, synced, last_sync, ring, head, count, ppm, server, history>>
limitvars == <<moment, table, answered, refused>>
echovars == <<time, enabled, min_count, entries, detections, heard, changed, published>>

Sntp == INSTANCE Ntp
\* Of the module of its proofs, that they can be cited.
Limit == INSTANCE NtpRateProofs
Echo == INSTANCE EchoDetect

\* What the proofs of NtpRate assume holds here.
ASSUME RateSizes == Limit!RateAssumption

\* What the proofs of Ntp assume holds here.
ASSUME ClockSizes == Sntp!NtpAssumption

\* What the proofs of EchoDetect assume holds here.
ASSUME EchoSizes == Echo!EchoAssumption

MCOscillators == {-4, 3}
MCNoises == {-1, 2}
MCExact == {0}

ClockParts == {"keepalive", "sntp", "limit", "echo"}

ClockInit ==
  /\ Init /\ Sntp!Init /\ Limit!Init /\ Echo!Init
  /\ part = "sntp" \/ osc = CHOOSE o \in Oscillators : TRUE
  /\ part = "echo" \/ min_count = CHOOSE n \in MinCounts : TRUE

ClockNext ==
  /\ UNCHANGED part
  /\ \/ part = "keepalive" /\ Next
        /\ UNCHANGED <<sntpvars, limitvars, echovars>>
     \/ part = "sntp" /\ Sntp!Next
        /\ UNCHANGED <<vars, limitvars, echovars>>
     \/ part = "limit" /\ Limit!Next
        /\ UNCHANGED <<vars, sntpvars, echovars>>
     \/ part = "echo" /\ Echo!Next
        /\ UNCHANGED <<vars, sntpvars, limitvars>>

clockvars == <<vars, sntpvars, limitvars, echovars>>
ClockSpec == part \in ClockParts /\ ClockInit /\ [][ClockNext]_<<part, clockvars>>

-----------------------------------------------------------------------------
(* The properties of the parts, where their modules state them. *)

\* The drift is that between the newest sync and the oldest the ring should hold
\* (ntp_drift_record).
DriftOfTheRing == Sntp!DriftOfTheRing

\* What the server tells is right once the clock is, and alarms before.
ReplyCoherent == Sntp!ReplyCoherent

\* No source gets more than its rate, and none is refused for long.
RateBounded == Limit!RateBounded

\* A topic is reported as an echo only when it was one, and stays reported; an echo loop
\* that goes on is reported (echo_track).
EchoesFlagged == Echo!FlagsAreEarned /\ Echo!LoopsFlagged

\* The correction for a free-running clock brings it nearer to the true time.
CorrectionHelps == Sntp!CorrectionHelps
=============================================================================
