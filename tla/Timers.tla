------------------------------- MODULE Timers -------------------------------
(***************************************************************************)
(* The scheduled publishes of main/timers.c: the slots the portal edits,   *)
(* their copy in NVS, and timers_task, which once a second fires the slots *)
(* whose local minute has come.  The mutex is held for a whole sweep and   *)
(* for a whole edit; the power may go in between.                          *)
(*                                                                         *)
(* The clock counts minutes, and timers_task turns many times in each.     *)
(* Local time falls back by Shift minutes at FallBack.  What a fire does   *)
(* is in Broker (LocalPublish); a full queue changes nothing here.         *)
(***************************************************************************)
EXTENDS Integers, Sequences

CONSTANTS
  NSlots,         \* TIMERS_SLOT_COUNT
  MinutesPerDay, DaysPerWeek,
  FallBack, Shift,
  Config,         \* armed slots the portal may store: what timers_validate lets through
  WindowMax,      \* largest window: 15
  Hash(_, _),     \* hash32 of a slot and a day
  StepMax,        \* largest step of the clock, backward or forward
  StepsMax,       \* bound on the steps of the clock
  UtcMax          \* bound on the run

Slot == 1..NSlots
Day == 0..(DaysPerWeek - 1)
Minute == 0..(MinutesPerDay - 1)
ArmedSlot == [arm: {TRUE}, repeat: BOOLEAN, days: SUBSET Day \ {{}},
              minute: Minute, window: 0..WindowMax]

ASSUME TimersAssumption ==
  /\ NSlots \in Nat \ {0}
  /\ MinutesPerDay \in Nat \ {0} /\ DaysPerWeek \in Nat \ {0}
  /\ FallBack \in Nat /\ Shift \in 0..FallBack
  /\ WindowMax \in Nat /\ StepMax \in Nat /\ StepsMax \in Nat /\ UtcMax \in Nat \ {0}
  /\ Config \subseteq ArmedSlot

EmptySlot == [arm |-> FALSE, repeat |-> FALSE, days |-> {}, minute |-> 0, window |-> 0]
NoDay == -1
NoJitter == [day |-> NoDay, minutes |-> 0]

VARIABLES
  slots,      \* s_slots
  saved,      \* the slots and the master switch in NVS
  master,     \* s_master_enabled
  last_fire,  \* s_last_fire_utc_min; 0 is never
  jitter,     \* s_jitter_yday and s_jitter_minutes
  utc,        \* the clock, in minutes
  synced,     \* the clock is past MIN_VALID_UNIX
  steps,      \* how often the clock has been stepped
  last_now,   \* timers_task: time of its last turn; 0 before the first
  sweep,      \* timers_task: the slot it is at, 0 outside; its time; s_lock is held
  turned,     \* timers_task has finished a turn in this minute
  lost,       \* history: the last save failed, NVS is behind
  quiet,      \* history: nothing was edited and no clock stepped in this minute
  fired       \* history: when each slot was fired since it was stored

vars == <<slots, saved, master, last_fire, jitter, utc, synced, steps,
          last_now, sweep, turned, lost, quiet, fired>>
config == <<slots, saved, master, lost>>
clock == <<utc, synced, steps>>
task == <<last_now, sweep, turned>>

Idle == [at |-> 0, now |-> 0, held |-> FALSE]

Init ==
  /\ slots = [i \in Slot |-> EmptySlot]
  /\ master = TRUE
  /\ saved = [slots |-> slots, master |-> master]
  /\ last_fire = [i \in Slot |-> 0]
  /\ jitter = [i \in Slot |-> NoJitter]
  /\ utc = 1 /\ synced = FALSE /\ steps = 0
  /\ last_now = 0 /\ sweep = Idle /\ turned = FALSE
  /\ lost = FALSE /\ quiet = FALSE
  /\ fired = [i \in Slot |-> <<>>]

-----------------------------------------------------------------------------
(* A name that ends in _Bug is the definition below it with one defect.    *)

\* localtime_r
Local(t) == IF t >= FallBack THEN t - Shift ELSE t
DayOf(t) == Local(t) \div MinutesPerDay
MinuteOf(t) == Local(t) % MinutesPerDay
WeekdayOf(t) == DayOf(t) % DaysPerWeek

ASSUME HashAssumption == \A i \in Slot, t \in 0..UtcMax : Hash(i, DayOf(t)) \in Int

\* The steps of the clock, all in the same direction, are smaller than the time
\* from the fires of one day to those of the next, and so is the fall back.
SmallSteps ==
  /\ StepsMax * StepMax < MinutesPerDay - 2 * WindowMax
  /\ Shift <= MinutesPerDay - 2 * WindowMax

Unlocked == ~sweep.held

\* The write to flash may fail; the slots in RAM keep the change.
Save(s, m) ==
  \/ saved' = [slots |-> s, master |-> m] /\ lost' = FALSE
  \/ saved' = saved /\ lost' = TRUE

-----------------------------------------------------------------------------
(* The portal: timers_set, timers_clear, timers_set_master_enabled.        *)

Store(i, s) ==
  /\ slots' = [slots EXCEPT ![i] = s]
  /\ Save(slots', master)
  /\ fired' = [fired EXCEPT ![i] = <<>>]
  /\ quiet' = FALSE
  /\ UNCHANGED <<master, clock, task>>

Set_Bug(i, s) ==  \* the jitter of the day stands
  /\ Unlocked
  /\ Store(i, s)
  /\ last_fire' = [last_fire EXCEPT ![i] = 0]
  /\ UNCHANGED jitter
Set(i, s) ==
  /\ Unlocked
  /\ Store(i, s)
  /\ last_fire' = [last_fire EXCEPT ![i] = 0]
  /\ jitter' = [jitter EXCEPT ![i].day = NoDay]

Clear(i) == Set(i, EmptySlot)

SetMaster ==
  /\ Unlocked
  /\ master' = ~master
  /\ Save(slots, master')
  /\ quiet' = FALSE
  /\ UNCHANGED <<slots, last_fire, jitter, clock, task, fired>>

-----------------------------------------------------------------------------
(* timers_task *)

\* A turn that finds the clock more than a minute away from the last one
\* sweeps nothing; nor does one that finds the master switch off.  The switch
\* is read before the lock is taken, and the task gives the turn up when it
\* does not get the lock in time.
LargeJump == last_now # 0 /\ (utc - last_now > 1 \/ last_now - utc > 1)

Wake ==
  /\ sweep.at = 0 /\ synced
  /\ last_now' = utc
  /\ sweep' = IF master /\ ~LargeJump THEN [Idle EXCEPT !.at = 1, !.now = utc] ELSE Idle
  /\ turned' = (turned \/ (~master /\ ~LargeJump))
  /\ UNCHANGED <<config, last_fire, jitter, clock, quiet, fired>>

TakeLock ==
  /\ sweep.at = 1 /\ ~sweep.held
  /\ sweep' \in {[sweep EXCEPT !.held = TRUE], Idle}
  /\ UNCHANGED <<config, last_fire, jitter, clock, last_now, turned, quiet, fired>>

\* The jitter of a day, kept in the cache: a hash of the slot and the day.
Jitter_Bug(i, t) == Hash(i, DayOf(t)) % (2 * slots[i].window + 1)  \* not centred
Jitter(i, t) == (Hash(i, DayOf(t)) % (2 * slots[i].window + 1)) - slots[i].window

JitterOf(i, t) == IF jitter[i].day = DayOf(t) THEN jitter[i].minutes ELSE Jitter(i, t)

Eligible(i, t) == slots[i].arm /\ WeekdayOf(t) \in slots[i].days

\* j is the jitter in force; a target outside the day is left out.
OnTime(i, t, j) ==
  /\ slots[i].minute + j \in Minute
  /\ MinuteOf(t) = slots[i].minute + j

NotFired_Always(i, t) == TRUE  \* every second of the minute
NotFired_Once(i, t) == last_fire[i] = 0  \* once for good
NotFired(i, t) == last_fire[i] # t

\* A slot in once-mode is disarmed after its fire, and the slots are saved.
Fire_Bug(i, t) ==  \* but not saved
  /\ last_fire' = [last_fire EXCEPT ![i] = t]
  /\ fired' = [fired EXCEPT ![i] = Append(@, t)]
  /\ slots' = IF slots[i].repeat THEN slots ELSE [slots EXCEPT ![i].arm = FALSE]
  /\ UNCHANGED <<saved, lost>>
Fire(i, t) ==
  /\ last_fire' = [last_fire EXCEPT ![i] = t]
  /\ fired' = [fired EXCEPT ![i] = Append(@, t)]
  /\ IF slots[i].repeat THEN UNCHANGED <<slots, saved, lost>>
     ELSE slots' = [slots EXCEPT ![i].arm = FALSE] /\ Save(slots', master)

SweepSlot ==
  LET i == sweep.at
      t == sweep.now
  IN
  /\ sweep.held
  /\ IF ~Eligible(i, t) THEN UNCHANGED <<slots, saved, lost, last_fire, jitter, fired>>
     ELSE LET m == JitterOf(i, t) IN
            /\ jitter' = [jitter EXCEPT ![i] = [day |-> DayOf(t), minutes |-> m]]
            /\ IF OnTime(i, t, m) /\ NotFired(i, t)
               THEN Fire(i, t)
               ELSE UNCHANGED <<slots, saved, lost, last_fire, fired>>
  /\ IF i < NSlots THEN sweep' = [sweep EXCEPT !.at = i + 1] /\ UNCHANGED turned
                   ELSE sweep' = Idle /\ turned' = (turned \/ t = utc)
  /\ UNCHANGED <<master, clock, last_now, quiet>>

-----------------------------------------------------------------------------
(* The clock and the power *)

\* A minute has sixty turns.
Tick ==
  /\ utc < UtcMax
  /\ synced => turned
  /\ utc' = utc + 1
  /\ turned' = FALSE
  /\ quiet' = synced
  /\ UNCHANGED <<config, last_fire, jitter, synced, steps, last_now, sweep, fired>>

\* SNTP sets the clock: for the first time, or again.
Sync ==
  /\ ~synced
  /\ synced' = TRUE
  /\ UNCHANGED <<config, last_fire, jitter, utc, steps, task, quiet, fired>>

ClockStep ==
  /\ synced /\ steps < StepsMax
  /\ utc' \in {t \in 1..UtcMax : t # utc /\ t - utc \in (-StepMax)..StepMax}
  /\ steps' = steps + 1
  /\ turned' = FALSE
  /\ quiet' = FALSE
  /\ UNCHANGED <<config, last_fire, jitter, synced, last_now, sweep, fired>>

\* Power loss and timers_init.  A reboot within the minute of a fire repeats
\* it, and so does one after a save that failed: of what the slots did, the
\* history keeps the fires of once-mode slots, if the last save did not fail.
Reboot ==
  /\ slots' = saved.slots /\ master' = saved.master
  /\ last_fire' = [i \in Slot |-> 0]
  /\ jitter' = [i \in Slot |-> NoJitter]
  /\ synced' = FALSE
  /\ last_now' = 0 /\ sweep' = Idle /\ turned' = FALSE
  /\ quiet' = FALSE
  /\ fired' = [i \in Slot |-> IF slots[i].repeat \/ lost THEN <<>> ELSE fired[i]]
  /\ lost' = FALSE
  /\ UNCHANGED <<saved, utc, steps>>

Next ==
  \/ \E i \in Slot : Clear(i) \/ \E s \in Config : Set(i, s)
  \/ SetMaster
  \/ Wake \/ TakeLock \/ SweepSlot
  \/ Tick \/ Sync \/ ClockStep \/ Reboot

Spec == Init /\ [][Next]_vars

-----------------------------------------------------------------------------
(* Properties *)

Times == 0..UtcMax
Repeated == FallBack..(FallBack + Shift - 1)
StoredSlot == [arm: BOOLEAN, repeat: BOOLEAN, days: SUBSET Day,
               minute: Minute, window: 0..WindowMax]
SavedType == [slots: [Slot -> StoredSlot], master: BOOLEAN]
JitterType == [day: Int, minutes: (-WindowMax)..WindowMax]
SweepType == [at: 0..NSlots, now: Times, held: BOOLEAN]
TypeOK ==
  /\ slots \in [Slot -> StoredSlot]
  /\ saved \in SavedType
  /\ master \in BOOLEAN
  /\ last_fire \in [Slot -> Times]
  /\ jitter \in [Slot -> JitterType]
  /\ utc \in 1..UtcMax /\ synced \in BOOLEAN /\ steps \in 0..StepsMax
  /\ last_now \in Times
  /\ sweep \in SweepType
  /\ turned \in BOOLEAN /\ lost \in BOOLEAN /\ quiet \in BOOLEAN
  /\ fired \in [Slot -> Seq(Times)]

\* A slot fires once on a local day ("keep one fire per local day"), whatever its
\* jitter and through steps of the clock smaller than the time between two fires;
\* only when local time falls back over its minute does it fire in both of them
\* (and a step back over that hour repeats it once more).  A slot in once-mode
\* fires once: it is disarmed, and a reboot does not arm it again unless the save
\* of the disarming failed.
OncePerLocalDay ==
  \A i \in Slot :
    /\ \A j, k \in DOMAIN fired[i] :
         j # k /\ DayOf(fired[i][j]) = DayOf(fired[i][k]) =>
           \/ steps > 0 /\ \E n \in DOMAIN fired[i] : fired[i][n] \in Repeated
           \/ j < k /\ fired[i][k] = fired[i][j] + Shift /\ fired[i][k] \in Repeated
           \/ k < j /\ fired[i][j] = fired[i][k] + Shift /\ fired[i][j] \in Repeated
    /\ slots[i].repeat \/ Len(fired[i]) <= 1

\* A slot fires on a day it names, within the window around its time, as the
\* slot is now stored: nothing of an earlier edit is left in the caches.
FiresInWindow ==
  \A i \in Slot : \A k \in DOMAIN fired[i] :
    LET t == fired[i][k] IN
    /\ WeekdayOf(t) \in slots[i].days
    /\ MinuteOf(t) - slots[i].minute \in (-slots[i].window)..slots[i].window

\* No slot is missed: when a minute in which nothing was edited and no clock
\* stepped is over, the armed slots it was the time of have fired in it.
DueFires ==
  [][utc' = utc + 1 /\ steps' = steps /\ quiet /\ master =>
       \A i \in Slot : Eligible(i, utc) /\ OnTime(i, utc, JitterOf(i, utc))
                      => last_fire[i] = utc]_vars
=============================================================================
