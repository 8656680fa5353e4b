--------------------------- MODULE ServicesProofs ---------------------------
(***************************************************************************)
(* The services beside the broker: the scheduled publishes, for any number *)
(* of slots, length of day and week, hash and configuration; what the      *)
(* Berry runtime keeps, for any topics and filters, any sizes of its       *)
(* queues and any number of listeners and commands; and the text of the    *)
(* schedules, of which TimerBlobProofs has the lemmas.                     *)
(***************************************************************************)
EXTENDS MCServices, FiniteSetTheorems, FunctionTheorems, SequenceTheorems, WellFoundedInduction, TLAPS

-----------------------------------------------------------------------------
(* Local time, and the jitter. *)

\* A moment is given by its local day and minute, up to the repeated hour.
LEMMA LocalTime ==
  ASSUME NEW t \in Times
  PROVE  /\ Local(t) \in Nat /\ DayOf(t) \in Nat /\ MinuteOf(t) \in Minute
         /\ Local(t) = DayOf(t) * MinutesPerDay + MinuteOf(t)
<1>1. t \in Nat /\ Local(t) \in Nat
  BY TimersAssumption DEF Times, Local
<1>2. \A n \in Nat, d \in Nat \ {0} :
        /\ n \div d \in Nat /\ n % d \in 0..(d - 1)
        /\ n = (n \div d) * d + (n % d)
  BY SMT
<1>3. QED
  BY <1>1, <1>2, TimersAssumption DEF DayOf, MinuteOf, Minute

LEMMA JitterWithin ==
  ASSUME TypeOK, NEW i \in Slot, NEW t \in Times
  PROVE  Jitter(i, t) \in (-slots[i].window)..slots[i].window
<1> DEFINE w == slots[i].window
           h == Hash(i, DayOf(t))
<1>1. w \in Nat /\ h \in Int
  BY HashAssumption, TimersAssumption DEF TypeOK, StoredSlot, Times
<1>2. \A n \in Int, d \in Nat \ {0} : n % d \in 0..(d - 1)
  BY SMT
<1>3. h % (2 * w + 1) \in 0..(2 * w)
  <2> HIDE DEF w, h
  <2>1. 2 * w + 1 \in Nat \ {0}
    BY <1>1
  <2>2. h % (2 * w + 1) \in 0..((2 * w + 1) - 1)
    BY <1>1, <1>2, <2>1
  <2>3. QED  BY <1>1, <2>2
<1>4. (h % (2 * w + 1)) - w \in (-w)..w
  <2> HIDE DEF w, h
  <2>1. QED  BY <1>1, <1>3
<1>5. QED  BY <1>4 DEF Jitter

\* What the cache holds is the jitter of the day it names.
Cached ==
  \A i \in Slot : jitter[i].day # NoDay =>
    jitter[i].minutes = (Hash(i, jitter[i].day) % (2 * slots[i].window + 1)) - slots[i].window

LEMMA JitterFromCache ==
  ASSUME Cached, NEW i \in Slot, NEW t \in Times
  PROVE  JitterOf(i, t) = Jitter(i, t)
<1>1. DayOf(t) # NoDay
  BY LocalTime DEF NoDay
<1>2. QED  BY <1>1 DEF Cached, JitterOf, Jitter

-----------------------------------------------------------------------------
(* Types *)

LEMMA EmptyIsStored == EmptySlot \in StoredSlot
BY TimersAssumption DEF EmptySlot, StoredSlot, Minute

LEMMA ConfigIsStored == Config \subseteq StoredSlot
BY TimersAssumption DEF ArmedSlot, StoredSlot

LEMMA IdleIsSweep == Idle \in SweepType
BY TimersAssumption DEF Idle, SweepType, Times

LEMMA SaveTypes ==
  ASSUME NEW s \in [Slot -> StoredSlot], NEW m \in BOOLEAN,
         saved \in SavedType, Save(s, m)
  PROVE  /\ saved' \in SavedType
         /\ lost' \in BOOLEAN
<1>1. [slots |-> s, master |-> m] \in SavedType
  BY DEF SavedType
<1>2. QED  BY <1>1, Zenon DEF Save

LEMMA SetTypes ==
  ASSUME TypeOK, NEW i \in Slot, NEW s \in StoredSlot, Set(i, s)
  PROVE  TypeOK'
<1>1. slots' \in [Slot -> StoredSlot]
  BY DEF Set, Store, TypeOK
<1>2. saved' \in SavedType /\ lost' \in BOOLEAN
  BY <1>1, SaveTypes DEF Set, Store, TypeOK
<1>3. last_fire' \in [Slot -> Times]
  BY TimersAssumption DEF Set, TypeOK, Times
<1>4. jitter' \in [Slot -> JitterType]
  <2>1. [jitter[i] EXCEPT !.day = NoDay] \in JitterType
    <3>1. \A x \in JitterType : [x EXCEPT !.day = NoDay] \in JitterType
      BY DEF JitterType, NoDay
    <3>2. QED  BY <3>1 DEF TypeOK
  <2>2. QED  BY <2>1 DEF Set, TypeOK
<1>5. fired' \in [Slot -> Seq(Times)]
  BY DEF Set, Store, TypeOK
<1>6. QED
  BY <1>1, <1>2, <1>3, <1>4, <1>5 DEF Set, Store, TypeOK, clock, task

LEMMA FireTypes ==
  ASSUME TypeOK, NEW i \in Slot, NEW t \in Times, Fire(i, t)
  PROVE  /\ slots' \in [Slot -> StoredSlot]
         /\ saved' \in SavedType
         /\ lost' \in BOOLEAN
         /\ last_fire' \in [Slot -> Times]
         /\ fired' \in [Slot -> Seq(Times)]
<1>1. last_fire' \in [Slot -> Times]
  BY DEF Fire, TypeOK
<1>2. fired' \in [Slot -> Seq(Times)]
  <2>1. fired[i] \in Seq(Times)
    BY DEF TypeOK
  <2>2. Append(fired[i], t) \in Seq(Times)
    BY <2>1, AppendProperties
  <2>3. QED  BY <2>2 DEF Fire, TypeOK
<1>3. CASE slots[i].repeat
  BY <1>1, <1>2, <1>3 DEF Fire, TypeOK
<1>4. CASE ~slots[i].repeat
  <2>1. [slots[i] EXCEPT !.arm = FALSE] \in StoredSlot
    <3>1. \A x \in StoredSlot : [x EXCEPT !.arm = FALSE] \in StoredSlot
      BY DEF StoredSlot
    <3>2. QED  BY <3>1 DEF TypeOK
  <2>2. slots' \in [Slot -> StoredSlot] /\ Save(slots', master)
    BY <1>4, <2>1 DEF Fire, TypeOK
  <2>3. QED  BY <1>1, <1>2, <2>2, SaveTypes DEF TypeOK
<1>5. QED  BY <1>3, <1>4

LEMMA SweepTypes ==
  ASSUME TypeOK, SweepSlot, sweep.at \in Slot
  PROVE  TypeOK'
<1> DEFINE i == sweep.at  t == sweep.now
<1>1. i \in Slot /\ t \in Times
  BY DEF TypeOK, SweepType
<1>2. jitter' \in [Slot -> JitterType]
  <2>1. CASE ~Eligible(i, t)
    BY <2>1 DEF SweepSlot, TypeOK
  <2>2. CASE Eligible(i, t)
    <3>1. DayOf(t) \in Int
      BY <1>1, LocalTime
    <3>2. JitterOf(i, t) \in (-WindowMax)..WindowMax
      <4>1. slots[i].window \in 0..WindowMax /\ jitter[i].minutes \in (-WindowMax)..WindowMax
        BY <1>1 DEF TypeOK, StoredSlot, JitterType
      <4>2. Jitter(i, t) \in (-WindowMax)..WindowMax
        BY <1>1, <4>1, JitterWithin, TimersAssumption
      <4>3. QED  BY <4>1, <4>2 DEF JitterOf
    <3>3. jitter' = [jitter EXCEPT ![i] = [day |-> DayOf(t), minutes |-> JitterOf(i, t)]]
      BY <2>2 DEF SweepSlot
    <3>4. [day |-> DayOf(t), minutes |-> JitterOf(i, t)]
            \in JitterType
      BY <3>1, <3>2 DEF JitterType
    <3> HIDE DEF i, t
    <3>5. QED  BY <1>1, <3>3, <3>4 DEF TypeOK
  <2>3. QED  BY <2>1, <2>2
<1>3. /\ slots' \in [Slot -> StoredSlot]
      /\ saved' \in SavedType
      /\ lost' \in BOOLEAN
      /\ last_fire' \in [Slot -> Times]
      /\ fired' \in [Slot -> Seq(Times)]
  <2>1. CASE UNCHANGED <<slots, saved, lost, last_fire, fired>>
    BY <2>1 DEF TypeOK
  <2>2. CASE Fire(i, t)
    BY <1>1, <2>2, FireTypes
  <2>3. QED  BY <2>1, <2>2 DEF SweepSlot
<1>4. sweep' \in SweepType
  <2>1. \A x \in SweepType : \A a \in 0..NSlots : [x EXCEPT !.at = a] \in SweepType
    BY DEF SweepType
  <2>2. i < NSlots => i + 1 \in 0..NSlots
    BY <1>1, TimersAssumption DEF Slot
  <2>3. sweep \in SweepType
    BY DEF TypeOK
  <2>4. QED  BY <2>1, <2>2, <2>3, IdleIsSweep DEF SweepSlot
<1>5. turned' \in BOOLEAN
  BY Zenon DEF SweepSlot, TypeOK
<1>6. QED
  BY <1>2, <1>3, <1>4, <1>5 DEF SweepSlot, clock, TypeOK

\* The lock is held by a sweep that is at a slot.
HeldInSweep == sweep.held => sweep.at \in Slot

LEMMA TypesStep ==
  ASSUME TypeOK, HeldInSweep, Next
  PROVE  TypeOK' /\ HeldInSweep'
<1> USE TimersAssumption
<1>1. ASSUME NEW i \in Slot, NEW s \in StoredSlot, Set(i, s)
      PROVE  TypeOK' /\ HeldInSweep'
  BY <1>1, SetTypes DEF Set, Store, HeldInSweep, task
<1>2. ASSUME NEW i \in Slot, Clear(i)
      PROVE  TypeOK' /\ HeldInSweep'
  BY <1>1, <1>2, EmptyIsStored DEF Clear
<1>3. CASE SetMaster
  <2>1. master' \in BOOLEAN /\ slots \in [Slot -> StoredSlot] /\ Save(slots, master')
    BY <1>3 DEF SetMaster, TypeOK
  <2>2. saved' \in SavedType /\ lost' \in BOOLEAN
    BY <2>1, SaveTypes DEF TypeOK
  <2>3. QED  BY <1>3, <2>1, <2>2 DEF SetMaster, TypeOK, HeldInSweep, clock, task
<1>4. ASSUME \/ sweep' = Idle
             \/ sweep' = [Idle EXCEPT !.at = 1, !.now = utc]
             \/ sweep.at = 1 /\ sweep' = [sweep EXCEPT !.held = TRUE]
      PROVE  sweep' \in SweepType /\ HeldInSweep'
  <2>1. utc \in Times /\ 1 \in Slot /\ 1 \in 0..NSlots
    BY DEF TypeOK, Times, Slot
  <2>2. [Idle EXCEPT !.at = 1, !.now = utc] \in SweepType
    BY <2>1 DEF Idle, SweepType
  <2>3. sweep \in SweepType
    BY DEF TypeOK
  <2>4. \A x \in SweepType : /\ [x EXCEPT !.held = TRUE] \in SweepType
                             /\ [x EXCEPT !.held = TRUE].at = x.at
    BY DEF SweepType
  <2>5. sweep' \in SweepType
    BY <1>4, <2>2, <2>3, <2>4, IdleIsSweep
  <2>6. ~sweep'.held \/ sweep'.at = 1
    <3>1. ~Idle.held /\ [Idle EXCEPT !.at = 1, !.now = utc].at = 1
      BY DEF Idle
    <3>2. QED  BY <1>4, <2>3, <2>4, <3>1
  <2>7. QED  BY <2>1, <2>5, <2>6 DEF HeldInSweep
<1>5. CASE Wake
  <2>1. sweep' \in SweepType /\ HeldInSweep'
    BY <1>4, <1>5, Zenon DEF Wake
  <2>2. last_now' \in Times
    BY <1>5 DEF Wake, TypeOK, Times
  <2>3. turned' \in BOOLEAN
    BY <1>5, Zenon DEF Wake, TypeOK
  <2>4. QED  BY <1>5, <2>1, <2>2, <2>3 DEF Wake, config, clock, TypeOK
<1>6. CASE TakeLock
  <2>1. sweep' \in SweepType /\ HeldInSweep'
    BY <1>4, <1>6, Zenon DEF TakeLock
  <2>2. QED  BY <1>6, <2>1 DEF TakeLock, config, clock, TypeOK
<1>7. CASE SweepSlot
  <2>1. sweep.at \in Slot /\ sweep \in SweepType
    BY <1>7 DEF SweepSlot, HeldInSweep, TypeOK
  <2>2. \/ sweep' = Idle
        \/ sweep.at < NSlots /\ sweep' = [sweep EXCEPT !.at = sweep.at + 1]
    BY <1>7, Zenon DEF SweepSlot
  <2>3. HeldInSweep'
    <3>1. CASE sweep' = Idle
      BY <3>1 DEF Idle, HeldInSweep
    <3>2. CASE sweep.at < NSlots /\ sweep' = [sweep EXCEPT !.at = sweep.at + 1]
      BY <2>1, <3>2 DEF HeldInSweep, SweepType, Slot
    <3>3. QED  BY <2>2, <3>1, <3>2
  <2>4. QED  BY <1>7, <2>1, <2>3, SweepTypes
<1>8. CASE Tick
  <2>1. utc' \in 1..UtcMax
    BY <1>8 DEF Tick, TypeOK
  <2>2. turned' \in BOOLEAN /\ quiet' \in BOOLEAN
    BY <1>8, Zenon DEF Tick, TypeOK
  <2>3. QED  BY <1>8, <2>1, <2>2 DEF Tick, HeldInSweep, config, TypeOK
<1>9. CASE Sync
  BY <1>9 DEF Sync, HeldInSweep, config, task, TypeOK
<1>10. CASE ClockStep
  <2>1. utc' \in 1..UtcMax /\ steps' \in 0..StepsMax
    BY <1>10 DEF ClockStep, TypeOK
  <2>2. turned' \in BOOLEAN /\ quiet' \in BOOLEAN
    BY <1>10, Zenon DEF ClockStep
  <2>3. QED  BY <1>10, <2>1, <2>2 DEF ClockStep, HeldInSweep, config, TypeOK
<1>11. CASE Reboot
  <2>1. slots' \in [Slot -> StoredSlot] /\ master' \in BOOLEAN
    BY <1>11 DEF Reboot, SavedType, TypeOK
  <2>2. last_fire' \in [Slot -> Times] /\ last_now' \in Times
    BY <1>11 DEF Reboot, Times
  <2>3. jitter' \in [Slot -> JitterType]
    BY <1>11 DEF Reboot, NoJitter, NoDay, JitterType
  <2>4. sweep' \in SweepType /\ HeldInSweep'
    BY <1>4, <1>11 DEF Reboot
  <2>5. fired' \in [Slot -> Seq(Times)]
    BY <1>11, EmptySeq DEF Reboot, TypeOK
  <2>6. QED
    BY <1>11, <2>1, <2>2, <2>3, <2>4, <2>5 DEF Reboot, TypeOK
<1>12. QED
  BY <1>1, <1>2, <1>3, <1>5, <1>6, <1>7, <1>8, <1>9, <1>10, <1>11, ConfigIsStored DEF Next

LEMMA TypesInit == Init => TypeOK /\ HeldInSweep
<1> SUFFICES ASSUME Init PROVE TypeOK /\ HeldInSweep
  OBVIOUS
<1>2. slots \in [Slot -> StoredSlot]
  BY EmptyIsStored DEF Init
<1>3. saved \in SavedType
  BY <1>2 DEF Init, SavedType
<1>4. last_fire \in [Slot -> Times] /\ last_now \in Times /\ jitter \in [Slot -> JitterType]
  BY TimersAssumption DEF Init, Times, NoJitter, NoDay, JitterType
<1>5. fired \in [Slot -> Seq(Times)]
  BY EmptySeq DEF Init
<1>6. HeldInSweep
  BY DEF Init, Idle, HeldInSweep
<1>7. /\ master \in BOOLEAN /\ synced \in BOOLEAN /\ turned \in BOOLEAN
      /\ lost \in BOOLEAN /\ quiet \in BOOLEAN
  BY Zenon DEF Init
<1>8. utc \in 1..UtcMax /\ steps \in 0..StepsMax
  BY TimersAssumption DEF Init
<1>9. sweep \in SweepType
  BY IdleIsSweep DEF Init
<1>10. QED
  BY <1>2, <1>3, <1>4, <1>5, <1>6, <1>7, <1>8, <1>9, Zenon DEF TypeOK

\* The state of the schedule, the clock and the task keep their types.
THEOREM TimersTypes == Spec => []TypeOK
<1>1. TypeOK /\ HeldInSweep /\ [Next]_vars => TypeOK' /\ HeldInSweep'
  <2>1. CASE UNCHANGED vars
    BY <2>1 DEF vars, HeldInSweep, TypeOK
  <2>2. QED  BY <2>1, TypesStep
<1>2. QED  BY <1>1, TypesInit, PTL DEF Spec

-----------------------------------------------------------------------------
(* What a step does to one slot. *)

\* When the last save did not fail, NVS holds what RAM holds.
SavedInv == ~lost => saved = [slots |-> slots, master |-> master]

TimerInv == TypeOK /\ HeldInSweep /\ Cached /\ SavedInv

\* Nothing happens to the slot, or a reboot that loads it as it was.
Stays(i) ==
  /\ fired'[i] = fired[i] /\ slots'[i] = slots[i]
  /\ last_fire'[i] = last_fire[i] \/ ~slots[i].repeat

\* The sweep fires it.
Fires(i) ==
  LET t == sweep.now IN
  /\ sweep.at = i /\ Eligible(i, t)
  /\ MinuteOf(t) = slots[i].minute + Jitter(i, t)
  /\ last_fire[i] # t /\ last_fire'[i] = t
  /\ fired'[i] = Append(fired[i], t)
  /\ slots'[i] = IF slots[i].repeat THEN slots[i] ELSE [slots[i] EXCEPT !.arm = FALSE]

LEMMA SetSlot ==
  ASSUME TimerInv, NEW i \in Slot, NEW s, Set(i, s), NEW d \in Slot
  PROVE  Stays(d) \/ fired'[d] = <<>>
<1>1. fired'[i] = <<>>
  BY DEF Set, Store, TimerInv, TypeOK
<1>2. d # i => fired'[d] = fired[d] /\ slots'[d] = slots[d] /\ last_fire'[d] = last_fire[d]
  BY DEF Set, Store, TimerInv, TypeOK
<1>3. QED  BY <1>1, <1>2 DEF Stays

LEMMA SweepAtSlot ==
  ASSUME TimerInv, SweepSlot
  PROVE  /\ sweep.at \in Slot /\ sweep.now \in Times
         /\ JitterOf(sweep.at, sweep.now) = Jitter(sweep.at, sweep.now)
<1>1. sweep.at \in Slot /\ sweep.now \in Times
  BY DEF SweepSlot, TimerInv, TypeOK, SweepType, HeldInSweep
<1>2. QED  BY <1>1, JitterFromCache DEF TimerInv

LEMMA SweepOneSlot ==
  ASSUME TimerInv, SweepSlot, NEW d \in Slot
  PROVE  Stays(d) \/ Fires(d)
<1> DEFINE i == sweep.at  t == sweep.now
<1>1. i \in Slot /\ JitterOf(i, t) = Jitter(i, t)
  BY SweepAtSlot
<1>2. CASE UNCHANGED <<slots, saved, lost, last_fire, fired>>
  BY <1>2 DEF Stays
<1>3. CASE /\ Eligible(i, t) /\ OnTime(i, t, JitterOf(i, t)) /\ NotFired(i, t)
           /\ Fire(i, t)
  <2>1. d # i => Stays(d)
    <3>1. d # i => fired'[d] = fired[d] /\ last_fire'[d] = last_fire[d]
      BY <1>3 DEF Fire, TimerInv, TypeOK
    <3>2. d # i => slots'[d] = slots[d]
      BY <1>3 DEF Fire, TimerInv, TypeOK
    <3>3. QED  BY <3>1, <3>2 DEF Stays
  <2>2. MinuteOf(t) = slots[i].minute + Jitter(i, t) /\ last_fire[i] # t
    BY <1>1, <1>3 DEF OnTime, NotFired
  <2>3. last_fire'[i] = t /\ fired'[i] = Append(fired[i], t)
    BY <1>1, <1>3 DEF Fire, TimerInv, TypeOK
  <2>4. slots'[i] = IF slots[i].repeat THEN slots[i] ELSE [slots[i] EXCEPT !.arm = FALSE]
    BY <1>1, <1>3 DEF Fire, TimerInv, TypeOK
  <2>5. Fires(i)
    BY <1>3, <2>2, <2>3, <2>4 DEF Fires
  <2>6. QED  BY <2>1, <2>5
<1>4. QED  BY <1>2, <1>3, Zenon DEF SweepSlot

LEMMA RebootSlot ==
  ASSUME TimerInv, Reboot, NEW d \in Slot
  PROVE  Stays(d) \/ fired'[d] = <<>>
<1>1. CASE slots[d].repeat \/ lost
  BY <1>1 DEF Reboot
<1>2. CASE ~slots[d].repeat /\ ~lost
  <2>1. fired'[d] = fired[d]
    BY <1>2 DEF Reboot
  <2>2. slots'[d] = slots[d]
    BY <1>2 DEF Reboot, TimerInv, SavedInv
  <2>3. QED  BY <1>2, <2>1, <2>2 DEF Stays
<1>3. QED  BY <1>1, <1>2

\* Every step leaves a slot alone, empties its history or fires it.
LEMMA SlotStep ==
  ASSUME TimerInv, [Next]_vars, NEW d \in Slot
  PROVE  \/ Stays(d)
         \/ fired'[d] = <<>>
         \/ SweepSlot /\ Fires(d)
<1>1. CASE \E i \in Slot : Clear(i) \/ \E s \in Config : Set(i, s)
  BY <1>1, SetSlot DEF Clear
<1>2. CASE SweepSlot
  BY <1>2, SweepOneSlot
<1>3. CASE Reboot
  BY <1>3, RebootSlot
<1>4. CASE SetMaster \/ Wake \/ TakeLock \/ Tick \/ Sync \/ ClockStep \/ UNCHANGED vars
  BY <1>4 DEF SetMaster, Wake, TakeLock, Tick, Sync, ClockStep, vars, config, Stays
<1>5. QED  BY <1>1, <1>2, <1>3, <1>4 DEF Next

LEMMA CachedStep ==
  ASSUME TimerInv, [Next]_vars
  PROVE  Cached'
<1>1. ASSUME NEW i \in Slot, NEW s, Set(i, s)
      PROVE  Cached'
  <2>1. jitter'[i].day = NoDay
    BY <1>1 DEF Set, TimerInv, TypeOK, JitterType
  <2>2. \A d \in Slot \ {i} : jitter'[d] = jitter[d] /\ slots'[d] = slots[d]
    BY <1>1 DEF Set, Store, TimerInv, TypeOK
  <2>3. QED  BY <2>1, <2>2 DEF TimerInv, Cached
<1>2. CASE SweepSlot
  <2> DEFINE i == sweep.at  t == sweep.now
  <2>1. i \in Slot /\ JitterOf(i, t) = Jitter(i, t)
    BY <1>2, SweepAtSlot
  <2>2. \A d \in Slot : slots'[d].window = slots[d].window
    <3>1. \A x \in StoredSlot : [x EXCEPT !.arm = FALSE].window = x.window
      BY DEF StoredSlot
    <3>2. \A d \in Slot : slots[d] \in StoredSlot
      BY DEF TimerInv, TypeOK
    <3>3. QED  BY <1>2, <3>1, <3>2, SweepOneSlot DEF Stays, Fires
  <2>3. \/ jitter' = jitter
        \/ jitter' = [jitter EXCEPT ![i] = [day |-> DayOf(t), minutes |-> Jitter(i, t)]]
    BY <1>2, <2>1 DEF SweepSlot
  <2>4. \A d \in Slot : \/ jitter'[d] = jitter[d]
                        \/ jitter'[d].minutes =
                             (Hash(d, jitter'[d].day) % (2 * slots[d].window + 1)) - slots[d].window
    BY <2>1, <2>3 DEF TimerInv, TypeOK, Jitter
  <2>5. QED  BY <2>2, <2>4 DEF TimerInv, Cached
<1>3. CASE Reboot
  BY <1>3 DEF Reboot, Cached, NoJitter
<1>4. CASE SetMaster \/ Wake \/ TakeLock \/ Tick \/ Sync \/ ClockStep \/ UNCHANGED vars
  BY <1>4 DEF SetMaster, Wake, TakeLock, Tick, Sync, ClockStep, vars, config, TimerInv, Cached
<1>5. QED  BY <1>1, <1>2, <1>3, <1>4 DEF Next, Clear

LEMMA SavedStep ==
  ASSUME TimerInv, [Next]_vars
  PROVE  SavedInv'
<1>1. ASSUME Save(slots', master')
      PROVE  SavedInv'
  BY <1>1, Zenon DEF Save, SavedInv
<1>2. ASSUME UNCHANGED config
      PROVE  SavedInv'
  BY <1>2 DEF config, TimerInv, SavedInv
<1>3. ASSUME NEW i \in Slot, NEW s, Set(i, s)
      PROVE  SavedInv'
  BY <1>1, <1>3 DEF Set, Store
<1>4. CASE SetMaster
  BY <1>1, <1>4 DEF SetMaster
<1>5. CASE SweepSlot
  <2>1. CASE UNCHANGED <<slots, saved, lost>>
    BY <1>2, <1>5, <2>1 DEF SweepSlot, config
  <2>2. CASE Save(slots', master)
    BY <1>1, <1>5, <2>2 DEF SweepSlot
  <2>3. QED  BY <1>5, <2>1, <2>2, Zenon DEF SweepSlot, Fire
<1>6. CASE Reboot
  <2>1. saved = [slots |-> saved.slots, master |-> saved.master]
    BY DEF TimerInv, TypeOK, SavedType
  <2>2. QED  BY <1>6, <2>1 DEF Reboot, SavedInv
<1>7. CASE Wake \/ TakeLock \/ Tick \/ Sync \/ ClockStep \/ UNCHANGED vars
  BY <1>2, <1>7 DEF Wake, TakeLock, Tick, Sync, ClockStep, vars, config
<1>8. QED  BY <1>3, <1>4, <1>5, <1>6, <1>7 DEF Next, Clear

LEMMA TimerInvInit == Init => TimerInv
<1>1. Init => Cached
  BY DEF Init, Cached, NoJitter
<1>2. Init => SavedInv
  BY DEF Init, SavedInv
<1>3. QED  BY <1>1, <1>2, TypesInit DEF TimerInv

LEMMA TimerInvStep ==
  ASSUME TimerInv, [Next]_vars
  PROVE  TimerInv'
<1>1. TypeOK' /\ HeldInSweep'
  <2>1. CASE UNCHANGED vars
    BY <2>1 DEF vars, TimerInv, TypeOK, HeldInSweep
  <2>2. QED  BY <2>1, TypesStep DEF TimerInv
<1>2. QED  BY <1>1, CachedStep, SavedStep DEF TimerInv

-----------------------------------------------------------------------------
(* The window *)

LEMMA AppendFire ==
  ASSUME NEW f \in Seq(Times), NEW t \in Times
  PROVE  /\ DOMAIN f = 1..Len(f) /\ Len(f) \in Nat
         /\ DOMAIN Append(f, t) = 1..(Len(f) + 1)
         /\ \A k \in 1..Len(f) : Append(f, t)[k] = f[k] /\ f[k] \in Times
         /\ Append(f, t)[Len(f) + 1] = t
BY AppendProperties, LenProperties, ElementOfSeq

LEMMA SlotKept ==
  ASSUME TypeOK, NEW i \in Slot, slots'[i] = slots[i] \/ slots'[i] = [slots[i] EXCEPT !.arm = FALSE]
  PROVE  /\ slots'[i].minute = slots[i].minute
         /\ slots'[i].window = slots[i].window
         /\ slots'[i].days = slots[i].days
         /\ slots'[i].repeat = slots[i].repeat
<1>1. \A x \in StoredSlot : LET y == [x EXCEPT !.arm = FALSE] IN
        y.minute = x.minute /\ y.window = x.window /\ y.days = x.days /\ y.repeat = x.repeat
  BY DEF StoredSlot
<1>2. QED  BY <1>1 DEF TypeOK

\* A fire follows the slot as it is stored now: its day, its minute and its jitter.
FireRight(slot, i, t) ==
  /\ WeekdayOf(t) \in slot.days
  /\ MinuteOf(t) = slot.minute + ((Hash(i, DayOf(t)) % (2 * slot.window + 1)) - slot.window)

FiresRight == \A i \in Slot : \A k \in DOMAIN fired[i] : FireRight(slots[i], i, fired[i][k])

LEMMA FiresRightStep ==
  ASSUME TimerInv, FiresRight, [Next]_vars
  PROVE  FiresRight'
<1> SUFFICES ASSUME NEW i \in Slot, NEW k \in DOMAIN fired'[i]
             PROVE  FireRight(slots'[i], i, fired'[i][k])
  BY DEF FiresRight
<1>1. CASE Stays(i)
  BY <1>1 DEF Stays, FiresRight
<1>2. CASE fired'[i] = <<>>
  BY <1>2
<1>3. CASE SweepSlot /\ Fires(i)
  <2> DEFINE t == sweep.now  f == fired[i]
  <2>1. t \in Times /\ f \in Seq(Times)
    BY <1>3, SweepAtSlot DEF TimerInv, TypeOK
  <2>2. fired'[i] = Append(f, t) /\ FireRight(slots[i], i, t)
    BY <1>3 DEF Fires, FireRight, Eligible, Jitter
  <2>3. slots'[i] = slots[i] \/ slots'[i] = [slots[i] EXCEPT !.arm = FALSE]
    BY <1>3 DEF Fires
  <2>4. \A u : FireRight(slots[i], i, u) => FireRight(slots'[i], i, u)
    BY <2>3, SlotKept DEF TimerInv, FireRight
  <2>5. FireRight(slots[i], i, fired'[i][k])
    <3>1. k \in 1..Len(f) \/ k = Len(f) + 1
      BY <2>1, <2>2, AppendFire
    <3>2. CASE k = Len(f) + 1
      BY <2>1, <2>2, <3>2, AppendFire
    <3>3. CASE k \in 1..Len(f)
      <4>1. k \in DOMAIN f /\ fired'[i][k] = f[k]
        BY <2>1, <2>2, <3>3, AppendFire
      <4>2. QED  BY <4>1 DEF FiresRight
    <3>4. QED  BY <3>1, <3>2, <3>3
  <2>6. QED  BY <2>4, <2>5
<1>4. QED  BY <1>1, <1>2, <1>3, SlotStep

\* A slot fires only on a day it names and within the window around its minute,
\* as it is stored now: an edit leaves no jitter and no fire of the old slot behind.
THEOREM FiresStayInWindow == Spec => []FiresInWindow
<1>1. Init => FiresRight
  BY DEF Init, FiresRight
<1>2. TimerInv /\ FiresRight /\ [Next]_vars => TimerInv' /\ FiresRight'
  BY TimerInvStep, FiresRightStep
<1>3. TimerInv /\ FiresRight => FiresInWindow
  <2>1. SUFFICES ASSUME TimerInv, FiresRight, NEW i \in Slot, NEW k \in DOMAIN fired[i]
                 PROVE  LET t == fired[i][k] IN
                        /\ WeekdayOf(t) \in slots[i].days
                        /\ MinuteOf(t) - slots[i].minute \in (-slots[i].window)..slots[i].window
    BY DEF FiresInWindow
  <2>2. fired[i][k] \in Times /\ FireRight(slots[i], i, fired[i][k])
    BY <2>1, ElementOfSeq, LenProperties DEF TimerInv, TypeOK, FiresRight
  <2>3. Jitter(i, fired[i][k]) \in (-slots[i].window)..slots[i].window
    BY <2>1, <2>2, JitterWithin DEF TimerInv
  <2>4. slots[i].minute \in Nat /\ slots[i].window \in Nat
    BY <2>1, TimersAssumption DEF TimerInv, TypeOK, StoredSlot, Minute
  <2>5. QED  BY <2>2, <2>3, <2>4 DEF FireRight, Jitter
<1>4. QED  BY <1>1, <1>2, <1>3, TimerInvInit, PTL DEF Spec

-----------------------------------------------------------------------------
(* One fire a day *)

LEMMA SameLocal ==
  ASSUME NEW s \in Times, NEW t \in Times, Local(s) = Local(t)
  PROVE  \/ s = t
         \/ t = s + Shift /\ t \in Repeated /\ Shift > 0
         \/ s = t + Shift /\ s \in Repeated /\ Shift > 0
BY TimersAssumption DEF Local, Repeated, Times

\* A slot's fires on one day are at one local minute.
LEMMA SameDay ==
  ASSUME NEW slot, NEW i \in Slot, NEW s \in Times, NEW t \in Times,
         FireRight(slot, i, s), FireRight(slot, i, t), DayOf(s) = DayOf(t)
  PROVE  \/ s = t
         \/ t = s + Shift /\ t \in Repeated /\ Shift > 0
         \/ s = t + Shift /\ s \in Repeated /\ Shift > 0
<1>1. MinuteOf(s) = MinuteOf(t)
  BY DEF FireRight
<1>2. Local(s) = Local(t)
  BY <1>1, LocalTime
<1>3. QED  BY <1>2, SameLocal

\* On different days they are a day less two windows apart.
LEMMA DaysApart ==
  ASSUME TypeOK, SmallSteps, NEW i \in Slot, NEW s \in Times, NEW t \in Times,
         FireRight(slots[i], i, s), FireRight(slots[i], i, t), DayOf(s) < DayOf(t)
  PROVE  t >= s + (MinutesPerDay - 2 * WindowMax)
<1> DEFINE w == slots[i].window  m == slots[i].minute  day == MinutesPerDay
<1>1. /\ w \in Nat /\ w <= WindowMax /\ m \in Nat /\ WindowMax \in Nat
      /\ day \in Nat /\ Shift \in Nat /\ FallBack \in Nat
  BY TimersAssumption DEF TypeOK, StoredSlot, Minute
<1>2. /\ Jitter(i, s) \in (-w)..w /\ Jitter(i, t) \in (-w)..w
      /\ MinuteOf(s) = m + Jitter(i, s) /\ MinuteOf(t) = m + Jitter(i, t)
  BY JitterWithin DEF FireRight, Jitter
<1>3. /\ Local(s) = DayOf(s) * day + MinuteOf(s) /\ Local(t) = DayOf(t) * day + MinuteOf(t)
      /\ DayOf(s) \in Nat /\ DayOf(t) \in Nat /\ Local(s) \in Nat /\ Local(t) \in Nat
  BY LocalTime
<1>4. DayOf(t) * day >= DayOf(s) * day + day
  <2>1. \A a, b, c \in Nat : a < b => b * c >= a * c + c
    <3>1. SUFFICES ASSUME NEW a \in Nat, NEW b \in Nat, NEW c \in Nat, a < b
                   PROVE  b * c >= a * c + c
      OBVIOUS
    <3>2. PICK d \in Nat : b = a + 1 + d
      <4>1. b - a - 1 \in Nat /\ b = a + 1 + (b - a - 1)
        BY <3>1
      <4>2. QED  BY <4>1
    <3>3. b * c = a * c + c + d * c /\ d * c \in Nat
      BY <3>2
    <3>4. QED  BY <3>3
  <2>2. QED  BY <1>1, <1>3, <2>1
<1>5. MinuteOf(t) - MinuteOf(s) >= -(2 * WindowMax)
  <2> HIDE DEF w, m
  <2>1. QED  BY <1>1, <1>2
<1>6. MinuteOf(s) \in Nat /\ MinuteOf(t) \in Nat /\ DayOf(s) * day \in Nat /\ DayOf(t) * day \in Nat
  BY <1>1, <1>3, LocalTime DEF Minute
<1>7. Local(t) >= Local(s) + (day - 2 * WindowMax)
  BY <1>1, <1>3, <1>4, <1>5, <1>6
<1>8. QED  BY <1>1, <1>7 DEF Local, SmallSteps, Times

\* How far the clock has been stepped back at most.
Back == steps * StepMax

LEMMA BackBounds ==
  ASSUME TypeOK, SmallSteps
  PROVE  /\ Back \in Nat
         /\ Back < MinutesPerDay - 2 * WindowMax
         /\ Back > 0 => steps > 0
<1>1. steps \in Nat /\ steps <= StepsMax /\ StepMax \in Nat /\ StepsMax \in Nat
  BY TimersAssumption DEF TypeOK
<1>2. \A a, b, c \in Nat : a <= b => a * c \in Nat /\ b * c \in Nat /\ a * c <= b * c
  <2>1. SUFFICES ASSUME NEW a \in Nat, NEW b \in Nat, NEW c \in Nat, a <= b
                 PROVE  a * c \in Nat /\ b * c \in Nat /\ a * c <= b * c
    OBVIOUS
  <2>2. PICK d \in Nat : b = a + d
    <3>1. b - a \in Nat /\ b = a + (b - a)
      BY <2>1
    <3>2. QED  BY <3>1
  <2>3. b * c = a * c + d * c /\ d * c \in Nat /\ a * c \in Nat
    BY <2>2
  <2>4. QED  BY <2>3
<1>3. Back \in Nat /\ Back <= StepsMax * StepMax /\ StepsMax * StepMax \in Nat
  BY <1>1, <1>2 DEF Back
<1>4. steps = 0 => Back = 0
  BY <1>1 DEF Back
<1>5. QED  BY <1>1, <1>3, <1>4, TimersAssumption DEF SmallSteps

\* The clock has never been further ahead than it has been stepped back since:
\* no fire, and no sweep, is later than that.
NotAhead ==
  /\ sweep.at # 0 => sweep.now <= utc + Back
  /\ \A i \in Slot : \A k \in DOMAIN fired[i] :
       /\ fired[i][k] <= utc + Back
       /\ sweep.at # 0 => fired[i][k] <= sweep.now + Back
       /\ \A j \in 1..k : fired[i][j] <= fired[i][k] + Back

\* What a slot remembers of its fires.
Remembers(slot, last, f) ==
  /\ slot.repeat /\ f # <<>> => last = f[Len(f)]
  /\ ~slot.repeat => Len(f) <= 1 /\ (slot.arm => f = <<>>)

Twice(st, f, j, k) ==
  DayOf(f[j]) = DayOf(f[k]) =>
    \/ st > 0 /\ \E n \in DOMAIN f : f[n] \in Repeated
    \/ f[k] = f[j] + Shift /\ f[k] \in Repeated

DayInv ==
  /\ TimerInv /\ FiresRight /\ NotAhead
  /\ \A i \in Slot :
       /\ Remembers(slots[i], last_fire[i], fired[i])
       /\ \A k \in DOMAIN fired[i] : \A j \in 1..(k - 1) : Twice(steps, fired[i], j, k)

\* The clock never goes back further than it is stepped, and a sweep keeps its time.
LEMMA ClockMoves ==
  ASSUME TimerInv, [Next]_vars
  PROVE  /\ Back \in Nat /\ Back' \in Nat /\ Back <= Back'
         /\ utc \in Nat /\ utc' \in Nat /\ utc + Back <= utc' + Back'
         /\ sweep'.at # 0 => \/ sweep'.now = utc
                             \/ sweep.at # 0 /\ sweep'.now = sweep.now
<1>1. utc \in Nat /\ utc' \in Nat /\ steps \in Nat /\ StepMax \in Nat /\ sweep \in SweepType
  BY TimerInvStep, TimersAssumption DEF TimerInv, TypeOK
<1>2. steps * StepMax \in Nat /\ (steps + 1) * StepMax = steps * StepMax + StepMax
  BY <1>1
<1>3. CASE ClockStep
  <2>1. steps' = steps + 1 /\ utc' - utc \in (-StepMax)..StepMax /\ sweep' = sweep
    BY <1>3 DEF ClockStep
  <2>2. Back' = Back + StepMax /\ Back \in Nat
    BY <1>1, <1>2, <2>1 DEF Back
  <2>3. \A a, b, c \in Nat : b - a \in (-c)..c => a <= b + c
    BY SMT
  <2>4. \A a, b, c, d \in Nat : a <= b + c => a + d <= b + (d + c) /\ d <= d + c /\ d + c \in Nat
    BY SMT
  <2>5. utc + Back <= utc' + Back' /\ Back <= Back' /\ Back' \in Nat
    <3>1. utc <= utc' + StepMax
      BY <1>1, <2>1, <2>3
    <3>2. utc + Back <= utc' + (Back + StepMax) /\ Back <= Back + StepMax /\ Back + StepMax \in Nat
      BY <1>1, <2>2, <2>4, <3>1
    <3>3. QED  BY <2>2, <3>2
  <2>6. QED  BY <1>1, <2>1, <2>2, <2>5
<1>4. CASE Tick
  BY <1>1, <1>2, <1>4 DEF Tick, Back
<1>5. CASE UNCHANGED <<utc, steps>>
  <2>1. /\ Back' = Back /\ utc' = utc
    BY <1>5 DEF Back
  <2>2. ASSUME UNCHANGED sweep \/ sweep' = Idle
        PROVE  sweep'.at # 0 => sweep.at # 0 /\ sweep'.now = sweep.now
    BY <2>2 DEF Idle
  <2>3. CASE Wake
    BY <1>1, <1>2, <2>1, <2>3 DEF Wake, Idle, Back
  <2>4. CASE TakeLock \/ SweepSlot
    <3>1. /\ \A a : [sweep EXCEPT !.at = a].now = sweep.now
          /\ [sweep EXCEPT !.held = TRUE].now = sweep.now
          /\ [sweep EXCEPT !.held = TRUE].at = sweep.at
      BY <1>1 DEF SweepType
    <3>2. sweep.at \in Slot
      BY <2>4, TimersAssumption DEF TakeLock, SweepSlot, TimerInv, HeldInSweep, Slot
    <3>3. \/ sweep' = Idle
          \/ sweep' = [sweep EXCEPT !.held = TRUE]
          \/ sweep.at < NSlots /\ sweep' = [sweep EXCEPT !.at = sweep.at + 1]
      BY <2>4, Zenon DEF TakeLock, SweepSlot
    <3>4. sweep'.at # 0 => sweep.at # 0 /\ sweep'.now = sweep.now
      <4>1. CASE sweep' = Idle
        BY <2>2, <4>1
      <4>2. CASE sweep' # Idle
        <5>1. sweep'.now = sweep.now
          BY <3>1, <3>3, <4>2
        <5>2. sweep.at # 0
          BY <3>2, TimersAssumption DEF Slot
        <5>3. QED  BY <5>1, <5>2
      <4>3. QED  BY <4>1, <4>2
    <3>5. QED  BY <1>1, <1>2, <2>1, <3>4 DEF Back
  <2>5. CASE \/ \E i \in Slot : Clear(i) \/ \E s \in Config : Set(i, s)
             \/ SetMaster \/ Sync \/ Reboot \/ UNCHANGED vars
    <3>1. UNCHANGED sweep \/ sweep' = Idle
      BY <2>5 DEF Clear, Set, Store, SetMaster, Sync, Reboot, vars, task
    <3>2. QED  BY <1>1, <1>2, <2>1, <2>2, <3>1 DEF Back
  <2>6. CASE Tick \/ ClockStep
    BY <1>3, <1>4, <2>6
  <2>7. QED  BY <2>3, <2>4, <2>5, <2>6 DEF Next
<1>6. QED
  <2>1. ClockStep \/ Tick \/ UNCHANGED <<utc, steps>>
    BY DEF Next, Clear, Set, Store, SetMaster, Wake, TakeLock, SweepSlot, Sync, Reboot, vars, clock
  <2>2. QED  BY <1>3, <1>4, <1>5, <2>1

LEMMA NotAheadStep ==
  ASSUME TimerInv, NotAhead, [Next]_vars
  PROVE  NotAhead'
<1> USE ClockMoves
<1>2. sweep.now \in Nat /\ (sweep'.at # 0 => sweep'.now \in Nat)
  BY DEF TimerInv, TypeOK, SweepType, Times
<1>1. sweep'.at # 0 => sweep'.now <= utc' + Back'
  BY <1>2 DEF NotAhead
<1>3. SUFFICES ASSUME NEW i \in Slot, NEW k \in DOMAIN fired'[i]
               PROVE  /\ fired'[i][k] <= utc' + Back'
                      /\ sweep'.at # 0 => fired'[i][k] <= sweep'.now + Back'
                      /\ \A j \in 1..k : fired'[i][j] <= fired'[i][k] + Back'
  BY <1>1 DEF NotAhead
<1> DEFINE f == fired[i]
<1>4. /\ f \in Seq(Times) /\ DOMAIN f = 1..Len(f) /\ Len(f) \in Nat
      /\ \A n \in 1..Len(f) : f[n] \in Nat
  <2>1. f \in Seq(Times)
    BY DEF TimerInv, TypeOK
  <2>2. \A n \in 1..Len(f) : f[n] \in Times
    BY <2>1, ElementOfSeq
  <2>3. QED  BY <2>1, <2>2, LenProperties DEF Times
<1>5. ASSUME NEW n \in 1..Len(f)
      PROVE  /\ f[n] <= utc' + Back'
             /\ sweep'.at # 0 => f[n] <= sweep'.now + Back'
             /\ \A j \in 1..n : f[j] <= f[n] + Back'
  <2>1. /\ f[n] <= utc + Back
        /\ sweep.at # 0 => f[n] <= sweep.now + Back
        /\ \A j \in 1..n : f[j] <= f[n] + Back
    BY <1>4 DEF NotAhead
  <2>2. f[n] \in Nat /\ \A j \in 1..n : f[j] \in Nat
    <3> HIDE DEF f
    <3>1. \A j \in 1..n : j \in 1..Len(f)
      BY <1>4
    <3>2. QED  BY <1>4, <3>1
  <2> HIDE DEF f
  <2>3. \A j \in 1..n : f[j] <= f[n] + Back'
    <3>1. \A a, b, c, d \in Nat : a <= b + c /\ c <= d => a <= b + d
      OBVIOUS
    <3>2. QED  BY <2>1, <2>2, <3>1
  <2>4. f[n] <= utc' + Back'
    BY <1>4, <2>1
  <2>5. sweep'.at # 0 => f[n] <= sweep'.now + Back'
    BY <1>2, <1>4, <2>1
  <2>6. QED  BY <2>3, <2>4, <2>5
<1>6. CASE Stays(i)
  BY <1>3, <1>4, <1>5, <1>6 DEF Stays
<1>7. CASE fired'[i] = <<>>
  BY <1>3, <1>7
<1>8. CASE SweepSlot /\ Fires(i)
  <2> DEFINE t == sweep.now
  <2>1. t \in Times /\ t \in Nat /\ sweep.at # 0
    BY <1>2, <1>8, SweepAtSlot DEF Slot
  <2>2. fired'[i] = Append(f, t)
    BY <1>8 DEF Fires
  <2>3. DOMAIN fired'[i] = 1..(Len(f) + 1) /\ fired'[i][Len(f) + 1] = t
    BY <1>4, <2>1, <2>2, AppendFire
  <2>4. \A n \in 1..Len(f) : fired'[i][n] = f[n]
    BY <1>4, <2>1, <2>2, AppendFire
  <2>5. CASE k \in 1..Len(f)
    BY <1>4, <1>5, <2>4, <2>5
  <2>6. CASE k = Len(f) + 1
    <3>1. t <= utc + Back
      BY <2>1 DEF NotAhead
    <3>2. t <= utc' + Back'
      BY <2>1, <3>1
    <3>3. sweep'.at # 0 => sweep'.now = t
      <4>1. sweep'.at = 0 \/ sweep'.now = sweep.now
        <5>1. sweep \in SweepType
          BY DEF TimerInv, TypeOK
        <5>2. \A a \in 0..NSlots : [sweep EXCEPT !.at = a].now = sweep.now
          BY <5>1 DEF SweepType
        <5>3. \/ sweep' = Idle
              \/ sweep' = [sweep EXCEPT !.at = sweep.at + 1]
          BY <1>8, Zenon DEF SweepSlot
        <5>4. QED  BY <5>1, <5>3 DEF Idle, SweepType
      <4>2. QED  BY <4>1
    <3>4. \A j \in 1..Len(f) : f[j] <= t + Back
      BY <1>4, <2>1 DEF NotAhead
    <3>5. \A j \in 1..k : fired'[i][j] <= t + Back'
      <4>1. \A j \in 1..Len(f) : f[j] <= t + Back'
        BY <1>4, <2>1, <3>4
      <4> HIDE DEF f, t
      <4>2. QED  BY <1>4, <2>1, <2>3, <2>4, <2>6, <4>1
    <3> HIDE DEF t, f
    <3>6. QED  BY <2>1, <2>3, <2>6, <3>2, <3>3, <3>5
  <2>7. QED  BY <1>3, <1>4, <2>3, <2>5, <2>6
<1>9. QED  BY <1>6, <1>7, <1>8, SlotStep

LEMMA RemembersStep ==
  ASSUME TimerInv, [Next]_vars, NEW i \in Slot, Remembers(slots[i], last_fire[i], fired[i])
  PROVE  Remembers(slots'[i], last_fire'[i], fired'[i])
<1> DEFINE f == fired[i]
<1>1. f \in Seq(Times)
  BY DEF TimerInv, TypeOK
<1>2. CASE Stays(i)
  BY <1>2 DEF Stays, Remembers
<1>3. CASE fired'[i] = <<>>
  <2>1. Len(<<>>) = 0
    BY EmptySeq
  <2>2. QED  BY <1>3, <2>1 DEF Remembers
<1>4. CASE SweepSlot /\ Fires(i)
  <2> DEFINE t == sweep.now
  <2>1. t \in Times
    BY <1>4, SweepAtSlot
  <2>2. fired'[i] = Append(f, t) /\ last_fire'[i] = t /\ slots[i].arm
    BY <1>4 DEF Fires, Eligible
  <2>3. Len(Append(f, t)) = Len(f) + 1 /\ Append(f, t)[Len(f) + 1] = t
    BY <1>1, <2>1, AppendProperties
  <2>4. CASE slots[i].repeat
    BY <1>4, <2>2, <2>3, <2>4 DEF Fires, Remembers
  <2>5. CASE ~slots[i].repeat
    <3>1. f = <<>> /\ Len(f) = 0
      BY <2>2, <2>5, EmptySeq DEF Remembers
    <3>2. slots'[i] = [slots[i] EXCEPT !.arm = FALSE]
      BY <1>4, <2>5 DEF Fires
    <3>3. \A x \in StoredSlot : LET y == [x EXCEPT !.arm = FALSE] IN y.arm = FALSE /\ y.repeat = x.repeat
      BY DEF StoredSlot
    <3>4. slots'[i].arm = FALSE /\ ~slots'[i].repeat
      BY <2>5, <3>2, <3>3 DEF TimerInv, TypeOK
    <3>5. QED  BY <2>2, <2>3, <3>1, <3>4 DEF Remembers
  <2>6. QED  BY <2>4, <2>5
<1>5. QED  BY <1>2, <1>3, <1>4, SlotStep

\* The heart of it: the sweep does not fire a slot a second time on a day.
LEMMA NoSecondFire ==
  ASSUME DayInv, SmallSteps, NEW i \in Slot, SweepSlot, Fires(i),
         NEW j \in DOMAIN fired[i], DayOf(fired[i][j]) = DayOf(sweep.now)
  PROVE  \/ steps > 0 /\ \E n \in DOMAIN fired[i] : fired[i][n] \in Repeated
         \/ sweep.now = fired[i][j] + Shift /\ sweep.now \in Repeated
<1> DEFINE f == fired[i]  t == sweep.now  s == f[j]  n == Len(f)  u == f[n]
           day == MinutesPerDay - 2 * WindowMax
<1>1. /\ f \in Seq(Times) /\ DOMAIN f = 1..n /\ n \in Nat /\ t \in Times /\ sweep.at # 0
      /\ j \in 1..n /\ n \in 1..n
  <2>1. f \in Seq(Times)
    BY DEF DayInv, TimerInv, TypeOK
  <2>2. DOMAIN f = 1..n /\ n \in Nat
    BY <2>1, LenProperties
  <2>3. t \in Times /\ sweep.at # 0
    BY SweepAtSlot DEF DayInv, Slot
  <2>4. QED  BY <2>1, <2>2, <2>3
<1>2. s \in Times /\ u \in Times
  BY <1>1, ElementOfSeq
<1>3. FireRight(slots[i], i, s) /\ FireRight(slots[i], i, t) /\ FireRight(slots[i], i, u)
  BY <1>1 DEF DayInv, FiresRight, FireRight, Fires, Eligible, Jitter
<1>4. u # t
  <2>1. f # <<>>
    BY <1>1, EmptySeq
  <2>2. slots[i].arm /\ last_fire[i] # t /\ Remembers(slots[i], last_fire[i], f)
    BY DEF Fires, Eligible, DayInv
  <2>3. QED  BY <2>1, <2>2 DEF Remembers
<1>5. s <= t + Back /\ u <= t + Back /\ s <= u + Back
  BY <1>1 DEF DayInv, NotAhead
<1>6. Back \in Nat /\ Back < day /\ (Back > 0 => steps > 0) /\ TypeOK
  BY BackBounds DEF DayInv, TimerInv
<1>7. /\ s \in Nat /\ t \in Nat /\ u \in Nat /\ Shift \in Nat /\ day \in Int
      /\ DayOf(t) \in Nat /\ DayOf(u) \in Nat
  <2>1. DayOf(t) \in Nat /\ DayOf(u) \in Nat
    BY <1>1, <1>2, LocalTime
  <2>2. Times \subseteq Nat
    BY DEF Times
  <2>3. Shift \in Nat /\ day \in Int
    BY TimersAssumption
  <2>4. QED  BY <1>1, <1>2, <2>1, <2>2, <2>3
<1>8. CASE t = s + Shift /\ t \in Repeated
  BY <1>8
<1>9. CASE s = t + Shift /\ s \in Repeated /\ Shift > 0
  <2>1. steps > 0
    BY <1>5, <1>6, <1>7, <1>9
  <2>2. QED  BY <1>1, <1>9, <2>1
<1>10. CASE s = t
  <2>1. CASE DayOf(u) = DayOf(t)
    <3>1. \/ t = u + Shift /\ t \in Repeated /\ Shift > 0
          \/ u = t + Shift /\ u \in Repeated /\ Shift > 0
      BY <1>1, <1>2, <1>3, <1>4, <2>1, SameDay
    <3>2. steps > 0
      <4> HIDE DEF f, t, s, u, n, day
      <4>1. QED  BY <1>5, <1>6, <1>7, <1>10, <3>1
    <3>3. QED  BY <1>1, <1>10, <3>1, <3>2
  <2>2. CASE DayOf(t) < DayOf(u)
    <3>1. u >= t + day
      BY <1>1, <1>2, <1>3, <1>6, <2>2, DaysApart
    <3>2. FALSE
      <4> HIDE DEF f, t, s, u, n, day
      <4>1. QED  BY <1>5, <1>6, <1>7, <3>1
    <3>3. QED  BY <3>2
  <2>3. CASE DayOf(u) < DayOf(t)
    <3>1. t >= u + day
      BY <1>1, <1>2, <1>3, <1>6, <2>3, DaysApart
    <3>2. FALSE
      <4> HIDE DEF f, t, s, u, n, day
      <4>1. QED  BY <1>5, <1>6, <1>7, <1>10, <3>1
    <3>3. QED  BY <3>2
  <2>4. QED  BY <1>7, <2>1, <2>2, <2>3
<1>11. QED
  BY <1>1, <1>2, <1>3, <1>8, <1>9, <1>10, SameDay

LEMMA DayInvStep ==
  ASSUME DayInv, SmallSteps, [Next]_vars
  PROVE  DayInv'
<1>1. TimerInv /\ TimerInv' /\ FiresRight' /\ NotAhead'
  BY TimerInvStep, FiresRightStep, NotAheadStep DEF DayInv
<1>2. \A i \in Slot : Remembers(slots'[i], last_fire'[i], fired'[i])
  BY <1>1, RemembersStep DEF DayInv
<1>3. ASSUME NEW i \in Slot, NEW k \in DOMAIN fired'[i], NEW j \in 1..(k - 1)
      PROVE  Twice(steps', fired'[i], j, k)
  <2> DEFINE f == fired[i]
  <2>1. steps \in Nat /\ steps' \in Nat /\ steps <= steps'
    <3>1. steps \in Nat /\ steps' \in Nat
      BY <1>1 DEF TimerInv, TypeOK
    <3>2. steps' = steps \/ steps' = steps + 1
      BY DEF Next, Clear, Set, Store, SetMaster, Wake, TakeLock, SweepSlot, Tick, Sync,
             ClockStep, Reboot, vars, clock
    <3>3. QED  BY <3>1, <3>2
  <2>2. f \in Seq(Times) /\ DOMAIN f = 1..Len(f) /\ Len(f) \in Nat
    BY <1>1, LenProperties DEF TimerInv, TypeOK
  <2>3. \A m \in DOMAIN f : \A l \in 1..(m - 1) : Twice(steps, f, l, m)
    BY DEF DayInv
  <2>4. CASE Stays(i)
    <3>1. fired'[i] = f
      BY <2>4 DEF Stays
    <3>2. Twice(steps, f, j, k)
      BY <1>3, <2>3, <3>1
    <3> HIDE DEF f
    <3>3. QED  BY <2>1, <3>1, <3>2 DEF Twice
  <2>5. CASE fired'[i] = <<>>
    BY <1>3, <2>5
  <2>6. CASE SweepSlot /\ Fires(i)
    <3> DEFINE t == sweep.now  g == fired'[i]
    <3>1. t \in Times /\ g = Append(f, t)
      BY <1>1, <2>6, SweepAtSlot DEF Fires
    <3>2. /\ DOMAIN g = 1..(Len(f) + 1) /\ g[Len(f) + 1] = t
          /\ \A m \in 1..Len(f) : g[m] = f[m]
      BY <2>2, <3>1, AppendFire
    <3>3. (\E n \in DOMAIN f : f[n] \in Repeated) => \E n \in DOMAIN g : g[n] \in Repeated
      <4> SUFFICES ASSUME NEW n \in DOMAIN f, f[n] \in Repeated
                   PROVE  \E m \in DOMAIN g : g[m] \in Repeated
        OBVIOUS
      <4>1. n \in DOMAIN g /\ g[n] = f[n]
        BY <2>2, <3>2
      <4>2. QED  BY <4>1
    <3>4. CASE k \in 1..Len(f)
      <4>1. j \in 1..Len(f) /\ g[j] = f[j] /\ g[k] = f[k]
        BY <1>3, <2>2, <3>2, <3>4
      <4>2. Twice(steps, f, j, k)
        BY <1>3, <2>2, <2>3, <3>4
      <4> HIDE DEF f, g
      <4>3. Twice(steps', g, j, k)
        BY <2>1, <3>3, <4>1, <4>2 DEF Twice
      <4>4. QED  BY <4>3 DEF g
    <3>5. CASE k = Len(f) + 1
      <4>1. j \in DOMAIN f /\ g[j] = f[j] /\ g[k] = t
        BY <1>3, <2>2, <3>2, <3>5
      <4>2. DayOf(f[j]) = DayOf(t) =>
              \/ steps > 0 /\ \E n \in DOMAIN f : f[n] \in Repeated
              \/ t = f[j] + Shift /\ t \in Repeated
        BY <2>6, <4>1, NoSecondFire
      <4> HIDE DEF f, g, t
      <4>3. Twice(steps', g, j, k)
        BY <2>1, <3>3, <4>1, <4>2 DEF Twice
      <4>4. QED  BY <4>3 DEF g
    <3>6. QED  BY <2>2, <3>2, <3>4, <3>5
  <2>7. QED  BY <1>1, <2>4, <2>5, <2>6, SlotStep
<1>4. QED  BY <1>1, <1>2, <1>3 DEF DayInv

\* A slot fires once on a local day, twice only where the local time is repeated; the
\* clock may be stepped by less than the time from one day's fires to the next day's.
\* And a slot in once-mode fires once.
THEOREM OneFireADay ==
  ASSUME SmallSteps
  PROVE  Spec => []OncePerLocalDay
<1>1. Init => DayInv
  <2>1. Init => FiresRight /\ NotAhead
    BY DEF Init, FiresRight, NotAhead, Idle
  <2>2. Init => \A i \in Slot : Remembers(slots[i], last_fire[i], fired[i])
    <3>1. Len(<<>>) = 0
      BY EmptySeq
    <3>2. QED  BY <3>1 DEF Init, Remembers
  <2>3. Init => \A i \in Slot : \A k \in DOMAIN fired[i] : \A j \in 1..(k - 1) :
                  Twice(steps, fired[i], j, k)
    BY DEF Init
  <2>4. QED  BY <2>1, <2>2, <2>3, TimerInvInit DEF DayInv
<1>2. DayInv /\ [Next]_vars => DayInv'
  BY DayInvStep
<1>3. DayInv => OncePerLocalDay
  <2> SUFFICES ASSUME DayInv, NEW i \in Slot
               PROVE  /\ \A j, k \in DOMAIN fired[i] :
                           j # k /\ DayOf(fired[i][j]) = DayOf(fired[i][k]) =>
                             \/ steps > 0 /\ \E n \in DOMAIN fired[i] : fired[i][n] \in Repeated
                             \/ j < k /\ fired[i][k] = fired[i][j] + Shift /\ fired[i][k] \in Repeated
                             \/ k < j /\ fired[i][j] = fired[i][k] + Shift /\ fired[i][j] \in Repeated
                      /\ slots[i].repeat \/ Len(fired[i]) <= 1
    BY DEF OncePerLocalDay
  <2> DEFINE f == fired[i]
  <2>1. DOMAIN f = 1..Len(f) /\ Len(f) \in Nat
    BY LenProperties DEF DayInv, TimerInv, TypeOK
  <2>2. ASSUME NEW j \in DOMAIN f, NEW k \in DOMAIN f, j < k
        PROVE  Twice(steps, f, j, k)
    <3>1. j \in 1..(k - 1)
      BY <2>1, <2>2
    <3>2. QED  BY <3>1 DEF DayInv
  <2>3. slots[i].repeat \/ Len(f) <= 1
    BY DEF DayInv, Remembers
  <2>4. \A j, k \in DOMAIN f : j # k => j < k \/ k < j
    BY <2>1
  <2>5. QED  BY <2>2, <2>3, <2>4 DEF Twice
<1>4. QED  BY <1>1, <1>2, <1>3, PTL DEF Spec

-----------------------------------------------------------------------------
(* No slot is missed *)

\* The time has come for the slot.
Due(slot, i, t) == slot.arm /\ FireRight(slot, i, t)

LEMMA DueIsOnTime ==
  ASSUME NEW i \in Slot, NEW t \in Times
  PROVE  Due(slots[i], i, t) <=> Eligible(i, t) /\ OnTime(i, t, Jitter(i, t))
BY LocalTime DEF Due, FireRight, Eligible, OnTime, Jitter

\* A sweep leaves nothing due behind it, and nothing is due when the turn of a quiet
\* minute is over; no sweep of an earlier minute is then still under way.
DueInv ==
  /\ TimerInv
  /\ sweep.held => \A i \in 1..(sweep.at - 1) :
                     Due(slots[i], i, sweep.now) => last_fire[i] = sweep.now
  /\ quiet /\ master /\ turned => \A i \in Slot : Due(slots[i], i, utc) => last_fire[i] = utc
  /\ quiet /\ sweep.at # 0 /\ sweep.now # utc => ~turned
  /\ quiet => synced

\* A sweep fires the slot it is at when it is due, and makes no other slot due.
LEMMA SweepDue ==
  ASSUME TimerInv, SweepSlot, NEW i \in Slot, NEW t \in Times, Due(slots'[i], i, t)
  PROVE  /\ Due(slots[i], i, t)
         /\ i = sweep.at /\ t = sweep.now => last_fire'[i] = t
         /\ i # sweep.at => last_fire'[i] = last_fire[i]
<1>1. slots'[i] = slots[i] \/ slots'[i] = [slots[i] EXCEPT !.arm = FALSE]
  BY SweepOneSlot DEF Stays, Fires
<1>2. slots[i] \in StoredSlot
  BY DEF TimerInv, TypeOK
<1>3. slots'[i] = slots[i]
  <2>1. \A x \in StoredSlot : ~[x EXCEPT !.arm = FALSE].arm
    BY DEF StoredSlot
  <2>2. slots'[i].arm
    BY DEF Due
  <2>3. QED  BY <1>1, <1>2, <2>1, <2>2
<1>4. Due(slots[i], i, t)
  BY <1>3
<1>5. i # sweep.at => last_fire'[i] = last_fire[i]
  BY SweepAtSlot DEF SweepSlot, Fire, TimerInv, TypeOK
<1>6. ASSUME i = sweep.at, t = sweep.now
      PROVE  last_fire'[i] = t
  <2>1. Eligible(i, t) /\ OnTime(i, t, JitterOf(i, t))
    BY <1>4, <1>6, DueIsOnTime, SweepAtSlot
  <2>2. CASE NotFired(i, t)
    <3>1. Fire(i, t)
      BY <1>6, <2>1, <2>2 DEF SweepSlot
    <3>2. QED  BY <3>1 DEF Fire, TimerInv, TypeOK
  <2>3. CASE ~NotFired(i, t)
    BY <1>6, <2>1, <2>3 DEF SweepSlot, NotFired
  <2>4. QED  BY <2>2, <2>3
<1>7. QED  BY <1>4, <1>5, <1>6

LEMMA DueSweepStep ==
  ASSUME DueInv, SweepSlot
  PROVE  DueInv'
<1> DEFINE a == sweep.at  t == sweep.now
<1>1. /\ TimerInv /\ TimerInv'
      /\ a \in Slot /\ a \in Nat /\ t \in Times /\ utc \in Times /\ NSlots \in Nat
      /\ sweep.held /\ sweep \in SweepType
  <2>1. TimerInv /\ TimerInv'
    BY TimerInvStep DEF DueInv, Next
  <2>2. a \in Slot /\ t \in Times /\ sweep.held
    BY <2>1, SweepAtSlot DEF SweepSlot
  <2>3. utc \in Times /\ sweep \in SweepType
    BY <2>1 DEF TimerInv, TypeOK, Times
  <2>4. a \in Nat /\ NSlots \in Nat
    BY <2>2, TimersAssumption DEF Slot
  <2>5. QED  BY <2>1, <2>2, <2>3, <2>4
<1>2. UNCHANGED <<master, utc, synced, quiet>>
  BY DEF SweepSlot, clock
<1>3. /\ sweep'.held => a < NSlots /\ sweep'.at = a + 1 /\ sweep'.now = t /\ turned' = turned
      /\ ~sweep'.held => sweep'.at = 0 /\ turned' = (turned \/ t = utc) /\ a = NSlots
  <2>1. /\ [sweep EXCEPT !.at = a + 1].at = a + 1
        /\ [sweep EXCEPT !.at = a + 1].now = t
        /\ [sweep EXCEPT !.at = a + 1].held
    BY <1>1 DEF SweepType
  <2>2. CASE a < NSlots
    BY <1>1, <2>1, <2>2 DEF SweepSlot
  <2>3. CASE ~(a < NSlots)
    BY <1>1, <2>3 DEF SweepSlot, Idle, Slot
  <2>4. QED  BY <2>2, <2>3
<1>4. \A i \in 1..a : Due(slots'[i], i, t) => last_fire'[i] = t
  <2> SUFFICES ASSUME NEW i \in 1..a, Due(slots'[i], i, t)
               PROVE  last_fire'[i] = t
    OBVIOUS
  <2>1. i \in Slot /\ (i = a \/ i \in 1..(a - 1))
    BY <1>1 DEF Slot
  <2>2. QED  BY <1>1, <2>1, SweepDue DEF DueInv
<1>5. sweep'.held => \A i \in 1..(sweep'.at - 1) :
                       Due(slots'[i], i, sweep'.now) => last_fire'[i] = sweep'.now
  BY <1>1, <1>3, <1>4
<1>6. ASSUME quiet', master', turned', NEW i \in Slot, Due(slots'[i], i, utc')
      PROVE  last_fire'[i] = utc'
  <2>1. quiet /\ master /\ utc' = utc
    BY <1>2, <1>6
  <2>2. CASE t = utc
    <3>1. CASE i = a
      BY <1>1, <1>6, <2>1, <2>2, <3>1, SweepDue
    <3>2. CASE i # a /\ turned
      BY <1>1, <1>6, <2>1, <3>2, SweepDue DEF DueInv
    <3>3. CASE i # a /\ ~turned
      <4>1. i \in 1..a
        BY <1>1, <1>3, <1>6, <3>3 DEF Slot
      <4>2. QED  BY <1>4, <1>6, <2>1, <2>2, <4>1
    <3>4. QED  BY <3>1, <3>2, <3>3
  <2>3. CASE t # utc
    <3>1. ~turned
      BY <1>1, <2>1, <2>3 DEF DueInv, Slot
    <3>2. ~turned'
      BY <1>3, <2>3, <3>1
    <3>3. QED  BY <1>6, <3>2
  <2>4. QED  BY <2>2, <2>3
<1>7. quiet' /\ sweep'.at # 0 /\ sweep'.now # utc' => ~turned'
  BY <1>1, <1>2, <1>3 DEF DueInv, Slot
<1>8. QED  BY <1>1, <1>2, <1>5, <1>6, <1>7 DEF DueInv

LEMMA DueInvStep ==
  ASSUME DueInv, [Next]_vars
  PROVE  DueInv'
<1>1. TimerInv /\ TimerInv'
  BY TimerInvStep DEF DueInv
<1>2. ASSUME NEW i \in Slot, NEW s, Set(i, s)
      PROVE  DueInv'
  BY <1>1, <1>2 DEF Set, Store, Unlocked, task, DueInv
<1>3. CASE SetMaster
  BY <1>1, <1>3 DEF SetMaster, Unlocked, task, DueInv
<1>4. CASE Wake
  <2>1. ~sweep'.held /\ (sweep'.at # 0 => sweep'.now = utc)
    BY <1>4 DEF Wake, Idle
  <2>2. master /\ turned' => turned
    BY <1>4 DEF Wake
  <2>3. UNCHANGED <<slots, master, last_fire, utc, synced, quiet>>
    BY <1>4 DEF Wake, config, clock
  <2>4. QED  BY <1>1, <2>1, <2>2, <2>3 DEF DueInv
<1>5. CASE TakeLock
  <2>1. sweep \in SweepType
    BY <1>1 DEF TimerInv, TypeOK
  <2>2. \/ ~sweep'.held /\ sweep'.at = 0
        \/ sweep'.at = 1 /\ sweep.at = 1 /\ sweep'.now = sweep.now
    BY <1>5, <2>1 DEF TakeLock, Idle, SweepType
  <2>3. UNCHANGED <<slots, master, last_fire, utc, synced, quiet, turned>>
    BY <1>5 DEF TakeLock, config, clock
  <2>4. QED  BY <1>1, <2>2, <2>3 DEF DueInv
<1>6. CASE SweepSlot
  BY <1>6, DueSweepStep
<1>7. CASE Tick
  BY <1>1, <1>7 DEF Tick, config, DueInv
<1>8. CASE Sync
  BY <1>1, <1>8 DEF Sync, config, task, DueInv
<1>9. CASE ClockStep
  BY <1>1, <1>9 DEF ClockStep, config, DueInv
<1>10. CASE Reboot
  BY <1>1, <1>10 DEF Reboot, Idle, DueInv
<1>11. CASE UNCHANGED vars
  BY <1>1, <1>11 DEF vars, DueInv
<1>12. QED
  BY <1>2, <1>3, <1>4, <1>5, <1>6, <1>7, <1>8, <1>9, <1>10, <1>11 DEF Next, Clear

\* The armed slots whose minute a quiet minute was have fired in it when it is over.
THEOREM DueSlotsFire == Spec => DueFires
<1>1. Init => DueInv
  BY TimerInvInit DEF Init, Idle, DueInv
<1>2. DueInv /\ [Next]_vars => DueInv'
  BY DueInvStep
<1>3. ASSUME DueInv, [Next]_vars
      PROVE  [utc' = utc + 1 /\ steps' = steps /\ quiet /\ master =>
                \A i \in Slot : Eligible(i, utc) /\ OnTime(i, utc, JitterOf(i, utc))
                               => last_fire[i] = utc]_vars
  <2> SUFFICES ASSUME utc' = utc + 1, steps' = steps, quiet, master,
                      NEW i \in Slot, Eligible(i, utc), OnTime(i, utc, JitterOf(i, utc))
               PROVE  last_fire[i] = utc
    OBVIOUS
  <2>1. utc \in Nat /\ utc \in Times /\ steps \in Nat
    BY <1>3 DEF DueInv, TimerInv, TypeOK, Times
  <2>2. Tick
    <3>1. ~UNCHANGED utc
      BY <2>1
    <3>2. ~ClockStep
      BY <2>1 DEF ClockStep
    <3>3. Tick \/ ClockStep \/ UNCHANGED utc
      BY <1>3 DEF Next, Clear, Set, Store, SetMaster, Wake, TakeLock, SweepSlot, Sync,
                  Reboot, vars, clock
    <3>4. QED  BY <3>1, <3>2, <3>3
  <2>3. turned
    BY <1>3, <2>2 DEF Tick, DueInv
  <2>4. Due(slots[i], i, utc)
    BY <1>3, <2>1, DueIsOnTime, JitterFromCache DEF DueInv, TimerInv
  <2>5. QED  BY <1>3, <2>3, <2>4 DEF DueInv
<1>4. QED  BY <1>1, <1>2, <1>3, PTL DEF Spec, DueFires
-----------------------------------------------------------------------------
(* Queues and lists *)

CmdQueue == Seq(Runtime!Kind \cup Topic)

LEMMA Sizes ==
  /\ Topic \cap Runtime!Kind = {} /\ QueueSize \in Nat /\ PubQueueSize \in Nat
  /\ DrainMax \in Nat /\ SubsMax \in Nat /\ CallMax \in Nat
BY RuntimeSizes DEF Runtime!BerryAssumption

LEMMA SameCardinality == \A S : Runtime!Cardinality(S) = Cardinality(S)
BY DEF Runtime!Cardinality, Cardinality

LEMMA Appended ==
  ASSUME NEW S, NEW q \in Seq(S), NEW x \in S
  PROVE  /\ Append(q, x) \in Seq(S) /\ Len(Append(q, x)) = Len(q) + 1 /\ Len(q) \in Nat
         /\ \A k \in 1..Len(q) : Append(q, x)[k] = q[k]
         /\ Append(q, x)[Len(q) + 1] = x
BY AppendProperties, LenProperties

LEMMA Posted ==
  ASSUME NEW S, NEW q \in Seq(S), NEW x \in S, NEW size \in Nat, Len(q) <= size
  PROVE  /\ Runtime!Post(q, size, x) \in Seq(S) /\ Len(Runtime!Post(q, size, x)) <= size
         /\ Runtime!Post(q, size, x) = q \/ Runtime!Post(q, size, x) = Append(q, x)
BY Appended DEF Runtime!Post

LEMMA Headed ==
  ASSUME NEW S, NEW q \in Seq(S), q # <<>>
  PROVE  /\ Head(q) \in S /\ Tail(q) \in Seq(S)
         /\ Len(q) \in Nat /\ Len(q) > 0 /\ Len(Tail(q)) = Len(q) - 1
         /\ Head(q) = q[1] /\ \A k \in 1..(Len(q) - 1) : Tail(q)[k] = q[k + 1]
<1>1. Len(q) \in Nat /\ Len(q) # 0
  BY LenProperties, EmptySeq
<1>2. Head(q) \in S /\ Tail(q) \in Seq(S) /\ Len(Tail(q)) = Len(q) - 1
      /\ Head(q) = q[1] /\ \A k \in 1..Len(Tail(q)) : Tail(q)[k] = q[k + 1]
  BY HeadTailProperties
<1>3. QED  BY <1>1, <1>2

LEMMA FunctionIsSeq ==
  ASSUME NEW S, NEW m \in Nat, NEW f \in [1..m -> S]
  PROVE  f \in Seq(S) /\ Len(f) = m
<1>1. f \in Seq(S)
  BY DEF Seq
<1>2. DOMAIN f = 1..m /\ DOMAIN f = 1..Len(f) /\ Len(f) \in Nat
  BY <1>1, LenProperties
<1>3. QED  BY <1>2

LEMMA LeastElement ==
  ASSUME NEW T, T \subseteq Nat, T # {}
  PROVE  \E i \in T : \A j \in T : i <= j
<1>1. PICK i \in T : \A j \in T : <<j, i>> \notin OpToRel(<, Nat)
  BY NatLessThanWellFounded, WFMin
<1>2. \A j \in T : ~(j < i)
  BY <1>1 DEF OpToRel
<1>3. QED  BY <1>2

LEMMA IntervalSize ==
  ASSUME NEW n \in Nat
  PROVE  IsFiniteSet(1..n) /\ Cardinality(1..n) = n
<1>1. IsFiniteSet(1..n) /\ Cardinality(1..n) = IF 1 > n THEN 0 ELSE n - 1 + 1
  BY FS_Interval
<1>2. (IF 1 > n THEN 0 ELSE n - 1 + 1) = n
  OBVIOUS
<1>3. QED  BY <1>1, <1>2

\* The listeners an unsubscribe keeps move to the front.
LEMMA MovedForward ==
  ASSUME NEW m \in Nat, NEW n \in Nat, NEW f \in [1..m -> 1..n],
         \A j, k \in 1..m : j < k => f[j] < f[k]
  PROVE  \A k \in 1..m : k <= f[k]
<1> DEFINE T == {k \in 1..m : ~(k <= f[k])}
<1>1. SUFFICES ASSUME T # {} PROVE FALSE
  OBVIOUS
<1>2. PICK i \in T : \A j \in T : i <= j
  <2>1. T \subseteq Nat
    OBVIOUS
  <2> HIDE DEF T
  <2>2. QED  BY <1>1, <2>1, LeastElement
<1>3. i \in 1..m /\ f[i] \in 1..n /\ f[i] < i /\ i > 1
  OBVIOUS
<1>4. i - 1 \in 1..m /\ i - 1 < i /\ f[i - 1] \in 1..n
  BY <1>3
<1>5. f[i - 1] < f[i]
  BY <1>3, <1>4
<1>6. i - 1 \in T
  BY <1>3, <1>4, <1>5
<1>7. QED  BY <1>2, <1>3, <1>4, <1>6

-----------------------------------------------------------------------------
(* Types of the runtime *)

Listener == [filter: Filter, calls: Nat, late: BOOLEAN]
VmType == [up: BOOLEAN, subs: Seq(Listener)]
CallerType == [at: {"idle", "sending", "waiting"}, kind: Runtime!Kind, seq: 0..CallMax, answer: 0..CallMax]
FrameType == [seq: 0..CallMax, done: BOOLEAN, answer: 0..CallMax]
TaskType == [at: {"start", "idle", "script", "dispatch", "callback"},
             kind: Runtime!Kind \cup {"boot", "none"}, seq: 0..CallMax,
             i: 0..(SubsMax + 1), n: 0..SubsMax, topic: Topic \cup {"none"}, cut: BOOLEAN]

RunTypes ==
  /\ vm \in VmType /\ Len(vm.subs) <= SubsMax
  /\ count \in 0..SubsMax
  /\ cmd_q \in CmdQueue /\ Len(cmd_q) <= QueueSize
  /\ pub_q \in Seq(Topic) /\ Len(pub_q) <= PubQueueSize
  /\ frames \in [Runtime!Kind -> FrameType]
  /\ caller \in CallerType
  /\ berry_task \in TaskType
  /\ broker \in 0..(DrainMax + 1)

\* Where a dispatch is in the list; what a task without a command has.
AtPlace ==
  /\ berry_task.at = "dispatch" => berry_task.i \in 1..(berry_task.n + 1)
  /\ berry_task.at = "callback" => berry_task.i \in 1..berry_task.n
  /\ berry_task.at \in {"idle", "dispatch", "callback"} => berry_task.kind = "none"

\* A command is given up once, and the one in hand is not given up yet.
GivenUpOnce ==
  /\ given_up \in Nat
  /\ given_up + (IF caller.at = "idle" THEN 0 ELSE 1) <= caller.seq

BerryTypes == RunTypes /\ AtPlace /\ GivenUpOnce

LEMMA BerryTypesInit == Runtime!Init => BerryTypes
<1> SUFFICES ASSUME Runtime!Init PROVE BerryTypes
  OBVIOUS
<1>1. vm \in VmType /\ Len(vm.subs) = 0
  BY EmptySeq DEF Runtime!Init, VmType
<1>2. cmd_q \in CmdQueue /\ Len(cmd_q) = 0 /\ pub_q \in Seq(Topic) /\ Len(pub_q) = 0
  BY EmptySeq DEF Runtime!Init, CmdQueue
<1>3. frames \in [Runtime!Kind -> FrameType] /\ caller \in CallerType
  BY Sizes DEF Runtime!Init, Runtime!NoCommand, FrameType, CallerType, Runtime!Silent, Runtime!Kind
<1>4. berry_task \in TaskType /\ berry_task.at = "start"
  <2>1. berry_task = [at |-> "start", kind |-> "boot", seq |-> 0, i |-> 0, n |-> 0,
                      topic |-> "none", cut |-> FALSE]
    BY DEF Runtime!Init, Runtime!Idle
  <2>2. 0 \in 0..CallMax /\ 0 \in 0..(SubsMax + 1) /\ 0 \in 0..SubsMax
    BY Sizes
  <2>3. QED  BY <2>1, <2>2 DEF TaskType
<1>5. RunTypes
  BY <1>1, <1>2, <1>3, <1>4, Sizes DEF Runtime!Init, RunTypes
<1>6. AtPlace /\ GivenUpOnce
  BY <1>4 DEF AtPlace, GivenUpOnce, Runtime!Init, Runtime!Silent
<1>7. QED  BY <1>5, <1>6 DEF BerryTypes

\* The steps of the portal.
LEMMA CallerMoves ==
  ASSUME RunTypes, NEW w \in {"idle", "sending", "waiting"}, caller' = [caller EXCEPT !.at = w]
  PROVE  /\ caller' \in CallerType /\ caller'.at = w /\ caller'.kind = caller.kind
         /\ caller'.seq = caller.seq /\ caller'.answer = caller.answer
BY DEF RunTypes, CallerType

LEMMA PortalTypes ==
  ASSUME BerryTypes, Runtime!Portal
  PROVE  BerryTypes'
<1>1. berry_task' = berry_task /\ vm' = vm /\ count' = count /\ pub_q' = pub_q /\ broker' = broker
  BY DEF Runtime!Portal, Runtime!Wait, Runtime!Submit, Runtime!Enqueue, Runtime!EnqueueFails,
         Runtime!Answered, Runtime!GiveUp
<1>2. ASSUME cmd_q' \in CmdQueue, Len(cmd_q') <= QueueSize,
             frames' \in [Runtime!Kind -> FrameType], caller' \in CallerType, GivenUpOnce'
      PROVE  BerryTypes'
  BY <1>1, <1>2 DEF BerryTypes, RunTypes, AtPlace
<1>3. ASSUME NEW k \in Runtime!Kind, Runtime!Submit(k)
      PROVE  BerryTypes'
  <2>1. /\ caller.at = "idle" /\ caller.seq < CallMax /\ caller.seq \in Nat
        /\ caller' = [at |-> "sending", kind |-> k, seq |-> caller.seq + 1, answer |-> 0]
        /\ frames' = [frames EXCEPT ![k] = [seq |-> caller.seq + 1, done |-> FALSE, answer |-> 0]]
        /\ cmd_q' = cmd_q /\ given_up' = given_up
    <3>1. caller.seq \in Nat
      BY DEF BerryTypes, RunTypes, CallerType
    <3>2. QED  BY <1>3, <3>1 DEF Runtime!Submit
  <2>2. caller.seq + 1 \in 0..CallMax /\ 0 \in 0..CallMax
    BY <2>1, Sizes
  <2>3. caller' \in CallerType /\ frames' \in [Runtime!Kind -> FrameType]
    BY <2>1, <2>2 DEF CallerType, FrameType, BerryTypes, RunTypes
  <2>4. GivenUpOnce'
    BY <2>1 DEF BerryTypes, GivenUpOnce
  <2>5. QED  BY <1>2, <2>1, <2>3, <2>4 DEF BerryTypes, RunTypes
<1>4. CASE Runtime!Enqueue
  <2>1. cmd_q' = Append(cmd_q, caller.kind) /\ Len(cmd_q) < QueueSize
        /\ caller' = [caller EXCEPT !.at = "waiting"] /\ frames' = frames /\ given_up' = given_up
        /\ caller.at = "sending"
    BY <1>4 DEF Runtime!Enqueue
  <2>2. caller.kind \in Runtime!Kind \cup Topic
    BY DEF BerryTypes, RunTypes, CallerType
  <2>3. cmd_q' \in CmdQueue /\ Len(cmd_q') <= QueueSize
    BY <2>1, <2>2, Appended, Sizes DEF CmdQueue, BerryTypes, RunTypes
  <2>4. caller' \in CallerType /\ caller'.at = "waiting" /\ caller'.seq = caller.seq
    BY <2>1, CallerMoves DEF BerryTypes
  <2>5. GivenUpOnce'
    BY <2>1, <2>4 DEF BerryTypes, GivenUpOnce
  <2>6. QED  BY <1>2, <2>1, <2>3, <2>4, <2>5 DEF BerryTypes, RunTypes
<1>5. CASE Runtime!EnqueueFails
  <2>1. cmd_q' = cmd_q /\ caller.at = "sending"
        /\ caller' = [caller EXCEPT !.at = "idle"] /\ frames' = frames /\ given_up' = given_up
    BY <1>5 DEF Runtime!EnqueueFails
  <2>2. caller' \in CallerType /\ caller'.at = "idle" /\ caller'.seq = caller.seq /\ caller.seq \in Nat
    BY <2>1, CallerMoves DEF BerryTypes, RunTypes, CallerType
  <2>3. GivenUpOnce'
    BY <2>1, <2>2 DEF BerryTypes, GivenUpOnce
  <2>4. QED  BY <1>2, <2>1, <2>2, <2>3 DEF BerryTypes, RunTypes
<1>6. CASE Runtime!Answered
  <2>1. /\ cmd_q' = cmd_q /\ frames' = frames /\ given_up' = given_up /\ caller.at = "waiting"
        /\ caller' = [caller EXCEPT !.at = "idle", !.answer = frames[caller.kind].answer]
    BY <1>6 DEF Runtime!Answered
  <2>2. frames[caller.kind] \in FrameType
    BY DEF BerryTypes, RunTypes, CallerType
  <2>3. caller' \in CallerType /\ caller'.at = "idle" /\ caller'.seq = caller.seq /\ caller.seq \in Nat
    <3>1. caller \in CallerType /\ frames[caller.kind].answer \in 0..CallMax
      BY <2>2 DEF BerryTypes, RunTypes, FrameType
    <3> DEFINE c == [caller EXCEPT !.at = "idle"]
    <3>2. c \in CallerType /\ c.at = "idle" /\ c.seq = caller.seq /\ caller.seq \in Nat
      BY <3>1 DEF CallerType
    <3>3. caller' = [c EXCEPT !.answer = frames[caller.kind].answer]
      BY <2>1
    <3> HIDE DEF c
    <3>4. QED  BY <3>1, <3>2, <3>3 DEF CallerType
  <2>4. GivenUpOnce'
    BY <2>1, <2>3 DEF BerryTypes, GivenUpOnce
  <2>5. QED  BY <1>2, <2>1, <2>3, <2>4 DEF BerryTypes, RunTypes
<1>7. CASE Runtime!GiveUp
  <2>1. /\ cmd_q' = cmd_q /\ frames' = frames /\ given_up' = given_up + 1 /\ caller.at = "waiting"
        /\ caller' = [caller EXCEPT !.at = "idle"]
    BY <1>7 DEF Runtime!GiveUp
  <2>2. caller' \in CallerType /\ caller'.at = "idle" /\ caller'.seq = caller.seq
    BY <2>1, CallerMoves DEF BerryTypes
  <2>3. GivenUpOnce'
    BY <2>1, <2>2 DEF BerryTypes, GivenUpOnce
  <2>4. QED  BY <1>2, <2>1, <2>2, <2>3 DEF BerryTypes, RunTypes
<1>8. QED  BY <1>3, <1>4, <1>5, <1>6, <1>7 DEF Runtime!Portal, Runtime!Wait

\* What the steps of the berry task do to the list and to the task.
LEMMA TaskMoves ==
  ASSUME RunTypes, NEW w \in {"start", "idle", "script", "dispatch", "callback"},
         berry_task' = [berry_task EXCEPT !.at = w]
  PROVE  /\ berry_task' \in TaskType /\ berry_task'.at = w /\ berry_task'.kind = berry_task.kind
         /\ berry_task'.i = berry_task.i /\ berry_task'.n = berry_task.n
         /\ berry_task'.topic = berry_task.topic /\ berry_task'.cut = berry_task.cut
         /\ berry_task'.seq = berry_task.seq
BY DEF RunTypes, TaskType

LEMMA TaskAdvances ==
  ASSUME RunTypes, berry_task.i < SubsMax + 1, NEW w \in {"dispatch"},
         berry_task' = [berry_task EXCEPT !.at = w, !.i = berry_task.i + 1]
  PROVE  /\ berry_task' \in TaskType /\ berry_task'.at = w /\ berry_task'.kind = berry_task.kind
         /\ berry_task'.i = berry_task.i + 1 /\ berry_task'.n = berry_task.n
         /\ berry_task'.topic = berry_task.topic /\ berry_task'.cut = berry_task.cut
<1> DEFINE t == [berry_task EXCEPT !.at = w]
<1>1. /\ t \in TaskType /\ t.at = w /\ t.kind = berry_task.kind
      /\ t.i = berry_task.i /\ t.n = berry_task.n
      /\ t.topic = berry_task.topic /\ t.cut = berry_task.cut
  BY DEF RunTypes, TaskType
<1>2. berry_task' = [t EXCEPT !.i = berry_task.i + 1]
  OBVIOUS
<1>3. berry_task.i + 1 \in 0..(SubsMax + 1)
  BY Sizes DEF RunTypes, TaskType
<1> HIDE DEF t
<1>4. QED  BY <1>1, <1>2, <1>3 DEF TaskType

LEMMA IdleType ==
  /\ Runtime!Idle \in TaskType /\ Runtime!Idle.at = "idle" /\ Runtime!Idle.kind = "none"
  /\ Runtime!Idle.i = 0 /\ Runtime!Idle.n = 0 /\ ~Runtime!Idle.cut
BY Sizes DEF Runtime!Idle, TaskType

LEMMA CommandTaken ==
  ASSUME RunTypes, NEW k \in Runtime!Kind, Runtime!TakeCommand(k)
  PROVE  /\ berry_task' \in TaskType /\ berry_task'.at \in {"start", "script"}
         /\ berry_task'.kind = k /\ berry_task'.seq = frames[k].seq
<1> DEFINE w == IF k = "restart" THEN "start" ELSE "script"
           t1 == [Runtime!Idle EXCEPT !.at = w]  t2 == [t1 EXCEPT !.kind = k]
<1>1. t1 \in TaskType /\ t1.at \in {"start", "script"}
  BY IdleType DEF TaskType
<1>2. berry_task' = [t2 EXCEPT !.seq = frames[k].seq]
  BY DEF Runtime!TakeCommand
<1> HIDE DEF t1
<1>3. t2 \in TaskType /\ t2.at \in {"start", "script"} /\ t2.kind = k
  BY <1>1 DEF TaskType
<1>4. frames[k].seq \in 0..CallMax
  BY DEF RunTypes, FrameType
<1> HIDE DEF t2
<1>5. QED  BY <1>2, <1>3, <1>4 DEF TaskType

LEMMA EventTaken ==
  ASSUME RunTypes, NEW t \in Topic, Runtime!TakeEvent(t)
  PROVE  /\ vm' \in VmType /\ vm'.up = vm.up /\ Len(vm'.subs) = Len(vm.subs)
         /\ \A k \in 1..Len(vm.subs) : vm'.subs[k].calls = 0 /\ ~vm'.subs[k].late
         /\ berry_task' \in TaskType /\ berry_task'.kind = "none" /\ ~berry_task'.cut
         /\ \/ berry_task'.at = "idle"
            \/ berry_task'.at = "dispatch" /\ berry_task'.i = 1 /\ berry_task'.n = Len(vm.subs)
<1> DEFINE new == [s \in DOMAIN vm.subs |-> [vm.subs[s] EXCEPT !.calls = 0, !.late = FALSE]]
<1>1. vm' = [vm EXCEPT !.subs = new]
  BY DEF Runtime!TakeEvent
<1>2. /\ vm.subs \in Seq(Listener) /\ Len(vm.subs) \in Nat /\ DOMAIN vm.subs = 1..Len(vm.subs)
      /\ \A k \in 1..Len(vm.subs) : vm.subs[k] \in Listener
  <2>1. vm.subs \in Seq(Listener)
    BY DEF RunTypes, VmType
  <2>2. QED  BY <2>1, LenProperties, ElementOfSeq
<1>3. \A x \in Listener : LET y == [x EXCEPT !.calls = 0, !.late = FALSE] IN
        y \in Listener /\ y.calls = 0 /\ ~y.late
  <2>1. SUFFICES ASSUME NEW x \in Listener
                 PROVE  LET y == [x EXCEPT !.calls = 0, !.late = FALSE] IN
                        y \in Listener /\ y.calls = 0 /\ ~y.late
    BY <2>1
  <2> DEFINE z == [x EXCEPT !.calls = 0]
  <2>2. z \in Listener /\ z.calls = 0
    BY DEF Listener
  <2> HIDE DEF z
  <2>3. LET y == [z EXCEPT !.late = FALSE] IN y \in Listener /\ y.calls = 0 /\ ~y.late
    BY <2>2 DEF Listener
  <2>4. QED  BY <2>3 DEF z
<1>4. new \in [1..Len(vm.subs) -> Listener]
      /\ \A k \in 1..Len(vm.subs) : new[k].calls = 0 /\ ~new[k].late
  BY <1>2, <1>3
<1> HIDE DEF new
<1>5. new \in Seq(Listener) /\ Len(new) = Len(vm.subs)
  BY <1>2, <1>4, FunctionIsSeq
<1>6. vm' \in VmType /\ vm'.up = vm.up /\ vm'.subs = new
  BY <1>1, <1>5 DEF RunTypes, VmType
<1>7. /\ berry_task' \in TaskType /\ berry_task'.kind = "none" /\ ~berry_task'.cut
      /\ \/ berry_task'.at = "idle"
         \/ berry_task'.at = "dispatch" /\ berry_task'.i = 1 /\ berry_task'.n = Len(vm.subs)
  <2> DEFINE t1 == [Runtime!Idle EXCEPT !.at = "dispatch"]  t2 == [t1 EXCEPT !.i = 1]
             t3 == [t2 EXCEPT !.n = Len(vm.subs)]  t4 == [t3 EXCEPT !.topic = t]
  <2>1. t1 \in TaskType /\ t1.at = "dispatch" /\ t1.kind = "none" /\ ~t1.cut
    BY IdleType DEF TaskType
  <2>2. berry_task' = IF vm.up THEN t4 ELSE Runtime!Idle
    BY DEF Runtime!TakeEvent
  <2>3. 1 \in 0..(SubsMax + 1) /\ Len(vm.subs) \in 0..SubsMax
    BY <1>2, Sizes DEF RunTypes
  <2> HIDE DEF t1
  <2>4. t2 \in TaskType /\ t2.at = "dispatch" /\ t2.kind = "none" /\ ~t2.cut /\ t2.i = 1
    BY <2>1, <2>3 DEF TaskType
  <2> HIDE DEF t2
  <2>5. t3 \in TaskType /\ t3.at = "dispatch" /\ t3.kind = "none" /\ ~t3.cut /\ t3.i = 1
        /\ t3.n = Len(vm.subs)
    BY <2>3, <2>4 DEF TaskType
  <2> HIDE DEF t3
  <2>6. t4 \in TaskType /\ t4.at = "dispatch" /\ t4.kind = "none" /\ ~t4.cut /\ t4.i = 1
        /\ t4.n = Len(vm.subs)
    BY <2>5 DEF TaskType
  <2>7. QED  BY <2>2, <2>6, IdleType
<1>8. QED  BY <1>4, <1>5, <1>6, <1>7

LEMMA ListIs ==
  ASSUME RunTypes
  PROVE  /\ vm.subs \in Seq(Listener) /\ Len(vm.subs) \in Nat /\ DOMAIN vm.subs = 1..Len(vm.subs)
         /\ \A k \in 1..Len(vm.subs) : vm.subs[k] \in Listener
<1>1. vm.subs \in Seq(Listener)
  BY DEF RunTypes, VmType
<1>2. QED  BY <1>1, LenProperties, ElementOfSeq

\* A list that takes the place of the one there is.
LEMMA ListReplaced ==
  ASSUME RunTypes, NEW new \in Seq(Listener), vm' = [vm EXCEPT !.subs = new]
  PROVE  vm' \in VmType /\ vm'.up = vm.up /\ vm'.subs = new
BY DEF RunTypes, VmType

LEMMA Subscribed ==
  ASSUME RunTypes, NEW f \in Filter, Runtime!m_subscribe(f)
  PROVE  /\ vm' \in VmType /\ vm'.up = vm.up /\ Len(vm.subs) < SubsMax
         /\ Len(vm'.subs) = Len(vm.subs) + 1 /\ count' = Len(vm'.subs)
         /\ \A k \in 1..Len(vm.subs) : vm'.subs[k] = vm.subs[k]
         /\ vm'.subs[Len(vm.subs) + 1].calls = 0
         /\ vm'.subs[Len(vm.subs) + 1].late <=> berry_task.at = "callback"
<1> DEFINE x == Runtime!Listener(f)
<1>1. x \in Listener /\ x.calls = 0 /\ (x.late <=> berry_task.at = "callback")
  BY DEF Runtime!Listener, Listener
<1>2. vm' = [vm EXCEPT !.subs = Append(vm.subs, x)] /\ count' = Len(vm'.subs) /\ Len(vm.subs) < SubsMax
  BY DEF Runtime!m_subscribe
<1> HIDE DEF x
<1>3. /\ Append(vm.subs, x) \in Seq(Listener) /\ Len(Append(vm.subs, x)) = Len(vm.subs) + 1
      /\ \A k \in 1..Len(vm.subs) : Append(vm.subs, x)[k] = vm.subs[k]
      /\ Append(vm.subs, x)[Len(vm.subs) + 1] = x
  BY <1>1, ListIs, Appended
<1>4. vm' \in VmType /\ vm'.up = vm.up /\ vm'.subs = Append(vm.subs, x)
  BY <1>2, <1>3, ListReplaced
<1>5. QED  BY <1>1, <1>2, <1>3, <1>4

LEMMA Unsubscribed ==
  ASSUME RunTypes, NEW f \in Filter, Runtime!m_unsubscribe(f)
  PROVE  /\ vm' \in VmType /\ vm'.up = vm.up
         /\ Len(vm'.subs) <= Len(vm.subs) /\ count' = Len(vm'.subs)
         /\ \A k \in 1..Len(vm'.subs) : \E j \in k..Len(vm.subs) : vm'.subs[k] = vm.subs[j]
         /\ berry_task' \in TaskType /\ berry_task'.at = berry_task.at
         /\ berry_task'.kind = berry_task.kind /\ berry_task'.seq = berry_task.seq
         /\ berry_task'.i = berry_task.i /\ berry_task'.n = berry_task.n
         /\ berry_task'.topic = berry_task.topic
         /\ ~berry_task'.cut => ~berry_task.cut /\ vm' = vm
<1> DEFINE kept == {k \in DOMAIN vm.subs : vm.subs[k].filter # f}  m == Cardinality(kept)
           n == Len(vm.subs)
<1>1. PICK old \in [1..m -> kept] :
        /\ \A j, k \in 1..m : j < k => old[j] < old[k]
        /\ vm' = [vm EXCEPT !.subs = [k \in 1..m |-> vm.subs[old[k]]]]
  <2>1. PICK old \in [1..m -> kept] :
          /\ \A j, k \in DOMAIN old : j < k => old[j] < old[k]
          /\ vm' = [vm EXCEPT !.subs = [k \in DOMAIN old |-> vm.subs[old[k]]]]
    BY SameCardinality DEF Runtime!m_unsubscribe
  <2>2. DOMAIN old = 1..m
    OBVIOUS
  <2>3. QED  BY <2>1, <2>2
<1>2. n \in Nat /\ kept \subseteq 1..n /\ \A k \in 1..n : vm.subs[k] \in Listener
  BY ListIs
<1>3. m \in Nat /\ m <= n
  <2>0. n \in Nat
    BY <1>2
  <2> HIDE DEF kept, n
  <2>1. IsFiniteSet(1..n) /\ Cardinality(1..n) = n
    BY <2>0, IntervalSize
  <2>2. IsFiniteSet(kept) /\ Cardinality(kept) <= Cardinality(1..n)
    BY <1>2, <2>1, FS_Subset
  <2>3. QED  BY <2>1, <2>2, FS_CardinalityType
<1> DEFINE new == [k \in 1..m |-> vm.subs[old[k]]]
<1> HIDE DEF m, kept
<1>4. \A k \in 1..m : old[k] \in 1..n /\ new[k] = vm.subs[old[k]] /\ new[k] \in Listener
  BY <1>1, <1>2
<1>5. \A k \in 1..m : k <= old[k]
  <2>1. old \in [1..m -> 1..n]
    BY <1>1, <1>2
  <2> HIDE DEF n
  <2>2. QED  BY <1>1, <1>2, <1>3, <2>1, MovedForward
<1>6. new \in [1..m -> Listener] /\ vm' = [vm EXCEPT !.subs = new]
  BY <1>1, <1>4
<1> HIDE DEF new
<1>7. new \in Seq(Listener) /\ Len(new) = m
  BY <1>3, <1>6, FunctionIsSeq
<1>8. vm' \in VmType /\ vm'.up = vm.up /\ vm'.subs = new
  BY <1>6, <1>7, ListReplaced
<1>9. \A k \in 1..m : \E j \in k..n : new[k] = vm.subs[j]
  <2>1. SUFFICES ASSUME NEW k \in 1..m PROVE \E j \in k..n : new[k] = vm.subs[j]
    OBVIOUS
  <2>2. old[k] \in k..n
    BY <1>2, <1>4, <1>5
  <2>3. QED  BY <1>4, <2>2
<1>10. count' = Len(vm'.subs)
  BY DEF Runtime!m_unsubscribe
<1>11. /\ berry_task' \in TaskType /\ berry_task'.at = berry_task.at
       /\ berry_task'.kind = berry_task.kind /\ berry_task'.seq = berry_task.seq
       /\ berry_task'.i = berry_task.i /\ berry_task'.n = berry_task.n
       /\ berry_task'.topic = berry_task.topic
       /\ berry_task'.cut <=> berry_task.cut \/ vm' # vm
  <2>1. berry_task' = [berry_task EXCEPT !.cut = (berry_task.cut \/ vm' # vm)]
    BY DEF Runtime!m_unsubscribe
  <2>2. \A b \in BOOLEAN : LET t == [berry_task EXCEPT !.cut = b] IN
          /\ t \in TaskType /\ t.at = berry_task.at
          /\ t.kind = berry_task.kind /\ t.seq = berry_task.seq
          /\ t.i = berry_task.i /\ t.n = berry_task.n
          /\ t.topic = berry_task.topic /\ t.cut = b
    BY DEF RunTypes, TaskType
  <2>3. (berry_task.cut \/ vm' # vm) \in BOOLEAN
    OBVIOUS
  <2>4. QED  BY <2>1, <2>2, <2>3, Zenon
<1>12. ~berry_task'.cut => ~berry_task.cut /\ vm' = vm
  BY <1>11
<1>13. Len(vm'.subs) <= n /\ \A k \in 1..Len(vm'.subs) : \E j \in k..n : vm'.subs[k] = vm.subs[j]
  BY <1>3, <1>7, <1>8, <1>9
<1>14. QED  BY <1>8, <1>10, <1>11, <1>12, <1>13

LEMMA Called ==
  ASSUME RunTypes, berry_task.i \in 1..Len(vm.subs), Runtime!DispatchCall
  PROVE  /\ vm' \in VmType /\ vm'.up = vm.up /\ Len(vm'.subs) = Len(vm.subs)
         /\ \A k \in 1..Len(vm.subs) : k # berry_task.i => vm'.subs[k] = vm.subs[k]
         /\ vm'.subs[berry_task.i].filter = vm.subs[berry_task.i].filter
         /\ vm'.subs[berry_task.i].calls = vm.subs[berry_task.i].calls + 1
         /\ vm'.subs[berry_task.i].late = vm.subs[berry_task.i].late
<1> DEFINE i == berry_task.i  x == [vm.subs[i] EXCEPT !.calls = vm.subs[i].calls + 1]
           new == [vm.subs EXCEPT ![i] = x]
<1>1. vm' = [vm EXCEPT !.subs = new]
  BY DEF Runtime!DispatchCall
<1>2. x \in Listener /\ x.filter = vm.subs[i].filter /\ x.calls = vm.subs[i].calls + 1
      /\ x.late = vm.subs[i].late
  BY ListIs DEF Listener
<1> HIDE DEF x
<1>3. new \in Seq(Listener) /\ Len(new) = Len(vm.subs)
      /\ new[i] = x /\ \A k \in 1..Len(vm.subs) : k # i => new[k] = vm.subs[k]
  BY <1>2, ListIs, ExceptSeq
<1> HIDE DEF new
<1>4. vm' \in VmType /\ vm'.up = vm.up /\ vm'.subs = new
  BY <1>1, <1>3, ListReplaced
<1>5. QED  BY <1>2, <1>3, <1>4

\* The steps that leave the portal alone.
LEMMA TypesKept ==
  ASSUME BerryTypes, UNCHANGED <<caller, given_up>>,
         vm' \in VmType /\ Len(vm'.subs) <= SubsMax, count' \in 0..SubsMax,
         cmd_q' \in CmdQueue /\ Len(cmd_q') <= QueueSize,
         pub_q' \in Seq(Topic) /\ Len(pub_q') <= PubQueueSize,
         frames' \in [Runtime!Kind -> FrameType],
         berry_task' \in TaskType, broker' \in 0..(DrainMax + 1), AtPlace'
  PROVE  BerryTypes'
BY DEF BerryTypes, RunTypes, GivenUpOnce

LEMMA ScriptTypes ==
  ASSUME BerryTypes, Runtime!Script
  PROVE  BerryTypes'
<1>1. ASSUME NEW f \in Filter, Runtime!m_subscribe(f)
      PROVE  BerryTypes'
  <2>1. vm' \in VmType /\ Len(vm'.subs) <= SubsMax /\ count' = Len(vm'.subs) /\ Len(vm'.subs) \in Nat
    BY <1>1, Subscribed, ListIs, Sizes DEF BerryTypes
  <2>2. UNCHANGED <<caller, given_up, frames, cmd_q, pub_q, berry_task, broker>>
    BY <1>1 DEF Runtime!m_subscribe, Runtime!portal
  <2>3. QED  BY <2>1, <2>2, TypesKept, Sizes DEF BerryTypes, RunTypes, AtPlace
<1>2. ASSUME NEW f \in Filter, Runtime!m_unsubscribe(f)
      PROVE  BerryTypes'
  <2>1. vm' \in VmType /\ Len(vm'.subs) <= Len(vm.subs) /\ count' = Len(vm'.subs)
    BY <1>2, Unsubscribed DEF BerryTypes
  <2>2. Len(vm'.subs) \in Nat /\ Len(vm.subs) \in Nat
    BY <2>1, ListIs, LenProperties DEF VmType, BerryTypes
  <2>3. berry_task' \in TaskType /\ AtPlace'
    <3>1. /\ berry_task' \in TaskType /\ berry_task'.at = berry_task.at
          /\ berry_task'.kind = berry_task.kind
          /\ berry_task'.i = berry_task.i /\ berry_task'.n = berry_task.n
      BY <1>2, Unsubscribed DEF BerryTypes
    <3>2. QED  BY <3>1 DEF BerryTypes, AtPlace
  <2>4. UNCHANGED <<caller, given_up, frames, cmd_q, pub_q, broker>>
    BY <1>2 DEF Runtime!m_unsubscribe, Runtime!portal
  <2>5. QED  BY <2>1, <2>2, <2>3, <2>4, TypesKept, Sizes DEF BerryTypes, RunTypes
<1>3. ASSUME NEW t \in Topic, Runtime!m_publish(t)
      PROVE  BerryTypes'
  <2>1. pub_q' \in Seq(Topic) /\ Len(pub_q') <= PubQueueSize
    BY <1>3, Posted, Sizes DEF Runtime!m_publish, BerryTypes, RunTypes
  <2>2. UNCHANGED <<caller, given_up, frames, cmd_q, vm, count, berry_task, broker>>
    BY <1>3 DEF Runtime!m_publish, Runtime!portal
  <2>3. QED  BY <2>1, <2>2, TypesKept DEF BerryTypes, RunTypes, AtPlace
<1>4. QED  BY <1>1, <1>2, <1>3 DEF Runtime!Script

LEMMA StartTypes ==
  ASSUME BerryTypes, Runtime!Start
  PROVE  BerryTypes'
<1>1. /\ vm' \in {[up |-> TRUE, subs |-> <<>>], [up |-> FALSE, subs |-> <<>>]}
      /\ count' \in {0, count}
      /\ berry_task' = [berry_task EXCEPT !.at = "script"]
      /\ UNCHANGED <<caller, given_up, frames, cmd_q, pub_q, broker>>
  BY DEF Runtime!Start, Runtime!Construct, Runtime!portal
<1>2. vm' \in VmType /\ Len(vm'.subs) <= SubsMax
  <2>1. <<>> \in Seq(Listener) /\ Len(<<>>) = 0
    BY EmptySeq
  <2>2. ASSUME NEW e, e \in Seq(Listener), Len(e) = 0, NEW b \in BOOLEAN, vm' = [up |-> b, subs |-> e]
        PROVE  vm' \in VmType /\ Len(vm'.subs) <= SubsMax
    BY <2>2, Sizes DEF VmType
  <2>3. QED  BY <1>1, <2>1, <2>2
<1>3. berry_task' \in TaskType /\ AtPlace'
  BY <1>1, TaskMoves DEF BerryTypes, AtPlace
<1>4. count' \in 0..SubsMax
  BY <1>1, Sizes DEF BerryTypes, RunTypes
<1>5. QED  BY <1>1, <1>2, <1>3, <1>4, TypesKept DEF BerryTypes, RunTypes

LEMMA EndTypes ==
  ASSUME BerryTypes, Runtime!ScriptEnds
  PROVE  BerryTypes'
<1>1. /\ berry_task' = Runtime!Idle
      /\ frames' = IF berry_task.kind \in Runtime!Kind
                   THEN [frames EXCEPT ![berry_task.kind].done = TRUE,
                                       ![berry_task.kind].answer = berry_task.seq]
                   ELSE frames
      /\ UNCHANGED <<caller, given_up, vm, count, cmd_q, pub_q, broker>>
  BY DEF Runtime!ScriptEnds
<1>2. frames' \in [Runtime!Kind -> FrameType]
  <2>1. CASE berry_task.kind \notin Runtime!Kind
    BY <1>1, <2>1 DEF BerryTypes, RunTypes
  <2>2. CASE berry_task.kind \in Runtime!Kind
    <3> DEFINE k == berry_task.kind  g == [frames EXCEPT ![k].done = TRUE]
    <3>1. g \in [Runtime!Kind -> FrameType]
      BY <2>2 DEF BerryTypes, RunTypes, FrameType
    <3>2. frames' = [g EXCEPT ![k].answer = berry_task.seq] /\ berry_task.seq \in 0..CallMax
      BY <1>1, <2>2 DEF BerryTypes, RunTypes, TaskType
    <3> HIDE DEF g
    <3>3. QED  BY <2>2, <3>1, <3>2 DEF FrameType
  <2>3. QED  BY <2>1, <2>2
<1>3. berry_task' \in TaskType /\ AtPlace'
  BY <1>1, IdleType DEF AtPlace
<1>4. QED  BY <1>1, <1>2, <1>3, TypesKept DEF BerryTypes, RunTypes

LEMMA TakeTypes ==
  ASSUME BerryTypes, \/ \E k \in Runtime!Kind : Runtime!TakeCommand(k)
                     \/ \E t \in Topic : Runtime!TakeEvent(t)
  PROVE  BerryTypes'
<1>1. ASSUME NEW k \in Runtime!Kind, Runtime!TakeCommand(k)
      PROVE  BerryTypes'
  <2>1. /\ cmd_q' = Tail(cmd_q) /\ cmd_q # <<>>
        /\ UNCHANGED <<caller, given_up, frames, vm, count, pub_q, broker>>
    BY <1>1 DEF Runtime!TakeCommand, Runtime!portal
  <2>2. cmd_q' \in CmdQueue /\ Len(cmd_q') <= QueueSize
    BY <2>1, Headed, Sizes DEF BerryTypes, RunTypes, CmdQueue
  <2>3. berry_task' \in TaskType /\ AtPlace'
    BY <1>1, CommandTaken DEF BerryTypes, AtPlace
  <2>4. QED  BY <2>1, <2>2, <2>3, TypesKept DEF BerryTypes, RunTypes
<1>2. ASSUME NEW t \in Topic, Runtime!TakeEvent(t)
      PROVE  BerryTypes'
  <2>1. /\ cmd_q' = Tail(cmd_q) /\ cmd_q # <<>>
        /\ UNCHANGED <<caller, given_up, frames, count, pub_q, broker>>
    BY <1>2 DEF Runtime!TakeEvent, Runtime!portal
  <2>2. cmd_q' \in CmdQueue /\ Len(cmd_q') <= QueueSize
    BY <2>1, Headed, Sizes DEF BerryTypes, RunTypes, CmdQueue
  <2>3. vm' \in VmType /\ Len(vm'.subs) <= SubsMax
    BY <1>2, EventTaken DEF BerryTypes, RunTypes
  <2>4. berry_task' \in TaskType /\ AtPlace'
    <3>1. Len(vm.subs) \in Nat
      BY ListIs DEF BerryTypes
    <3>2. QED  BY <1>2, <3>1, EventTaken DEF BerryTypes, AtPlace
  <2>5. QED  BY <2>1, <2>2, <2>3, <2>4, TypesKept DEF BerryTypes, RunTypes
<1>3. QED  BY <1>1, <1>2

LEMMA DispatchTypes ==
  ASSUME BerryTypes, \/ Runtime!DispatchSkip \/ Runtime!DispatchCall \/ Runtime!CallbackEnds
                     \/ Runtime!CallbackFails \/ Runtime!DispatchEnds
  PROVE  BerryTypes'
<1>1. berry_task.i \in Nat /\ berry_task.n \in Nat /\ berry_task.n <= SubsMax
  BY Sizes DEF BerryTypes, RunTypes, TaskType
<1>2. ASSUME UNCHANGED <<caller, given_up, frames, vm, count, cmd_q, pub_q, broker>>,
             berry_task' \in TaskType, AtPlace'
      PROVE  BerryTypes'
  BY <1>2, TypesKept DEF BerryTypes, RunTypes
<1>3. CASE Runtime!DispatchSkip
  <2>1. /\ berry_task.at = "dispatch" /\ berry_task.i <= berry_task.n
        /\ berry_task' = [berry_task EXCEPT !.i = berry_task.i + 1]
        /\ UNCHANGED <<caller, given_up, frames, vm, count, cmd_q, pub_q, broker>>
    BY <1>3 DEF Runtime!DispatchSkip, Runtime!portal
  <2>2. berry_task.i + 1 \in 0..(SubsMax + 1)
    BY <1>1, <2>1, Sizes
  <2>3. /\ berry_task' \in TaskType /\ berry_task'.at = "dispatch" /\ berry_task'.kind = berry_task.kind
        /\ berry_task'.i = berry_task.i + 1 /\ berry_task'.n = berry_task.n
    BY <2>1, <2>2 DEF BerryTypes, RunTypes, TaskType
  <2>4. AtPlace'
    BY <1>1, <2>1, <2>3 DEF BerryTypes, AtPlace
  <2>5. QED  BY <1>2, <2>1, <2>3, <2>4
<1>4. CASE Runtime!DispatchCall
  <2>1. /\ berry_task.at = "dispatch" /\ berry_task.i <= berry_task.n
        /\ berry_task.i <= Len(vm.subs)
        /\ berry_task' = [berry_task EXCEPT !.at = "callback"]
        /\ UNCHANGED <<caller, given_up, frames, count, cmd_q, pub_q, broker>>
    BY <1>4 DEF Runtime!DispatchCall, Runtime!portal, Runtime!Matches
  <2>2. berry_task' \in TaskType /\ AtPlace'
    BY <1>1, <2>1, TaskMoves DEF BerryTypes, AtPlace
  <2>3. berry_task.i \in 1..Len(vm.subs)
    BY <1>1, <2>1, ListIs DEF BerryTypes, AtPlace
  <2>4. vm' \in VmType /\ Len(vm'.subs) <= SubsMax
    BY <1>4, <2>3, Called DEF BerryTypes, RunTypes
  <2>5. QED  BY <2>1, <2>2, <2>4, TypesKept DEF BerryTypes, RunTypes
<1>5. CASE Runtime!CallbackEnds \/ Runtime!CallbackFails
  <2>1. /\ berry_task.at = "callback"
        /\ berry_task' = [berry_task EXCEPT !.at = "dispatch", !.i = berry_task.i + 1]
        /\ UNCHANGED <<caller, given_up, frames, vm, count, cmd_q, pub_q, broker>>
    BY <1>5 DEF Runtime!CallbackFails, Runtime!CallbackEnds, Runtime!portal
  <2>2. berry_task.i \in 1..berry_task.n /\ berry_task.i < SubsMax + 1
    BY <1>1, <2>1, Sizes DEF BerryTypes, AtPlace
  <2>3. berry_task' \in TaskType /\ AtPlace'
    BY <1>1, <2>1, <2>2, TaskAdvances DEF BerryTypes, AtPlace
  <2>4. QED  BY <1>2, <2>1, <2>3
<1>6. CASE Runtime!DispatchEnds
  <2>1. /\ berry_task' = Runtime!Idle
        /\ UNCHANGED <<caller, given_up, frames, vm, count, cmd_q, pub_q, broker>>
    BY <1>6 DEF Runtime!DispatchEnds, Runtime!portal
  <2>2. QED  BY <1>2, <2>1, IdleType DEF AtPlace
<1>7. QED  BY <1>3, <1>4, <1>5, <1>6

LEMMA BrokerTypes ==
  ASSUME BerryTypes, Runtime!BrokerTask \/ \E t \in Topic : Runtime!LocalRequest(t)
  PROVE  BerryTypes'
<1>1. ASSUME UNCHANGED <<caller, given_up, frames, vm, count, berry_task>>,
             cmd_q' \in CmdQueue /\ Len(cmd_q') <= QueueSize,
             pub_q' \in Seq(Topic) /\ Len(pub_q') <= PubQueueSize,
             broker' \in 0..(DrainMax + 1)
      PROVE  BerryTypes'
  BY <1>1, TypesKept DEF BerryTypes, RunTypes, AtPlace
<1>2. ASSUME NEW t \in Topic, Runtime!PostEvent(t)
      PROVE  cmd_q' \in CmdQueue /\ Len(cmd_q') <= QueueSize
  <2>1. t \in Runtime!Kind \cup Topic
    OBVIOUS
  <2>2. QED  BY <1>2, <2>1, Posted, Sizes DEF Runtime!PostEvent, BerryTypes, RunTypes, CmdQueue
<1>3. cmd_q \in CmdQueue /\ Len(cmd_q) <= QueueSize /\ broker \in 0..(DrainMax + 1)
      /\ pub_q \in Seq(Topic) /\ Len(pub_q) <= PubQueueSize
  BY DEF BerryTypes, RunTypes
<1>4. ASSUME NEW t \in Topic, Runtime!ClientPublish(t)
      PROVE  BerryTypes'
  BY <1>1, <1>2, <1>3, <1>4 DEF Runtime!ClientPublish, Runtime!portal
<1>5. ASSUME NEW t \in Topic, Runtime!LocalRequest(t)
      PROVE  BerryTypes'
  <2>1. pub_q' \in Seq(Topic) /\ Len(pub_q') <= PubQueueSize
    BY <1>3, <1>5, Posted, Sizes DEF Runtime!LocalRequest
  <2>2. QED  BY <1>1, <1>3, <1>5, <2>1 DEF Runtime!LocalRequest, Runtime!portal
<1>6. CASE Runtime!StartDrain
  <2>1. broker' \in 0..(DrainMax + 1)
    BY <1>6, Sizes DEF Runtime!StartDrain
  <2>2. QED  BY <1>1, <1>3, <1>6, <2>1 DEF Runtime!StartDrain, Runtime!portal
<1>7. CASE Runtime!DrainOne
  <2>1. Head(pub_q) \in Topic /\ pub_q' \in Seq(Topic) /\ Len(pub_q') <= PubQueueSize
    BY <1>3, <1>7, Headed, Sizes DEF Runtime!DrainOne
  <2>2. cmd_q' \in CmdQueue /\ Len(cmd_q') <= QueueSize
    BY <1>2, <1>7, <2>1 DEF Runtime!DrainOne
  <2>3. broker' \in 0..(DrainMax + 1)
    BY <1>3, <1>7, Sizes DEF Runtime!DrainOne
  <2>4. QED  BY <1>1, <1>7, <2>1, <2>2, <2>3 DEF Runtime!DrainOne, Runtime!portal
<1>8. CASE Runtime!DrainEnds
  <2>1. broker' \in 0..(DrainMax + 1)
    BY <1>8, Sizes DEF Runtime!DrainEnds
  <2>2. QED  BY <1>1, <1>3, <1>8, <2>1 DEF Runtime!DrainEnds, Runtime!portal
<1>9. QED  BY <1>4, <1>5, <1>6, <1>7, <1>8 DEF Runtime!BrokerTask, Runtime!Drain

LEMMA PanicTypes ==
  ASSUME BerryTypes, Runtime!Panic
  PROVE  BerryTypes'
<1>1. Runtime!Init'
  BY DEF Runtime!Panic, Runtime!Init
<1>2. QED  BY <1>1, BerryTypesInit, PTL

LEMMA BerryTypesStep ==
  ASSUME BerryTypes, [Runtime!Next]_berryvars
  PROVE  BerryTypes'
<1>1. CASE UNCHANGED berryvars
  BY <1>1 DEF berryvars, BerryTypes, RunTypes, AtPlace, GivenUpOnce
<1>2. QED
  BY <1>1, PortalTypes, ScriptTypes, StartTypes, EndTypes, TakeTypes, DispatchTypes,
     BrokerTypes, PanicTypes
  DEF Runtime!Next, Runtime!BerryTask

-----------------------------------------------------------------------------
(* Listeners.  The inductive invariant says where a dispatch is: the       *)
(* entries it is past have been called, those before it have not.          *)

Behind(k) == k < berry_task.i \/ (k = berry_task.i /\ berry_task.at = "callback")

ListInv ==
  /\ Runtime!CountIsOfTheList
  /\ \A k \in 1..Len(vm.subs) : vm.subs[k].calls <= 1
  /\ berry_task.at \in {"dispatch", "callback"} =>
       \A k \in 1..Len(vm.subs) :
         /\ ~Behind(k) => vm.subs[k].calls = 0
         /\ ~berry_task.cut =>
              /\ k > berry_task.n => vm.subs[k].late
              /\ Behind(k) /\ Runtime!Matches(k) /\ ~vm.subs[k].late => vm.subs[k].calls = 1

LEMMA ListInit == Runtime!Init => ListInv
BY DEF Runtime!Init, Runtime!Idle, ListInv, Runtime!CountIsOfTheList

LEMMA ListStands ==
  ASSUME ListInv, UNCHANGED <<vm, count>>,
         berry_task' = berry_task \/ berry_task'.at \notin {"dispatch", "callback"}
  PROVE  ListInv'
BY DEF ListInv, Runtime!CountIsOfTheList, Behind, Runtime!Matches

LEMMA ScriptList ==
  ASSUME BerryTypes, ListInv, Runtime!Script
  PROVE  ListInv'
<1>1. Len(vm.subs) \in Nat /\ RunTypes
  BY ListIs DEF BerryTypes
<1>2. ASSUME NEW f \in Filter, Runtime!m_subscribe(f)
      PROVE  ListInv'
  <2>1. berry_task' = berry_task
    BY <1>2 DEF Runtime!m_subscribe
  <2>2. /\ Len(vm'.subs) = Len(vm.subs) + 1 /\ count' = Len(vm'.subs)
        /\ \A k \in 1..Len(vm.subs) : vm'.subs[k] = vm.subs[k]
        /\ vm'.subs[Len(vm.subs) + 1].calls = 0
        /\ vm'.subs[Len(vm.subs) + 1].late <=> berry_task.at = "callback"
    BY <1>1, <1>2, Subscribed
  <2>3. berry_task.at # "dispatch"
    BY <1>2 DEF Runtime!m_subscribe, Runtime!Scripting
  <2>4. \A k \in 1..Len(vm'.subs) : k \in 1..Len(vm.subs) \/ k = Len(vm.subs) + 1
    BY <1>1, <2>2
  <2>5. \A k \in 1..Len(vm'.subs) : vm'.subs[k].calls <= 1
    BY <2>2, <2>4 DEF ListInv
  <2>6. ASSUME berry_task.at = "callback", NEW k \in 1..Len(vm'.subs)
        PROVE  /\ ~Behind(k)' => vm'.subs[k].calls = 0
               /\ ~berry_task'.cut =>
                    /\ k > berry_task'.n => vm'.subs[k].late
                    /\ Behind(k)' /\ Runtime!Matches(k)' /\ ~vm'.subs[k].late => vm'.subs[k].calls = 1
    <3>1. CASE k \in 1..Len(vm.subs)
      <4>1. vm'.subs[k] = vm.subs[k] /\ (Behind(k)' <=> Behind(k))
            /\ (Runtime!Matches(k)' => Runtime!Matches(k))
        BY <2>1, <2>2, <3>1, <1>1 DEF Behind, Runtime!Matches
      <4>2. QED  BY <2>1, <2>6, <3>1, <4>1 DEF ListInv
    <3>2. CASE k = Len(vm.subs) + 1
      BY <2>2, <2>6, <3>2
    <3>3. QED  BY <2>4, <3>1, <3>2
  <2>7. QED  BY <2>1, <2>2, <2>3, <2>5, <2>6 DEF ListInv, Runtime!CountIsOfTheList
<1>3. ASSUME NEW f \in Filter, Runtime!m_unsubscribe(f)
      PROVE  ListInv'
  <2>1. /\ count' = Len(vm'.subs)
        /\ \A k \in 1..Len(vm'.subs) : \E j \in k..Len(vm.subs) : vm'.subs[k] = vm.subs[j]
        /\ berry_task'.at = berry_task.at /\ berry_task'.i = berry_task.i
        /\ berry_task'.n = berry_task.n /\ berry_task'.topic = berry_task.topic
        /\ ~berry_task'.cut => ~berry_task.cut /\ vm' = vm
    BY <1>1, <1>3, Unsubscribed
  <2>2. berry_task.at # "dispatch"
    BY <1>3 DEF Runtime!m_unsubscribe, Runtime!Scripting
  <2>3. ASSUME NEW k \in 1..Len(vm'.subs)
        PROVE  /\ vm'.subs[k].calls <= 1
               /\ berry_task.at = "callback" /\ ~Behind(k)' => vm'.subs[k].calls = 0
    <3>1. PICK j \in k..Len(vm.subs) : vm'.subs[k] = vm.subs[j]
      BY <2>1
    <3>2. j \in 1..Len(vm.subs) /\ j \in Nat /\ k \in Nat /\ k <= j
      BY <1>1
    <3>3. berry_task.i \in Nat
      BY Sizes DEF BerryTypes, RunTypes, TaskType
    <3>4. berry_task.at = "callback" /\ ~Behind(k)' => ~Behind(j)
      BY <2>1, <3>2, <3>3 DEF Behind
    <3>5. QED  BY <3>1, <3>2, <3>4 DEF ListInv
  <2>4. ASSUME berry_task.at = "callback", NEW k \in 1..Len(vm'.subs), ~berry_task'.cut
        PROVE  /\ k > berry_task'.n => vm'.subs[k].late
               /\ Behind(k)' /\ Runtime!Matches(k)' /\ ~vm'.subs[k].late => vm'.subs[k].calls = 1
    <3>1. vm' = vm /\ ~berry_task.cut /\ k \in 1..Len(vm.subs)
      BY <2>1, <2>4
    <3>2. (Behind(k)' <=> Behind(k)) /\ (Runtime!Matches(k)' <=> Runtime!Matches(k))
      BY <2>1, <3>1 DEF Behind, Runtime!Matches
    <3>3. QED  BY <2>1, <2>4, <3>1, <3>2 DEF ListInv
  <2>5. QED  BY <2>1, <2>2, <2>3, <2>4 DEF ListInv, Runtime!CountIsOfTheList
<1>4. ASSUME NEW t \in Topic, Runtime!m_publish(t)
      PROVE  ListInv'
  BY <1>4, ListStands DEF Runtime!m_publish
<1>5. QED  BY <1>2, <1>3, <1>4 DEF Runtime!Script

LEMMA DispatchList ==
  ASSUME BerryTypes, ListInv,
         \/ Runtime!DispatchSkip \/ Runtime!DispatchCall \/ Runtime!CallbackEnds
         \/ Runtime!CallbackFails \/ Runtime!DispatchEnds
  PROVE  ListInv'
<1>1. /\ Len(vm.subs) \in Nat /\ RunTypes /\ berry_task.i \in Nat /\ berry_task.n \in Nat
      /\ \A k \in 1..Len(vm.subs) : vm.subs[k].calls \in Nat
  <2>1. berry_task \in TaskType /\ RunTypes
    BY DEF BerryTypes, RunTypes
  <2>2. \A x \in Listener : x.calls \in Nat
    BY DEF Listener
  <2>3. QED  BY <2>1, <2>2, ListIs, Sizes DEF TaskType
<1>2. CASE Runtime!DispatchSkip
  <2>1. /\ berry_task.at = "dispatch" /\ ~Runtime!Matches(berry_task.i)
        /\ berry_task' = [berry_task EXCEPT !.i = berry_task.i + 1] /\ UNCHANGED <<vm, count>>
    BY <1>2 DEF Runtime!DispatchSkip
  <2>2. /\ berry_task'.at = "dispatch" /\ berry_task'.i = berry_task.i + 1
        /\ berry_task'.n = berry_task.n /\ berry_task'.topic = berry_task.topic
        /\ berry_task'.cut = berry_task.cut
    BY <2>1 DEF BerryTypes, RunTypes, TaskType
  <2>3. ASSUME NEW k \in 1..Len(vm.subs)
        PROVE  /\ Behind(k)' <=> Behind(k) \/ k = berry_task.i
               /\ Runtime!Matches(k)' <=> Runtime!Matches(k)
    BY <1>1, <2>1, <2>2 DEF Behind, Runtime!Matches
  <2>4. QED  BY <2>1, <2>2, <2>3 DEF ListInv, Runtime!CountIsOfTheList
<1>3. CASE Runtime!DispatchCall
  <2>1. /\ berry_task.at = "dispatch" /\ berry_task.i <= Len(vm.subs)
        /\ berry_task' = [berry_task EXCEPT !.at = "callback"] /\ count' = count
    BY <1>3 DEF Runtime!DispatchCall, Runtime!Matches
  <2>2. berry_task.i \in 1..Len(vm.subs)
    BY <1>1, <2>1 DEF BerryTypes, AtPlace
  <2>3. /\ berry_task'.at = "callback" /\ berry_task'.i = berry_task.i
        /\ berry_task'.n = berry_task.n /\ berry_task'.topic = berry_task.topic
        /\ berry_task'.cut = berry_task.cut
    BY <1>1, <2>1, TaskMoves
  <2>4. /\ vm'.up = vm.up /\ Len(vm'.subs) = Len(vm.subs)
        /\ \A k \in 1..Len(vm.subs) : k # berry_task.i => vm'.subs[k] = vm.subs[k]
        /\ vm'.subs[berry_task.i].filter = vm.subs[berry_task.i].filter
        /\ vm'.subs[berry_task.i].calls = vm.subs[berry_task.i].calls + 1
        /\ vm'.subs[berry_task.i].late = vm.subs[berry_task.i].late
    BY <1>1, <1>3, <2>2, Called
  <2>5. vm'.subs[berry_task.i].calls = 1
    BY <1>1, <2>1, <2>2, <2>4 DEF ListInv, Behind
  <2>6. ASSUME NEW k \in 1..Len(vm.subs)
        PROVE  /\ Behind(k)' <=> Behind(k) \/ k = berry_task.i
               /\ Runtime!Matches(k)' <=> Runtime!Matches(k)
    BY <1>1, <2>1, <2>3, <2>4 DEF Behind, Runtime!Matches
  <2>7. ASSUME NEW k \in 1..Len(vm.subs)
        PROVE  /\ vm'.subs[k].calls <= 1
               /\ ~Behind(k)' => vm'.subs[k].calls = 0
               /\ ~berry_task'.cut =>
                    /\ k > berry_task'.n => vm'.subs[k].late
                    /\ Behind(k)' /\ Runtime!Matches(k)' /\ ~vm'.subs[k].late => vm'.subs[k].calls = 1
    <3>1. CASE k = berry_task.i
      BY <2>1, <2>3, <2>4, <2>5, <2>6, <3>1 DEF ListInv
    <3>2. CASE k # berry_task.i
      BY <2>1, <2>3, <2>4, <2>6, <3>2 DEF ListInv
    <3>3. QED  BY <3>1, <3>2
  <2>8. QED  BY <2>1, <2>3, <2>4, <2>7 DEF ListInv, Runtime!CountIsOfTheList
<1>4. CASE Runtime!CallbackEnds \/ Runtime!CallbackFails
  <2>1. /\ berry_task.at = "callback" /\ UNCHANGED <<vm, count>>
        /\ berry_task' = [berry_task EXCEPT !.at = "dispatch", !.i = berry_task.i + 1]
    BY <1>4 DEF Runtime!CallbackFails, Runtime!CallbackEnds
  <2>2. berry_task.i < SubsMax + 1
    BY <2>1, Sizes DEF BerryTypes, RunTypes, AtPlace, TaskType
  <2>3. /\ berry_task'.at = "dispatch" /\ berry_task'.i = berry_task.i + 1
        /\ berry_task'.n = berry_task.n /\ berry_task'.topic = berry_task.topic
        /\ berry_task'.cut = berry_task.cut
    BY <1>1, <2>1, <2>2, TaskAdvances
  <2>4. ASSUME NEW k \in 1..Len(vm.subs)
        PROVE  /\ Behind(k)' <=> Behind(k)
               /\ Runtime!Matches(k)' <=> Runtime!Matches(k)
    BY <1>1, <2>1, <2>3 DEF Behind, Runtime!Matches
  <2>5. QED  BY <2>1, <2>3, <2>4 DEF ListInv, Runtime!CountIsOfTheList
<1>5. CASE Runtime!DispatchEnds
  BY <1>5, ListStands, IdleType DEF Runtime!DispatchEnds
<1>6. QED  BY <1>2, <1>3, <1>4, <1>5

LEMMA ListStep ==
  ASSUME BerryTypes, ListInv, [Runtime!Next]_berryvars
  PROVE  ListInv'
<1>1. CASE UNCHANGED berryvars \/ Runtime!Portal \/ Runtime!BrokerTask
           \/ \E t \in Topic : Runtime!LocalRequest(t)
  <2>1. UNCHANGED <<vm, count, berry_task>>
    BY <1>1 DEF berryvars, Runtime!Portal, Runtime!Submit, Runtime!Wait, Runtime!Enqueue,
         Runtime!EnqueueFails, Runtime!Answered, Runtime!GiveUp, Runtime!BrokerTask,
         Runtime!ClientPublish, Runtime!StartDrain, Runtime!Drain, Runtime!DrainOne,
         Runtime!DrainEnds, Runtime!LocalRequest
  <2>2. QED  BY <2>1, ListStands
<1>2. CASE Runtime!Start
  <2>1. /\ \/ vm' = [up |-> TRUE, subs |-> <<>>] /\ count' = 0
           \/ vm' = [up |-> FALSE, subs |-> <<>>]
        /\ berry_task' = [berry_task EXCEPT !.at = "script"]
    BY <1>2 DEF Runtime!Start, Runtime!Construct
  <2>2. berry_task'.at = "script"
    BY <2>1 DEF BerryTypes, RunTypes, TaskType
  <2>3. Len(vm'.subs) = 0 /\ (vm'.up => count' = 0)
    BY <2>1
  <2>4. QED  BY <2>2, <2>3 DEF ListInv, Runtime!CountIsOfTheList
<1>3. CASE Runtime!ScriptEnds
  BY <1>3, ListStands, IdleType DEF Runtime!ScriptEnds
<1>4. ASSUME NEW k \in Runtime!Kind, Runtime!TakeCommand(k)
      PROVE  ListInv'
  <2>1. berry_task'.at \in {"start", "script"}
    BY <1>4, CommandTaken DEF BerryTypes
  <2>2. QED  BY <1>4, <2>1, ListStands DEF Runtime!TakeCommand
<1>5. ASSUME NEW t \in Topic, Runtime!TakeEvent(t)
      PROVE  ListInv'
  <2>1. /\ vm'.up = vm.up /\ Len(vm'.subs) = Len(vm.subs) /\ count' = count
        /\ \A k \in 1..Len(vm.subs) : vm'.subs[k].calls = 0
        /\ \/ berry_task'.at = "idle"
           \/ berry_task'.at = "dispatch" /\ berry_task'.i = 1 /\ berry_task'.n = Len(vm.subs)
    BY <1>5, EventTaken DEF BerryTypes, Runtime!TakeEvent
  <2>2. \A k \in 1..Len(vm.subs) : k \in Nat /\ k > 0
    OBVIOUS
  <2>3. berry_task'.at = "dispatch" =>
          \A k \in 1..Len(vm.subs) : ~Behind(k)' /\ ~(k > berry_task'.n)
    BY <2>1, <2>2, ListIs DEF Behind, BerryTypes
  <2>4. QED  BY <2>1, <2>3 DEF ListInv, Runtime!CountIsOfTheList
<1>6. CASE Runtime!Panic
  <2>1. Runtime!Init'
    BY <1>6 DEF Runtime!Panic, Runtime!Init
  <2>2. QED  BY <2>1, ListInit, PTL
<1>7. QED
  BY <1>1, <1>2, <1>3, <1>4, <1>5, <1>6, ScriptList, DispatchList
  DEF Runtime!Next, Runtime!BerryTask

-----------------------------------------------------------------------------
(* How often a command is in the queue *)

Places(q, k) == {i \in DOMAIN q : q[i] = k}
Often(q, k) == Cardinality(Places(q, k))
One(b) == IF b THEN 1 ELSE 0

LEMMA OftenIsNat ==
  ASSUME NEW S, NEW q \in Seq(S), NEW k
  PROVE  IsFiniteSet(Places(q, k)) /\ Often(q, k) \in Nat
<1>1. Len(q) \in Nat /\ DOMAIN q = 1..Len(q)
  BY LenProperties
<1>2. IsFiniteSet(1..Len(q))
  BY <1>1, FS_Interval
<1>3. Places(q, k) \in SUBSET (1..Len(q))
  BY <1>1 DEF Places
<1>4. IsFiniteSet(Places(q, k))
  BY <1>2, <1>3, FS_Subset
<1>5. QED  BY <1>4, FS_CardinalityType DEF Often

LEMMA OftenWhenEmpty ==
  ASSUME NEW q, q = <<>>, NEW k
  PROVE  Often(q, k) = 0
<1>1. q \in Seq({}) /\ Len(q) = 0
  BY EmptySeq
<1>2. DOMAIN q = 1..0
  BY <1>1, LenProperties
<1>3. Places(q, k) = {}
  BY <1>2 DEF Places
<1>4. QED  BY <1>3, FS_EmptySet DEF Often

LEMMA OftenAppended ==
  ASSUME NEW S, NEW q \in Seq(S), NEW x \in S, NEW k
  PROVE  Often(Append(q, x), k) = Often(q, k) + One(x = k)
<1> DEFINE n == Len(q)  p == Append(q, x)
<1>1. /\ n \in Nat /\ DOMAIN q = 1..n /\ p \in Seq(S) /\ Len(p) = n + 1
      /\ \A i \in 1..n : p[i] = q[i]
      /\ p[n + 1] = x
  BY Appended, LenProperties
<1>2. DOMAIN p = 1..(n + 1)
  BY <1>1, LenProperties
<1> HIDE DEF n, p
<1>3. \A i \in 1..(n + 1) : i \in 1..n \/ i = n + 1
  BY <1>1
<1>4. n + 1 \notin 1..n /\ n + 1 \in 1..(n + 1) /\ \A i \in 1..n : i \in 1..(n + 1)
  BY <1>1
<1>5. Places(p, k) = IF x = k THEN Places(q, k) \cup {n + 1} ELSE Places(q, k)
  <2>1. \A i \in Places(q, k) : i \in Places(p, k)
    BY <1>1, <1>2, <1>4 DEF Places
  <2>2. \A i \in Places(p, k) : i \in Places(q, k) \/ (i = n + 1 /\ x = k)
    BY <1>1, <1>2, <1>3 DEF Places
  <2>3. x = k => n + 1 \in Places(p, k)
    BY <1>1, <1>2, <1>4 DEF Places
  <2>4. QED  BY <2>1, <2>2, <2>3
<1>6. n + 1 \notin Places(q, k)
  BY <1>1, <1>4 DEF Places
<1>7. IsFiniteSet(Places(q, k)) /\ Often(q, k) \in Nat
  BY OftenIsNat
<1>8. Cardinality(Places(q, k) \cup {n + 1}) = Cardinality(Places(q, k)) + 1
  BY <1>6, <1>7, FS_AddElement
<1>9. QED  BY <1>5, <1>7, <1>8 DEF Often, One, p

LEMMA OftenTaken ==
  ASSUME NEW S, NEW q \in Seq(S), q # <<>>, NEW k
  PROVE  Often(q, k) = Often(Tail(q), k) + One(Head(q) = k)
<1> DEFINE n == Len(q)  r == Tail(q)
<1>1. /\ n \in Nat /\ n > 0 /\ DOMAIN q = 1..n /\ r \in Seq(S) /\ Len(r) = n - 1
      /\ \A i \in 1..(n - 1) : r[i] = q[i + 1]
      /\ Head(q) = q[1]
  BY Headed, LenProperties
<1>2. DOMAIN r = 1..(n - 1)
  BY <1>1, LenProperties
<1> HIDE DEF n, r
<1>3. IsFiniteSet(Places(q, k)) /\ IsFiniteSet(Places(r, k)) /\ Often(q, k) \in Nat /\ Often(r, k) \in Nat
  BY <1>1, OftenIsNat
<1> DEFINE later == Places(q, k) \ {1}  f == [i \in Places(r, k) |-> i + 1]
<1>4. Cardinality(later) = Often(r, k)
  <2>1. f \in [Places(r, k) -> later]
    BY <1>1, <1>2 DEF Places
  <2>2. \A i, j \in Places(r, k) : f[i] = f[j] => i = j
    BY <1>1, <1>2 DEF Places
  <2>3. \A j \in later : \E i \in Places(r, k) : f[i] = j
    <3>1. SUFFICES ASSUME NEW j \in later PROVE \E i \in Places(r, k) : f[i] = j
      OBVIOUS
    <3>2. j \in 1..n /\ j # 1 /\ q[j] = k
      BY <1>1 DEF Places
    <3>3. j - 1 \in 1..(n - 1) /\ (j - 1) + 1 = j
      BY <1>1, <3>2
    <3>4. j - 1 \in Places(r, k)
      BY <1>1, <1>2, <3>2, <3>3 DEF Places
    <3>5. QED  BY <3>3, <3>4
  <2> HIDE DEF f, later
  <2>4. f \in Bijection(Places(r, k), later)
    BY <2>1, <2>2, <2>3, Fun_IsBij
  <2>5. ExistsBijection(Places(r, k), later)
    BY <2>4 DEF ExistsBijection
  <2>6. QED  BY <1>3, <2>5, FS_Bijection DEF Often
<1>5. 1 \in Places(q, k) <=> Head(q) = k
  BY <1>1 DEF Places
<1>6. Cardinality(later) = IF 1 \in Places(q, k) THEN Often(q, k) - 1 ELSE Often(q, k)
  <2> HIDE DEF f
  <2>1. QED  BY <1>3, FS_RemoveElement DEF Often
<1> HIDE DEF later
<1>7. QED  BY <1>3, <1>4, <1>5, <1>6 DEF One, r

-----------------------------------------------------------------------------
(* Commands.  The inductive invariant weighs the addresses of a command,   *)
(* the one its caller is about to queue included, against the callers that *)
(* still wait for an answer and those that gave up.                        *)

Load(k) == Often(cmd_q, k) + One(berry_task.kind = k) + One(caller.at = "sending" /\ caller.kind = k)
Owing(k) == One(caller.at # "idle" /\ caller.kind = k /\ ~frames[k].done)

CommandInv ==
  /\ \A k \in Runtime!Kind : Load(k) <= given_up + Owing(k)
  /\ Load("eval") + Load("restart") <= given_up + Owing("eval") + Owing("restart")

\* As long as nobody gave up: what is at an address is the command its caller waits for.
AnswerInv == given_up = 0 =>
  /\ caller.at # "idle" =>
       /\ frames[caller.kind].seq = caller.seq /\ caller.answer = 0
       /\ frames[caller.kind].done => frames[caller.kind].answer = caller.seq
  /\ \A k \in Runtime!Kind : berry_task.kind = k => berry_task.seq = frames[k].seq
  /\ Runtime!AnswersOwn

Weights ==
  /\ \A k \in Runtime!Kind : /\ Often(cmd_q, k) \in Nat /\ Load(k) \in Nat
                             /\ Owing(k) \in Nat /\ Owing(k) <= 1
  /\ given_up \in Nat

LEMMA WeightsAreNat == BerryTypes => Weights
<1> SUFFICES ASSUME BerryTypes PROVE Weights
  OBVIOUS
<1>1. \A k \in Runtime!Kind : Often(cmd_q, k) \in Nat
  BY OftenIsNat DEF BerryTypes, RunTypes, CmdQueue
<1>2. QED  BY <1>1 DEF Weights, Load, Owing, One, BerryTypes, GivenUpOnce

\* A step that takes no more addresses than it takes callers.
LEMMA Weighed ==
  ASSUME BerryTypes, BerryTypes', CommandInv, given_up' = given_up,
         \A k \in Runtime!Kind : Load(k)' + Owing(k) <= Load(k) + Owing(k)'
  PROVE  CommandInv'
<1>1. \A k \in Runtime!Kind : Load(k) \in Nat /\ Owing(k) \in Nat /\ Load(k)' \in Nat /\ Owing(k)' \in Nat
      /\ given_up \in Nat
  <2>1. Weights /\ Weights'
    BY WeightsAreNat, PTL
  <2>2. QED  BY <2>1 DEF Weights
<1>2. "eval" \in Runtime!Kind /\ "restart" \in Runtime!Kind
  BY DEF Runtime!Kind
<1>3. QED  BY <1>1, <1>2 DEF CommandInv

LEMMA AccountsInit == Runtime!Init => CommandInv /\ AnswerInv
<1> SUFFICES ASSUME Runtime!Init PROVE CommandInv /\ AnswerInv
  OBVIOUS
<1>1. \A k \in Runtime!Kind : Often(cmd_q, k) = 0
  BY OftenWhenEmpty DEF Runtime!Init
<1>2. berry_task.kind = "boot" /\ caller.at = "idle" /\ caller.answer = 0 /\ given_up = 0
  BY DEF Runtime!Init, Runtime!Idle, Runtime!Silent
<1>3. \A k \in Runtime!Kind : Load(k) = 0 /\ Owing(k) = 0
  BY <1>1, <1>2 DEF Load, Owing, One, Runtime!Kind
<1>4. QED  BY <1>2, <1>3 DEF CommandInv, AnswerInv, Runtime!AnswersOwn, Runtime!Kind

\* The steps that put no command in the queue and take none from it.
LEMMA OthersLeave ==
  ASSUME BerryTypes,
         \/ UNCHANGED berryvars \/ Runtime!Start \/ Runtime!Script
         \/ \E t \in Topic : Runtime!TakeEvent(t) \/ Runtime!LocalRequest(t)
         \/ Runtime!DispatchSkip \/ Runtime!DispatchCall \/ Runtime!CallbackEnds
         \/ Runtime!CallbackFails \/ Runtime!DispatchEnds \/ Runtime!BrokerTask
  PROVE  /\ UNCHANGED <<caller, frames, given_up>>
         /\ \A k \in Runtime!Kind : Often(cmd_q, k)' = Often(cmd_q, k)
         /\ \/ berry_task'.kind = berry_task.kind /\ berry_task'.seq = berry_task.seq
            \/ berry_task.kind = "none" /\ berry_task'.kind = "none"
<1>1. RunTypes /\ AtPlace /\ cmd_q \in CmdQueue
  BY DEF BerryTypes, RunTypes
<1>2. ASSUME NEW t \in Topic, NEW k \in Runtime!Kind
      PROVE  t # k
  BY Sizes
<1>3. ASSUME NEW t \in Topic, Runtime!PostEvent(t)
      PROVE  \A k \in Runtime!Kind : Often(cmd_q, k)' = Often(cmd_q, k)
  <2>1. cmd_q' = cmd_q \/ cmd_q' = Append(cmd_q, t)
    BY <1>3 DEF Runtime!PostEvent, Runtime!Post
  <2>2. \A k \in Runtime!Kind : Often(cmd_q, k) \in Nat
    BY WeightsAreNat DEF Weights
  <2>3. \A k \in Runtime!Kind : Often(Append(cmd_q, t), k) = Often(cmd_q, k) + One(t = k)
    BY <1>1, OftenAppended DEF CmdQueue
  <2>4. \A k \in Runtime!Kind : Often(Append(cmd_q, t), k) = Often(cmd_q, k)
    BY <1>2, <2>2, <2>3 DEF One
  <2>5. QED  BY <2>1, <2>4
<1>4. CASE UNCHANGED berryvars \/ \E t \in Topic : Runtime!LocalRequest(t)
  BY <1>4 DEF berryvars, Runtime!LocalRequest, Runtime!portal
<1>5. CASE Runtime!Start
  <2>1. berry_task' = [berry_task EXCEPT !.at = "script"] /\ cmd_q' = cmd_q
        /\ UNCHANGED <<caller, frames, given_up>>
    BY <1>5 DEF Runtime!Start, Runtime!portal
  <2>2. QED  BY <1>1, <2>1, TaskMoves
<1>6. CASE Runtime!Script
  <2>1. cmd_q' = cmd_q /\ UNCHANGED <<caller, frames, given_up>>
    BY <1>6 DEF Runtime!Script, Runtime!m_subscribe, Runtime!m_unsubscribe, Runtime!m_publish, Runtime!portal
  <2>2. berry_task'.kind = berry_task.kind /\ berry_task'.seq = berry_task.seq
    BY <1>1, <1>6, Unsubscribed DEF Runtime!Script, Runtime!m_subscribe, Runtime!m_publish
  <2>3. QED  BY <2>1, <2>2
<1>7. ASSUME NEW t \in Topic, Runtime!TakeEvent(t)
      PROVE  /\ UNCHANGED <<caller, frames, given_up>>
             /\ \A k \in Runtime!Kind : Often(cmd_q, k)' = Often(cmd_q, k)
             /\ berry_task.kind = "none" /\ berry_task'.kind = "none"
  <2>1. /\ cmd_q # <<>> /\ Head(cmd_q) = t /\ cmd_q' = Tail(cmd_q) /\ berry_task.at = "idle"
        /\ UNCHANGED <<caller, frames, given_up>>
    BY <1>7 DEF Runtime!TakeEvent, Runtime!portal
  <2>2. \A k \in Runtime!Kind : Often(cmd_q, k) = Often(Tail(cmd_q), k) + One(t = k)
    BY <1>1, <2>1, OftenTaken DEF CmdQueue
  <2>3. \A k \in Runtime!Kind : Often(Tail(cmd_q), k) \in Nat
    BY <1>1, <2>1, Headed, OftenIsNat DEF CmdQueue
  <2>4. \A k \in Runtime!Kind : Often(cmd_q, k) = Often(Tail(cmd_q), k)
    BY <1>2, <2>2, <2>3 DEF One
  <2>5. berry_task.kind = "none" /\ berry_task'.kind = "none"
    BY <1>1, <1>7, <2>1, EventTaken DEF AtPlace
  <2>6. QED  BY <2>1, <2>4, <2>5
<1>8. CASE \/ Runtime!DispatchSkip \/ Runtime!DispatchCall \/ Runtime!CallbackEnds
           \/ Runtime!CallbackFails \/ Runtime!DispatchEnds
  <2>1. cmd_q' = cmd_q /\ UNCHANGED <<caller, frames, given_up>>
        /\ berry_task.at \in {"dispatch", "callback"}
    BY <1>8 DEF Runtime!DispatchSkip, Runtime!DispatchCall, Runtime!CallbackEnds,
         Runtime!CallbackFails, Runtime!DispatchEnds, Runtime!portal
  <2>2. BerryTypes'
    BY <1>8, DispatchTypes
  <2>3. berry_task'.at \in {"dispatch", "callback", "idle"}
    BY <1>1, <1>8, IdleType DEF Runtime!DispatchSkip, Runtime!DispatchCall, Runtime!CallbackEnds,
       Runtime!CallbackFails, Runtime!DispatchEnds, RunTypes, TaskType
  <2>4. berry_task.kind = "none" /\ berry_task'.kind = "none"
    BY <1>1, <2>1, <2>2, <2>3 DEF AtPlace, BerryTypes
  <2>5. QED  BY <2>1, <2>4
<1>9. CASE Runtime!BrokerTask
  <2>1. berry_task' = berry_task /\ UNCHANGED <<caller, frames, given_up>>
    BY <1>9 DEF Runtime!BrokerTask, Runtime!ClientPublish, Runtime!StartDrain, Runtime!Drain,
         Runtime!DrainOne, Runtime!DrainEnds, Runtime!portal
  <2>2. cmd_q' = cmd_q \/ \E t \in Topic : Runtime!PostEvent(t)
    <3>1. pub_q # <<>> => Head(pub_q) \in Topic
      BY <1>1, Headed DEF RunTypes
    <3>2. QED  BY <1>9, <3>1 DEF Runtime!BrokerTask, Runtime!ClientPublish, Runtime!StartDrain,
             Runtime!Drain, Runtime!DrainOne, Runtime!DrainEnds
  <2>3. \A k \in Runtime!Kind : Often(cmd_q, k)' = Often(cmd_q, k)
    BY <1>3, <2>2
  <2>4. QED  BY <2>1, <2>3
<1>10. QED  BY <1>4, <1>5, <1>6, <1>7, <1>8, <1>9

LEMMA OthersAccounts ==
  ASSUME BerryTypes, BerryTypes', CommandInv, AnswerInv,
         UNCHANGED <<caller, frames, given_up>>,
         \A k \in Runtime!Kind : Often(cmd_q, k)' = Often(cmd_q, k),
         \/ berry_task'.kind = berry_task.kind /\ berry_task'.seq = berry_task.seq
         \/ berry_task.kind = "none" /\ berry_task'.kind = "none"
  PROVE  CommandInv' /\ AnswerInv'
<1>1. \A k \in Runtime!Kind : Load(k)' = Load(k) /\ Owing(k)' = Owing(k)
  BY DEF Load, Owing, Runtime!Kind
<1>2. CommandInv'
  <2>1. Weights
    BY WeightsAreNat
  <2>2. QED  BY <1>1, <2>1, Weighed DEF Weights
<1>3. AnswerInv'
  BY DEF AnswerInv, Runtime!AnswersOwn, Runtime!Kind
<1>4. QED  BY <1>2, <1>3

\* The commands of a portal that waits for nothing are nowhere, unless one was given up.
LEMMA IdleOwesNothing ==
  ASSUME BerryTypes, CommandInv, given_up = 0, NEW k \in Runtime!Kind,
         caller.at = "idle" \/ caller.kind # k \/ frames[k].done
  PROVE  Often(cmd_q, k) = 0 /\ berry_task.kind # k /\ ~(caller.at = "sending" /\ caller.kind = k)
<1>1. Load(k) <= 0
  <2>1. Owing(k) = 0 /\ Load(k) <= given_up + Owing(k) /\ Load(k) \in Nat
    BY WeightsAreNat DEF Weights, CommandInv, Owing, One
  <2>2. QED  BY <2>1
<1>2. QED  BY <1>1, WeightsAreNat DEF Weights, Load, One

LEMMA PortalAccounts ==
  ASSUME BerryTypes, BerryTypes', CommandInv, AnswerInv, Runtime!Portal
  PROVE  CommandInv' /\ AnswerInv'
<1>1. berry_task' = berry_task
  BY DEF Runtime!Portal, Runtime!Wait, Runtime!Submit, Runtime!Enqueue, Runtime!EnqueueFails,
         Runtime!Answered, Runtime!GiveUp
<1>2. Weights /\ Weights' /\ caller \in CallerType /\ caller.kind \in Runtime!Kind /\ caller.seq \in Nat
  <2>1. Weights /\ Weights'
    BY WeightsAreNat, PTL
  <2>2. QED  BY <2>1 DEF BerryTypes, RunTypes, CallerType
<1>3. ASSUME NEW k \in Runtime!Kind, Runtime!Submit(k)
      PROVE  CommandInv' /\ AnswerInv'
  <2>1. /\ caller.at = "idle" /\ cmd_q' = cmd_q /\ given_up' = given_up
        /\ caller'.at = "sending" /\ caller'.kind = k /\ caller'.seq = caller.seq + 1
        /\ caller'.answer = 0
        /\ frames' = [frames EXCEPT ![k] = [seq |-> caller.seq + 1, done |-> FALSE, answer |-> 0]]
    BY <1>3 DEF Runtime!Submit
  <2>2. /\ frames'[k].seq = caller.seq + 1 /\ ~frames'[k].done
        /\ \A j \in Runtime!Kind : j # k => frames'[j] = frames[j]
    BY <2>1 DEF BerryTypes, RunTypes
  <2>3. ASSUME NEW j \in Runtime!Kind
        PROVE  Load(j)' + Owing(j) <= Load(j) + Owing(j)'
    <3>1. Often(cmd_q', j) = Often(cmd_q, j) /\ Often(cmd_q, j) \in Nat
      BY <1>2, <2>1 DEF Weights
    <3>2. CASE j = k
      BY <1>1, <2>1, <2>2, <3>1, <3>2 DEF Load, Owing, One
    <3>3. CASE j # k
      BY <1>1, <2>1, <2>2, <3>1, <3>3 DEF Load, Owing, One
    <3>4. QED  BY <3>2, <3>3
  <2>4. CommandInv'
    BY <2>1, <2>3, Weighed
  <2>5. ASSUME given_up = 0
        PROVE  berry_task.kind # k
    BY <2>1, <2>5, IdleOwesNothing
  <2>6. AnswerInv'
    BY <1>1, <2>1, <2>2, <2>5 DEF AnswerInv, Runtime!AnswersOwn
  <2>7. QED  BY <2>4, <2>6
<1>4. CASE Runtime!Enqueue
  <2>1. /\ caller.at = "sending" /\ cmd_q' = Append(cmd_q, caller.kind)
        /\ caller' = [caller EXCEPT !.at = "waiting"] /\ frames' = frames /\ given_up' = given_up
    BY <1>4 DEF Runtime!Enqueue
  <2>2. caller'.at = "waiting" /\ caller'.kind = caller.kind /\ caller'.seq = caller.seq
        /\ caller'.answer = caller.answer
    BY <2>1, CallerMoves DEF BerryTypes
  <2>3. ASSUME NEW j \in Runtime!Kind
        PROVE  Load(j)' + Owing(j) <= Load(j) + Owing(j)'
    <3>1. cmd_q \in Seq(Runtime!Kind \cup Topic) /\ caller.kind \in Runtime!Kind \cup Topic
      BY <1>2 DEF BerryTypes, RunTypes, CmdQueue
    <3>2. Often(cmd_q', j) = Often(cmd_q, j) + One(caller.kind = j) /\ Often(cmd_q, j) \in Nat
      BY <1>2, <2>1, <3>1, OftenAppended DEF Weights
    <3>3. QED  BY <1>1, <2>1, <2>2, <3>2 DEF Load, Owing, One
  <2>4. CommandInv'
    BY <2>1, <2>3, Weighed
  <2>5. AnswerInv'
    BY <1>1, <2>1, <2>2 DEF AnswerInv, Runtime!AnswersOwn
  <2>6. QED  BY <2>4, <2>5
<1>5. CASE Runtime!EnqueueFails
  <2>1. /\ caller.at = "sending" /\ cmd_q' = cmd_q
        /\ caller' = [caller EXCEPT !.at = "idle"] /\ frames' = frames /\ given_up' = given_up
    BY <1>5 DEF Runtime!EnqueueFails
  <2>2. caller'.at = "idle" /\ caller'.answer = caller.answer
    BY <2>1, CallerMoves DEF BerryTypes
  <2>3. ASSUME NEW j \in Runtime!Kind
        PROVE  Load(j)' + Owing(j) <= Load(j) + Owing(j)'
    <3>1. Often(cmd_q', j) = Often(cmd_q, j) /\ Often(cmd_q, j) \in Nat
      BY <1>2, <2>1 DEF Weights
    <3>2. QED  BY <1>1, <2>1, <2>2, <3>1 DEF Load, Owing, One
  <2>4. CommandInv'
    BY <2>1, <2>3, Weighed
  <2>5. AnswerInv'
    BY <1>1, <2>1, <2>2 DEF AnswerInv, Runtime!AnswersOwn
  <2>6. QED  BY <2>4, <2>5
<1>6. CASE Runtime!Answered
  <2>1. /\ caller.at = "waiting" /\ frames[caller.kind].done /\ cmd_q' = cmd_q
        /\ frames' = frames /\ given_up' = given_up
        /\ caller' = [caller EXCEPT !.at = "idle", !.answer = frames[caller.kind].answer]
    BY <1>6 DEF Runtime!Answered
  <2>2. caller'.at = "idle" /\ caller'.answer = frames[caller.kind].answer /\ caller'.seq = caller.seq
    BY <1>2, <2>1 DEF CallerType
  <2>3. ASSUME NEW j \in Runtime!Kind
        PROVE  Load(j)' + Owing(j) <= Load(j) + Owing(j)'
    <3>1. Often(cmd_q', j) = Often(cmd_q, j) /\ Often(cmd_q, j) \in Nat
      BY <1>2, <2>1 DEF Weights
    <3>2. QED  BY <1>1, <2>1, <2>2, <3>1 DEF Load, Owing, One
  <2>4. CommandInv'
    BY <2>1, <2>3, Weighed
  <2>5. AnswerInv'
    BY <1>1, <2>1, <2>2 DEF AnswerInv, Runtime!AnswersOwn
  <2>6. QED  BY <2>4, <2>5
<1>7. CASE Runtime!GiveUp
  <2>1. /\ caller.at = "waiting" /\ ~frames[caller.kind].done /\ cmd_q' = cmd_q
        /\ frames' = frames /\ given_up' = given_up + 1
        /\ caller' = [caller EXCEPT !.at = "idle"]
    BY <1>7 DEF Runtime!GiveUp
  <2>2. caller'.at = "idle"
    BY <2>1, CallerMoves DEF BerryTypes
  <2>3. ASSUME NEW j \in Runtime!Kind
        PROVE  Load(j)' = Load(j) /\ Owing(j)' = 0 /\ Owing(j) = One(caller.kind = j)
    <3>1. Often(cmd_q', j) = Often(cmd_q, j) /\ Often(cmd_q, j) \in Nat
      BY <1>2, <2>1 DEF Weights
    <3>2. QED  BY <1>1, <2>1, <2>2, <3>1 DEF Load, Owing, One
  <2>4. CommandInv'
    <3>1. Owing("eval") + Owing("restart") = 1
      BY <1>2, <2>3 DEF One, Runtime!Kind
    <3>2. "eval" \in Runtime!Kind /\ "restart" \in Runtime!Kind
      BY DEF Runtime!Kind
    <3>3. QED  BY <1>2, <2>1, <2>3, <3>1, <3>2 DEF CommandInv, Weights, One
  <2>5. AnswerInv'
    BY <1>2, <2>1 DEF AnswerInv, Weights
  <2>6. QED  BY <2>4, <2>5
<1>8. QED  BY <1>3, <1>4, <1>5, <1>6, <1>7 DEF Runtime!Portal, Runtime!Wait

LEMMA TakeAccounts ==
  ASSUME BerryTypes, BerryTypes', CommandInv, AnswerInv,
         NEW k \in Runtime!Kind, Runtime!TakeCommand(k)
  PROVE  CommandInv' /\ AnswerInv'
<1>1. /\ berry_task.at = "idle" /\ cmd_q # <<>> /\ Head(cmd_q) = k /\ cmd_q' = Tail(cmd_q)
      /\ UNCHANGED <<caller, frames, given_up>>
  BY DEF Runtime!TakeCommand, Runtime!portal
<1>2. berry_task.kind = "none" /\ berry_task'.kind = k /\ berry_task'.seq = frames[k].seq
  BY <1>1, CommandTaken DEF BerryTypes, AtPlace
<1>3. ASSUME NEW j \in Runtime!Kind
      PROVE  Load(j)' + Owing(j) <= Load(j) + Owing(j)'
  <2>1. cmd_q \in Seq(Runtime!Kind \cup Topic)
    BY DEF BerryTypes, RunTypes, CmdQueue
  <2>2. Often(cmd_q, j) = Often(cmd_q', j) + One(k = j)
    BY <1>1, <2>1, OftenTaken
  <2>3. Often(cmd_q', j) \in Nat /\ j # "none"
    BY <1>1, <2>1, Headed, OftenIsNat DEF Runtime!Kind
  <2>4. QED  BY <1>1, <1>2, <2>2, <2>3 DEF Load, Owing, One
<1>4. CommandInv'
  BY <1>1, <1>3, Weighed
<1>5. AnswerInv'
  BY <1>1, <1>2 DEF AnswerInv, Runtime!AnswersOwn
<1>6. QED  BY <1>4, <1>5

LEMMA EndAccounts ==
  ASSUME BerryTypes, BerryTypes', CommandInv, AnswerInv, Runtime!ScriptEnds
  PROVE  CommandInv' /\ AnswerInv'
<1>1. /\ berry_task' = Runtime!Idle /\ UNCHANGED <<caller, cmd_q, given_up>>
      /\ frames' = IF berry_task.kind \in Runtime!Kind
                   THEN [frames EXCEPT ![berry_task.kind].done = TRUE,
                                       ![berry_task.kind].answer = berry_task.seq]
                   ELSE frames
  BY DEF Runtime!ScriptEnds
<1>2. berry_task'.kind = "none" /\ "none" \notin Runtime!Kind
  BY <1>1, IdleType DEF Runtime!Kind
<1>3. \A j \in Runtime!Kind :
        IF berry_task.kind = j
        THEN frames'[j].done /\ frames'[j].answer = berry_task.seq /\ frames'[j].seq = frames[j].seq
        ELSE frames'[j] = frames[j]
  <2>1. CASE berry_task.kind \notin Runtime!Kind
    BY <1>1, <2>1
  <2>2. CASE berry_task.kind \in Runtime!Kind
    <3> DEFINE k == berry_task.kind  g == [frames EXCEPT ![k].done = TRUE]
    <3>1. /\ g \in [Runtime!Kind -> FrameType] /\ g[k].done /\ g[k].seq = frames[k].seq
          /\ \A j \in Runtime!Kind : j # k => g[j] = frames[j]
      BY <2>2 DEF BerryTypes, RunTypes, FrameType
    <3>2. frames' = [g EXCEPT ![k].answer = berry_task.seq]
      BY <1>1, <2>2
    <3> HIDE DEF g
    <3>3. QED  BY <2>2, <3>1, <3>2 DEF FrameType
  <2>3. QED  BY <2>1, <2>2
<1>4. ASSUME NEW j \in Runtime!Kind
      PROVE  Load(j)' + Owing(j) <= Load(j) + Owing(j)'
  <2>1. Often(cmd_q', j) = Often(cmd_q, j) /\ Often(cmd_q, j) \in Nat
    BY <1>1, WeightsAreNat DEF Weights
  <2>2. berry_task'.kind # j /\ caller' = caller
    BY <1>1, <1>2
  <2>3. CASE berry_task.kind = j
    <3>1. frames'[j].done
      BY <1>3, <2>3
    <3>2. QED  BY <2>1, <2>2, <2>3, <3>1 DEF Load, Owing, One
  <2>4. CASE berry_task.kind # j
    <3>1. frames'[j] = frames[j]
      BY <1>3, <2>4
    <3>2. QED  BY <2>1, <2>2, <2>4, <3>1 DEF Load, Owing, One
  <2>5. QED  BY <2>3, <2>4
<1>5. CommandInv'
  BY <1>1, <1>4, Weighed
<1>6. AnswerInv'
  <2>1. ASSUME given_up = 0, berry_task.kind \in Runtime!Kind
        PROVE  caller.at # "idle" /\ caller.kind = berry_task.kind
    BY <2>1, IdleOwesNothing
  <2>2. caller.kind \in Runtime!Kind
    BY DEF BerryTypes, RunTypes, CallerType
  <2>3. QED  BY <1>1, <1>2, <1>3, <2>1, <2>2 DEF AnswerInv, Runtime!AnswersOwn
<1>7. QED  BY <1>5, <1>6

LEMMA AccountsStep ==
  ASSUME BerryTypes, BerryTypes', CommandInv, AnswerInv, [Runtime!Next]_berryvars
  PROVE  CommandInv' /\ AnswerInv'
<1>1. CASE Runtime!Panic
  <2>1. Runtime!Init'
    BY <1>1 DEF Runtime!Panic, Runtime!Init
  <2>2. QED  BY <2>1, AccountsInit, PTL
<1>2. CASE \/ UNCHANGED berryvars \/ Runtime!Start \/ Runtime!Script
           \/ \E t \in Topic : Runtime!TakeEvent(t) \/ Runtime!LocalRequest(t)
           \/ Runtime!DispatchSkip \/ Runtime!DispatchCall \/ Runtime!CallbackEnds
           \/ Runtime!CallbackFails \/ Runtime!DispatchEnds \/ Runtime!BrokerTask
  <2>1. /\ UNCHANGED <<caller, frames, given_up>>
        /\ \A k \in Runtime!Kind : Often(cmd_q, k)' = Often(cmd_q, k)
        /\ \/ berry_task'.kind = berry_task.kind /\ berry_task'.seq = berry_task.seq
           \/ berry_task.kind = "none" /\ berry_task'.kind = "none"
    BY <1>2, OthersLeave
  <2>2. QED  BY <2>1, OthersAccounts
<1>3. QED
  BY <1>1, <1>2, PortalAccounts, TakeAccounts, EndAccounts DEF Runtime!Next, Runtime!BerryTask

-----------------------------------------------------------------------------
(* The services as they are checked: whichever part runs, the runtime takes *)
(* a step of its own or none.                                               *)

BerryInv == BerryTypes /\ ListInv /\ CommandInv /\ AnswerInv

LEMMA RuntimeHolds == MCSpec => []BerryInv
<1>1. MCInit => BerryInv
  BY BerryTypesInit, ListInit, AccountsInit DEF MCInit, BerryInv
<1>2. BerryInv /\ [MCNext]_<<part, vars, blobvars, berryvars>> => BerryInv'
  <2> SUFFICES ASSUME BerryInv, [MCNext]_<<part, vars, blobvars, berryvars>> PROVE BerryInv'
    OBVIOUS
  <2>1. [Runtime!Next]_berryvars
    BY DEF MCNext
  <2>2. BerryTypes'
    BY <2>1, BerryTypesStep DEF BerryInv
  <2>3. ListInv' /\ CommandInv' /\ AnswerInv'
    BY <2>1, <2>2, ListStep, AccountsStep DEF BerryInv
  <2>4. QED  BY <2>2, <2>3 DEF BerryInv
<1>3. QED  BY <1>1, <1>2, PTL DEF MCSpec

\* The count the broker task reads is that of the list in the interpreter, and a listener
\* hears an event once, and all that match have heard it when the dispatch ends
\* (m_subscribe, m_unsubscribe, vm_construct, dispatch_topic).
THEOREM ListenersHearOnce == MCSpec => []ListenersServed
<1>1. BerryInv => ListenersServed
  <2> SUFFICES ASSUME BerryInv PROVE Runtime!CountIsOfTheList /\ Runtime!HeardOnce
    BY DEF ListenersServed
  <2>1. Runtime!CountIsOfTheList /\ \A k \in DOMAIN vm.subs : vm.subs[k].calls <= 1
    BY ListIs DEF BerryInv, BerryTypes, ListInv
  <2>2. ASSUME berry_task.at = "dispatch", berry_task.i > berry_task.n, ~berry_task.cut,
               NEW k \in DOMAIN vm.subs, Runtime!Matches(k), ~vm.subs[k].late
        PROVE  vm.subs[k].calls = 1
    <3>1. k \in 1..Len(vm.subs) /\ k \in Nat
      BY ListIs DEF BerryInv, BerryTypes
    <3>2. ~(k > berry_task.n)
      BY <2>2, <3>1 DEF BerryInv, ListInv
    <3>3. berry_task.i \in Nat /\ berry_task.n \in Nat
      BY Sizes DEF BerryInv, BerryTypes, RunTypes, TaskType
    <3>4. Behind(k)
      BY <2>2, <3>1, <3>2, <3>3 DEF Behind
    <3>5. QED  BY <2>2, <3>1, <3>4 DEF BerryInv, ListInv
  <2>3. QED  BY <2>1, <2>2 DEF Runtime!HeardOnce
<1>2. QED  BY <1>1, RuntimeHolds, PTL

\* A caller that gives up leaves one address behind and no more come of it, and a caller
\* gets the answer to its own command as long as none gave up (submit_cmd).
THEOREM CommandsAreAccounted == MCSpec => []CommandsAccounted
<1>1. BerryInv => CommandsAccounted
  <2> SUFFICES ASSUME BerryInv PROVE Runtime!OneLeftPerTimeout /\ Runtime!AnswersOwn
    BY DEF CommandsAccounted
  <2>1. "eval" \in Runtime!Kind /\ "restart" \in Runtime!Kind
    BY DEF Runtime!Kind
  <2>2. Weights
    BY WeightsAreNat DEF BerryInv
  <2>3. ASSUME NEW k \in Runtime!Kind
        PROVE  /\ Runtime!Held(k) = Often(cmd_q, k) + One(berry_task.kind = k)
               /\ Runtime!Held(k) \in Nat /\ Runtime!Owed(k) \in Nat
               /\ Runtime!Held(k) + Owing(k) <= Load(k) + Runtime!Owed(k)
    <3>1. Runtime!Held(k) = Often(cmd_q, k) + One(berry_task.kind = k)
      BY SameCardinality DEF Runtime!Held, Often, Places, One
    <3>2. Often(cmd_q, k) \in Nat
      BY <2>2 DEF Weights
    <3>3. caller.at \in {"idle", "sending", "waiting"}
      BY DEF BerryInv, BerryTypes, RunTypes, CallerType
    <3>4. QED  BY <3>1, <3>2, <3>3 DEF Load, Owing, Runtime!Owed, One
  <2>4. Runtime!OneLeftPerTimeout
    <3>1. \A h1, h2, w1, w2, l1, l2, o1, o2, g \in Nat :
            h1 + w1 <= l1 + o1 /\ h2 + w2 <= l2 + o2 /\ l1 + l2 <= g + w1 + w2
            => h1 + h2 <= g + o1 + o2
      OBVIOUS
    <3>2. Load("eval") + Load("restart") <= given_up + Owing("eval") + Owing("restart")
      BY DEF BerryInv, CommandInv
    <3>3. QED  BY <2>1, <2>2, <2>3, <3>1, <3>2 DEF Runtime!OneLeftPerTimeout, Weights
  <2>5. Runtime!AnswersOwn
    <3>1. CASE given_up = 0
      BY <3>1 DEF BerryInv, AnswerInv
    <3>2. CASE given_up # 0
      BY <3>2 DEF Runtime!AnswersOwn
    <3>3. QED  BY <3>1, <3>2
  <2>6. QED  BY <2>4, <2>5
<1>2. QED  BY <1>1, RuntimeHolds, PTL

\* The queues, the list, the counts and the records of the runtime keep their types and
\* their bounds (berry_runtime.c, berry_mod_mqtt.c).
THEOREM RuntimeTypes == MCSpec => []Runtime!TypeOK
<1>1. BerryInv => Runtime!TypeOK
  <2> SUFFICES ASSUME BerryInv PROVE Runtime!TypeOK
    OBVIOUS
  <2>1. RunTypes /\ GivenUpOnce
    BY DEF BerryInv, BerryTypes
  <2>2. vm.subs \in Seq(Runtime!Listeners)
    <3>1. /\ vm.subs \in Seq(Listener) /\ Len(vm.subs) \in Nat /\ DOMAIN vm.subs = 1..Len(vm.subs)
          /\ \A k \in 1..Len(vm.subs) : vm.subs[k] \in Listener /\ vm.subs[k].calls <= 1
          /\ Len(vm.subs) <= SubsMax
      BY <2>1, ListIs DEF BerryInv, ListInv, RunTypes
    <3>2. \A k \in 1..Len(vm.subs) : vm.subs[k] \in Runtime!Listeners
      BY <3>1, Sizes DEF Runtime!Listeners, Listener
    <3>3. vm.subs \in [1..Len(vm.subs) -> Runtime!Listeners]
      BY <3>1, <3>2
    <3>4. QED  BY <3>1, <3>3, FunctionIsSeq
  <2>3. vm.up \in BOOLEAN
    BY <2>1 DEF RunTypes, VmType
  <2>4. given_up \in 0..CallMax
    <3>1. caller.seq \in 0..CallMax
      BY <2>1 DEF RunTypes, CallerType
    <3>2. QED  BY <2>1, <3>1, Sizes DEF GivenUpOnce
  <2>5. QED
    BY <2>1, <2>2, <2>3, <2>4
    DEF Runtime!TypeOK, RunTypes, CmdQueue, FrameType, CallerType, TaskType
<1>2. QED  BY <1>1, RuntimeHolds, PTL

-----------------------------------------------------------------------------
(* The text of the schedules, and the types of all three *)

LEMMA TextHolds == MCSpec => []Text!BlobInv
<1>1. MCInit => Text!BlobInv
  BY TextSizes, Text!BlobInvInit DEF MCInit
<1>2. Text!BlobInv /\ [MCNext]_<<part, vars, blobvars, berryvars>> => Text!BlobInv'
  <2>1. [MCNext]_<<part, vars, blobvars, berryvars>> => [Text!Next]_Text!vars
    BY DEF MCNext, blobvars, Text!vars
  <2>2. QED  BY <2>1, TextSizes, Text!BlobInvStep
<1>3. QED  BY <1>1, <1>2, PTL DEF MCSpec

\* What the next boot loads is what was saved, whatever characters the strings hold, and
\* what is armed, by a form, a body or that boot, which does not validate, can be published
\* (append_json_string, parse_json_string, serialize_blob, parse_slot_object, load_from_nvs).
THEOREM SchedulesSurvive == MCSpec => []BlobHolds
<1>1. Text!BlobInv => BlobHolds
  BY TextSizes, Text!BlobInvGivesBack, Text!BlobInvPublishable DEF BlobHolds
<1>2. QED  BY <1>1, TextHolds, PTL

LEMMA TimersHold == MCSpec => []TypeOK
<1>1. MCInit => TypeOK /\ HeldInSweep
  BY TypesInit DEF MCInit
<1>2. TypeOK /\ HeldInSweep /\ [MCNext]_<<part, vars, blobvars, berryvars>> => TypeOK' /\ HeldInSweep'
  <2>1. [MCNext]_<<part, vars, blobvars, berryvars>> => [Next]_vars
    BY DEF MCNext
  <2>2. TypeOK /\ HeldInSweep /\ UNCHANGED vars => TypeOK' /\ HeldInSweep'
    BY DEF vars, HeldInSweep, TypeOK
  <2>3. QED  BY <2>1, <2>2, TypesStep
<1>3. QED  BY <1>1, <1>2, PTL DEF MCSpec

PartIs == part \in {"timers", "text", "berry"}

LEMMA OnePart == MCSpec => []PartIs
<1>1. MCInit => PartIs
  BY DEF MCInit, PartIs
<1>2. PartIs /\ [MCNext]_<<part, vars, blobvars, berryvars>> => PartIs'
  BY DEF MCNext, PartIs
<1>3. QED  BY <1>1, <1>2, PTL DEF MCSpec

\* The schedule, its text and the runtime keep their types together.
THEOREM ServicesTypes == MCSpec => []TypesOK
<1>1. PartIs /\ TypeOK /\ Text!BlobInv /\ Runtime!TypeOK => TypesOK
  BY Text!BlobInvTypes DEF PartIs, TypesOK
<1>2. QED  BY <1>1, OnePart, TimersHold, TextHolds, RuntimeTypes, PTL
=============================================================================
