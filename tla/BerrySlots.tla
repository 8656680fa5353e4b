----------------------------- MODULE BerrySlots -----------------------------
(***************************************************************************)
(* The scripts kept in NVS (berry_runtime.c): four slots with a script and *)
(* an enable flag, the one-time migration of the single script of earlier  *)
(* releases, the saves of the portal and the autoexec of the berry task.   *)
(*                                                                         *)
(* Every NVS write is a step of its own and may fail, and power may go     *)
(* between any two.  The portal serves requests before berry_init has run  *)
(* (main.c:213 and 327), and autoexec reads a slot in two steps while the  *)
(* portal may be writing it.  Labels are for display and are left out.     *)
(***************************************************************************)
EXTENDS Integers, Sequences

CONSTANTS
  NSlots,       \* BERRY_SLOT_COUNT
  ScriptMax,    \* BERRY_SCRIPT_MAX
  Script,       \* the scripts a user may upload, sequences of lines; <<>> is one
  Legacy,       \* the single scripts of an earlier release, <<>> for none
  RestartsMax,  \* bound: restarts in the command queue
  SavesMax      \* bound: saves

Slot == 0..(NSlots - 1)
Absent == <<"absent">>
NoOp == [at |-> "none"]

VARIABLES
  sc, en,       \* the keys berry_sN_sc and berry_sN_en
  legacy,       \* the keys berry_script and berry_en
  boot,         \* where berry_init is: "probe", "script", "enabled", "erase", "ready"
  op,           \* the save the portal is in
  restarts,     \* restart commands in the queue
  exec, go,     \* the slot autoexec is at, NSlots when idle; its flag was set
  vm,           \* the script each slot has run in this interpreter
  old,          \* history: the script an earlier release left
  saved,        \* history: what the user last asked of a slot
  sure,         \* history: slots where no write failed, was cut off or met the migration
  kept,         \* history: the migration met no failed write
  current,      \* history: no restart was refused since the last one was queued
  saves         \* bound: the saves so far

vars == <<sc, en, legacy, boot, op, restarts, exec, go, vm, old, saved, sure, kept, current, saves>>

TypeOK ==
  /\ \A s \in Slot : sc[s] = Absent \/ Len(sc[s]) <= ScriptMax
  /\ en \in [Slot -> BOOLEAN]
  /\ boot \in {"probe", "script", "enabled", "erase", "ready"}
  /\ op.at \in {"none", "script", "enabled", "restart"}
  /\ restarts \in 0..RestartsMax
  /\ exec \in 0..NSlots /\ go \in BOOLEAN
  /\ \A s \in Slot : Len(vm[s]) <= ScriptMax

Init ==
  /\ sc = [s \in Slot |-> Absent] /\ en = [s \in Slot |-> FALSE]
  /\ legacy \in [script : Legacy, enabled : BOOLEAN]
  /\ boot = "probe" /\ op = NoOp /\ restarts = 0
  /\ exec = NSlots /\ go = FALSE
  /\ vm = [s \in Slot |-> <<>>]
  /\ old = legacy.script
  /\ saved = [s \in Slot |-> [script |-> Absent, enabled |-> FALSE]]
  /\ sure = [s \in Slot |-> TRUE] /\ kept = TRUE /\ current = TRUE
  /\ saves = 0

\* nvs_slot_set_script cuts a script to size without a word.
Fit(script) == SubSeq(script, 1, IF Len(script) > ScriptMax THEN ScriptMax ELSE Len(script))

\* What the module of the instance must assume: there is a slot 0, and scripts are
\* sequences, none of which is Absent.
SlotsAssumption ==
  /\ NSlots \in Nat \ {0} /\ ScriptMax \in Nat /\ RestartsMax \in Nat
  /\ \A script \in Script \cup Legacy :
       Fit(script) # Absent /\ script \in Seq({script[i] : i \in DOMAIN script})

-----------------------------------------------------------------------------
(* berry_init: migrate_legacy_slot, then the task. *)

\* The key of the slot-0 script tells whether there is anything to do.
Probe ==
  /\ boot = "probe"
  /\ \/ /\ sc[0] # Absent
        /\ boot' = "ready" /\ exec' = 0
        /\ UNCHANGED <<sc, kept>>
     \/ /\ sc[0] = Absent /\ (legacy.script # <<>> \/ legacy.enabled)
        /\ boot' = "script"
        /\ UNCHANGED <<sc, exec, kept>>
     \/ /\ sc[0] = Absent /\ legacy.script = <<>> /\ ~legacy.enabled
        /\ \E script \in {Absent, <<>>} : sc' = [sc EXCEPT ![0] = script]
        /\ boot' = "ready" /\ exec' = 0
        /\ UNCHANGED kept
  /\ UNCHANGED <<en, legacy, op, restarts, go, vm, old, saved, sure, current, saves>>

\* Three steps, none of which looks at what became of the one before.
Migrate ==
  /\ \E done \in BOOLEAN :
       \/ /\ boot = "script" /\ boot' = "enabled"
          /\ sc' = IF done THEN [sc EXCEPT ![0] = Fit(legacy.script)] ELSE sc
          /\ kept' = (kept /\ done)
          /\ sure' = [sure EXCEPT ![0] = FALSE]
          /\ UNCHANGED <<en, legacy, exec>>
       \/ /\ boot = "enabled" /\ boot' = "erase"
          /\ en' = IF done THEN [en EXCEPT ![0] = legacy.enabled] ELSE en
          /\ sure' = [sure EXCEPT ![0] = FALSE]
          /\ UNCHANGED <<sc, legacy, exec, kept>>
       \/ /\ boot = "erase" /\ boot' = "ready" /\ exec' = 0
          /\ legacy' = IF done THEN [script |-> <<>>, enabled |-> FALSE] ELSE legacy
          /\ UNCHANGED <<sc, en, kept, sure>>
  /\ UNCHANGED <<op, restarts, go, vm, old, saved, current, saves>>

-----------------------------------------------------------------------------
(* The portal: berry_slot_save, berry_save_script, berry_set_enabled. *)

Request(s, script, on, at) ==
  /\ op = NoOp /\ saves < SavesMax
  /\ op' = [at |-> at, slot |-> s, script |-> script, enabled |-> on]
  /\ saved' = [saved EXCEPT ![s] =
       [script |-> IF at = "script" THEN Fit(script) ELSE sc[s], enabled |-> on]]
  /\ sure' = [sure EXCEPT ![s] = (boot = "ready")]
  /\ saves' = saves + 1
  /\ UNCHANGED <<sc, en, legacy, boot, restarts, exec, go, vm, old, kept, current>>

SlotSave(s, script, on) == Request(s, script, on, "script")
\* The form of the first slot alone leaves the flag as it finds it.
SaveScript(script) == Request(0, script, en[0], "script")
SetEnabled(s, on) == Request(s, <<>>, on, "enabled")

Write ==
  /\ \E done \in BOOLEAN :
       /\ \/ /\ op.at = "script" /\ op' = [op EXCEPT !.at = "enabled"]
             /\ sc' = IF done THEN [sc EXCEPT ![op.slot] = Fit(op.script)] ELSE sc
             /\ UNCHANGED en
          \/ /\ op.at = "enabled" /\ op' = [op EXCEPT !.at = "restart"]
             /\ en' = IF done THEN [en EXCEPT ![op.slot] = op.enabled] ELSE en
             /\ UNCHANGED sc
       /\ sure' = [sure EXCEPT ![op.slot] = @ /\ done]
  /\ UNCHANGED <<legacy, boot, restarts, exec, go, vm, old, saved, kept, current, saves>>

\* berry_restart: the command is queued, or refused when there is no queue yet or no
\* place in it.  The portal gives up waiting after 2 s; the command stays.
Restart ==
  /\ op.at = "restart"
  /\ op' = NoOp
  /\ \/ /\ boot = "ready" /\ restarts < RestartsMax
        /\ restarts' = restarts + 1 /\ current' = TRUE
     \/ restarts' = restarts /\ current' = FALSE
  /\ UNCHANGED <<sc, en, legacy, boot, exec, go, vm, old, saved, sure, kept, saves>>

-----------------------------------------------------------------------------
(* The berry task.  A name that ends in _Bug has one defect. *)

\* BCMD_RESTART: a new interpreter, then run_autoexec.
TakeRestart_Bug ==  \* in the interpreter that is there
  /\ boot = "ready" /\ exec = NSlots /\ restarts > 0
  /\ restarts' = restarts - 1
  /\ exec' = 0
  /\ UNCHANGED <<sc, en, legacy, boot, op, go, vm, old, saved, sure, kept, current, saves>>
TakeRestart ==
  /\ boot = "ready" /\ exec = NSlots /\ restarts > 0
  /\ restarts' = restarts - 1
  /\ vm' = [s \in Slot |-> <<>>]
  /\ exec' = 0
  /\ UNCHANGED <<sc, en, legacy, boot, op, go, old, saved, sure, kept, current, saves>>

ReadEnabled ==
  /\ boot = "ready" /\ exec < NSlots /\ ~go
  /\ go' = en[exec]
  /\ exec' = IF en[exec] THEN exec ELSE exec + 1
  /\ UNCHANGED <<sc, en, legacy, boot, op, restarts, vm, old, saved, sure, kept, current, saves>>

RunScript ==
  /\ boot = "ready" /\ exec < NSlots /\ go
  /\ vm' = [vm EXCEPT ![exec] = IF sc[exec] = Absent THEN <<>> ELSE sc[exec]]
  /\ exec' = exec + 1 /\ go' = FALSE
  /\ UNCHANGED <<sc, en, legacy, boot, op, restarts, old, saved, sure, kept, current, saves>>

\* Power is lost, or the device restarts, in the middle of anything.
PowerLoss ==
  /\ boot' = "probe" /\ op' = NoOp /\ restarts' = 0
  /\ exec' = NSlots /\ go' = FALSE
  /\ vm' = [s \in Slot |-> <<>>]
  /\ sure' = IF op = NoOp THEN sure ELSE [sure EXCEPT ![op.slot] = FALSE]
  /\ current' = TRUE
  /\ UNCHANGED <<sc, en, legacy, old, saved, kept, saves>>

Next ==
  \/ Probe \/ Migrate
  \/ \E s \in Slot, on \in BOOLEAN : SetEnabled(s, on)
  \/ \E s \in Slot, script \in Script, on \in BOOLEAN : SlotSave(s, script, on)
  \/ \E script \in Script : SaveScript(script)
  \/ Write \/ Restart \/ TakeRestart \/ ReadEnabled \/ RunScript \/ PowerLoss

Spec == Init /\ [][Next]_vars

-----------------------------------------------------------------------------
(* What the slots promise. *)

\* The script of an earlier release is in its old key or in slot 0 until the user saves
\* over it, wherever power is lost, when no write fails.  (Only as much of it as a slot
\* holds: a longer one is cut and its original erased.)
LegacyKept ==
  kept /\ saved[0].script = Absent /\ old # <<>> =>
    sc[0] = Fit(old) \/ legacy.script = old

\* A save that was not cut off holds: script and flag are of the same save.
SavedWholly ==
  \A s \in Slot : (op = NoOp \/ op.slot # s) /\ sure[s] /\ saved[s].script # Absent =>
    sc[s] = saved[s].script /\ en[s] = saved[s].enabled

\* When the task has nothing left to do, the interpreter has run the scripts of exactly
\* the slots that are enabled, as they are in NVS now, however saves and restarts overlapped.
SettledRunsEnabled ==
  boot = "ready" /\ exec = NSlots /\ restarts = 0 /\ op = NoOp /\ current =>
    \A s \in Slot : vm[s] = IF en[s] /\ sc[s] # Absent THEN sc[s] ELSE <<>>

\* Scripts are not lost, mixed or left running (berry_runtime.c:134-183 and 489-509).
ScriptsHold == LegacyKept /\ SavedWholly /\ SettledRunsEnabled
=============================================================================
