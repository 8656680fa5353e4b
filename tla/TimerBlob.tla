------------------------------ MODULE TimerBlob ------------------------------
(***************************************************************************)
(* The way a schedule takes through main/timers.c: a slot comes from a     *)
(* form of the portal or from a JSON body, is validated, kept in RAM, and  *)
(* written with all the others as one JSON text to NVS, from which the     *)
(* next boot reads it back without validating it.                          *)
(*                                                                         *)
(* The text of an object is the sequence of its members; a string in it is *)
(* the sequence of its characters after the escapes of append_json_string, *)
(* up to and with the closing quote.  Four kinds of character are told     *)
(* apart: plain, the quote, which a backslash escapes (so is the newline,  *)
(* but no topic holds one), the backslash, and those written \u00hh.       *)
(***************************************************************************)
EXTENDS Integers, SequencesExt

CONSTANTS
  NSlots,      \* TIMERS_SLOT_COUNT
  Days,        \* days of the mask
  WindowMax,   \* 15
  MinuteMax,   \* 1439
  Length,      \* TIMERS_TOPIC_MAX, _PAYLOAD_MAX and _LABEL_MAX, by field
  BlobMax,     \* what one NVS string holds: of NVS_BLOB_MAX and the page, the smaller
  Char,        \* the characters of these strings
  Forms,       \* slots that come from /timers/save, whose fields it has clipped
  Bodies       \* bodies of PUT /api/timers/<n>: sequences of members

Slot == 1..NSlots
Plain == "a"  Quote == "q"  Control == "c"  Dollar == "$"  \* a wildcard acts as $ does
Strings == {"topic", "payload", "label"}
Flags == {"arm", "repeat", "retain"}
Top == [qos |-> 1, window |-> WindowMax, minute |-> MinuteMax]

EmptySlot ==
  [arm |-> 0, repeat |-> 0, retain |-> 0, qos |-> 0, window |-> 0, minute |-> 0,
   days |-> {}, topic |-> <<>>, payload |-> <<>>, label |-> <<>>]
Bad == [bad |-> TRUE]  \* what a parser returns instead of a value
NoBlob == [none |-> TRUE]

\* What the module of the instance must assume: a form and a body bring characters,
\* and days of the week; a form no more characters than fit.
SlotOf(s) ==
  /\ s = [f \in DOMAIN EmptySlot |-> s[f]] /\ s.days \subseteq Days
  /\ \A f \in Flags : s[f] \in {0, 1}
  /\ \A f \in DOMAIN Top : s[f] \in 0..Top[f]
  /\ \A f \in Strings : s[f] \in Seq(Char) /\ Len(s[f]) <= Length[f]
MembersOf(b) ==
  /\ Len(b) \in Nat
  /\ \A k \in 1..Len(b) :
       /\ b[k].key \in Strings => b[k].value \in Seq(Char)
       /\ b[k].key = "days" => b[k].value \subseteq Days
BlobAssumption ==
  /\ "bad" \notin Char
  /\ WindowMax \in Nat /\ MinuteMax \in Nat /\ \A f \in Strings : Length[f] \in Nat
  /\ \A s \in Forms : SlotOf(s)
  /\ \A b \in Bodies : MembersOf(b)

VARIABLES
  slots,   \* s_slots
  master,  \* s_master_enabled
  blob,    \* the string mqtt_cfg/timers in NVS
  lost     \* history: the last save failed, NVS is behind

vars == <<slots, master, blob, lost>>

TypeOK ==
  /\ DOMAIN slots = Slot /\ master \in {0, 1} /\ lost \in BOOLEAN
  /\ \A i \in Slot :
       /\ DOMAIN slots[i] = DOMAIN EmptySlot /\ slots[i].days \subseteq Days
       /\ \A f \in Flags : slots[i][f] \in {0, 1}
       /\ \A f \in DOMAIN Top : slots[i][f] \in 0..Top[f]
       /\ \A f \in Strings : Len(slots[i][f]) <= Length[f]

-----------------------------------------------------------------------------
(* Strings.  A name that ends in _Bug has one defect.                      *)

\* one character, escaped
Escape_Bug(c) == IF c = Control THEN <<"\\", "u", "0", "0", "h", Control>> ELSE <<c>>
Escape(c) == CASE c \in {Quote, "\\"} -> <<"\\", c>>
               [] c = Control -> <<"\\", "u", "0", "0", "h", Control>>
               [] OTHER -> <<c>>

\* append_json_string
Quoted(s) == FlattenSeq([i \in 1..Len(s) |-> Escape(s[i])]) \o <<Quote>>

\* parse_json_string: the closing quote must end the text, what a backslash escapes
\* must be known, and the bytes must fit.
Width(t, i) == IF t[i] # "\\" THEN 1 ELSE IF i < Len(t) /\ t[i + 1] = "u" THEN 6 ELSE 2
Known(t, i) == t[i] = "\\" => t[i + 1] \in {Quote, "\\", "u"}
Unquoted(t, max) ==
  LET read[i \in 1..(Len(t) + 1)] ==
        IF i > Len(t) THEN <<"bad">>
        ELSE IF t[i] = Quote THEN (IF i = Len(t) THEN <<>> ELSE <<"bad">>)
        ELSE IF i + Width(t, i) > Len(t) \/ ~Known(t, i) THEN <<"bad">>
        ELSE <<t[i + Width(t, i) - 1]>> \o read[i + Width(t, i)]
      s == read[1]
  IN IF Contains(s, "bad") \/ Len(s) > max THEN Bad ELSE [bytes |-> s]

-----------------------------------------------------------------------------
(* Slots.                                                                  *)

\* serialize_blob, one slot: {} when it is empty, and no empty string.
Written(s, k) == IF s[k] = <<>> THEN <<>> ELSE <<[key |-> k, value |-> Quoted(s[k])]>>
Members(s) ==
  IF s = EmptySlot THEN <<>>
  ELSE [i \in 1..7 |-> LET k == <<"arm", "repeat", "retain", "qos", "window", "minute", "days">>[i]
                       IN [key |-> k, value |-> s[k]]]
       \o Written(s, "topic") \o Written(s, "payload") \o Written(s, "label")

\* parse_slot_object: one member, into the slot read so far.
Take(s, m) ==
  IF s = Bad THEN Bad
  ELSE IF m.key \in Strings
    THEN LET u == Unquoted(m.value, Length[m.key])
         IN IF u = Bad THEN Bad ELSE [s EXCEPT ![m.key] = u.bytes]
  ELSE IF m.key \in DOMAIN Top
    THEN IF m.value \in 0..Top[m.key] THEN [s EXCEPT ![m.key] = m.value] ELSE Bad
  ELSE IF m.key \in Flags THEN [s EXCEPT ![m.key] = IF m.value = 0 THEN 0 ELSE 1]
  ELSE IF m.key = "days" THEN [s EXCEPT !.days = m.value]
  ELSE s  \* skip_json_value
ParseSlot(members) ==
  LET read[k \in 0..Len(members)] ==
        IF k = 0 THEN EmptySlot ELSE Take(read[k - 1], members[k])
  IN read[Len(members)]

\* topic_is_valid_publish
PublishTopic(t) == t # <<>> /\ t[1] # Dollar /\ ~Contains(t, Control)

\* timers_validate: a slot that is not armed may be a draft.
Valid_Bug(s) == s.arm = 1 => PublishTopic(s.topic)
Valid(s) == s.arm = 1 => PublishTopic(s.topic) /\ s.days # {}

-----------------------------------------------------------------------------
(* The blob.                                                               *)

\* how much of BlobMax the texts take
Size(b) ==
  LET Weight(n, m) == n + 1 + (IF m.key \in Strings THEN Len(m.value) ELSE 0)
  IN FoldLeft(LAMBDA n, members : FoldLeft(Weight, n + 1, members), 0, b.slots)

Serialized(s, m) == [me |-> m, slots |-> [i \in Slot |-> Members(s[i])]]

\* parse_blob, and the defaults of load_from_nvs
Loaded(b) ==
  LET defaults == [slots |-> [i \in Slot |-> EmptySlot], me |-> 1]
      read == [i \in Slot |-> ParseSlot(b.slots[i])]
  IN IF b = NoBlob THEN defaults
     ELSE IF \E i \in Slot : read[i] = Bad THEN defaults
     ELSE [slots |-> read, me |-> b.me]

\* save_to_nvs_locked: a text that does not fit is refused, and flash may fail.
Save ==
  LET b == Serialized(slots', master')
  IN \/ Size(b) <= BlobMax /\ blob' = b /\ lost' = FALSE
     \/ blob' = blob /\ lost' = TRUE

-----------------------------------------------------------------------------
(* The portal, and a boot.                                                 *)

\* timers_set: RAM keeps the slot even when the save fails.
Store(i, s) ==
  /\ Valid(s)
  /\ slots' = [slots EXCEPT ![i] = s]
  /\ UNCHANGED master
  /\ Save

SaveForm(i) == \E s \in Forms : Store(i, s)

\* PUT /api/timers/<n>
Put(i) == \E body \in Bodies : ParseSlot(body) # Bad /\ Store(i, ParseSlot(body))

Clear(i) ==
  /\ slots' = [slots EXCEPT ![i] = EmptySlot]
  /\ UNCHANGED master
  /\ Save

\* sweep: a slot that fires once is disarmed.
FireOnce(i) ==
  /\ slots[i].arm = 1 /\ slots[i].repeat = 0
  /\ slots' = [slots EXCEPT ![i].arm = 0]
  /\ UNCHANGED master
  /\ Save

\* timers_set_master_enabled
SetMaster ==
  /\ master' = 1 - master
  /\ UNCHANGED slots
  /\ Save

Reboot ==
  /\ slots' = Loaded(blob).slots /\ master' = Loaded(blob).me
  /\ lost' = FALSE
  /\ UNCHANGED blob

Init ==
  /\ slots = [i \in Slot |-> EmptySlot] /\ master = 1
  /\ blob = NoBlob /\ lost = FALSE

Next ==
  \/ \E i \in Slot : SaveForm(i) \/ Put(i) \/ Clear(i) \/ FireOnce(i)
  \/ SetMaster
  \/ Reboot

Spec == Init /\ [][Next]_vars

-----------------------------------------------------------------------------

\* What was saved is what the next boot loads, whatever the strings hold: the
\* escapes, the members left out and the bounds of the reader fit each other.
BlobGivesBack == ~lost => Loaded(blob) = [slots |-> slots, me |-> master]

\* However a slot came to be armed - form, body or boot, which does not validate -
\* what it publishes is a topic a client could publish, on some day.
OnlyPublishable ==
  \A i \in Slot : slots[i].arm = 1 =>
    /\ slots[i].days # {}
    /\ slots[i].topic # <<>> /\ slots[i].topic[1] # Dollar
    /\ \A j \in 1..Len(slots[i].topic) : slots[i].topic[j] # Control
=============================================================================
