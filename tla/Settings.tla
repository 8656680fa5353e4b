------------------------------ MODULE Settings ------------------------------
(***************************************************************************)
(* The settings form: what the portal reads of a POST to /save-settings    *)
(* (handle_http_client, http_parse and urldecode_param in portal.c), what  *)
(* it writes to NVS, in which order, and what the next boot reads back.    *)
(*                                                                         *)
(* The request is read until the blank line after its headers has been     *)
(* seen: the rest of the form is lost if it comes in a later segment, and  *)
(* what is past the first 511 bytes of it is never looked at.  So the form *)
(* may be cut after any field or inside one.  Power may fail between two   *)
(* writes; NVS is a log, so that a prefix of the writes is found then.     *)
(***************************************************************************)
EXTENDS Integers, Sequences

CONSTANTS
  Forms,        \* the forms the browser sends
  SavesMax      \* bound: requests

Numbers == {"mqtt_port", "buf_size", "retain_ttl_h", "echo_count", "echo_window", "ntp_poll"}
Boxes == {"ap_enabled", "retain_en", "napt_en", "echo_en", "ntp_en", "ntp_srv_en", "ntp_accept_set"}
Texts == {"hostname", "auth_user", "auth_pass", "ap_ssid", "ap_pass", "ap_ip",
          "ntp_up0", "ntp_up1", "ntp_up2", "ntp_tz"}
Field == Numbers \cup Boxes \cup Texts

\* The fields in the order of the page; the token that must be right comes first.
Page == <<"csrf", "hostname", "mqtt_port", "auth_user", "auth_pass", "buf_size",
          "retain_en", "retain_ttl_h", "ap_enabled", "ap_ssid", "ap_pass", "ap_ip",
          "napt_en", "ntp_en", "ntp_srv_en", "ntp_up0", "ntp_up1", "ntp_up2",
          "ntp_poll", "ntp_tz", "ntp_accept_set", "echo_en", "echo_count", "echo_window">>

\* The fields in the order the handler writes them.
Written == <<"hostname", "mqtt_port", "buf_size", "auth_user", "auth_pass", "ap_ssid",
             "ap_pass", "ap_ip", "ap_enabled", "retain_en", "retain_ttl_h", "napt_en",
             "echo_en", "echo_count", "echo_window", "ntp_en", "ntp_srv_en", "ntp_up0",
             "ntp_up1", "ntp_up2", "ntp_poll", "ntp_tz", "ntp_accept_set">>

\* The numbers the handler takes, and the width NVS keeps them in.
PortMax == 65535
BufMax == 65536   \* BROKER_BUF_MAX
TtlMax == 8760
PollMax == 86400  \* NTP_POLL_S_MAX
Allowed == [mqtt_port |-> 1..PortMax, buf_size |-> 1024..BufMax, retain_ttl_h |-> 0..TtlMax,
            echo_count |-> 1..255, echo_window |-> 1..3600, ntp_poll |-> 64..PollMax]
Width16 == {"mqtt_port", "buf_size", "echo_count", "echo_window"}

\* A text is what was there ("old"), what the user typed ("new", or "bad" when it breaks
\* a rule), nothing, the zone a clock without one gets, or what a cut left of it ("short").
Text == {"old", "new", "bad", "", "UTC0", "short"}
BufDefault == 16384

\* What the module of the instance must assume: a box is ticked or not, and a text is one
\* of those told apart.
SettingsAssumption ==
  /\ SavesMax \in Nat
  /\ \A x \in Forms : (\A f \in Boxes : x[f] \in BOOLEAN) /\ (\A f \in Texts : x[f] \in Text)

VARIABLES
  flash,      \* NVS, namespaces mqtt_cfg and ntp
  buffer,     \* the buffer size the broker runs with (s_buf_size)
  form,       \* the form being saved
  seen,       \* the fields the handler finds, with what it finds of each
  at,         \* the fields of Written that are done
  state,      \* "serving", "saving", "rebooting"
  before,     \* history: flash when the request came
  saves       \* bound: the requests so far

vars == <<flash, buffer, form, seen, at, state, before, saves>>

TypeOK ==
  /\ \A f \in Numbers : flash[f] \in 0..PollMax
  /\ \A f \in Boxes : flash[f] \in BOOLEAN
  /\ \A f \in Texts : flash[f] \in Text
  /\ buffer \in 1024..(BufMax - 1)
  /\ at \in 0..Len(Written)
  /\ state \in {"serving", "saving", "rebooting"}
  /\ saves \in 0..SavesMax

Factory ==
  [f \in Field |->
     IF f \in Texts THEN "old" ELSE
     IF f \in Boxes THEN f # "ntp_accept_set" ELSE
     CASE f = "mqtt_port" -> 1883 [] f = "buf_size" -> BufDefault [] f = "retain_ttl_h" -> 168
       [] f = "echo_count" -> 3 [] f = "echo_window" -> 60 [] f = "ntp_poll" -> 3600]

Init ==
  /\ flash = Factory /\ before = flash
  /\ buffer = BufDefault
  /\ form \in Forms
  /\ seen = [f \in {} |-> 0]
  /\ at = 0
  /\ state = "serving"
  /\ saves = 0

-----------------------------------------------------------------------------
(* Reading the form. *)

\* What urldecode_param finds of a field the form was cut in.
CutShort(f, value) ==
  IF f \in Numbers THEN {0, value \div 10} ELSE {"", "short", "bad"}

\* The form is cut behind the first n fields, or inside the one that follows them.
Arrived(n) ==
  LET whole == {Page[i] : i \in 2..n}
      cut == Page[n + 1]
  IN  {[f \in whole |-> form[f]]} \cup
      (IF n = Len(Page) \/ cut \in Boxes THEN {}
       ELSE {[f \in whole \cup {cut} |-> IF f = cut THEN v ELSE form[f]] : v \in CutShort(cut, form[cut])})

\* csrf_verify passes only a whole token; otherwise the answer is 403 and nothing changes.
Request(n) ==
  /\ state = "serving" /\ saves < SavesMax
  /\ form' \in Forms
  /\ n \in 1..Len(Page)
  /\ seen' \in Arrived(n)'
  /\ state' = "saving" /\ at' = 0
  /\ before' = flash
  /\ saves' = saves + 1
  /\ UNCHANGED <<flash, buffer>>

-----------------------------------------------------------------------------
(* Writing it.  A name that ends in _Bug has one defect. *)

\* nvs_set_u16 takes the low 16 bits; retain_ttl is kept in seconds, an int32.
Stored(f, n) == IF f \in Width16 THEN n % 65536 ELSE n

\* An empty password or network name is "keep the current one".
KeptWhenEmpty == {"auth_pass", "ap_ssid", "ap_pass"}
\* hostname_is_valid, sscanf of the address, the 8 characters of WPA2.
Checked == {"hostname", "ap_ip", "ap_pass"}

Accepted_Bug(f, value) ==  \* an empty password is one
  /\ f \in Numbers => value \in Allowed[f]
  /\ f \in Checked => value # "" /\ value # "bad"
Accepted(f, value) ==
  /\ f \in Numbers => value \in Allowed[f]
  /\ f \in KeptWhenEmpty \cup Checked => value # ""
  /\ f \in Checked => value # "bad"

\* A box that is not ticked is not sent at all: what is not seen is off.
Save(f) ==
  LET found == f \in DOMAIN seen IN
  \/ /\ f \in Boxes
     /\ flash' = [flash EXCEPT ![f] = found /\ seen[f]]
  \/ /\ f \notin Boxes /\ found /\ Accepted(f, seen[f])
     /\ flash' = [flash EXCEPT ![f] =
          CASE f \in Numbers -> Stored(f, seen[f])
            [] f = "ntp_tz" /\ seen[f] = "" -> "UTC0"
            [] OTHER -> seen[f]]
  \/ /\ f \notin Boxes /\ ~(found /\ Accepted(f, seen[f]))
     /\ UNCHANGED flash

SaveNext ==
  /\ state = "saving" /\ at < Len(Written)
  /\ Save(Written[at + 1])
  /\ at' = at + 1
  /\ UNCHANGED <<buffer, form, seen, state, before, saves>>

Answer ==
  /\ state = "saving" /\ at = Len(Written)
  /\ state' = "rebooting"
  /\ UNCHANGED <<flash, buffer, form, seen, at, before, saves>>

\* What broker_task takes of the size it finds.
BootBuffer(n) == IF n \in 1024..BufMax THEN n ELSE BufDefault

\* esp_restart after the answer, or power lost in the middle.
Boot ==
  /\ state # "serving"
  /\ state' = "serving"
  /\ buffer' = BootBuffer(flash["buf_size"])
  /\ UNCHANGED <<flash, form, seen, at, before, saves>>

Next == (\E n \in 1..Len(Page) : Request(n)) \/ SaveNext \/ Answer \/ Boot

Spec == Init /\ [][Next]_vars

-----------------------------------------------------------------------------
(* What the form promises. *)

Whole(f) == f \in DOMAIN seen /\ seen[f] = form[f]

\* What the user asks of a field: a secret left empty is kept, and so is what a rule refuses.
Asked(f) ==
  CASE f \in Boxes -> form[f]
    [] f \in {"auth_pass", "ap_pass", "ap_ssid", "hostname", "ap_ip"} /\ form[f] = "" -> before[f]
    [] f \in {"hostname", "ap_ip", "ap_pass"} /\ form[f] = "bad" -> before[f]
    [] f \in Numbers /\ form[f] \notin Allowed[f] -> before[f]
    [] f = "ntp_tz" /\ form[f] = "" -> "UTC0"
    [] OTHER -> form[f]

Holds(f) == flash[f] = Asked(f) \/ (f = "buf_size" /\ form[f] = BufMax)

\* However the form is cut and whenever power fails: a field that came whole holds what it
\* held or what was asked, a text or a number that did not come holds what it held, and an
\* empty password field never empties the password.  The largest buffer size the page
\* offers is the exception: 65536 is 0 in the 16 bits NVS keeps (portal.c:2157).
SettingsKept ==
  /\ \A f \in Field : Whole(f) => Holds(f) \/ flash[f] = before[f]
  /\ \A f \in Field \ Boxes : f \notin DOMAIN seen => flash[f] = before[f]
  /\ \A f \in KeptWhenEmpty : form[f] = "" => flash[f] # "" \/ before[f] = ""
  /\ buffer >= 1024

\* A form that came whole is saved whole by the time the countdown page is served.
WholeFormSaved ==
  state = "rebooting" /\ (\A f \in Field : Whole(f)) =>
    \A f \in Field : Holds(f)

\* "Persists every field, then serves the reboot-countdown page and restarts the
\* device" (the comment on /save-settings, portal.c:2125-2131): by then every field of the
\* form holds what was asked.
SavedWhole == state = "rebooting" => \A f \in Field : Holds(f)
=============================================================================
