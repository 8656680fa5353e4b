------------------------------- MODULE MCEdge -------------------------------
(***************************************************************************)
(* What lies around the broker: what measures time (MCClock), the bytes of *)
(* its clients, the matching of topics, the settings form, the network,    *)
(* updates of the firmware and the scripts in NVS.  They share no state: a *)
(* run takes one of them and lets it run alone.                            *)
(***************************************************************************)
EXTENDS MCClock, Sequences

CONSTANTS
  Base, LengthMax, Packets, PacketsMax, RecvSize, StringMax, SubsMax,
  TopicChar, FilterMax, TopicMax,
  Forms, SavesMax,
  WifiMaxRetries, RetriesMax, EventsMax,
  Old, New, Uploads, Downloads, ChunkMax,
  NSlots, ScriptMax, Script, Legacy, RestartsMax, ScriptSavesMax

VARIABLES
  sent, arrived, recv_buf, recv_at, handled,
  filter,
  cfg, buffer, form, seen, field, state, before, saves,
  pc, http, wifi_mode, ap_enabled, group, retries, handlers, nvs, driver, events,
  eth, fallback, dropped, asked, crashed,
  flash, boot, running, task, body, at, skipped, torn,
  sc, en, legacy, init, op, restarts, exec, go, vm, old, saved, sure, kept, current,
  script_saves

wirevars == <<sent, arrived, recv_buf, recv_at, handled>>
formvars == <<cfg, buffer, form, seen, field, state, before, saves>>
netvars == <<pc, http, wifi_mode, ap_enabled, group, retries, handlers, nvs, driver, events,
             eth, fallback, dropped, asked, crashed>>
otavars == <<flash, boot, running, task, body, at, skipped, torn>>
slotvars == <<sc, en, legacy, init, op, restarts, exec, go, vm, old, saved, sure, kept,
              current, script_saves>>

Form == INSTANCE Settings WITH flash <- cfg, at <- field
Net == INSTANCE Network
\* Of the modules of their proofs, that they can be cited.
Parser == INSTANCE ParserProofs WITH at <- recv_at
Update == INSTANCE OtaProofs
Scripts == INSTANCE BerrySlots WITH boot <- init, saves <- script_saves,
             SavesMax <- ScriptSavesMax

\* Packets that are whole, cut short, empty, longer than the buffer, or without end.
P(type, qos, room, lengths) == [type |-> type, qos |-> qos, room |-> room, lengths |-> lengths]
MCPackets == {
  P("CONNECT", 0, 12, <<0>>), P("CONNECT", 0, 13, <<2>>),
  P("PUBLISH", 0, 4, <<1>>), P("PUBLISH", 1, 4, <<1>>), P("PUBLISH", 1, 15, <<4>>),
  P("SUBSCRIBE", 0, 9, <<1, 0>>), P("UNSUBSCRIBE", 0, 6, <<2>>), P("SUBSCRIBE", 0, 5, <<1>>),
  P("PUBACK", 0, 2, <<>>), P("PINGREQ", 0, 0, <<>>), P("DISCONNECT", 0, 0, <<>>),
  P("MALFORMED", 0, 3, <<>>)}

\* What the proofs about the parser assume holds of these.
ASSUME WireSizes == Parser!WireAssumption

\* A form with everything new, one with everything emptied, and one that breaks the rules.
MCBoxes == {"ap_enabled", "retain_en", "napt_en", "echo_en", "ntp_en", "ntp_srv_en", "ntp_accept_set"}
MCNumbers == {"mqtt_port", "buf_size", "retain_ttl_h", "echo_count", "echo_window", "ntp_poll"}
MCTexts == {"hostname", "auth_user", "auth_pass", "ap_ssid", "ap_pass", "ap_ip",
            "ntp_up0", "ntp_up1", "ntp_up2", "ntp_tz"}
Typed(text, number, box) ==
  [f \in MCBoxes \cup MCNumbers \cup MCTexts |->
     IF f \in MCTexts THEN text ELSE IF f \in MCBoxes THEN box ELSE number]
MCForms == {
  Typed("new", 2000, TRUE), Typed("", 65536, FALSE),
  [Typed("bad", 100, TRUE) EXCEPT !["ntp_tz"] = "", !["auth_pass"] = "", !["ntp_up0"] = "old"]}

\* What the proofs about the form assume holds of these.
ASSUME FormsTicked == Form!SettingsAssumption

\* And those about the network.
ASSUME NetBounds == Net!NetworkAssumption

\* An image with an empty line of its own; bodies that are whole, cut off, and old.
MCNew == <<"n1", "cr", "lf", "n2">>
MCOld == <<"o">>
MCUploads == {<<"h", "cr", "lf">> \o MCNew \o <<"t">>, <<"h", "h", "cr", "lf", "n1", "cr">>,
              <<"cr", "lf", "o", "t">>}
MCDownloads == {MCNew, <<"o", "n2">>}

\* What the proofs of Ota assume holds of these.
ASSUME Bodies == Update!OtaAssumption({"h", "cr", "lf", "n1", "n2", "o", "t"})

\* Scripts that fit a slot and that do not.
MCScript == {<<>>, <<"b", "c">>}
MCLegacy == {<<>>, <<"x", "y">>}

\* What the proofs about the slots assume holds here.
ASSUME SlotsThere == Scripts!SlotsAssumption

EdgeParts == {"wire", "topics", "settings", "network", "ota", "scripts"}

EdgeInit ==
  /\ IF part = "wire" THEN Parser!Init
     ELSE sent = <<>> /\ arrived = 0 /\ recv_buf = <<>> /\ recv_at = "select" /\ handled = <<>>
  /\ Parser!FilterInit /\ Update!Init
  /\ IF part = "settings" THEN Form!Init
     ELSE /\ cfg = Form!Factory /\ before = cfg /\ buffer = Form!BufDefault /\ form = cfg
          /\ seen = <<>> /\ field = 0 /\ state = "serving" /\ saves = 0
  /\ Net!Init /\ (part # "network" => nvs = [creds |-> FALSE, ap_enabled |-> 0, ap_mode |-> 0])
  /\ Scripts!Init /\ (part # "scripts" => legacy = [script |-> <<>>, enabled |-> FALSE])

EdgeNext ==
  /\ UNCHANGED part
  /\ \/ /\ part = "wire" /\ Parser!Next
        /\ UNCHANGED <<filter, formvars, netvars, otavars, slotvars>>
     \/ /\ part = "topics" /\ Parser!FilterNext
        /\ UNCHANGED <<wirevars, formvars, netvars, otavars, slotvars>>
     \/ /\ part = "settings" /\ Form!Next
        /\ UNCHANGED <<wirevars, filter, netvars, otavars, slotvars>>
     \/ /\ part = "network" /\ Net!Next
        /\ UNCHANGED <<wirevars, filter, formvars, otavars, slotvars>>
     \/ /\ part = "ota" /\ Update!Next
        /\ UNCHANGED <<wirevars, filter, formvars, netvars, slotvars>>
     \/ /\ part = "scripts" /\ Scripts!Next
        /\ UNCHANGED <<wirevars, filter, formvars, netvars, otavars>>

edgevars == <<wirevars, filter, formvars, netvars, otavars, slotvars>>

MCInit == part \in ClockParts \cup EdgeParts /\ ClockInit /\ EdgeInit
MCNext ==
  \/ ClockNext /\ UNCHANGED edgevars
  \/ EdgeNext /\ UNCHANGED clockvars
MCSpec == MCInit /\ [][MCNext]_<<part, clockvars, edgevars>>

-----------------------------------------------------------------------------
(* The properties of the parts; what a part says need not be evaluated while
   another one runs, for its own variables stand still. *)

\* The variables of each part keep their types.
TypesOK == CASE part = "keepalive" -> TypeOK
             [] part = "sntp" -> Sntp!TypeOK
             [] part = "limit" -> Limit!TypeOK
             [] part = "echo" -> Echo!TypeOK
             [] part = "settings" -> Form!TypeOK
             [] part = "network" -> Net!TypeOK
             [] part = "ota" -> Update!TypeOK
             [] part = "scripts" -> Scripts!TypeOK
             [] OTHER -> TRUE

\* However its bytes are cut into reads, a client's packets are handled in order, once
\* and whole, and it is dropped only for cause (process_client_data).
StreamServed == part = "wire" => Parser!PacketsWhole /\ Parser!ServedToTheEnd

\* The broker can parse every message it builds (mqtt_build_publish_ex).
BuildsWhatItParses == part = "wire" /\ arrived = 0 => Parser!BuildsWhatItParses

\* The walk over filter and topic decides as the levels do (mqtt_topic_matches).
MatchIsByLevels == part = "topics" => Parser!MatchIsByLevels

\* A form changes only what it brought, and a whole one everything (/save-settings).
SettingsHold == part = "settings" => Form!SettingsKept /\ Form!WholeFormSaved

\* A boot ends with a way to reach the device (app_main, wifi_connect_sta, eth_init).
BootsReachable == part = "network" => Net!BootsReachable

\* The next boot finds a whole firmware, and an upload is written from its first byte
\* (/ota-upload, /ota-url, /ota-rollback).
UpdatesAreWhole == part = "ota" => Update!UpdatesAreWhole

\* Scripts are not lost, mixed or left running (migrate_legacy_slot, run_autoexec).
ScriptsHold == part = "scripts" => Scripts!ScriptsHold

\* When the countdown page is served, every field holds what the form asked.
SavedWhole == part = "settings" => Form!SavedWhole

\* A WiFi event finds the group its bits are set in.
EventsHaveAGroup == part = "network" => Net!EventsHaveAGroup
=============================================================================
