------------------------------ MODULE Network ------------------------------
(***************************************************************************)
(* How the device gets on the network and stays reachable: app_main and    *)
(* wifi_connect_sta at boot, the WiFi event handler, the portal's WiFi     *)
(* buttons (main/wifi_connect.c, main/main.c) and the Ethernet uplink      *)
(* (main/eth_connect.c).                                                   *)
(*                                                                         *)
(* The main task, the portal's task and the event task interleave, and the *)
(* access point of the house comes and goes.  The driver is external: its  *)
(* mode, whether it is started, its station, and the events it posts.      *)
(***************************************************************************)
EXTENDS Integers, Sequences

CONSTANTS
  WifiMaxRetries,  \* WIFI_MAX_RETRIES
  RetriesMax,      \* bound on s_retry_count
  EventsMax        \* bound on the events the event task has not handled

\* What the module of the instance must assume of the bounds.
NetworkAssumption == RetriesMax \in Nat /\ EventsMax \in Nat

Modes == {"NULL", "STA", "AP", "APSTA"}
HasAp == {"AP", "APSTA"}  HasSta == {"STA", "APSTA"}

VARIABLES
  pc,        \* app_main: "wifi", "wait", "check", "eth", "run"
  http,      \* the portal's task: "idle", "wait" in wifi_init_sta, "restart" before esp_restart
  wifi_mode, \* s_wifi_mode
  ap_enabled,\* s_ap_enabled
  group,     \* s_wifi_event_group: its bits, or the set {"none"}
  retries,   \* s_retry_count
  handlers,  \* the handlers of WiFi events are registered
  nvs,       \* credentials; ap_enabled of mqtt_cfg; ap_mode of the WiFi namespace
  driver,    \* mode, on, and the station: "down", "joining", "joined", "address"
  events,    \* posted and not handled
  eth,       \* s_eth_connected
  fallback,  \* app_main has logged that the AP fallback is active
  dropped,   \* history: a link that was up went down
  asked,     \* history: a reconnect was asked for
  crashed    \* history: bits were set in a group that is not there

vars == <<pc, http, wifi_mode, ap_enabled, group, retries, handlers, nvs, driver, events,
          eth, fallback, dropped, asked, crashed>>
settings == <<ap_enabled, nvs>>
history == <<fallback, dropped, asked, crashed>>

NoGroup == {"none"}
Joined == driver.sta \in {"joined", "address"}  \* wifi_get_sta_connected
Bit == {"connected", "fail"}

TypeOK ==
  /\ pc \in {"wifi", "wait", "check", "eth", "run"} /\ http \in {"idle", "wait", "restart"}
  /\ wifi_mode \in Modes /\ driver.mode \in Modes /\ driver.on \in BOOLEAN
  /\ driver.sta \in {"down", "joining", "joined", "address"}
  /\ group = NoGroup \/ group \subseteq Bit
  /\ retries \in 0..RetriesMax /\ Len(events) <= EventsMax
  /\ driver.sta # "down" => driver.on /\ driver.mode \in HasSta

Off == [mode |-> "NULL", on |-> FALSE, sta |-> "down"]

Init ==
  /\ pc = "wifi" /\ http = "idle"
  /\ wifi_mode = "STA" /\ ap_enabled = 1
  /\ group = NoGroup /\ retries = 0 /\ handlers = FALSE
  /\ nvs \in [creds : BOOLEAN, ap_enabled : {0, 1}, ap_mode : {0, 1}]
  /\ driver = Off /\ events = <<>> /\ eth = FALSE
  /\ fallback = FALSE /\ dropped = FALSE /\ asked = FALSE /\ crashed = FALSE

-----------------------------------------------------------------------------
(* The driver.                                                             *)

Room == Len(events) < EventsMax
Posted(e) == IF handlers THEN Append(events, e) ELSE events

\* The station without its access point: after esp_wifi_stop, a mode without one, a drop.
Alone(d) == [d EXCEPT !.sta = "down"]

Join ==
  /\ driver.sta = "joining" /\ driver' = [driver EXCEPT !.sta = "joined"]
  /\ UNCHANGED <<pc, http, wifi_mode, settings, group, retries, handlers, events, eth, history>>

GotIp ==
  /\ driver.sta = "joined" /\ Room
  /\ driver' = [driver EXCEPT !.sta = "address"]
  /\ events' = Posted("got_ip")
  /\ UNCHANGED <<pc, http, wifi_mode, settings, group, retries, handlers, eth, history>>

\* The access point refuses, or goes away.
Drop ==
  /\ driver.sta # "down" /\ Room
  /\ driver' = Alone(driver)
  /\ events' = Posted("disconnected")
  /\ dropped' = (dropped \/ Joined)
  /\ UNCHANGED <<pc, http, wifi_mode, settings, group, retries, handlers, eth, fallback, asked, crashed>>

\* eth_event_handler, eth_got_ip_handler, once eth_init has started the port
EthLink ==
  /\ pc = "run" /\ eth' = ~eth
  /\ dropped' = (dropped \/ eth)
  /\ UNCHANGED <<pc, http, wifi_mode, settings, group, retries, handlers, driver, events, fallback, asked, crashed>>

\* wifi_event_handler: nothing joins again after a drop.
Handle ==
  /\ events # <<>>
  /\ events' = Tail(events)
  /\ LET e == Head(events)
         n == IF retries < RetriesMax THEN retries + 1 ELSE retries
         bit == CASE e = "got_ip" -> {"connected"}
                  [] e = "disconnected" /\ n < WifiMaxRetries -> {"fail"}
                  [] OTHER -> {}
     IN /\ retries' = CASE e = "disconnected" -> n [] e = "got_ip" -> 0 [] OTHER -> retries
        /\ driver' = IF e = "sta_start" /\ driver.on /\ driver.mode \in HasSta /\ ~Joined THEN [driver EXCEPT !.sta = "joining"] ELSE driver
        /\ group' = IF group = NoGroup THEN group ELSE group \cup bit
        /\ crashed' = (crashed \/ (group = NoGroup /\ bit # {}))
  /\ UNCHANGED <<pc, http, wifi_mode, settings, handlers, eth, fallback, dropped, asked>>

-----------------------------------------------------------------------------
(* wifi_init_sta, for app_main and for the portal.                         *)

\* Up to xEventGroupWaitBits.  The driver posts a start if it had no station before.
Associate ==
  /\ Room
  /\ group' = {} /\ retries' = 0
  /\ driver' = [driver EXCEPT !.mode = "STA", !.on = TRUE]
  /\ events' = IF handlers' /\ ~(driver.on /\ driver.mode \in HasSta)
               THEN Append(events, "sta_start") ELSE events

\* xEventGroupWaitBits returns: a bit is set, or 60 s are over.
Woken(ok) == ok = ("connected" \in group)

-----------------------------------------------------------------------------
(* app_main.                                                               *)

ConnectSta ==
  /\ pc = "wifi" /\ pc' = "wait"
  /\ handlers' = TRUE
  /\ Associate
  /\ UNCHANGED <<http, wifi_mode, settings, eth, history>>

StaConnected ==
  /\ pc = "wait" /\ Woken(TRUE)
  /\ pc' = "check"
  /\ UNCHANGED <<http, wifi_mode, settings, group, retries, handlers, driver, events, eth, history>>

\* wifi_connect_sta falls back: no handlers, no group, and a SoftAP.
Fallback_Bug ==  \* the driver is not started again
  /\ pc = "wait" /\ Woken(FALSE)
  /\ pc' = "check"
  /\ handlers' = FALSE /\ events' = <<>> /\ group' = NoGroup
  /\ wifi_mode' = IF ap_enabled = 1 THEN "APSTA" ELSE "AP"
  /\ driver' = [mode |-> wifi_mode', on |-> FALSE, sta |-> "down"]
  /\ UNCHANGED <<http, settings, retries, eth, history>>
Fallback ==
  /\ pc = "wait" /\ Woken(FALSE)
  /\ pc' = "check"
  /\ handlers' = FALSE /\ events' = <<>> /\ group' = NoGroup
  /\ wifi_mode' = IF ap_enabled = 1 THEN "APSTA" ELSE "AP"
  /\ driver' = [mode |-> wifi_mode', on |-> TRUE, sta |-> "down"]
  /\ UNCHANGED <<http, settings, retries, eth, history>>

\* The AP of the saved preference, then portal_start, which loads ap_mode instead.
CheckAp ==
  /\ pc = "check" /\ pc' = "eth"
  /\ fallback' = ~Joined
  /\ IF Joined /\ nvs.ap_enabled = 1
       THEN wifi_mode' = "APSTA" /\ driver' = [driver EXCEPT !.mode = "APSTA"]
       ELSE UNCHANGED <<wifi_mode, driver>>
  /\ ap_enabled' = nvs.ap_mode
  /\ UNCHANGED <<http, group, retries, handlers, nvs, events, eth, dropped, asked, crashed>>

\* eth_init: with an address on the cable the station is given up (wifi_stop_sta).
EthInit ==
  /\ pc = "eth" /\ pc' = "run" /\ Room
  /\ eth' \in BOOLEAN
  /\ IF eth' /\ Joined
       THEN /\ wifi_mode' = IF wifi_mode \in HasAp THEN "AP" ELSE "NULL"
            /\ driver' = [driver EXCEPT !.mode = wifi_mode', !.sta = "down"]
            /\ events' = Posted("disconnected")
       ELSE UNCHANGED <<wifi_mode, driver, events>>
  /\ UNCHANGED <<http, settings, group, retries, handlers, history>>

-----------------------------------------------------------------------------
(* The portal, which runs from CheckAp on.                                 *)

Serving == pc \in {"eth", "run"} /\ http = "idle"

\* /reconnect and /quickconnect: portal_reconnect_wifi
Reconnect ==
  /\ Serving /\ nvs.creds
  /\ http' = "wait" /\ asked' = TRUE /\ UNCHANGED handlers
  /\ Associate
  /\ UNCHANGED <<pc, wifi_mode, settings, eth, fallback, dropped, crashed>>

\* The driver is stopped when that failed, and the group goes in any case.
Reconnected ==
  /\ http = "wait" /\ http' = "idle" /\ Room
  /\ \E ok \in BOOLEAN :
       /\ Woken(ok)
       /\ driver' = IF ok THEN driver ELSE [Alone(driver) EXCEPT !.on = FALSE]
       /\ events' = IF ~ok /\ Joined THEN Posted("disconnected") ELSE events
  /\ group' = NoGroup
  /\ UNCHANGED <<pc, wifi_mode, settings, retries, handlers, eth, history>>

\* /ap-toggle changes the flag alone.
ApToggle ==
  /\ Serving /\ ap_enabled' = 1 - ap_enabled
  /\ UNCHANGED <<pc, http, wifi_mode, group, retries, handlers, nvs, driver, events, eth, history>>

\* /clear erases the WiFi namespace.
ClearWifi ==
  /\ Serving /\ nvs' = [nvs EXCEPT !.creds = FALSE, !.ap_mode = 0]
  /\ UNCHANGED <<pc, http, wifi_mode, ap_enabled, group, retries, handlers, driver, events, eth, history>>

\* /save-settings takes the AP preference at once when there is a station
\* (wifi_set_ap_mode); the device restarts after the answer.
ApPreference ==
  /\ Serving /\ http' = "restart"
  /\ nvs' = [nvs EXCEPT !.ap_enabled = 1 - @]
  /\ IF Joined
       THEN /\ ap_enabled' = nvs'.ap_enabled
            /\ wifi_mode' = IF nvs'.ap_enabled = 1 THEN "APSTA" ELSE "STA"
            /\ driver' = [driver EXCEPT !.mode = wifi_mode']
       ELSE UNCHANGED <<ap_enabled, wifi_mode, driver>>
  /\ UNCHANGED <<pc, group, retries, handlers, events, eth, history>>

\* /save stores credentials and ap_mode and restarts the device, as the other saves, a
\* crash and the power do.
Restart ==
  /\ nvs' \in {nvs} \cup
       (IF Serving THEN [creds : {TRUE}, ap_enabled : {nvs.ap_enabled}, ap_mode : {0, 1}] ELSE {})
  /\ pc' = "wifi" /\ http' = "idle" /\ wifi_mode' = "STA" /\ ap_enabled' = 1
  /\ group' = NoGroup /\ retries' = 0 /\ handlers' = FALSE
  /\ driver' = Off /\ events' = <<>> /\ eth' = FALSE
  /\ fallback' = FALSE /\ dropped' = FALSE /\ asked' = FALSE /\ crashed' = FALSE

Next ==
  \/ Join \/ GotIp \/ Drop \/ EthLink \/ Handle
  \/ ConnectSta \/ StaConnected \/ Fallback \/ CheckAp \/ EthInit
  \/ Reconnect \/ Reconnected \/ ApToggle \/ ClearWifi \/ ApPreference \/ Restart

Spec == Init /\ [][Next]_vars

-----------------------------------------------------------------------------

Reachable == (driver.on /\ driver.mode \in HasAp) \/ Joined \/ eth

\* A boot ends with a way in - the SoftAP, the station or the cable - unless a link
\* dropped meanwhile or a reconnect was asked for: app_main's three decisions, taken
\* at different moments, leave no gap, and where it logs that the AP is the fallback, it is.
BootsReachable ==
  pc \in {"eth", "run"} /\ ~dropped /\ ~asked =>
    /\ Reachable
    /\ fallback => driver.on /\ driver.mode \in HasAp

\* An event finds the group its bits are set in.
EventsHaveAGroup == ~crashed
=============================================================================
