------------------------------ MODULE KeepAlive ------------------------------
(***************************************************************************)
(* Keep-alive of main/mqtt_broker.c: which packets count as activity, the  *)
(* periodic check of the select loop, and the clock both read.  The        *)
(* sessions themselves are in Broker.tla, where the check is one of the    *)
(* reasons a client is dropped for.                                        *)
(*                                                                         *)
(* Time is in seconds since boot; get_time_ms counts in 32 bits, so that   *)
(* the program sees Clock(t).                                              *)
(***************************************************************************)
EXTENDS Integers

CONSTANTS
  ClientSlot,    \* slots of s_clients
  KeepAlives,    \* keep-alive values clients ask for, 0 among them
  Grace,         \* BROKER_KEEPALIVE_GRACE_SEC
  CheckEvery,    \* period of the check, 5 s
  ClockWrap,     \* get_time_ms counts modulo this
  UptimeMax      \* bound on the run

ASSUME KeepAliveAssumption ==
  /\ KeepAlives \subseteq Nat /\ Grace \in Nat /\ CheckEvery \in Nat
  /\ ClockWrap \in Nat \ {0} /\ UptimeMax \in Nat

VARIABLES
  clients,       \* fd, connected, keep_alive and last_activity of each slot
  uptime,
  last_check,    \* last_keepalive_check
  last_packet    \* history: when each client last sent a packet that counts

vars == <<clients, uptime, last_check, last_packet>>

Client == [state: {"free", "open", "connected"},
           keep_alive: KeepAlives \cup {0}, last_activity: 0..UptimeMax]
FreeClient == [state |-> "free", keep_alive |-> 0, last_activity |-> 0]

Init ==
  /\ clients = [s \in ClientSlot |-> FreeClient]
  /\ uptime = 0
  /\ last_check = 0
  /\ last_packet = [s \in ClientSlot |-> 0]

-----------------------------------------------------------------------------
(* A name that ends in _Bug is the definition below it with one defect.    *)

Clock(t) == t % ClockWrap
Since(t) == Clock(uptime) - Clock(t)

Connected(s) == clients[s].state = "connected"
Freed(s) == [clients[s] EXCEPT !.state = "free"]
Sent(s) == last_packet' = [last_packet EXCEPT ![s] = uptime]

Accept(s) ==
  /\ clients[s].state = "free"
  /\ clients' = [clients EXCEPT ![s].state = "open", ![s].last_activity = uptime]
  /\ Sent(s)
  /\ UNCHANGED <<uptime, last_check>>

\* An accepted CONNECT, the first one or another.
Connect_Bug(s, ka) ==  \* the time of the accept stands
  /\ clients[s].state # "free"
  /\ clients' = [clients EXCEPT ![s].state = "connected", ![s].keep_alive = ka]
  /\ Sent(s)
  /\ UNCHANGED <<uptime, last_check>>
Connect_Millis(s, ka) ==  \* the keep-alive is converted at once
  /\ clients[s].state # "free"
  /\ clients' = [clients EXCEPT ![s] = [state |-> "connected", keep_alive |-> ka * 1000,
                                        last_activity |-> uptime]]
  /\ Sent(s)
  /\ UNCHANGED <<uptime, last_check>>
Connect(s, ka) ==
  /\ clients[s].state # "free"
  /\ clients' = [clients EXCEPT ![s] = [state |-> "connected", keep_alive |-> ka,
                                        last_activity |-> uptime]]
  /\ Sent(s)
  /\ UNCHANGED <<uptime, last_check>>

\* PUBLISH of QoS 0 or 1, SUBSCRIBE, UNSUBSCRIBE, PINGREQ, PUBACK.  A QoS-2
\* or malformed PUBLISH, PUBREC, PUBREL, PUBCOMP and packets of an unknown
\* type do not count: they are read, and nothing changes.
Packet(s) ==
  /\ Connected(s)
  /\ clients' = [clients EXCEPT ![s].last_activity = uptime]
  /\ Sent(s)
  /\ UNCHANGED <<uptime, last_check>>

\* client_disconnect, for any reason but the check below.
Disconnect(s) ==
  /\ clients[s].state # "free"
  /\ clients' = [clients EXCEPT ![s] = Freed(s)]
  /\ UNCHANGED <<uptime, last_check, last_packet>>

\* check_keepalive passes over slots that are not connected.
Overdue(s) ==
  /\ Connected(s) /\ clients[s].keep_alive # 0
  /\ Since(clients[s].last_activity) > clients[s].keep_alive + Grace

CheckDue == Since(last_check) > CheckEvery

CheckKeepalive_Bug ==  \* the loop ends with the first client it drops
  /\ CheckDue
  /\ last_check' = uptime
  /\ \/ \E s \in ClientSlot : Overdue(s) /\ clients' = [clients EXCEPT ![s] = Freed(s)]
     \/ (\A s \in ClientSlot : ~Overdue(s)) /\ UNCHANGED clients
  /\ UNCHANGED <<uptime, last_packet>>
CheckKeepalive ==
  /\ CheckDue
  /\ last_check' = uptime
  /\ clients' = [s \in ClientSlot |-> IF Overdue(s) THEN Freed(s) ELSE clients[s]]
  /\ UNCHANGED <<uptime, last_packet>>

\* The loop turns every 100 ms: a check that is due comes before the next
\* second.
Tick ==
  /\ ~CheckDue
  /\ uptime < UptimeMax
  /\ uptime' = uptime + 1
  /\ UNCHANGED <<clients, last_check, last_packet>>

Next ==
  \/ \E s \in ClientSlot : Accept(s) \/ Packet(s) \/ Disconnect(s)
  \/ \E s \in ClientSlot, ka \in KeepAlives : Connect(s, ka)
  \/ CheckKeepalive
  \/ Tick

Spec == Init /\ [][Next]_vars

-----------------------------------------------------------------------------
(* Properties *)

TypeOK ==
  /\ clients \in [ClientSlot -> Client]
  /\ uptime \in 0..UptimeMax
  /\ last_check \in 0..UptimeMax
  /\ last_packet \in [ClientSlot -> 0..UptimeMax]

Silence(s) == uptime - last_packet[s]

\* A client that sends nothing that counts is gone when its keep-alive, the grace and one
\* period of the check have passed (what test_broker.py waits for), while the
\* clock has not wrapped.
SilentClientsGo ==
  uptime < ClockWrap =>
    \A s \in ClientSlot : Connected(s) /\ clients[s].keep_alive # 0 =>
      Silence(s) <= clients[s].keep_alive + Grace + CheckEvery + 1

\* The check drops no client that has sent such a packet within its
\* keep-alive, however the check falls between its packets.
PunctualClientsStay ==
  [][last_check' # last_check =>
       \A s \in ClientSlot : Connected(s) /\ Silence(s) <= clients[s].keep_alive
                         => clients'[s] = clients[s]]_vars
=============================================================================
