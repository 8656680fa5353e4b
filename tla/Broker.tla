------------------------------- MODULE Broker -------------------------------
(***************************************************************************)
(* The single broker task of main/mqtt_broker.c: the client slots, the     *)
(* shared subscription pool, the QoS-1 in-flight tables, and the routing   *)
(* of a PUBLISH through the one send buffer all clients share.             *)
(*                                                                         *)
(* One action is one handler, except for the routing loop of               *)
(* handle_publish_internal: a send inside it may disconnect a client and   *)
(* so change the tables the loop is walking, and therefore each iteration  *)
(* is a step of its own (task.at = "fanout", cursor task.i).  Nothing else *)
(* the broker task does can run until the loop and the PUBACK behind it    *)
(* are done.                                                               *)
(*                                                                         *)
(* Time is left out here: a retry deadline or a keep-alive deadline may    *)
(* have passed at any moment.  Inflight.tla puts the clock back.           *)
(***************************************************************************)
EXTENDS Integers, FiniteSets

CONSTANTS
  NClients,       \* BROKER_MAX_CLIENTS: client slots 1..NClients
  NSubs,          \* BROKER_MAX_SUBSCRIPTIONS: the pool shared by all clients
  NInflight,      \* BROKER_INFLIGHT_PER_CLIENT_MAX
  MaxPacketId,    \* 65535: ids are 1..MaxPacketId, 0 is skipped on wrap
  RetryMax,       \* BROKER_INFLIGHT_RETRY_MAX
  ClientId,       \* the client identifiers in use
  Topic, Filter,  \* topic names and topic filters
  Match,          \* the pairs <<filter, topic>> mqtt_topic_matches accepts
  MaxConnects,    \* bound on s_num_connected, which repeated CONNECTs raise
  NoId, NoSub, NoMsg  \* empty client_id, inactive pool entry, inactive slot

ASSUME BrokerAssumption ==
  /\ NClients \in Nat \ {0}
  /\ NSubs \in Nat \ {0}
  /\ NInflight \in Nat \ {0}
  /\ MaxPacketId \in Nat
  /\ NInflight < MaxPacketId
  /\ RetryMax \in Nat
  /\ MaxConnects \in Nat
  /\ Topic # {}
  /\ Match \subseteq Filter \X Topic
  /\ NoId \notin ClientId

Slot == 1..NClients
SubSlot == 1..NSubs
MsgSlot == 1..NInflight
PacketId == 1..MaxPacketId
QoS == {0, 1}

\* How a message's frame relates to s_buf_size: the QoS-1 frame is two bytes
\* longer than the QoS-0 frame, so there are messages only the latter fits.
Fit == {"both", "qos0only", "neither"}

Client == [fd: BOOLEAN, connected: BOOLEAN, authenticated: BOOLEAN,
           client_id: ClientId \cup {NoId}, next_packet_id: 0..MaxPacketId]
Sub == [client_idx: Slot, topic: Filter, qos: QoS]
Msg == [packet_id: PacketId, retries: 0..RetryMax]

ASSUME NullAssumption == NoSub \notin Sub /\ NoMsg \notin Msg

VARIABLES
  clients,        \* s_clients
  subs,           \* s_subs
  inflight,       \* s_inflight
  num_connected,  \* s_num_connected
  task            \* where the broker task is, and the PUBLISH it is routing

vars == <<clients, subs, inflight, num_connected, task>>

\* task.from is the publishing slot, 0 for a PUBLISH from inside the firmware;
\* task.send_buf is the frame s_send_buf holds.  task.owed is a history
\* variable: the pool entries this PUBLISH was to reach and has not yet.
Task == [at: {"loop", "fanout", "ack"}, i: 1..(NSubs + 1), topic: Topic, fit: Fit,
         qos: QoS, from: 0..NClients, send_buf: {"qos0", "qos1"},
         owed: SUBSET SubSlot]

Idle == [at |-> "loop", i |-> 1, topic |-> CHOOSE t \in Topic : TRUE, fit |-> "both",
         qos |-> 0, from |-> 0, send_buf |-> "qos0", owed |-> {}]

FreeClient == [fd |-> FALSE, connected |-> FALSE, authenticated |-> FALSE,
               client_id |-> NoId, next_packet_id |-> 0]
NoMsgs == [k \in MsgSlot |-> NoMsg]

Init ==
  /\ clients = [s \in Slot |-> FreeClient]
  /\ subs = [j \in SubSlot |-> NoSub]
  /\ inflight = [s \in Slot |-> NoMsgs]
  /\ num_connected = 0
  /\ task = Idle

-----------------------------------------------------------------------------
(* Helpers: table lookups and client_disconnect.  A definition whose name   *)
(* ends in _Bug is not part of the specification: it is the definition      *)
(* below it with one defect, and a property must notice the exchange.       *)

\* The lowest index of a set: what a first-match scan returns, if anything.
First(S) == {x \in S : \A y \in S : x <= y}

FreeSlots == {s \in Slot : ~clients[s].fd}
FreeSubs == {j \in SubSlot : subs[j] = NoSub}
FreeMsgs(s) == {k \in MsgSlot : inflight[s][k] = NoMsg}
SubsOf_Bug(s, f) ==  \* the scan stops one entry short
  {j \in 1..(NSubs - 1) : subs[j] # NoSub /\ subs[j].client_idx = s
                           /\ subs[j].topic = f}
SubsOf(s, f) ==
  {j \in SubSlot : subs[j] # NoSub /\ subs[j].client_idx = s /\ subs[j].topic = f}

Connected(s) == clients[s].fd /\ clients[s].connected
UsedIds(s) == {inflight[s][k].packet_id : k \in MsgSlot \ FreeMsgs(s)}

\* inflight_next_packet_id: count up from the last id, skipping 0 on wrap and
\* every id that is in flight; the first id met that is free.
Ahead(id, last) == (id - last - 1) % MaxPacketId
NextPacketId_NoWrap(s) ==  \* the counter is not wrapped past its width
  {clients[s].next_packet_id + 1}
NextPacketId_Bug(s) ==  \* ids in flight are not skipped
  {id \in PacketId : \A other \in PacketId :
     Ahead(id, clients[s].next_packet_id) <= Ahead(other, clients[s].next_packet_id)}
NextPacketId(s) ==
  LET free == PacketId \ UsedIds(s)
      last == clients[s].next_packet_id
  IN  {id \in free : \A other \in free : Ahead(id, last) <= Ahead(other, last)}

\* client_disconnect on every slot of D: what each table is afterwards.
ClientsWithout_Bug(D) ==  \* next_packet_id is not reset
  [s \in Slot |-> IF s \in D
     THEN [FreeClient EXCEPT !.next_packet_id = clients[s].next_packet_id]
     ELSE clients[s]]
ClientsWithout(D) == [s \in Slot |-> IF s \in D THEN FreeClient ELSE clients[s]]
SubsWithout_Bug(D) == subs  \* the pool is not swept
SubsWithout(D) ==
  [j \in SubSlot |-> IF subs[j] # NoSub /\ subs[j].client_idx \in D THEN NoSub
                                                                    ELSE subs[j]]
InflightWithout_Bug(D) == inflight  \* the in-flight slots are not freed
InflightWithout(D) == [s \in Slot |-> IF s \in D THEN NoMsgs ELSE inflight[s]]
CountOf_Bug(D) == Cardinality({s \in D : clients[s].fd})  \* without "if (c->connected)"
CountOf(D) == Cardinality({s \in D : clients[s].connected})

\* client_disconnect; D is empty or the one slot whose socket failed.
Disconnect(D) ==
  /\ clients' = ClientsWithout(D)
  /\ subs' = SubsWithout(D)
  /\ inflight' = InflightWithout(D)
  /\ num_connected' = num_connected - CountOf(D)

\* client_send to s ends in success or, on an error or at the 3 s deadline, in
\* client_disconnect(s).  A closed slot is left alone either way.
SendOutcome(s) == IF clients[s].fd THEN {{}, {s}} ELSE {{}}

-----------------------------------------------------------------------------
(* Connections. *)

Accept ==
  /\ task.at = "loop"
  /\ \E s \in First(FreeSlots) :
       clients' = [clients EXCEPT ![s].fd = TRUE, ![s].connected = FALSE,
                                  ![s].client_id = NoId]
  /\ UNCHANGED <<subs, inflight, num_connected, task>>

\* The other slot that holds this client identifier: the first one is dropped.
Duplicates_Bug(s, id) ==  \* only the slots before s
  {d \in Slot : d < s /\ clients[d].connected /\ clients[d].client_id = id}
Duplicates(s, id) ==
  {d \in Slot \ {s} : clients[d].connected /\ clients[d].client_id = id}

\* handle_connect with CONNACK_ACCEPTED.  There is no test for a CONNECT on a
\* slot that is already connected: subscriptions and in-flight messages stay,
\* and the counter goes up again.  ok is the fate of the CONNACK.
ConnectAccepted(s, id) ==
  /\ task.at = "loop"
  /\ clients[s].fd
  /\ num_connected < MaxConnects
  /\ \E ok \in BOOLEAN :
       LET old == First(Duplicates(s, id))
           gone == IF ok THEN old ELSE old \cup {s}
           session == [clients[s] EXCEPT !.connected = TRUE, !.authenticated = TRUE,
                                         !.client_id = id]
       IN  /\ clients' = [ClientsWithout(gone) EXCEPT ![s] = IF ok THEN session ELSE @]
           /\ subs' = SubsWithout(gone)
           /\ inflight' = InflightWithout(gone)
           /\ num_connected' = (num_connected - CountOf(old)) + IF ok THEN 1 ELSE 0
  /\ UNCHANGED task

\* client_disconnect of a slot that is open: a rejected CONNECT, a first
\* packet that is no CONNECT, DISCONNECT, a malformed packet, a full receive
\* buffer, a closed or failed socket, a failed PINGRESP or UNSUBACK, or
\* check_keepalive.
Drop(s) ==
  /\ task.at = "loop"
  /\ clients[s].fd
  /\ Disconnect({s})
  /\ UNCHANGED task

-----------------------------------------------------------------------------
(* Subscriptions. *)

\* handle_subscribe for one filter.  gone is the outcome of the SUBACK and of
\* the retained messages sent behind it.
Subscribe(s, f, requested) ==
  /\ task.at = "loop"
  /\ Connected(s)
  /\ clients[s].authenticated
  /\ \E gone \in SendOutcome(s) :
       /\ clients' = ClientsWithout(gone)
       /\ inflight' = InflightWithout(gone)
       /\ num_connected' = num_connected - CountOf(gone)
       /\ LET granted == [client_idx |-> s, topic |-> f,
                          qos |-> IF requested > 1 THEN 1 ELSE requested]
              entry == IF SubsOf(s, f) # {} THEN First(SubsOf(s, f)) ELSE First(FreeSubs)
          IN  subs' = IF gone # {} THEN SubsWithout(gone)
                      ELSE [j \in SubSlot |-> IF j \in entry THEN granted ELSE subs[j]]
  /\ UNCHANGED task

\* handle_unsubscribe for one filter; the first matching entry goes.
Unsubscribe(s, f) ==
  /\ task.at = "loop"
  /\ Connected(s)
  /\ subs' = [j \in SubSlot |-> IF j \in First(SubsOf(s, f)) THEN NoSub ELSE subs[j]]
  /\ UNCHANGED <<clients, inflight, num_connected, task>>

-----------------------------------------------------------------------------
(* Routing a PUBLISH. *)

\* The tests in the loop of handle_publish_internal that skip a pool entry.
Deliverable(j, t) ==
  /\ subs[j] # NoSub
  /\ <<subs[j].topic, t>> \in Match
  /\ Connected(subs[j].client_idx)

EffectiveQoS(j) == IF task.qos < subs[j].qos THEN task.qos ELSE subs[j].qos

\* Build the QoS-0 frame in s_send_buf and start the loop; a message whose
\* QoS-0 frame does not fit is not routed at all.
Route(t, fit, qos, from) ==
  task' = [at |-> IF fit = "neither" THEN "ack" ELSE "fanout", i |-> 1, topic |-> t,
           fit |-> fit, qos |-> qos, from |-> from, send_buf |-> "qos0",
           owed |-> IF fit = "neither" THEN {}
                                       ELSE {j \in SubSlot : Deliverable(j, t)}]

\* handle_publish; QoS 2 and malformed packets change nothing.
Publish(s, t, fit, qos) ==
  /\ task.at = "loop"
  /\ Connected(s)
  /\ clients[s].authenticated
  /\ Route(t, fit, qos, s)
  /\ UNCHANGED <<clients, subs, inflight, num_connected>>

\* tester_drain_publish_queue and the $SYS publishers: no client to answer.
LocalPublish(t, fit, qos) ==
  /\ task.at = "loop"
  /\ Route(t, fit, qos, 0)
  /\ UNCHANGED <<clients, subs, inflight, num_connected>>

AtEntry == task.at = "fanout" /\ task.i \in SubSlot

Advance(buf, served) ==
  task' = [task EXCEPT !.i = @ + 1, !.send_buf = buf, !.owed = @ \ served]

FanoutSkip_Bug ==  \* continue without i++
  /\ AtEntry
  /\ ~Deliverable(task.i, task.topic)
  /\ UNCHANGED vars

FanoutSkip ==
  /\ AtEntry
  /\ ~Deliverable(task.i, task.topic)
  /\ Advance(task.send_buf, {})
  /\ UNCHANGED <<clients, subs, inflight, num_connected>>

FanoutQoS0_Bug ==  \* a failed send returns from the loop
  /\ AtEntry
  /\ Deliverable(task.i, task.topic)
  /\ EffectiveQoS(task.i) = 0
  /\ \E gone \in SendOutcome(subs[task.i].client_idx) :
       /\ Disconnect(gone)
       /\ task' = [task EXCEPT !.at = IF gone = {} THEN @ ELSE "ack",
                              !.i = IF gone = {} THEN @ + 1 ELSE NSubs + 1,
                              !.owed = @ \ {task.i}]

\* client_send(ci, s_send_buf, q0_len)
FanoutQoS0 ==
  /\ AtEntry
  /\ Deliverable(task.i, task.topic)
  /\ EffectiveQoS(task.i) = 0
  /\ \E gone \in SendOutcome(subs[task.i].client_idx) : Disconnect(gone)
  /\ Advance(task.send_buf, {task.i})

\* inflight_enqueue fails: no free slot, the byte cap, or an allocation.  Only
\* a failed allocation has taken a packet id.  One QoS-0 send instead.
FanoutDegrade ==
  /\ AtEntry
  /\ Deliverable(task.i, task.topic)
  /\ EffectiveQoS(task.i) = 1
  /\ LET ci == subs[task.i].client_idx IN
       \E gone \in SendOutcome(ci) :
       \E id \in {clients[ci].next_packet_id} \cup
                 (IF FreeMsgs(ci) = {} THEN {} ELSE NextPacketId(ci)) :
         /\ clients' = [ClientsWithout(gone) EXCEPT
                          ![ci].next_packet_id = IF gone = {} THEN id ELSE @]
         /\ subs' = SubsWithout(gone)
         /\ inflight' = InflightWithout(gone)
         /\ num_connected' = num_connected - CountOf(gone)
  /\ Advance(task.send_buf, {task.i})

\* inflight_enqueue succeeds and inflight_transmit sends.  A QoS-1 frame that
\* does not fit frees the slot again and nothing is sent.
FanoutQoS1 ==
  /\ AtEntry
  /\ Deliverable(task.i, task.topic)
  /\ EffectiveQoS(task.i) = 1
  /\ LET ci == subs[task.i].client_idx IN
       \E k \in First(FreeMsgs(ci)), id \in NextPacketId(ci) :
       \E gone \in IF task.fit = "both" THEN SendOutcome(ci) ELSE {{}} :
         /\ clients' = [ClientsWithout(gone) EXCEPT
                          ![ci].next_packet_id = IF gone = {} THEN id ELSE @]
         /\ inflight' = [InflightWithout(gone) EXCEPT
                           ![ci][k] = IF gone = {} /\ task.fit = "both"
                                      THEN [packet_id |-> id, retries |-> 0] ELSE @]
         /\ subs' = SubsWithout(gone)
         /\ num_connected' = num_connected - CountOf(gone)
  /\ IF task.fit = "both" THEN Advance("qos1", {task.i}) ELSE Advance(task.send_buf, {})

FanoutDone ==
  /\ task.at = "fanout"
  /\ task.i = NSubs + 1
  /\ task' = [task EXCEPT !.at = "ack"]
  /\ UNCHANGED <<clients, subs, inflight, num_connected>>

\* PUBACK, unless the PUBLISH was QoS 0 or came from inside.
Puback ==
  /\ task.at = "ack"
  /\ \E gone \in IF task.from \in Slot /\ task.qos = 1
                 THEN SendOutcome(task.from) ELSE {{}} : Disconnect(gone)
  /\ task' = Idle

-----------------------------------------------------------------------------
(* The in-flight tables. *)

\* PUBACK from a subscriber: the first slot with this id is freed.
HandlePuback(s, id) ==
  /\ task.at = "loop"
  /\ Connected(s)
  /\ \E k \in First({k \in MsgSlot \ FreeMsgs(s) : inflight[s][k].packet_id = id}) :
       inflight' = [inflight EXCEPT ![s][k] = NoMsg]
  /\ UNCHANGED <<clients, subs, num_connected, task>>

Resent(m) == [m EXCEPT !.retries = @ + 1]

\* inflight_walk on a due slot: give up, or resend with DUP.
RetryOrAbandon(s, k) ==
  /\ task.at = "loop"
  /\ Connected(s)
  /\ inflight[s][k] # NoMsg
  /\ \/ /\ inflight[s][k].retries >= RetryMax
        /\ inflight' = [inflight EXCEPT ![s][k] = NoMsg]
        /\ UNCHANGED <<clients, subs, num_connected>>
     \/ /\ inflight[s][k].retries < RetryMax
        /\ \E gone \in SendOutcome(s) :
             /\ clients' = ClientsWithout(gone)
             /\ subs' = SubsWithout(gone)
             /\ num_connected' = num_connected - CountOf(gone)
             /\ inflight' = [InflightWithout(gone) EXCEPT
                  ![s][k] = IF gone = {} THEN Resent(@) ELSE @]
  /\ UNCHANGED task

-----------------------------------------------------------------------------

PacketFrom(s) ==
  \/ \E id \in ClientId : ConnectAccepted(s, id)
  \/ Drop(s)
  \/ \E f \in Filter, requested \in 0..2 : Subscribe(s, f, requested)
  \/ \E f \in Filter : Unsubscribe(s, f)
  \/ \E t \in Topic, fit \in Fit, qos \in QoS : Publish(s, t, fit, qos)
  \/ \E id \in PacketId : HandlePuback(s, id)

Fanout == FanoutSkip \/ FanoutQoS0 \/ FanoutDegrade \/ FanoutQoS1 \/ FanoutDone

Next ==
  \/ Accept
  \/ \E s \in Slot : PacketFrom(s)
  \/ \E t \in Topic, fit \in Fit, qos \in QoS : LocalPublish(t, fit, qos)
  \/ Fanout
  \/ Puback
  \/ \E s \in Slot, k \in MsgSlot : RetryOrAbandon(s, k)

Spec == Init /\ [][Next]_vars

-----------------------------------------------------------------------------
(* Properties. *)

\* Every table holds values of its type.
TypeOK ==
  /\ clients \in [Slot -> Client]
  /\ subs \in [SubSlot -> Sub \cup {NoSub}]
  /\ inflight \in [Slot -> [MsgSlot -> Msg \cup {NoMsg}]]
  /\ num_connected \in Int
  /\ task \in Task

\* A pool entry belongs to a client that is connected now.  A slot is reused as
\* soon as it is closed, so an entry that outlived its client would deliver one
\* client's messages to whoever connects next.
SubsBelongToSessions ==
  \A j \in SubSlot : subs[j] # NoSub => Connected(subs[j].client_idx)

\* An in-flight message belongs to a client that is connected now, so that a
\* new session in the slot is never sent the old one's messages.
InflightBelongsToSessions ==
  \A s \in Slot, k \in MsgSlot : inflight[s][k] # NoMsg => Connected(s)

\* Two slots never hold the same client identifier, although handle_connect
\* stops looking at the first duplicate it finds.
OneSessionPerClientId ==
  \A s, d \in Slot :
    clients[s].connected /\ clients[d].connected
      /\ clients[s].client_id = clients[d].client_id => s = d

\* A client has one pool entry per filter: SUBSCRIBE replaces, so UNSUBSCRIBE,
\* which stops at the first match, leaves none behind and a PUBLISH is not
\* delivered twice for one filter.
OneEntryPerFilter ==
  \A i, j \in SubSlot :
    subs[i] # NoSub /\ subs[j] # NoSub
      /\ subs[i].client_idx = subs[j].client_idx /\ subs[i].topic = subs[j].topic
      => i = j

\* The messages in flight to one client carry different packet ids, also after
\* the 16-bit counter has wrapped: a PUBACK frees the message it answers.
DistinctPacketIds ==
  \A s \in Slot : \A k, l \in MsgSlot \ FreeMsgs(s) :
    inflight[s][k].packet_id = inflight[s][l].packet_id => k = l

\* The client count the portal shows is never below the number of sessions.
CountNeverLow == num_connected >= Cardinality({s \in Slot : clients[s].connected})

\* The routing loop reaches every subscriber it was to reach: behind the cursor
\* an entry is only still owed its copy when its client was disconnected on the
\* way, or when the QoS-1 frame did not fit the send buffer.
NobodySkipped ==
  task.at \in {"fanout", "ack"} =>
    \A j \in task.owed :
      j < task.i => subs[j] = NoSub \/ (task.fit = "qos0only" /\ EffectiveQoS(j) = 1)

\* A session that begins finds no subscription, no message and no packet id of
\* an earlier session in its slot (handle_connect itself clears nothing).
NewSessionIsClean ==
  [][\A s \in Slot : ~clients[s].connected /\ clients'[s].connected =>
       /\ \A j \in SubSlot : subs'[j] = NoSub \/ subs'[j].client_idx # s
       /\ inflight'[s] = NoMsgs
       /\ clients'[s].next_packet_id = 0]_vars

\* The count equals the number of sessions: mqtt_broker.h:93 calls what
\* broker_get_stats returns a snapshot of the broker, connected_clients first.
CountExact == num_connected = Cardinality({s \in Slot : clients[s].connected})

\* Every QoS-0 copy is sent from the QoS-0 frame: the comment at
\* mqtt_broker.c:1097 says all of them go out before s_send_buf is rebuilt.
QoS0FromPrebuiltFrame ==
  AtEntry /\ Deliverable(task.i, task.topic) /\ EffectiveQoS(task.i) = 0
    => task.send_buf = "qos0"

\* Once routing has begun the broker task returns to its select loop, whatever
\* the sockets of the subscribers do.
RoutingEnds == task.at # "loop" ~> task.at = "loop"

\* The broker task runs its code to the end: the steps that follow inside a
\* handler are never withheld.
FairSpec == Spec /\ WF_vars(Fanout) /\ WF_vars(Puback)

=============================================================================
