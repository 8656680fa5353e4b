---------------------------- MODULE BrokerProofs ----------------------------
(***************************************************************************)
(* The invariants of Broker, for every number of slots, pool entries and   *)
(* packet ids.  Each needs no more than the types besides itself, so each  *)
(* is proved inductive on its own.                                         *)
(***************************************************************************)
EXTENDS Broker, FiniteSetTheorems, TLAPS

\* A first-match scan finds an element of the set it scans.
LEMMA FirstIsMember == \A S : First(S) \subseteq S
BY DEF First

\* A first-match scan over integers finds at most one element.
LEMMA FirstIsUnique ==
  ASSUME NEW S \in SUBSET Int, NEW x \in First(S), NEW y \in First(S)
  PROVE  x = y
BY DEF First

LEMMA IdleIsTask == Idle \in Task
BY BrokerAssumption DEF Idle, Task, Fit, QoS, SubSlot

LEMMA FreeClientIsClient == FreeClient \in Client
BY BrokerAssumption DEF FreeClient, Client

\* client_disconnect keeps every table typed, whatever set of slots it is
\* applied to.
LEMMA WithoutTypes ==
  ASSUME TypeOK, NEW D
  PROVE  /\ ClientsWithout(D) \in [Slot -> Client]
         /\ SubsWithout(D) \in [SubSlot -> Sub \cup {NoSub}]
         /\ InflightWithout(D) \in [Slot -> [MsgSlot -> Msg \cup {NoMsg}]]
BY FreeClientIsClient DEF TypeOK, ClientsWithout, SubsWithout, InflightWithout, NoMsgs

\* Sessions counted in a set of slots: a natural number.
LEMMA CountIsNat ==
  ASSUME NEW D, D \subseteq Slot
  PROVE  CountOf(D) \in Nat
<1>1. IsFiniteSet(Slot)
  BY FS_Interval, BrokerAssumption DEF Slot
<1>2. IsFiniteSet({s \in D : clients[s].connected})
  BY <1>1, FS_Subset
<1>3. QED  BY <1>2, FS_CardinalityType DEF CountOf

LEMMA SendOutcomeInSlot ==
  ASSUME NEW s \in Slot, NEW gone \in SendOutcome(s)
  PROVE  gone \subseteq Slot
BY DEF SendOutcome

\* One step of client_disconnect keeps the types.
LEMMA DisconnectTypes ==
  ASSUME TypeOK, NEW D, D \subseteq Slot, Disconnect(D)
  PROVE  /\ clients' \in [Slot -> Client]
         /\ subs' \in [SubSlot -> Sub \cup {NoSub}]
         /\ inflight' \in [Slot -> [MsgSlot -> Msg \cup {NoMsg}]]
         /\ num_connected' \in Int
BY WithoutTypes, CountIsNat DEF Disconnect, TypeOK

\* Record updates, a field at a time.
LEMMA PacketIdUpdate ==
  ASSUME NEW f \in [Slot -> Client], NEW s \in Slot, NEW id \in 0..MaxPacketId
  PROVE  [f EXCEPT ![s].next_packet_id = id] \in [Slot -> Client]
<1>1. [f[s] EXCEPT !.next_packet_id = id] \in Client
  BY DEF Client
<1>2. QED  BY <1>1

\* Taking a packet id leaves the session as it is.
LEMMA SessionKept ==
  ASSUME NEW f \in [Slot -> Client], NEW c, NEW id, NEW s \in Slot
  PROVE  LET g == [f EXCEPT ![c].next_packet_id = id] IN
           /\ g[s].fd = f[s].fd
           /\ g[s].connected = f[s].connected
           /\ g[s].client_id = f[s].client_id
<1>1. \A x \in Client : LET y == [x EXCEPT !.next_packet_id = id] IN
        y.fd = x.fd /\ y.connected = x.connected /\ y.client_id = x.client_id
  BY DEF Client
<1>2. QED  BY <1>1

LEMMA TaskUpdate ==
  ASSUME NEW t \in Task, NEW i \in 1..(NSubs + 1), NEW buf \in {"qos0", "qos1"},
         NEW owed \in SUBSET SubSlot
  PROVE  [t EXCEPT !.i = i, !.send_buf = buf, !.owed = owed] \in Task
<1>1. [t EXCEPT !.i = i] \in Task
  BY DEF Task
<1>2. \A u \in Task : [u EXCEPT !.send_buf = buf] \in Task
  BY DEF Task
<1>3. \A u \in Task : [u EXCEPT !.owed = owed] \in Task
  BY DEF Task
<1>4. QED  BY <1>1, <1>2, <1>3

LEMMA AdvanceTypes ==
  ASSUME TypeOK, AtEntry, NEW buf \in {"qos0", "qos1"}, NEW served, Advance(buf, served)
  PROVE  task' \in Task
<1>1. task \in Task /\ task.i + 1 \in 1..(NSubs + 1)
  BY BrokerAssumption DEF TypeOK, AtEntry, SubSlot
<1>2. task.owed \ served \in SUBSET SubSlot
  BY <1>1 DEF Task
<1>3. QED  BY <1>1, <1>2, TaskUpdate DEF Advance

LEMMA RouteTypes ==
  ASSUME NEW t \in Topic, NEW fit \in Fit, NEW qos \in QoS, NEW from \in 0..NClients,
         Route(t, fit, qos, from)
  PROVE  task' \in Task
BY BrokerAssumption DEF Route, Task, SubSlot

\* The sub-steps that route one PUBLISH keep the types.
LEMMA FanoutTypes ==
  ASSUME TypeOK, Fanout
  PROVE  TypeOK'
<1>1. CASE FanoutSkip
  <2>1. task' \in Task
    BY <1>1, AdvanceTypes DEF FanoutSkip, TypeOK, Task
  <2>2. QED  BY <1>1, <2>1 DEF FanoutSkip, TypeOK
<1>2. CASE FanoutQoS0
  <2>1. subs[task.i].client_idx \in Slot
    BY <1>2 DEF FanoutQoS0, AtEntry, Deliverable, TypeOK, Sub
  <2>2. task' \in Task
    BY <1>2, AdvanceTypes DEF FanoutQoS0, TypeOK, Task
  <2>3. QED
    BY <1>2, <2>1, <2>2, SendOutcomeInSlot, DisconnectTypes DEF FanoutQoS0, TypeOK
<1>3. CASE FanoutDegrade
  <2> DEFINE ci == subs[task.i].client_idx
  <2>1. ci \in Slot
    BY <1>3 DEF FanoutDegrade, AtEntry, Deliverable, TypeOK, Sub
  <2>2. task' \in Task
    BY <1>3, AdvanceTypes DEF FanoutDegrade, TypeOK, Task
  <2>3. PICK gone \in SendOutcome(ci),
             id \in {clients[ci].next_packet_id} \cup
                   (IF FreeMsgs(ci) = {} THEN {} ELSE NextPacketId(ci)) :
          /\ clients' = [ClientsWithout(gone) EXCEPT
                           ![ci].next_packet_id = IF gone = {} THEN id ELSE @]
          /\ subs' = SubsWithout(gone)
          /\ inflight' = InflightWithout(gone)
          /\ num_connected' = num_connected - CountOf(gone)
    BY <1>3 DEF FanoutDegrade
  <2>4. id \in 0..MaxPacketId
    BY <2>1, BrokerAssumption DEF NextPacketId, PacketId, TypeOK, Client
  <2>5. clients' \in [Slot -> Client]
    <3> DEFINE table == ClientsWithout(gone)
               value == IF gone = {} THEN id ELSE table[ci].next_packet_id
    <3>1. table \in [Slot -> Client]
      BY WithoutTypes
    <3>2. value \in 0..MaxPacketId
      BY <2>1, <2>4, <3>1 DEF Client
    <3>3. clients' = [table EXCEPT ![ci].next_packet_id = value]
      BY <2>3
    <3> HIDE DEF table, value, ci
    <3>4. QED  BY <2>1, <3>1, <3>2, <3>3, PacketIdUpdate
  <2>6. QED
    BY <2>1, <2>2, <2>3, <2>5, WithoutTypes, CountIsNat, SendOutcomeInSlot DEF TypeOK
<1>4. CASE FanoutQoS1
  <2> DEFINE ci == subs[task.i].client_idx
  <2>1. ci \in Slot
    BY <1>4 DEF FanoutQoS1, AtEntry, Deliverable, TypeOK, Sub
  <2>2. task' \in Task
    <3>1. CASE task.fit = "both"
      BY <1>4, <3>1, AdvanceTypes DEF FanoutQoS1
    <3>2. CASE task.fit # "both"
      BY <1>4, <3>2, AdvanceTypes DEF FanoutQoS1, TypeOK, Task
    <3>3. QED  BY <3>1, <3>2
  <2>3. PICK k \in First(FreeMsgs(ci)), id \in NextPacketId(ci),
             gone \in IF task.fit = "both" THEN SendOutcome(ci) ELSE {{}} :
          /\ clients' = [ClientsWithout(gone) EXCEPT
                           ![ci].next_packet_id = IF gone = {} THEN id ELSE @]
          /\ inflight' = [InflightWithout(gone) EXCEPT
                            ![ci][k] = IF gone = {} /\ task.fit = "both"
                                       THEN [packet_id |-> id, retries |-> 0] ELSE @]
          /\ subs' = SubsWithout(gone)
          /\ num_connected' = num_connected - CountOf(gone)
    BY <1>4 DEF FanoutQoS1
  <2>4. id \in PacketId /\ id \in 0..MaxPacketId
    BY <2>1, BrokerAssumption DEF NextPacketId, PacketId
  <2>5. k \in MsgSlot
    BY <2>1, FirstIsMember DEF FreeMsgs
  <2>6. clients' \in [Slot -> Client]
    <3> DEFINE table == ClientsWithout(gone)
               value == IF gone = {} THEN id ELSE table[ci].next_packet_id
    <3>1. table \in [Slot -> Client]
      BY WithoutTypes
    <3>2. value \in 0..MaxPacketId
      BY <2>1, <2>4, <3>1 DEF Client
    <3>3. clients' = [table EXCEPT ![ci].next_packet_id = value]
      BY <2>3
    <3> HIDE DEF table, value, ci
    <3>4. QED  BY <2>1, <3>1, <3>2, <3>3, PacketIdUpdate
  <2>7. [packet_id |-> id, retries |-> 0] \in Msg
    BY <2>4, BrokerAssumption DEF Msg
  <2>8. inflight' \in [Slot -> [MsgSlot -> Msg \cup {NoMsg}]]
    <3> DEFINE table == InflightWithout(gone)
               value == IF gone = {} /\ task.fit = "both"
                        THEN [packet_id |-> id, retries |-> 0] ELSE table[ci][k]
    <3>1. table \in [Slot -> [MsgSlot -> Msg \cup {NoMsg}]]
      BY WithoutTypes
    <3>2. value \in Msg \cup {NoMsg}
      BY <2>1, <2>5, <2>7, <3>1
    <3>3. inflight' = [table EXCEPT ![ci][k] = value]
      BY <2>3
    <3> HIDE DEF table, value, ci
    <3>4. QED  BY <2>1, <2>5, <3>1, <3>2, <3>3
  <2>9. gone \subseteq Slot
    BY <2>1, SendOutcomeInSlot
  <2>10. QED
    BY <2>2, <2>3, <2>6, <2>8, <2>9, WithoutTypes, CountIsNat DEF TypeOK
<1>5. CASE FanoutDone
  BY <1>5 DEF FanoutDone, TypeOK, Task
<1>6. QED  BY <1>1, <1>2, <1>3, <1>4, <1>5 DEF Fanout

\* The handlers that run at the top of the select loop keep the types.
LEMMA HandlerTypes ==
  ASSUME TypeOK, Next
  PROVE  TypeOK'
<1>1. CASE Accept
  <2>1. PICK s \in First(FreeSlots) :
          clients' = [clients EXCEPT ![s].fd = TRUE, ![s].connected = FALSE,
                                     ![s].client_id = NoId]
    BY <1>1 DEF Accept
  <2>2. s \in Slot /\ clients[s] \in Client
    BY FirstIsMember DEF FreeSlots, TypeOK
  <2>3. [clients[s] EXCEPT !.fd = TRUE, !.connected = FALSE, !.client_id = NoId] \in Client
    BY <2>2 DEF Client
  <2>4. clients' \in [Slot -> Client]
    BY <2>1, <2>2, <2>3 DEF TypeOK
  <2>5. QED  BY <1>1, <2>4 DEF Accept, TypeOK
<1>2. ASSUME NEW s \in Slot, NEW id \in ClientId, ConnectAccepted(s, id)
      PROVE  TypeOK'
  <2> DEFINE old == First(Duplicates(s, id))
             session == [clients[s] EXCEPT !.connected = TRUE, !.authenticated = TRUE,
                                           !.client_id = id]
             gone(ok) == IF ok THEN old ELSE old \cup {s}
  <2>1. PICK ok \in BOOLEAN :
          /\ clients' = [ClientsWithout(gone(ok)) EXCEPT ![s] = IF ok THEN session ELSE @]
          /\ subs' = SubsWithout(gone(ok))
          /\ inflight' = InflightWithout(gone(ok))
          /\ num_connected' = (num_connected - CountOf(old)) + IF ok THEN 1 ELSE 0
    BY <1>2 DEF ConnectAccepted
  <2>2. session \in Client
    BY <1>2 DEF TypeOK, Client
  <2>3. old \subseteq Slot
    BY FirstIsMember DEF Duplicates
  <2>4. CountOf(old) \in Nat
    BY <2>3, CountIsNat
  <2>5. clients' \in [Slot -> Client]
    BY <1>2, <2>1, <2>2, WithoutTypes
  <2>6. num_connected' \in Int
    BY <2>1, <2>4 DEF TypeOK
  <2>7. QED
    BY <1>2, <2>1, <2>5, <2>6, WithoutTypes DEF TypeOK, ConnectAccepted
<1>3. ASSUME NEW s \in Slot, Drop(s)
      PROVE  TypeOK'
  BY <1>3, DisconnectTypes DEF Drop, TypeOK
<1>4. ASSUME NEW s \in Slot, NEW f \in Filter, NEW requested \in 0..2,
             Subscribe(s, f, requested)
      PROVE  TypeOK'
  <2> DEFINE granted == [client_idx |-> s, topic |-> f,
                         qos |-> IF requested > 1 THEN 1 ELSE requested]
             entry == IF SubsOf(s, f) # {} THEN First(SubsOf(s, f)) ELSE First(FreeSubs)
  <2>1. PICK gone \in SendOutcome(s) :
          /\ clients' = ClientsWithout(gone)
          /\ inflight' = InflightWithout(gone)
          /\ num_connected' = num_connected - CountOf(gone)
          /\ subs' = IF gone # {} THEN SubsWithout(gone)
                     ELSE [j \in SubSlot |-> IF j \in entry THEN granted ELSE subs[j]]
    BY <1>4 DEF Subscribe
  <2>2. granted \in Sub
    BY <1>4 DEF Sub, QoS
  <2>3. subs' \in [SubSlot -> Sub \cup {NoSub}]
    BY <2>1, <2>2, WithoutTypes DEF TypeOK
  <2>4. CountOf(gone) \in Nat
    BY <1>4, CountIsNat, SendOutcomeInSlot
  <2>5. QED
    BY <1>4, <2>1, <2>3, <2>4, WithoutTypes DEF TypeOK, Subscribe
<1>5. ASSUME NEW s \in Slot, NEW f \in Filter, Unsubscribe(s, f)
      PROVE  TypeOK'
  BY <1>5 DEF Unsubscribe, TypeOK
<1>6. ASSUME NEW s \in Slot, NEW t \in Topic, NEW fit \in Fit, NEW qos \in QoS,
             Publish(s, t, fit, qos)
      PROVE  TypeOK'
  BY <1>6, RouteTypes, BrokerAssumption DEF Publish, TypeOK, Slot
<1>7. ASSUME NEW t \in Topic, NEW fit \in Fit, NEW qos \in QoS,
             LocalPublish(t, fit, qos)
      PROVE  TypeOK'
  BY <1>7, RouteTypes, BrokerAssumption DEF LocalPublish, TypeOK
<1>8. CASE Puback
  <2>1. PICK gone \in IF task.from \in Slot /\ task.qos = 1
                      THEN SendOutcome(task.from) ELSE {{}} : Disconnect(gone)
    BY <1>8 DEF Puback
  <2>2. gone \subseteq Slot
    BY SendOutcomeInSlot
  <2>3. QED  BY <1>8, <2>1, <2>2, DisconnectTypes, IdleIsTask DEF Puback, TypeOK
<1>9. ASSUME NEW s \in Slot, NEW id \in PacketId, HandlePuback(s, id)
      PROVE  TypeOK'
  <2>1. PICK k \in First({k \in MsgSlot \ FreeMsgs(s) : inflight[s][k].packet_id = id}) :
          inflight' = [inflight EXCEPT ![s][k] = NoMsg]
    BY <1>9 DEF HandlePuback
  <2>2. k \in MsgSlot
    BY FirstIsMember
  <2>3. inflight' \in [Slot -> [MsgSlot -> Msg \cup {NoMsg}]]
    BY <1>9, <2>1, <2>2 DEF TypeOK
  <2>4. QED  BY <1>9, <2>3 DEF HandlePuback, TypeOK
<1>10. ASSUME NEW s \in Slot, NEW k \in MsgSlot, RetryOrAbandon(s, k)
       PROVE  TypeOK'
  <2>1. CASE inflight[s][k].retries >= RetryMax /\ UNCHANGED <<clients, subs, num_connected>>
             /\ inflight' = [inflight EXCEPT ![s][k] = NoMsg]
    BY <1>10, <2>1 DEF RetryOrAbandon, TypeOK
  <2>2. ASSUME inflight[s][k].retries < RetryMax, NEW gone \in SendOutcome(s),
               clients' = ClientsWithout(gone), subs' = SubsWithout(gone),
               num_connected' = num_connected - CountOf(gone),
               inflight' = [InflightWithout(gone) EXCEPT
                  ![s][k] = IF gone = {} THEN Resent(@) ELSE @]
        PROVE  TypeOK'
    <3> DEFINE table == InflightWithout(gone)
               value == IF gone = {} THEN Resent(table[s][k]) ELSE table[s][k]
    <3>1. table \in [Slot -> [MsgSlot -> Msg \cup {NoMsg}]]
      BY WithoutTypes
    <3>2. value \in Msg \cup {NoMsg}
      <4>1. CASE gone = {}
        <5>1. table[s][k] = inflight[s][k]
          BY <1>10, <4>1 DEF InflightWithout, TypeOK
        <5>2. inflight[s][k] \in Msg
          BY <1>10 DEF RetryOrAbandon, TypeOK
        <5>3. inflight[s][k].retries + 1 \in 0..RetryMax
          BY <2>2, <5>2, BrokerAssumption DEF Msg
        <5>4. Resent(inflight[s][k]) \in Msg
          BY <5>2, <5>3 DEF Msg, Resent
        <5>5. QED  BY <4>1, <5>1, <5>4
      <4>2. CASE gone # {}
        BY <1>10, <3>1, <4>2
      <4>3. QED  BY <4>1, <4>2
    <3>3. inflight' = [table EXCEPT ![s][k] = value]
      BY <2>2
    <3>4. inflight' \in [Slot -> [MsgSlot -> Msg \cup {NoMsg}]]
      <4> HIDE DEF table, value
      <4>1. QED  BY <1>10, <3>1, <3>2, <3>3
    <3>5. CountOf(gone) \in Nat
      BY <1>10, <2>2, CountIsNat, SendOutcomeInSlot
    <3>6. QED
      BY <1>10, <2>2, <3>4, <3>5, WithoutTypes DEF TypeOK, RetryOrAbandon
  <2>3. QED  BY <1>10, <2>1, <2>2 DEF RetryOrAbandon
<1>11. CASE Fanout
  BY <1>11, FanoutTypes
<1>12. QED
  BY <1>1, <1>2, <1>3, <1>4, <1>5, <1>6, <1>7, <1>8, <1>9, <1>10, <1>11
  DEF Next, PacketFrom

\* Every table of the broker task always holds values of its type.
THEOREM TypeCorrect == Spec => []TypeOK
<1>1. Init => TypeOK
  BY FreeClientIsClient, IdleIsTask DEF Init, TypeOK, NoMsgs
<1>2. TypeOK /\ [Next]_vars => TypeOK'
  <2>1. CASE UNCHANGED vars
    BY <2>1 DEF vars, TypeOK
  <2>2. QED  BY <2>1, HandlerTypes
<1>3. QED  BY <1>1, <1>2, PTL DEF Spec

-----------------------------------------------------------------------------
(* What belongs to a session ends with it. *)

\* A pool entry that client_disconnect leaves is unchanged, and so is its owner.
LEMMA KeptEntry ==
  ASSUME TypeOK, NEW D, NEW j \in SubSlot, SubsWithout(D)[j] # NoSub
  PROVE  /\ SubsWithout(D)[j] = subs[j]
         /\ subs[j] \in Sub
         /\ subs[j].client_idx \in Slot \ D
         /\ ClientsWithout(D)[subs[j].client_idx] = clients[subs[j].client_idx]
BY DEF TypeOK, SubsWithout, ClientsWithout, Sub

\* So is an in-flight message.
LEMMA KeptMessage ==
  ASSUME TypeOK, NEW D, NEW s \in Slot, NEW k \in MsgSlot, InflightWithout(D)[s][k] # NoMsg
  PROVE  /\ s \notin D
         /\ InflightWithout(D)[s] = inflight[s]
         /\ ClientsWithout(D)[s] = clients[s]
BY DEF InflightWithout, ClientsWithout, NoMsgs

OwnershipInv == SubsBelongToSessions /\ InflightBelongsToSessions

\* The routing loop and the retries hand a message only to a session.
LEMMA OwnershipFanout ==
  ASSUME TypeOK, OwnershipInv, Fanout
  PROVE  OwnershipInv'
<1> USE DEF OwnershipInv, SubsBelongToSessions, InflightBelongsToSessions, Connected
<1>1. CASE FanoutSkip
  BY <1>1 DEF FanoutSkip
<1>2. CASE FanoutQoS0
  <2>1. PICK gone \in SendOutcome(subs[task.i].client_idx) : Disconnect(gone)
    BY <1>2 DEF FanoutQoS0
  <2>2. QED  BY <2>1, KeptEntry, KeptMessage DEF Disconnect
<1>3. CASE FanoutDegrade
  <2> DEFINE ci == subs[task.i].client_idx
  <2>1. PICK gone \in SendOutcome(ci),
             id \in {clients[ci].next_packet_id} \cup
                   (IF FreeMsgs(ci) = {} THEN {} ELSE NextPacketId(ci)) :
          /\ clients' = [ClientsWithout(gone) EXCEPT
                           ![ci].next_packet_id = IF gone = {} THEN id ELSE @]
          /\ subs' = SubsWithout(gone)
          /\ inflight' = InflightWithout(gone)
    BY <1>3 DEF FanoutDegrade
  <2>2. ClientsWithout(gone) \in [Slot -> Client]
    BY WithoutTypes
  <2>3. \A s \in Slot : clients'[s].fd = ClientsWithout(gone)[s].fd
                       /\ clients'[s].connected = ClientsWithout(gone)[s].connected
    BY <2>1, <2>2, SessionKept
  <2>4. QED  BY <2>1, <2>3, KeptEntry, KeptMessage
<1>4. CASE FanoutQoS1
  <2> DEFINE ci == subs[task.i].client_idx
  <2>1. ci \in Slot /\ Connected(ci)
    BY <1>4 DEF FanoutQoS1, AtEntry, Deliverable, TypeOK, Sub
  <2>2. PICK k \in First(FreeMsgs(ci)), id \in NextPacketId(ci),
             gone \in IF task.fit = "both" THEN SendOutcome(ci) ELSE {{}} :
          /\ clients' = [ClientsWithout(gone) EXCEPT
                           ![ci].next_packet_id = IF gone = {} THEN id ELSE @]
          /\ inflight' = [InflightWithout(gone) EXCEPT
                            ![ci][k] = IF gone = {} /\ task.fit = "both"
                                       THEN [packet_id |-> id, retries |-> 0] ELSE @]
          /\ subs' = SubsWithout(gone)
    BY <1>4 DEF FanoutQoS1
  <2>3. ClientsWithout(gone) \in [Slot -> Client]
    BY WithoutTypes
  <2>4. \A s \in Slot : clients'[s].fd = ClientsWithout(gone)[s].fd
                       /\ clients'[s].connected = ClientsWithout(gone)[s].connected
    BY <2>2, <2>3, SessionKept
  <2>5. ASSUME NEW s \in Slot, NEW l \in MsgSlot, inflight'[s][l] # NoMsg
        PROVE  Connected(s)'
    <3>1. CASE s = ci /\ gone = {}
      BY <2>1, <2>4, <3>1 DEF ClientsWithout
    <3>2. CASE s # ci \/ gone # {}
      <4>1. inflight'[s][l] = InflightWithout(gone)[s][l]
        BY <2>2, <2>5, <3>2, WithoutTypes
      <4>2. QED  BY <2>4, <2>5, <4>1, KeptMessage
    <3>3. QED  BY <3>1, <3>2
  <2>6. QED  BY <2>2, <2>4, <2>5, KeptEntry
<1>5. CASE FanoutDone
  BY <1>5 DEF FanoutDone
<1>6. QED  BY <1>1, <1>2, <1>3, <1>4, <1>5 DEF Fanout

\* Every other step: a slot that opens is empty, a session that begins finds
\* nothing, a subscription is entered for a session.
LEMMA OwnershipStep ==
  ASSUME TypeOK, OwnershipInv, Next
  PROVE  OwnershipInv'
<1> USE DEF OwnershipInv, SubsBelongToSessions, InflightBelongsToSessions, Connected
<1>1. CASE Accept
  <2>1. PICK s \in First(FreeSlots) :
          clients' = [clients EXCEPT ![s].fd = TRUE, ![s].connected = FALSE,
                                     ![s].client_id = NoId]
    BY <1>1 DEF Accept
  <2>2. s \in Slot /\ ~clients[s].fd
    BY FirstIsMember DEF FreeSlots
  <2>3. \A d \in Slot \ {s} : clients'[d] = clients[d]
    BY <2>1 DEF TypeOK
  <2>4. QED  BY <1>1, <2>2, <2>3 DEF Accept, TypeOK, Sub
<1>2. ASSUME NEW s \in Slot, NEW id \in ClientId, ConnectAccepted(s, id)
      PROVE  OwnershipInv'
  <2> DEFINE session == [clients[s] EXCEPT !.connected = TRUE, !.authenticated = TRUE,
                                           !.client_id = id]
  <2>1. PICK ok \in BOOLEAN, gone \in SUBSET Slot :
          /\ ~ok => s \in gone
          /\ clients' = [ClientsWithout(gone) EXCEPT ![s] = IF ok THEN session ELSE @]
          /\ subs' = SubsWithout(gone)
          /\ inflight' = InflightWithout(gone)
    <3>1. PICK ok \in BOOLEAN :
            LET old == First(Duplicates(s, id))
                gone == IF ok THEN old ELSE old \cup {s}
            IN  /\ clients' = [ClientsWithout(gone) EXCEPT ![s] = IF ok THEN session ELSE @]
                /\ subs' = SubsWithout(gone)
                /\ inflight' = InflightWithout(gone)
      BY <1>2 DEF ConnectAccepted
    <3>2. First(Duplicates(s, id)) \subseteq Slot
      BY FirstIsMember DEF Duplicates
    <3>3. QED  BY <3>1, <3>2
  <2>2. session.fd /\ session.connected
    BY <1>2 DEF ConnectAccepted, TypeOK, Client
  <2>3. \A d \in Slot \ gone : ClientsWithout(gone)[d].fd /\ ClientsWithout(gone)[d].connected
                              => Connected(d)'
    BY <2>1, <2>2, WithoutTypes
  <2>4. QED  BY <2>1, <2>3, KeptEntry, KeptMessage
<1>3. ASSUME NEW s \in Slot, Drop(s)
      PROVE  OwnershipInv'
  BY <1>3, KeptEntry, KeptMessage DEF Drop, Disconnect
<1>4. ASSUME NEW s \in Slot, NEW f \in Filter, NEW requested \in 0..2,
             Subscribe(s, f, requested)
      PROVE  OwnershipInv'
  <2> DEFINE granted == [client_idx |-> s, topic |-> f,
                         qos |-> IF requested > 1 THEN 1 ELSE requested]
             entry == IF SubsOf(s, f) # {} THEN First(SubsOf(s, f)) ELSE First(FreeSubs)
  <2>1. PICK gone \in SendOutcome(s) :
          /\ clients' = ClientsWithout(gone)
          /\ inflight' = InflightWithout(gone)
          /\ subs' = IF gone # {} THEN SubsWithout(gone)
                     ELSE [j \in SubSlot |-> IF j \in entry THEN granted ELSE subs[j]]
    BY <1>4 DEF Subscribe
  <2>2. InflightBelongsToSessions'
    BY <2>1, KeptMessage
  <2>3. CASE gone = {}
    <3>1. \A d \in Slot : clients'[d] = clients[d]
      BY <2>1, <2>3 DEF ClientsWithout
    <3>2. SubsBelongToSessions'
      BY <1>4, <2>1, <2>3, <3>1 DEF Subscribe, TypeOK, Sub
    <3>3. QED  BY <2>2, <3>2
  <2>4. CASE gone # {}
    BY <2>1, <2>2, <2>4, KeptEntry
  <2>5. QED  BY <2>3, <2>4
<1>5. ASSUME NEW s \in Slot, NEW f \in Filter, Unsubscribe(s, f)
      PROVE  OwnershipInv'
  BY <1>5 DEF Unsubscribe
<1>6. ASSUME NEW s \in Slot, NEW t \in Topic, NEW fit \in Fit, NEW qos \in QoS,
             Publish(s, t, fit, qos)
      PROVE  OwnershipInv'
  BY <1>6 DEF Publish
<1>7. ASSUME NEW t \in Topic, NEW fit \in Fit, NEW qos \in QoS,
             LocalPublish(t, fit, qos)
      PROVE  OwnershipInv'
  BY <1>7 DEF LocalPublish
<1>8. CASE Puback
  <2>1. PICK gone \in IF task.from \in Slot /\ task.qos = 1
                      THEN SendOutcome(task.from) ELSE {{}} : Disconnect(gone)
    BY <1>8 DEF Puback
  <2>2. QED  BY <2>1, KeptEntry, KeptMessage DEF Disconnect
<1>9. ASSUME NEW s \in Slot, NEW id \in PacketId, HandlePuback(s, id)
      PROVE  OwnershipInv'
  <2>1. PICK k \in First({k \in MsgSlot \ FreeMsgs(s) : inflight[s][k].packet_id = id}) :
          inflight' = [inflight EXCEPT ![s][k] = NoMsg]
    BY <1>9 DEF HandlePuback
  <2>2. \A d \in Slot, l \in MsgSlot : inflight'[d][l] # NoMsg => inflight[d][l] # NoMsg
    BY <2>1 DEF TypeOK
  <2>3. QED  BY <1>9, <2>2 DEF HandlePuback
<1>10. ASSUME NEW s \in Slot, NEW k \in MsgSlot, RetryOrAbandon(s, k)
       PROVE  OwnershipInv'
  <2>1. CASE UNCHANGED <<clients, subs, num_connected>>
             /\ inflight' = [inflight EXCEPT ![s][k] = NoMsg]
    <3>1. \A d \in Slot, l \in MsgSlot : inflight'[d][l] # NoMsg => inflight[d][l] # NoMsg
      BY <2>1 DEF TypeOK
    <3>2. QED  BY <2>1, <3>1
  <2>2. ASSUME NEW gone \in SendOutcome(s),
               clients' = ClientsWithout(gone), subs' = SubsWithout(gone),
               inflight' = [InflightWithout(gone) EXCEPT
                  ![s][k] = IF gone = {} THEN Resent(@) ELSE @]
        PROVE  OwnershipInv'
    <3>1. CASE gone = {}
      <4>1. \A d \in Slot : clients'[d] = clients[d]
        BY <2>2, <3>1 DEF ClientsWithout
      <4>2. \A d \in Slot, l \in MsgSlot :
              inflight'[d][l] # NoMsg => inflight[d][l] # NoMsg
        BY <1>10, <2>2, <3>1 DEF InflightWithout, RetryOrAbandon, TypeOK
      <4>3. SubsBelongToSessions'
        BY <2>2, KeptEntry
      <4>4. QED  BY <4>1, <4>2, <4>3
    <3>2. CASE gone # {}
      <4>1. \A d \in Slot, l \in MsgSlot : inflight'[d][l] = InflightWithout(gone)[d][l]
        BY <2>2, <3>2, WithoutTypes
      <4>2. QED  BY <2>2, <4>1, KeptEntry, KeptMessage
    <3>3. QED  BY <3>1, <3>2
  <2>3. QED  BY <1>10, <2>1, <2>2 DEF RetryOrAbandon
<1>11. CASE Fanout
  BY <1>11, OwnershipFanout
<1>12. QED
  BY <1>1, <1>2, <1>3, <1>4, <1>5, <1>6, <1>7, <1>8, <1>9, <1>10, <1>11
  DEF Next, PacketFrom

LEMMA TablesBelongToSessions ==
  Spec => [](SubsBelongToSessions /\ InflightBelongsToSessions)
<1>1. Init => OwnershipInv
  BY DEF Init, OwnershipInv, SubsBelongToSessions, InflightBelongsToSessions, NoMsgs
<1>2. TypeOK /\ OwnershipInv /\ [Next]_vars => OwnershipInv'
  <2>1. CASE UNCHANGED vars
    BY <2>1 DEF vars, OwnershipInv, SubsBelongToSessions, InflightBelongsToSessions, Connected
  <2>2. QED  BY <2>1, OwnershipStep
<1>3. OwnershipInv => SubsBelongToSessions /\ InflightBelongsToSessions
  BY DEF OwnershipInv
<1>4. QED  BY <1>1, <1>2, <1>3, TypeCorrect, PTL DEF Spec

\* An entry of the pool always belongs to a client that is connected now: it does not
\* outlive its session and reach the next client in the slot, whatever sends fail in
\* the middle of routing.
THEOREM EntriesHaveSessions == Spec => []SubsBelongToSessions
BY TablesBelongToSessions, PTL

\* Neither does a message in flight, which would be sent again to the next client.
THEOREM MessagesHaveSessions == Spec => []InflightBelongsToSessions
BY TablesBelongToSessions, PTL

-----------------------------------------------------------------------------
(* One session per client identifier. *)

\* handle_connect drops the first duplicate only; there is no second one.
LEMMA AllDuplicatesDropped ==
  ASSUME OneSessionPerClientId, NEW s \in Slot, NEW id
  PROVE  First(Duplicates(s, id)) = Duplicates(s, id)
<1>1. \A d, e \in Duplicates(s, id) : d = e
  BY DEF Duplicates, OneSessionPerClientId
<1>2. Duplicates(s, id) \subseteq Int
  BY BrokerAssumption DEF Duplicates, Slot
<1>3. QED  BY <1>1, <1>2 DEF First

\* client_disconnect ends sessions and renames none.
LEMMA SessionsWithout ==
  ASSUME TypeOK, NEW D, NEW s \in Slot, ClientsWithout(D)[s].connected
  PROVE  s \notin D /\ ClientsWithout(D)[s] = clients[s]
BY DEF ClientsWithout, FreeClient

LEMMA OneSessionStep ==
  ASSUME TypeOK, OneSessionPerClientId, Next
  PROVE  OneSessionPerClientId'
<1>1. ASSUME NEW D, \A s \in Slot :
               /\ clients'[s].connected = ClientsWithout(D)[s].connected
               /\ clients'[s].client_id = ClientsWithout(D)[s].client_id
      PROVE  OneSessionPerClientId'
  BY <1>1, SessionsWithout DEF OneSessionPerClientId
<1>2. ASSUME UNCHANGED clients
      PROVE  OneSessionPerClientId'
  BY <1>2 DEF OneSessionPerClientId
<1>3. CASE Accept
  <2>1. PICK s \in First(FreeSlots) :
          clients' = [clients EXCEPT ![s].fd = TRUE, ![s].connected = FALSE,
                                     ![s].client_id = NoId]
    BY <1>3 DEF Accept
  <2>2. s \in Slot
    BY FirstIsMember DEF FreeSlots
  <2>3. ~clients'[s].connected
    BY <2>1, <2>2 DEF TypeOK, Client
  <2>4. \A d \in Slot \ {s} : clients'[d] = clients[d]
    BY <2>1 DEF TypeOK
  <2>5. QED  BY <2>3, <2>4 DEF OneSessionPerClientId
<1>4. ASSUME NEW s \in Slot, NEW id \in ClientId, ConnectAccepted(s, id)
      PROVE  OneSessionPerClientId'
  <2> DEFINE session == [clients[s] EXCEPT !.connected = TRUE, !.authenticated = TRUE,
                                           !.client_id = id]
  <2>1. PICK ok \in BOOLEAN, gone \in SUBSET Slot :
          /\ Duplicates(s, id) \subseteq gone
          /\ ~ok => s \in gone
          /\ clients' = [ClientsWithout(gone) EXCEPT ![s] = IF ok THEN session ELSE @]
    <3>1. PICK ok \in BOOLEAN :
            LET old == First(Duplicates(s, id))
                gone == IF ok THEN old ELSE old \cup {s}
            IN  clients' = [ClientsWithout(gone) EXCEPT ![s] = IF ok THEN session ELSE @]
      BY <1>4 DEF ConnectAccepted
    <3>2. Duplicates(s, id) \subseteq Slot
      BY DEF Duplicates
    <3>3. QED  BY <3>1, <3>2, AllDuplicatesDropped
  <2>2. \A d \in Slot \ {s} : clients'[d] = ClientsWithout(gone)[d]
    BY <2>1, WithoutTypes
  <2>3. \A d \in Slot \ {s} : clients'[d].connected => clients'[d].client_id # id
    BY <2>1, <2>2, SessionsWithout DEF Duplicates
  <2>4. clients'[s] = IF ok THEN session ELSE ClientsWithout(gone)[s]
    BY <2>1, WithoutTypes
  <2>5. CASE ok
    <3>1. clients'[s].client_id = id
      BY <2>4, <2>5 DEF TypeOK, Client
    <3>2. QED  BY <2>2, <2>3, <3>1, SessionsWithout DEF OneSessionPerClientId
  <2>6. CASE ~ok
    <3>1. \A d \in Slot : clients'[d] = ClientsWithout(gone)[d]
      BY <2>2, <2>4, <2>6
    <3>2. QED  BY <3>1, <1>1
  <2>7. QED  BY <2>5, <2>6
<1>5. ASSUME NEW s \in Slot, Drop(s)
      PROVE  OneSessionPerClientId'
  BY <1>1, <1>5 DEF Drop, Disconnect
<1>6. ASSUME NEW s \in Slot, NEW f \in Filter, NEW requested \in 0..2,
             Subscribe(s, f, requested)
      PROVE  OneSessionPerClientId'
  BY <1>1, <1>6 DEF Subscribe
<1>7. CASE Puback
  BY <1>1, <1>7 DEF Puback, Disconnect
<1>8. ASSUME NEW s \in Slot, NEW k \in MsgSlot, RetryOrAbandon(s, k)
      PROVE  OneSessionPerClientId'
  BY <1>1, <1>2, <1>8 DEF RetryOrAbandon
<1>9. CASE Fanout
  <2>1. CASE FanoutSkip \/ FanoutDone
    BY <1>2, <2>1 DEF FanoutSkip, FanoutDone
  <2>2. CASE FanoutQoS0
    BY <1>1, <2>2 DEF FanoutQoS0, Disconnect
  <2>3. ASSUME NEW D, NEW c, NEW id,
               clients' = [ClientsWithout(D) EXCEPT ![c].next_packet_id = id]
        PROVE  OneSessionPerClientId'
    BY <1>1, <2>3, WithoutTypes, SessionKept
  <2>4. CASE FanoutDegrade
    BY <2>3, <2>4 DEF FanoutDegrade
  <2>5. CASE FanoutQoS1
    <3>1. PICK gone, id :
            clients' = [ClientsWithout(gone) EXCEPT
                          ![subs[task.i].client_idx].next_packet_id =
                            IF gone = {} THEN id ELSE @]
      BY <2>5 DEF FanoutQoS1
    <3>2. QED  BY <2>3, <3>1
  <2>6. QED  BY <1>9, <2>1, <2>2, <2>4, <2>5 DEF Fanout
<1>10. QED
  BY <1>2, <1>3, <1>4, <1>5, <1>6, <1>7, <1>8, <1>9
  DEF Next, PacketFrom, Unsubscribe, Publish, LocalPublish, HandlePuback

\* No two slots ever hold the same client identifier: the broken-off scan for a
\* duplicate is enough because the invariant it restores held before.
THEOREM SingleSession == Spec => []OneSessionPerClientId
<1>1. Init => OneSessionPerClientId
  BY DEF Init, OneSessionPerClientId, FreeClient
<1>2. TypeOK /\ OneSessionPerClientId /\ [Next]_vars => OneSessionPerClientId'
  <2>1. CASE UNCHANGED vars
    BY <2>1 DEF vars, OneSessionPerClientId
  <2>2. QED  BY <2>1, OneSessionStep
<1>3. QED  BY <1>1, <1>2, TypeCorrect, PTL DEF Spec

-----------------------------------------------------------------------------
(* One pool entry per filter, and distinct packet ids. *)

LEMMA OneEntryStep ==
  ASSUME TypeOK, OneEntryPerFilter, Next
  PROVE  OneEntryPerFilter'
<1>1. ASSUME NEW D, subs' = SubsWithout(D)
      PROVE  OneEntryPerFilter'
  BY <1>1 DEF SubsWithout, OneEntryPerFilter
<1>2. ASSUME UNCHANGED subs
      PROVE  OneEntryPerFilter'
  BY <1>2 DEF OneEntryPerFilter
<1>3. ASSUME NEW s \in Slot, NEW f \in Filter, NEW requested \in 0..2,
             Subscribe(s, f, requested)
      PROVE  OneEntryPerFilter'
  <2> DEFINE granted == [client_idx |-> s, topic |-> f,
                         qos |-> IF requested > 1 THEN 1 ELSE requested]
             entry == IF SubsOf(s, f) # {} THEN First(SubsOf(s, f)) ELSE First(FreeSubs)
  <2>1. PICK gone \in SendOutcome(s) :
          subs' = IF gone # {} THEN SubsWithout(gone)
                  ELSE [j \in SubSlot |-> IF j \in entry THEN granted ELSE subs[j]]
    BY <1>3 DEF Subscribe
  <2>2. CASE gone # {}
    BY <1>1, <2>1, <2>2
  <2>3. CASE gone = {}
    <3>1. \A i, j \in entry : i = j
      <4>1. SubsOf(s, f) \in SUBSET Int /\ FreeSubs \in SUBSET Int
        BY BrokerAssumption DEF SubsOf, FreeSubs, SubSlot
      <4>2. QED  BY <4>1, FirstIsUnique
    <3>2. \A j \in SubsOf(s, f) : j \in entry
      <4>1. \A i, j \in SubsOf(s, f) : i = j
        BY DEF SubsOf, OneEntryPerFilter
      <4>2. SubsOf(s, f) \subseteq Int
        BY BrokerAssumption DEF SubsOf, SubSlot
      <4>3. QED  BY <4>1, <4>2 DEF First
    <3>3. \A j \in SubSlot \ entry : /\ subs'[j] = subs[j]
                                     /\ subs[j] = NoSub \/ subs[j].client_idx # s
                                                        \/ subs[j].topic # f
      BY <2>1, <2>3, <3>2 DEF SubsOf
    <3>4. \A j \in SubSlot : j \in entry => subs'[j] = granted
      BY <2>1, <2>3
    <3>5. granted.client_idx = s /\ granted.topic = f
      OBVIOUS
    <3> HIDE DEF granted, entry
    <3>6. QED  BY <3>1, <3>3, <3>4, <3>5 DEF OneEntryPerFilter
  <2>4. QED  BY <2>2, <2>3
<1>4. ASSUME NEW s \in Slot, NEW f \in Filter, Unsubscribe(s, f)
      PROVE  OneEntryPerFilter'
  BY <1>4 DEF Unsubscribe, OneEntryPerFilter
<1>5. CASE Fanout
  BY <1>1, <1>2, <1>5
  DEF Fanout, FanoutSkip, FanoutQoS0, FanoutDegrade, FanoutQoS1, FanoutDone, Disconnect
<1>6. ASSUME NEW s \in Slot, NEW id \in ClientId, ConnectAccepted(s, id)
      PROVE  OneEntryPerFilter'
  BY <1>1, <1>6 DEF ConnectAccepted
<1>7. ASSUME NEW s \in Slot, Drop(s)
      PROVE  OneEntryPerFilter'
  BY <1>1, <1>7 DEF Drop, Disconnect
<1>8. CASE Puback
  BY <1>1, <1>8 DEF Puback, Disconnect
<1>9. ASSUME NEW s \in Slot, NEW k \in MsgSlot, RetryOrAbandon(s, k)
      PROVE  OneEntryPerFilter'
  BY <1>1, <1>2, <1>9 DEF RetryOrAbandon
<1>10. QED
  BY <1>2, <1>3, <1>4, <1>5, <1>6, <1>7, <1>8, <1>9
  DEF Next, PacketFrom, Accept, Publish, LocalPublish, HandlePuback

\* A client never has two pool entries for one filter, so that one UNSUBSCRIBE
\* ends a subscription and a PUBLISH is routed to it once.
THEOREM SingleEntry == Spec => []OneEntryPerFilter
<1>1. Init => OneEntryPerFilter
  BY DEF Init, OneEntryPerFilter
<1>2. TypeOK /\ OneEntryPerFilter /\ [Next]_vars => OneEntryPerFilter'
  <2>1. CASE UNCHANGED vars
    BY <2>1 DEF vars, OneEntryPerFilter
  <2>2. QED  BY <2>1, OneEntryStep
<1>3. QED  BY <1>1, <1>2, TypeCorrect, PTL DEF Spec

\* The ids in flight of one slot's table, as a predicate on the table.
IdsDistinct(table) ==
  \A k, l \in MsgSlot :
    table[k] # NoMsg /\ table[l] # NoMsg /\ table[k].packet_id = table[l].packet_id
      => k = l

LEMMA DistinctByTable ==
  DistinctPacketIds <=> \A s \in Slot : IdsDistinct(inflight[s])
BY DEF DistinctPacketIds, IdsDistinct, FreeMsgs

LEMMA DistinctStep ==
  ASSUME TypeOK, DistinctPacketIds, Next
  PROVE  DistinctPacketIds'
<1>1. \A s \in Slot : IdsDistinct(inflight[s])
  BY DistinctByTable
<1>2. SUFFICES \A s \in Slot : IdsDistinct(inflight'[s])
  BY DEF DistinctPacketIds, IdsDistinct, FreeMsgs
<1>3. IdsDistinct(NoMsgs)
  BY DEF NoMsgs, IdsDistinct
<1>4. \A D : \A s \in Slot : IdsDistinct(InflightWithout(D)[s])
  BY <1>1, <1>3 DEF InflightWithout
<1>5. \A t \in [MsgSlot -> Msg \cup {NoMsg}] : \A k \in MsgSlot :
        IdsDistinct(t) => IdsDistinct([t EXCEPT ![k] = NoMsg])
  BY DEF IdsDistinct
<1>6. CASE Fanout
  <2>1. CASE FanoutQoS1
    <3> DEFINE ci == subs[task.i].client_idx
    <3>1. PICK k \in First(FreeMsgs(ci)), id \in NextPacketId(ci),
               gone \in IF task.fit = "both" THEN SendOutcome(ci) ELSE {{}} :
            inflight' = [InflightWithout(gone) EXCEPT
                           ![ci][k] = IF gone = {} /\ task.fit = "both"
                                      THEN [packet_id |-> id, retries |-> 0] ELSE @]
      BY <2>1 DEF FanoutQoS1
    <3>2. ci \in Slot /\ k \in MsgSlot
      BY <2>1, FirstIsMember
      DEF FanoutQoS1, AtEntry, Deliverable, TypeOK, Sub, FreeMsgs
    <3>3. CASE gone = {} /\ task.fit = "both"
      <4>1. \A l \in MsgSlot : inflight[ci][l] # NoMsg => inflight[ci][l].packet_id # id
        BY <3>2 DEF NextPacketId, UsedIds, FreeMsgs
      <4>2. InflightWithout(gone)[ci] = inflight[ci]
        BY <3>2, <3>3 DEF InflightWithout
      <4>3. /\ \A s \in Slot \ {ci} : inflight'[s] = InflightWithout(gone)[s]
            /\ \A l \in MsgSlot : inflight'[ci][l] =
                 IF l = k THEN [packet_id |-> id, retries |-> 0] ELSE inflight[ci][l]
        BY <3>1, <3>2, <3>3, <4>2, WithoutTypes
      <4>4. IdsDistinct(inflight'[ci])
        BY <1>1, <3>2, <4>1, <4>3 DEF IdsDistinct
      <4>5. QED  BY <1>4, <4>3, <4>4
    <3>4. CASE ~(gone = {} /\ task.fit = "both")
      <4>1. inflight' = InflightWithout(gone)
        BY <3>1, <3>2, <3>4, WithoutTypes
      <4>2. QED  BY <1>4, <4>1
    <3>5. QED  BY <3>3, <3>4
  <2>2. QED
    BY <1>1, <1>4, <1>6, <2>1
    DEF Fanout, FanoutSkip, FanoutQoS0, FanoutDegrade, FanoutDone, Disconnect
<1>7. ASSUME NEW s \in Slot, NEW id \in PacketId, HandlePuback(s, id)
      PROVE  \A d \in Slot : IdsDistinct(inflight'[d])
  <2>1. PICK k \in First({k \in MsgSlot \ FreeMsgs(s) : inflight[s][k].packet_id = id}) :
          inflight' = [inflight EXCEPT ![s][k] = NoMsg]
    BY <1>7 DEF HandlePuback
  <2>2. k \in MsgSlot
    BY FirstIsMember
  <2>3. QED  BY <1>1, <1>5, <2>1, <2>2 DEF TypeOK
<1>8. ASSUME NEW s \in Slot, NEW k \in MsgSlot, RetryOrAbandon(s, k)
      PROVE  \A d \in Slot : IdsDistinct(inflight'[d])
  <2>1. CASE inflight' = [inflight EXCEPT ![s][k] = NoMsg]
    BY <1>1, <1>5, <1>8, <2>1 DEF TypeOK
  <2>2. ASSUME NEW gone \in SendOutcome(s),
               inflight' = [InflightWithout(gone) EXCEPT
                  ![s][k] = IF gone = {} THEN Resent(@) ELSE @]
        PROVE  \A d \in Slot : IdsDistinct(inflight'[d])
    <3>1. CASE gone = {}
      <4>1. inflight[s][k] \in Msg
        BY <1>8 DEF RetryOrAbandon, TypeOK
      <4>2. Resent(inflight[s][k]).packet_id = inflight[s][k].packet_id
        BY <4>1 DEF Resent, Msg
      <4>3. InflightWithout(gone)[s] = inflight[s]
        BY <1>8, <3>1 DEF InflightWithout
      <4>4. /\ \A d \in Slot \ {s} : inflight'[d] = InflightWithout(gone)[d]
            /\ \A l \in MsgSlot : inflight'[s][l] =
                 IF l = k THEN Resent(inflight[s][k]) ELSE inflight[s][l]
        BY <1>8, <2>2, <3>1, <4>3, WithoutTypes
      <4>5. IdsDistinct(inflight'[s])
        BY <1>1, <1>8, <4>1, <4>2, <4>4, NullAssumption DEF IdsDistinct, RetryOrAbandon
      <4>6. QED  BY <1>4, <4>4, <4>5
    <3>2. CASE gone # {}
      <4>1. inflight' = InflightWithout(gone)
        BY <1>8, <2>2, <3>2, WithoutTypes
      <4>2. QED  BY <1>4, <4>1
    <3>3. QED  BY <3>1, <3>2
  <2>3. QED  BY <1>8, <2>1, <2>2 DEF RetryOrAbandon
<1>9. ASSUME NEW s \in Slot, NEW id \in ClientId, ConnectAccepted(s, id)
      PROVE  \A d \in Slot : IdsDistinct(inflight'[d])
  BY <1>4, <1>9 DEF ConnectAccepted
<1>10. ASSUME NEW s \in Slot, NEW f \in Filter, NEW requested \in 0..2,
              Subscribe(s, f, requested)
       PROVE  \A d \in Slot : IdsDistinct(inflight'[d])
  BY <1>4, <1>10 DEF Subscribe
<1>11. QED
  BY <1>1, <1>4, <1>6, <1>7, <1>8, <1>9, <1>10
  DEF Next, PacketFrom, Accept, Drop, Disconnect, Unsubscribe, Publish, LocalPublish, Puback

\* The messages in flight to one client carry distinct packet ids, for every
\* width of the id and however often the counter has wrapped.
THEOREM PacketIdsDistinct == Spec => []DistinctPacketIds
<1>1. Init => DistinctPacketIds
  BY DEF Init, DistinctPacketIds, FreeMsgs, NoMsgs
<1>2. TypeOK /\ DistinctPacketIds /\ [Next]_vars => DistinctPacketIds'
  <2>1. CASE UNCHANGED vars
    BY <2>1 DEF vars, DistinctPacketIds, FreeMsgs
  <2>2. QED  BY <2>1, DistinctStep
<1>3. QED  BY <1>1, <1>2, TypeCorrect, PTL DEF Spec

-----------------------------------------------------------------------------
(* What the steps do to the client slots: the count of the sessions and    *)
(* the state a session begins in both come from it.                        *)

\* A step of the task that neither opens a socket nor accepts a CONNECT ends
\* the sessions of some set of slots, and at most advances the packet id of a
\* session that stays.
SlotsAfter(gone) ==
  /\ num_connected' = num_connected - CountOf(gone)
  /\ \A s \in Slot :
       /\ clients'[s].fd = ClientsWithout(gone)[s].fd
       /\ clients'[s].connected = ClientsWithout(gone)[s].connected
       /\ \/ clients'[s] = ClientsWithout(gone)[s]
          \/ clients'[s].connected

LEMMA NobodyGone ==
  ASSUME TypeOK, UNCHANGED <<clients, num_connected>>
  PROVE  SlotsAfter({})
<1>1. CountOf({}) = 0
  <2>1. {s \in {} : clients[s].connected} = {}
    OBVIOUS
  <2>2. QED  BY <2>1, FS_EmptySet DEF CountOf
<1>2. ClientsWithout({}) = clients
  BY DEF ClientsWithout, TypeOK
<1>3. QED  BY <1>1, <1>2 DEF SlotsAfter, TypeOK

LEMMA SlotsAfterDisconnect ==
  ASSUME NEW D \in SUBSET Slot,
         clients' = ClientsWithout(D), num_connected' = num_connected - CountOf(D)
  PROVE  SlotsAfter(D)
BY DEF SlotsAfter

\* The routing loop takes a packet id for a session it sends to.
LEMMA SlotsAfterEnqueue ==
  ASSUME TypeOK, NEW ci \in Slot, Connected(ci), NEW gone \in {{}, {ci}}, NEW id,
         clients' = [ClientsWithout(gone) EXCEPT
                       ![ci].next_packet_id = IF gone = {} THEN id ELSE @],
         num_connected' = num_connected - CountOf(gone)
  PROVE  SlotsAfter(gone)
<1> DEFINE table == ClientsWithout(gone)
           value == IF gone = {} THEN id ELSE table[ci].next_packet_id
<1>1. table \in [Slot -> Client]
  BY WithoutTypes
<1>2. clients' = [table EXCEPT ![ci].next_packet_id = value]
  OBVIOUS
<1>3. \A s \in Slot : /\ clients'[s].fd = table[s].fd
                      /\ clients'[s].connected = table[s].connected
  BY <1>1, <1>2, SessionKept
<1>4. \A s \in Slot \ {ci} : clients'[s] = table[s]
  BY <1>1, <1>2
<1>5. clients'[ci] = table[ci] \/ clients'[ci].connected
  <2>1. CASE gone = {}
    <3>1. table[ci] = clients[ci]
      BY <2>1 DEF ClientsWithout
    <3>2. QED  BY <1>3, <3>1 DEF Connected
  <2>2. CASE gone # {}
    <3>1. table[ci] = FreeClient
      BY <2>2 DEF ClientsWithout
    <3>2. clients'[ci] = [table[ci] EXCEPT !.next_packet_id = table[ci].next_packet_id]
      BY <1>1, <1>2, <2>2
    <3>3. \A x \in Client : [x EXCEPT !.next_packet_id = x.next_packet_id] = x
      BY DEF Client
    <3>4. QED  BY <1>1, <3>2, <3>3
  <2>3. QED  BY <2>1, <2>2
<1>6. QED  BY <1>3, <1>4, <1>5 DEF SlotsAfter

LEMMA SlotsAfterFanout ==
  ASSUME TypeOK, Fanout
  PROVE  \E gone \in SUBSET Slot : SlotsAfter(gone)
<1> DEFINE ci == subs[task.i].client_idx
<1>1. CASE FanoutSkip \/ FanoutDone
  BY <1>1, NobodyGone DEF FanoutSkip, FanoutDone
<1>2. ASSUME AtEntry, Deliverable(task.i, task.topic)
      PROVE  /\ ci \in Slot /\ Connected(ci)
             /\ SendOutcome(ci) = {{}, {ci}}
  BY <1>2 DEF AtEntry, Deliverable, TypeOK, Sub, SendOutcome, Connected
<1>3. CASE FanoutQoS0
  <2>1. PICK gone \in SendOutcome(ci) : Disconnect(gone)
    BY <1>3 DEF FanoutQoS0
  <2>2. gone \in SUBSET Slot
    BY <1>2, <1>3 DEF FanoutQoS0
  <2>3. QED  BY <2>1, <2>2, SlotsAfterDisconnect DEF Disconnect
<1>4. CASE FanoutDegrade
  <2>1. PICK gone \in SendOutcome(ci),
             id \in {clients[ci].next_packet_id} \cup
                   (IF FreeMsgs(ci) = {} THEN {} ELSE NextPacketId(ci)) :
          /\ clients' = [ClientsWithout(gone) EXCEPT
                           ![ci].next_packet_id = IF gone = {} THEN id ELSE @]
          /\ num_connected' = num_connected - CountOf(gone)
    BY <1>4 DEF FanoutDegrade
  <2>2. ci \in Slot /\ Connected(ci) /\ gone \in {{}, {ci}}
    BY <1>2, <1>4 DEF FanoutDegrade
  <2>3. SlotsAfter(gone)
    <3> HIDE DEF ci
    <3>1. QED  BY <2>1, <2>2, SlotsAfterEnqueue
  <2>4. QED  BY <2>2, <2>3
<1>5. CASE FanoutQoS1
  <2>1. PICK k \in First(FreeMsgs(ci)), id \in NextPacketId(ci),
             gone \in IF task.fit = "both" THEN SendOutcome(ci) ELSE {{}} :
          /\ clients' = [ClientsWithout(gone) EXCEPT
                           ![ci].next_packet_id = IF gone = {} THEN id ELSE @]
          /\ num_connected' = num_connected - CountOf(gone)
    BY <1>5 DEF FanoutQoS1
  <2>2. ci \in Slot /\ Connected(ci) /\ gone \in {{}, {ci}}
    BY <1>2, <1>5 DEF FanoutQoS1
  <2>3. SlotsAfter(gone)
    <3> HIDE DEF ci
    <3>1. QED  BY <2>1, <2>2, SlotsAfterEnqueue
  <2>4. QED  BY <2>2, <2>3
<1>6. QED  BY <1>1, <1>3, <1>4, <1>5 DEF Fanout

LEMMA SlotsAfterStep ==
  ASSUME TypeOK, Next
  PROVE  \/ Accept
         \/ \E s \in Slot, id \in ClientId : ConnectAccepted(s, id)
         \/ \E gone \in SUBSET Slot : SlotsAfter(gone)
<1>1. CASE Fanout
  BY <1>1, SlotsAfterFanout
<1>2. ASSUME NEW s \in Slot, Drop(s)
      PROVE  \E gone \in SUBSET Slot : SlotsAfter(gone)
  BY <1>2, SlotsAfterDisconnect DEF Drop, Disconnect
<1>3. ASSUME NEW s \in Slot, NEW f \in Filter, NEW requested \in 0..2,
             Subscribe(s, f, requested)
      PROVE  \E gone \in SUBSET Slot : SlotsAfter(gone)
  <2>1. PICK gone \in SendOutcome(s) :
          /\ clients' = ClientsWithout(gone)
          /\ num_connected' = num_connected - CountOf(gone)
    BY <1>3 DEF Subscribe
  <2>2. QED  BY <2>1, SlotsAfterDisconnect, SendOutcomeInSlot
<1>4. CASE Puback
  <2>1. PICK gone \in IF task.from \in Slot /\ task.qos = 1
                      THEN SendOutcome(task.from) ELSE {{}} : Disconnect(gone)
    BY <1>4 DEF Puback
  <2>2. gone \in SUBSET Slot
    BY SendOutcomeInSlot
  <2>3. QED  BY <2>1, <2>2, SlotsAfterDisconnect DEF Disconnect
<1>5. ASSUME NEW s \in Slot, NEW k \in MsgSlot, RetryOrAbandon(s, k)
      PROVE  \E gone \in SUBSET Slot : SlotsAfter(gone)
  <2>1. CASE UNCHANGED <<clients, subs, num_connected>>
    BY <2>1, NobodyGone
  <2>2. ASSUME NEW gone \in SendOutcome(s), clients' = ClientsWithout(gone),
               num_connected' = num_connected - CountOf(gone)
        PROVE  \E D \in SUBSET Slot : SlotsAfter(D)
    BY <2>2, SlotsAfterDisconnect, SendOutcomeInSlot
  <2>3. QED  BY <1>5, <2>1, <2>2 DEF RetryOrAbandon
<1>6. QED
  BY <1>1, <1>2, <1>3, <1>4, <1>5, NobodyGone
  DEF Next, PacketFrom, Unsubscribe, Publish, LocalPublish, HandlePuback

-----------------------------------------------------------------------------
(* The client count. *)

Sessions == {s \in Slot : clients[s].connected}

LEMMA SessionsFinite ==
  ASSUME NEW S \in SUBSET Slot
  PROVE  IsFiniteSet(S) /\ Cardinality(S) \in Nat
<1>1. IsFiniteSet(Slot)
  BY FS_Interval, BrokerAssumption DEF Slot
<1>2. QED  BY <1>1, FS_Subset, FS_CardinalityType

\* Ending the sessions of D takes exactly CountOf(D) off their number.
LEMMA SessionsLeft ==
  ASSUME NEW D \in SUBSET Slot
  PROVE  Cardinality(Sessions \ D) = Cardinality(Sessions) - CountOf(D)
<1>1. Sessions \in SUBSET Slot
  BY DEF Sessions
<1>2. Sessions \cap D = {s \in D : clients[s].connected}
  BY DEF Sessions
<1>3. QED  BY <1>1, <1>2, SessionsFinite, FS_Difference DEF CountOf

LEMMA CountStep ==
  ASSUME TypeOK, CountNeverLow, Next
  PROVE  CountNeverLow'
<1>1. SUFFICES num_connected' >= Cardinality(Sessions')
  BY DEF CountNeverLow, Sessions
<1>2. Sessions \in SUBSET Slot /\ Sessions' \in SUBSET Slot
  BY DEF Sessions
<1>3. num_connected >= Cardinality(Sessions) /\ num_connected \in Int
  BY DEF CountNeverLow, Sessions, TypeOK
<1>4. CASE Accept
  <2>1. PICK s \in First(FreeSlots) :
          clients' = [clients EXCEPT ![s].fd = TRUE, ![s].connected = FALSE,
                                     ![s].client_id = NoId]
    BY <1>4, Zenon DEF Accept
  <2>2. s \in Slot
    BY FirstIsMember DEF FreeSlots
  <2>3. \A d \in Slot : clients'[d].connected => clients[d].connected
    BY <2>1, <2>2 DEF TypeOK, Client
  <2>4. Sessions' \subseteq Sessions
    BY <2>3 DEF Sessions
  <2>5. Cardinality(Sessions') <= Cardinality(Sessions)
    BY <1>2, <2>4, SessionsFinite, FS_Subset
  <2>6. QED  BY <1>2, <1>3, <1>4, <2>5, SessionsFinite DEF Accept
<1>5. ASSUME NEW s \in Slot, NEW id \in ClientId, ConnectAccepted(s, id)
      PROVE  num_connected' >= Cardinality(Sessions')
  <2> DEFINE session == [clients[s] EXCEPT !.connected = TRUE, !.authenticated = TRUE,
                                           !.client_id = id]
             old == First(Duplicates(s, id))
  <2>1. old \in SUBSET Slot
    BY FirstIsMember DEF Duplicates
  <2>2. PICK ok \in BOOLEAN :
          LET gone == IF ok THEN old ELSE old \cup {s}
          IN  /\ clients' = [ClientsWithout(gone) EXCEPT ![s] = IF ok THEN session ELSE @]
              /\ num_connected' = (num_connected - CountOf(old)) + IF ok THEN 1 ELSE 0
    BY <1>5 DEF ConnectAccepted
  <2>3. Cardinality(Sessions \ old) = Cardinality(Sessions) - CountOf(old)
    BY <2>1, SessionsLeft
  <2>4. CountOf(old) \in Nat /\ Cardinality(Sessions) \in Nat
    BY <1>2, <2>1, CountIsNat, SessionsFinite
  <2>5. CASE ok
    <3>1. \A d \in Slot \ {s} : clients'[d] = ClientsWithout(old)[d]
      BY <2>2, <2>5, WithoutTypes
    <3>2. Sessions' \subseteq (Sessions \ old) \cup {s}
      BY <3>1, SessionsWithout DEF Sessions
    <3>3. IsFiniteSet(Sessions \ old) /\ Cardinality(Sessions \ old) \in Nat
      BY <1>2, SessionsFinite
    <3>4. \A S : IsFiniteSet(S) /\ Cardinality(S) \in Nat =>
            IsFiniteSet(S \cup {s}) /\ Cardinality(S \cup {s}) <= Cardinality(S) + 1
      <4>1. ASSUME NEW S, IsFiniteSet(S), Cardinality(S) \in Nat
            PROVE  IsFiniteSet(S \cup {s}) /\ Cardinality(S \cup {s}) <= Cardinality(S) + 1
        <5>1. /\ IsFiniteSet(S \cup {s})
              /\ Cardinality(S \cup {s}) =
                   IF s \in S THEN Cardinality(S) ELSE Cardinality(S) + 1
          BY <4>1, FS_AddElement
        <5>2. QED  BY <4>1, <5>1
      <4>2. QED  BY <4>1
    <3>5. Cardinality(Sessions') <= Cardinality((Sessions \ old) \cup {s})
      BY <3>2, <3>3, <3>4, FS_Subset
    <3>6. Cardinality((Sessions \ old) \cup {s}) <= Cardinality(Sessions \ old) + 1
      BY <3>3, <3>4
    <3>7. num_connected' = (num_connected - CountOf(old)) + 1
      BY <2>2, <2>5
    <3>8. (Sessions \ old) \cup {s} \in SUBSET Slot
      BY <1>2
    <3> HIDE DEF old
    <3>9. QED
      BY <1>2, <1>3, <2>3, <2>4, <3>5, <3>6, <3>7, <3>8, SessionsFinite
  <2>6. CASE ~ok
    <3>1. clients' = ClientsWithout(old \cup {s})
      BY <2>2, <2>6, WithoutTypes
    <3>2. Sessions' \subseteq Sessions \ old
      BY <3>1, SessionsWithout DEF Sessions
    <3>3. IsFiniteSet(Sessions \ old)
      BY <1>2, SessionsFinite
    <3>4. Cardinality(Sessions') <= Cardinality(Sessions \ old)
      BY <3>2, <3>3, FS_Subset
    <3>5. num_connected' = num_connected - CountOf(old)
      BY <1>3, <2>2, <2>4, <2>6
    <3> HIDE DEF old
    <3>6. QED  BY <1>2, <1>3, <2>3, <2>4, <3>4, <3>5, SessionsFinite
  <2>7. QED  BY <2>5, <2>6
<1>6. ASSUME NEW gone \in SUBSET Slot, SlotsAfter(gone)
      PROVE  num_connected' >= Cardinality(Sessions')
  <2>1. Sessions' = Sessions \ gone
    BY <1>6, FreeClientIsClient DEF Sessions, SlotsAfter, ClientsWithout, FreeClient
  <2>2. QED
    BY <1>2, <1>3, <1>6, <2>1, SessionsLeft, CountIsNat, SessionsFinite DEF SlotsAfter
<1>7. QED  BY <1>4, <1>5, <1>6, SlotsAfterStep

\* The count the portal shows is never below the number of sessions: whatever
\* ends a session takes off no more than that session, and repeated CONNECTs
\* can only raise it.
THEOREM CountCoversSessions == Spec => []CountNeverLow
<1>1. Init => CountNeverLow
  <2>1. Init => {s \in Slot : clients[s].connected} = {}
    BY DEF Init, FreeClient
  <2>2. QED  BY <2>1, FS_EmptySet DEF Init, CountNeverLow
<1>2. TypeOK /\ CountNeverLow /\ [Next]_vars => CountNeverLow'
  <2>1. CASE UNCHANGED vars
    BY <2>1 DEF vars, CountNeverLow
  <2>2. QED  BY <2>1, CountStep
<1>3. QED  BY <1>1, <1>2, TypeCorrect, PTL DEF Spec

-----------------------------------------------------------------------------
(* What a session begins with. *)

\* A closed slot is as the program started with it, and a slot without a
\* session has used no packet id.
CleanInv ==
  \A s \in Slot : /\ ~clients[s].fd => clients[s] = FreeClient
                  /\ ~clients[s].connected => clients[s].next_packet_id = 0

\* What a CONNECT that is accepted leaves of the slots: the sender's slot with
\* a session and the packet id it had, or free; the others as they were, or free.
LEMMA ConnectOutcome ==
  ASSUME TypeOK, NEW s \in Slot, NEW id \in ClientId, ConnectAccepted(s, id)
  PROVE  \E gone \in SUBSET Slot :
           /\ subs' = SubsWithout(gone)
           /\ inflight' = InflightWithout(gone)
           /\ \A d \in Slot \ {s} : clients'[d] = ClientsWithout(gone)[d]
           /\ \/ clients'[s] = FreeClient
              \/ /\ clients'[s].fd /\ clients'[s].connected
                 /\ clients'[s].next_packet_id = clients[s].next_packet_id
<1> DEFINE session == [clients[s] EXCEPT !.connected = TRUE, !.authenticated = TRUE,
                                         !.client_id = id]
<1>1. PICK ok \in BOOLEAN, gone \in SUBSET Slot :
        /\ ~ok => s \in gone
        /\ clients' = [ClientsWithout(gone) EXCEPT ![s] = IF ok THEN session ELSE @]
        /\ subs' = SubsWithout(gone)
        /\ inflight' = InflightWithout(gone)
  <2>1. PICK ok \in BOOLEAN :
          LET old == First(Duplicates(s, id))
              gone == IF ok THEN old ELSE old \cup {s}
          IN  /\ clients' = [ClientsWithout(gone) EXCEPT ![s] = IF ok THEN session ELSE @]
              /\ subs' = SubsWithout(gone)
              /\ inflight' = InflightWithout(gone)
    BY DEF ConnectAccepted
  <2>2. First(Duplicates(s, id)) \subseteq Slot
    BY FirstIsMember DEF Duplicates
  <2>3. QED  BY <2>1, <2>2
<1>2. session.fd /\ session.connected /\ session.next_packet_id = clients[s].next_packet_id
  BY DEF ConnectAccepted, TypeOK, Client
<1>3. clients'[s] = IF ok THEN session ELSE ClientsWithout(gone)[s]
  BY <1>1, WithoutTypes
<1>4. ~ok => clients'[s] = FreeClient
  BY <1>1, <1>3 DEF ClientsWithout
<1>5. \A d \in Slot \ {s} : clients'[d] = ClientsWithout(gone)[d]
  BY <1>1, WithoutTypes
<1>6. QED
  <2> HIDE DEF session
  <2>1. QED  BY <1>1, <1>2, <1>3, <1>4, <1>5

LEMMA CleanStep ==
  ASSUME TypeOK, CleanInv, Next
  PROVE  CleanInv'
<1>1. FreeClient.fd = FALSE /\ FreeClient.connected = FALSE /\ FreeClient.next_packet_id = 0
  BY DEF FreeClient
<1>2. CASE Accept
  <2>1. PICK s \in First(FreeSlots) :
          clients' = [clients EXCEPT ![s].fd = TRUE, ![s].connected = FALSE,
                                     ![s].client_id = NoId]
    BY <1>2, Zenon DEF Accept
  <2>2. s \in Slot /\ ~clients[s].fd
    BY FirstIsMember DEF FreeSlots
  <2>3. clients[s] = FreeClient
    BY <2>2 DEF CleanInv
  <2>4. clients'[s].fd /\ clients'[s].next_packet_id = 0
    BY <2>1, <2>2, <2>3 DEF TypeOK, FreeClient
  <2>5. \A d \in Slot \ {s} : clients'[d] = clients[d]
    BY <2>1 DEF TypeOK
  <2>6. QED  BY <2>4, <2>5 DEF CleanInv
<1>3. ASSUME NEW s \in Slot, NEW id \in ClientId, ConnectAccepted(s, id)
      PROVE  CleanInv'
  <2>1. PICK gone \in SUBSET Slot :
           /\ \A d \in Slot \ {s} : clients'[d] = ClientsWithout(gone)[d]
           /\ \/ clients'[s] = FreeClient
              \/ /\ clients'[s].fd /\ clients'[s].connected
                 /\ clients'[s].next_packet_id = clients[s].next_packet_id
    BY <1>3, ConnectOutcome
  <2>2. QED  BY <1>1, <2>1 DEF CleanInv, ClientsWithout
<1>4. ASSUME NEW gone \in SUBSET Slot, SlotsAfter(gone)
      PROVE  CleanInv'
  <2>1. TypeOK'
    BY HandlerTypes
  <2>2. ASSUME NEW s \in Slot
        PROVE  /\ ~clients'[s].fd => clients'[s] = FreeClient
               /\ ~clients'[s].connected => clients'[s].next_packet_id = 0
    <3>1. ClientsWithout(gone)[s] = FreeClient \/ ClientsWithout(gone)[s] = clients[s]
      BY DEF ClientsWithout
    <3>2. CASE clients'[s] = ClientsWithout(gone)[s]
      BY <1>1, <3>1, <3>2 DEF CleanInv
    <3>3. CASE clients'[s].connected
      <4>1. /\ clients'[s].fd = ClientsWithout(gone)[s].fd
            /\ clients'[s].connected = ClientsWithout(gone)[s].connected
        BY <1>4 DEF SlotsAfter
      <4>2. clients[s] \in Client
        BY DEF TypeOK
      <4>3. ClientsWithout(gone)[s] = clients[s] /\ clients[s].connected
        BY <1>1, <3>1, <3>3, <4>1
      <4>4. clients[s].fd
        BY <1>1, <4>3 DEF CleanInv
      <4>5. QED  BY <3>3, <4>1, <4>3, <4>4
    <3>4. QED  BY <1>4, <3>2, <3>3 DEF SlotsAfter
  <2>3. QED  BY <2>2 DEF CleanInv
<1>5. QED  BY <1>2, <1>3, <1>4, SlotsAfterStep

\* A step that begins a session begins a clean one.
LEMMA SessionBeginsClean ==
  ASSUME TypeOK, OwnershipInv, CleanInv, Next, NEW s \in Slot,
         ~clients[s].connected, clients'[s].connected
  PROVE  /\ \A j \in SubSlot : subs'[j] = NoSub \/ subs'[j].client_idx # s
         /\ inflight'[s] = NoMsgs
         /\ clients'[s].next_packet_id = 0
<1>1. TypeOK'
  BY HandlerTypes
<1>2. ~Accept
  <2>1. SUFFICES ASSUME Accept PROVE FALSE
    OBVIOUS
  <2>2. PICK d \in First(FreeSlots) :
          clients' = [clients EXCEPT ![d].fd = TRUE, ![d].connected = FALSE,
                                     ![d].client_id = NoId]
    BY <2>1, Zenon DEF Accept
  <2>3. d \in Slot
    BY FirstIsMember DEF FreeSlots
  <2>4. QED  BY <2>2, <2>3 DEF TypeOK, Client
<1>3. ASSUME NEW gone \in SUBSET Slot, SlotsAfter(gone)
      PROVE  FALSE
  BY <1>3 DEF SlotsAfter, ClientsWithout, FreeClient
<1>4. PICK c \in Slot, id \in ClientId : ConnectAccepted(c, id)
  BY <1>2, <1>3, SlotsAfterStep
<1>5. PICK gone \in SUBSET Slot :
           /\ subs' = SubsWithout(gone)
           /\ inflight' = InflightWithout(gone)
           /\ \A d \in Slot \ {c} : clients'[d] = ClientsWithout(gone)[d]
           /\ \/ clients'[c] = FreeClient
              \/ /\ clients'[c].fd /\ clients'[c].connected
                 /\ clients'[c].next_packet_id = clients[c].next_packet_id
  BY <1>4, ConnectOutcome
<1>6. s = c
  BY <1>5, SessionsWithout
<1>7. clients'[s].next_packet_id = 0
  BY <1>5, <1>6 DEF CleanInv, FreeClient
<1>8. \A j \in SubSlot : subs'[j] = NoSub \/ subs'[j].client_idx # s
  BY <1>5 DEF OwnershipInv, SubsBelongToSessions, Connected, SubsWithout
<1>9. inflight[s] = NoMsgs
  BY DEF OwnershipInv, InflightBelongsToSessions, Connected, TypeOK, NoMsgs
<1>10. inflight'[s] = NoMsgs
  BY <1>5, <1>9 DEF InflightWithout
<1>11. QED  BY <1>7, <1>8, <1>10

\* handle_connect clears nothing and need not: the slot of a session that begins
\* holds no subscription, no message and no packet id of an earlier one.
THEOREM SessionsBeginClean == Spec => NewSessionIsClean
<1>1. Init => OwnershipInv /\ CleanInv
  BY DEF Init, OwnershipInv, SubsBelongToSessions, InflightBelongsToSessions, NoMsgs,
         CleanInv, FreeClient
<1>2. TypeOK /\ OwnershipInv /\ CleanInv /\ [Next]_vars => OwnershipInv' /\ CleanInv'
  <2>1. CASE UNCHANGED vars
    BY <2>1 DEF vars, OwnershipInv, SubsBelongToSessions, InflightBelongsToSessions,
                Connected, CleanInv
  <2>2. QED  BY <2>1, OwnershipStep, CleanStep
<1>3. TypeOK /\ OwnershipInv /\ CleanInv /\ [Next]_vars =>
        [\A s \in Slot : ~clients[s].connected /\ clients'[s].connected =>
           /\ \A j \in SubSlot : subs'[j] = NoSub \/ subs'[j].client_idx # s
           /\ inflight'[s] = NoMsgs
           /\ clients'[s].next_packet_id = 0]_vars
  BY SessionBeginsClean
<1>4. QED  BY <1>1, <1>2, <1>3, TypeCorrect, PTL DEF Spec, NewSessionIsClean

-----------------------------------------------------------------------------
(* The routing loop skips nobody. *)

\* While the loop runs, an entry still owed its copy is as deliverable as it
\* was when the loop began, or its client has been disconnected meanwhile.
OwedInv ==
  /\ NobodySkipped
  /\ task.at = "fanout" =>
       /\ task.fit # "neither"
       /\ \A j \in task.owed : subs[j] = NoSub \/ Deliverable(j, task.topic)

\* Disconnecting subscribers in the loop takes entries away and alters none.
LEMMA DeliverableKept ==
  ASSUME TypeOK, NEW gone, NEW j \in SubSlot, NEW t, Deliverable(j, t),
         subs' = SubsWithout(gone), subs'[j] # NoSub,
         \A s \in Slot : /\ clients'[s].fd = ClientsWithout(gone)[s].fd
                         /\ clients'[s].connected = ClientsWithout(gone)[s].connected
  PROVE  Deliverable(j, t)'
BY KeptEntry DEF Deliverable, Connected

\* One turn of the loop that leaves some pool entries and drops the others.
LEMMA OwedAdvance ==
  ASSUME TypeOK, OwedInv, AtEntry, NEW gone, NEW buf, NEW served,
         Advance(buf, served), subs' = SubsWithout(gone),
         \A s \in Slot : /\ clients'[s].fd = ClientsWithout(gone)[s].fd
                         /\ clients'[s].connected = ClientsWithout(gone)[s].connected,
         task.i \in task.owed => \/ task.i \in served
                                 \/ subs[task.i] = NoSub
                                 \/ task.fit = "qos0only" /\ EffectiveQoS(task.i) = 1
  PROVE  OwedInv'
<1>1. /\ task'.at = "fanout" /\ task'.fit = task.fit /\ task'.topic = task.topic
      /\ task'.qos = task.qos /\ task'.i = task.i + 1 /\ task'.owed = task.owed \ served
  BY DEF Advance, TypeOK, Task, AtEntry
<1>2. task.at = "fanout" /\ task.i \in Int /\ task.owed \subseteq SubSlot /\ SubSlot \subseteq Int
  BY BrokerAssumption DEF AtEntry, TypeOK, Task, SubSlot
<1>3. \A j \in SubSlot : subs'[j] # NoSub => subs'[j] = subs[j]
  BY KeptEntry
<1>4. \A j \in SubSlot : subs'[j] # NoSub => EffectiveQoS(j)' = EffectiveQoS(j)
  BY <1>1, <1>3 DEF EffectiveQoS
<1>5. ASSUME NEW j \in task'.owed, subs'[j] # NoSub
      PROVE  Deliverable(j, task.topic)'
  <2>1. j \in SubSlot /\ subs[j] # NoSub
    BY <1>1, <1>2, <1>3, <1>5
  <2>2. Deliverable(j, task.topic)
    BY <1>1, <1>2, <1>5, <2>1 DEF OwedInv
  <2>3. QED
    BY <1>1, <1>5, <2>1, <2>2, DeliverableKept DEF Deliverable
<1>6. ASSUME NEW j \in task'.owed, j < task'.i, subs'[j] # NoSub
      PROVE  task'.fit = "qos0only" /\ EffectiveQoS(j)' = 1
  <2>1. j \in task.owed /\ j \notin served /\ j \in SubSlot /\ subs[j] # NoSub
    BY <1>1, <1>2, <1>3, <1>6
  <2>2. j < task.i \/ j = task.i
    <3>1. j < task.i + 1
      BY <1>1, <1>6
    <3>2. j \in Int /\ task.i \in Int
      BY <1>2, <2>1
    <3>3. QED  BY <3>1, <3>2
  <2>3. task.fit = "qos0only" /\ EffectiveQoS(j) = 1
    BY <1>2, <2>1, <2>2 DEF OwedInv, NobodySkipped
  <2>4. QED  BY <1>1, <1>4, <1>6, <2>1, <2>3
<1>7. NobodySkipped'
  BY <1>6 DEF NobodySkipped
<1>8. QED  BY <1>1, <1>2, <1>5, <1>7 DEF OwedInv

LEMMA OwedFanout ==
  ASSUME TypeOK, OwedInv, Fanout
  PROVE  OwedInv'
<1> DEFINE ci == subs[task.i].client_idx
<1>1. SubsWithout({}) = subs /\ ClientsWithout({}) = clients
  BY DEF SubsWithout, ClientsWithout, TypeOK
<1>2. CASE FanoutSkip
  <2>1. task.i \in task.owed => subs[task.i] = NoSub
    BY <1>2 DEF FanoutSkip, OwedInv, AtEntry
  <2>2. QED  BY <1>1, <1>2, <2>1, OwedAdvance DEF FanoutSkip
<1>3. CASE FanoutQoS0
  <2>1. PICK gone : Disconnect(gone)
    BY <1>3 DEF FanoutQoS0
  <2>2. QED  BY <1>3, <2>1, OwedAdvance DEF FanoutQoS0, Disconnect
<1>4. CASE FanoutDegrade
  <2>1. PICK gone, id :
          /\ clients' = [ClientsWithout(gone) EXCEPT
                           ![ci].next_packet_id = IF gone = {} THEN id ELSE @]
          /\ subs' = SubsWithout(gone)
    BY <1>4 DEF FanoutDegrade
  <2>2. \A s \in Slot : /\ clients'[s].fd = ClientsWithout(gone)[s].fd
                        /\ clients'[s].connected = ClientsWithout(gone)[s].connected
    BY <2>1, WithoutTypes, SessionKept
  <2>3. QED  BY <1>4, <2>1, <2>2, OwedAdvance DEF FanoutDegrade
<1>5. CASE FanoutQoS1
  <2>1. PICK gone, id :
          /\ clients' = [ClientsWithout(gone) EXCEPT
                           ![ci].next_packet_id = IF gone = {} THEN id ELSE @]
          /\ subs' = SubsWithout(gone)
    BY <1>5 DEF FanoutQoS1
  <2>2. \A s \in Slot : /\ clients'[s].fd = ClientsWithout(gone)[s].fd
                        /\ clients'[s].connected = ClientsWithout(gone)[s].connected
    BY <2>1, WithoutTypes, SessionKept
  <2>3. CASE task.fit = "both"
    BY <1>5, <2>1, <2>2, <2>3, OwedAdvance DEF FanoutQoS1
  <2>4. CASE task.fit # "both"
    <3>1. task.fit = "qos0only" /\ EffectiveQoS(task.i) = 1
      BY <1>5, <2>4 DEF FanoutQoS1, OwedInv, AtEntry, TypeOK, Task, Fit
    <3>2. Advance(task.send_buf, {}) /\ AtEntry
      BY <1>5, <2>4 DEF FanoutQoS1
    <3>3. QED  BY <2>1, <2>2, <3>1, <3>2, OwedAdvance
  <2>5. QED  BY <2>3, <2>4
<1>6. CASE FanoutDone
  <2>1. /\ task'.at = "ack" /\ task'.i = task.i /\ task'.owed = task.owed
        /\ task'.fit = task.fit /\ task'.qos = task.qos /\ subs' = subs
    BY <1>6 DEF FanoutDone, TypeOK, Task
  <2>2. QED  BY <1>6, <2>1 DEF FanoutDone, OwedInv, NobodySkipped, EffectiveQoS
<1>7. QED  BY <1>2, <1>3, <1>4, <1>5, <1>6 DEF Fanout

LEMMA OwedRoute ==
  ASSUME TypeOK, NEW t, NEW fit, NEW qos, NEW from, Route(t, fit, qos, from),
         UNCHANGED <<clients, subs>>
  PROVE  OwedInv'
<1>1. /\ task'.at = IF fit = "neither" THEN "ack" ELSE "fanout"
      /\ task'.i = 1 /\ task'.topic = t /\ task'.fit = fit
      /\ task'.owed = IF fit = "neither" THEN {} ELSE {j \in SubSlot : Deliverable(j, t)}
  BY DEF Route
<1>2. \A j \in task'.owed : j \in SubSlot /\ ~(j < 1)
  BY <1>1, BrokerAssumption DEF SubSlot
<1>3. NobodySkipped'
  BY <1>1, <1>2 DEF NobodySkipped
<1>4. \A j \in SubSlot : Deliverable(j, t) => Deliverable(j, t)'
  BY DEF Deliverable, Connected
<1>5. CASE fit = "neither"
  BY <1>1, <1>3, <1>5 DEF OwedInv
<1>6. CASE fit # "neither"
  <2>1. \A j \in task'.owed : Deliverable(j, t)'
    BY <1>1, <1>4, <1>6
  <2>2. QED  BY <1>1, <1>3, <1>6, <2>1 DEF OwedInv, Deliverable
<1>7. QED  BY <1>5, <1>6

LEMMA OwedStep ==
  ASSUME TypeOK, OwedInv, Next
  PROVE  OwedInv'
<1>1. ASSUME task'.at = "loop"
      PROVE  OwedInv'
  BY <1>1 DEF OwedInv, NobodySkipped
<1>2. CASE Fanout
  BY <1>2, OwedFanout
<1>3. ASSUME NEW s \in Slot, NEW t \in Topic, NEW fit \in Fit, NEW qos \in QoS,
             Publish(s, t, fit, qos)
      PROVE  OwedInv'
  BY <1>3, OwedRoute DEF Publish
<1>4. ASSUME NEW t \in Topic, NEW fit \in Fit, NEW qos \in QoS,
             LocalPublish(t, fit, qos)
      PROVE  OwedInv'
  BY <1>4, OwedRoute DEF LocalPublish
<1>5. CASE Puback
  BY <1>1, <1>5 DEF Puback, Idle
<1>6. ASSUME task.at = "loop" /\ UNCHANGED task
      PROVE  OwedInv'
  BY <1>1, <1>6
<1>7. ASSUME NEW s \in Slot
      PROVE  /\ \A id : ConnectAccepted(s, id) => task.at = "loop" /\ UNCHANGED task
             /\ \A f, requested : Subscribe(s, f, requested) => task.at = "loop" /\ UNCHANGED task
             /\ \A f : Unsubscribe(s, f) => task.at = "loop" /\ UNCHANGED task
             /\ \A id : HandlePuback(s, id) => task.at = "loop" /\ UNCHANGED task
             /\ \A k : RetryOrAbandon(s, k) => task.at = "loop" /\ UNCHANGED task
             /\ Drop(s) => task.at = "loop" /\ UNCHANGED task
  BY Zenon DEF ConnectAccepted, Subscribe, Unsubscribe, HandlePuback, RetryOrAbandon, Drop
<1>8. Accept => task.at = "loop" /\ UNCHANGED task
  BY DEF Accept
<1>9. QED
  BY <1>2, <1>3, <1>4, <1>5, <1>6, <1>7, <1>8, Zenon DEF Next, PacketFrom

\* Sends that fail inside the loop free the pool entries the loop walks over, yet
\* every subscriber that stays connected gets its copy, unless only the QoS-1
\* frame is too large for the send buffer.
THEOREM LoopSkipsNobody == Spec => []NobodySkipped
<1>1. Init => OwedInv
  BY DEF Init, Idle, OwedInv, NobodySkipped
<1>2. TypeOK /\ OwedInv /\ [Next]_vars => OwedInv'
  <2>1. CASE UNCHANGED vars
    BY <2>1 DEF vars, OwedInv, NobodySkipped, EffectiveQoS, Deliverable, Connected
  <2>2. QED  BY <2>1, OwedStep
<1>3. OwedInv => NobodySkipped
  BY DEF OwedInv
<1>4. QED  BY <1>1, <1>2, <1>3, TypeCorrect, PTL DEF Spec

=============================================================================
