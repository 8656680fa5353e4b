----------------------------- MODULE TesterFeed -----------------------------
(***************************************************************************)
(* The live feed of the /tester page.  broker_task (CPU 1) copies every    *)
(* routed PUBLISH into the stream buffer of each registered consumer;      *)
(* portal_http (CPU 0) upgrades a connection to a WebSocket, creating and  *)
(* registering its buffer; one ws_task per WebSocket (CPU 0) reads the     *)
(* buffer, and unregisters and deletes it at the end.  The registry is     *)
(* guarded by s_tester_mux, the buffers by nothing.                        *)
(*                                                                         *)
(* A buffer is the address xStreamBufferCreate returns: the heap may hand  *)
(* out again what vStreamBufferDelete gave back.  Bytes are counted in     *)
(* pieces, PieceCount of them to an event.                                 *)
(***************************************************************************)
EXTENDS Integers, FiniteSets, SequencesExt

CONSTANTS
  NConsumers,   \* BROKER_TESTER_MAX_CONSUMERS
  Conn,         \* connections that ask for an upgrade, one at a time
  Buffer,       \* addresses of stream buffers
  NoBuffer,     \* NULL
  PieceCount,   \* pieces of an event
  NEvents,      \* events a buffer has room for
  MaxEvents     \* bound: events published

ASSUME FeedAssumption ==
  /\ NConsumers \in Nat /\ PieceCount \in Nat \ {0}
  /\ NEvents \in Nat /\ MaxEvents \in Nat
  /\ NoBuffer \notin Buffer

Consumer == 1..NConsumers
NoSlot == 0     \* -1 in the code
Piece == [seq: 1..MaxEvents, part: 1..PieceCount]

VARIABLES
  consumers,   \* s_tester_consumers: the buffer registered in each slot
  count,       \* s_tester_stats.consumers
  allocated,   \* buffers that exist
  data,        \* what each buffer holds
  conn,        \* ws_ctx_t of each connection, and where its code is
  seq,         \* s_tester_seq
  handles,     \* tester_fanout: the snapshot, without the handles sent to
  fanout,      \* tester_fanout: before its snapshot, or past it
  received     \* history: the events each ws_task has emitted

vars == <<consumers, count, allocated, data, conn, seq, handles, fanout, received>>
registry == <<consumers, count>>
broker == <<seq, handles, fanout>>

(* where: "idle" no WebSocket, "created" and "registered" in               *)
(* portal_ws_handle_upgrade, "running" in the loop of ws_task, "closing"   *)
(* and "unregistered" in its teardown or that of a failed upgrade.         *)
Where == {"idle", "created", "registered", "running", "closing", "unregistered"}
Ctx == [where: Where, sb: Buffer \cup {NoBuffer}, slot: Consumer \cup {NoSlot}]
NoCtx == [where |-> "idle", sb |-> NoBuffer, slot |-> NoSlot]

Init ==
  /\ consumers = [i \in Consumer |-> NoBuffer]
  /\ count = 0
  /\ allocated = {}
  /\ data = [b \in Buffer |-> <<>>]
  /\ conn = [c \in Conn |-> NoCtx]
  /\ seq = 0
  /\ handles = [i \in Consumer |-> NoBuffer]
  /\ fanout = "idle"
  /\ received = [c \in Conn |-> <<>>]

-----------------------------------------------------------------------------
(* portal_ws_handle_upgrade and ws_task.  A name that ends in _Bug is the  *)
(* definition below it with one defect.                                    *)

\* The loops over the slots go up.
First(S) == {i \in S : \A j \in S : i <= j}

Registered == {i \in Consumer : consumers[i] # NoBuffer}
Free == Consumer \ Registered

\* portal_http serves one connection at a time, and its task is above
\* ws_task on the same core: an upgrade is not interleaved with another.
Upgrading == {c \in Conn : conn[c].where \in {"created", "registered"}}

Create_Bug(c) ==  \* no early look for a free slot
  /\ conn[c].where = "idle" /\ Upgrading = {}
  /\ \E b \in Buffer \ allocated :
       /\ allocated' = allocated \cup {b}
       /\ data' = [data EXCEPT ![b] = <<>>]
       /\ conn' = [conn EXCEPT ![c] = [where |-> "created", sb |-> b, slot |-> NoSlot]]
  /\ received' = [received EXCEPT ![c] = <<>>]
  /\ UNCHANGED <<registry, broker>>
Create(c) ==
  /\ conn[c].where = "idle" /\ Upgrading = {}
  /\ Free # {}                                   \* "reject early"
  /\ \E b \in Buffer \ allocated :
       /\ allocated' = allocated \cup {b}
       /\ data' = [data EXCEPT ![b] = <<>>]
       /\ conn' = [conn EXCEPT ![c] = [where |-> "created", sb |-> b, slot |-> NoSlot]]
  /\ received' = [received EXCEPT ![c] = <<>>]
  /\ UNCHANGED <<registry, broker>>

\* broker_tester_register.  RegistrySound is why it does not fail.
Register(c) ==
  /\ conn[c].where = "created"
  /\ \E i \in First(Free) :
       /\ consumers' = [consumers EXCEPT ![i] = conn[c].sb]
       /\ conn' = [conn EXCEPT ![c] = [where |-> "registered", sb |-> conn[c].sb, slot |-> i]]
  /\ count' = count + 1
  /\ UNCHANGED <<allocated, data, received, broker>>

\* The 101 response is sent and the task spawned.
Spawn(c) ==
  /\ conn[c].where = "registered"
  /\ conn' = [conn EXCEPT ![c].where = "running"]
  /\ UNCHANGED <<registry, allocated, data, received, broker>>

\* The response cannot be sent, or there is no memory for the task.
SpawnFails_Bug(c) ==  \* only the buffer is cleaned up
  /\ conn[c].where = "registered"
  /\ conn' = [conn EXCEPT ![c].where = "unregistered"]
  /\ UNCHANGED <<registry, allocated, data, received, broker>>
SpawnFails(c) ==
  /\ conn[c].where = "registered"
  /\ conn' = [conn EXCEPT ![c].where = "closing"]
  /\ UNCHANGED <<registry, allocated, data, received, broker>>

\* xStreamBufferReceive of one event, and emit_event if all of it came.
Receive(c) ==
  LET b == conn[c].sb
      n == Min({PieceCount, Len(data[b])})
  IN
  /\ conn[c].where = "running"
  /\ n > 0
  /\ received' = IF n = PieceCount
                 THEN [received EXCEPT ![c] = Append(@, SubSeq(data[b], 1, n))]
                 ELSE received
  /\ data' = [data EXCEPT ![b] = SubSeq(@, n + 1, Len(@))]
  /\ UNCHANGED <<registry, allocated, conn, broker>>

\* The peer closes, errs, or is idle for too long.
Close(c) ==
  /\ conn[c].where = "running"
  /\ conn' = [conn EXCEPT ![c].where = "closing"]
  /\ UNCHANGED <<registry, allocated, data, received, broker>>

\* broker_tester_unregister
Unregister_Bug(c) ==  \* the statistics are not told
  /\ conn[c].where = "closing"
  /\ consumers' = [consumers EXCEPT ![conn[c].slot] = NoBuffer]
  /\ conn' = [conn EXCEPT ![c].where = "unregistered"]
  /\ UNCHANGED <<count, allocated, data, received, broker>>
Unregister(c) ==
  /\ conn[c].where = "closing"
  /\ IF conn[c].slot \in Registered
     THEN /\ consumers' = [consumers EXCEPT ![conn[c].slot] = NoBuffer]
          /\ count' = IF count > 0 THEN count - 1 ELSE 0
     ELSE UNCHANGED registry
  /\ conn' = [conn EXCEPT ![c].where = "unregistered"]
  /\ UNCHANGED <<allocated, data, received, broker>>

\* vStreamBufferDelete and free of the context.
Delete_Bug(c) ==  \* the buffer goes before its registration
  /\ conn[c].where = "closing"
  /\ allocated' = allocated \ {conn[c].sb}
  /\ conn' = [conn EXCEPT ![c] = NoCtx]
  /\ UNCHANGED <<registry, data, received, broker>>
Delete(c) ==
  /\ conn[c].where = "unregistered"
  /\ allocated' = allocated \ {conn[c].sb}
  /\ conn' = [conn EXCEPT ![c] = NoCtx]
  /\ UNCHANGED <<registry, data, received, broker>>

-----------------------------------------------------------------------------
(* tester_fanout *)

\* WS_SB_CAPACITY
Capacity_Bug == PieceCount * NEvents + 1  \* not a multiple of an event
Capacity == PieceCount * NEvents

\* The look at the registry outside the critical section, and the event.
Publish ==
  /\ fanout = "idle" /\ seq < MaxEvents
  /\ Registered # {}
  /\ seq' = seq + 1
  /\ fanout' = "event"
  /\ UNCHANGED <<registry, allocated, data, conn, handles, received>>

Snapshot ==
  /\ fanout = "event"
  /\ handles' = consumers
  /\ fanout' = IF Registered = {} THEN "idle" ELSE "send"
  /\ UNCHANGED <<registry, allocated, data, conn, seq, received>>

Pending == {i \in Consumer : handles[i] # NoBuffer}

\* xStreamBufferSend with no wait writes what there is room for.  A buffer
\* that was deleted is written to all the same; the model then goes on as if
\* the write had hit nothing, or the buffer now at that address.
Written(d) ==
  d \o [p \in 1..Min({Capacity - Len(d), PieceCount}) |-> [seq |-> seq, part |-> p]]

SendTo(i) ==
  LET b == handles[i] IN
  /\ data' = IF b \in allocated THEN [data EXCEPT ![b] = Written(@)] ELSE data
  /\ handles' = [handles EXCEPT ![i] = NoBuffer]
  /\ fanout' = IF Pending = {i} THEN "idle" ELSE "send"
  /\ UNCHANGED <<registry, allocated, conn, seq, received>>

Send == fanout = "send" /\ \E i \in First(Pending) : SendTo(i)

-----------------------------------------------------------------------------
Next ==
  \/ \E c \in Conn : Create(c) \/ Register(c) \/ Spawn(c) \/ SpawnFails(c)
                       \/ Receive(c) \/ Close(c) \/ Unregister(c) \/ Delete(c)
  \/ Publish \/ Snapshot \/ Send

Spec == Init /\ [][Next]_vars

-----------------------------------------------------------------------------
(* Properties *)

TypeOK ==
  /\ consumers \in [Consumer -> Buffer \cup {NoBuffer}]
  /\ count \in 0..NConsumers
  /\ allocated \subseteq Buffer
  /\ data \in [Buffer -> Seq(Piece)]
  /\ conn \in [Conn -> Ctx]
  /\ seq \in 0..MaxEvents
  /\ handles \in [Consumer -> Buffer \cup {NoBuffer}]
  /\ fanout \in {"idle", "event", "send"}
  /\ received \in [Conn -> Seq(Seq(Piece))]

\* The registry is sound: a buffer is registered after it is created and
\* unregistered before it is deleted, on the failure paths of the upgrade too;
\* every slot in use is the slot of one connection that will give it back (there
\* are two for the whole device); and a connection let past the early look finds
\* a slot, since portal_http upgrades one at a time and nobody else registers.
RegistrySound ==
  /\ \A i \in Registered :
       /\ consumers[i] \in allocated
       /\ \E c \in Conn : conn[c].slot = i /\ conn[c].sb = consumers[i]
  /\ count = Cardinality(Registered)
  /\ \A c \in Conn : conn[c].where = "created" => Free # {}

\* A ws_task emits whole events, each newer than the one before: a buffer
\* that is full loses events, never a part of one.
WholeEventsInOrder ==
  \A c \in Conn : \A k \in DOMAIN received[c] :
    LET e == received[c][k] IN
    /\ \A p \in 1..PieceCount : e[p].part = p /\ e[p].seq = e[1].seq
    /\ k > 1 => received[c][k - 1][1].seq < e[1].seq

\* "Snapshot consumer handles inside critical section to avoid races with
\* unregister()": what the broker sends to has not been deleted.
SendsOnlyToLive ==
  [][Send => \A i \in First(Pending) : handles[i] \in allocated]_vars
=============================================================================
