------------------------------ MODULE Inflight ------------------------------
(***************************************************************************)
(* The outbound QoS-1 tables of main/mqtt_broker.c against the clock: what *)
(* they cost in memory (s_inflight_bytes and its global cap, shared by all *)
(* clients) and how long a message that is not acknowledged stays          *)
(* (inflight_walk and its backoff).  Packet ids and the routing loop are   *)
(* in Broker.tla.                                                          *)
(*                                                                         *)
(* Time is counted in units of BROKER_INFLIGHT_RETRY_INITIAL_MS, and an    *)
(* entry holds the time left to its deadline rather than the deadline.     *)
(* The select loop turns every 100 ms, so that inflight_walk has run       *)
(* before the next unit begins: Tick waits for Walk.                       *)
(***************************************************************************)
EXTENDS Integers, FiniteSets, FiniteSetsExt

CONSTANTS
  Client,         \* the connected clients
  NInflight,      \* BROKER_INFLIGHT_PER_CLIENT_MAX
  Size,           \* sizes (topic + payload) of the messages routed
  BytesMax,       \* BROKER_INFLIGHT_TOTAL_BYTES_MAX
  FrameMax,       \* the largest message whose QoS-1 frame fits s_buf_size
  RetryInitial,   \* BROKER_INFLIGHT_RETRY_INITIAL_MS, in units: 1
  RetryCap,       \* BROKER_INFLIGHT_RETRY_MAX_MS, in units: 4
  RetryMax,       \* BROKER_INFLIGHT_RETRY_MAX: 5
  NoMsg           \* an inactive slot

MsgSlot == 1..NInflight
Msg == [size: Size, retries: 0..RetryMax, wait: 0..RetryCap, age: Nat]
  \* age is history: how long the slot has held the message

VARIABLES
  inflight,   \* s_inflight of each client
  bytes,      \* s_inflight_bytes
  walked      \* inflight_walk has run in this unit of time

vars == <<inflight, bytes, walked>>

InflightAssumption ==
  /\ NInflight \in Nat
  /\ Size \subseteq Nat
  /\ BytesMax \in Nat
  /\ RetryInitial = 1 /\ RetryCap = 4 /\ RetryMax = 5
  /\ NoMsg \notin Msg

NoMsgs == [k \in MsgSlot |-> NoMsg]
Active(c) == {k \in MsgSlot : inflight[c][k] # NoMsg}

Init ==
  /\ inflight = [c \in Client |-> NoMsgs]
  /\ bytes = 0
  /\ walked = TRUE

-----------------------------------------------------------------------------
(* A name that ends in _Bug is the definition below it with one defect.    *)

Slots == Client \X MsgSlot
SizeOf(p) == inflight[p[1]][p[2]].size

ActiveSlots == {p \in Slots : p[2] \in Active(p[1])}

\* The bytes of the messages in the slots of P, and how many they are.
BytesOf(P) == UNION {{p} \X (1..SizeOf(p)) : p \in P}
Weight(P) == Cardinality(BytesOf(P))

\* inflight_free_slot on every slot of P, with its guard against underflow.
Freed(P) == IF bytes >= Weight(P) THEN bytes - Weight(P) ELSE 0

\* The wait after the r-th resend: doubled each time, and capped.
Shifted == <<1, 2, 4, 8, 16>>  \* 1 << (r - 1)
Delay_Bug(r) == RetryInitial * Shifted[r]  \* no cap
Delay(r) == IF RetryInitial * Shifted[r] > RetryCap THEN RetryCap
                                                    ELSE RetryInitial * Shifted[r]

Room_Bug(n) == bytes <= BytesMax  \* the new message is not counted
Room(n) == bytes + n <= BytesMax

\* inflight_enqueue and the first inflight_transmit.  Without room, without a
\* free slot, or when the frame does not fit and the slot is freed again, the
\* tables stay as they are.  The send itself may cost the client: Disconnect.
Enqueue(c, n) ==
  /\ Room(n)
  /\ n <= FrameMax
  /\ MsgSlot \ Active(c) # {}
  /\ LET k == Min(MsgSlot \ Active(c)) IN
       inflight' = [inflight EXCEPT ![c][k] =
         [size |-> n, retries |-> 0, wait |-> RetryInitial, age |-> 0]]
  /\ bytes' = bytes + n
  /\ UNCHANGED walked

\* PUBACK: the slot is freed.
Puback(c, k) ==
  /\ k \in Active(c)
  /\ inflight' = [inflight EXCEPT ![c][k] = NoMsg]
  /\ bytes' = Freed({<<c, k>>})
  /\ UNCHANGED walked

\* client_disconnect: inflight_free_all_for_client.
Disconnect_Bug(c) ==  \* the table is cleared, the bytes are not given back
  /\ Active(c) # {}
  /\ inflight' = [inflight EXCEPT ![c] = NoMsgs]
  /\ UNCHANGED <<bytes, walked>>
Disconnect(c) ==
  /\ Active(c) # {}
  /\ inflight' = [inflight EXCEPT ![c] = NoMsgs]
  /\ bytes' = Freed({c} \X Active(c))
  /\ UNCHANGED walked

-----------------------------------------------------------------------------
(* inflight_walk *)

Due(p) == inflight[p[1]][p[2]].wait = 0
GivenUp_Bug(p) == Due(p) /\ inflight[p[1]][p[2]].retries + 1 >= RetryMax  \* one early
GivenUp_Never(p) == FALSE  \* resends are not counted
GivenUp(p) == Due(p) /\ inflight[p[1]][p[2]].retries >= RetryMax

\* An entry as the walk leaves it, in a client whose sends succeed.
Walked(c, k) ==
  LET e == inflight[c][k] IN
  IF e = NoMsg \/ ~Due(<<c, k>>) THEN e
  ELSE IF GivenUp(<<c, k>>) THEN NoMsg
  ELSE [e EXCEPT !.retries = @ + 1, !.wait = Delay(e.retries + 1)]

\* One pass over all tables.  A resend that fails disconnects its client in
\* the middle of the pass, and the client's other messages go with it.
Walk ==
  /\ ~walked
  /\ walked' = TRUE
  /\ LET resent(c) == {k \in Active(c) : Due(<<c, k>>) /\ ~GivenUp(<<c, k>>)}
     IN \E failed \in SUBSET {c \in Client : resent(c) # {}} :
          /\ inflight' = [c \in Client |-> IF c \in failed THEN NoMsgs
                                           ELSE [k \in MsgSlot |-> Walked(c, k)]]
          /\ bytes' = Freed({p \in ActiveSlots : p[1] \in failed \/ GivenUp(p)})

Tick ==
  /\ walked
  /\ walked' = FALSE
  /\ inflight' = [c \in Client |-> [k \in MsgSlot |->
       IF k \in Active(c)
         THEN [inflight[c][k] EXCEPT !.wait = @ - 1, !.age = @ + 1] ELSE NoMsg]]
  /\ UNCHANGED bytes

Next ==
  \/ \E c \in Client, n \in Size : Enqueue(c, n)
  \/ \E c \in Client, k \in MsgSlot : Puback(c, k)
  \/ \E c \in Client : Disconnect(c)
  \/ Walk
  \/ Tick

Spec == Init /\ [][Next]_vars

-----------------------------------------------------------------------------
(* Properties *)

\* Every slot is free or holds a message; the byte count is a number.
TypeOK ==
  /\ inflight \in [Client -> [MsgSlot -> Msg \cup {NoMsg}]]
  /\ bytes \in Nat
  /\ walked \in BOOLEAN

\* s_inflight_bytes is the size of the messages in the tables, through every
\* acknowledgement, abandonment and lost client (it neither leaks, so that the
\* cap would in the end refuse every QoS-1 copy, nor forgets a message), and all
\* tables together stay under the cap.
BytesUnderCap == bytes = Weight(ActiveSlots) /\ bytes <= BytesMax

\* The schedule inflight_walk documents: 15 s before the first resend, then
\* "Exponential backoff: 15s, 30s, 60s, 60s, 60s".
Backoff == <<1, 2, 4, 4, 4>>
Patience == 1 + Backoff[1] + Backoff[2] + Backoff[3] + Backoff[4] + Backoff[5]

\* A message nobody acknowledges gives its slot back after 240 s.
BoundedRetention ==
  \A c \in Client : \A k \in Active(c) : inflight[c][k].age <= Patience

\* inflight_walk drops a message of a client it keeps only when the whole
\* schedule has gone by: after every resend, and not a deadline earlier.
NoEarlyAbandon ==
  [][\A c \in Client : \A k \in Active(c) :
       (walked' /\ ~walked /\ inflight'[c][k] = NoMsg
          /\ \E other \in MsgSlot : inflight'[c][other] # NoMsg)
       => inflight[c][k].age = Patience]_vars

=============================================================================
