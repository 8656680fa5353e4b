-------------------------------- MODULE Wire --------------------------------
(***************************************************************************)
(* From bytes to packets: the receive buffer of a client, the loop of      *)
(* process_client_data over it (main/mqtt_broker.c), and the parsers and   *)
(* builders of main/mqtt_parser.c.  What the handlers then do is in        *)
(* Broker.                                                                 *)
(*                                                                         *)
(* A packet is its type, the bits of its first byte that count, and the    *)
(* lengths its body declares: the contents of a string are never looked at *)
(* here.  Lengths are written in digits of base Base (128).                *)
(***************************************************************************)
EXTENDS Integers, SequencesExt, FiniteSetsExt

CONSTANTS
  Base,          \* 128
  LengthMax,     \* bytes of a remaining length: 4
  Packets,       \* packets a client may send
  PacketsMax,    \* bound on the packets of a client
  RecvSize,      \* s_buf_size
  StringMax,     \* MQTT_MAX_TOPIC_LEN - 1 and MQTT_MAX_CLIENT_ID_LEN - 1
  SubsMax        \* MQTT_MAX_SUBS_PER_PKT

VARIABLES
  sent,          \* the packets the client sends
  arrived,       \* how many bytes of them have been received
  recv_buf,      \* recv_buf[0..recv_len-1]: byte k of packet i is <<i, k>>
  at,            \* "select", in "process_client_data", or gone, and why
  handled        \* history: the bytes and the parse of each packet handled

wirevars == <<sent, arrived, recv_buf, at, handled>>

-----------------------------------------------------------------------------
(* The remaining length.  A name that ends in _Bug is the definition below *)
(* it with one defect.                                                     *)

\* mqtt_encode_remaining_length
Encode_Bug(n) ==  \* one digit too few at a boundary
  LET digits[v \in 0..n] ==
        IF v <= Base THEN <<v>> ELSE <<(v % Base) + Base>> \o digits[v \div Base]
  IN digits[n]
Encode(n) ==
  LET digits[v \in 0..n] ==
        IF v < Base THEN <<v>> ELSE <<(v % Base) + Base>> \o digits[v \div Base]
  IN digits[n]

NeedMore == -1
Malformed == -2

\* mqtt_decode_remaining_length: its value and how many bytes it takes.
Decode(bytes) ==
  LET ends == {i \in DOMAIN bytes : bytes[i] < Base}
      n == Min(ends)
      value[i \in 1..(n + 1)] ==
        IF i > n THEN 0 ELSE (bytes[i] % Base) + Base * value[i + 1]
  IN IF ends # {} /\ n <= LengthMax
     THEN [bytes |-> n, value |-> value[1]]
     ELSE [bytes |-> 0,
           value |-> IF Len(bytes) > LengthMax THEN Malformed ELSE NeedMore]

\* mqtt_packet_length
PacketLength(bytes) ==
  IF Len(bytes) < 2 THEN NeedMore
  ELSE LET d == Decode(Tail(bytes)) IN
       IF d.bytes = 0 THEN d.value
       ELSE IF Len(bytes) < 1 + d.bytes + d.value THEN NeedMore
       ELSE 1 + d.bytes + d.value

-----------------------------------------------------------------------------
(* The parsers: [ok, used, fields], used being how far into the body they  *)
(* read.  The declared lengths are those of the packet.                    *)

Stored(n) == Min({n, StringMax})
Bad(used) == [ok |-> FALSE, used |-> used, fields |-> <<>>]

\* read_utf8_string over the declared lengths, each string with extra bytes
\* after it; the filters of SUBSCRIBE and UNSUBSCRIBE, and what CONNECT carries.
Fits_Bug(n, room) == n <= room          \* the two bytes of the length forgotten
Fits(n, room) == 2 + n <= room

ReadString(acc, n, extra, room, most) ==
  IF ~acc.ok \/ acc.used = room \/ Len(acc.fields) = most THEN acc
  ELSE IF ~Fits(n + extra, room - acc.used) THEN Bad(acc.used)
  ELSE [ok |-> TRUE, used |-> acc.used + 2 + n + extra, fields |-> Append(acc.fields, Stored(n))]

ReadStrings(lengths, extra, room, most) ==
  LET read[k \in 0..Len(lengths)] ==
        IF k = 0 THEN [ok |-> TRUE, used |-> 0, fields |-> <<>>]
        ELSE ReadString(read[k - 1], lengths[k], extra, room, most)
  IN read[Len(lengths)]

\* The body goes on with zeros when it declares less than it holds.
Padded(lengths, room) == lengths \o [i \in 1..room |-> 0]

\* mqtt_parse_subscribe, mqtt_parse_unsubscribe
ParseFilters(p, extra) ==
  IF p.room < 2 THEN Bad(0)
  ELSE LET r == ReadStrings(Padded(p.lengths, p.room), extra, p.room - 2, SubsMax) IN
       IF r.fields = <<>> THEN Bad(2 + r.used) ELSE [r EXCEPT !.used = 2 + @]

\* mqtt_parse_publish
ParsePublish(p) ==
  LET topic == Head(Padded(p.lengths, 1))
      id == IF p.qos > 0 THEN 2 ELSE 0
  IN IF p.room < 2 \/ ~Fits(topic, p.room) THEN Bad(Min({2, p.room}))
     ELSE IF p.room < 2 + topic + id THEN Bad(2 + topic)
     ELSE [ok |-> TRUE, used |-> p.room,
           fields |-> <<Stored(topic), p.room - (2 + topic + id)>>]

\* mqtt_parse_connect, after the ten bytes of protocol, flags and keep-alive.
ParseConnect(p) ==
  IF p.room < 10 THEN Bad(0)
  ELSE LET r == ReadStrings(p.lengths, 0, p.room - 10, Len(p.lengths)) IN
       IF Len(r.fields) < Len(p.lengths) THEN Bad(10 + r.used)
       ELSE [r EXCEPT !.used = 10 + @]

\* mqtt_parse_ack
ParseAck(p) == IF p.room < 2 THEN Bad(0) ELSE [ok |-> TRUE, used |-> 2, fields |-> <<>>]

Parse(p) ==
  CASE p.type = "CONNECT" -> ParseConnect(p)
    [] p.type = "PUBLISH" -> ParsePublish(p)
    [] p.type = "SUBSCRIBE" -> ParseFilters(p, 1)
    [] p.type = "UNSUBSCRIBE" -> ParseFilters(p, 0)
    [] p.type = "PUBACK" -> ParseAck(p)
    [] OTHER -> [ok |-> TRUE, used |-> 0, fields |-> <<>>]

\* mqtt_build_publish_ex: what it puts into a frame, in a buffer that is large
\* enough, or how long a buffer it wants.
BuildPublish(topic, payload, qos) ==
  LET room == 2 + topic + payload + (IF qos > 0 THEN 2 ELSE 0) IN
  [type |-> "PUBLISH", qos |-> qos, room |-> room, lengths |-> <<topic>>]
FrameLength(p) == 1 + Len(Encode(p.room)) + p.room

\* What the proofs ask of the constants: a length takes no more bytes than are read for it,
\* and one that does not end is followed by enough to see that.
WireAssumption ==
  /\ Base \in Nat /\ Base >= 2
  /\ LengthMax \in Nat /\ PacketsMax \in Nat /\ RecvSize \in Nat /\ StringMax \in Nat
  /\ \A p \in Packets :
       /\ p.qos \in Nat /\ p.room \in Nat /\ p.lengths \in Seq(Nat)
       /\ Len(Encode(p.room)) <= LengthMax
       /\ p.type = "MALFORMED" => p.room >= LengthMax
  /\ \A n \in 0..(2 * StringMax + 6) : Len(Encode(n)) <= LengthMax

-----------------------------------------------------------------------------
(* The receive buffer *)

Init ==
  /\ sent \in UNION {[1..n -> Packets] : n \in 1..PacketsMax}
  /\ arrived = 0 /\ recv_buf = <<>> /\ at = "select" /\ handled = <<>>

Frame(i) == [k \in 1..FrameLength(sent[i]) |-> <<i, k>>]
Stream == FlattenSeq([i \in DOMAIN sent |-> Frame(i)])

\* The value of a byte, where the code looks at one: the first byte of a packet
\* is its type, and the next are its length.  A malformed length never ends.
Value(b) ==
  LET p == sent[b[1]] IN
  IF b[2] = 1 THEN 0
  ELSE IF p.type = "MALFORMED" THEN Base
  ELSE LET e == Encode(p.room) IN IF b[2] <= 1 + Len(e) THEN e[b[2] - 1] ELSE 0

\* recv of what there is, up to what there is room for.
Recv ==
  /\ at = "select"
  /\ LET space == RecvSize - Len(recv_buf) IN
     IF space = 0 THEN at' = "full" /\ UNCHANGED <<arrived, recv_buf>>
     ELSE \E n \in 1..Min({space, Len(Stream) - arrived}) :
            /\ recv_buf' = recv_buf \o SubSeq(Stream, arrived + 1, arrived + n)
            /\ arrived' = arrived + n
            /\ at' = "process"
  /\ UNCHANGED <<sent, handled>>

Close ==
  /\ at = "select" /\ arrived = Len(Stream) /\ Len(recv_buf) < RecvSize
  /\ at' = "closed"
  /\ UNCHANGED <<sent, arrived, recv_buf, handled>>

Connected == handled # <<>>

\* The memmove at the end of the loop.
Consumed_Bug(n) == SubSeq(recv_buf, n, Len(recv_buf))
Consumed(n) == SubSeq(recv_buf, n + 1, Len(recv_buf))

\* One turn of the loop.  A handler that finds its packet malformed, or the
\* CONNECT refused, disconnects; QoS 2 and malformed PUBLISH are dropped.
Process ==
  /\ at = "process"
  /\ LET length == IF recv_buf = <<>> THEN NeedMore
                   ELSE PacketLength([k \in DOMAIN recv_buf |-> Value(recv_buf[k])])
         p == sent[recv_buf[1][1]]
         parsed == Parse(p)
     IN IF length = NeedMore THEN at' = "select" /\ UNCHANGED <<recv_buf, handled>>
        ELSE IF length = Malformed THEN at' = "malformed" /\ UNCHANGED <<recv_buf, handled>>
        ELSE IF ~Connected /\ p.type # "CONNECT"
             THEN at' = "not CONNECT" /\ UNCHANGED <<recv_buf, handled>>
        ELSE /\ handled' = Append(handled, [bytes |-> SubSeq(recv_buf, 1, length),
                                            parsed |-> parsed])
             /\ IF ~parsed.ok /\ p.type \notin {"PUBLISH", "PUBACK"}
                THEN at' = "refused" /\ UNCHANGED recv_buf
                ELSE IF p.type = "DISCONNECT"
                THEN at' = "disconnected" /\ UNCHANGED recv_buf
                ELSE recv_buf' = Consumed(length) /\ UNCHANGED at
  /\ UNCHANGED <<sent, arrived>>

Next == Recv \/ Close \/ Process

Spec == Init /\ [][Next]_wirevars

-----------------------------------------------------------------------------
(* Properties *)

\* However the bytes are cut into reads, the packets are handled in order, each
\* once and whole; no parser reads past the end of its packet, and a string the
\* packet has room for is taken as declared, up to what is kept of it.
PacketsWhole ==
  \A i \in DOMAIN handled :
    /\ handled[i].bytes = Frame(i)
    /\ handled[i].parsed.used <= sent[i].room

\* A client is dropped by the loop only for cause: a length that does not end,
\* a packet larger than the buffer, a first packet that is not CONNECT, or one
\* whose handler refuses it.  Otherwise everything it sends is handled.
ServedToTheEnd ==
  LET next == IF Len(handled) < Len(sent) THEN sent[Len(handled) + 1] ELSE sent[1]
      last == sent[Len(handled)]
  IN CASE at = "malformed" -> next.type = "MALFORMED"
       [] at = "full" -> FrameLength(next) > RecvSize
       [] at = "not CONNECT" -> handled = <<>> /\ next.type # "CONNECT"
       [] at = "refused" -> ~Parse(last).ok
       [] at = "disconnected" -> last.type = "DISCONNECT"
       [] at = "closed" -> Len(handled) = Len(sent)
       [] OTHER -> TRUE

\* What the broker builds it can parse: every message it may be given comes back
\* with its topic, if no longer than what is kept, and its payload; and the
\* remaining length is read back, from no fewer bytes than it has.
BuildsWhatItParses ==
  \A topic, payload \in 0..(StringMax + 1), qos \in 0..1 :
    LET p == BuildPublish(topic, payload, qos)
        e == Encode(p.room)
    IN /\ Parse(p) = [ok |-> TRUE, used |-> p.room, fields |-> <<Stored(topic), payload>>]
       /\ Decode(e) = [bytes |-> Len(e), value |-> p.room]
       /\ \A n \in 0..(Len(e) - 1) : Decode(SubSeq(e, 1, n)).value = NeedMore
=============================================================================
