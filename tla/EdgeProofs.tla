----------------------------- MODULE EdgeProofs -----------------------------
(***************************************************************************)
(* What lies around the broker: what the network, the scripts, the         *)
(* settings, the updates, the clocks and echo detection keep, as MCEdge    *)
(* checks them, for any values of the constants.  Each part takes its own  *)
(* steps or none (the lemmas XxxSteps); what is proved of Ota, NtpRate and *)
(* Topics in modules of their own is cited from there.                     *)
(***************************************************************************)
EXTENDS MCEdge, SequenceTheorems, FiniteSetTheorems, TLAPS

-----------------------------------------------------------------------------
(* The two promises of the keep-alive check, for every number of slots,    *)
(* every keep-alive, grace and period of the check, and every width of the *)
(* millisecond clock.                                                      *)

\* A clock that counts modulo W is right until it wraps.
LEMMA ClockBeforeWrap ==
  ASSUME NEW t \in Nat, t < ClockWrap
  PROVE  Clock(t) = t
BY KeepAliveAssumption DEF Clock

\* Over a stretch of time such a clock counts no more than has passed.
LEMMA ClockIsSlow ==
  ASSUME NEW a \in Nat, NEW b \in Nat, a <= b
  PROVE  /\ Clock(a) \in Nat /\ Clock(b) \in Nat
         /\ Clock(b) - Clock(a) <= b - a
<1>1. ClockWrap \in Nat \ {0}
  BY KeepAliveAssumption
<1> DEFINE qa == a \div ClockWrap
           qb == b \div ClockWrap
<1>2. /\ qa \in Nat /\ Clock(a) \in Nat /\ a = ClockWrap * qa + Clock(a) /\ Clock(a) < ClockWrap
      /\ qb \in Nat /\ Clock(b) \in Nat /\ b = ClockWrap * qb + Clock(b) /\ Clock(b) < ClockWrap
  BY <1>1 DEF Clock
<1> HIDE DEF qa, qb
<1>3. qa <= qb
  <2>1. SUFFICES ASSUME qb + 1 <= qa PROVE FALSE
    BY <1>2
  <2>2. ClockWrap * (qb + 1) <= ClockWrap * qa
    BY <1>1, <1>2, <2>1
  <2>3. ClockWrap * (qb + 1) = ClockWrap * qb + ClockWrap
    BY <1>1, <1>2
  <2>4. QED  BY <1>1, <1>2, <2>2, <2>3
<1>4. ClockWrap * qa <= ClockWrap * qb
  BY <1>1, <1>2, <1>3
<1>5. QED  BY <1>1, <1>2, <1>4

-----------------------------------------------------------------------------
(* Types, and that last_activity is when the last packet came.             *)

Recorded ==
  /\ last_check <= uptime
  /\ \A s \in ClientSlot :
       /\ last_packet[s] <= uptime
       /\ clients[s].state # "free" => clients[s].last_activity = last_packet[s]

TypeInv == TypeOK /\ Recorded

\* What the types say of one slot.
LEMMA SlotFacts ==
  ASSUME TypeInv, NEW s \in ClientSlot
  PROVE  /\ clients[s] \in Client
         /\ clients[s].keep_alive \in Nat
         /\ clients[s].last_activity \in 0..UptimeMax
         /\ last_packet[s] \in 0..UptimeMax /\ last_packet[s] <= uptime
         /\ clients[s].state # "free" => clients[s].last_activity = last_packet[s]
<1>1. clients[s] \in Client /\ last_packet[s] \in 0..UptimeMax
  BY DEF TypeInv, TypeOK
<1>2. clients[s].keep_alive \in KeepAlives \cup {0} /\ clients[s].last_activity \in 0..UptimeMax
  BY <1>1 DEF Client
<1>3. clients[s].keep_alive \in Nat
  <2>1. \A k \in KeepAlives \cup {0} : k \in Nat
    BY KeepAliveAssumption
  <2>2. QED  BY <1>2, <2>1
<1>4. QED  BY <1>1, <1>2, <1>3 DEF TypeInv, Recorded

LEMMA TimeFacts ==
  ASSUME TypeInv
  PROVE  uptime \in Nat /\ last_check \in Nat /\ last_check <= uptime /\ uptime <= UptimeMax
BY KeepAliveAssumption DEF TypeInv, TypeOK, Recorded

LEMMA TypeInit == Init => TypeInv
BY KeepAliveAssumption DEF Init, TypeInv, TypeOK, Recorded, Client, FreeClient

LEMMA TypeStep ==
  ASSUME TypeInv, [Next]_vars
  PROVE  TypeInv'
<1>1. /\ \A s \in ClientSlot : clients[s] \in Client
      /\ \A s \in ClientSlot : clients[s].state # "free" => clients[s].last_activity = last_packet[s]
      /\ \A s \in ClientSlot : last_packet[s] \in 0..UptimeMax /\ last_packet[s] <= uptime
      /\ DOMAIN clients = ClientSlot /\ DOMAIN last_packet = ClientSlot
      /\ clients = [s \in ClientSlot |-> clients[s]]
      /\ last_packet = [s \in ClientSlot |-> last_packet[s]]
  <2>1. clients \in [ClientSlot -> Client] /\ last_packet \in [ClientSlot -> 0..UptimeMax]
    BY DEF TypeInv, TypeOK
  <2>2. QED  BY <2>1, SlotFacts
<1>2. /\ uptime \in 0..UptimeMax /\ last_check \in 0..UptimeMax /\ last_check <= uptime
      /\ uptime \in Nat /\ last_check \in Nat /\ UptimeMax \in Nat
  BY KeepAliveAssumption, TimeFacts DEF TypeInv, TypeOK
\* It is enough that each slot is right and that time does not go back.
<1>3. ASSUME NEW c, NEW p,
             clients' = [s \in ClientSlot |-> c[s]], last_packet' = [s \in ClientSlot |-> p[s]],
             \A s \in ClientSlot :
               /\ c[s] \in Client /\ p[s] \in 0..UptimeMax /\ p[s] <= uptime
               /\ c[s].state # "free" => c[s].last_activity = p[s],
             uptime' \in 0..UptimeMax, uptime <= uptime',
             last_check' \in 0..UptimeMax, last_check' <= uptime'
      PROVE  TypeInv'
  <2>1. TypeOK'
    BY <1>3 DEF TypeOK
  <2>2. \A s \in ClientSlot : p[s] <= uptime'
    BY <1>2, <1>3
  <2>3. QED  BY <1>3, <2>1, <2>2 DEF TypeInv, Recorded
<1>4. ASSUME NEW s \in ClientSlot, NEW c \in Client, c.state # "free" => c.last_activity = uptime,
             clients' = [clients EXCEPT ![s] = c], Sent(s), UNCHANGED <<uptime, last_check>>
      PROVE  TypeInv'
  <2> DEFINE cs == [clients EXCEPT ![s] = c]
             ps == [last_packet EXCEPT ![s] = uptime]
  <2>1. clients' = [t \in ClientSlot |-> cs[t]] /\ last_packet' = [t \in ClientSlot |-> ps[t]]
    BY <1>1, <1>4 DEF Sent
  <2>2. \A t \in ClientSlot :
          /\ cs[t] \in Client /\ ps[t] \in 0..UptimeMax /\ ps[t] <= uptime
          /\ cs[t].state # "free" => cs[t].last_activity = ps[t]
    BY <1>1, <1>2, <1>4
  <2>3. uptime' = uptime /\ last_check' = last_check
    BY <1>4
  <2> HIDE DEF cs, ps
  <2>4. QED  BY <1>2, <1>3, <2>1, <2>2, <2>3
<1>5. ASSUME NEW s \in ClientSlot, Accept(s) PROVE TypeInv'
  <2> DEFINE c == [clients[s] EXCEPT !.state = "open", !.last_activity = uptime]
  <2>1. c \in Client /\ c.last_activity = uptime
    BY <1>1, <1>2 DEF Client
  <2>2. clients' = [clients EXCEPT ![s] = c]
    BY <1>5 DEF Accept
  <2>3. QED  BY <1>4, <1>5, <2>1, <2>2 DEF Accept
<1>6. ASSUME NEW s \in ClientSlot, Packet(s) PROVE TypeInv'
  <2> DEFINE c == [clients[s] EXCEPT !.last_activity = uptime]
  <2>1. c \in Client /\ c.last_activity = uptime
    BY <1>1, <1>2 DEF Client
  <2>2. clients' = [clients EXCEPT ![s] = c]
    BY <1>6 DEF Packet
  <2>3. QED  BY <1>4, <1>6, <2>1, <2>2 DEF Packet
<1>7. ASSUME NEW s \in ClientSlot, NEW ka \in KeepAlives, Connect(s, ka) PROVE TypeInv'
  <2> DEFINE c == [state |-> "connected", keep_alive |-> ka, last_activity |-> uptime]
  <2>1. c \in Client /\ c.last_activity = uptime
    BY <1>2 DEF Client
  <2>2. QED  BY <1>4, <1>7, <2>1 DEF Connect
\* A slot that is freed keeps the rest.
<1>8. \A s \in ClientSlot : Freed(s) \in Client /\ Freed(s).state = "free"
  BY <1>1 DEF Freed, Client
<1>9. ASSUME NEW s \in ClientSlot, Disconnect(s) PROVE TypeInv'
  <2> DEFINE cs == [clients EXCEPT ![s] = Freed(s)]
  <2>1. clients' = [t \in ClientSlot |-> cs[t]]
    BY <1>1, <1>9 DEF Disconnect
  <2>2. \A t \in ClientSlot :
          cs[t] \in Client /\ (cs[t].state # "free" => cs[t].last_activity = last_packet[t])
    BY <1>1, <1>8
  <2>3. UNCHANGED <<uptime, last_check, last_packet>>
    BY <1>9 DEF Disconnect
  <2> HIDE DEF cs
  <2>4. UNCHANGED <<uptime, last_check>> /\ last_packet' = [t \in ClientSlot |-> last_packet[t]]
    BY <1>1, <2>3
  <2>5. QED  BY <1>1, <1>2, <1>3, <2>1, <2>2, <2>4
<1>10. CASE CheckKeepalive
  <2> DEFINE cs == [s \in ClientSlot |-> IF Overdue(s) THEN Freed(s) ELSE clients[s]]
  <2>1. clients' = [t \in ClientSlot |-> cs[t]]
    BY <1>10 DEF CheckKeepalive
  <2>2. \A t \in ClientSlot :
          cs[t] \in Client /\ (cs[t].state # "free" => cs[t].last_activity = last_packet[t])
    BY <1>1, <1>8
  <2>3. UNCHANGED <<uptime, last_packet>> /\ last_check' = uptime
    BY <1>10 DEF CheckKeepalive
  <2> HIDE DEF cs
  <2>4. QED  BY <1>1, <1>2, <1>3, <2>1, <2>2, <2>3
<1>11. CASE Tick
  BY <1>1, <1>2, <1>3, <1>11 DEF Tick
<1>12. CASE UNCHANGED vars
  BY <1>1, <1>2, <1>3, <1>12 DEF vars
<1>13. QED  BY <1>5, <1>6, <1>7, <1>9, <1>10, <1>11, <1>12 DEF Next

\* Every variable keeps its type, and the bookkeeping of activity is true.
THEOREM TypeCorrect == Spec => []TypeInv
<1>1. TypeInv /\ [Next]_vars => TypeInv'
  BY TypeStep
<1>2. QED  BY <1>1, TypeInit, PTL DEF Spec

-----------------------------------------------------------------------------
(* A silent client goes.  The invariant speaks of the last check: the next *)
(* is never far, and a client it left was not overdue then.                *)

CheckNear == uptime - last_check <= CheckEvery + 1
LeftInTime ==
  \A s \in ClientSlot : Connected(s) /\ clients[s].keep_alive # 0 =>
    last_check - last_packet[s] <= clients[s].keep_alive + Grace
CheckInv == uptime < ClockWrap => CheckNear /\ LeftInTime

LEMMA CheckInit == Init => CheckInv
BY KeepAliveAssumption DEF Init, CheckInv, CheckNear, LeftInTime, Connected, FreeClient

LEMMA CheckStep ==
  ASSUME TypeInv, CheckInv, [Next]_vars
  PROVE  CheckInv'
<1> SUFFICES ASSUME uptime' < ClockWrap PROVE CheckNear' /\ LeftInTime'
  BY DEF CheckInv
<1> USE KeepAliveAssumption DEF TypeInv, TypeOK, Recorded, Client, CheckNear, LeftInTime, Connected
<1>0. uptime' = uptime \/ uptime' = uptime + 1
  BY DEF Next, Accept, Packet, Disconnect, Connect, CheckKeepalive, Tick, vars
<1>1. uptime <= uptime' /\ uptime < ClockWrap
  BY <1>0, TimeFacts
<1>2. CheckNear /\ LeftInTime
  BY <1>1 DEF CheckInv
<1>3. \A t \in 0..uptime : Clock(t) = t
  BY <1>1, ClockBeforeWrap
<1>4. ASSUME NEW s \in ClientSlot, Accept(s) PROVE CheckNear' /\ LeftInTime'
  BY <1>2, <1>4 DEF Accept, Sent
<1>5. ASSUME NEW s \in ClientSlot, Packet(s) PROVE CheckNear' /\ LeftInTime'
  BY <1>2, <1>5 DEF Packet, Sent
<1>6. ASSUME NEW s \in ClientSlot, Disconnect(s) PROVE CheckNear' /\ LeftInTime'
  BY <1>2, <1>6 DEF Disconnect, Freed
<1>7. ASSUME NEW s \in ClientSlot, NEW ka \in KeepAlives, Connect(s, ka)
      PROVE  CheckNear' /\ LeftInTime'
  BY <1>2, <1>7 DEF Connect, Sent
<1>8. CASE CheckKeepalive
  <2>1. CheckNear'
    BY <1>8 DEF CheckKeepalive
  <2>2. ASSUME NEW s \in ClientSlot, clients'[s].state = "connected", clients'[s].keep_alive # 0
        PROVE  last_check' - last_packet'[s] <= clients'[s].keep_alive + Grace
    <3>1. ~Overdue(s) /\ clients'[s] = clients[s]
      BY <1>8, <2>2 DEF CheckKeepalive, Freed
    <3>2. uptime - last_packet[s] <= clients[s].keep_alive + Grace
      <4>1. Since(last_packet[s]) = uptime - last_packet[s]
        BY <1>3, TimeFacts, SlotFacts DEF Since
      <4>2. QED  BY <2>2, <3>1, <4>1, TimeFacts, SlotFacts DEF Overdue
    <3>3. QED  BY <1>8, <3>1, <3>2 DEF CheckKeepalive
  <2>3. QED  BY <2>1, <2>2
<1>9. CASE Tick
  <2>1. uptime - last_check <= CheckEvery
    BY <1>3, <1>9 DEF Tick, CheckDue, Since
  <2>2. QED  BY <1>2, <1>9, <2>1 DEF Tick
<1>10. CASE UNCHANGED vars
  BY <1>2, <1>10 DEF vars
<1>11. QED  BY <1>4, <1>5, <1>6, <1>7, <1>8, <1>9, <1>10 DEF Next

\* Until the clock wraps, a client that sends nothing is gone when its keep-alive, the
\* grace and a period of the check are over (check_keepalive).
THEOREM SilenceEnds == Spec => []SilentClientsGo
<1>1. TypeInv /\ CheckInv /\ [Next]_vars => CheckInv'
  BY CheckStep
<1>2. TypeInv /\ CheckInv => SilentClientsGo
  <2>1. SUFFICES ASSUME TypeInv, CheckNear, LeftInTime, NEW s \in ClientSlot, Connected(s),
                        clients[s].keep_alive # 0
                 PROVE  Silence(s) <= clients[s].keep_alive + Grace + CheckEvery + 1
    BY DEF SilentClientsGo, CheckInv
  <2>2. QED
    BY <2>1, TimeFacts, SlotFacts, KeepAliveAssumption DEF CheckNear, LeftInTime, Silence
<1>3. QED  BY <1>1, <1>2, CheckInit, TypeCorrect, PTL DEF Spec

-----------------------------------------------------------------------------

\* The check drops no client on time, even in the turn in which the clock wraps:
\* a clock that goes back makes a client younger.
THEOREM PunctualityPays == Spec => PunctualClientsStay
<1>1. TypeInv /\ [Next]_vars =>
        [last_check' # last_check =>
           \A s \in ClientSlot : Connected(s) /\ Silence(s) <= clients[s].keep_alive
                             => clients'[s] = clients[s]]_vars
  <2>1. SUFFICES ASSUME TypeInv, [Next]_vars, last_check' # last_check,
                        NEW s \in ClientSlot, Connected(s),
                        Silence(s) <= clients[s].keep_alive
                 PROVE  clients'[s] = clients[s]
    OBVIOUS
  <2>2. CheckKeepalive
    BY <2>1 DEF Next, Accept, Packet, Disconnect, Connect, Tick, vars
  <2>3. clients[s].last_activity = last_packet[s] /\ last_packet[s] <= uptime
    BY <2>1 DEF TypeInv, Recorded, Connected
  <2>4. /\ clients[s].last_activity \in Nat /\ uptime \in Nat /\ clients[s].keep_alive \in Nat
        /\ last_packet[s] \in Nat
    BY <2>1, TimeFacts, SlotFacts, KeepAliveAssumption
  <2>5. Since(clients[s].last_activity) <= clients[s].keep_alive
    <3>1. Since(clients[s].last_activity) <= uptime - last_packet[s]
      BY <2>3, <2>4, ClockIsSlow DEF Since
    <3>2. Since(clients[s].last_activity) \in Int
      BY <2>3, <2>4, ClockIsSlow DEF Since
    <3>3. uptime - last_packet[s] <= clients[s].keep_alive
      BY <2>1 DEF Silence
    <3>4. QED  BY <2>4, <3>1, <3>2, <3>3
  <2>6. ~Overdue(s)
    <3>1. Since(clients[s].last_activity) \in Int
      BY <2>3, <2>4, ClockIsSlow DEF Since
    <3>2. QED  BY <2>4, <2>5, <3>1, KeepAliveAssumption DEF Overdue
  <2>7. QED  BY <2>1, <2>2, <2>6 DEF CheckKeepalive
<1>2. QED  BY <1>1, TypeCorrect, PTL DEF Spec, PunctualClientsStay

-----------------------------------------------------------------------------
(* Updates of the firmware and the rate limit *)

LEMMA UpdateSteps ==
  /\ MCInit => Update!Init
  /\ [MCNext]_<<part, clockvars, edgevars>> => [Update!Next]_otavars
<1>1. MCNext => [Update!Next]_otavars
  BY DEF MCNext, EdgeNext, ClockNext, edgevars, otavars
<1>2. QED  BY <1>1 DEF MCInit, EdgeInit, edgevars, otavars

LEMMA LimitSteps ==
  /\ MCInit => Limit!Init
  /\ [MCNext]_<<part, clockvars, edgevars>> => [Limit!Next]_Limit!ratevars
BY DEF MCInit, ClockInit, MCNext, EdgeNext, ClockNext, clockvars, limitvars, Limit!ratevars

LEMMA NameSteps ==
  /\ MCInit => Parser!FilterInit
  /\ [MCNext]_<<part, clockvars, edgevars>> => [Parser!FilterNext]_filter
BY DEF MCInit, EdgeInit, MCNext, EdgeNext, ClockNext, edgevars

LEMMA WireSteps ==
  /\ MCInit /\ part = "wire" => Parser!Init
  /\ [MCNext]_<<part, clockvars, edgevars>> =>
       part' = part /\ (part = "wire" => [Parser!Next]_Parser!wirevars)
<1>1. MCInit /\ part = "wire" => Parser!Init
  BY DEF MCInit, EdgeInit
<1>2. [MCNext]_<<part, clockvars, edgevars>> => part' = part
  BY DEF MCNext, EdgeNext, ClockNext
<1>3. [MCNext]_<<part, clockvars, edgevars>> /\ part = "wire" => [Parser!Next]_Parser!wirevars
  BY DEF MCNext, EdgeNext, edgevars, wirevars, Parser!wirevars
<1>4. QED  BY <1>1, <1>2, <1>3

\* The next boot finds a whole firmware, and an upload is written from its first byte, of
\* whatever pieces bodies are made (/ota-upload, /ota-url, /ota-rollback).
THEOREM UpdatesAlwaysWhole ==
  ASSUME NEW Pieces, Update!OtaAssumption(Pieces)
  PROVE  MCSpec => []UpdatesAreWhole
<1>1. MCSpec => Update!Spec
  BY UpdateSteps, PTL DEF MCSpec, Update!Spec, otavars, Update!vars
<1>2. Update!Spec => []Update!UpdatesAreWhole
  BY Update!UpdatesSafe
<1>3. Update!UpdatesAreWhole => UpdatesAreWhole
  BY DEF UpdatesAreWhole
<1>4. QED  BY <1>1, <1>2, <1>3, PTL

\* No source gets more answers in a window than its rate, and none is refused that got none
\* (ntp_rate_allow).
THEOREM NobodyGetsMore == MCSpec => []RateBounded
<1>1. MCSpec => Limit!Spec
  BY LimitSteps, PTL DEF MCSpec, Limit!Spec
<1>2. Limit!Spec => []Limit!RateBounded
  BY Limit!RateHolds, RateSizes
<1>3. Limit!RateBounded => RateBounded
  BY DEF RateBounded
<1>4. QED  BY <1>1, <1>2, <1>3, PTL

\* The walk over filter and topic decides as their levels do, of every length and whatever
\* their characters (mqtt_topic_matches).
THEOREM TopicsMatchByLevels == MCSpec => []MatchIsByLevels
<1>1. MCInit => filter \in Parser!Strings
  BY NameSteps, Parser!StringsAtFirst
<1>2. filter \in Parser!Strings /\ [MCNext]_<<part, clockvars, edgevars>> => (filter \in Parser!Strings)'
  BY NameSteps, Parser!StringsStay
<1>3. filter \in Parser!Strings => MatchIsByLevels
  BY Parser!WalkByLevels DEF MatchIsByLevels
<1>4. QED  BY <1>1, <1>2, <1>3, PTL DEF MCSpec

\* Of whatever packets, cut into whatever reads and for a buffer of whatever size: they are
\* handled in order, once and whole, no parser reads past the end of one, and the client is
\* dropped only for cause (process_client_data, mqtt_packet_length, the parsers).
THEOREM StreamsAreServed == MCSpec => []StreamServed
<1> DEFINE Inv == part = "wire" => Parser!StreamInv
<1>1. MCInit => Inv
  BY WireSteps, WireSizes, Parser!StreamInit
<1>2. Inv /\ [MCNext]_<<part, clockvars, edgevars>> => Inv'
  BY WireSteps, WireSizes, Parser!StreamStep
<1>3. Inv => StreamServed
  BY WireSizes, Parser!StreamHolds DEF StreamServed
<1>4. QED  BY <1>1, <1>2, <1>3, PTL DEF MCSpec

\* What the broker builds it can parse, for every length of topic and payload that its
\* buffers may be given, and no piece of a remaining length is taken for one
\* (mqtt_build_publish_ex, mqtt_encode_remaining_length, mqtt_decode_remaining_length).
THEOREM BuiltMessagesParse == MCSpec => []BuildsWhatItParses
<1>1. BuildsWhatItParses
  BY WireSizes, Parser!BuiltIsParsed DEF BuildsWhatItParses
<1>2. QED  BY <1>1, PTL

-----------------------------------------------------------------------------
(* The network.  As long as no link dropped and no reconnect was asked for: *)
(* the boot waits, or it has a station, or it has fallen back to an access  *)
(* point that nothing disturbs.                                             *)

Event == {"sta_start", "got_ip", "disconnected"}
Driver == [mode: Net!Modes, on: BOOLEAN, sta: {"down", "joining", "joined", "address"}]

Told(q) == \E i \in 1..Len(q) : q[i] = "got_ip"

FellBack == /\ driver.on /\ driver.mode \in Net!HasAp /\ driver.sta = "down"
            /\ ~handlers /\ Len(events) = 0

NetTypes == /\ driver \in Driver /\ events \in Seq(Event) /\ wifi_mode \in Net!Modes
            /\ pc \in {"wifi", "wait", "check", "eth", "run"}
            /\ http = "wait" => asked

Undisturbed ==
  /\ pc = "wifi" => driver.sta = "down" /\ group = Net!NoGroup /\ Len(events) = 0
  /\ pc \in {"wait", "check"} /\ (Told(events) \/ "connected" \in group) => Net!Joined
  /\ pc = "check" => Net!Joined \/ FellBack
  /\ pc = "eth" => IF fallback THEN FellBack ELSE Net!Joined
  /\ pc = "run" => IF fallback THEN FellBack ELSE Net!Joined \/ eth

NetInv == NetTypes /\ (~dropped /\ ~asked => Undisturbed)

LEMMA Told1 ==
  ASSUME NEW q \in Seq(Event), NEW e \in Event
  PROVE  /\ Append(q, e) \in Seq(Event)
         /\ Told(Append(q, e)) => Told(q) \/ e = "got_ip"
<1>1. /\ Append(q, e) \in Seq(Event) /\ Len(q) \in Nat /\ Len(Append(q, e)) = Len(q) + 1
      /\ \A i \in 1..Len(q) : Append(q, e)[i] = q[i]
      /\ Append(q, e)[Len(q) + 1] = e
  BY AppendProperties, LenProperties
<1>2. \A i \in 1..(Len(q) + 1) : i \in 1..Len(q) \/ i = Len(q) + 1
  BY <1>1
<1>3. QED  BY <1>1, <1>2 DEF Told

LEMMA Told2 ==
  ASSUME NEW q \in Seq(Event), q # <<>>
  PROVE  /\ Tail(q) \in Seq(Event) /\ Head(q) \in Event /\ Len(q) # 0
         /\ Told(Tail(q)) \/ Head(q) = "got_ip" => Told(q)
<1>1. /\ Tail(q) \in Seq(Event) /\ Head(q) \in Event /\ Len(q) \in Nat /\ Len(q) # 0
      /\ Len(Tail(q)) = Len(q) - 1 /\ Head(q) = q[1]
      /\ \A i \in 1..Len(Tail(q)) : Tail(q)[i] = q[i + 1]
  BY HeadTailProperties, LenProperties, EmptySeq
<1>2. 1 \in 1..Len(q) /\ \A i \in 1..Len(Tail(q)) : i + 1 \in 1..Len(q)
  BY <1>1
<1>3. QED  BY <1>1, <1>2 DEF Told

LEMMA NetInit == Net!Init => NetInv
<1> SUFFICES ASSUME Net!Init PROVE NetInv
  OBVIOUS
<1>1. events \in Seq(Event) /\ Len(events) = 0
  BY EmptySeq DEF Net!Init
<1>2. QED
  BY <1>1 DEF Net!Init, Net!Off, NetInv, NetTypes, Undisturbed, Driver, Net!Modes, Net!NoGroup

LEMMA DriverMoves ==
  ASSUME NEW d \in Driver
  PROVE  /\ \A s \in {"down", "joining", "joined", "address"} : LET e == [d EXCEPT !.sta = s] IN
              e \in Driver /\ e.sta = s /\ e.mode = d.mode /\ e.on = d.on
         /\ \A m \in Net!Modes : LET e == [d EXCEPT !.mode = m] IN
              e \in Driver /\ e.mode = m /\ e.sta = d.sta /\ e.on = d.on
         /\ \A b \in BOOLEAN : LET e == [d EXCEPT !.on = b] IN
              e \in Driver /\ e.on = b /\ e.sta = d.sta /\ e.mode = d.mode
BY DEF Driver

LEMMA Posts ==
  ASSUME NetTypes, NEW e \in Event
  PROVE  /\ Net!Posted(e) \in Seq(Event)
         /\ ~handlers => Net!Posted(e) = events
         /\ Told(Net!Posted(e)) => Told(events) \/ e = "got_ip"
BY Told1 DEF NetTypes, Net!Posted

\* The driver and the access point of the house.
LEMMA LinkKeeps ==
  ASSUME NetInv, Net!Join \/ Net!GotIp \/ Net!Drop \/ Net!EthLink
  PROVE  NetInv'
<1>1. NetTypes /\ driver \in Driver /\ events \in Seq(Event)
  BY DEF NetInv, NetTypes
<1>2. CASE Net!Join
  <2>1. driver' \in Driver /\ driver'.sta = "joined" /\ driver.sta = "joining"
        /\ driver'.mode = driver.mode /\ driver'.on = driver.on
    BY <1>1, <1>2, DriverMoves DEF Net!Join
  <2>2. UNCHANGED <<pc, http, wifi_mode, group, handlers, events, eth, fallback, dropped, asked>>
    BY <1>2 DEF Net!Join, Net!settings, Net!history
  <2>3. QED  BY <2>1, <2>2 DEF NetInv, NetTypes, Undisturbed, FellBack, Net!Joined
<1>3. CASE Net!GotIp
  <2>1. driver' \in Driver /\ driver'.sta = "address" /\ driver.sta = "joined"
        /\ driver'.mode = driver.mode /\ driver'.on = driver.on
    BY <1>1, <1>3, DriverMoves DEF Net!GotIp
  <2>2. UNCHANGED <<pc, http, wifi_mode, group, handlers, eth, fallback, dropped, asked>>
    BY <1>3 DEF Net!GotIp, Net!settings, Net!history
  <2>3. events' \in Seq(Event)
    BY <1>1, <1>3, Posts DEF Net!GotIp, Event
  <2>4. QED  BY <2>1, <2>2, <2>3 DEF NetInv, NetTypes, Undisturbed, FellBack, Net!Joined
<1>4. CASE Net!Drop
  <2>1. driver' \in Driver /\ driver'.sta = "down" /\ driver.sta # "down"
    BY <1>1, <1>4, DriverMoves DEF Net!Drop, Net!Alone
  <2>2. UNCHANGED <<pc, http, wifi_mode, group, handlers, eth, fallback, asked>>
        /\ (dropped' <=> dropped \/ Net!Joined)
    BY <1>4 DEF Net!Drop, Net!settings, Net!history
  <2>3. events' \in Seq(Event) /\ (Told(events') => Told(events))
    BY <1>1, <1>4, Posts DEF Net!Drop, Event
  <2>4. ~dropped' => ~dropped /\ ~Net!Joined
    BY <2>2
  <2>5. QED  BY <2>1, <2>2, <2>3, <2>4 DEF NetInv, NetTypes, Undisturbed, FellBack, Net!Joined
<1>5. CASE Net!EthLink
  <2>1. UNCHANGED <<pc, http, wifi_mode, group, handlers, driver, events, fallback, asked>>
        /\ pc = "run" /\ (~dropped' => ~dropped /\ ~eth)
    BY <1>5 DEF Net!EthLink, Net!settings
  <2>2. QED  BY <2>1 DEF NetInv, NetTypes, Undisturbed, FellBack, Net!Joined
<1>6. QED  BY <1>2, <1>3, <1>4, <1>5

\* The event task: what it tells app_main of an address was true when it came.
LEMMA HandleKeeps ==
  ASSUME NetInv, Net!Handle
  PROVE  NetInv'
<1>1. NetTypes /\ driver \in Driver /\ events \in Seq(Event) /\ events # <<>>
  BY DEF NetInv, NetTypes, Net!Handle
<1>2. /\ events' = Tail(events)
      /\ UNCHANGED <<pc, http, wifi_mode, handlers, eth, fallback, dropped, asked>>
  BY DEF Net!Handle, Net!settings
<1>3. /\ events' \in Seq(Event) /\ Len(events) # 0
      /\ Told(events') \/ Head(events) = "got_ip" => Told(events)
  BY <1>1, <1>2, Told2
<1>4. /\ driver' \in Driver
      /\ driver' = driver \/ ~Net!Joined
  <2>1. driver' = driver \/ (~Net!Joined /\ driver' = [driver EXCEPT !.sta = "joining"])
    BY DEF Net!Handle
  <2>2. [driver EXCEPT !.sta = "joining"] \in Driver
    BY <1>1, DriverMoves
  <2>3. QED  BY <1>1, <2>1, <2>2
<1>5. "connected" \in group' => "connected" \in group \/ Head(events) = "got_ip"
  <2> DEFINE e == Head(events)
             n == IF retries < RetriesMax THEN retries + 1 ELSE retries
             bit == CASE e = "got_ip" -> {"connected"}
                      [] e = "disconnected" /\ n < WifiMaxRetries -> {"fail"}
                      [] OTHER -> {}
  <2>1. group' = IF group = Net!NoGroup THEN group ELSE group \cup bit
    BY DEF Net!Handle
  <2> HIDE DEF n
  <2>2. e # "got_ip" => "connected" \notin bit
    OBVIOUS
  <2>3. QED  BY <2>1, <2>2
<1>6. ~dropped /\ ~asked => Undisturbed'
  <2>1. ~dropped /\ ~asked => pc # "wifi" /\ ~FellBack /\ Undisturbed
    BY <1>3 DEF NetInv, Undisturbed, FellBack
  <2>2. QED  BY <1>2, <1>3, <1>4, <1>5, <2>1 DEF Undisturbed, Net!Joined
<1>7. QED  BY <1>2, <1>3, <1>4, <1>6 DEF NetInv, NetTypes

\* app_main.
LEMMA BootKeeps ==
  ASSUME NetInv,
         Net!ConnectSta \/ Net!StaConnected \/ Net!Fallback \/ Net!CheckAp \/ Net!EthInit
  PROVE  NetInv'
<1>1. NetTypes /\ driver \in Driver /\ events \in Seq(Event)
  BY DEF NetInv, NetTypes
<1>2. CASE Net!ConnectSta
  <2>1. /\ pc = "wifi" /\ pc' = "wait" /\ group' = {}
        /\ UNCHANGED <<http, wifi_mode, eth, fallback, dropped, asked>>
    BY <1>2 DEF Net!ConnectSta, Net!Associate, Net!settings, Net!history
  <2>2. driver' \in Driver /\ driver'.sta = driver.sta
    <3> DEFINE d == [driver EXCEPT !.mode = "STA"]
    <3>1. d \in Driver /\ d.sta = driver.sta
      BY <1>1, DriverMoves DEF Net!Modes
    <3>2. driver' = [d EXCEPT !.on = TRUE]
      BY <1>2 DEF Net!ConnectSta, Net!Associate
    <3> HIDE DEF d
    <3>3. QED  BY <3>1, <3>2, DriverMoves
  <2>3. events' = events \/ events' = Append(events, "sta_start")
    BY <1>2 DEF Net!ConnectSta, Net!Associate
  <2>4. events' \in Seq(Event) /\ (Told(events') => Told(events))
    BY <1>1, <2>3, Told1 DEF Event
  <2>5. ~dropped /\ ~asked => ~Told(events)
    BY <1>1, <2>1, LenProperties DEF NetInv, Undisturbed, Told
  <2>6. QED  BY <1>1, <2>1, <2>2, <2>4, <2>5 DEF NetInv, NetTypes, Undisturbed
<1>3. CASE Net!StaConnected
  <2>1. /\ pc = "wait" /\ pc' = "check" /\ "connected" \in group
        /\ UNCHANGED <<http, wifi_mode, group, handlers, driver, events, eth, fallback, dropped, asked>>
    BY <1>3 DEF Net!StaConnected, Net!Woken, Net!settings, Net!history
  <2>2. QED  BY <2>1 DEF NetInv, NetTypes, Undisturbed, Net!Joined
<1>4. CASE Net!Fallback
  <2>1. /\ pc' = "check" /\ group' = Net!NoGroup /\ events' = <<>> /\ ~handlers'
        /\ wifi_mode' \in {"APSTA", "AP"}
        /\ driver' = [mode |-> wifi_mode', on |-> TRUE, sta |-> "down"]
        /\ UNCHANGED <<http, fallback, dropped, asked>>
    BY <1>4 DEF Net!Fallback, Net!settings, Net!history
  <2>2. driver' \in Driver /\ driver'.on /\ driver'.mode \in Net!HasAp /\ driver'.sta = "down"
        /\ wifi_mode' \in Net!Modes
    BY <2>1 DEF Driver, Net!Modes, Net!HasAp
  <2>3. events' \in Seq(Event) /\ Len(events') = 0 /\ ~Told(events')
    BY <2>1, EmptySeq DEF Told
  <2>4. "connected" \notin group'
    BY <2>1 DEF Net!NoGroup
  <2>5. QED  BY <2>1, <2>2, <2>3, <2>4 DEF NetInv, NetTypes, Undisturbed, FellBack
<1>5. CASE Net!CheckAp
  <2>1. /\ pc = "check" /\ pc' = "eth" /\ fallback' = ~Net!Joined
        /\ \/ UNCHANGED <<wifi_mode, driver>>
           \/ Net!Joined /\ wifi_mode' = "APSTA" /\ driver' = [driver EXCEPT !.mode = "APSTA"]
        /\ UNCHANGED <<http, handlers, events, dropped, asked>>
    BY <1>5 DEF Net!CheckAp
  <2>2. driver' \in Driver /\ wifi_mode' \in Net!Modes /\ driver'.sta = driver.sta
        /\ (~Net!Joined => driver' = driver)
    <3>1. "APSTA" \in Net!Modes
      BY DEF Net!Modes
    <3>2. [driver EXCEPT !.mode = "APSTA"] \in Driver /\ [driver EXCEPT !.mode = "APSTA"].sta = driver.sta
      BY <1>1, <3>1 DEF Driver
    <3>3. QED  BY <1>1, <2>1, <3>1, <3>2 DEF NetTypes
  <2>3. (fallback' => ~Net!Joined) /\ (~fallback' => Net!Joined)
    BY <2>1
  <2>4. Net!Joined' <=> Net!Joined
    BY <2>2 DEF Net!Joined
  <2>5. QED  BY <1>1, <2>1, <2>2, <2>3, <2>4 DEF NetInv, NetTypes, Undisturbed, FellBack
<1>6. CASE Net!EthInit
  <2>1. /\ pc = "eth" /\ pc' = "run" /\ UNCHANGED <<http, handlers, fallback, dropped, asked>>
        /\ \/ UNCHANGED <<wifi_mode, driver, events>>
           \/ /\ eth' /\ Net!Joined
              /\ wifi_mode' \in {"AP", "NULL"}
              /\ driver' = [driver EXCEPT !.mode = wifi_mode', !.sta = "down"]
              /\ events' = Net!Posted("disconnected")
    BY <1>6 DEF Net!EthInit, Net!settings, Net!history
  <2>2. CASE UNCHANGED <<wifi_mode, driver, events>>
    BY <2>1, <2>2 DEF NetInv, NetTypes, Undisturbed, FellBack, Net!Joined
  <2>3. CASE ~UNCHANGED <<wifi_mode, driver, events>>
    <3>1. driver' \in Driver /\ wifi_mode' \in Net!Modes
      <4> DEFINE d == [driver EXCEPT !.mode = wifi_mode']
      <4>1. d \in Driver /\ wifi_mode' \in Net!Modes
        BY <1>1, <2>1, <2>3, DriverMoves DEF Net!Modes
      <4>2. driver' = [d EXCEPT !.sta = "down"]
        BY <2>1, <2>3
      <4> HIDE DEF d
      <4>3. QED  BY <4>1, <4>2, DriverMoves
    <3>2. events' \in Seq(Event)
      BY <1>1, <2>1, <2>3, Posts DEF Event
    <3>3. Net!Joined /\ eth' /\ ~FellBack
      BY <2>1, <2>3 DEF Net!Joined, FellBack
    <3>4. QED  BY <1>1, <2>1, <3>1, <3>2, <3>3 DEF NetInv, NetTypes, Undisturbed
  <2>4. QED  BY <2>2, <2>3
<1>7. QED  BY <1>2, <1>3, <1>4, <1>5, <1>6

\* The portal, and a restart.
LEMMA PortalKeeps ==
  ASSUME NetInv,
         \/ Net!Reconnect \/ Net!Reconnected \/ Net!ApToggle \/ Net!ClearWifi
         \/ Net!ApPreference \/ Net!Restart
  PROVE  NetInv'
<1>1. NetTypes /\ driver \in Driver /\ events \in Seq(Event)
  BY DEF NetInv, NetTypes
<1>2. CASE Net!Reconnect
  <2>1. asked' /\ UNCHANGED <<pc, wifi_mode>>
    BY <1>2 DEF Net!Reconnect
  <2>2. driver' \in Driver
    <3> DEFINE d == [driver EXCEPT !.mode = "STA"]
    <3>1. d \in Driver
      BY <1>1, DriverMoves DEF Net!Modes
    <3>2. driver' = [d EXCEPT !.on = TRUE]
      BY <1>2 DEF Net!Reconnect, Net!Associate
    <3> HIDE DEF d
    <3>3. QED  BY <3>1, <3>2, DriverMoves
  <2>3. events' = events \/ events' = Append(events, "sta_start")
    BY <1>2 DEF Net!Reconnect, Net!Associate
  <2>4. events' \in Seq(Event)
    BY <1>1, <2>3, Told1 DEF Event
  <2>5. QED  BY <1>1, <2>1, <2>2, <2>4 DEF NetInv, NetTypes
<1>3. CASE Net!Reconnected
  <2>1. http = "wait" /\ http' = "idle" /\ UNCHANGED <<pc, wifi_mode, asked>>
    BY <1>3 DEF Net!Reconnected, Net!settings, Net!history
  <2>2. driver' = driver \/ driver' = [Net!Alone(driver) EXCEPT !.on = FALSE]
    BY <1>3 DEF Net!Reconnected
  <2>3. Net!Alone(driver) \in Driver
    BY <1>1, DriverMoves DEF Net!Alone
  <2>4. driver' \in Driver
    <3>1. [Net!Alone(driver) EXCEPT !.on = FALSE] \in Driver
      BY <2>3, DriverMoves
    <3>2. QED  BY <1>1, <2>2, <3>1
  <2>5. events' = events \/ events' = Net!Posted("disconnected")
    BY <1>3 DEF Net!Reconnected
  <2>6. events' \in Seq(Event)
    BY <1>1, <2>5, Posts DEF Event
  <2>7. QED  BY <1>1, <2>1, <2>4, <2>6 DEF NetInv, NetTypes
<1>4. CASE Net!ApToggle \/ Net!ClearWifi
  <2>1. UNCHANGED <<pc, http, wifi_mode, group, handlers, driver, events, eth, fallback, dropped, asked>>
    BY <1>4 DEF Net!ApToggle, Net!ClearWifi, Net!history
  <2>2. QED  BY <2>1 DEF NetInv, NetTypes, Undisturbed, FellBack, Net!Joined
<1>5. CASE Net!ApPreference
  <2>1. /\ pc \in {"eth", "run"} /\ http' = "restart"
        /\ UNCHANGED <<pc, handlers, events, eth, fallback, dropped, asked>>
        /\ \/ UNCHANGED <<wifi_mode, driver>>
           \/ /\ Net!Joined /\ wifi_mode' \in {"APSTA", "STA"}
              /\ driver' = [driver EXCEPT !.mode = wifi_mode']
    BY <1>5 DEF Net!ApPreference, Net!Serving, Net!history
  <2>2. /\ driver' \in Driver /\ wifi_mode' \in Net!Modes
        /\ driver' = driver \/ (Net!Joined /\ driver'.sta = driver.sta)
    <3>1. CASE UNCHANGED <<wifi_mode, driver>>
      BY <1>1, <3>1 DEF NetTypes
    <3>2. CASE ~UNCHANGED <<wifi_mode, driver>>
      <4>1. wifi_mode' \in Net!Modes /\ Net!Joined
            /\ driver' = [driver EXCEPT !.mode = wifi_mode']
        BY <2>1, <3>2 DEF Net!Modes
      <4>2. ASSUME NEW m \in Net!Modes
            PROVE  [driver EXCEPT !.mode = m] \in Driver /\ [driver EXCEPT !.mode = m].sta = driver.sta
        BY <1>1 DEF Driver
      <4>3. QED  BY <4>1, <4>2
    <3>3. QED  BY <3>1, <3>2
  <2>3. Net!Joined => ~FellBack
    BY DEF Net!Joined, FellBack
  <2>4. Net!Joined' <=> Net!Joined
    BY <2>2 DEF Net!Joined
  <2>5. QED
    BY <1>1, <2>1, <2>2, <2>3, <2>4 DEF NetInv, NetTypes, Undisturbed, FellBack
<1>6. CASE Net!Restart
  <2>1. events' \in Seq(Event) /\ Len(events') = 0
    BY <1>6, EmptySeq DEF Net!Restart
  <2>2. QED
    BY <1>6, <2>1 DEF Net!Restart, Net!Off, NetInv, NetTypes, Undisturbed, Driver, Net!Modes
<1>7. QED  BY <1>2, <1>3, <1>4, <1>5, <1>6

LEMMA NetSteps ==
  /\ MCInit => Net!Init
  /\ [MCNext]_<<part, clockvars, edgevars>> => [Net!Next]_netvars
<1>1. MCNext => [Net!Next]_netvars
  BY DEF MCNext, EdgeNext, ClockNext, edgevars, netvars
<1>2. QED  BY <1>1 DEF MCInit, EdgeInit, edgevars, netvars

\* A boot ends with a way to reach the device, unless a link dropped meanwhile or a
\* reconnect was asked for (app_main, wifi_connect_sta, eth_init).
THEOREM BootsEndReachable == MCSpec => []BootsReachable
<1>1. NetInv /\ [Net!Next]_netvars => NetInv'
  <2>1. NetInv /\ UNCHANGED netvars => NetInv'
    BY DEF netvars, NetInv, NetTypes, Undisturbed, FellBack, Net!Joined
  <2>2. NetInv /\ Net!Next => NetInv'
    BY LinkKeeps, HandleKeeps, BootKeeps, PortalKeeps DEF Net!Next
  <2>3. QED  BY <2>1, <2>2
<1>2. NetInv => BootsReachable
  BY DEF NetInv, Undisturbed, FellBack, BootsReachable, Net!BootsReachable, Net!Reachable
<1>3. QED  BY <1>1, <1>2, NetInit, NetSteps, PTL DEF MCSpec

-----------------------------------------------------------------------------
(* Arithmetic of the drift. *)

\* Division rounds by less than the divisor.
LEMMA DivideWithin ==
  ASSUME NEW a \in Nat, NEW b \in Nat \ {0}
  PROVE  a \div b \in Nat /\ (a \div b) * b <= a /\ a < (a \div b) * b + b
<1>1. a = b * (a \div b) + (a % b) /\ a % b \in 0..(b - 1) /\ a \div b \in Int
  OBVIOUS
<1>2. QED  BY <1>1

LEMMA QuotientWithin ==
  ASSUME NEW a \in Int, NEW b \in Nat \ {0}
  PROVE  /\ Sntp!Quotient(a, b) \in Int
         /\ a - b < Sntp!Quotient(a, b) * b /\ Sntp!Quotient(a, b) * b < a + b
<1>1. CASE a >= 0
  <2>1. a \in Nat /\ Sntp!Quotient(a, b) = a \div b
    BY <1>1 DEF Sntp!Quotient
  <2>2. QED  BY <2>1, DivideWithin
<1>2. CASE ~(a >= 0)
  <2>1. -a \in Nat /\ Sntp!Quotient(a, b) = -((-a) \div b)
    BY <1>2 DEF Sntp!Quotient
  <2> DEFINE q == (-a) \div b
  <2>2. q \in Nat /\ q * b <= -a /\ -a < q * b + b
    BY <2>1, DivideWithin
  <2>3. Sntp!Quotient(a, b) = -q
    BY <2>1
  <2> HIDE DEF q
  <2>4. (-q) * b = -(q * b) /\ q * b \in Int
    BY <2>2
  <2>5. QED  BY <2>2, <2>3, <2>4
<1>3. QED  BY <1>1, <1>2

LEMMA DivideExact ==
  ASSUME NEW k \in Int, NEW u \in Nat \ {0}
  PROVE  (k * u) \div u = k
<1> DEFINE m == k * u  q == m \div u  r == m % u
<1>1. m \in Int
  OBVIOUS
<1>2. m = u * q + r /\ r \in 0..(u - 1) /\ q \in Int
  BY <1>1
<1>3. m = k * u
  OBVIOUS
<1> HIDE DEF m, q, r
<1>4. (k - q) * u = r
  BY <1>1, <1>2, <1>3
<1>5. k - q >= 1 => (k - q) * u >= u
  BY <1>2
<1>6. k - q <= -1 => (k - q) * u <= -u
  BY <1>2
<1>7. k = q
  BY <1>2, <1>4, <1>5, <1>6
<1>8. QED  BY <1>7 DEF q, m

\* An estimate that is not clamped is as near to the oscillator's drift as the errors of
\* the two answers and the rounding leave it.
LEMMA EstimateNear ==
  ASSUME NEW unit \in Nat \ {0}, NEW k \in Int, NEW u \in Nat \ {0}, NEW e \in Int,
         NEW spread \in Int, -spread <= e, e <= spread, k * u > 0,
         NEW p, p = Sntp!Quotient((k * unit + e - k * u) * unit, k * u)
  PROVE  Sntp!Abs(p * (k * u) - (k * unit - k * u) * unit) <= spread * unit + k * u
<1> DEFINE d == k * u  w == k * unit  a == (w + e - d) * unit
<1>1. d \in Nat \ {0} /\ w \in Int
  OBVIOUS
<1> HIDE DEF d, w
<1>2. a \in Int
  BY <1>1
<1>3. p \in Int /\ a - d < p * d /\ p * d < a + d
  <2>1. p = Sntp!Quotient(a, d)
    BY DEF d, w
  <2> HIDE DEF a
  <2>2. QED  BY <1>1, <1>2, <2>1, QuotientWithin
<1>4. a = (w - d) * unit + e * unit /\ (w - d) * unit \in Int /\ e * unit \in Int
  BY <1>1
<1>5. -(spread * unit) <= e * unit /\ e * unit <= spread * unit /\ spread * unit \in Int
  <2>1. (spread - e) * unit >= 0 /\ (spread + e) * unit >= 0
    OBVIOUS
  <2>2. (spread - e) * unit = spread * unit - e * unit /\ (spread + e) * unit = spread * unit + e * unit
    OBVIOUS
  <2>3. QED  BY <2>1, <2>2
<1> DEFINE x == p * d  y == (w - d) * unit  z == e * unit  s == spread * unit
<1>6. x \in Int /\ y \in Int /\ z \in Int /\ s \in Int /\ y + z - d < x /\ x < y + z + d
      /\ -s <= z /\ z <= s
  BY <1>1, <1>3, <1>4, <1>5
<1> HIDE DEF x, y, z, s
<1>7. x - y \in Int /\ x - y <= s + d /\ -(x - y) <= s + d
  BY <1>1, <1>6
<1>8. Sntp!Abs(x - y) <= s + d
  BY <1>7 DEF Sntp!Abs
<1>9. QED  BY <1>8 DEF x, y, s, d, w

\* The largest difference of two errors.
LEMMA SpreadIsMax ==
  ASSUME Sntp!NtpAssumption, NEW a \in Noises, NEW b \in Noises
  PROVE  LET spread == Sntp!Max({x - y : x, y \in Noises})
         IN  spread \in Int /\ a - b <= spread /\ -(a - b) <= spread
<1> DEFINE D == {x - y : x, y \in Noises}
<1>1. Noises \subseteq Int
  BY DEF Sntp!NtpAssumption
<1>2. PICK low \in Noises, high \in Noises : \A e \in Noises : low <= e /\ e <= high
  BY DEF Sntp!NtpAssumption
<1>3. \A x, y \in Noises : x - y <= high - low
  BY <1>1, <1>2
<1>4. high - low \in D /\ a - b \in D /\ b - a \in D /\ D \subseteq Int
  BY <1>1
<1>5. \A z \in D : high - low >= z
  BY <1>1, <1>3
<1> HIDE DEF D
<1>6. Sntp!Max(D) \in D /\ \A z \in D : Sntp!Max(D) >= z
  BY <1>4, <1>5 DEF Sntp!Max
<1>7. Sntp!Max(D) \in Int /\ a - b <= Sntp!Max(D) /\ b - a <= Sntp!Max(D)
  BY <1>4, <1>6
<1>8. QED  BY <1>1, <1>7 DEF D

-----------------------------------------------------------------------------
(* The ring of sync points.  history holds them all: the ring holds the last of them, in
   the order of its places from head on. *)

At == Len(history)
Point == [mono : Int, wall : Int]

\* A sync is at a tick, and no further from the truth than an upstream's error.
SyncPoint(s) ==
  \E t \in 0..ticks, e \in Noises : s.mono = t * (Unit + osc) /\ s.wall = Epoch + t * Unit + e

SyncInv ==
  /\ ticks \in 0..NtpTimeMax /\ osc \in Oscillators /\ offset \in Int
  /\ sync \in {"none", "set", "flagged"} /\ synced \in BOOLEAN
  /\ history \in Seq(Point)
  /\ \A i \in 1..At : SyncPoint(history[i])
  /\ sync # "none" => SyncPoint([mono |-> Sntp!mono, wall |-> Sntp!wall])

RingInv ==
  /\ count = IF At < Ring THEN At ELSE Ring
  /\ head \in 0..(Ring - 1) /\ head <= At /\ (At < Ring => head = At)
  /\ DOMAIN ring = 0..(Ring - 1)
  /\ \A i \in 0..(head - 1) : ring[i] = history[At - head + 1 + i]
  /\ At >= Ring => \A i \in head..(Ring - 1) : ring[i] = history[At - head - Ring + 1 + i]

\* Where the longest baseline begins.
First(n) == IF n > Ring THEN n - Ring + 1 ELSE 1

EstimateInv ==
  ppm = IF At < 2 THEN Sntp!Unknown
        ELSE Sntp!Estimate(history[At].mono - history[First(At)].mono,
                           history[At].wall - history[First(At)].wall)

LEMMA NtpConstants ==
  ASSUME Sntp!NtpAssumption
  PROVE  /\ Unit \in Nat /\ Unit > 0 /\ Poll \in Nat /\ Ring \in Nat /\ Ring > 1
         /\ MinBase \in Nat /\ MinBase > 0 /\ Clamp \in Nat
         /\ Epoch \in Nat /\ NtpTimeMax \in Nat /\ Noises \subseteq Int
         /\ \A o \in Oscillators : o \in Int /\ Unit + o > 0
<1>1. /\ Unit \in Nat \ {0} /\ Poll \in Nat /\ Ring \in Nat \ {0, 1} /\ MinBase \in Nat \ {0}
      /\ Clamp \in Nat /\ Epoch \in Nat /\ NtpTimeMax \in Nat /\ Noises \subseteq Int
  BY DEF Sntp!NtpAssumption
<1>2. Oscillators \subseteq Int /\ \A o \in Oscillators : Unit + o > 0
  BY DEF Sntp!NtpAssumption
<1>3. QED  BY <1>1, <1>2

LEMMA NextPlace ==
  ASSUME NEW n \in Nat, n > 1, NEW h \in 0..(n - 1)
  PROVE  (h + 1) % n = IF h + 1 = n THEN 0 ELSE h + 1
<1>1. CASE h + 1 = n
  <2>1. n % n = 0
    OBVIOUS
  <2>2. QED  BY <1>1, <2>1
<1>2. CASE h + 1 # n
  <2>1. h + 1 \in 0..(n - 1)
    BY <1>2
  <2>2. \A m \in 0..(n - 1) : m % n = m
    OBVIOUS
  <2>3. QED  BY <1>2, <2>1, <2>2
<1>3. QED  BY <1>1, <1>2

LEMMA FirstOfRing ==
  ASSUME NEW n \in Int, Ring \in Int, n >= Ring
  PROVE  First(n) = n - Ring + 1
BY DEF First

LEMMA RingNote ==
  ASSUME Sntp!NtpAssumption, SyncInv, RingInv, Sntp!Note
  PROVE  RingInv' /\ EstimateInv'
<1> DEFINE s == [mono |-> Sntp!mono, wall |-> Sntp!wall]
           oldest == IF count' = Ring THEN (head + 1) % Ring ELSE 0
<1>1. Ring \in Nat /\ Ring > 1
  BY NtpConstants
<1>2. At \in Nat /\ s \in Point /\ history \in Seq(Point)
  <2>1. ticks \in Int /\ Unit \in Int /\ osc \in Int /\ offset \in Int
    BY NtpConstants DEF SyncInv
  <2>2. Sntp!mono \in Int
    BY <2>1 DEF Sntp!mono
  <2>3. Sntp!wall \in Int
    BY <2>1, <2>2 DEF Sntp!wall
  <2>4. QED  BY <2>2, <2>3 DEF SyncInv, Point, At
<1> HIDE DEF s
<1>3. /\ history' = Append(history, s) /\ ring' = [ring EXCEPT ![head] = s]
      /\ head' = (head + 1) % Ring /\ count' = IF count < Ring THEN count + 1 ELSE count
      /\ ppm' = IF count' < 2 THEN Sntp!Unknown
                ELSE Sntp!Estimate(s.mono - ring'[oldest].mono, s.wall - ring'[oldest].wall)
  BY DEF Sntp!Note, Sntp!Record, Sntp!Oldest, s
<1>4. At' = At + 1 /\ history'[At + 1] = s /\ \A i \in 1..At : history'[i] = history[i]
  BY <1>2, <1>3 DEF At
<1>5. head \in 0..(Ring - 1) /\ head' = IF head + 1 = Ring THEN 0 ELSE head + 1
  BY <1>1, <1>3, NextPlace DEF RingInv
<1>6. /\ DOMAIN ring' = 0..(Ring - 1) /\ ring'[head] = s
      /\ \A i \in 0..(Ring - 1) : i # head => ring'[i] = ring[i]
  BY <1>3, <1>5 DEF RingInv
<1>7. head <= At /\ (At < Ring => head = At) /\ count = IF At < Ring THEN At ELSE Ring
  BY DEF RingInv
<1>8. count' = IF At' < Ring THEN At' ELSE Ring
  BY <1>1, <1>2, <1>3, <1>4, <1>7
<1>9. head' \in 0..(Ring - 1) /\ head' <= At' /\ (At' < Ring => head' = At')
  BY <1>1, <1>2, <1>4, <1>5, <1>7
<1>10. \A i \in 0..(head' - 1) : ring'[i] = history'[At' - head' + 1 + i]
  <2> SUFFICES ASSUME NEW i \in 0..(head' - 1) PROVE ring'[i] = history'[At' - head' + 1 + i]
    OBVIOUS
  <2>1. head' = head + 1 /\ At' - head' + 1 + i = At - head + 1 + i
    BY <1>1, <1>2, <1>4, <1>5
  <2>2. CASE i = head
    <3>1. At - head + 1 + i = At + 1
      BY <1>2, <1>5, <2>2
    <3>2. QED  BY <1>4, <1>6, <2>1, <2>2, <3>1
  <2>3. CASE i # head
    <3>1. i \in 0..(head - 1) /\ At - head + 1 + i \in 1..At /\ i \in 0..(Ring - 1)
      BY <1>1, <1>2, <1>5, <1>7, <2>1, <2>3
    <3>2. ring[i] = history[At - head + 1 + i]
      BY <3>1 DEF RingInv
    <3>3. QED  BY <1>4, <1>6, <2>1, <2>3, <3>1, <3>2
  <2>4. QED  BY <2>2, <2>3
<1>11. ASSUME At' >= Ring, NEW i \in head'..(Ring - 1)
       PROVE  ring'[i] = history'[At' - head' - Ring + 1 + i]
  <2>1. CASE head + 1 = Ring
    <3>1. head' = 0 /\ At' - head' - Ring + 1 + i = At - head + 1 + i
      BY <1>1, <1>2, <1>4, <1>5, <2>1
    <3>2. CASE i = head
      <4>1. At - head + 1 + i = At + 1
        BY <1>2, <1>5, <3>2
      <4>2. QED  BY <1>4, <1>6, <3>1, <3>2, <4>1
    <3>3. CASE i # head
      <4>1. i \in 0..(head - 1) /\ At - head + 1 + i \in 1..At /\ i \in 0..(Ring - 1)
        BY <1>1, <1>2, <1>5, <1>7, <1>11, <2>1, <3>1, <3>3
      <4>2. ring[i] = history[At - head + 1 + i]
        BY <4>1 DEF RingInv
      <4>3. QED  BY <1>4, <1>6, <3>1, <3>3, <4>1, <4>2
    <3>4. QED  BY <3>2, <3>3
  <2>2. CASE head + 1 # Ring
    <3>1. head' = head + 1 /\ At >= Ring /\ At' - head' - Ring + 1 + i = At - head - Ring + 1 + i
      BY <1>1, <1>2, <1>4, <1>5, <1>7, <1>11, <2>2
    <3>2. i \in head..(Ring - 1) /\ i # head /\ At - head - Ring + 1 + i \in 1..At /\ i \in 0..(Ring - 1)
      BY <1>1, <1>2, <1>5, <1>11, <3>1
    <3>3. ring[i] = history[At - head - Ring + 1 + i]
      BY <3>1, <3>2 DEF RingInv
    <3>4. QED  BY <1>4, <1>6, <3>1, <3>2, <3>3
  <2>3. QED  BY <2>1, <2>2
<1>12. RingInv'
  BY <1>6, <1>8, <1>9, <1>10, <1>11 DEF RingInv
<1>13. ring'[oldest] = history'[First(At')]
  <2>1. CASE At' >= Ring
    <3>1. count' = Ring /\ At' \in Int /\ head' \in head'..(Ring - 1)
      BY <1>1, <1>2, <1>4, <1>8, <1>9, <2>1
    <3>2. First(At') = At' - Ring + 1
      BY <1>1, <2>1, <3>1, FirstOfRing
    <3>3. At' - Ring + 1 = At' - head' - Ring + 1 + head'
      BY <1>1, <1>9, <3>1
    <3>4. QED  BY <1>3, <1>11, <2>1, <3>1, <3>2, <3>3
  <2>2. CASE At' < Ring
    <3>1. count' # Ring /\ First(At') = At' - head' + 1 + 0 /\ 0 \in 0..(head' - 1)
      BY <1>1, <1>2, <1>4, <1>8, <1>9, <2>2 DEF First
    <3>2. QED  BY <1>10, <3>1
  <2>3. QED  BY <1>1, <1>2, <1>4, <2>1, <2>2
<1>14. count' < 2 <=> At' < 2
  BY <1>1, <1>2, <1>4, <1>8
<1> HIDE DEF oldest
<1>15. EstimateInv'
  <2>1. history'[At'] = s
    BY <1>4
  <2>2. ppm' = IF At' < 2 THEN Sntp!Unknown
               ELSE Sntp!Estimate(history'[At'].mono - history'[First(At')].mono,
                                  history'[At'].wall - history'[First(At')].wall)
    <3>1. CASE At' < 2
      BY <1>3, <1>14, <3>1
    <3>2. CASE ~(At' < 2)
      <4>1. ppm' = Sntp!Estimate(s.mono - ring'[oldest].mono, s.wall - ring'[oldest].wall)
        BY <1>3, <1>14, <3>2
      <4>2. QED  BY <1>13, <2>1, <3>2, <4>1
    <3>3. QED  BY <3>1, <3>2
  <2>3. QED  BY <2>2 DEF EstimateInv
<1>16. QED  BY <1>12, <1>15

-----------------------------------------------------------------------------
(* The syncs, their points and the estimate. *)

LEMMA PointStays ==
  ASSUME SyncInv, ticks' \in Nat, ticks' >= ticks, UNCHANGED <<osc, history>>
  PROVE  (\A i \in 1..At : SyncPoint(history[i]))'
<1>1. 0..ticks \subseteq 0..ticks'
  BY DEF SyncInv
<1>2. \A i \in 1..At : SyncPoint(history[i])
  BY DEF SyncInv
<1>3. QED  BY <1>1, <1>2 DEF SyncPoint, At

LEMMA SyncStep ==
  Sntp!NtpAssumption /\ SyncInv /\ [Sntp!Next]_Sntp!ntpvars => SyncInv'
<1> SUFFICES ASSUME Sntp!NtpAssumption, SyncInv, [Sntp!Next]_Sntp!ntpvars PROVE SyncInv'
  OBVIOUS
<1>1. /\ ticks \in Nat /\ ticks <= NtpTimeMax /\ NtpTimeMax \in Nat /\ osc \in Int /\ offset \in Int
      /\ Unit \in Int /\ Epoch \in Int /\ Noises \subseteq Int /\ osc \in Oscillators
  BY NtpConstants DEF SyncInv
<1>2. Sntp!mono \in Int /\ Sntp!mono = ticks * (Unit + osc) /\ Sntp!wall \in Int
  <2>1. ticks * (Unit + osc) \in Int
    BY <1>1
  <2>2. QED  BY <1>1, <2>1 DEF Sntp!mono, Sntp!wall
<1>3. ASSUME NEW noise \in Noises, Sntp!SetTime(noise)
      PROVE  SyncInv'
  <2>1. /\ UNCHANGED <<ticks, osc, synced, history>> /\ sync' = "set"
        /\ offset' = Sntp!True + noise - Sntp!mono
    BY <1>3 DEF Sntp!SetTime
  <2>2. Sntp!True \in Int /\ Sntp!True = Epoch + ticks * Unit
    <3>1. ticks * Unit \in Int
      BY <1>1
    <3>2. QED  BY <1>1, <3>1 DEF Sntp!True
  <2>3. offset' \in Int
    BY <1>1, <1>2, <2>1, <2>2
  <2>4. Sntp!mono' = ticks * (Unit + osc)
    BY <2>1 DEF Sntp!mono
  <2>5. Sntp!wall' = Epoch + ticks * Unit + noise
    <3>1. Sntp!wall' = Sntp!mono + offset'
      BY <1>2, <2>4 DEF Sntp!wall
    <3>2. noise \in Int
      BY <1>1
    <3>3. QED  BY <1>2, <2>1, <2>2, <3>1, <3>2
  <2>6. SyncPoint([mono |-> Sntp!mono, wall |-> Sntp!wall])'
    <3>1. ticks \in 0..ticks'
      BY <1>1, <2>1
    <3>2. QED  BY <2>1, <2>4, <2>5, <3>1 DEF SyncPoint
  <2>7. (\A i \in 1..At : SyncPoint(history[i]))'
    BY <1>1, <2>1, PointStays
  <2>8. QED  BY <2>1, <2>3, <2>6, <2>7 DEF SyncInv
<1>4. CASE Sntp!Flag
  <2>1. UNCHANGED <<ticks, osc, offset, history>> /\ sync = "set" /\ sync' = "flagged" /\ synced' = TRUE
    BY <1>4 DEF Sntp!Flag
  <2>2. SyncPoint([mono |-> Sntp!mono, wall |-> Sntp!wall])'
    BY <2>1 DEF SyncInv, SyncPoint, Sntp!mono, Sntp!wall
  <2>3. (\A i \in 1..At : SyncPoint(history[i]))'
    BY <1>1, <2>1, PointStays
  <2>4. QED  BY <2>1, <2>2, <2>3 DEF SyncInv
<1>5. CASE Sntp!Note
  <2> DEFINE s == [mono |-> Sntp!mono, wall |-> Sntp!wall]
  <2>1. /\ UNCHANGED <<ticks, osc, offset, synced>> /\ sync = "flagged" /\ sync' = "none"
        /\ history' = Append(history, s)
    BY <1>5 DEF Sntp!Note
  <2>2. s \in Point /\ SyncPoint(s)
    BY <1>2, <2>1 DEF Point, SyncInv
  <2> HIDE DEF s
  <2>3. /\ history' \in Seq(Point) /\ Len(history') = Len(history) + 1 /\ Len(history) \in Nat
        /\ history'[Len(history) + 1] = s /\ \A i \in 1..Len(history) : history'[i] = history[i]
    BY <2>1, <2>2 DEF SyncInv
  <2>4. \A i \in 1..Len(history') : i = Len(history) + 1 \/ i \in 1..Len(history)
    BY <2>3
  <2>5. \A i \in 1..Len(history') : SyncPoint(history'[i])
    BY <2>2, <2>3, <2>4 DEF SyncInv, At
  <2>6. (\A i \in 1..At : SyncPoint(history[i]))'
    BY <2>1, <2>5 DEF SyncPoint, At
  <2>7. QED  BY <2>1, <2>3, <2>6 DEF SyncInv
<1>6. CASE Sntp!NtpTick
  <2>1. UNCHANGED <<osc, offset, sync, synced, history>> /\ sync = "none" /\ ticks' = ticks + 1
        /\ ticks < NtpTimeMax
    BY <1>6 DEF Sntp!NtpTick
  <2>2. ticks' \in 0..NtpTimeMax /\ ticks' \in Nat /\ ticks' >= ticks
    BY <1>1, <2>1
  <2>3. (\A i \in 1..At : SyncPoint(history[i]))'
    BY <1>1, <2>1, <2>2, PointStays
  <2>4. QED  BY <2>1, <2>2, <2>3 DEF SyncInv
<1>7. CASE UNCHANGED <<ticks, osc, offset, sync, synced, history>>
  <2>1. (\A i \in 1..At : SyncPoint(history[i]))'
    BY <1>1, <1>7, PointStays
  <2>2. (sync # "none" => SyncPoint([mono |-> Sntp!mono, wall |-> Sntp!wall]))'
    BY <1>7 DEF SyncInv, SyncPoint, Sntp!mono, Sntp!wall
  <2>3. QED  BY <1>7, <2>1, <2>2 DEF SyncInv
<1>8. QED
  BY <1>3, <1>4, <1>5, <1>6, <1>7 DEF Sntp!Next, Sntp!Receive, Sntp!Snapshot, Sntp!Stratum,
     Sntp!Stamp, Sntp!Send, Sntp!ntpvars

LEMMA RingStep ==
  Sntp!NtpAssumption /\ SyncInv /\ RingInv /\ EstimateInv /\ [Sntp!Next]_Sntp!ntpvars
    => RingInv' /\ EstimateInv'
<1> SUFFICES ASSUME Sntp!NtpAssumption, SyncInv, RingInv, EstimateInv, [Sntp!Next]_Sntp!ntpvars
             PROVE  RingInv' /\ EstimateInv'
  OBVIOUS
<1>1. CASE Sntp!Note
  BY <1>1, RingNote
<1>2. CASE UNCHANGED <<ring, head, count, ppm, history>>
  BY <1>2 DEF RingInv, EstimateInv, At, First
<1>3. QED
  BY <1>1, <1>2 DEF Sntp!Next, Sntp!SetTime, Sntp!Flag, Sntp!NtpTick, Sntp!Receive, Sntp!Snapshot,
     Sntp!Stratum, Sntp!Stamp, Sntp!Send, Sntp!ntpvars

LEMMA DriftHolds ==
  Sntp!NtpAssumption /\ SyncInv /\ EstimateInv => DriftOfTheRing
<1> SUFFICES ASSUME Sntp!NtpAssumption, SyncInv, EstimateInv PROVE Sntp!DriftOfTheRing
  BY DEF DriftOfTheRing
<1>1. At \in Nat /\ Ring \in Nat /\ Ring > 1 /\ Unit \in Nat \ {0} /\ osc \in Int /\ Unit + osc \in Nat \ {0}
      /\ Epoch \in Int /\ Noises \subseteq Int /\ MinBase \in Nat /\ MinBase > 0
  BY NtpConstants DEF SyncInv, At
<1>2. CASE At < 2
  BY <1>2 DEF EstimateInv, Sntp!DriftOfTheRing, At
<1>3. CASE At >= 2
  <2> DEFINE last == history[At]  first == history[First(At)]
             d_mono == last.mono - first.mono  d_wall == last.wall - first.wall
             d_true == (d_mono \div (Unit + osc)) * Unit
             spread == Sntp!Max({x - y : x, y \in Noises})
  <2>1. First(At) \in 1..At /\ At \in 1..At
    BY <1>1, <1>3 DEF First
  <2>2. PICK t1 \in 0..ticks, e1 \in Noises :
          first.mono = t1 * (Unit + osc) /\ first.wall = Epoch + t1 * Unit + e1
    BY <2>1 DEF SyncInv, SyncPoint
  <2>3. PICK t2 \in 0..ticks, e2 \in Noises :
          last.mono = t2 * (Unit + osc) /\ last.wall = Epoch + t2 * Unit + e2
    BY <2>1 DEF SyncInv, SyncPoint
  <2>4. t1 \in Int /\ t2 \in Int /\ e1 \in Int /\ e2 \in Int /\ e2 - e1 \in Int
    BY <1>1, <2>2, <2>3
  <2> DEFINE k == t2 - t1  e == e2 - e1
  <2>5. d_mono = k * (Unit + osc) /\ d_wall = k * Unit + e /\ k \in Int /\ e \in Int
    <3>1. t2 * (Unit + osc) - t1 * (Unit + osc) = k * (Unit + osc)
      BY <1>1, <2>4
    <3>2. t2 * Unit - t1 * Unit = k * Unit /\ t2 * Unit \in Int /\ t1 * Unit \in Int /\ k * Unit \in Int
      BY <1>1, <2>4
    <3>3. d_mono = k * (Unit + osc)
      BY <2>2, <2>3, <3>1
    <3>4. d_wall = k * Unit + e
      BY <1>1, <2>2, <2>3, <2>4, <3>2
    <3>5. QED  BY <2>4, <3>3, <3>4
  <2>6. d_true = k * Unit
    <3> HIDE DEF d_mono, k
    <3>1. QED  BY <1>1, <2>5, DivideExact
  <2>7. spread \in Int /\ e <= spread /\ -e <= spread
    BY <2>2, <2>3, SpreadIsMax
  <2> HIDE DEF last, first, d_mono, d_wall, d_true, spread, k, e
  <2>8. ppm = Sntp!Estimate(d_mono, d_wall)
    BY <1>1, <1>3 DEF EstimateInv, d_mono, d_wall, last, first
  <2>9. ASSUME ppm \notin {Sntp!Unknown, Clamp, -Clamp}
        PROVE  Sntp!Abs(ppm * d_mono - (d_true - d_mono) * Unit) <= spread * Unit + d_mono
    <3>1. ~(d_mono < MinBase * Unit) /\ ppm = Sntp!Quotient((d_wall - d_mono) * Unit, d_mono)
      BY <2>8, <2>9 DEF Sntp!Estimate
    <3>2. MinBase * Unit > 0 /\ d_mono \in Int /\ MinBase * Unit \in Int
      <4>1. MinBase * Unit > 0 /\ MinBase * Unit \in Int
        BY <1>1
      <4>2. k * (Unit + osc) \in Int
        BY <1>1, <2>5
      <4>3. QED  BY <2>5, <4>1, <4>2
    <3>3. k * (Unit + osc) > 0
      BY <2>5, <3>1, <3>2
    <3>4. -spread <= e
      BY <2>5, <2>7
    <3>5. ppm = Sntp!Quotient((k * Unit + e - k * (Unit + osc)) * Unit, k * (Unit + osc))
      <4>1. (d_wall - d_mono) * Unit = (k * Unit + e - k * (Unit + osc)) * Unit
        <5>1. k * Unit \in Int /\ k * (Unit + osc) \in Int
          BY <1>1, <2>5
        <5>2. d_wall - d_mono = k * Unit + e - k * (Unit + osc)
          BY <2>5, <5>1
        <5>3. QED  BY <5>2
      <4>2. QED  BY <2>5, <3>1, <4>1
    <3>6. QED  BY <1>1, <2>4, <2>5, <2>6, <2>7, <3>3, <3>4, <3>5, EstimateNear
  <2>10. QED
    BY <1>3, <2>8, <2>9 DEF Sntp!DriftOfTheRing, At, First, d_mono, d_wall, d_true, last, first, spread
<1>4. QED  BY <1>1, <1>2, <1>3

-----------------------------------------------------------------------------
(* The replies of the server.  The clock shows more than any correction once it has been
   set, and while no sync is noted a request's time of arrival is the clock's own. *)

\* The correction of the moment, and the largest there can be.
Bend == IF Sntp!free_running = 0 \/ ppm = Sntp!Unknown THEN 0 ELSE ppm * Sntp!free_running
Most == Clamp * ((NtpTimeMax * (Unit + osc)) \div Unit)

LastInv == last_sync \in Int /\ 0 <= last_sync /\ last_sync <= Sntp!mono

HighInv ==
  /\ synced \/ sync # "none" => Sntp!wall > Most
  /\ synced /\ sync # "flagged" => At >= 1
  /\ sync = "none" /\ At >= 1 => history[At].wall = last_sync + offset
  /\ At >= 1 => history[At].wall > Most

Reply == [at : {"snapshot", "stratum", "stamp", "send"}, rx : Int, known : BOOLEAN, syncs : Nat,
          synced : BOOLEAN, stratum : {3, 16}, reference : Int, tx : Int]

\* No sync was noted since the request came.
Quiet == server.known /\ sync = "none" /\ server.syncs = At

ServerInv ==
  server = Sntp!Idle \/
    /\ server \in Reply
    /\ server.syncs <= At /\ (server.synced => synced)
    /\ server.known => synced /\ server.syncs >= 1
    /\ Quiet => server.rx = Sntp!wall - Bend
    /\ server.at # "snapshot" /\ server.known => server.synced
    /\ server.at \in {"stamp", "send"} =>
         (server.known => server.stratum = 3) /\ (~synced => server.stratum = 16)
    /\ server.at = "send" =>
         /\ server.known => server.tx # 0
         /\ ~synced => server.tx = 0 /\ server.reference = 0
         /\ Quiet => server.reference + Bend = history[At].wall

LEMMA DivideGrows ==
  ASSUME NEW a \in Nat, NEW b \in Nat, NEW u \in Nat \ {0}, a <= b
  PROVE  a \div u <= b \div u
<1> DEFINE p == a \div u  q == b \div u
<1>1. p \in Nat /\ q \in Nat /\ p * u <= a /\ b < q * u + u
  BY DivideWithin
<1> HIDE DEF p, q
<1>2. p * u < (q + 1) * u
  BY <1>1
<1>3. p >= q + 1 => p * u >= (q + 1) * u
  BY <1>1
<1>4. p <= q
  BY <1>1, <1>2, <1>3
<1>5. QED  BY <1>4 DEF p, q

LEMMA ProductWithin ==
  ASSUME NEW p \in Int, NEW c \in Nat, -c <= p, p <= c, NEW f \in Nat, NEW m \in Nat, f <= m
  PROVE  p * f \in Int /\ -(c * m) <= p * f /\ p * f <= c * m
<1>1. p * f <= c * f /\ -(c * f) <= p * f
  <2>1. (c - p) * f >= 0 /\ (c + p) * f >= 0
    OBVIOUS
  <2>2. (c - p) * f = c * f - p * f /\ (c + p) * f = c * f + p * f
    OBVIOUS
  <2>3. QED  BY <2>1, <2>2
<1>2. c * f <= c * m
  <2>1. c * (m - f) >= 0 /\ c * (m - f) = c * m - c * f
    OBVIOUS
  <2>2. QED  BY <2>1
<1>3. QED  BY <1>1, <1>2

LEMMA EstimateRange ==
  ASSUME Sntp!NtpAssumption, NEW d_mono \in Int, NEW d_wall \in Int
  PROVE  \/ Sntp!Estimate(d_mono, d_wall) = Sntp!Unknown
         \/ Sntp!Estimate(d_mono, d_wall) \in -Clamp..Clamp
<1>1. Unit \in Nat \ {0} /\ MinBase \in Nat /\ MinBase > 0 /\ Clamp \in Nat
  BY NtpConstants
<1>2. CASE d_mono < MinBase * Unit
  BY <1>2 DEF Sntp!Estimate
<1>3. CASE ~(d_mono < MinBase * Unit)
  <2> DEFINE p == Sntp!Quotient((d_wall - d_mono) * Unit, d_mono)
  <2>1. d_mono \in Nat \ {0} /\ (d_wall - d_mono) * Unit \in Int
    <3>1. MinBase * Unit > 0 /\ MinBase * Unit \in Int
      BY <1>1
    <3>2. QED  BY <1>1, <1>3, <3>1
  <2>2. p \in Int
    BY <2>1, QuotientWithin
  <2>3. Sntp!Estimate(d_mono, d_wall) = IF p > Clamp THEN Clamp ELSE IF p < -Clamp THEN -Clamp ELSE p
    BY <1>3 DEF Sntp!Estimate
  <2> HIDE DEF p
  <2>4. QED  BY <1>1, <2>2, <2>3
<1>4. QED  BY <1>2, <1>3

LEMMA BendWithin ==
  ASSUME Sntp!NtpAssumption, SyncInv, EstimateInv, LastInv
  PROVE  Bend \in Int /\ Most \in Nat /\ -Most <= Bend /\ Bend <= Most
<1>1. /\ Unit \in Nat \ {0} /\ NtpTimeMax \in Nat /\ Clamp \in Nat /\ ticks \in 0..NtpTimeMax
      /\ osc \in Int /\ Unit + osc > 0 /\ At \in Nat /\ Ring \in Nat /\ Ring > 1
  BY NtpConstants DEF SyncInv, At
<1>2. ppm = Sntp!Unknown \/ ppm \in -Clamp..Clamp
  <2>1. CASE At < 2
    BY <2>1 DEF EstimateInv
  <2>2. CASE At >= 2
    <3>1. First(At) \in 1..At /\ At \in 1..At
      BY <1>1, <2>2 DEF First
    <3>2. history[First(At)] \in Point /\ history[At] \in Point
      BY <3>1 DEF SyncInv, At
    <3>3. /\ history[At].mono - history[First(At)].mono \in Int
          /\ history[At].wall - history[First(At)].wall \in Int
      BY <3>2 DEF Point
    <3>4. QED  BY <1>1, <2>2, <3>3, EstimateRange DEF EstimateInv
  <2>3. QED  BY <1>1, <2>1, <2>2
<1> DEFINE whole == NtpTimeMax * (Unit + osc)  age == (Sntp!mono - last_sync) \div Unit
           m == whole \div Unit
<1>3. whole \in Nat /\ Sntp!mono \in Nat /\ Sntp!mono <= whole
  <2>1. (NtpTimeMax - ticks) * (Unit + osc) >= 0 /\ ticks * (Unit + osc) >= 0
    BY <1>1
  <2>2. (NtpTimeMax - ticks) * (Unit + osc) = NtpTimeMax * (Unit + osc) - ticks * (Unit + osc)
    BY <1>1
  <2>3. NtpTimeMax * (Unit + osc) \in Int /\ ticks * (Unit + osc) \in Int
    BY <1>1
  <2>4. QED  BY <2>1, <2>2, <2>3 DEF Sntp!mono
<1> HIDE DEF whole
<1>4. Sntp!mono - last_sync \in Nat /\ Sntp!mono - last_sync <= whole
  BY <1>3 DEF LastInv
<1>5. age \in Nat /\ m \in Nat /\ age <= m
  BY <1>1, <1>3, <1>4, DivideWithin, DivideGrows
<1>6. Sntp!free_running = 0 \/ Sntp!free_running = age
  BY DEF Sntp!free_running
<1> HIDE DEF age, m
<1>7. Most = Clamp * m /\ Clamp * m \in Nat
  <2>1. Most = Clamp * m
    BY DEF Most, m, whole
  <2>2. QED  BY <1>1, <1>5, <2>1
<1>8. CASE Sntp!free_running = 0 \/ ppm = Sntp!Unknown
  BY <1>7, <1>8 DEF Bend
<1>9. CASE Sntp!free_running = age /\ ppm \in -Clamp..Clamp /\ ppm # Sntp!Unknown /\ age # 0
  <2>1. Bend = ppm * age
    BY <1>9 DEF Bend
  <2>2. ppm * age \in Int /\ -(Clamp * m) <= ppm * age /\ ppm * age <= Clamp * m
    BY <1>1, <1>5, <1>9, ProductWithin
  <2>3. QED  BY <1>7, <2>1, <2>2
<1>10. QED  BY <1>2, <1>6, <1>8, <1>9

LEMMA Corrected ==
  ASSUME Sntp!NtpAssumption, SyncInv, EstimateInv, LastInv
  PROVE  /\ Sntp!corrected_now \in Int
         /\ synced => Sntp!corrected_now = Sntp!wall - Bend
         /\ ~synced => Sntp!corrected_now = 0
<1>1. Sntp!wall \in Int /\ Bend \in Int
  <2>1. ticks \in Int /\ Unit \in Int /\ osc \in Int /\ offset \in Int
    BY NtpConstants DEF SyncInv
  <2>2. Sntp!mono \in Int
    BY <2>1 DEF Sntp!mono
  <2>3. Sntp!wall \in Int
    BY <2>1, <2>2 DEF Sntp!wall
  <2>4. QED  BY <2>3, BendWithin
<1>2. CASE ~synced
  <2>1. Sntp!free_running = 0 /\ Sntp!ntp_now = 0
    BY <1>2 DEF Sntp!free_running, Sntp!ntp_now, Sntp!Never
  <2>2. QED  BY <1>2, <2>1 DEF Sntp!corrected_now
<1>3. CASE synced
  <2>1. Sntp!ntp_now = Sntp!wall
    BY <1>3 DEF Sntp!ntp_now
  <2>2. CASE Sntp!free_running = 0 \/ ppm = Sntp!Unknown
    BY <1>1, <1>3, <2>1, <2>2 DEF Sntp!corrected_now, Bend
  <2>3. CASE ~(Sntp!free_running = 0 \/ ppm = Sntp!Unknown)
    <3>1. Bend = ppm * Sntp!free_running
      BY <2>3 DEF Bend
    <3>2. Sntp!corrected_now = Sntp!wall - Bend
      BY <2>1, <2>3, <3>1 DEF Sntp!corrected_now
    <3>3. QED  BY <1>1, <1>3, <3>2
  <2>4. QED  BY <2>2, <2>3
<1>4. QED  BY <1>2, <1>3

LEMMA ClockTypes ==
  ASSUME Sntp!NtpAssumption, SyncInv
  PROVE  /\ Sntp!mono \in Int /\ Sntp!mono >= 0 /\ Sntp!mono = ticks * (Unit + osc)
         /\ Sntp!wall \in Int /\ Sntp!wall = Sntp!mono + offset
         /\ offset \in Int /\ Unit + osc \in Int /\ Unit + osc > 0 /\ ticks \in Nat /\ At \in Nat
         /\ Most \in Nat
<1>1. ticks \in Nat /\ Unit \in Nat \ {0} /\ osc \in Int /\ offset \in Int /\ Unit + osc > 0 /\ At \in Nat
      /\ NtpTimeMax \in Nat /\ Clamp \in Nat
  BY NtpConstants DEF SyncInv, At
<1>2. ticks * (Unit + osc) \in Int /\ ticks * (Unit + osc) >= 0
  BY <1>1
<1>3. NtpTimeMax * (Unit + osc) \in Nat
  BY <1>1
<1>4. (NtpTimeMax * (Unit + osc)) \div Unit \in Nat
  BY <1>1, <1>3, DivideWithin
<1>5. Most \in Nat
  <2> DEFINE m == (NtpTimeMax * (Unit + osc)) \div Unit
  <2>1. Most = Clamp * m /\ m \in Nat
    BY <1>4 DEF Most
  <2> HIDE DEF m
  <2>2. QED  BY <1>1, <2>1
<1>6. QED  BY <1>1, <1>2, <1>5 DEF Sntp!mono, Sntp!wall

LEMMA LastStep ==
  Sntp!NtpAssumption /\ SyncInv /\ LastInv /\ [Sntp!Next]_Sntp!ntpvars => LastInv'
<1> SUFFICES ASSUME Sntp!NtpAssumption, SyncInv, LastInv, [Sntp!Next]_Sntp!ntpvars PROVE LastInv'
  OBVIOUS
<1>1. last_sync \in Int /\ 0 <= last_sync /\ last_sync <= Sntp!mono /\ Sntp!mono \in Int
  BY ClockTypes DEF LastInv
<1>2. CASE UNCHANGED <<ticks, osc, last_sync>>
  <2>1. Sntp!mono' = Sntp!mono
    BY <1>2 DEF Sntp!mono
  <2>2. QED  BY <1>1, <1>2, <2>1 DEF LastInv
<1>3. CASE Sntp!Note
  <2>1. Sntp!mono' = Sntp!mono /\ last_sync' = Sntp!mono
    BY <1>3 DEF Sntp!Note, Sntp!mono
  <2>2. QED  BY <1>1, <2>1 DEF LastInv
<1>4. CASE Sntp!NtpTick
  <2>1. ticks' = ticks + 1 /\ osc' = osc /\ last_sync' = last_sync
    BY <1>4 DEF Sntp!NtpTick
  <2>2. Sntp!mono' = Sntp!mono + (Unit + osc)
    <3>1. (ticks + 1) * (Unit + osc) = ticks * (Unit + osc) + (Unit + osc)
      BY ClockTypes
    <3>2. Sntp!mono' = (ticks + 1) * (Unit + osc)
      BY <2>1 DEF Sntp!mono
    <3>3. QED  BY <3>1, <3>2, ClockTypes
  <2>3. QED  BY <1>1, <2>1, <2>2, ClockTypes DEF LastInv
<1>5. QED
  BY <1>2, <1>3, <1>4 DEF Sntp!Next, Sntp!SetTime, Sntp!Flag, Sntp!Receive, Sntp!Snapshot,
     Sntp!Stratum, Sntp!Stamp, Sntp!Send, Sntp!ntpvars

\* Any answer of an upstream is far behind 1970.
LEMMA FarFromEpoch ==
  ASSUME Sntp!NtpAssumption, osc \in Oscillators, NEW e \in Noises
  PROVE  Epoch + e > Most
BY DEF Sntp!NtpAssumption, Most

LEMMA HighStep ==
  Sntp!NtpAssumption /\ SyncInv /\ LastInv /\ HighInv /\ [Sntp!Next]_Sntp!ntpvars => HighInv'
<1> SUFFICES ASSUME Sntp!NtpAssumption, SyncInv, LastInv, HighInv, [Sntp!Next]_Sntp!ntpvars
             PROVE  HighInv'
  OBVIOUS
<1>1. sync \in {"none", "set", "flagged"} /\ history \in Seq(Point) /\ osc \in Oscillators
  BY DEF SyncInv
<1>2. ASSUME NEW noise \in Noises, Sntp!SetTime(noise)
      PROVE  HighInv'
  <2>1. /\ UNCHANGED <<ticks, osc, synced, last_sync, history>> /\ sync = "none" /\ sync' = "set"
        /\ offset' = Sntp!True + noise - Sntp!mono
    BY <1>2 DEF Sntp!SetTime
  <2>2. Sntp!wall' = Epoch + ticks * Unit + noise
    <3>1. Sntp!wall' = Sntp!mono + (Sntp!True + noise - Sntp!mono)
      BY <2>1 DEF Sntp!wall, Sntp!mono
    <3>2. noise \in Int /\ Epoch \in Int /\ ticks * Unit \in Int
      BY NtpConstants, ClockTypes
    <3>3. Sntp!True = Epoch + ticks * Unit
      BY DEF Sntp!True
    <3>4. QED  BY <3>1, <3>2, <3>3, ClockTypes
  <2>3. ticks * Unit \in Int /\ ticks * Unit >= 0 /\ noise \in Int /\ Epoch \in Int
    BY NtpConstants, ClockTypes
  <2>4. Sntp!wall' > Most
    BY <1>1, <2>2, <2>3, FarFromEpoch, ClockTypes
  <2>5. Most' = Most /\ At' = At
    BY <2>1 DEF Most, At
  <2>6. QED  BY <2>1, <2>4, <2>5 DEF HighInv
<1>3. CASE Sntp!Flag
  <2>1. /\ UNCHANGED <<ticks, osc, offset, last_sync, history>> /\ sync = "set" /\ sync' = "flagged"
        /\ synced' = TRUE
    BY <1>3 DEF Sntp!Flag
  <2>2. Sntp!wall' = Sntp!wall /\ Most' = Most /\ At' = At
    BY <2>1 DEF Most, At, Sntp!wall, Sntp!mono
  <2>3. QED  BY <2>1, <2>2 DEF HighInv
<1>4. CASE Sntp!Note
  <2> DEFINE s == [mono |-> Sntp!mono, wall |-> Sntp!wall]
  <2>1. /\ UNCHANGED <<ticks, osc, offset, synced>> /\ sync = "flagged" /\ sync' = "none"
        /\ history' = Append(history, s) /\ last_sync' = Sntp!mono
    BY <1>4 DEF Sntp!Note
  <2>2. Sntp!wall' = Sntp!wall /\ Most' = Most
    BY <2>1 DEF Most, Sntp!wall, Sntp!mono
  <2>3. s \in Point /\ s.wall = Sntp!wall
    BY ClockTypes DEF Point
  <2> HIDE DEF s
  <2>4. At' = At + 1 /\ history'[At'] = s
    BY <1>1, <2>1, <2>3 DEF At
  <2>5. Sntp!wall > Most
    BY <2>1 DEF HighInv
  <2>6. At' >= 1
    BY <2>4, ClockTypes
  <2>7. history'[At'].wall = last_sync' + offset'
    BY <2>1, <2>3, <2>4, ClockTypes
  <2>8. QED  BY <2>1, <2>2, <2>3, <2>4, <2>5, <2>6, <2>7 DEF HighInv
<1>5. CASE Sntp!NtpTick
  <2>1. UNCHANGED <<osc, offset, sync, synced, last_sync, history>> /\ sync = "none" /\ ticks' = ticks + 1
    BY <1>5 DEF Sntp!NtpTick
  <2>2. Most' = Most /\ At' = At
    BY <2>1 DEF Most, At
  <2>3. Sntp!wall' = Sntp!wall + (Unit + osc)
    <3>1. (ticks + 1) * (Unit + osc) = ticks * (Unit + osc) + (Unit + osc) /\ (ticks + 1) * (Unit + osc) \in Int
      BY ClockTypes
    <3>2. Sntp!wall' = (ticks + 1) * (Unit + osc) + offset
      BY <2>1 DEF Sntp!mono, Sntp!wall
    <3>3. QED  BY <3>1, <3>2, ClockTypes
  <2>4. Sntp!wall > Most => Sntp!wall' > Most
    BY <2>3, ClockTypes
  <2>5. QED  BY <2>1, <2>2, <2>4 DEF HighInv
<1>6. CASE UNCHANGED <<ticks, osc, offset, sync, synced, last_sync, history>>
  <2>1. Sntp!wall' = Sntp!wall /\ Most' = Most /\ At' = At
    BY <1>6 DEF Most, At, Sntp!wall, Sntp!mono
  <2>2. QED  BY <1>6, <2>1 DEF HighInv
<1>7. QED
  BY <1>2, <1>3, <1>4, <1>5, <1>6 DEF Sntp!Next, Sntp!Receive, Sntp!Snapshot,
     Sntp!Stratum, Sntp!Stamp, Sntp!Send, Sntp!ntpvars

LEMMA ServerStep ==
  Sntp!NtpAssumption /\ SyncInv /\ EstimateInv /\ LastInv /\ HighInv /\ ServerInv
    /\ [Sntp!Next]_Sntp!ntpvars => ServerInv'
<1> SUFFICES ASSUME Sntp!NtpAssumption, SyncInv, EstimateInv, LastInv, HighInv, ServerInv,
                    [Sntp!Next]_Sntp!ntpvars
             PROVE  ServerInv'
  OBVIOUS
<1>1. /\ At \in Nat /\ sync \in {"none", "set", "flagged"} /\ synced \in BOOLEAN /\ history \in Seq(Point)
      /\ Sntp!wall \in Int /\ Sntp!mono \in Int /\ offset \in Int /\ Sntp!wall = Sntp!mono + offset
      /\ Most \in Nat /\ last_sync \in Int
  BY ClockTypes DEF SyncInv, LastInv
<1>2. /\ Bend \in Int /\ -Most <= Bend /\ Bend <= Most
      /\ Sntp!corrected_now \in Int
      /\ synced => Sntp!corrected_now = Sntp!wall - Bend
      /\ ~synced => Sntp!corrected_now = 0
  BY BendWithin, Corrected
<1>3. server # Sntp!Idle <=> server \in Reply
  BY DEF ServerInv, Sntp!Idle, Reply
<1>4. server.at # "idle" => server \in Reply
  BY DEF ServerInv, Sntp!Idle
\* While the server is idle, anything may happen.
<1>5. CASE server = Sntp!Idle /\ server' = server
  BY <1>5 DEF ServerInv
\* A sync that comes while a reply is written.
<1>6. ASSUME NEW noise \in Noises, Sntp!SetTime(noise), server \in Reply
      PROVE  ServerInv'
  <2>1. UNCHANGED <<ticks, osc, synced, last_sync, history, server>> /\ sync' = "set"
    BY <1>6 DEF Sntp!SetTime
  <2>2. ~Quiet' /\ At' = At
    BY <2>1 DEF Quiet, At
  <2>3. QED  BY <1>3, <1>6, <2>1, <2>2 DEF ServerInv
<1>7. ASSUME Sntp!Flag, server \in Reply
      PROVE  ServerInv'
  <2>1. UNCHANGED <<ticks, osc, last_sync, history, server>> /\ sync' = "flagged" /\ synced' = TRUE
    BY <1>7 DEF Sntp!Flag
  <2>2. ~Quiet' /\ At' = At
    BY <2>1 DEF Quiet, At
  <2>3. QED  BY <1>3, <1>7, <2>1, <2>2 DEF ServerInv
<1>8. ASSUME Sntp!Note, server \in Reply
      PROVE  ServerInv'
  <2>1. UNCHANGED <<synced, server>> /\ Len(history') = Len(history) + 1
    BY <1>1, <1>8 DEF Sntp!Note
  <2>2. At' = At + 1 /\ server.syncs \in Nat /\ server.syncs <= At
    BY <1>3, <1>8, <2>1 DEF At, ServerInv, Reply
  <2>3. ~Quiet' /\ server.syncs <= At'
    BY <1>1, <2>1, <2>2 DEF Quiet
  <2>4. QED  BY <1>3, <1>8, <2>1, <2>3 DEF ServerInv
\* The server's own steps, between which nothing is noted but by the above.
<1>9. ASSUME UNCHANGED <<ticks, osc, offset, sync, synced, last_sync, ppm, history>>
      PROVE  Bend' = Bend /\ Sntp!wall' = Sntp!wall /\ At' = At
  BY <1>9 DEF Bend, Sntp!free_running, Sntp!wall, Sntp!mono, At
<1>10. CASE Sntp!Receive
  <2>1. /\ UNCHANGED <<ticks, osc, offset, sync, synced, last_sync, ppm, history>>
        /\ server' = [at |-> "snapshot", rx |-> Sntp!corrected_now,
                      known |-> synced /\ sync # "flagged", syncs |-> Len(history),
                      synced |-> FALSE, stratum |-> 16, reference |-> 0, tx |-> 0]
    BY <1>10 DEF Sntp!Receive, Sntp!Never
  <2> DEFINE good == synced /\ sync # "flagged"
  <2>2. good \in BOOLEAN
    OBVIOUS
  <2>3. good => synced /\ At >= 1
    BY DEF HighInv
  <2> HIDE DEF good
  <2>4. server' = [at |-> "snapshot", rx |-> Sntp!corrected_now, known |-> good, syncs |-> At,
                   synced |-> FALSE, stratum |-> 16, reference |-> 0, tx |-> 0]
    BY <2>1 DEF good, At
  <2>5. server' \in Reply
    BY <1>1, <1>2, <2>2, <2>4 DEF Reply
  <2>6. /\ server'.at = "snapshot" /\ server'.rx = Sntp!corrected_now /\ server'.known = good
        /\ server'.syncs = At /\ server'.synced = FALSE
    BY <2>4
  <2>7. Quiet' => server'.rx = Sntp!wall' - Bend'
    BY <1>2, <1>9, <2>1, <2>3, <2>6 DEF Quiet
  <2>8. server'.known => synced' /\ server'.syncs >= 1
    BY <2>1, <2>3, <2>6
  <2>9. QED  BY <1>1, <1>9, <2>1, <2>5, <2>6, <2>7, <2>8 DEF ServerInv
<1>11. CASE Sntp!Snapshot
  <2>1. /\ UNCHANGED <<ticks, osc, offset, sync, synced, last_sync, ppm, history>>
        /\ server.at = "snapshot" /\ server' = [server EXCEPT !.at = "stratum", !.synced = synced]
    BY <1>11 DEF Sntp!Snapshot
  <2>2. server \in Reply
    BY <1>4, <2>1
  <2>3. /\ server' \in Reply /\ server'.at = "stratum" /\ server'.synced = synced
        /\ server'.rx = server.rx /\ server'.known = server.known /\ server'.syncs = server.syncs
    BY <1>1, <2>1, <2>2 DEF Reply
  <2>4. /\ server.syncs <= At /\ (server.known => synced /\ server.syncs >= 1)
        /\ (Quiet => server.rx = Sntp!wall - Bend)
    BY <1>3, <2>2 DEF ServerInv
  <2>5. Quiet' <=> Quiet
    BY <1>9, <2>1, <2>3 DEF Quiet
  <2>6. QED  BY <1>9, <2>1, <2>3, <2>4, <2>5 DEF ServerInv
<1>12. CASE Sntp!Stratum
  <2>1. /\ UNCHANGED <<ticks, osc, offset, sync, synced, last_sync, ppm, history>>
        /\ server.at = "stratum"
        /\ server' = [server EXCEPT !.at = "stamp", !.stratum = IF synced THEN 3 ELSE 16]
    BY <1>12 DEF Sntp!Stratum
  <2>2. server \in Reply
    BY <1>4, <2>1
  <2>3. /\ server' \in Reply /\ server'.at = "stamp" /\ server'.stratum = IF synced THEN 3 ELSE 16
        /\ server'.rx = server.rx /\ server'.known = server.known /\ server'.syncs = server.syncs
        /\ server'.synced = server.synced
    BY <1>1, <2>1, <2>2 DEF Reply
  <2>4. /\ server.syncs <= At /\ (server.known => synced /\ server.syncs >= 1 /\ server.synced)
        /\ (server.synced => synced) /\ (Quiet => server.rx = Sntp!wall - Bend)
    BY <1>3, <2>1, <2>2 DEF ServerInv
  <2>5. Quiet' <=> Quiet
    BY <1>9, <2>1, <2>3 DEF Quiet
  <2>6. QED  BY <1>9, <2>1, <2>3, <2>4, <2>5 DEF ServerInv
<1>13. CASE Sntp!Stamp
  <2> DEFINE reference == IF server.synced THEN Sntp!Stamped(Sntp!Reference) ELSE 0
             tx == Sntp!Stamped(Sntp!corrected_now)
  <2>1. /\ UNCHANGED <<ticks, osc, offset, sync, synced, last_sync, ppm, history>>
        /\ server.at = "stamp"
        /\ server' = [server EXCEPT !.at = "send", !.reference = reference, !.tx = tx]
    BY <1>13 DEF Sntp!Stamp, Sntp!Never
  <2>2. server \in Reply
    BY <1>4, <2>1
  <2>3. /\ server.syncs <= At /\ (server.known => synced /\ server.syncs >= 1 /\ server.synced)
        /\ (server.synced => synced) /\ (Quiet => server.rx = Sntp!wall - Bend)
        /\ (server.known => server.stratum = 3) /\ (~synced => server.stratum = 16)
    BY <1>3, <2>1, <2>2 DEF ServerInv
  <2>4. Sntp!Reference = server.rx - (Sntp!mono - last_sync) /\ Sntp!Reference \in Int
    BY <1>1, <2>2 DEF Sntp!Reference, Reply
  <2>5. reference \in Int /\ tx \in Int
    BY <1>2, <2>4 DEF Sntp!Stamped, Sntp!Never
  <2>6. server.known => tx # 0
    <3>1. ASSUME server.known PROVE Sntp!corrected_now > 0
      <4>1. synced /\ Sntp!wall > Most
        BY <2>3, <3>1 DEF HighInv
      <4>2. QED  BY <1>1, <1>2, <4>1
    <3>2. QED  BY <1>2, <3>1 DEF Sntp!Stamped
  <2>7. ~synced => tx = 0 /\ reference = 0
    BY <1>2, <2>3 DEF Sntp!Stamped, Sntp!Never
  <2>8. Quiet => reference + Bend = history[At].wall
    <3> SUFFICES ASSUME Quiet PROVE reference + Bend = history[At].wall
      OBVIOUS
    <3>1. server.known /\ sync = "none" /\ server.synced /\ server.rx = Sntp!wall - Bend /\ At >= 1
      BY <1>1, <2>2, <2>3 DEF Quiet, Reply
    <3>2. history[At].wall = last_sync + offset /\ history[At].wall > Most
      BY <3>1 DEF HighInv
    <3>3. Sntp!Reference = last_sync + offset - Bend
      BY <1>1, <1>2, <2>4, <3>1
    <3>4. Sntp!Reference > 0
      BY <1>1, <1>2, <3>2, <3>3
    <3>5. reference = Sntp!Reference
      BY <2>4, <3>1, <3>4 DEF Sntp!Stamped
    <3> HIDE DEF reference
    <3>6. QED  BY <1>1, <1>2, <3>2, <3>3, <3>5
  <2> HIDE DEF reference, tx
  <2>9. /\ server' \in Reply /\ server'.at = "send" /\ server'.reference = reference /\ server'.tx = tx
        /\ server'.rx = server.rx /\ server'.known = server.known /\ server'.syncs = server.syncs
        /\ server'.synced = server.synced /\ server'.stratum = server.stratum
    BY <2>1, <2>2, <2>5 DEF Reply
  <2>10. Quiet' <=> Quiet
    BY <1>9, <2>1, <2>9 DEF Quiet
  <2>11. history'[At'].wall = history[At].wall
    BY <1>9, <2>1
  <2>12. QED  BY <1>9, <2>1, <2>3, <2>6, <2>7, <2>8, <2>9, <2>10, <2>11 DEF ServerInv
<1>14. CASE Sntp!Send
  BY <1>14 DEF Sntp!Send, ServerInv
<1>15. CASE Sntp!NtpTick
  <2>1. server.at = "idle" /\ server' = server
    BY <1>15 DEF Sntp!NtpTick
  <2>2. server = Sntp!Idle
    BY <2>1 DEF ServerInv, Reply
  <2>3. QED  BY <1>5, <2>1, <2>2
<1>16. CASE UNCHANGED <<ticks, osc, offset, sync, synced, last_sync, ppm, history, server>>
  <2>1. (Quiet' <=> Quiet) /\ Bend' = Bend /\ Sntp!wall' = Sntp!wall /\ At' = At
    BY <1>9, <1>16 DEF Quiet
  <2>2. QED  BY <1>16, <2>1 DEF ServerInv
<1>17. ASSUME NEW noise \in Noises, Sntp!SetTime(noise)
       PROVE  ServerInv'
  BY <1>3, <1>5, <1>6, <1>17 DEF Sntp!SetTime
<1>18. CASE Sntp!Flag
  BY <1>3, <1>5, <1>7, <1>18 DEF Sntp!Flag
<1>19. CASE Sntp!Note
  BY <1>3, <1>5, <1>8, <1>19 DEF Sntp!Note
<1>20. QED
  BY <1>10, <1>11, <1>12, <1>13, <1>14, <1>15, <1>16, <1>17, <1>18, <1>19
     DEF Sntp!Next, Sntp!ntpvars

NtpInv == SyncInv /\ RingInv /\ EstimateInv /\ LastInv /\ HighInv /\ ServerInv

LEMMA NtpInit == Sntp!NtpAssumption /\ Sntp!Init => NtpInv
<1> SUFFICES ASSUME Sntp!NtpAssumption, Sntp!Init PROVE NtpInv
  OBVIOUS
<1>1. /\ ticks = 0 /\ osc \in Oscillators /\ offset = 0 /\ sync = "none" /\ synced = FALSE /\ last_sync = 0
      /\ DOMAIN ring = 0..(Ring - 1) /\ head = 0 /\ count = 0 /\ ppm = Sntp!Unknown
      /\ server = Sntp!Idle /\ history = <<>>
  BY DEF Sntp!Init
<1>2. /\ Unit \in Nat /\ Unit > 0 /\ NtpTimeMax \in Nat /\ Ring \in Nat /\ Ring > 1
      /\ osc \in Int /\ Unit + osc > 0
  BY <1>1, NtpConstants
<1>3. At = 0 /\ history \in Seq(Point)
  BY <1>1 DEF At
<1>4. SyncInv
  <2>1. \A i \in 1..At : FALSE
    BY <1>3
  <2>2. \A i \in 1..At : SyncPoint(history[i])
    BY <2>1
  <2>3. ticks \in 0..NtpTimeMax /\ offset \in Int
    BY <1>1, <1>2
  <2>4. QED  BY <1>1, <1>3, <2>2, <2>3 DEF SyncInv
<1>5. RingInv
  <2>1. \A i \in 0..(head - 1) : FALSE
    BY <1>1
  <2>2. QED  BY <1>1, <1>2, <1>3, <2>1 DEF RingInv
<1>6. EstimateInv
  BY <1>1, <1>3 DEF EstimateInv
<1>7. LastInv
  <2>1. Sntp!mono = 0
    BY <1>1, <1>2 DEF Sntp!mono
  <2>2. QED  BY <1>1, <2>1 DEF LastInv
<1>8. HighInv
  BY <1>1, <1>3 DEF HighInv
<1>9. ServerInv
  BY <1>1 DEF ServerInv
<1>10. QED  BY <1>4, <1>5, <1>6, <1>7, <1>8, <1>9 DEF NtpInv

LEMMA NtpSteps ==
  /\ MCInit => Sntp!Init
  /\ [MCNext]_<<part, clockvars, edgevars>> => [Sntp!Next]_Sntp!ntpvars
BY DEF MCInit, ClockInit, MCNext, EdgeNext, ClockNext, clockvars, sntpvars, Sntp!ntpvars

LEMMA NtpInvariant == MCSpec => []NtpInv
<1>1. MCInit => NtpInv
  BY NtpSteps, NtpInit, ClockSizes
<1>2. NtpInv /\ [MCNext]_<<part, clockvars, edgevars>> => NtpInv'
  BY NtpSteps, SyncStep, RingStep, LastStep, HighStep, ServerStep, ClockSizes DEF NtpInv
<1>3. QED  BY <1>1, <1>2, PTL DEF MCSpec

\* The drift is that between the newest sync and the oldest the ring should hold, and no
\* further from the oscillator's than the errors of the two answers (ntp_drift_record).
THEOREM DriftIsTheRings == MCSpec => []DriftOfTheRing
<1>1. NtpInv => DriftOfTheRing
  BY DriftHolds, ClockSizes DEF NtpInv
<1>2. QED  BY <1>1, NtpInvariant, PTL

\* A reply of a good clock agrees with itself and with the last sync, though the callback
\* runs while it is written; one before the first sync says so (ntp_server_task).
THEOREM RepliesCohere == MCSpec => []ReplyCoherent
<1>1. NtpInv => ReplyCoherent
  <2> SUFFICES ASSUME NtpInv, server.at = "send" PROVE Sntp!ReplyCoherent
    BY DEF ReplyCoherent, Sntp!ReplyCoherent
  <2>1. server \in Reply
    BY DEF NtpInv, ServerInv, Sntp!Idle
  <2>2. /\ server.known => server.synced /\ server.stratum = 3 /\ server.tx # 0 /\ server.syncs >= 1
        /\ ~synced => server.stratum = 16 /\ server.tx = 0 /\ server.reference = 0
        /\ Quiet => server.reference + Bend = history[At].wall
    BY <2>1 DEF NtpInv, ServerInv, Sntp!Idle
  <2>3. ASSUME Quiet
        PROVE  server.reference + Bend \in history[At].wall - Unit..history[At].wall
    <3>1. At \in Nat /\ history \in Seq(Point) /\ Unit \in Nat
      BY NtpConstants, ClockSizes DEF NtpInv, SyncInv, At
    <3>2. At >= 1
      BY <2>1, <2>2, <2>3 DEF Quiet, Reply
    <3>3. history[At].wall \in Int
      <4>1. history[At] \in Point
        BY <3>1, <3>2 DEF At
      <4>2. QED  BY <4>1 DEF Point
    <3>4. QED  BY <2>2, <2>3, <3>1, <3>3
  <2>4. QED
    BY <2>2, <2>3 DEF Sntp!ReplyCoherent, Quiet, Bend, At, Sntp!Never
<1>2. QED  BY <1>1, NtpInvariant, PTL

-----------------------------------------------------------------------------
(* The scripts.  A save under way is followed from step to step; where the  *)
(* migration is tells what it has left; and what the interpreter has run is *)
(* that of the slots autoexec is past.                                      *)

Absent == Scripts!Absent
Slot == Scripts!Slot
Texts == {Scripts!Fit(x) : x \in Script \cup Legacy \cup {<<>>}} \cup {Absent, <<>>}
Saved == [script: Texts, enabled: BOOLEAN]
OpType == [at: {"script", "enabled", "restart"}, slot: Slot, script: Script \cup {<<>>}, enabled: BOOLEAN]
Pending == op.at # "none"

SlotTypes ==
  /\ sc \in [Slot -> Texts] /\ en \in [Slot -> BOOLEAN] /\ vm \in [Slot -> Texts \ {Absent}]
  /\ legacy \in [script: Legacy \cup {<<>>}, enabled: BOOLEAN] /\ old \in Legacy
  /\ init \in {"probe", "script", "enabled", "erase", "ready"}
  /\ op = Scripts!NoOp \/ op \in OpType
  /\ restarts \in Nat /\ exec \in 0..NSlots /\ go \in BOOLEAN
  /\ saved \in [Slot -> Saved] /\ sure \in [Slot -> BOOLEAN]

LegacyInv == kept /\ old # <<>> =>
  /\ sc[0] = Absent => legacy.script = old /\ init \notin {"enabled", "erase"}
  /\ init = "script" => legacy.script = old
  /\ saved[0].script = Absent => sc[0] \in {Absent, Scripts!Fit(old)}

SaveInv ==
  /\ Scripts!SavedWholly
  /\ Pending =>
       LET s == op.slot IN
       /\ init # "ready" => ~sure[s]
       /\ op.at = "script" => saved[s].script = Scripts!Fit(op.script)
       /\ op.at \in {"script", "enabled"} => saved[s].enabled = op.enabled
       /\ op.at \in {"enabled", "restart"} /\ sure[s] => sc[s] = saved[s].script
       /\ op.at = "restart" /\ sure[s] => en[s] = saved[s].enabled

Wanted(s) == IF en[s] /\ sc[s] # Absent THEN sc[s] ELSE <<>>

VmInv ==
  /\ go => exec < NSlots
  /\ init # "ready" => restarts = 0 /\ exec = NSlots /\ \A s \in Slot : vm[s] = <<>>
  /\ init = "ready" /\ restarts = 0 /\ ~Pending /\ current =>
       /\ \A s \in Slot : vm[s] = IF s < exec THEN Wanted(s) ELSE <<>>
       /\ go => en[exec]

SlotInv == SlotTypes /\ LegacyInv /\ SaveInv /\ VmInv

LEMMA ScriptFacts ==
  /\ NSlots \in Nat \ {0} /\ 0 \in Slot /\ Slot \subseteq Nat /\ \A s \in Slot : s < NSlots
  /\ \A x \in Script \cup Legacy : Scripts!Fit(x) # Absent /\ Scripts!Fit(x) \in Texts
  /\ Absent \in Texts /\ <<>> \in Texts /\ <<>> # Absent
<1>1. NSlots \in Nat \ {0} /\ \A x \in Script \cup Legacy : Scripts!Fit(x) # Absent
  BY SlotsThere DEF Scripts!SlotsAssumption, Absent
<1>2. <<>> # Absent
  <2>1. Len(<<>>) = 0 /\ Len(<<"absent">>) = 1
    BY EmptySeq, SMT
  <2>2. QED  BY <2>1 DEF Absent, Scripts!Absent
<1>3. 0 \in Slot /\ Slot \subseteq Nat /\ \A s \in Slot : s < NSlots
  BY <1>1 DEF Slot, Scripts!Slot
<1>4. QED  BY <1>1, <1>2, <1>3 DEF Texts

LEMMA NoOpIs ==
  ASSUME SlotTypes
  PROVE  /\ Pending => op \in OpType
         /\ ~Pending <=> op = Scripts!NoOp
BY DEF SlotTypes, OpType, Pending, Scripts!NoOp

LEMMA SlotsInit == Scripts!Init => SlotInv
<1> SUFFICES ASSUME Scripts!Init PROVE SlotInv
  OBVIOUS
<1>1. op.at = "none" /\ op = Scripts!NoOp
  BY DEF Scripts!Init, Scripts!NoOp
<1>2. SlotTypes
  <2>1. legacy \in [script: Legacy \cup {<<>>}, enabled: BOOLEAN] /\ old \in Legacy
    BY DEF Scripts!Init
  <2>2. saved \in [Slot -> Saved]
    BY ScriptFacts DEF Scripts!Init, Slot, Saved, Absent
  <2>3. sc \in [Slot -> Texts] /\ vm \in [Slot -> Texts \ {Absent}]
    BY ScriptFacts DEF Scripts!Init, Slot, Absent
  <2>4. en \in [Slot -> BOOLEAN] /\ sure \in [Slot -> BOOLEAN] /\ init = "probe"
        /\ restarts = 0 /\ exec = NSlots /\ go \in BOOLEAN
    BY DEF Scripts!Init, Slot
  <2>5. exec \in 0..NSlots
    BY <2>4, ScriptFacts
  <2>6. QED  BY <1>1, <2>1, <2>2, <2>3, <2>4, <2>5 DEF SlotTypes
<1>3. LegacyInv
  BY ScriptFacts DEF Scripts!Init, LegacyInv, Slot, Absent
<1>4. SaveInv
  BY <1>1 DEF Scripts!Init, SaveInv, Pending, Scripts!SavedWholly
<1>5. VmInv
  BY ScriptFacts DEF Scripts!Init, VmInv, Slot
<1>6. QED  BY <1>2, <1>3, <1>4, <1>5 DEF SlotInv

\* A slot the migration has found, and what it has left.
LEMMA ProbeKeeps ==
  ASSUME SlotInv, Scripts!Probe
  PROVE  SlotInv'
<1>1. /\ init = "probe" /\ UNCHANGED <<en, op, restarts, go, vm, old, saved, sure, current, legacy>>
      /\ \/ sc[0] # Absent /\ init' = "ready" /\ exec' = 0 /\ UNCHANGED <<sc, kept>>
         \/ /\ sc[0] = Absent /\ init' = "script" /\ UNCHANGED <<sc, exec, kept>>
         \/ /\ sc[0] = Absent /\ legacy.script = <<>> /\ init' = "ready" /\ exec' = 0 /\ UNCHANGED kept
            /\ \E x \in {Absent, <<>>} : sc' = [sc EXCEPT ![0] = x]
  BY DEF Scripts!Probe, Absent
<1>2. SlotTypes /\ 0 \in Slot
  BY ScriptFacts DEF SlotInv
<1>3. /\ sc' \in [Slot -> Texts] /\ \A s \in Slot : s # 0 => sc'[s] = sc[s]
      /\ sc'[0] # sc[0] => sc[0] = Absent /\ legacy.script = <<>>
      /\ init' \in {"script", "ready"} /\ exec' \in 0..NSlots
      /\ (init' = "script" => sc[0] = Absent /\ exec' = exec) /\ (init' = "ready" => exec' = 0)
      /\ kept' = kept
  BY <1>1, <1>2, ScriptFacts DEF SlotTypes
<1>4. SlotTypes'
  BY <1>1, <1>2, <1>3 DEF SlotTypes
<1>5. LegacyInv'
  BY <1>1, <1>3 DEF SlotInv, LegacyInv
<1>6. SaveInv'
  <2>1. Pending => ~sure[op.slot]
    BY <1>1 DEF SlotInv, SaveInv
  <2>2. \A s \in Slot : sc'[s] # sc[s] => s = 0
    BY <1>3
  <2>3. Scripts!SavedWholly'
    BY <1>1, <1>3, <2>2 DEF SlotInv, SaveInv, Scripts!SavedWholly, Slot, Absent
  <2>4. QED  BY <1>1, <2>1, <2>3 DEF SlotInv, SaveInv, Pending
<1>7. VmInv'
  <2>1. \A s \in Slot : ~(s < 0)
    BY ScriptFacts
  <2>2. ~go /\ restarts = 0 /\ \A s \in Slot : vm[s] = <<>>
    BY <1>1, ScriptFacts DEF SlotInv, VmInv
  <2>3. QED  BY <1>1, <1>3, <2>1, <2>2 DEF SlotInv, VmInv
<1>8. QED  BY <1>4, <1>5, <1>6, <1>7 DEF SlotInv

LEMMA MigrateKeeps ==
  ASSUME SlotInv, Scripts!Migrate
  PROVE  SlotInv'
<1>1. PICK done \in BOOLEAN :
        \/ /\ init = "script" /\ init' = "enabled"
           /\ sc' = IF done THEN [sc EXCEPT ![0] = Scripts!Fit(legacy.script)] ELSE sc
           /\ kept' = (kept /\ done)
           /\ sure' = [sure EXCEPT ![0] = FALSE]
           /\ UNCHANGED <<en, legacy, exec>>
        \/ /\ init = "enabled" /\ init' = "erase"
           /\ en' = IF done THEN [en EXCEPT ![0] = legacy.enabled] ELSE en
           /\ sure' = [sure EXCEPT ![0] = FALSE]
           /\ UNCHANGED <<sc, legacy, exec, kept>>
        \/ /\ init = "erase" /\ init' = "ready" /\ exec' = 0
           /\ legacy' = IF done THEN [script |-> <<>>, enabled |-> FALSE] ELSE legacy
           /\ UNCHANGED <<sc, en, kept, sure>>
  BY DEF Scripts!Migrate
<1>2. UNCHANGED <<op, restarts, go, vm, old, saved, current>>
  BY DEF Scripts!Migrate
<1>3. SlotTypes /\ 0 \in Slot
  BY ScriptFacts DEF SlotInv
<1>4. sc' \in [Slot -> Texts] /\ en' \in [Slot -> BOOLEAN] /\ sure' \in [Slot -> BOOLEAN]
      /\ legacy' \in [script: Legacy \cup {<<>>}, enabled: BOOLEAN]
      /\ exec' \in 0..NSlots /\ init' \in {"enabled", "erase", "ready"}
  <2>1. Scripts!Fit(legacy.script) \in Texts /\ legacy.enabled \in BOOLEAN
    BY <1>3 DEF SlotTypes, Texts
  <2>2. [script |-> <<>>, enabled |-> FALSE] \in [script: Legacy \cup {<<>>}, enabled: BOOLEAN]
    OBVIOUS
  <2>3. [sc EXCEPT ![0] = Scripts!Fit(legacy.script)] \in [Slot -> Texts]
        /\ [en EXCEPT ![0] = legacy.enabled] \in [Slot -> BOOLEAN]
        /\ [sure EXCEPT ![0] = FALSE] \in [Slot -> BOOLEAN]
    BY <1>3, <2>1 DEF SlotTypes
  <2>4. exec \in 0..NSlots /\ 0 \in 0..NSlots
    BY <1>3, ScriptFacts DEF SlotTypes
  <2>5. QED  BY <1>1, <1>3, <2>2, <2>3, <2>4 DEF SlotTypes
<1>5. SlotTypes'
  BY <1>2, <1>3, <1>4 DEF SlotTypes
<1>6. LegacyInv'
  <2>1. CASE init = "script"
    <3>1. /\ init' = "enabled" /\ UNCHANGED legacy
          /\ kept' => kept /\ sc' = [sc EXCEPT ![0] = Scripts!Fit(legacy.script)]
      BY <1>1, <2>1
    <3>2. kept' => sc'[0] = Scripts!Fit(legacy.script)
      BY <1>3, <3>1 DEF SlotTypes
    <3>3. ASSUME kept', old' # <<>>
          PROVE  sc'[0] = Scripts!Fit(old) /\ sc'[0] # Absent /\ init' # "script"
      <4>1. kept /\ old # <<>>
        BY <1>2, <3>1, <3>3
      <4>2. legacy.script = old
        BY <2>1, <4>1 DEF SlotInv, LegacyInv
      <4>3. old \in Legacy
        BY <1>3 DEF SlotTypes
      <4>4. QED  BY <3>1, <3>2, <3>3, <4>2, <4>3, ScriptFacts
    <3>4. QED  BY <1>2, <3>3 DEF LegacyInv
  <2>2. CASE init = "enabled"
    BY <1>1, <1>2, <2>2 DEF SlotInv, LegacyInv
  <2>3. CASE init = "erase"
    BY <1>1, <1>2, <2>3 DEF SlotInv, LegacyInv
  <2>4. QED  BY <1>1, <2>1, <2>2, <2>3
<1>7. SaveInv'
  <2>1. Pending => ~sure[op.slot] /\ op.slot \in Slot
    BY <1>1, <1>3, NoOpIs DEF SlotInv, SaveInv, OpType
  <2>2. \A s \in Slot : s # 0 => sc'[s] = sc[s] /\ en'[s] = en[s]
    BY <1>1, <1>3 DEF SlotTypes
  <2>3. \A s \in Slot : (s # 0 => sure'[s] = sure[s]) /\ (sure'[s] => sure[s])
    BY <1>1, <1>3 DEF SlotTypes
  <2>4. init' # "ready" => ~sure'[0]
    BY <1>1, <1>3 DEF SlotTypes
  <2>5. init' = "ready" => UNCHANGED <<sc, en, sure>>
    BY <1>1
  <2>6. Pending' => ~sure'[op.slot]
    BY <1>2, <2>1, <2>3 DEF Pending
  <2>7. Scripts!SavedWholly'
    BY <1>2, <2>2, <2>3, <2>4, <2>5 DEF SlotInv, SaveInv, Scripts!SavedWholly, Slot
  <2>8. QED  BY <1>2, <2>6, <2>7 DEF SlotInv, SaveInv, Pending
<1>8. VmInv'
  <2>1. \A s \in Slot : ~(s < 0)
    BY ScriptFacts
  <2>2. ~go /\ restarts = 0 /\ \A s \in Slot : vm[s] = <<>>
    BY <1>1, ScriptFacts DEF SlotInv, VmInv
  <2>3. (init' = "ready" /\ exec' = 0) \/ (init' # "ready" /\ exec' = exec /\ init # "ready")
    BY <1>1
  <2>4. QED  BY <1>2, <2>1, <2>2, <2>3 DEF SlotInv, VmInv
<1>9. QED  BY <1>5, <1>6, <1>7, <1>8 DEF SlotInv

\* The portal: a request, its two writes, and the restart it asks for.
LEMMA RequestKeeps ==
  ASSUME SlotInv, NEW s \in Slot, NEW x \in Script \cup {<<>>}, NEW on \in BOOLEAN,
         NEW w \in {"script", "enabled"}, w = "script" => x \in Script,
         Scripts!Request(s, x, on, w)
  PROVE  SlotInv'
<1> DEFINE r == [script |-> IF w = "script" THEN Scripts!Fit(x) ELSE sc[s], enabled |-> on]
<1>1. /\ op = Scripts!NoOp /\ op' = [at |-> w, slot |-> s, script |-> x, enabled |-> on]
      /\ saved' = [saved EXCEPT ![s] = r]
      /\ sure' = [sure EXCEPT ![s] = (init = "ready")]
      /\ UNCHANGED <<sc, en, legacy, init, restarts, exec, go, vm, old, kept, current>>
  BY DEF Scripts!Request
<1>2. SlotTypes
  BY DEF SlotInv
<1>3. r \in Saved /\ r.enabled = on /\ r.script = IF w = "script" THEN Scripts!Fit(x) ELSE sc[s]
  BY <1>2, ScriptFacts DEF Saved, SlotTypes
<1> HIDE DEF r
<1>4. /\ saved' \in [Slot -> Saved] /\ saved'[s] = r /\ \A t \in Slot : t # s => saved'[t] = saved[t]
      /\ sure' \in [Slot -> BOOLEAN] /\ (sure'[s] => init = "ready")
      /\ \A t \in Slot : t # s => sure'[t] = sure[t]
  <2>1. (init = "ready") \in BOOLEAN
    OBVIOUS
  <2>2. QED  BY <1>1, <1>2, <1>3, <2>1 DEF SlotTypes
<1>5. op' \in OpType /\ op'.at = w /\ op'.slot = s /\ op'.script = x /\ op'.enabled = on
      /\ ~Pending /\ Pending'
  BY <1>1 DEF OpType, Pending, Scripts!NoOp
<1>6. SlotTypes'
  BY <1>1, <1>2, <1>4, <1>5 DEF SlotTypes
<1>7. LegacyInv'
  <2>1. saved'[0].script = Absent => saved[0].script = Absent \/ sc[0] = Absent
    <3>1. CASE s = 0
      BY <1>3, <1>4, <3>1, ScriptFacts
    <3>2. CASE s # 0
      BY <1>4, <3>2, ScriptFacts
    <3>3. QED  BY <3>1, <3>2
  <2>2. QED  BY <1>1, <2>1 DEF SlotInv, LegacyInv
<1>8. SaveInv'
  <2>1. Scripts!SavedWholly'
    <3>1. op' # Scripts!NoOp
      BY <1>5 DEF Pending, Scripts!NoOp
    <3>2. \A t \in Slot : sure[t] /\ saved[t].script # Absent => sc[t] = saved[t].script /\ en[t] = saved[t].enabled
      BY <1>1 DEF SlotInv, SaveInv, Scripts!SavedWholly, Slot, Absent
    <3>3. \A t \in Slot : op'.slot # t /\ sure'[t] /\ saved'[t].script # Absent
                             => sc[t] = saved'[t].script /\ en[t] = saved'[t].enabled
      BY <1>4, <1>5, <3>2
    <3>4. QED  BY <1>1, <3>1, <3>3 DEF Scripts!SavedWholly, Slot, Absent
  <2>2. /\ init' # "ready" => ~sure'[s]
        /\ w = "script" => saved'[s].script = Scripts!Fit(x)
        /\ saved'[s].enabled = on
        /\ w = "enabled" => sc'[s] = saved'[s].script
    BY <1>1, <1>3, <1>4
  <2>3. QED  BY <1>5, <2>1, <2>2 DEF SaveInv
<1>9. VmInv'
  BY <1>1, <1>5 DEF SlotInv, VmInv
<1>10. QED  BY <1>6, <1>7, <1>8, <1>9 DEF SlotInv

LEMMA WriteKeeps ==
  ASSUME SlotInv, Scripts!Write
  PROVE  SlotInv'
<1>1. PICK done \in BOOLEAN :
        /\ \/ /\ op.at = "script" /\ op' = [op EXCEPT !.at = "enabled"]
              /\ sc' = IF done THEN [sc EXCEPT ![op.slot] = Scripts!Fit(op.script)] ELSE sc
              /\ UNCHANGED en
           \/ /\ op.at = "enabled" /\ op' = [op EXCEPT !.at = "restart"]
              /\ en' = IF done THEN [en EXCEPT ![op.slot] = op.enabled] ELSE en
              /\ UNCHANGED sc
        /\ sure' = [sure EXCEPT ![op.slot] = sure[op.slot] /\ done]
  BY DEF Scripts!Write
<1>2. UNCHANGED <<legacy, init, restarts, exec, go, vm, old, saved, kept, current>>
  BY DEF Scripts!Write
<1>3. SlotTypes
  BY DEF SlotInv
<1>4. op \in OpType /\ Pending /\ op.slot \in Slot /\ op.script \in Script \cup {<<>>} /\ op.enabled \in BOOLEAN
  <2>1. Pending
    BY <1>1 DEF Pending
  <2>2. QED  BY <1>3, <2>1, NoOpIs DEF OpType
<1> DEFINE s == op.slot
<1>5. /\ op' \in OpType /\ op'.slot = s /\ op'.script = op.script /\ op'.enabled = op.enabled
      /\ op'.at = (IF op.at = "script" THEN "enabled" ELSE "restart") /\ Pending'
  BY <1>1, <1>4 DEF OpType, Pending
<1>6. /\ sure' \in [Slot -> BOOLEAN] /\ (sure'[s] => sure[s] /\ done)
      /\ \A t \in Slot : t # s => sure'[t] = sure[t]
  <2>1. (sure[s] /\ done) \in BOOLEAN
    OBVIOUS
  <2>2. QED  BY <1>1, <1>3, <1>4, <2>1 DEF SlotTypes
<1>7. sc' \in [Slot -> Texts] /\ en' \in [Slot -> BOOLEAN]
      /\ \A t \in Slot : t # s => sc'[t] = sc[t] /\ en'[t] = en[t]
  <2>1. Scripts!Fit(op.script) \in Texts
    BY <1>4 DEF Texts
  <2>2. QED  BY <1>1, <1>3, <1>4, <2>1 DEF SlotTypes
<1>8. /\ op.at = "script" => UNCHANGED en /\ (done => sc'[s] = Scripts!Fit(op.script)) /\ (~done => sc' = sc)
      /\ op.at = "enabled" => UNCHANGED sc /\ (done => en'[s] = op.enabled)
  BY <1>1, <1>3, <1>4 DEF SlotTypes
<1>9. SlotTypes'
  BY <1>2, <1>3, <1>5, <1>6, <1>7 DEF SlotTypes
<1>10. LegacyInv'
  <2>1. op.at = "script" => saved[s].script = Scripts!Fit(op.script)
    BY <1>4 DEF SlotInv, SaveInv
  <2>2. sc'[0] # sc[0] => sc'[0] = saved[0].script
    BY <1>1, <1>7, <1>8, <2>1, ScriptFacts
  <2>3. sc'[0] # sc[0] => sc'[0] # Absent
    BY <1>1, <1>4, <1>7, <1>8, <2>1, ScriptFacts
  <2>4. QED  BY <1>2, <2>2, <2>3 DEF SlotInv, LegacyInv
<1>11. SaveInv'
  <2>1. Scripts!SavedWholly'
    BY <1>2, <1>4, <1>5, <1>6, <1>7 DEF SlotInv, SaveInv, Scripts!SavedWholly, Slot, Pending, Scripts!NoOp
  <2>2. QED  BY <1>1, <1>2, <1>4, <1>5, <1>6, <1>8, <2>1 DEF SlotInv, SaveInv
<1>12. VmInv'
  BY <1>2, <1>5 DEF SlotInv, VmInv
<1>13. QED  BY <1>9, <1>10, <1>11, <1>12 DEF SlotInv

LEMMA RestartKeeps ==
  ASSUME SlotInv, Scripts!Restart
  PROVE  SlotInv'
<1>1. /\ op.at = "restart" /\ op' = Scripts!NoOp
      /\ UNCHANGED <<sc, en, legacy, init, exec, go, vm, old, saved, sure, kept>>
      /\ \/ init = "ready" /\ restarts' = restarts + 1
         \/ restarts' = restarts /\ ~current'
  BY DEF Scripts!Restart
<1>2. Pending /\ ~Pending' /\ restarts \in Nat
  BY <1>1 DEF Pending, Scripts!NoOp, SlotInv, SlotTypes
<1>3. SlotTypes' /\ LegacyInv'
  BY <1>1, <1>2 DEF SlotInv, SlotTypes, LegacyInv
<1>4. SaveInv'
  <2>1. Scripts!SavedWholly'
    BY <1>1, <1>2 DEF SlotInv, SaveInv, Scripts!SavedWholly
  <2>2. QED  BY <1>2, <2>1 DEF SaveInv
<1>5. VmInv'
  BY <1>1, <1>2 DEF SlotInv, VmInv
<1>6. QED  BY <1>3, <1>4, <1>5 DEF SlotInv

\* The berry task, and a loss of power.
LEMMA TaskKeeps ==
  ASSUME SlotInv, Scripts!TakeRestart \/ Scripts!ReadEnabled \/ Scripts!RunScript
  PROVE  SlotInv'
<1>1. /\ init = "ready" /\ UNCHANGED <<sc, en, legacy, init, op, old, saved, sure, kept, current>>
  BY DEF Scripts!TakeRestart, Scripts!ReadEnabled, Scripts!RunScript
<1>2. LegacyInv' /\ SaveInv'
  BY <1>1 DEF SlotInv, LegacyInv, SaveInv, Pending, Scripts!SavedWholly
<1>3. SlotTypes /\ NSlots \in Nat /\ exec \in Nat /\ exec <= NSlots
  BY ScriptFacts DEF SlotInv, SlotTypes
<1>4. CASE Scripts!TakeRestart
  <2>1. /\ exec = NSlots /\ restarts > 0 /\ restarts' = restarts - 1 /\ exec' = 0
        /\ vm' = [s \in Slot |-> <<>>] /\ go' = go
    BY <1>4 DEF Scripts!TakeRestart, Slot
  <2>2. SlotTypes'
    BY <1>1, <1>3, <2>1, ScriptFacts DEF SlotTypes
  <2>3. ~go /\ \A s \in Slot : ~(s < 0)
    BY <1>3, <2>1, ScriptFacts DEF SlotInv, VmInv
  <2>4. VmInv'
    BY <1>1, <2>1, <2>3 DEF VmInv
  <2>5. QED  BY <1>2, <2>2, <2>4 DEF SlotInv
<1>5. CASE Scripts!ReadEnabled
  <2>1. /\ exec < NSlots /\ ~go /\ go' = en[exec] /\ UNCHANGED <<restarts, vm>>
        /\ exec' = IF en[exec] THEN exec ELSE exec + 1
    BY <1>5 DEF Scripts!ReadEnabled
  <2>2. exec \in Slot /\ en[exec] \in BOOLEAN
    BY <1>3, <2>1 DEF SlotTypes, Slot, Scripts!Slot
  <2>3. exec' \in 0..NSlots /\ (go' => exec' < NSlots)
    BY <1>3, <2>1, <2>2
  <2>4. SlotTypes'
    BY <1>1, <1>3, <2>1, <2>2, <2>3 DEF SlotTypes
  <2>5. ASSUME restarts = 0, ~Pending, current, NEW s \in Slot
        PROVE  vm[s] = IF s < exec' THEN Wanted(s) ELSE <<>>
    <3>1. vm[s] = IF s < exec THEN Wanted(s) ELSE <<>>
      BY <1>1, <2>5 DEF SlotInv, VmInv
    <3>2. CASE en[exec]
      BY <2>1, <3>1, <3>2
    <3>3. CASE ~en[exec]
      <4>1. exec' = exec + 1 /\ s \in Nat
        BY <2>1, <3>3, ScriptFacts
      <4>2. CASE s = exec
        BY <3>1, <3>3, <4>1, <4>2, <1>3 DEF Wanted
      <4>3. CASE s # exec
        <5>1. s < exec' <=> s < exec
          BY <4>1, <4>3, <1>3
        <5>2. QED  BY <3>1, <5>1
      <4>4. QED  BY <4>2, <4>3
    <3>4. QED  BY <3>2, <3>3
  <2>6. go' => exec' = exec /\ en[exec]
    BY <2>1
  <2>7. VmInv'
    BY <1>1, <2>1, <2>3, <2>5, <2>6 DEF VmInv, Wanted, Pending
  <2>8. QED  BY <1>2, <2>4, <2>7 DEF SlotInv
<1>6. CASE Scripts!RunScript
  <2> DEFINE x == IF sc[exec] = Absent THEN <<>> ELSE sc[exec]
  <2>1. /\ exec < NSlots /\ go /\ ~go' /\ go' \in BOOLEAN /\ exec' = exec + 1 /\ UNCHANGED restarts
        /\ vm' = [vm EXCEPT ![exec] = x]
    BY <1>6 DEF Scripts!RunScript, Absent
  <2>2. exec \in Slot /\ x \in Texts \ {Absent}
    BY <1>3, <2>1, ScriptFacts DEF SlotTypes, Slot, Scripts!Slot
  <2> HIDE DEF x
  <2>3. /\ vm' \in [Slot -> Texts \ {Absent}] /\ vm'[exec] = x /\ \A s \in Slot : s # exec => vm'[s] = vm[s]
        /\ exec' \in 0..NSlots
    BY <1>3, <2>1, <2>2 DEF SlotTypes
  <2>4. SlotTypes'
    BY <1>1, <1>3, <2>1, <2>3 DEF SlotTypes
  <2>5. ASSUME restarts = 0, ~Pending, current, NEW s \in Slot
        PROVE  vm'[s] = IF s < exec' THEN Wanted(s) ELSE <<>>
    <3>1. en[exec] /\ vm[s] = IF s < exec THEN Wanted(s) ELSE <<>>
      BY <1>1, <2>1, <2>5 DEF SlotInv, VmInv
    <3>2. CASE s = exec
      BY <1>3, <2>1, <2>3, <3>1, <3>2 DEF Wanted, x
    <3>3. CASE s # exec
      <4>1. s < exec' <=> s < exec
        BY <1>3, <2>1, <3>3, ScriptFacts
      <4>2. QED  BY <2>3, <3>1, <3>3, <4>1
    <3>4. QED  BY <3>2, <3>3
  <2>6. VmInv'
    BY <1>1, <2>1, <2>5 DEF VmInv, Wanted, Pending
  <2>7. QED  BY <1>2, <2>4, <2>6 DEF SlotInv
<1>7. QED  BY <1>4, <1>5, <1>6

LEMMA PowerKeeps ==
  ASSUME SlotInv, Scripts!PowerLoss
  PROVE  SlotInv'
<1>1. /\ init' = "probe" /\ op' = Scripts!NoOp /\ restarts' = 0 /\ exec' = NSlots
      /\ go' = FALSE /\ vm' = [s \in Slot |-> <<>>]
      /\ sure' = IF op = Scripts!NoOp THEN sure ELSE [sure EXCEPT ![op.slot] = FALSE]
      /\ UNCHANGED <<sc, en, legacy, old, saved, kept>>
  BY DEF Scripts!PowerLoss, Slot
<1>2. SlotTypes /\ ~Pending' /\ NSlots \in 0..NSlots
  BY <1>1, ScriptFacts DEF SlotInv, Pending, Scripts!NoOp
<1>3. /\ sure' \in [Slot -> BOOLEAN] /\ \A s \in Slot : sure'[s] => sure[s]
      /\ op # Scripts!NoOp => op.slot \in Slot /\ ~sure'[op.slot]
  <2>1. op # Scripts!NoOp => op.slot \in Slot
    BY <1>2, NoOpIs DEF OpType
  <2>2. QED  BY <1>1, <1>2, <2>1 DEF SlotTypes
<1>4. SlotTypes'
  <2>1. vm' \in [Slot -> Texts \ {Absent}] /\ go' \in BOOLEAN
    BY <1>1, ScriptFacts
  <2>2. QED  BY <1>1, <1>2, <1>3, <2>1 DEF SlotTypes
<1>5. LegacyInv'
  BY <1>1 DEF SlotInv, LegacyInv
<1>6. SaveInv'
  <2>1. Scripts!SavedWholly'
    BY <1>1, <1>3 DEF SlotInv, SaveInv, Scripts!SavedWholly, Slot
  <2>2. QED  BY <1>2, <2>1 DEF SaveInv
<1>7. VmInv'
  BY <1>1, ScriptFacts DEF VmInv
<1>8. QED  BY <1>4, <1>5, <1>6, <1>7 DEF SlotInv

LEMMA SlotSteps ==
  /\ MCInit => Scripts!Init
  /\ [MCNext]_<<part, clockvars, edgevars>> => [Scripts!Next]_slotvars
<1>1. MCNext => [Scripts!Next]_slotvars
  BY DEF MCNext, EdgeNext, ClockNext, edgevars, slotvars
<1>2. QED  BY <1>1 DEF MCInit, EdgeInit, edgevars, slotvars

LEMMA SlotStep ==
  ASSUME SlotInv, [Scripts!Next]_slotvars
  PROVE  SlotInv'
<1>1. CASE UNCHANGED slotvars
  BY <1>1 DEF slotvars, SlotInv, SlotTypes, LegacyInv, SaveInv, VmInv, Scripts!SavedWholly, Pending, Wanted
<1>2. ASSUME NEW s \in Slot, NEW on \in BOOLEAN, Scripts!SetEnabled(s, on)
      PROVE  SlotInv'
  BY <1>2, RequestKeeps DEF Scripts!SetEnabled
<1>3. ASSUME NEW s \in Slot, NEW x \in Script, NEW on \in BOOLEAN, Scripts!SlotSave(s, x, on)
      PROVE  SlotInv'
  BY <1>3, RequestKeeps DEF Scripts!SlotSave
<1>4. ASSUME NEW x \in Script, Scripts!SaveScript(x)
      PROVE  SlotInv'
  <2>1. 0 \in Slot /\ en[0] \in BOOLEAN
    BY ScriptFacts DEF SlotInv, SlotTypes
  <2>2. QED  BY <1>4, <2>1, RequestKeeps DEF Scripts!SaveScript
<1>5. QED
  BY <1>1, <1>2, <1>3, <1>4, ProbeKeeps, MigrateKeeps, WriteKeeps, RestartKeeps, TaskKeeps, PowerKeeps
  DEF Scripts!Next, Slot

\* The script of an earlier release is not lost, a save that was not cut off holds script
\* and flag of the same save, and the interpreter ends up with the scripts of exactly the
\* slots that are enabled (migrate_legacy_slot, berry_slot_save, run_autoexec).
THEOREM ScriptsAlwaysHold == MCSpec => []ScriptsHold
<1>1. SlotInv => ScriptsHold
  <2> SUFFICES ASSUME SlotInv
               PROVE  Scripts!LegacyKept /\ Scripts!SavedWholly /\ Scripts!SettledRunsEnabled
    BY DEF ScriptsHold, Scripts!ScriptsHold
  <2>1. Scripts!LegacyKept
    BY DEF SlotInv, LegacyInv, Scripts!LegacyKept, Absent
  <2>2. Scripts!SettledRunsEnabled
    <3>1. ASSUME init = "ready", exec = NSlots, restarts = 0, op = Scripts!NoOp, current, NEW s \in Slot
          PROVE  vm[s] = Wanted(s)
      BY <3>1, NoOpIs, ScriptFacts DEF SlotInv, VmInv
    <3>2. QED  BY <3>1 DEF Scripts!SettledRunsEnabled, Wanted, Slot, Absent
  <2>3. QED  BY <2>1, <2>2 DEF SlotInv, SaveInv
<1>2. QED  BY <1>1, SlotStep, SlotsInit, SlotSteps, PTL DEF MCSpec

-----------------------------------------------------------------------------
(* The settings form.  The fields the handler has written hold what was     *)
(* asked of them; those it has not come to hold what they held.             *)

Field == Form!Field
Written == Form!Written

Fine(f) ==
  /\ Form!Whole(f) => Form!Holds(f)
  /\ f \notin Form!Boxes /\ f \notin DOMAIN seen => cfg[f] = before[f]
  /\ f \in Form!KeptWhenEmpty => cfg[f] = before[f] \/ cfg[f] # ""

\* The fields the handler has come to hold what they may; the others what they held.
FormInv ==
  /\ DOMAIN cfg = Field /\ form \in Forms
  /\ field \in 0..23 /\ buffer \in Nat /\ buffer >= 1024
  /\ state = "rebooting" => field = 23
  /\ \A i \in 1..23 : IF i <= field THEN Fine(Written[i]) ELSE cfg[Written[i]] = before[Written[i]]

\* The handler comes to each field once.
Nth ==
  [hostname |-> 1, mqtt_port |-> 2, buf_size |-> 3, auth_user |-> 4, auth_pass |-> 5, ap_ssid |-> 6,
   ap_pass |-> 7, ap_ip |-> 8, ap_enabled |-> 9, retain_en |-> 10, retain_ttl_h |-> 11,
   napt_en |-> 12, echo_en |-> 13, echo_count |-> 14, echo_window |-> 15, ntp_en |-> 16,
   ntp_srv_en |-> 17, ntp_up0 |-> 18, ntp_up1 |-> 19, ntp_up2 |-> 20, ntp_poll |-> 21,
   ntp_tz |-> 22, ntp_accept_set |-> 23]

LEMMA EachFieldOnce ==
  /\ Len(Written) = 23
  /\ \A f \in Field : Nth[f] \in 1..23 /\ Written[Nth[f]] = f
  /\ \A i \in 1..23 : Written[i] \in Field /\ Nth[Written[i]] = i
<1>1. Len(Written) = 23
  BY DEF Written, Form!Written
<1>2. \A f \in Field : Nth[f] \in 1..23 /\ Written[Nth[f]] = f
  BY DEF Written, Form!Written, Nth, Field, Form!Field, Form!Texts, Form!Numbers, Form!Boxes
<1>3. \A i \in 1..23 :
        \/ i = 1 \/ i = 2 \/ i = 3 \/ i = 4 \/ i = 5 \/ i = 6 \/ i = 7 \/ i = 8 \/ i = 9 \/ i = 10
        \/ i = 11 \/ i = 12 \/ i = 13 \/ i = 14 \/ i = 15 \/ i = 16 \/ i = 17 \/ i = 18 \/ i = 19
        \/ i = 20 \/ i = 21 \/ i = 22 \/ i = 23
  OBVIOUS
<1>4. \A i \in 1..23 : Written[i] \in Field /\ Nth[Written[i]] = i
  BY <1>3 DEF Written, Form!Written, Nth, Field, Form!Field, Form!Texts, Form!Numbers, Form!Boxes
<1>5. QED  BY <1>1, <1>2, <1>4

LEMMA FormInit == Form!Init => FormInv
<1> SUFFICES ASSUME Form!Init PROVE FormInv
  OBVIOUS
<1>1. DOMAIN cfg = Field /\ before = cfg /\ form \in Forms /\ field = 0 /\ state = "serving"
      /\ buffer = 16384
  BY DEF Form!Init, Form!Factory, Field, Form!BufDefault
<1>2. \A i \in 1..23 : ~(i <= 0)
  OBVIOUS
<1>3. QED  BY <1>1, <1>2 DEF FormInv

\* The ranges of the numbers, and what fits 16 bits.
Ports == 1..Form!PortMax
Sizes == 1024..Form!BufMax
Counts == 1..255
Windows == 1..3600
Hours == 0..Form!TtlMax
Polls == 64..Form!PollMax
Narrow(v) == v \in Nat /\ v < Form!BufMax

LEMMA Ranges ==
  /\ Form!PortMax \in Nat /\ Form!BufMax \in Nat /\ Form!TtlMax \in Nat /\ Form!PollMax \in Nat
  /\ Form!PortMax < Form!BufMax /\ Form!BufMax < Form!PollMax /\ Form!TtlMax < Form!PollMax
  /\ 16384 < Form!BufMax
BY DEF Form!PortMax, Form!BufMax, Form!TtlMax, Form!PollMax

LEMMA NarrowStays == \A f : \A v : Narrow(v) => Form!Stored(f, v) = v
<1>1. \A n \in Nat : n < 65536 => n % 65536 = n
  OBVIOUS
<1>2. QED  BY <1>1 DEF Narrow, Form!Stored, Form!BufMax

LEMMA Widths ==
  /\ \A v \in Form!Allowed["mqtt_port"] : Narrow(v)
  /\ \A v \in Form!Allowed["echo_count"] : Narrow(v)
  /\ \A v \in Form!Allowed["echo_window"] : Narrow(v)
  /\ \A v \in Form!Allowed["buf_size"] : v # Form!BufMax => Narrow(v)
<1>1. /\ Form!Allowed["mqtt_port"] = Ports /\ Form!Allowed["buf_size"] = Sizes
      /\ Form!Allowed["echo_count"] = Counts /\ Form!Allowed["echo_window"] = Windows
  BY DEF Form!Allowed, Ports, Sizes, Counts, Windows
<1>2. \A v \in Ports : Narrow(v)
  BY Ranges DEF Narrow, Ports
<1>3. \A v \in Counts : Narrow(v)
  BY Ranges DEF Narrow, Counts
<1>4. \A v \in Windows : Narrow(v)
  BY Ranges DEF Narrow, Windows
<1>5. \A v \in Sizes : v # Form!BufMax => Narrow(v)
  BY Ranges DEF Narrow, Sizes
<1>6. \A v \in Form!Allowed["mqtt_port"] : Narrow(v)
  BY <1>1, <1>2
<1>7. \A v \in Form!Allowed["echo_count"] : Narrow(v)
  BY <1>1, <1>3
<1>8. \A v \in Form!Allowed["echo_window"] : Narrow(v)
  BY <1>1, <1>4
<1>9. \A v \in Form!Allowed["buf_size"] : v # Form!BufMax => Narrow(v)
  BY <1>1, <1>5
<1>10. QED  BY <1>6, <1>7, <1>8, <1>9

\* A number the handler takes is stored as it is, the largest buffer size excepted.
LEMMA StoredAsAsked ==
  \A f \in Form!Numbers : \A v \in Form!Allowed[f] :
    Form!Stored(f, v) = v \/ (f = "buf_size" /\ v = Form!BufMax)
<1>1. \A f : f \notin Form!Width16 => \A v : Form!Stored(f, v) = v
  BY DEF Form!Stored
<1>2. \A f \in Form!Width16 : f \in {"mqtt_port", "buf_size", "echo_count", "echo_window"}
  BY DEF Form!Width16
<1>3. \A f : f # "buf_size" /\ f \in Form!Width16 => \A v \in Form!Allowed[f] : Form!Stored(f, v) = v
  BY <1>2, Widths, NarrowStays
<1>4. \A v \in Form!Allowed["buf_size"] : v # Form!BufMax => Form!Stored("buf_size", v) = v
  BY Widths, NarrowStays
<1>5. QED  BY <1>1, <1>3, <1>4

\* A field stays as it is while neither it nor what is known of the form changes.
LEMMA FieldStill ==
  ASSUME NEW f, cfg'[f] = cfg[f], UNCHANGED <<form, seen, before>>
  PROVE  Fine(f)' <=> Fine(f)
<1>1. Form!Whole(f)' <=> Form!Whole(f)
  BY DEF Form!Whole
<1>2. Form!Asked(f)' = Form!Asked(f)
  BY DEF Form!Asked
<1>3. Form!Holds(f)' <=> Form!Holds(f)
  BY <1>2 DEF Form!Holds
<1>4. QED  BY <1>1, <1>3 DEF Fine

\* What a write must do for its field.
Largest(f) == f = "buf_size" /\ form[f] = Form!BufMax

Better(f) ==
  /\ Form!Whole(f) => cfg'[f] = Form!Asked(f) \/ Largest(f)
  /\ f \notin Form!Boxes /\ f \notin DOMAIN seen => cfg'[f] = before[f]
  /\ f \in Form!KeptWhenEmpty => cfg'[f] = before[f] \/ cfg'[f] # ""

LEMMA FieldFine ==
  ASSUME NEW f, UNCHANGED <<form, seen, before>>
  PROVE  Better(f) => Fine(f)'
<1>1. Form!Whole(f)' <=> Form!Whole(f)
  BY DEF Form!Whole
<1>2. Form!Asked(f)' = Form!Asked(f)
  BY DEF Form!Asked
<1>3. Form!Holds(f)' <=> cfg'[f] = Form!Asked(f) \/ Largest(f)
  BY <1>2 DEF Form!Holds, Largest
<1>4. QED  BY <1>1, <1>3 DEF Better, Fine

\* What is asked of a field: of a box, of a number, of a text.
LEMMA AskedBox ==
  ASSUME NEW f \in Form!Boxes
  PROVE  Form!Asked(f) = form[f]
<1>1. f \notin Form!Numbers /\ f \notin {"auth_pass", "ap_pass", "ap_ssid", "hostname", "ap_ip"}
      /\ f \notin {"hostname", "ap_ip", "ap_pass"} /\ f # "ntp_tz"
  BY DEF Form!Numbers, Form!Boxes
<1>2. QED  BY <1>1 DEF Form!Asked

LEMMA AskedNumber ==
  ASSUME NEW f \in Form!Numbers
  PROVE  Form!Asked(f) = IF form[f] \in Form!Allowed[f] THEN form[f] ELSE before[f]
<1>1. f \notin Form!Boxes /\ f \notin {"auth_pass", "ap_pass", "ap_ssid", "hostname", "ap_ip"}
      /\ f \notin {"hostname", "ap_ip", "ap_pass"} /\ f # "ntp_tz"
  BY DEF Form!Numbers, Form!Boxes
<1>2. CASE form[f] \in Form!Allowed[f]
  BY <1>1, <1>2 DEF Form!Asked
<1>3. CASE form[f] \notin Form!Allowed[f]
  BY <1>1, <1>3 DEF Form!Asked
<1>4. QED  BY <1>2, <1>3

\* A secret left empty, or a text that breaks its rule.
Refused(f) ==
  \/ f \in {"auth_pass", "ap_pass", "ap_ssid", "hostname", "ap_ip"} /\ form[f] = ""
  \/ f \in {"hostname", "ap_ip", "ap_pass"} /\ form[f] = "bad"

LEMMA AskedText ==
  ASSUME NEW f \in Form!Texts
  PROVE  Form!Asked(f) = IF Refused(f) THEN before[f]
                         ELSE IF f = "ntp_tz" /\ form[f] = "" THEN "UTC0" ELSE form[f]
<1>1. f \notin Form!Boxes /\ f \notin Form!Numbers
  BY DEF Form!Numbers, Form!Boxes, Form!Texts
<1>2. CASE f \in {"auth_pass", "ap_pass", "ap_ssid", "hostname", "ap_ip"} /\ form[f] = ""
  BY <1>1, <1>2 DEF Form!Asked, Refused
<1>3. CASE /\ ~(f \in {"auth_pass", "ap_pass", "ap_ssid", "hostname", "ap_ip"} /\ form[f] = "")
           /\ f \in {"hostname", "ap_ip", "ap_pass"} /\ form[f] = "bad"
  BY <1>1, <1>3 DEF Form!Asked, Refused
<1>4. CASE ~Refused(f) /\ f = "ntp_tz" /\ form[f] = ""
  BY <1>1, <1>4 DEF Form!Asked, Refused
<1>5. CASE ~Refused(f) /\ ~(f = "ntp_tz" /\ form[f] = "")
  BY <1>1, <1>5 DEF Form!Asked, Refused
<1>6. QED  BY <1>2, <1>3, <1>4, <1>5 DEF Refused

\* A write does that, and touches no other field.
LEMMA FieldSaved ==
  ASSUME FormInv, NEW f \in Field, cfg[f] = before[f], Form!Save(f),
         UNCHANGED <<form, seen, before>>
  PROVE  /\ DOMAIN cfg' = Field /\ \A g \in Field : g # f => cfg'[g] = cfg[g]
         /\ Fine(f)'
<1>1. DOMAIN cfg = Field /\ form \in Forms
  BY DEF FormInv
<1> DEFINE v == seen[f]  found == f \in DOMAIN seen
           put == CASE f \in Form!Numbers -> Form!Stored(f, v)
                    [] f = "ntp_tz" /\ v = "" -> "UTC0"
                    [] OTHER -> v
<1>2. \/ f \in Form!Boxes /\ cfg' = [cfg EXCEPT ![f] = found /\ v]
      \/ f \notin Form!Boxes /\ found /\ Form!Accepted(f, v) /\ cfg' = [cfg EXCEPT ![f] = put]
      \/ f \notin Form!Boxes /\ ~(found /\ Form!Accepted(f, v)) /\ cfg' = cfg
  BY DEF Form!Save
<1>3. Form!Whole(f) => found /\ v = form[f]
  BY DEF Form!Whole
<1>4. CASE f \in Form!Boxes
  <2>1. cfg' = [cfg EXCEPT ![f] = found /\ v]
    BY <1>2, <1>4
  <2>2. DOMAIN cfg' = Field /\ (cfg'[f] = (found /\ v)) /\ \A g \in Field : g # f => cfg'[g] = cfg[g]
    BY <1>1, <2>1
  <2>3. form[f] \in BOOLEAN
    BY <1>1, <1>4, FormsTicked DEF Form!SettingsAssumption
  <2>4. found /\ v = form[f] => (found /\ v) = form[f]
    BY <2>3
  <2>5. Form!Asked(f) = form[f]
    BY <1>4, AskedBox
  <2>6. Form!Whole(f) => cfg'[f] = Form!Asked(f)
    BY <1>3, <2>2, <2>4, <2>5
  <2>7. f \notin Form!KeptWhenEmpty
    BY <1>4 DEF Form!Boxes, Form!KeptWhenEmpty
  <2>8. DOMAIN cfg' = Field /\ \A g \in Field : g # f => cfg'[g] = cfg[g]
    BY <2>2
  <2>9. Better(f)
    BY <1>4, <2>6, <2>7 DEF Better
  <2>10. QED  BY <2>8, <2>9, FieldFine
<1>5. CASE f \notin Form!Boxes /\ found /\ Form!Accepted(f, v)
  <2>1. cfg' = [cfg EXCEPT ![f] = put]
    BY <1>2, <1>5
  <2>2. DOMAIN cfg' = Field /\ cfg'[f] = put /\ \A g \in Field : g # f => cfg'[g] = cfg[g]
    BY <1>1, <2>1
  <2>3. CASE f \in Form!Numbers
    <3>1. v \in Form!Allowed[f]
      BY <1>5, <2>3 DEF Form!Accepted
    <3>2. put = Form!Stored(f, v)
      <4>1. f # "ntp_tz"
        BY <2>3 DEF Form!Numbers
      <4>2. QED  BY <2>3, <4>1
    <3>3. ~(f = "buf_size" /\ v = Form!BufMax) => put = v
      <4>1. Form!Stored(f, v) = v \/ (f = "buf_size" /\ v = Form!BufMax)
        BY <2>3, <3>1, StoredAsAsked
      <4> HIDE DEF put
      <4>2. QED  BY <3>2, <4>1
    <3>4. v = form[f] => Form!Asked(f) = v
      BY <2>3, <3>1, AskedNumber
    <3>5. f \notin Form!KeptWhenEmpty
      BY <2>3 DEF Form!Numbers, Form!KeptWhenEmpty
    <3> HIDE DEF put
    <3>6. Form!Whole(f) => cfg'[f] = Form!Asked(f) \/ Largest(f)
      BY <1>3, <2>2, <3>3, <3>4 DEF Largest
    <3>7. Better(f)
      BY <1>5, <3>5, <3>6 DEF Better
    <3>8. QED  BY <2>2, <3>7, FieldFine
  <2>4. CASE f \notin Form!Numbers
    <3>1. f \in Form!Texts
      BY <1>5, <2>4 DEF Field, Form!Field
    <3>2. put = IF f = "ntp_tz" /\ v = "" THEN "UTC0" ELSE v
      <4>1. CASE f = "ntp_tz" /\ v = ""
        BY <2>4, <4>1
      <4>2. CASE ~(f = "ntp_tz" /\ v = "")
        BY <2>4, <4>2
      <4>3. QED  BY <4>1, <4>2
    <3>3. /\ f \in Form!KeptWhenEmpty \cup Form!Checked => v # ""
          /\ f \in Form!Checked => v # "bad"
      BY <1>5 DEF Form!Accepted
    <3>4. v = form[f] => ~Refused(f)
      BY <3>3 DEF Refused, Form!KeptWhenEmpty, Form!Checked
    <3>5. v = form[f] => Form!Asked(f) = put
      BY <3>1, <3>2, <3>4, AskedText
    <3>6. f \in Form!KeptWhenEmpty => put # ""
      BY <3>2, <3>3
    <3> HIDE DEF put
    <3>7. Form!Whole(f) => cfg'[f] = Form!Asked(f)
      BY <1>3, <2>2, <3>5
    <3>8. f \in Form!KeptWhenEmpty => cfg'[f] # ""
      BY <2>2, <3>6
    <3>9. Better(f)
      BY <1>5, <3>7, <3>8 DEF Better
    <3>10. QED  BY <2>2, <3>9, FieldFine
  <2>5. QED  BY <2>3, <2>4
<1>6. CASE f \notin Form!Boxes /\ ~(found /\ Form!Accepted(f, v))
  <2>1. cfg' = cfg
    BY <1>2, <1>6
  <2>2. Form!Whole(f) => Form!Asked(f) = before[f]
    <3>1. CASE f \in Form!Numbers
      <4>1. f \notin Form!KeptWhenEmpty \cup Form!Checked
        BY <3>1 DEF Form!Numbers, Form!KeptWhenEmpty, Form!Checked
      <4>2. Form!Whole(f) => form[f] \notin Form!Allowed[f]
        BY <1>3, <1>6, <4>1 DEF Form!Accepted
      <4>3. QED  BY <3>1, <4>2, AskedNumber
    <3>2. CASE f \notin Form!Numbers
      <4>1. f \in Form!Texts
        BY <1>6, <3>2 DEF Field, Form!Field
      <4>2. Form!Whole(f) => Refused(f)
        BY <1>3, <1>6, <3>2 DEF Form!Accepted, Refused, Form!KeptWhenEmpty, Form!Checked
      <4>3. QED  BY <4>1, <4>2, AskedText
    <3>3. QED  BY <3>1, <3>2
  <2>3. Better(f)
    BY <2>1, <2>2 DEF Better
  <2>4. QED  BY <1>1, <2>1, <2>3, FieldFine
<1>7. QED  BY <1>4, <1>5, <1>6

LEMMA FormStep == FormInv /\ [Form!Next]_formvars => FormInv'
<1> SUFFICES ASSUME FormInv, [Form!Next]_formvars PROVE FormInv'
  OBVIOUS
\* What leaves the fields, the form and what was found of it alone.
<1>1. ASSUME UNCHANGED <<cfg, form, seen, field, before>>, buffer' \in Nat, buffer' >= 1024,
             state' = "rebooting" => field = 23
      PROVE  FormInv'
  <2>1. \A i \in 1..23 : Fine(Written[i])' <=> Fine(Written[i])
    BY <1>1, FieldStill
  <2>2. \A i \in 1..23 : IF i <= field' THEN Fine(Written[i])' ELSE cfg'[Written[i]] = before'[Written[i]]
    BY <1>1, <2>1 DEF FormInv
  <2>3. QED  BY <1>1, <2>2 DEF FormInv
<1>2. ASSUME NEW n \in 1..Len(Form!Page), Form!Request(n)
      PROVE  FormInv'
  <2>1. before' = cfg /\ cfg' = cfg /\ field' = 0 /\ form' \in Forms /\ state' = "saving" /\ buffer' = buffer
    BY <1>2 DEF Form!Request
  <2>2. \A i \in 1..23 : ~(i <= 0)
    OBVIOUS
  <2>3. QED  BY <2>1, <2>2 DEF FormInv
<1>3. CASE Form!SaveNext
  <2>1. /\ field < Len(Written) /\ Form!Save(Written[field + 1]) /\ field' = field + 1 /\ state = "saving"
        /\ UNCHANGED <<buffer, form, seen, state, before>>
    BY <1>3 DEF Form!SaveNext, Written
  <2>2. field + 1 \in 1..23 /\ field \in 0..23 /\ field' \in 0..23 /\ ~(field + 1 <= field)
    BY <2>1, EachFieldOnce DEF FormInv
  <2>3. PICK f \in Field : f = Written[field + 1] /\ cfg[f] = before[f]
    BY <2>2, EachFieldOnce DEF FormInv
  <2>4. \A i \in 1..23 : i # field + 1 => Written[i] \in Field /\ Written[i] # f
    BY <2>2, <2>3, EachFieldOnce
  <2>5. Form!Save(f)
    BY <2>1, <2>3
  <2>6. DOMAIN cfg' = Field /\ Fine(f)' /\ \A g \in Field : g # f => cfg'[g] = cfg[g]
    BY <2>1, <2>3, <2>5, FieldSaved
  <2>7. ASSUME NEW i \in 1..23
        PROVE  IF i <= field' THEN Fine(Written[i])' ELSE cfg'[Written[i]] = before'[Written[i]]
    <3>1. CASE i = field + 1
      <4>1. Written[i] = f /\ i <= field'
        BY <2>1, <2>2, <2>3, <3>1
      <4>2. QED  BY <2>6, <4>1
    <3>2. CASE i # field + 1
      <4>1. cfg'[Written[i]] = cfg[Written[i]]
        BY <2>4, <2>6, <3>2
      <4>2. i <= field' <=> i <= field
        BY <2>1, <2>2, <3>2
      <4>3. IF i <= field THEN Fine(Written[i]) ELSE cfg[Written[i]] = before[Written[i]]
        BY DEF FormInv
      <4>4. Fine(Written[i])' <=> Fine(Written[i])
        BY <2>1, <4>1, FieldStill
      <4>5. QED  BY <2>1, <4>1, <4>2, <4>3, <4>4
    <3>3. QED  BY <3>1, <3>2
  <2>8. QED  BY <2>1, <2>2, <2>6, <2>7 DEF FormInv
<1>4. CASE Form!Answer
  <2>1. UNCHANGED <<cfg, form, seen, field, before, buffer>> /\ field = 23
    BY <1>4, EachFieldOnce DEF Form!Answer, Written
  <2>2. QED  BY <1>1, <2>1 DEF FormInv
<1>5. CASE Form!Boot
  <2>1. \A n : Form!BootBuffer(n) \in Nat /\ Form!BootBuffer(n) >= 1024
    <3>1. \A n : Form!BootBuffer(n) = IF n \in Sizes THEN n ELSE 16384
      BY DEF Form!BootBuffer, Form!BufDefault, Sizes
    <3>2. \A n \in Sizes : n \in Nat /\ n >= 1024
      BY Ranges DEF Sizes
    <3>3. QED  BY <3>1, <3>2
  <2>2. UNCHANGED <<cfg, form, seen, field, before>> /\ state' = "serving"
        /\ buffer' = Form!BootBuffer(cfg["buf_size"])
    BY <1>5 DEF Form!Boot
  <2>3. QED  BY <1>1, <2>1, <2>2
<1>6. CASE UNCHANGED formvars
  <2>1. UNCHANGED <<cfg, form, seen, field, before, buffer, state>>
    BY <1>6 DEF formvars
  <2>2. QED  BY <1>1, <2>1 DEF FormInv
<1>7. QED  BY <1>2, <1>3, <1>4, <1>5, <1>6 DEF Form!Next

\* While another part runs, the form stands still.
LEMMA FormSteps ==
  /\ MCInit => (part = "settings" => FormInv)
  /\ [MCNext]_<<part, clockvars, edgevars>> => [Form!Next]_formvars /\ UNCHANGED part
<1>1. MCNext => [Form!Next]_formvars
  BY DEF MCNext, EdgeNext, ClockNext, edgevars, formvars
<1>2. MCNext => UNCHANGED part
  BY DEF MCNext, EdgeNext, ClockNext
<1>3. MCInit => (part = "settings" => FormInv)
  BY FormInit DEF MCInit, EdgeInit
<1>4. QED  BY <1>1, <1>2, <1>3 DEF edgevars, formvars

\* However a form is cut and whenever power fails, a field holds what it held or what was
\* asked of it, and a whole form is saved whole (/save-settings).
THEOREM FormsKept == MCSpec => []SettingsHold
<1> DEFINE Inv == part = "settings" => FormInv
<1>1. Inv => SettingsHold
  <2> SUFFICES ASSUME FormInv PROVE Form!SettingsKept /\ Form!WholeFormSaved
    BY DEF SettingsHold
  <2>1. \A f \in Field : Fine(f) \/ cfg[f] = before[f]
    BY EachFieldOnce DEF FormInv
  <2>2. Form!SettingsKept
    <3>1. \A f \in Form!KeptWhenEmpty : f \in Field
      BY DEF Form!KeptWhenEmpty, Field, Form!Field, Form!Texts
    <3>2. buffer >= 1024
      BY DEF FormInv
    <3>3. \A f \in Form!Field : Form!Whole(f) => Form!Holds(f) \/ cfg[f] = before[f]
      BY <2>1 DEF Fine, Field
    <3>4. \A f \in Form!Field \ Form!Boxes : f \notin DOMAIN seen => cfg[f] = before[f]
      BY <2>1 DEF Fine, Field
    <3>5. \A f \in Form!KeptWhenEmpty : form[f] = "" => cfg[f] # "" \/ before[f] = ""
      BY <2>1, <3>1 DEF Fine
    <3>6. QED  BY <3>2, <3>3, <3>4, <3>5 DEF Form!SettingsKept
  <2>3. Form!WholeFormSaved
    <3>1. state = "rebooting" => \A i \in 1..23 : Fine(Written[i])
      BY DEF FormInv
    <3>2. state = "rebooting" => \A f \in Field : Fine(f)
      BY <3>1, EachFieldOnce
    <3>3. QED  BY <3>2 DEF Form!WholeFormSaved, Fine, Field
  <2>4. QED  BY <2>2, <2>3
<1>2. MCInit => Inv
  BY FormSteps
<1>3. Inv /\ [MCNext]_<<part, clockvars, edgevars>> => Inv'
  BY FormStep, FormSteps
<1>4. QED  BY <1>1, <1>2, <1>3, PTL DEF MCSpec

-----------------------------------------------------------------------------
(* Echo detection.  Of a topic in the table and what was heard of it: the   *)
(* window is counted in full, and neither it nor what is left of the one    *)
(* before it holds as many publishes as flag the topic, unless it has one.  *)

Begun(e) == e.start + e.round * EchoWrap
Lapsed(e, now) == (now % EchoWrap) - e.start > Window

EntryType(det) == [count: Nat, start: 0..(EchoWrap - 1), round: Nat, detected_at: 0..det]
HeardBy(now) == [at: 0..now, number: Nat]

Within(e, H) == {p \in H : p.at >= Begun(e)}
This(e, H, since) == {p \in H : p.at >= Begun(e) /\ p.at > since}
Last(e, H, since) == {p \in H : p.at < Begun(e) /\ p.at > since}
Now(H, now) == {p \in H : p.at = now}

Heard(e, H, now) ==
  /\ H \subseteq HeardBy(now) /\ IsFiniteSet(H)
  /\ \A p \in H : now - p.at <= Window
  /\ \A p \in Now(H, now) : p.number <= Cardinality(Now(H, now)) /\ ~Lapsed(e, now)

CountedFully(e, H, now) == now - Begun(e) <= Window => Cardinality(Within(e, H)) >= e.count

BelowFlag(e, H, since, n) == e.detected_at = 0 =>
  /\ Cardinality(This(e, H, since)) <= e.count
  /\ This(e, H, since) # {} => e.count < n
  /\ Cardinality(Last(e, H, since)) < n

Tracking(e, H, now, since, n, det) ==
  /\ e \in EntryType(det) /\ Begun(e) <= now
  /\ Heard(e, H, now) /\ CountedFully(e, H, now) /\ BelowFlag(e, H, since, n)

EchoInv ==
  /\ time \in Nat /\ min_count \in Nat \ {0} /\ detections \in Nat
  /\ changed \in Int /\ changed <= time
  /\ DOMAIN heard = Echo!Tracked
  /\ \A t \in Echo!Tracked : Tracking(entries[t], heard[t], time, changed, min_count, detections)

LEMMA EchoConstants ==
  ASSUME Echo!EchoAssumption
  PROVE  /\ EchoWrap \in Nat /\ EchoWrap > 0 /\ Window \in Nat
         /\ \A n \in MinCounts : n \in Nat /\ n > 0
BY DEF Echo!EchoAssumption

\* The clock has shown no more time since a window began than there was, and just as much
\* in the same round.
LEMMA WindowLasts ==
  ASSUME Echo!EchoAssumption, NEW det, NEW e \in EntryType(det), NEW now \in Nat, Begun(e) <= now
  PROVE  /\ Begun(e) \in Nat
         /\ Lapsed(e, now) => now - Begun(e) > Window
         /\ e.round = now \div EchoWrap /\ ~Lapsed(e, now) => now - Begun(e) <= Window
<1> DEFINE w == EchoWrap  q == now \div w  m == now % w  s == e.start  r == e.round
<1>1. w \in Nat /\ w > 0 /\ Window \in Nat /\ s \in 0..(w - 1) /\ r \in Nat
  BY EchoConstants DEF EntryType
<1>2. now = w * q + m /\ m \in 0..(w - 1) /\ q \in Int
  BY <1>1, SMT
<1>3. s + r * w <= now
  BY DEF Begun
<1> HIDE DEF w, q, m, s, r
<1>4. r * w \in Nat /\ w * q \in Int /\ r * w = w * r
  BY <1>1, <1>2
<1>5. r <= q
  <2>1. SUFFICES ASSUME r >= q + 1 PROVE FALSE
    BY <1>1, <1>2
  <2>2. w * r >= w * (q + 1) /\ w * (q + 1) = w * q + w
    BY <1>1, <1>2, <2>1
  <2>3. QED  BY <1>1, <1>2, <1>3, <1>4, <2>2
<1>6. w * r <= w * q
  BY <1>1, <1>2, <1>5
<1>7. now - (s + r * w) >= m - s
  BY <1>1, <1>2, <1>4, <1>6
<1>8. r = q => now - (s + r * w) = m - s
  BY <1>1, <1>2, <1>4
<1>9. /\ s + r * w \in Nat
      /\ m - s > Window => now - (s + r * w) > Window
      /\ r = q /\ ~(m - s > Window) => now - (s + r * w) <= Window
  BY <1>1, <1>2, <1>4, <1>7, <1>8
<1>10. QED  BY <1>9 DEF Begun, Lapsed, w, q, m, s, r

\* What the updates of an entry do to its fields.
EntryFields == [count: Nat, start: Int, round: Nat, detected_at: Int]

LEMMA EntryOpened ==
  ASSUME NEW e \in EntryFields, NEW a \in Int, NEW b \in Nat
  PROVE  /\ [e EXCEPT !.count = 1, !.start = a, !.round = b] \in EntryFields
         /\ [e EXCEPT !.count = 1, !.start = a, !.round = b].count = 1
         /\ [e EXCEPT !.count = 1, !.start = a, !.round = b].start = a
         /\ [e EXCEPT !.count = 1, !.start = a, !.round = b].round = b
         /\ [e EXCEPT !.count = 1, !.start = a, !.round = b].detected_at = e.detected_at
BY DEF EntryFields

LEMMA EntryCounted ==
  ASSUME NEW e \in EntryFields, NEW n \in Nat
  PROVE  /\ [e EXCEPT !.count = n] \in EntryFields
         /\ [e EXCEPT !.count = n].count = n
         /\ [e EXCEPT !.count = n].start = e.start
         /\ [e EXCEPT !.count = n].round = e.round
         /\ [e EXCEPT !.count = n].detected_at = e.detected_at
BY DEF EntryFields

LEMMA EntryFlagged ==
  ASSUME NEW e \in EntryFields, NEW n \in Nat
  PROVE  /\ [e EXCEPT !.detected_at = n] \in EntryFields
         /\ [e EXCEPT !.detected_at = n].count = e.count
         /\ [e EXCEPT !.detected_at = n].start = e.start
         /\ [e EXCEPT !.detected_at = n].round = e.round
         /\ [e EXCEPT !.detected_at = n].detected_at = n
BY DEF EntryFields

LEMMA EntryByFields ==
  ASSUME NEW det \in Nat, NEW e
  PROVE  e \in EntryType(det) <=> /\ e \in EntryFields /\ e.start \in 0..(EchoWrap - 1)
                                  /\ e.detected_at \in 0..det
BY DEF EntryType, EntryFields

\* A window that is opened begins now.
LEMMA OpenedNow ==
  ASSUME Echo!EchoAssumption, NEW det \in Nat, NEW e \in EntryType(det), time \in Nat
  PROVE  /\ Echo!Opened(e) \in EntryType(det) /\ Begun(Echo!Opened(e)) = time
         /\ Echo!Opened(e).count = 1 /\ Echo!Opened(e).detected_at = e.detected_at
         /\ ~Lapsed(Echo!Opened(e), time)
<1> DEFINE q == time \div EchoWrap  m == time % EchoWrap  o == Echo!Opened(e)
<1>1. EchoWrap \in Nat /\ EchoWrap > 0 /\ Window \in Nat
  BY EchoConstants
<1>2. time = EchoWrap * q + m /\ m \in 0..(EchoWrap - 1) /\ q \in Nat
  BY <1>1, SMT
<1>3. o = [e EXCEPT !.count = 1, !.start = m, !.round = q]
  BY DEF Echo!Opened, Echo!now_ms
<1>4. e \in EntryFields /\ e.detected_at \in 0..det
  BY EntryByFields
<1> HIDE DEF q, m, o
<1>10. m \in Int
  BY <1>1, <1>2
<1>5. o \in EntryFields /\ o.count = 1 /\ o.start = m /\ o.round = q /\ o.detected_at = e.detected_at
  <2> DEFINE u == [e EXCEPT !.count = 1, !.start = m, !.round = q]
  <2>1. q \in Nat
    BY <1>2
  <2>2. /\ u \in EntryFields /\ u.count = 1 /\ u.start = m /\ u.round = q
        /\ u.detected_at = e.detected_at
    BY <1>4, <1>10, <2>1 DEF EntryFields
  <2> HIDE DEF u
  <2>3. o = u
    BY <1>3 DEF u
  <2>4. QED  BY <2>2, <2>3
<1>6. o \in EntryType(det)
  BY <1>2, <1>4, <1>5, EntryByFields
<1>7. m + q * EchoWrap = time /\ ~(m - m > Window)
  BY <1>1, <1>2
<1>8. Begun(o) = time /\ ~Lapsed(o, time)
  BY <1>5, <1>7 DEF Begun, Lapsed, m
<1>9. QED  BY <1>5, <1>6, <1>8 DEF o

\* Parts of what was heard are finite and no larger.
LEMMA HeardPart ==
  ASSUME NEW H, IsFiniteSet(H), NEW S \in SUBSET H
  PROVE  IsFiniteSet(S) /\ Cardinality(S) \in Nat /\ Cardinality(S) <= Cardinality(H)
BY FS_Subset, FS_CardinalityType

\* Time passes: what is older than a window is forgotten.
LEMMA TrackingTicks ==
  ASSUME Echo!EchoAssumption, NEW e, NEW H, NEW since \in Int, NEW n \in Nat, NEW det \in Nat,
         time \in Nat, Tracking(e, H, time, since, n, det)
  PROVE  Tracking(e, {p \in H : (time + 1) - p.at <= Window}, time + 1, since, n, det)
<1> DEFINE K == {p \in H : (time + 1) - p.at <= Window}
<1>1. /\ e \in EntryType(det) /\ Begun(e) <= time /\ H \subseteq HeardBy(time) /\ IsFiniteSet(H)
      /\ Begun(e) \in Nat /\ Window \in Nat /\ K \in SUBSET H /\ e.count \in Nat
  BY EchoConstants, WindowLasts DEF Tracking, Heard, EntryType
<1>2. Begun(e) <= time + 1
  BY <1>1
<1>3. \A p \in H : p.at \in Nat /\ p.at <= time
  BY <1>1 DEF HeardBy
<1>8. \A p \in K : (time + 1) - p.at <= Window
  OBVIOUS
<1>9. \A p \in H : (time + 1) - p.at <= Window => p \in K
  OBVIOUS
<1> HIDE DEF K
<1>4. Heard(e, K, time + 1)
  <2>1. K \subseteq HeardBy(time + 1)
    BY <1>1, <1>3 DEF HeardBy
  <2>2. Now(K, time + 1) = {}
    BY <1>1, <1>3 DEF Now
  <2>3. QED  BY <1>1, <1>8, <2>1, <2>2, HeardPart DEF Heard
<1>5. CountedFully(e, K, time + 1)
  <2>1. SUFFICES ASSUME (time + 1) - Begun(e) <= Window
                 PROVE  Cardinality(Within(e, K)) >= e.count
    BY DEF CountedFully
  <2>2. Within(e, K) = Within(e, H)
    BY <1>1, <1>3, <1>9, <2>1 DEF Within
  <2>3. time - Begun(e) <= Window
    BY <1>1, <2>1
  <2>4. QED  BY <2>2, <2>3 DEF Tracking, CountedFully
<1>6. BelowFlag(e, K, since, n)
  <2>1. SUFFICES ASSUME e.detected_at = 0
                 PROVE  /\ Cardinality(This(e, K, since)) <= e.count
                        /\ This(e, K, since) # {} => e.count < n
                        /\ Cardinality(Last(e, K, since)) < n
    BY DEF BelowFlag
  <2>2. /\ Cardinality(This(e, H, since)) <= e.count
        /\ This(e, H, since) # {} => e.count < n
        /\ Cardinality(Last(e, H, since)) < n
    BY <2>1 DEF Tracking, BelowFlag
  <2>3. /\ This(e, H, since) \in SUBSET H /\ Last(e, H, since) \in SUBSET H
        /\ This(e, K, since) \in SUBSET This(e, H, since)
        /\ Last(e, K, since) \in SUBSET Last(e, H, since)
    BY <1>1 DEF This, Last
  <2>4. /\ IsFiniteSet(This(e, H, since)) /\ IsFiniteSet(Last(e, H, since))
        /\ Cardinality(This(e, H, since)) \in Nat /\ Cardinality(Last(e, H, since)) \in Nat
    BY <1>1, <2>3, HeardPart
  <2>5. /\ Cardinality(This(e, K, since)) \in Nat /\ Cardinality(Last(e, K, since)) \in Nat
        /\ Cardinality(This(e, K, since)) <= Cardinality(This(e, H, since))
        /\ Cardinality(Last(e, K, since)) <= Cardinality(Last(e, H, since))
    BY <2>3, <2>4, HeardPart
  <2>6. This(e, K, since) # {} => This(e, H, since) # {}
    BY <2>3
  <2>7. QED
    <3> DEFINE a == Cardinality(This(e, K, since))  b == Cardinality(Last(e, K, since))
               c == Cardinality(This(e, H, since))  d == Cardinality(Last(e, H, since))
    <3>1. a \in Nat /\ b \in Nat /\ c \in Nat /\ d \in Nat /\ a <= c /\ b <= d /\ c <= e.count /\ d < n
      BY <2>2, <2>4, <2>5
    <3> HIDE DEF a, b, c, d
    <3>2. a <= e.count /\ b < n
      BY <1>1, <3>1
    <3>3. QED  BY <2>2, <2>6, <3>2 DEF a, b
<1>10. QED  BY <1>1, <1>2, <1>4, <1>5, <1>6 DEF Tracking, K


\* The publish that comes now, with its number in this second.
Fresh(H) == [at |-> time, number |-> 1 + Cardinality(Now(H, time))]

\* It is one more, of this second and so of this window.
LEMMA OneMore ==
  ASSUME NEW e, NEW H, time \in Nat, Heard(e, H, time)
  PROVE  /\ Fresh(H) \in HeardBy(time) /\ Fresh(H).at = time /\ Fresh(H) \notin H
         /\ H \cup {Fresh(H)} \subseteq HeardBy(time) /\ IsFiniteSet(H \cup {Fresh(H)})
         /\ \A p \in Now(H \cup {Fresh(H)}, time) :
              p.number <= Cardinality(Now(H \cup {Fresh(H)}, time))
<1> DEFINE x == Fresh(H)  N == Now(H, time)  c == Cardinality(N)
<1>1. /\ N \in SUBSET H /\ IsFiniteSet(H) /\ H \subseteq HeardBy(time)
      /\ \A p \in N : p.number <= c
  BY DEF Heard, Now
<1>2. IsFiniteSet(N) /\ c \in Nat
  BY <1>1, HeardPart
<1>3. x.at = time /\ x.number = 1 + c
  BY DEF Fresh
<1>4. x \in HeardBy(time)
  BY <1>2 DEF Fresh, HeardBy
<1>5. x \notin H
  BY <1>1, <1>2, <1>3 DEF Now
<1>6. Now(H \cup {x}, time) = N \cup {x}
  BY <1>3 DEF Now
<1>7. Cardinality(N \cup {x}) = c + 1
  BY <1>1, <1>2, <1>5, FS_AddElement
<1>8. \A p \in N \cup {x} : p.number <= c + 1
  <2>1. \A p \in N : p.number \in Nat
    BY <1>1 DEF HeardBy
  <2>2. QED  BY <1>1, <1>2, <1>3, <2>1
<1>9. IsFiniteSet(H \cup {x})
  BY <1>1, FS_AddElement
<1>10. QED  BY <1>1, <1>3, <1>4, <1>5, <1>6, <1>7, <1>8, <1>9

LEMMA StillHeard ==
  ASSUME Echo!EchoAssumption, NEW e, NEW f, NEW H, time \in Nat, Heard(e, H, time), ~Lapsed(f, time)
  PROVE  Heard(f, H \cup {Fresh(H)}, time)
<1>1. \A p \in H \cup {Fresh(H)} : time - p.at <= Window
  <2>1. Fresh(H).at = time /\ \A p \in H : time - p.at <= Window
    BY OneMore DEF Heard
  <2>2. time - time <= Window
    BY EchoConstants
  <2>3. QED  BY <2>1, <2>2
<1>2. QED  BY <1>1, OneMore DEF Heard

\* How an entry stands after the publish, the flag apart.
Standing(e, H, since, n, det) ==
  /\ e \in EntryType(det) /\ Begun(e) <= time /\ ~Lapsed(e, time)
  /\ Heard(e, H, time) /\ CountedFully(e, H, time)
  /\ e.detected_at = 0 => /\ Cardinality(This(e, H, since)) <= e.count
                          /\ Cardinality(Last(e, H, since)) < n

\* A publish that opens a window: what was heard of the one before is all there is left.
LEMMA PublishOpens ==
  ASSUME Echo!EchoAssumption, NEW e, NEW H, NEW since \in Int, NEW n \in Nat \ {0}, NEW det \in Nat,
         time \in Nat, Tracking(e, H, time, since, n, det), Lapsed(e, time) \/ H = {}
  PROVE  /\ Standing(Echo!Opened(e), H \cup {Fresh(H)}, since, n, det)
         /\ Echo!Opened(e).detected_at = e.detected_at
<1> DEFINE f == Echo!Opened(e)  x == Fresh(H)  K == H \cup {x}
<1>1. /\ e \in EntryType(det) /\ e.count \in Nat /\ Begun(e) <= time /\ Heard(e, H, time)
      /\ IsFiniteSet(H) /\ H \subseteq HeardBy(time) /\ \A p \in H : time - p.at <= Window
  BY DEF Tracking, Heard, EntryType
<1>2. /\ f \in EntryType(det) /\ Begun(f) = time /\ f.count = 1
      /\ f.detected_at = e.detected_at /\ ~Lapsed(f, time)
  BY <1>1, OpenedNow
<1>3. x.at = time /\ x \notin H /\ IsFiniteSet(K)
  BY <1>1, OneMore
<1>4. \A p \in H : p.at \in Nat /\ p.at < time
  <2>1. \A p \in H : p \notin Now(H, time)
    BY <1>1 DEF Heard
  <2>2. \A p \in H : p.at \in Nat /\ p.at <= time
    BY <1>1 DEF HeardBy
  <2>3. QED  BY <2>1, <2>2 DEF Now
<1>5. \A p \in H : p.at >= Begun(e)
  <2>1. H # {} => time - Begun(e) > Window /\ Begun(e) \in Nat
    BY <1>1, WindowLasts
  <2>2. QED  BY <1>1, <1>4, <2>1, EchoConstants
<1> HIDE DEF f, x
<1>6. Within(f, K) = {x}
  BY <1>2, <1>3, <1>4 DEF Within
<1>7. This(f, K, since) \in SUBSET {x}
  BY <1>2, <1>3, <1>4 DEF This
<1>8. Last(f, K, since) = This(e, H, since)
  BY <1>2, <1>3, <1>4, <1>5 DEF This, Last
<1>9. /\ IsFiniteSet({x}) /\ Cardinality({x}) = 1
      /\ Cardinality(This(f, K, since)) <= 1
  <2>1. IsFiniteSet({x}) /\ Cardinality({x}) = 1
    BY FS_Singleton
  <2>2. Cardinality(This(f, K, since)) <= Cardinality({x})
    BY <1>7, <2>1, HeardPart
  <2>3. QED  BY <2>1, <2>2
<1>10. CountedFully(f, K, time)
  <2>1. Cardinality(Within(f, K)) >= f.count
    BY <1>2, <1>6, <1>9
  <2>2. QED  BY <2>1 DEF CountedFully
<1>11. Heard(f, K, time)
  BY <1>1, <1>2, StillHeard DEF x
<1>12. e.detected_at = 0 => Cardinality(This(e, H, since)) < n
  <2>1. SUFFICES ASSUME e.detected_at = 0 PROVE Cardinality(This(e, H, since)) < n
    OBVIOUS
  <2>2. /\ Cardinality(This(e, H, since)) <= e.count
        /\ This(e, H, since) # {} => e.count < n
    BY <2>1 DEF Tracking, BelowFlag
  <2>3. This(e, H, since) \in SUBSET H
    BY DEF This
  <2>4. Cardinality(This(e, H, since)) \in Nat
    BY <1>1, <2>3, HeardPart
  <2>5. This(e, H, since) = {} => Cardinality(This(e, H, since)) = 0
    BY FS_EmptySet
  <2>6. QED  BY <1>1, <2>2, <2>4, <2>5
<1>13. Begun(f) <= time
  BY <1>2
<1>14. e.detected_at = 0 => /\ Cardinality(This(f, K, since)) <= f.count
                            /\ Cardinality(Last(f, K, since)) < n
  BY <1>2, <1>8, <1>9, <1>12
<1>15. Standing(f, K, since, n, det)
  BY <1>2, <1>10, <1>11, <1>13, <1>14 DEF Standing
<1>16. QED  BY <1>2, <1>15 DEF f, x

\* A publish within the window is counted in it.
LEMMA PublishCounts ==
  ASSUME Echo!EchoAssumption, NEW e, NEW H, NEW since \in Int, NEW n \in Nat \ {0}, NEW det \in Nat,
         time \in Nat, Tracking(e, H, time, since, n, det), ~Lapsed(e, time)
  PROVE  /\ Standing([e EXCEPT !.count = @ + 1], H \cup {Fresh(H)}, since, n, det)
         /\ [e EXCEPT !.count = @ + 1].detected_at = e.detected_at
<1> DEFINE f == [e EXCEPT !.count = @ + 1]  x == Fresh(H)  K == H \cup {x}
<1>1. /\ e \in EntryType(det) /\ e.count \in Nat /\ Begun(e) <= time /\ Heard(e, H, time)
      /\ IsFiniteSet(H) /\ H \subseteq HeardBy(time)
  BY DEF Tracking, Heard, EntryType
<1>2. /\ f \in EntryFields /\ f.count = e.count + 1 /\ f.start = e.start /\ f.round = e.round
      /\ f.detected_at = e.detected_at
  BY <1>1, EntryByFields, EntryCounted
<1>3. f \in EntryType(det) /\ Begun(f) = Begun(e) /\ ~Lapsed(f, time)
  BY <1>1, <1>2, EntryByFields DEF Begun, Lapsed
<1>4. x.at = time /\ x \notin H /\ IsFiniteSet(K)
  BY <1>1, OneMore
<1>5. Begun(e) \in Nat
  BY <1>1, WindowLasts
<1> HIDE DEF f, x
<1>6. Within(f, K) = Within(e, H) \cup {x}
  BY <1>1, <1>3, <1>4, <1>5 DEF Within
<1>7. Last(f, K, since) = Last(e, H, since)
  BY <1>1, <1>3, <1>4, <1>5 DEF Last
<1>8. This(f, K, since) \in SUBSET (This(e, H, since) \cup {x})
  BY <1>3, <1>4 DEF This
<1>9. Within(e, H) \in SUBSET H /\ This(e, H, since) \in SUBSET H
  BY DEF Within, This
<1>10. /\ IsFiniteSet(Within(e, H)) /\ Cardinality(Within(e, H)) \in Nat
       /\ IsFiniteSet(This(e, H, since)) /\ Cardinality(This(e, H, since)) \in Nat
  BY <1>1, <1>9, HeardPart
<1>11. Cardinality(Within(e, H) \cup {x}) = Cardinality(Within(e, H)) + 1
  BY <1>4, <1>9, <1>10, FS_AddElement
<1>12. /\ IsFiniteSet(This(e, H, since) \cup {x})
       /\ Cardinality(This(e, H, since) \cup {x}) = Cardinality(This(e, H, since)) + 1
  BY <1>4, <1>9, <1>10, FS_AddElement
<1>13. CountedFully(f, K, time)
  <2>1. SUFFICES ASSUME time - Begun(f) <= Window PROVE Cardinality(Within(f, K)) >= f.count
    BY DEF CountedFully
  <2>2. Cardinality(Within(e, H)) >= e.count
    BY <1>3, <2>1 DEF CountedFully, Tracking
  <2>3. Cardinality(Within(f, K)) = Cardinality(Within(e, H)) + 1
    BY <1>6, <1>11
  <2>4. QED  BY <1>1, <1>2, <1>10, <2>2, <2>3
<1>14. /\ Cardinality(This(f, K, since)) \in Nat
       /\ Cardinality(This(f, K, since)) <= Cardinality(This(e, H, since)) + 1
  BY <1>8, <1>12, HeardPart
<1>15. e.detected_at = 0 => /\ Cardinality(This(f, K, since)) <= f.count
                            /\ Cardinality(Last(f, K, since)) < n
  <2>1. SUFFICES ASSUME e.detected_at = 0
                 PROVE  /\ Cardinality(This(f, K, since)) <= f.count
                        /\ Cardinality(Last(f, K, since)) < n
    OBVIOUS
  <2>2. Cardinality(This(e, H, since)) <= e.count /\ Cardinality(Last(e, H, since)) < n
    BY <2>1 DEF Tracking, BelowFlag
  <2>3. QED  BY <1>1, <1>2, <1>7, <1>10, <1>14, <2>2
<1>16. Heard(f, K, time)
  BY <1>1, <1>3, StillHeard DEF x
<1>17. Standing(f, K, since, n, det)
  BY <1>1, <1>2, <1>3, <1>13, <1>15, <1>16 DEF Standing
<1>18. QED  BY <1>2, <1>17 DEF f, x

\* Whether the publish raises the flag or not: one that is raised has been earned, and one
\* that is not had no cause.
LEMMA FlagIsEarned ==
  ASSUME Echo!EchoAssumption, time \in Nat, min_count \in Nat \ {0}, detections \in Nat, changed \in Int,
         NEW f, NEW K, Standing(f, K, changed, min_count, detections),
         NEW g, g = Echo!Flag(f),
         NEW det, det = IF g.detected_at > detections THEN g.detected_at ELSE detections
  PROVE  /\ det \in Nat /\ detections <= det
         /\ Tracking(g, K, time, changed, min_count, det)
         /\ f.detected_at # 0 => g.detected_at # 0
         /\ g.detected_at > detections /\ g.round = time \div EchoWrap
              => Cardinality(K) >= min_count
         /\ g.detected_at = 0 => Cardinality({p \in K : p.at > changed}) < 2 * min_count - 1
<1>1. /\ f \in EntryType(detections) /\ f \in EntryFields /\ f.detected_at \in 0..detections
      /\ f.start \in 0..(EchoWrap - 1) /\ f.count \in Nat /\ Begun(f) <= time /\ ~Lapsed(f, time)
      /\ Heard(f, K, time) /\ CountedFully(f, K, time)
  BY EntryByFields DEF Standing, EntryType
<1>2. /\ g \in EntryFields /\ g.start = f.start /\ g.round = f.round /\ g.count = f.count
      /\ g.detected_at = IF f.detected_at = 0 /\ f.count >= min_count THEN detections + 1
                                                                      ELSE f.detected_at
  <2>1. CASE f.detected_at = 0 /\ f.count >= min_count
    <3>1. g = [f EXCEPT !.detected_at = detections + 1] /\ detections + 1 \in Nat
      BY <2>1 DEF Echo!Flag
    <3>2. QED  BY <1>1, <2>1, <3>1, EntryFlagged
  <2>2. CASE ~(f.detected_at = 0 /\ f.count >= min_count)
    <3>1. g = f
      BY <2>2 DEF Echo!Flag
    <3>2. QED  BY <1>1, <2>2, <3>1
  <2>3. QED  BY <2>1, <2>2
<1>3. det \in Nat /\ detections <= det /\ g.detected_at \in 0..det
  BY <1>1, <1>2
<1>4. g \in EntryType(det)
  BY <1>1, <1>2, <1>3, EntryByFields
<1>5. /\ Begun(g) = Begun(f) /\ Within(g, K) = Within(f, K)
      /\ This(g, K, changed) = This(f, K, changed) /\ Last(g, K, changed) = Last(f, K, changed)
      /\ Lapsed(g, time) <=> Lapsed(f, time)
  BY <1>2 DEF Begun, Within, This, Last, Lapsed
<1>6. Heard(g, K, time) /\ CountedFully(g, K, time)
  BY <1>1, <1>2, <1>5 DEF Heard, CountedFully
<1>7. g.detected_at = 0 =>
        /\ Cardinality(This(g, K, changed)) <= g.count /\ g.count < min_count
        /\ Cardinality(Last(g, K, changed)) < min_count
  <2>1. SUFFICES ASSUME g.detected_at = 0
                 PROVE  /\ Cardinality(This(g, K, changed)) <= g.count /\ g.count < min_count
                        /\ Cardinality(Last(g, K, changed)) < min_count
    OBVIOUS
  <2>2. f.detected_at = 0 /\ f.count < min_count
    BY <1>1, <1>2, <2>1
  <2>3. QED  BY <1>2, <1>5, <2>2 DEF Standing
<1>8. Tracking(g, K, time, changed, min_count, det)
  BY <1>1, <1>4, <1>5, <1>6, <1>7 DEF Tracking, BelowFlag
<1>9. IsFiniteSet(K)
  BY <1>1 DEF Heard
<1>10. ASSUME g.detected_at > detections, g.round = time \div EchoWrap
       PROVE  Cardinality(K) >= min_count
  <2>1. f.count >= min_count
    BY <1>1, <1>2, <1>10
  <2>2. time - Begun(f) <= Window
    BY <1>1, <1>2, <1>10, WindowLasts
  <2>3. Cardinality(Within(f, K)) >= f.count
    BY <1>1, <2>2 DEF CountedFully
  <2>4. Within(f, K) \in SUBSET K
    BY DEF Within
  <2>5. QED  BY <1>1, <1>9, <2>1, <2>3, <2>4, HeardPart
<1>11. ASSUME g.detected_at = 0
       PROVE  Cardinality({p \in K : p.at > changed}) < 2 * min_count - 1
  <2> DEFINE a == This(g, K, changed)  b == Last(g, K, changed)
  <2>1. \A p \in K : p.at \in Nat
    BY <1>1 DEF Heard, HeardBy
  <2>2. Begun(g) \in Nat
    BY <1>1, <1>5, WindowLasts
  <2>3. /\ {p \in K : p.at > changed} = a \cup b /\ a \cap b = {}
        /\ a \in SUBSET K /\ b \in SUBSET K
    BY <2>1, <2>2 DEF This, Last
  <2>4. /\ IsFiniteSet(a) /\ Cardinality(a) \in Nat /\ Cardinality(a) < min_count
        /\ IsFiniteSet(b) /\ Cardinality(b) \in Nat /\ Cardinality(b) < min_count
    BY <1>1, <1>2, <1>7, <1>9, <1>11, <2>3, HeardPart
  <2> HIDE DEF a, b
  <2>5. Cardinality(a \cup b) = Cardinality(a) + Cardinality(b) - Cardinality(a \cap b)
    BY <2>4, FS_Union
  <2>6. Cardinality(a \cap b) = 0
    BY <2>3, FS_EmptySet
  <2>7. Cardinality(a \cup b) < 2 * min_count - 1
    <3> DEFINE c == Cardinality(a)  d == Cardinality(b)
    <3>1. c \in Nat /\ d \in Nat /\ c < min_count /\ d < min_count
      BY <2>4
    <3>2. Cardinality(a \cup b) = c + d
      BY <2>4, <2>5, <2>6
    <3> HIDE DEF c, d
    <3>3. c + d < 2 * min_count - 1
      BY <3>1
    <3>4. QED  BY <3>2, <3>3
  <2>8. QED  BY <2>3, <2>7
<1>12. f.detected_at # 0 => g.detected_at # 0
  BY <1>2
<1>13. QED  BY <1>3, <1>8, <1>10, <1>11, <1>12

\* A topic that comes into the table, or that echo_reset has cleared.
LEMMA NothingHeard ==
  ASSUME Echo!EchoAssumption, NEW now \in Nat, NEW n \in Nat \ {0}, NEW det \in Nat, NEW since
  PROVE  Tracking(Echo!NoEntry, {}, now, since, n, det)
<1> DEFINE e == Echo!NoEntry
<1>1. e.count = 0 /\ e.start = 0 /\ e.round = 0 /\ e.detected_at = 0
  BY DEF Echo!NoEntry
<1>2. EchoWrap \in Nat /\ EchoWrap > 0
  BY EchoConstants
<1>3. e \in EntryFields /\ 0 \in 0..det /\ 0 \in 0..(EchoWrap - 1)
  BY <1>2 DEF EntryFields, Echo!NoEntry
<1>4. e \in EntryType(det)
  BY <1>1, <1>3, EntryByFields
<1>5. Begun(e) = 0
  BY <1>1, <1>2 DEF Begun
<1>6. /\ Within(e, {}) = {} /\ This(e, {}, since) = {} /\ Last(e, {}, since) = {}
      /\ Now({}, now) = {}
  BY DEF Within, This, Last, Now
<1>7. IsFiniteSet({}) /\ Cardinality({}) = 0
  BY FS_EmptySet
<1> HIDE DEF e
<1>8. Heard(e, {}, now)
  BY <1>6, <1>7 DEF Heard
<1>9. CountedFully(e, {}, now) /\ BelowFlag(e, {}, since, n)
  BY <1>1, <1>6, <1>7 DEF CountedFully, BelowFlag
<1>10. QED  BY <1>4, <1>5, <1>8, <1>9 DEF Tracking, e

\* The stamps only grow.
LEMMA LaterStamps ==
  ASSUME NEW e, NEW H, NEW now, NEW since, NEW n, NEW det \in Nat, NEW more \in Nat, det <= more,
         Tracking(e, H, now, since, n, det)
  PROVE  Tracking(e, H, now, since, n, more)
<1>1. e \in EntryType(more)
  <2>1. e \in EntryType(det) /\ 0..det \subseteq 0..more
    BY DEF Tracking
  <2>2. QED  BY <2>1, EntryByFields
<1>2. QED  BY <1>1 DEF Tracking

\* One call of echo_track, of a topic in the table or not.
HeardOf(t) == IF t \in Echo!Tracked THEN heard[t] ELSE {}
NextEntry(t) == Echo!Flag(IF t \in Echo!Tracked THEN Echo!Counted(entries[t]) ELSE Echo!NewEntry)

Earned(t) == entries'[t].detected_at > detections /\ entries'[t].round = time \div EchoWrap
               => Echo!Cardinality(heard'[t]) >= min_count
Missed(t) == LET counted == {p \in heard'[t] : p.at > changed} IN
               (t \in Echo!Tracked => entries'[t] # entries[t])
                 /\ Echo!Cardinality(counted) >= 2 * min_count - 1
                 => entries'[t].detected_at # 0

LEMMA TrackedTopic ==
  ASSUME Echo!EchoAssumption, EchoInv, NEW t
  PROVE  \E f : /\ NextEntry(t) = Echo!Flag(f)
                /\ Standing(f, HeardOf(t) \cup {Fresh(HeardOf(t))}, changed, min_count, detections)
                /\ t \in Echo!Tracked => f.detected_at = entries[t].detected_at
<1> DEFINE H == HeardOf(t)
<1>1. time \in Nat /\ min_count \in Nat \ {0} /\ detections \in Nat /\ changed \in Int
  BY DEF EchoInv
<1>2. CASE t \notin Echo!Tracked
  <2>1. Tracking(Echo!NoEntry, {}, time, changed, min_count, detections) /\ H = {}
    BY <1>1, <1>2, NothingHeard DEF HeardOf
  <2>2. Standing(Echo!NewEntry, H \cup {Fresh(H)}, changed, min_count, detections)
    BY <1>1, <2>1, PublishOpens DEF Echo!NewEntry
  <2>3. NextEntry(t) = Echo!Flag(Echo!NewEntry)
    BY <1>2 DEF NextEntry
  <2>4. QED  BY <1>2, <2>2, <2>3
<1>3. CASE t \in Echo!Tracked
  <2> DEFINE e == entries[t]
  <2>1. Tracking(e, H, time, changed, min_count, detections)
    BY <1>3 DEF EchoInv, HeardOf
  <2>2. NextEntry(t) = Echo!Flag(Echo!Counted(e))
    BY <1>3 DEF NextEntry
  <2>3. Echo!Expired(e) <=> Lapsed(e, time)
    BY DEF Echo!Expired, Echo!now_ms, Lapsed
  <2>4. /\ Standing(Echo!Counted(e), H \cup {Fresh(H)}, changed, min_count, detections)
        /\ Echo!Counted(e).detected_at = e.detected_at
    <3>1. CASE Lapsed(e, time)
      <4>1. Echo!Counted(e) = Echo!Opened(e)
        BY <2>3, <3>1 DEF Echo!Counted
      <4>2. QED  BY <1>1, <2>1, <3>1, <4>1, PublishOpens
    <3>2. CASE ~Lapsed(e, time)
      <4>1. Echo!Counted(e) = [e EXCEPT !.count = @ + 1]
        BY <2>3, <3>2 DEF Echo!Counted
      <4>2. QED  BY <1>1, <2>1, <3>2, <4>1, PublishCounts
    <3>3. QED  BY <3>1, <3>2
  <2>5. QED  BY <2>2, <2>4
<1>4. QED  BY <1>2, <1>3

LEMMA SameCount == \A S : Echo!Cardinality(S) = Cardinality(S)
BY DEF Echo!Cardinality, Cardinality

LEMMA LouderIs ==
  ASSUME EchoInv, NEW t
  PROVE  Echo!Louder(t) = HeardOf(t) \cup {Fresh(HeardOf(t))}
<1>1. CASE t \notin Echo!Tracked
  BY <1>1, SameCount DEF Echo!Louder, HeardOf, Fresh, Now
<1>2. CASE t \in Echo!Tracked
  <2>1. \A p \in heard[t] : time - p.at <= Window
    BY <1>2 DEF EchoInv, Tracking, Heard
  <2>2. Echo!Recent(t, time) = heard[t]
    BY <2>1 DEF Echo!Recent
  <2>3. QED  BY <1>2, <2>2, SameCount DEF Echo!Louder, HeardOf, Fresh, Now
<1>3. QED  BY <1>1, <1>2

\* What may leave the table for the topic: nothing, or where it is not there a victim.
LEMMA TrackCases ==
  ASSUME NEW t, Echo!echo_track(t)
  PROVE  \E gone : /\ Echo!Tracks(t, NextEntry(t), gone)
                   /\ \A v \in gone : v = t \/ v \in Echo!Victims
<1>1. CASE t \in Echo!Tracked /\ Echo!Tracks(t, Echo!Flag(Echo!Counted(entries[t])), {t})
  BY <1>1 DEF NextEntry
<1>2. CASE t \notin Echo!Tracked /\ Echo!Tracks(t, Echo!Flag(Echo!NewEntry), {})
  BY <1>2 DEF NextEntry
<1>3. CASE t \notin Echo!Tracked /\ \E v \in Echo!Victims : Echo!Tracks(t, Echo!Flag(Echo!NewEntry), {v})
  BY <1>3 DEF NextEntry
<1>4. QED  BY <1>1, <1>2, <1>3 DEF Echo!echo_track

\* Of the topics that leave the table, none is flagged, or all in it are.
LEMMA VictimsFlagged ==
  ASSUME NEW v \in Echo!Victims, Echo!Detected(v), NEW u \in Echo!Tracked
  PROVE  Echo!Detected(u)
BY DEF Echo!Victims

LEMMA TrackStep ==
  ASSUME Echo!EchoAssumption, EchoInv, NEW t, Echo!echo_track(t)
  PROVE  /\ EchoInv'
         /\ \A u \in DOMAIN entries' : Earned(u) /\ Missed(u)
         /\ \A u \in Echo!Tracked :
              Echo!Detected(u) /\ (u \in DOMAIN entries' => entries'[u].detected_at = 0)
                => \A w \in Echo!Tracked : Echo!Detected(w)
<1> DEFINE H == HeardOf(t)  K == H \cup {Fresh(H)}  g == NextEntry(t)
<1>1. PICK f : /\ g = Echo!Flag(f) /\ Standing(f, K, changed, min_count, detections)
               /\ t \in Echo!Tracked => f.detected_at = entries[t].detected_at
  BY TrackedTopic
<1>2. PICK gone : /\ Echo!Tracks(t, g, gone) /\ \A v \in gone : v = t \/ v \in Echo!Victims
  BY TrackCases
<1> DEFINE stay == (Echo!Tracked \ gone) \cup {t}
           det == IF g.detected_at > detections THEN g.detected_at ELSE detections
<1>3. /\ time \in Nat /\ min_count \in Nat \ {0} /\ detections \in Nat /\ changed \in Int
      /\ changed <= time /\ DOMAIN heard = Echo!Tracked
      /\ \A u \in Echo!Tracked : Tracking(entries[u], heard[u], time, changed, min_count, detections)
  BY DEF EchoInv
<1>4. /\ entries' = [u \in stay |-> IF u = t THEN g ELSE entries[u]]
      /\ heard' = [u \in stay |-> IF u = t THEN K ELSE heard[u]]
      /\ detections' = det
      /\ UNCHANGED <<time, min_count, changed>>
  BY <1>2, LouderIs DEF Echo!Tracks
<1> HIDE DEF K, g, det
<1>5. /\ det \in Nat /\ detections <= det
      /\ Tracking(g, K, time, changed, min_count, det)
      /\ f.detected_at # 0 => g.detected_at # 0
      /\ g.detected_at > detections /\ g.round = time \div EchoWrap => Cardinality(K) >= min_count
      /\ g.detected_at = 0 => Cardinality({p \in K : p.at > changed}) < 2 * min_count - 1
  BY <1>1, <1>3, FlagIsEarned DEF det
<1>6. /\ DOMAIN entries' = stay /\ DOMAIN heard' = stay
      /\ entries'[t] = g /\ heard'[t] = K
      /\ \A u \in stay \ {t} : u \in Echo!Tracked /\ entries'[u] = entries[u] /\ heard'[u] = heard[u]
  BY <1>4
<1> HIDE DEF stay
<1>7. EchoInv'
  <2>1. \A u \in stay : Tracking(entries'[u], heard'[u], time, changed, min_count, det)
    <3>1. TAKE u \in stay
    <3>2. CASE u = t
      BY <1>5, <1>6, <3>2
    <3>3. CASE u # t
      <4>1. Tracking(entries[u], heard[u], time, changed, min_count, detections)
        BY <1>3, <1>6, <3>3
      <4>2. Tracking(entries[u], heard[u], time, changed, min_count, det)
        BY <1>3, <1>5, <4>1, LaterStamps
      <4>3. QED  BY <1>6, <3>3, <4>2
    <3>4. QED  BY <3>2, <3>3
  <2>2. \A u \in stay : Tracking(entries[u], heard[u], time, changed, min_count, detections)'
    BY <1>4, <2>1 DEF Tracking, Heard, CountedFully, BelowFlag
  <2>3. QED  BY <1>3, <1>4, <1>5, <1>6, <2>2 DEF EchoInv, Echo!Tracked
<1>8. ASSUME NEW u \in stay
      PROVE  Earned(u) /\ Missed(u)
  <2>1. CASE u = t
    <3>1. Earned(t)
      BY <1>5, <1>6, SameCount DEF Earned
    <3>2. Missed(t)
      <4> DEFINE c == Cardinality({p \in K : p.at > changed})
      <4>1. SUFFICES ASSUME g.detected_at = 0 PROVE ~(c >= 2 * min_count - 1)
        BY <1>6, SameCount DEF Missed
      <4>2. {p \in K : p.at > changed} \in SUBSET K /\ IsFiniteSet(K)
        BY <1>5 DEF Tracking, Heard
      <4>3. c \in Nat /\ c < 2 * min_count - 1
        BY <1>5, <4>1, <4>2, HeardPart
      <4> HIDE DEF c
      <4>4. QED  BY <1>3, <4>3
    <3>3. QED  BY <2>1, <3>1, <3>2
  <2>2. CASE u # t
    <3>1. u \in Echo!Tracked /\ entries'[u] = entries[u]
      BY <1>6, <2>2
    <3>2. entries[u].detected_at \in 0..detections
      BY <1>3, <3>1, EntryByFields DEF Tracking
    <3>3. ~(entries'[u].detected_at > detections)
      BY <1>3, <3>1, <3>2
    <3>4. QED  BY <3>1, <3>3 DEF Earned, Missed
  <2>3. QED  BY <2>1, <2>2
<1>9. ASSUME NEW u \in Echo!Tracked, Echo!Detected(u), u \in stay => entries'[u].detected_at = 0,
             NEW w \in Echo!Tracked
      PROVE  Echo!Detected(w)
  <2>1. u # t
    BY <1>1, <1>5, <1>6, <1>9 DEF Echo!Detected, stay
  <2>2. u \notin stay
    BY <1>6, <1>9, <2>1 DEF Echo!Detected
  <2>3. u \in Echo!Victims
    BY <1>2, <1>9, <2>1, <2>2 DEF stay
  <2>4. QED  BY <1>9, <2>3, VictimsFlagged
<1>10. QED  BY <1>6, <1>7, <1>8, <1>9

LEMMA ResetStep ==
  ASSUME Echo!EchoAssumption, EchoInv, Echo!echo_reset
  PROVE  /\ EchoInv'
         /\ \A u \in DOMAIN entries' : Earned(u) /\ Missed(u) /\ entries'[u].count = 0
<1>1. /\ time \in Nat /\ min_count \in Nat \ {0} /\ detections \in Nat /\ changed \in Int
      /\ changed <= time
  BY DEF EchoInv
<1>2. /\ DOMAIN entries' = Echo!Tracked /\ DOMAIN heard' = Echo!Tracked
      /\ \A u \in Echo!Tracked : entries'[u] = Echo!NoEntry /\ heard'[u] = {}
      /\ UNCHANGED <<time, min_count, changed, detections>>
  BY DEF Echo!echo_reset
<1>3. Tracking(Echo!NoEntry, {}, time, changed, min_count, detections)
  BY <1>1, NothingHeard
<1>4. \A u \in Echo!Tracked : Tracking(entries'[u], heard'[u], time, changed, min_count, detections)
  BY <1>2, <1>3
<1>5. \A u \in Echo!Tracked : Tracking(entries[u], heard[u], time, changed, min_count, detections)'
  BY <1>2, <1>4 DEF Tracking, Heard, CountedFully, BelowFlag
<1>6. EchoInv'
  BY <1>1, <1>2, <1>5 DEF EchoInv, Echo!Tracked
<1>7. ASSUME NEW u \in DOMAIN entries'
      PROVE  Earned(u) /\ Missed(u) /\ entries'[u].count = 0
  <2>1. entries'[u].count = 0 /\ entries'[u].detected_at = 0 /\ heard'[u] = {}
    BY <1>2, <1>7 DEF Echo!NoEntry
  <2>2. {p \in heard'[u] : p.at > changed} = {} /\ Cardinality({}) = 0
    BY <2>1, FS_EmptySet
  <2>3. Missed(u)
    <3>1. ~(0 >= 2 * min_count - 1)
      BY <1>1
    <3>2. QED  BY <2>2, <3>1, SameCount DEF Missed
  <2>4. Earned(u)
    BY <1>1, <2>1 DEF Earned
  <2>5. QED  BY <2>1, <2>3, <2>4
<1>8. QED  BY <1>6, <1>7

\* Of publishes before the settings changed nothing is promised.
LEMMA ConfigureStep ==
  ASSUME Echo!EchoAssumption, EchoInv, NEW n \in MinCounts, NEW on, Echo!Configure(n, on)
  PROVE  EchoInv'
<1>1. /\ time \in Nat /\ min_count \in Nat \ {0} /\ detections \in Nat /\ n \in Nat \ {0}
      /\ DOMAIN heard = Echo!Tracked
  BY EchoConstants DEF EchoInv
<1>2. min_count' = n /\ changed' = time /\ UNCHANGED <<time, entries, detections, heard>>
  BY DEF Echo!Configure
<1>3. ASSUME NEW u \in Echo!Tracked
      PROVE  Tracking(entries[u], heard[u], time, time, n, detections)
  <2>1. Tracking(entries[u], heard[u], time, changed, min_count, detections)
    BY <1>3 DEF EchoInv
  <2>2. \A p \in heard[u] : p.at \in Nat /\ p.at <= time
    BY <2>1 DEF Tracking, Heard, HeardBy
  <2>3. This(entries[u], heard[u], time) = {} /\ Last(entries[u], heard[u], time) = {}
    BY <1>1, <2>2 DEF This, Last
  <2>4. entries[u].count \in Nat
    BY <2>1 DEF Tracking, EntryType
  <2>5. BelowFlag(entries[u], heard[u], time, n)
    BY <1>1, <2>3, <2>4, FS_EmptySet DEF BelowFlag
  <2>6. QED  BY <2>1, <2>5 DEF Tracking
<1>4. \A u \in Echo!Tracked : Tracking(entries[u], heard[u], time, changed, min_count, detections)'
  BY <1>2, <1>3 DEF Tracking, Heard, CountedFully, BelowFlag
<1>5. QED  BY <1>1, <1>2, <1>4 DEF EchoInv, Echo!Tracked

LEMMA EchoTickStep ==
  ASSUME Echo!EchoAssumption, EchoInv, Echo!EchoTick
  PROVE  EchoInv'
<1>1. /\ time \in Nat /\ min_count \in Nat \ {0} /\ detections \in Nat /\ changed \in Int
      /\ changed <= time /\ DOMAIN heard = Echo!Tracked
  BY DEF EchoInv
<1>2. /\ time' = time + 1 /\ UNCHANGED <<entries, min_count, changed, detections>>
      /\ DOMAIN heard' = Echo!Tracked
      /\ \A u \in Echo!Tracked : heard'[u] = {p \in heard[u] : (time + 1) - p.at <= Window}
  BY DEF Echo!EchoTick, Echo!Recent
<1>3. ASSUME NEW u \in Echo!Tracked
      PROVE  Tracking(entries[u], heard'[u], time + 1, changed, min_count, detections)
  <2>1. Tracking(entries[u], heard[u], time, changed, min_count, detections)
    BY <1>3 DEF EchoInv
  <2>2. QED  BY <1>1, <1>2, <1>3, <2>1, TrackingTicks
<1>4. \A u \in Echo!Tracked : Tracking(entries[u], heard[u], time, changed, min_count, detections)'
  BY <1>2, <1>3 DEF Tracking, Heard, CountedFully, BelowFlag
<1>5. QED  BY <1>1, <1>2, <1>4 DEF EchoInv, Echo!Tracked

LEMMA EchoInit == Echo!EchoAssumption /\ Echo!Init => EchoInv
<1> SUFFICES ASSUME Echo!EchoAssumption, Echo!Init PROVE EchoInv
  OBVIOUS
<1>1. min_count \in Nat \ {0}
  BY EchoConstants DEF Echo!Init
<1>2. DOMAIN entries = {} /\ DOMAIN heard = {}
  BY DEF Echo!Init
<1>3. QED  BY <1>1, <1>2 DEF EchoInv, Echo!Init, Echo!Tracked

\* What a step may do, as FlagsAreEarned and LoopsFlagged say.
EarnedAll ==
  /\ \A t \in DOMAIN entries' : Earned(t)
  /\ \A t \in Echo!Tracked :
       Echo!Detected(t) /\ (t \in DOMAIN entries' => entries'[t].detected_at = 0) =>
         \/ \A u \in DOMAIN entries' : entries'[u].count = 0
         \/ \A u \in Echo!Tracked : Echo!Detected(u)
MissedNone == \A t \in DOMAIN entries' : Missed(t)

LEMMA EntriesStay ==
  ASSUME EchoInv, UNCHANGED entries
  PROVE  EarnedAll /\ MissedNone
<1>1. ASSUME NEW t \in DOMAIN entries'
      PROVE  t \in Echo!Tracked /\ entries'[t] = entries[t] /\ ~(entries'[t].detected_at > detections)
  <2>1. t \in Echo!Tracked /\ entries'[t] = entries[t]
    BY <1>1 DEF Echo!Tracked
  <2>2. entries[t].detected_at \in 0..detections /\ detections \in Nat
    BY <2>1, EntryByFields DEF EchoInv, Tracking
  <2>3. QED  BY <2>1, <2>2
<1>2. QED  BY <1>1 DEF EarnedAll, MissedNone, Earned, Missed, Echo!Detected, Echo!Tracked

LEMMA EchoStep ==
  ASSUME Echo!EchoAssumption, EchoInv, [Echo!Next]_Echo!evars
  PROVE  EchoInv' /\ EarnedAll /\ MissedNone
<1>1. CASE UNCHANGED Echo!evars
  <2>1. UNCHANGED <<time, min_count, entries, detections, heard, changed>>
    BY <1>1 DEF Echo!evars
  <2>2. EchoInv'
    BY <2>1 DEF EchoInv, Echo!Tracked, Tracking, Heard, CountedFully, BelowFlag
  <2>3. QED  BY <2>1, <2>2, EntriesStay
<1>2. ASSUME NEW t \in EchoTopic, Echo!echo_track(t)
      PROVE  EchoInv' /\ EarnedAll /\ MissedNone
  BY <1>2, TrackStep DEF EarnedAll, MissedNone
<1>3. CASE Echo!echo_reset
  BY <1>3, ResetStep DEF EarnedAll, MissedNone
<1>4. ASSUME NEW n \in MinCounts, NEW on \in BOOLEAN, Echo!Configure(n, on)
      PROVE  EchoInv' /\ EarnedAll /\ MissedNone
  BY <1>4, ConfigureStep, EntriesStay DEF Echo!Configure
<1>5. CASE Echo!EchoTick
  BY <1>5, EchoTickStep, EntriesStay DEF Echo!EchoTick
<1>6. QED  BY <1>1, <1>2, <1>3, <1>4, <1>5 DEF Echo!Next

LEMMA EchoSteps ==
  /\ MCInit => Echo!Init
  /\ [MCNext]_<<part, clockvars, edgevars>> => [Echo!Next]_Echo!evars
BY DEF MCInit, ClockInit, MCNext, EdgeNext, ClockNext, clockvars, echovars, Echo!evars

\* A topic is reported only when it was published often enough within a window, and stays
\* reported; a loop that goes on is reported, though the windows are fixed, the clock wraps
\* and topics are evicted (echo_track, echo_reset, echo_load_config).
THEOREM EchoesAreFlagged == MCSpec => EchoesFlagged
<1>1. MCInit => EchoInv
  BY EchoSteps, EchoInit, EchoSizes
<1>2. EchoInv /\ [MCNext]_<<part, clockvars, edgevars>> => EchoInv'
  BY EchoSteps, EchoStep, EchoSizes
<1>3. EchoInv /\ [MCNext]_<<part, clockvars, edgevars>> => [EarnedAll]_Echo!evars
  BY EchoSteps, EchoStep, EchoSizes
<1>4. EchoInv /\ [MCNext]_<<part, clockvars, edgevars>> => [MissedNone]_Echo!evars
  BY EchoSteps, EchoStep, EchoSizes
<1>5. MCSpec => [][EarnedAll]_Echo!evars
  BY <1>1, <1>2, <1>3, PTL DEF MCSpec
<1>6. MCSpec => [][MissedNone]_Echo!evars
  BY <1>1, <1>2, <1>4, PTL DEF MCSpec
<1>7. MCSpec => Echo!FlagsAreEarned
  BY <1>5, PTL DEF EarnedAll, Earned, Echo!FlagsAreEarned
<1>8. MCSpec => Echo!LoopsFlagged
  BY <1>6, PTL DEF MissedNone, Missed, Echo!LoopsFlagged
<1>9. QED  BY <1>7, <1>8 DEF EchoesFlagged

-----------------------------------------------------------------------------
(* The types of the parts.  What the invariants above leave open of them is *)
(* added here: the bounds of the counters, and the rest of the network.     *)

\* An event more, where there is room for it.
LEMMA PostsFit ==
  ASSUME NetTypes, Net!NetworkAssumption, NEW e \in Event, Net!Room
  PROVE  Len(Net!Posted(e)) <= EventsMax /\ Len(Append(events, e)) <= EventsMax
<1>1. events \in Seq(Event) /\ Len(events) \in Nat /\ Len(events) < EventsMax /\ EventsMax \in Nat
  BY LenProperties DEF NetTypes, Net!Room, Net!NetworkAssumption
<1>2. Len(Append(events, e)) = Len(events) + 1
  BY <1>1, AppendProperties
<1>3. QED  BY <1>1, <1>2 DEF Net!Posted

\* The station of a driver that runs with one.
StationRuns == driver.sta # "down" => driver.on /\ driver.mode \in Net!HasSta

NetRest ==
  /\ http \in {"idle", "wait", "restart"}
  /\ group = Net!NoGroup \/ group \subseteq Net!Bit
  /\ retries \in 0..RetriesMax /\ Len(events) <= EventsMax
  /\ StationRuns

LEMMA NetRestInit == Net!NetworkAssumption /\ Net!Init => NetRest
<1>1. Len(<<>>) = 0
  BY EmptySeq
<1>2. QED
  BY <1>1 DEF Net!NetworkAssumption, Net!Init, Net!Off, NetRest, StationRuns

\* Joins and drops, and what the event task makes of them.
LEMMA LinkRest ==
  ASSUME Net!NetworkAssumption, NetTypes, NetRest,
         Net!Join \/ Net!GotIp \/ Net!Drop \/ Net!EthLink \/ Net!Handle
  PROVE  NetRest'
<1>1. driver \in Driver /\ events \in Seq(Event)
  BY DEF NetTypes
<1>2. CASE Net!Join \/ Net!EthLink
  <2>1. driver' = driver \/ (driver.sta = "joining" /\ driver' = [driver EXCEPT !.sta = "joined"])
    BY <1>2 DEF Net!Join, Net!EthLink
  <2>2. driver' = driver \/ (driver.sta # "down" /\ driver'.on = driver.on /\ driver'.mode = driver.mode)
    BY <1>1, <2>1 DEF Driver
  <2>3. StationRuns'
    BY <2>2 DEF NetRest, StationRuns
  <2>4. UNCHANGED <<http, group, retries, events>>
    BY <1>2 DEF Net!Join, Net!EthLink, Net!settings, Net!history
  <2>5. QED  BY <2>3, <2>4 DEF NetRest
<1>3. CASE Net!GotIp \/ Net!Drop
  <2>1. \/ driver.sta = "joined" /\ driver' = [driver EXCEPT !.sta = "address"]
        \/ driver.sta # "down" /\ driver' = [driver EXCEPT !.sta = "down"]
    BY <1>3 DEF Net!GotIp, Net!Drop, Net!Alone
  <2>2. driver.sta # "down" /\ driver'.on = driver.on /\ driver'.mode = driver.mode
    BY <1>1, <2>1 DEF Driver
  <2>3. StationRuns'
    BY <2>2 DEF NetRest, StationRuns
  <2>4. Net!Room /\ \E e \in Event : events' = Net!Posted(e)
    BY <1>3 DEF Net!GotIp, Net!Drop, Event
  <2>5. Len(events') <= EventsMax
    BY <2>4, PostsFit
  <2>6. UNCHANGED <<http, group, retries>>
    BY <1>3 DEF Net!GotIp, Net!Drop, Net!settings, Net!history
  <2>7. QED  BY <2>3, <2>5, <2>6 DEF NetRest
<1>4. CASE Net!Handle
  <2> DEFINE e == Head(events)
             n == IF retries < RetriesMax THEN retries + 1 ELSE retries
             bit == CASE e = "got_ip" -> {"connected"}
                      [] e = "disconnected" /\ n < WifiMaxRetries -> {"fail"}
                      [] OTHER -> {}
  <2>1. /\ events # <<>> /\ events' = Tail(events) /\ http' = http
        /\ retries' = CASE e = "disconnected" -> n [] e = "got_ip" -> 0 [] OTHER -> retries
        /\ group' = IF group = Net!NoGroup THEN group ELSE group \cup bit
        /\ driver' = driver \/ (driver.on /\ driver.mode \in Net!HasSta
                                /\ driver' = [driver EXCEPT !.sta = "joining"])
    BY <1>4 DEF Net!Handle
  <2>2. n \in 0..RetriesMax /\ 0 \in 0..RetriesMax
    BY DEF NetRest, Net!NetworkAssumption
  <2> HIDE DEF n
  <2>3. bit \subseteq Net!Bit
    BY DEF Net!Bit
  <2> HIDE DEF bit
  <2>4. retries' \in 0..RetriesMax
    BY <2>1, <2>2 DEF NetRest
  <2>5. group' = Net!NoGroup \/ group' \subseteq Net!Bit
    BY <2>1, <2>3 DEF NetRest
  <2>6. Len(events') = Len(events) - 1 /\ Len(events) \in Nat
    BY <1>1, <2>1, HeadTailProperties, LenProperties
  <2>7. Len(events') <= EventsMax
    BY <2>6 DEF NetRest, Net!NetworkAssumption
  <2>8. driver' = driver \/ (driver.on /\ driver.mode \in Net!HasSta
                             /\ driver'.on = driver.on /\ driver'.mode = driver.mode)
    BY <1>1, <2>1 DEF Driver
  <2>9. StationRuns'
    BY <2>8 DEF NetRest, StationRuns
  <2>10. QED  BY <2>1, <2>4, <2>5, <2>7, <2>9 DEF NetRest
<1>5. QED  BY <1>2, <1>3, <1>4

\* wifi_init_sta, for app_main and for the portal.
LEMMA AssociateRest ==
  ASSUME Net!NetworkAssumption, NetTypes, NetRest, Net!Associate, http' \in {"idle", "wait", "restart"}
  PROVE  NetRest'
<1>1. driver \in Driver /\ events \in Seq(Event) /\ "STA" \in Net!Modes
  BY DEF NetTypes, Net!Modes
<1>2. /\ Net!Room /\ group' = {} /\ retries' = 0
      /\ driver' = [driver EXCEPT !.mode = "STA", !.on = TRUE]
      /\ events' = events \/ events' = Append(events, "sta_start")
  BY DEF Net!Associate
<1>3. driver'.mode = "STA" /\ driver'.on
  BY <1>1, <1>2 DEF Driver
<1>4. StationRuns'
  BY <1>3 DEF StationRuns, Net!HasSta
<1>5. Len(events') <= EventsMax
  BY <1>2, PostsFit DEF NetRest, Event
<1>6. 0 \in 0..RetriesMax
  BY DEF Net!NetworkAssumption
<1>7. QED  BY <1>2, <1>4, <1>5, <1>6 DEF NetRest

\* app_main, the portal, and a restart.
LEMMA TasksRest ==
  ASSUME Net!NetworkAssumption, NetTypes, NetRest,
         \/ Net!ConnectSta \/ Net!StaConnected \/ Net!Fallback \/ Net!CheckAp \/ Net!EthInit
         \/ Net!Reconnect \/ Net!Reconnected \/ Net!ApToggle \/ Net!ClearWifi
         \/ Net!ApPreference \/ Net!Restart
  PROVE  NetRest'
<1>1. driver \in Driver /\ events \in Seq(Event)
  BY DEF NetTypes
<1>2. CASE Net!ConnectSta \/ Net!Reconnect
  BY <1>2, AssociateRest DEF Net!ConnectSta, Net!Reconnect, NetRest
<1>3. CASE Net!StaConnected \/ Net!ApToggle \/ Net!ClearWifi
  <2>1. UNCHANGED <<http, group, retries, driver, events>>
    BY <1>3 DEF Net!StaConnected, Net!ApToggle, Net!ClearWifi, Net!history, Net!settings
  <2>2. QED  BY <2>1 DEF NetRest, StationRuns
\* The station is down, or the mode has one.
<1>4. ASSUME UNCHANGED retries, http' \in {"idle", "wait", "restart"}, group' \in {group, Net!NoGroup},
             \/ events' = events \/ events' = <<>>
             \/ Net!Room /\ events' = Net!Posted("disconnected"),
             \/ driver' = driver \/ driver'.sta = "down"
             \/ driver'.sta = driver.sta /\ driver'.on = driver.on /\ driver'.mode \in Net!HasSta
      PROVE  NetRest'
  <2>1. Len(events') <= EventsMax
    BY <1>4, EmptySeq, PostsFit DEF NetRest, Net!NetworkAssumption, Event
  <2>2. StationRuns'
    BY <1>4 DEF NetRest, StationRuns
  <2>3. QED  BY <1>4, <2>1, <2>2 DEF NetRest
<1>5. CASE Net!Fallback
  <2>1. /\ UNCHANGED <<retries, http>> /\ group' = Net!NoGroup /\ events' = <<>> /\ driver'.sta = "down"
    BY <1>5 DEF Net!Fallback, Net!settings, Net!history
  <2>2. QED  BY <1>4, <2>1 DEF NetRest
<1>6. CASE Net!CheckAp \/ Net!ApPreference
  <2>1. /\ UNCHANGED <<retries, group, events>> /\ http' \in {http, "restart"}
        /\ driver' = driver \/ \E m \in Net!HasSta : driver' = [driver EXCEPT !.mode = m]
    BY <1>6 DEF Net!CheckAp, Net!ApPreference, Net!history, Net!HasSta
  <2>2. driver' = driver \/ (driver'.sta = driver.sta /\ driver'.on = driver.on /\ driver'.mode \in Net!HasSta)
    BY <1>1, <2>1 DEF Driver, Net!HasSta, Net!Modes
  <2>3. QED  BY <1>4, <2>1, <2>2 DEF NetRest
<1>7. CASE Net!EthInit
  <2>1. /\ UNCHANGED <<retries, http, group>> /\ Net!Room
        /\ \/ UNCHANGED <<driver, events>>
           \/ /\ driver' = [driver EXCEPT !.mode = wifi_mode', !.sta = "down"]
              /\ events' = Net!Posted("disconnected")
    BY <1>7 DEF Net!EthInit, Net!settings, Net!history
  <2>2. driver' = driver \/ driver'.sta = "down"
    BY <1>1, <2>1 DEF Driver
  <2>3. QED  BY <1>4, <2>1, <2>2 DEF NetRest
<1>8. CASE Net!Reconnected
  <2>1. /\ UNCHANGED retries /\ http' = "idle" /\ group' = Net!NoGroup /\ Net!Room
        /\ events' = events \/ events' = Net!Posted("disconnected")
        /\ driver' = driver \/ driver' = [Net!Alone(driver) EXCEPT !.on = FALSE]
    BY <1>8 DEF Net!Reconnected, Net!settings, Net!history
  <2>2. Net!Alone(driver) \in Driver /\ Net!Alone(driver).sta = "down"
    BY <1>1, DriverMoves DEF Net!Alone
  <2>3. driver' = driver \/ driver'.sta = "down"
    BY <2>1, <2>2 DEF Driver
  <2>4. QED  BY <1>4, <2>1, <2>3
<1>9. CASE Net!Restart
  <2>1. Len(<<>>) = 0
    BY EmptySeq
  <2>2. QED
    BY <1>9, <2>1 DEF Net!Restart, Net!Off, NetRest, StationRuns, Net!NetworkAssumption
<1>10. QED  BY <1>2, <1>3, <1>5, <1>6, <1>7, <1>8, <1>9

\* The types of the network.
LEMMA NetTyped == MCSpec => [](NetInv /\ NetRest)
<1>1. MCInit => NetInv /\ NetRest
  BY NetSteps, NetInit, NetRestInit, NetBounds
<1>2. NetInv /\ NetRest /\ [MCNext]_<<part, clockvars, edgevars>> => NetInv' /\ NetRest'
  <2> SUFFICES ASSUME NetInv, NetRest, [Net!Next]_netvars PROVE NetInv' /\ NetRest'
    BY NetSteps
  <2>1. NetTypes
    BY DEF NetInv
  <2>2. CASE UNCHANGED netvars
    BY <2>2 DEF netvars, NetInv, NetTypes, Undisturbed, FellBack, Net!Joined, NetRest, StationRuns
  <2>3. CASE Net!Next
    BY <2>1, <2>3, LinkKeeps, HandleKeeps, BootKeeps, PortalKeeps, LinkRest, TasksRest, NetBounds
       DEF Net!Next
  <2>4. QED  BY <2>2, <2>3
<1>3. QED  BY <1>1, <1>2, PTL DEF MCSpec

\* A slot holds no more than fits it.
LEMMA TextsFit ==
  ASSUME NEW x \in Texts
  PROVE  x = Absent \/ Len(x) <= ScriptMax
<1>1. /\ ScriptMax \in Nat
      /\ \A s \in Script \cup Legacy : s \in Seq({s[i] : i \in DOMAIN s})
  BY SlotsThere DEF Scripts!SlotsAssumption
<1>2. ASSUME NEW T, NEW s \in Seq(T)
      PROVE  Len(Scripts!Fit(s)) <= ScriptMax
  <2> DEFINE k == IF Len(s) > ScriptMax THEN ScriptMax ELSE Len(s)
  <2>1. k \in 0..Len(s) /\ k <= ScriptMax
    BY <1>1, LenProperties
  <2> HIDE DEF k
  <2>2. Len(SubSeq(s, 1, k)) = k
    BY <2>1, LenProperties, SMT
  <2>3. QED  BY <2>1, <2>2 DEF Scripts!Fit, k
<1>3. Len(<<>>) = 0 /\ <<>> \in Seq({})
  BY EmptySeq
<1>4. ASSUME NEW y \in Script \cup Legacy
      PROVE  Len(Scripts!Fit(y)) <= ScriptMax
  <2>1. y \in Seq({y[i] : i \in DOMAIN y})
    BY <1>1
  <2>2. QED  BY <1>2, <2>1
<1>5. Len(Scripts!Fit(<<>>)) <= ScriptMax
  BY <1>2, <1>3
<1>6. QED  BY <1>1, <1>3, <1>4, <1>5 DEF Texts

\* The queue holds no more commands than it has room for.
LEMMA RestartsBounded ==
  ASSUME SlotInv, restarts <= RestartsMax, [Scripts!Next]_slotvars
  PROVE  restarts' <= RestartsMax
<1>1. restarts \in Nat /\ RestartsMax \in Nat
  BY SlotsThere DEF Scripts!SlotsAssumption, SlotInv, SlotTypes
<1>2. \/ restarts' \in {restarts, 0}
      \/ restarts < RestartsMax /\ restarts' = restarts + 1
      \/ restarts' = restarts - 1
  BY DEF Scripts!Next, Scripts!Probe, Scripts!Migrate, Scripts!SetEnabled, Scripts!SlotSave,
     Scripts!SaveScript, Scripts!Request, Scripts!Write, Scripts!Restart, Scripts!TakeRestart,
     Scripts!ReadEnabled, Scripts!RunScript, Scripts!PowerLoss, slotvars
<1>3. QED  BY <1>1, <1>2

LEMMA SlotsTyped ==
  ASSUME SlotInv, restarts <= RestartsMax
  PROVE  Scripts!TypeOK
<1>1. SlotTypes /\ RestartsMax \in Nat
  BY SlotsThere DEF Scripts!SlotsAssumption, SlotInv
<1>2. \A s \in Slot : (sc[s] = Absent \/ Len(sc[s]) <= ScriptMax) /\ Len(vm[s]) <= ScriptMax
  <2>1. \A s \in Slot : sc[s] \in Texts /\ vm[s] \in Texts /\ vm[s] # Absent
    BY <1>1 DEF SlotTypes
  <2>2. QED  BY <2>1, TextsFit
<1>3. op.at \in {"none", "script", "enabled", "restart"}
  BY <1>1, NoOpIs DEF Pending, OpType
<1>4. restarts \in 0..RestartsMax
  BY <1>1 DEF SlotTypes
<1>5. QED  BY <1>1, <1>2, <1>3, <1>4 DEF SlotTypes, Scripts!TypeOK, Slot, Absent

\* The types of the form: what any of its numbers may be.
Number == 0..Form!PollMax

FormRest ==
  /\ \A f \in Form!Numbers : cfg[f] \in Number
  /\ \A f \in Form!Boxes : cfg[f] \in BOOLEAN
  /\ \A f \in Form!Texts : cfg[f] \in Form!Text
  /\ cfg["buf_size"] # Form!BufMax
  /\ buffer \in 1024..(Form!BufMax - 1)
  /\ state \in {"serving", "saving", "rebooting"} /\ saves \in 0..SavesMax
  /\ \A f \in DOMAIN seen : (f \in Form!Boxes => seen[f] \in BOOLEAN)
                            /\ (f \in Form!Texts => seen[f] \in Form!Text)

LEMMA FieldsApart ==
  /\ \A f \in Form!Boxes : f \notin Form!Numbers /\ f \notin Form!Texts
  /\ \A f \in Form!Numbers : f \notin Form!Texts
  /\ "buf_size" \in Form!Numbers
BY DEF Form!Boxes, Form!Numbers, Form!Texts

LEMMA FormRestInit == Form!SettingsAssumption /\ Form!Init => FormRest
<1> SUFFICES ASSUME Form!SettingsAssumption, Form!Init PROVE FormRest
  OBVIOUS
<1>1. cfg = Form!Factory /\ buffer = 16384 /\ seen = [f \in {} |-> 0] /\ state = "serving" /\ saves = 0
  BY DEF Form!Init, Form!BufDefault
<1>2. \A f \in Form!Numbers : Form!Factory[f] \in Number
  <2>1. \A n \in {1883, 16384, 168, 3, 60, 3600} : n \in Number
    BY Ranges DEF Number
  <2>2. \A f \in Form!Numbers : Form!Factory[f] \in {1883, 16384, 168, 3, 60, 3600}
    BY FieldsApart DEF Form!Factory, Form!Field, Form!Numbers, Form!BufDefault
  <2>3. QED  BY <2>1, <2>2
<1>4. \A f \in Form!Boxes : Form!Factory[f] \in BOOLEAN
  BY FieldsApart DEF Form!Factory, Form!Field
<1>5. \A f \in Form!Texts : Form!Factory[f] \in Form!Text
  BY DEF Form!Factory, Form!Field, Form!Text
<1>6. buffer \in 1024..(Form!BufMax - 1) /\ saves \in 0..SavesMax /\ DOMAIN seen = {}
  BY <1>1, Ranges DEF Form!SettingsAssumption
<1>7. Form!Factory["buf_size"] # Form!BufMax
  <2>1. Form!Factory["buf_size"] = 16384
    BY DEF Form!Factory, Form!Field, Form!Numbers, Form!Texts, Form!Boxes, Form!BufDefault
  <2>2. QED  BY <2>1, Ranges
<1>8. QED  BY <1>1, <1>2, <1>4, <1>5, <1>6, <1>7 DEF FormRest

\* What is found of a form: a field whole, or what is left of one it was cut in.
LEMMA FoundTyped ==
  ASSUME Form!SettingsAssumption, NEW n \in 1..Len(Form!Page), form' \in Forms, NEW x \in Form!Arrived(n)',
         NEW f \in DOMAIN x
  PROVE  (f \in Form!Boxes => x[f] \in BOOLEAN) /\ (f \in Form!Texts => x[f] \in Form!Text)
<1>1. x[f] = form'[f] \/ (f \notin Form!Boxes /\ x[f] \in Form!CutShort(f, form'[f]))
  <2> DEFINE whole == {Form!Page[i] : i \in 2..n}
             cut == Form!Page[n + 1]
  <2>1. \/ x = [g \in whole |-> form'[g]]
        \/ /\ cut \notin Form!Boxes
           /\ \E v \in Form!CutShort(cut, form'[cut]) :
                x = [g \in whole \cup {cut} |-> IF g = cut THEN v ELSE form'[g]]
    BY DEF Form!Arrived
  <2> HIDE DEF whole, cut
  <2>2. QED  BY <2>1
<1>2. (f \in Form!Boxes => form'[f] \in BOOLEAN) /\ (f \in Form!Texts => form'[f] \in Form!Text)
  BY DEF Form!SettingsAssumption
<1>3. f \in Form!Texts => Form!CutShort(f, form'[f]) \subseteq Form!Text
  BY FieldsApart DEF Form!CutShort, Form!Text
<1>4. QED  BY <1>1, <1>2, <1>3

\* A number the handler takes, as NVS keeps it.
LEMMA StoredTyped ==
  \A f \in Form!Numbers : \A v \in Form!Allowed[f] :
    Form!Stored(f, v) \in Number /\ (f = "buf_size" => Form!Stored(f, v) # Form!BufMax)
<1>1. \A v \in Int : v % 65536 \in Number
  <2>1. \A v \in Int : v % 65536 \in Nat /\ v % 65536 < 65536
    OBVIOUS
  <2>2. \A n \in Nat : n < Form!BufMax => n \in Number
    BY Ranges DEF Number
  <2>3. QED  BY <2>1, <2>2 DEF Form!BufMax
<1>2. /\ Form!Allowed["mqtt_port"] = Ports /\ Form!Allowed["echo_count"] = Counts
      /\ Form!Allowed["echo_window"] = Windows /\ Form!Allowed["retain_ttl_h"] = Hours
      /\ Form!Allowed["ntp_poll"] = Polls /\ Form!Allowed["buf_size"] = Sizes
  BY DEF Form!Allowed, Ports, Counts, Windows, Hours, Polls, Sizes
<1>3. /\ \A v \in Ports : v \in Number
      /\ \A v \in Counts : v \in Number
      /\ \A v \in Windows : v \in Number
      /\ \A v \in Hours : v \in Number
      /\ \A v \in Polls : v \in Number
      /\ \A v \in Sizes : v \in Number
  <2>1. \A v \in Ports : v \in Number
    BY Ranges DEF Ports, Number
  <2>2. \A v \in Counts : v \in Number
    BY Ranges DEF Counts, Number
  <2>3. \A v \in Windows : v \in Number
    BY Ranges DEF Windows, Number
  <2>4. \A v \in Hours : v \in Number
    BY Ranges DEF Hours, Number
  <2>5. \A v \in Polls : v \in Number
    BY Ranges DEF Polls, Number
  <2>6. \A v \in Sizes : v \in Number
    BY Ranges DEF Sizes, Number
  <2>7. QED  BY <2>1, <2>2, <2>3, <2>4, <2>5, <2>6
<1>4. \A f \in Form!Numbers : \A v \in Form!Allowed[f] : v \in Number
  <2>1. \A f \in Form!Numbers : \/ f = "mqtt_port" \/ f = "buf_size" \/ f = "retain_ttl_h"
                               \/ f = "echo_count" \/ f = "echo_window" \/ f = "ntp_poll"
    BY DEF Form!Numbers
  <2>2. QED  BY <1>2, <1>3, <2>1
<1>5. \A v \in Number : v \in Int
  BY Ranges DEF Number
<1>6. \A v \in Number : Form!Stored("buf_size", v) # Form!BufMax
  <2>1. \A v \in Int : v % 65536 # 65536
    OBVIOUS
  <2>2. QED  BY <1>5, <2>1 DEF Form!Stored, Form!Width16, Form!BufMax
<1>7. \A f \in Form!Numbers : \A v \in Form!Allowed[f] : Form!Stored(f, v) \in Number
  BY <1>1, <1>4, <1>5 DEF Form!Stored
<1>8. QED  BY <1>4, <1>6, <1>7

\* A write keeps the type of its field.
LEMMA SavedTyped ==
  ASSUME FormInv, FormRest, NEW f \in Field, Form!Save(f)
  PROVE  /\ \A g \in Form!Numbers : cfg'[g] \in Number
         /\ \A g \in Form!Boxes : cfg'[g] \in BOOLEAN
         /\ \A g \in Form!Texts : cfg'[g] \in Form!Text
         /\ cfg'["buf_size"] # Form!BufMax
<1>1. ASSUME NEW v, cfg' = [cfg EXCEPT ![f] = v],
             f \in Form!Numbers => v \in Number, f = "buf_size" => v # Form!BufMax,
             f \in Form!Boxes => v \in BOOLEAN, f \in Form!Texts => v \in Form!Text
      PROVE  \A g \in Field :
               /\ g \in Form!Numbers => cfg'[g] \in Number
               /\ g \in Form!Boxes => cfg'[g] \in BOOLEAN
               /\ g \in Form!Texts => cfg'[g] \in Form!Text
               /\ g = "buf_size" => cfg'[g] # Form!BufMax
  <2>1. DOMAIN cfg = Field
    BY DEF FormInv
  <2>2. cfg'[f] = v /\ \A g \in Field : g # f => cfg'[g] = cfg[g]
    BY <1>1, <2>1
  <2>3. QED  BY <1>1, <2>2 DEF FormRest
<1>2. /\ \A g \in Form!Numbers : g \in Field
      /\ \A g \in Form!Boxes : g \in Field
      /\ \A g \in Form!Texts : g \in Field
      /\ "buf_size" \in Field
  BY FieldsApart DEF Field, Form!Field
<1>3. CASE UNCHANGED cfg
  BY <1>3 DEF FormRest
<1>4. CASE f \in Form!Boxes /\ cfg' = [cfg EXCEPT ![f] = (f \in DOMAIN seen) /\ seen[f]]
  <2>1. (f \in DOMAIN seen /\ seen[f]) \in BOOLEAN
    OBVIOUS
  <2>2. QED  BY <1>1, <1>2, <1>4, <2>1, FieldsApart
<1>5. CASE /\ f \in Form!Numbers /\ seen[f] \in Form!Allowed[f]
           /\ cfg' = [cfg EXCEPT ![f] = Form!Stored(f, seen[f])]
  BY <1>1, <1>2, <1>5, StoredTyped, FieldsApart
<1>6. CASE /\ f \in Form!Texts /\ f \in DOMAIN seen
           /\ \E v \in {"UTC0", seen[f]} : cfg' = [cfg EXCEPT ![f] = v]
  <2>1. "UTC0" \in Form!Text /\ seen[f] \in Form!Text
    BY <1>6 DEF FormRest, Form!Text
  <2>2. QED  BY <1>1, <1>2, <1>6, <2>1, FieldsApart
<1>7. QED
  <2> DEFINE v == seen[f]  found == f \in DOMAIN seen
             put == CASE f \in Form!Numbers -> Form!Stored(f, v)
                      [] f = "ntp_tz" /\ v = "" -> "UTC0"
                      [] OTHER -> v
  <2>1. \/ f \in Form!Boxes /\ cfg' = [cfg EXCEPT ![f] = found /\ v]
        \/ f \notin Form!Boxes /\ found /\ Form!Accepted(f, v) /\ cfg' = [cfg EXCEPT ![f] = put]
        \/ cfg' = cfg
    BY DEF Form!Save
  <2>2. CASE f \in Form!Numbers
    <3>1. put = Form!Stored(f, v)
      <4>1. f # "ntp_tz"
        BY <2>2 DEF Form!Numbers
      <4>2. QED  BY <2>2, <4>1
    <3>2. Form!Accepted(f, v) => v \in Form!Allowed[f]
      BY <2>2 DEF Form!Accepted
    <3> HIDE DEF put
    <3>3. cfg' = cfg \/ (v \in Form!Allowed[f] /\ cfg' = [cfg EXCEPT ![f] = Form!Stored(f, v)])
      BY <2>1, <2>2, <3>1, <3>2, FieldsApart
    <3>4. QED  BY <1>3, <1>5, <2>2, <3>3
  <2>3. CASE f \notin Form!Numbers
    <3>1. put \in {"UTC0", v}
      <4>1. CASE f = "ntp_tz" /\ v = ""
        BY <2>3, <4>1
      <4>2. CASE ~(f = "ntp_tz" /\ v = "")
        BY <2>3, <4>2
      <4>3. QED  BY <4>1, <4>2
    <3>2. f \in Form!Boxes \/ f \in Form!Texts
      BY <2>3 DEF Field, Form!Field
    <3> HIDE DEF put
    <3>3. QED  BY <1>3, <1>4, <1>6, <2>1, <2>3, <3>1, <3>2
  <2>4. QED  BY <2>2, <2>3

LEMMA FormRestStep ==
  ASSUME Form!SettingsAssumption, FormInv, FormRest, [Form!Next]_formvars
  PROVE  FormRest'
<1>1. CASE UNCHANGED formvars
  BY <1>1 DEF formvars, FormRest
<1>2. ASSUME NEW n \in 1..Len(Form!Page), Form!Request(n)
      PROVE  FormRest'
  <2>1. /\ UNCHANGED <<cfg, buffer>> /\ state' = "saving" /\ saves < SavesMax /\ saves' = saves + 1
        /\ form' \in Forms /\ seen' \in Form!Arrived(n)'
    BY <1>2 DEF Form!Request
  <2>2. \A f \in DOMAIN seen' : (f \in Form!Boxes => seen'[f] \in BOOLEAN)
                              /\ (f \in Form!Texts => seen'[f] \in Form!Text)
    BY <2>1, FoundTyped
  <2>3. saves' \in 0..SavesMax
    BY <2>1 DEF FormRest, Form!SettingsAssumption
  <2>4. QED  BY <2>1, <2>2, <2>3 DEF FormRest
<1>3. CASE Form!SaveNext
  <2>1. /\ field < Len(Written) /\ Form!Save(Written[field + 1])
        /\ UNCHANGED <<buffer, seen, state, saves>>
    BY <1>3 DEF Form!SaveNext, Written
  <2>2. Written[field + 1] \in Field
    <3>1. field + 1 \in 1..23
      BY <2>1, EachFieldOnce DEF FormInv
    <3>2. QED  BY <3>1, EachFieldOnce
  <2>3. QED  BY <2>1, <2>2, SavedTyped DEF FormRest
<1>4. CASE Form!Answer
  BY <1>4 DEF Form!Answer, FormRest
<1>5. CASE Form!Boot
  <2>1. UNCHANGED <<cfg, seen, saves>> /\ state' = "serving" /\ buffer' = Form!BootBuffer(cfg["buf_size"])
    BY <1>5 DEF Form!Boot
  <2>2. \A n : n # Form!BufMax => Form!BootBuffer(n) \in 1024..(Form!BufMax - 1)
    <3>1. \A n : Form!BootBuffer(n) = IF n \in Sizes THEN n ELSE 16384
      BY DEF Form!BootBuffer, Form!BufDefault, Sizes
    <3>2. 16384 \in 1024..(Form!BufMax - 1)
      BY Ranges
    <3>3. \A n \in Sizes : n # Form!BufMax => n \in 1024..(Form!BufMax - 1)
      BY Ranges DEF Sizes
    <3>4. QED  BY <3>1, <3>2, <3>3
  <2>3. QED  BY <2>1, <2>2 DEF FormRest
<1>6. QED  BY <1>1, <1>2, <1>3, <1>4, <1>5 DEF Form!Next

LEMMA FormTyped == MCSpec => [](part = "settings" => FormInv /\ FormRest)
<1> DEFINE Inv == part = "settings" => FormInv /\ FormRest
<1>1. MCInit => Inv
  BY FormSteps, FormRestInit, FormsTicked DEF MCInit, EdgeInit
<1>2. Inv /\ [MCNext]_<<part, clockvars, edgevars>> => Inv'
  BY FormSteps, FormStep, FormRestStep, FormsTicked
<1>3. QED  BY <1>1, <1>2, PTL DEF MCSpec

LEMMA FormTypes ==
  ASSUME FormInv, FormRest
  PROVE  Form!TypeOK
<1>1. field \in 0..Len(Form!Written)
  BY EachFieldOnce DEF FormInv, Written
<1>2. QED  BY <1>1 DEF FormRest, Form!TypeOK, Number

-----------------------------------------------------------------------------
(* The types of the parts whose proofs are in modules of their own. *)

LEMMA AliveTypes == MCSpec => []TypeOK
<1>1. MCInit => Init
  BY DEF MCInit, ClockInit
<1>2. [MCNext]_<<part, clockvars, edgevars>> => [Next]_vars
  BY DEF MCNext, EdgeNext, ClockNext, clockvars
<1>3. MCSpec => Spec
  BY <1>1, <1>2, PTL DEF MCSpec, Spec
<1>4. TypeInv => TypeOK
  BY DEF TypeInv
<1>5. QED  BY <1>3, <1>4, TypeCorrect, PTL

LEMMA LimitTypes == MCSpec => []Limit!TypeOK
<1>1. MCSpec => Limit!Spec
  BY LimitSteps, PTL DEF MCSpec, Limit!Spec
<1>2. Limit!Spec => []Limit!TypeOK
  BY Limit!TypeCorrect, RateSizes
<1>3. QED  BY <1>1, <1>2, PTL

LEMMA UpdateTypes ==
  ASSUME NEW Pieces, Update!OtaAssumption(Pieces)
  PROVE  MCSpec => []Update!TypeOK
<1>1. MCSpec => Update!Spec
  BY UpdateSteps, PTL DEF MCSpec, Update!Spec, otavars, Update!vars
<1>2. Update!Spec => []Update!TypeOK
  BY Update!TypeCorrect
<1>3. QED  BY <1>1, <1>2, PTL

-----------------------------------------------------------------------------
(* The types of SNTP. *)

RingTypes == ring \in [0..(Ring - 1) -> [mono : 0..Sntp!mono, wall : Nat]]

LEMMA RingTypesStep ==
  ASSUME Sntp!NtpAssumption, NtpInv, RingTypes, [Sntp!Next]_Sntp!ntpvars
  PROVE  RingTypes'
<1>1. Sntp!mono \in Nat /\ Sntp!wall \in Int /\ Most \in Nat
  BY ClockTypes DEF NtpInv
\* A new entry holds the clocks of its moment; in time the old ones stay within them.
<1>2. ASSUME Sntp!mono' \in Nat, Sntp!mono <= Sntp!mono',
             \A i \in 0..(Ring - 1) :
               ring'[i] = ring[i] \/ (ring'[i] = [mono |-> Sntp!mono, wall |-> Sntp!wall] /\ Sntp!wall \in Nat),
             ring' = [i \in 0..(Ring - 1) |-> ring'[i]]
      PROVE  RingTypes'
  <2>1. \A i \in 0..(Ring - 1) : ring'[i] \in [mono : 0..Sntp!mono', wall : Nat]
    <3>1. SUFFICES ASSUME NEW i \in 0..(Ring - 1) PROVE ring'[i] \in [mono : 0..Sntp!mono', wall : Nat]
      OBVIOUS
    <3>2. CASE ring'[i] = ring[i]
      <4>1. ring[i] \in [mono : 0..Sntp!mono, wall : Nat]
        BY DEF RingTypes
      <4>2. 0..Sntp!mono \subseteq 0..Sntp!mono'
        BY <1>1, <1>2
      <4>3. QED  BY <3>2, <4>1, <4>2
    <3>3. CASE ring'[i] = [mono |-> Sntp!mono, wall |-> Sntp!wall] /\ Sntp!wall \in Nat
      <4>1. Sntp!mono \in 0..Sntp!mono'
        BY <1>1, <1>2
      <4>2. QED  BY <3>3, <4>1
    <3>4. QED  BY <1>2, <3>2, <3>3
  <2>2. QED  BY <1>2, <2>1 DEF RingTypes
<1>3. ring = [i \in 0..(Ring - 1) |-> ring[i]]
  BY DEF RingTypes
<1>4. CASE UNCHANGED <<ticks, osc, ring>>
  <2>1. Sntp!mono' = Sntp!mono
    BY <1>4 DEF Sntp!mono
  <2>2. QED  BY <1>4, <2>1 DEF RingTypes
<1>5. CASE Sntp!Note
  <2>1. /\ UNCHANGED <<ticks, osc>> /\ sync = "flagged"
        /\ ring' = [ring EXCEPT ![head] = [mono |-> Sntp!mono, wall |-> Sntp!wall]]
    BY <1>5 DEF Sntp!Note, Sntp!Record
  <2>2. Sntp!mono' = Sntp!mono
    BY <2>1 DEF Sntp!mono
  <2>3. Sntp!wall \in Nat
    <3>1. Sntp!wall > Most
      BY <2>1 DEF NtpInv, HighInv
    <3>2. QED  BY <1>1, <3>1
  <2>4. ring' = [i \in 0..(Ring - 1) |-> ring'[i]]
    BY <1>3, <2>1
  <2>5. \A i \in 0..(Ring - 1) :
          ring'[i] = ring[i] \/ ring'[i] = [mono |-> Sntp!mono, wall |-> Sntp!wall]
    BY <1>3, <2>1
  <2>6. QED  BY <1>1, <1>2, <2>2, <2>3, <2>4, <2>5
<1>6. CASE Sntp!NtpTick
  <2>1. ticks' = ticks + 1 /\ osc' = osc /\ ring' = ring
    BY <1>6 DEF Sntp!NtpTick
  <2>2. Sntp!mono' = Sntp!mono + (Unit + osc)
    <3>1. (ticks + 1) * (Unit + osc) = ticks * (Unit + osc) + (Unit + osc)
      BY ClockTypes DEF NtpInv
    <3>2. Sntp!mono' = (ticks + 1) * (Unit + osc)
      BY <2>1 DEF Sntp!mono
    <3>3. QED  BY <3>1, <3>2, ClockTypes DEF NtpInv
  <2>3. Sntp!mono' \in Nat /\ Sntp!mono <= Sntp!mono'
    BY <1>1, <2>2, ClockTypes DEF NtpInv
  <2>4. ring' = [i \in 0..(Ring - 1) |-> ring'[i]]
    BY <1>3, <2>1
  <2>5. \A i \in 0..(Ring - 1) :
          ring'[i] = ring[i] \/ (ring'[i] = [mono |-> Sntp!mono, wall |-> Sntp!wall] /\ Sntp!wall \in Nat)
    BY <2>1
  <2>6. QED  BY <1>2, <2>3, <2>4, <2>5
<1>7. QED
  BY <1>4, <1>5, <1>6 DEF Sntp!Next, Sntp!SetTime, Sntp!Flag, Sntp!Receive, Sntp!Snapshot,
     Sntp!Stratum, Sntp!Stamp, Sntp!Send, Sntp!ntpvars

LEMMA SntpTypes == MCSpec => []Sntp!TypeOK
<1>1. MCInit => RingTypes
  <2>1. MCInit => osc \in Oscillators /\ ticks = 0
                  /\ ring = [i \in 0..(Ring - 1) |-> [mono |-> 0, wall |-> 0]]
    BY NtpSteps DEF Sntp!Init
  <2>2. MCInit => Sntp!mono = 0
    BY <2>1, NtpConstants, ClockSizes DEF Sntp!mono
  <2>3. QED  BY <2>1, <2>2 DEF RingTypes
<1>2. NtpInv /\ RingTypes /\ [MCNext]_<<part, clockvars, edgevars>> => RingTypes'
  BY NtpSteps, RingTypesStep, ClockSizes
<1>3. NtpInv /\ RingTypes => Sntp!TypeOK
  <2> SUFFICES ASSUME NtpInv, RingTypes PROVE Sntp!TypeOK
    OBVIOUS
  <2>1. At \in Nat /\ Ring \in Nat /\ Ring > 1 /\ history \in Seq(Point) /\ Sntp!mono \in Nat
    BY NtpConstants, ClockSizes, ClockTypes DEF NtpInv, SyncInv
  <2>2. head \in 0..(Ring - 1) /\ count \in 0..Ring
    BY <2>1 DEF NtpInv, RingInv
  <2>3. last_sync \in 0..Sntp!mono
    BY <2>1 DEF NtpInv, LastInv
  <2>4. ppm = Sntp!Unknown \/ ppm \in -Clamp..Clamp
    <3>1. CASE At < 2
      BY <3>1 DEF NtpInv, EstimateInv
    <3>2. CASE At >= 2
      <4> DEFINE last == history[At]  first == history[First(At)]
      <4>1. First(At) \in 1..At
        BY <2>1, <3>2 DEF First
      <4>2. last \in Point /\ first \in Point
        BY <2>1, <3>2, <4>1 DEF At
      <4>3. last.mono - first.mono \in Int /\ last.wall - first.wall \in Int
        BY <4>2 DEF Point
      <4>4. ppm = Sntp!Estimate(last.mono - first.mono, last.wall - first.wall)
        BY <2>1, <3>2 DEF NtpInv, EstimateInv
      <4> HIDE DEF last, first
      <4>5. QED  BY <4>3, <4>4, EstimateRange, ClockSizes
    <3>3. QED  BY <2>1, <3>1, <3>2
  <2>5. QED  BY <2>2, <2>3, <2>4 DEF NtpInv, SyncInv, RingTypes, Sntp!TypeOK
<1>4. QED  BY <1>1, <1>2, <1>3, NtpInvariant, PTL DEF MCSpec

-----------------------------------------------------------------------------
(* The types of echo detection: no count outruns the publishes. *)

EchoRest ==
  /\ time <= EchoTimeMax /\ enabled \in BOOLEAN /\ min_count \in MinCounts
  /\ published \in Nat /\ published <= PublishMax
  /\ Echo!Tracked \subseteq EchoTopic
  /\ IsFiniteSet(Echo!Tracked) /\ Cardinality(Echo!Tracked) <= MaxTopics
  /\ \A t \in Echo!Tracked :
       /\ entries[t].count <= published /\ Cardinality(heard[t]) <= published
       /\ \A p \in heard[t] : 1 <= p.number /\ p.number <= published

LEMMA EchoRestInit == Echo!EchoAssumption /\ Echo!Init => EchoRest
<1> SUFFICES ASSUME Echo!EchoAssumption, Echo!Init PROVE EchoRest
  OBVIOUS
<1>1. /\ time = 0 /\ enabled = TRUE /\ min_count \in MinCounts /\ published = 0
      /\ Echo!Tracked = {}
  BY DEF Echo!Init, Echo!Tracked
<1>2. IsFiniteSet({}) /\ Cardinality({}) = 0
  BY FS_EmptySet
<1>3. 0 <= EchoTimeMax /\ 0 <= PublishMax /\ 0 <= MaxTopics
  BY DEF Echo!EchoAssumption
<1>4. QED  BY <1>1, <1>2, <1>3 DEF EchoRest

\* The entry of a publish counts one more at most.
LEMMA CountsOneMore ==
  ASSUME NEW t, EchoRest, EchoInv
  PROVE  NextEntry(t).count <= published + 1
<1>1. published \in Nat /\ detections \in Nat
  BY DEF EchoRest, EchoInv
<1>2. \A e \in EntryFields : Echo!Flag(e).count = e.count
  <2>1. SUFFICES ASSUME NEW e \in EntryFields PROVE Echo!Flag(e).count = e.count
    OBVIOUS
  <2>2. [e EXCEPT !.detected_at = detections + 1].count = e.count
    BY <1>1, EntryFlagged
  <2>3. QED  BY <2>2 DEF Echo!Flag
<1>3. \A e \in EntryFields : Echo!Opened(e) \in EntryFields /\ Echo!Opened(e).count = 1
  <2> DEFINE m == time % EchoWrap  q == time \div EchoWrap
  <2>1. m \in Int /\ q \in Nat
    <3>1. time \in Nat /\ EchoWrap \in Nat /\ EchoWrap > 0
      BY EchoConstants, EchoSizes DEF EchoInv
    <3>2. QED  BY <3>1, SMT
  <2>2. \A e : Echo!Opened(e) = [e EXCEPT !.count = 1, !.start = m, !.round = q]
    BY DEF Echo!Opened, Echo!now_ms
  <2> HIDE DEF m, q
  <2>3. ASSUME NEW e \in EntryFields
        PROVE  /\ [e EXCEPT !.count = 1, !.start = m, !.round = q] \in EntryFields
               /\ [e EXCEPT !.count = 1, !.start = m, !.round = q].count = 1
    BY <2>1, EntryOpened DEF EntryFields
  <2>4. QED  BY <2>2, <2>3
<1>4. CASE t \notin Echo!Tracked
  <2>1. Echo!NoEntry \in EntryFields
    BY DEF Echo!NoEntry, EntryFields
  <2>2. QED  BY <1>1, <1>2, <1>3, <1>4, <2>1 DEF NextEntry, Echo!NewEntry
<1>5. CASE t \in Echo!Tracked
  <2> DEFINE e == entries[t]
  <2>1. e \in EntryFields /\ e.count <= published
    BY <1>1, <1>5, EntryByFields DEF EchoInv, EchoRest, Tracking
  <2> HIDE DEF e
  <2>2. e.count + 1 \in Nat /\ e.count + 1 <= published + 1
    BY <1>1, <2>1 DEF EntryFields
  <2>3. /\ [e EXCEPT !.count = @ + 1] \in EntryFields
        /\ [e EXCEPT !.count = @ + 1].count <= published + 1
    BY <2>1, <2>2, EntryCounted
  <2>4. Echo!Counted(e) \in EntryFields /\ Echo!Counted(e).count <= published + 1
    <3>1. CASE Echo!Expired(e)
      BY <1>1, <1>3, <2>1, <3>1 DEF Echo!Counted
    <3>2. CASE ~Echo!Expired(e)
      BY <2>3, <3>2 DEF Echo!Counted
    <3>3. QED  BY <3>1, <3>2
  <2>5. NextEntry(t) = Echo!Flag(Echo!Counted(e))
    BY <1>5 DEF NextEntry, e
  <2>6. QED  BY <1>2, <2>4, <2>5
<1>6. QED  BY <1>4, <1>5

\* A topic takes a place: its own, a free one, or that of another.
LEMMA PlacesEnough ==
  ASSUME EchoRest, NEW t \in EchoTopic, Echo!echo_track(t)
  PROVE  \E gone : LET stay == (Echo!Tracked \ gone) \cup {t} IN
           /\ Echo!Tracks(t, NextEntry(t), gone)
           /\ stay \subseteq EchoTopic /\ IsFiniteSet(stay) /\ Cardinality(stay) <= MaxTopics
<1> DEFINE T == Echo!Tracked
<1>1. /\ T \subseteq EchoTopic /\ IsFiniteSet(T) /\ Cardinality(T) <= MaxTopics
      /\ Cardinality(T) \in Nat /\ MaxTopics \in Nat
  BY FS_CardinalityType, EchoSizes DEF EchoRest, Echo!EchoAssumption
<1>2. CASE t \in Echo!Tracked /\ Echo!Tracks(t, Echo!Flag(Echo!Counted(entries[t])), {t})
  <2>1. (T \ {t}) \cup {t} = T
    BY <1>2
  <2>2. Echo!Tracks(t, NextEntry(t), {t})
    BY <1>2 DEF NextEntry
  <2> HIDE DEF T
  <2>3. QED  BY <1>1, <2>1, <2>2 DEF T
<1>3. CASE /\ t \notin Echo!Tracked /\ Echo!Cardinality(T) < MaxTopics
           /\ Echo!Tracks(t, Echo!Flag(Echo!NewEntry), {})
  <2>1. Echo!Tracks(t, NextEntry(t), {})
    BY <1>3 DEF NextEntry
  <2>2. (T \ {}) \cup {t} = T \cup {t} /\ t \notin T /\ Cardinality(T) < MaxTopics
    BY <1>3, SameCount
  <2> HIDE DEF T
  <2>3. IsFiniteSet(T \cup {t}) /\ Cardinality(T \cup {t}) = Cardinality(T) + 1
    BY <1>1, <2>2, FS_AddElement
  <2>4. QED  BY <1>1, <2>1, <2>2, <2>3 DEF T
<1>4. CASE /\ t \notin Echo!Tracked
           /\ \E v \in Echo!Victims : Echo!Tracks(t, Echo!Flag(Echo!NewEntry), {v})
  <2>1. PICK v \in Echo!Victims : Echo!Tracks(t, NextEntry(t), {v})
    BY <1>4 DEF NextEntry
  <2>2. v \in T /\ t \notin T
    BY <1>4 DEF Echo!Victims
  <2> HIDE DEF T
  <2>3. IsFiniteSet(T \ {v}) /\ Cardinality(T \ {v}) = Cardinality(T) - 1 /\ t \notin T \ {v}
    BY <1>1, <2>2, FS_RemoveElement
  <2>4. IsFiniteSet((T \ {v}) \cup {t}) /\ Cardinality((T \ {v}) \cup {t}) = Cardinality(T \ {v}) + 1
    BY <2>3, FS_AddElement
  <2>5. QED  BY <1>1, <2>1, <2>3, <2>4 DEF T
<1>5. QED  BY <1>2, <1>3, <1>4 DEF Echo!echo_track

LEMMA TrackRest ==
  ASSUME EchoInv, EchoRest, NEW t \in EchoTopic, Echo!echo_track(t)
  PROVE  EchoRest'
<1>1. PICK gone : LET stay == (Echo!Tracked \ gone) \cup {t} IN
        /\ Echo!Tracks(t, NextEntry(t), gone)
        /\ stay \subseteq EchoTopic /\ IsFiniteSet(stay) /\ Cardinality(stay) <= MaxTopics
  BY PlacesEnough
<1> DEFINE stay == (Echo!Tracked \ gone) \cup {t}  H == HeardOf(t)  K == H \cup {Fresh(H)}
<1>2. /\ entries' = [u \in stay |-> IF u = t THEN NextEntry(t) ELSE entries[u]]
      /\ heard' = [u \in stay |-> IF u = t THEN K ELSE heard[u]]
      /\ UNCHANGED <<time, enabled, min_count>> /\ published' = published + 1
      /\ published < PublishMax
  BY <1>1, LouderIs DEF Echo!Tracks, Echo!echo_track
<1>3. published \in Nat /\ published' = published + 1
  BY <1>2 DEF EchoRest
<1>4. /\ IsFiniteSet(H) /\ Cardinality(H) <= published /\ Cardinality(H) \in Nat
      /\ \A p \in H : 1 <= p.number /\ p.number <= published /\ p.number \in Nat
  <2>1. CASE t \in Echo!Tracked
    <3>1. IsFiniteSet(heard[t]) /\ heard[t] \subseteq HeardBy(time)
      BY <2>1 DEF EchoInv, Tracking, Heard
    <3>2. Cardinality(heard[t]) <= published /\ \A p \in heard[t] : 1 <= p.number /\ p.number <= published
      BY <2>1 DEF EchoRest
    <3>3. \A p \in heard[t] : p.number \in Nat
      BY <3>1 DEF HeardBy
    <3>4. QED  BY <2>1, <3>1, <3>2, <3>3, FS_CardinalityType DEF HeardOf
  <2>2. CASE t \notin Echo!Tracked
    <3>1. H = {}
      BY <2>2 DEF HeardOf
    <3>2. IsFiniteSet({}) /\ Cardinality({}) = 0
      BY FS_EmptySet
    <3> HIDE DEF H
    <3>3. QED  BY <1>3, <3>1, <3>2
  <2>3. QED  BY <2>1, <2>2
<1> HIDE DEF H
<1>5. /\ Cardinality(K) <= published + 1
      /\ \A p \in K : 1 <= p.number /\ p.number <= published + 1
  <2>1. Cardinality(Now(H, time)) \in Nat /\ Cardinality(Now(H, time)) <= Cardinality(H)
    BY <1>4, HeardPart DEF Now
  <2>2. 1 <= Fresh(H).number /\ Fresh(H).number <= published + 1
    BY <1>3, <1>4, <2>1 DEF Fresh
  <2>3. Cardinality(K) <= published + 1
    <3>1. Cardinality(K) = Cardinality(H) \/ Cardinality(K) = Cardinality(H) + 1
      BY <1>4, FS_AddElement
    <3>2. QED  BY <1>3, <1>4, <3>1
  <2>4. \A p \in H : 1 <= p.number /\ p.number <= published + 1
    BY <1>3, <1>4
  <2>5. QED  BY <2>2, <2>3, <2>4
<1> HIDE DEF K, stay
<1>6. /\ DOMAIN entries' = stay
      /\ \A u \in stay : /\ entries'[u].count <= published'
                         /\ Cardinality(heard'[u]) <= published'
                         /\ \A p \in heard'[u] : 1 <= p.number /\ p.number <= published'
  <2>1. DOMAIN entries' = stay
    BY <1>2
  <2>2. SUFFICES ASSUME NEW u \in stay
                 PROVE  /\ entries'[u].count <= published'
                        /\ Cardinality(heard'[u]) <= published'
                        /\ \A p \in heard'[u] : 1 <= p.number /\ p.number <= published'
    BY <2>1
  <2>3. CASE u = t
    BY <1>2, <1>3, <1>5, <2>3, CountsOneMore
  <2>4. CASE u # t
    <3>1. u \in Echo!Tracked /\ entries'[u] = entries[u] /\ heard'[u] = heard[u]
      BY <1>2, <2>4 DEF stay
    <3>2. /\ entries[u].count \in Nat /\ IsFiniteSet(heard[u])
          /\ \A p \in heard[u] : p.number \in Nat
      BY <3>1 DEF EchoInv, Tracking, EntryType, Heard, HeardBy
    <3>3. Cardinality(heard[u]) \in Nat
      BY <3>2, FS_CardinalityType
    <3>4. /\ entries[u].count <= published /\ Cardinality(heard[u]) <= published
          /\ \A p \in heard[u] : 1 <= p.number /\ p.number <= published
      BY <3>1 DEF EchoRest
    <3>5. QED  BY <1>3, <3>1, <3>2, <3>3, <3>4
  <2>5. QED  BY <2>3, <2>4
<1>7. published' \in Nat /\ published' <= PublishMax
  BY <1>2, <1>3, EchoSizes DEF Echo!EchoAssumption
<1>8. time' <= EchoTimeMax /\ enabled' \in BOOLEAN /\ min_count' \in MinCounts
  BY <1>2 DEF EchoRest
<1>9. QED  BY <1>1, <1>6, <1>7, <1>8 DEF EchoRest, Echo!Tracked, stay

LEMMA EchoRestStep ==
  ASSUME EchoInv, EchoRest, [Echo!Next]_Echo!evars
  PROVE  EchoRest'
<1>1. CASE UNCHANGED <<time, enabled, min_count, entries, heard, published>>
  BY <1>1 DEF EchoRest, Echo!Tracked
<1>2. ASSUME NEW t \in EchoTopic, Echo!echo_track(t) PROVE EchoRest'
  BY <1>2, TrackRest
<1>3. CASE Echo!echo_reset
  <2>1. /\ DOMAIN entries' = Echo!Tracked /\ UNCHANGED <<time, enabled, min_count, published>>
        /\ \A t \in Echo!Tracked : entries'[t] = Echo!NoEntry /\ heard'[t] = {}
    BY <1>3 DEF Echo!echo_reset
  <2>2. 0 <= published /\ Cardinality({}) = 0
    BY FS_EmptySet DEF EchoRest
  <2>3. \A t \in Echo!Tracked : entries'[t].count <= published /\ Cardinality(heard'[t]) <= published
    BY <2>1, <2>2 DEF Echo!NoEntry
  <2>4. QED  BY <2>1, <2>3 DEF EchoRest, Echo!Tracked
<1>4. ASSUME NEW n \in MinCounts, NEW on \in BOOLEAN, Echo!Configure(n, on)
      PROVE  EchoRest'
  <2>1. min_count' = n /\ enabled' = on /\ UNCHANGED <<time, entries, heard, published>>
    BY <1>4 DEF Echo!Configure
  <2>2. enabled' \in BOOLEAN /\ min_count' \in MinCounts
    BY <2>1
  <2>3. QED  BY <2>1, <2>2 DEF EchoRest, Echo!Tracked
<1>5. CASE Echo!EchoTick
  <2>1. /\ time < EchoTimeMax /\ time' = time + 1 /\ DOMAIN entries' = Echo!Tracked
        /\ UNCHANGED <<enabled, min_count, entries, published>>
        /\ \A t \in Echo!Tracked : heard'[t] \in SUBSET heard[t]
    BY <1>5 DEF Echo!EchoTick, Echo!Recent, Echo!Tracked
  <2>2. time' <= EchoTimeMax
    BY <2>1, EchoSizes DEF EchoInv, Echo!EchoAssumption
  <2>3. \A t \in Echo!Tracked : Cardinality(heard'[t]) <= published
    <3>1. SUFFICES ASSUME NEW t \in Echo!Tracked PROVE Cardinality(heard'[t]) <= published
      OBVIOUS
    <3>2. IsFiniteSet(heard[t]) /\ Cardinality(heard[t]) <= published /\ published \in Nat
      BY DEF EchoInv, EchoRest, Tracking, Heard
    <3>3. /\ Cardinality(heard'[t]) \in Nat /\ Cardinality(heard'[t]) <= Cardinality(heard[t])
          /\ Cardinality(heard[t]) \in Nat
      BY <2>1, <3>2, HeardPart, FS_CardinalityType
    <3>4. QED  BY <3>2, <3>3
  <2>4. \A t \in Echo!Tracked : \A p \in heard'[t] : 1 <= p.number /\ p.number <= published
    BY <2>1 DEF EchoRest
  <2>5. QED  BY <2>1, <2>2, <2>3, <2>4 DEF EchoRest, Echo!Tracked
<1>6. QED  BY <1>1, <1>2, <1>3, <1>4, <1>5 DEF Echo!Next, Echo!evars

LEMMA EchoTypes == MCSpec => []Echo!TypeOK
<1>1. MCInit => EchoInv /\ EchoRest
  BY EchoSteps, EchoInit, EchoRestInit, EchoSizes
<1>2. EchoInv /\ EchoRest /\ [MCNext]_<<part, clockvars, edgevars>> => EchoInv' /\ EchoRest'
  BY EchoSteps, EchoStep, EchoRestStep, EchoSizes
<1>3. EchoInv /\ EchoRest => Echo!TypeOK
  <2> SUFFICES ASSUME EchoInv, EchoRest PROVE Echo!TypeOK
    OBVIOUS
  <2>1. /\ time \in 0..EchoTimeMax /\ published \in Nat /\ published <= PublishMax /\ PublishMax \in Nat
        /\ EchoTimeMax \in Nat
    BY EchoSizes DEF EchoInv, EchoRest, Echo!EchoAssumption
  <2>2. ASSUME NEW t \in Echo!Tracked
        PROVE  entries[t] \in Echo!Entry /\ heard[t] \subseteq Echo!Heard
    <3>1. /\ entries[t] \in EntryType(detections) /\ detections \in Nat
          /\ heard[t] \subseteq HeardBy(time)
      BY <2>2 DEF EchoInv, Tracking, Heard
    <3>2. entries[t].count <= published /\ \A p \in heard[t] : 1 <= p.number /\ p.number <= published
      BY <2>2 DEF EchoRest
    <3>3. entries[t] \in Echo!Entry
      <4>1. entries[t].count \in 0..PublishMax
        BY <2>1, <3>1, <3>2 DEF EntryType
      <4>2. 0..detections \subseteq Nat
        BY <3>1
      <4>3. QED  BY <3>1, <4>1, <4>2 DEF EntryType, Echo!Entry
    <3>4. ASSUME NEW p \in heard[t] PROVE p \in Echo!Heard
      <4>1. p \in [at : 0..time, number : Nat] /\ 1 <= p.number /\ p.number <= published
        BY <3>1, <3>2 DEF HeardBy
      <4>2. p.number \in 1..PublishMax /\ p.at \in 0..EchoTimeMax
        BY <2>1, <4>1
      <4>3. QED  BY <4>1, <4>2 DEF Echo!Heard
    <3>5. QED  BY <3>3, <3>4
  <2>3. Echo!Cardinality(Echo!Tracked) <= MaxTopics
    BY SameCount DEF EchoRest
  <2>4. QED  BY <2>1, <2>2, <2>3 DEF EchoInv, EchoRest, Echo!TypeOK
<1>4. QED  BY <1>1, <1>2, <1>3, PTL DEF MCSpec

\* The types of the network, and of the scripts.
LEMMA NetworkTypes == MCSpec => []Net!TypeOK
<1>1. NetInv /\ NetRest => Net!TypeOK
  BY DEF NetInv, NetTypes, NetRest, StationRuns, Driver, Net!TypeOK
<1>2. QED  BY <1>1, NetTyped, PTL

SlotRest == SlotInv /\ restarts <= RestartsMax

LEMMA ScriptTypes == MCSpec => []Scripts!TypeOK
<1>1. MCInit => SlotRest
  <2>1. Scripts!Init => restarts <= RestartsMax
    BY SlotsThere DEF Scripts!SlotsAssumption, Scripts!Init
  <2>2. QED  BY <2>1, SlotsInit, SlotSteps DEF SlotRest
<1>2. SlotRest /\ [MCNext]_<<part, clockvars, edgevars>> => SlotRest'
  BY SlotStep, RestartsBounded, SlotSteps DEF SlotRest
<1>3. SlotRest => Scripts!TypeOK
  BY SlotsTyped DEF SlotRest
<1>4. QED  BY <1>1, <1>2, <1>3, PTL DEF MCSpec

\* Every part keeps its types: its counters within their bounds, its queues and tables
\* within their sizes, its fields within what NVS and the form may hold.
THEOREM EdgeTypes ==
  ASSUME NEW Pieces, Update!OtaAssumption(Pieces)
  PROVE  MCSpec => []TypesOK
<1>1. /\ TypeOK /\ Sntp!TypeOK /\ Limit!TypeOK /\ Echo!TypeOK
      /\ part = "settings" => FormInv /\ FormRest
      /\ Net!TypeOK /\ Update!TypeOK /\ Scripts!TypeOK
      => TypesOK
  BY FormTypes DEF TypesOK
<1>2. QED
  BY <1>1, AliveTypes, SntpTypes, LimitTypes, EchoTypes, FormTyped, NetworkTypes, UpdateTypes,
     ScriptTypes, PTL
=============================================================================
