------------------------------ MODULE NtpRate -------------------------------
(***************************************************************************)
(* The rate limit of the SNTP server (ntp_rate_allow of main/ntp.c): a     *)
(* table of the sources seen last, each with a count of the requests       *)
(* served.  Only the server's task writes it.                              *)
(***************************************************************************)
EXTENDS Integers, Sequences, FiniteSetsExt, TLC

CONSTANTS
  Source,
  Places,        \* NTP_RATE_LRU_SIZE: 32
  Rate,          \* NTP_RATE_PER_SEC: 10
  RateWindow,    \* NTP_RATE_WINDOW_MS
  RateTimeMax    \* bound on the run

VARIABLES
  moment,        \* esp_timer_get_time in ms
  table,         \* s_rate
  answered,      \* history: when each source was served, since it got its place
  refused        \* history: the sources in the table refused at this moment

ratevars == <<moment, table, answered, refused>>

\* What the proofs assume of the sizes.
RateAssumption ==
  /\ Places \in Nat \ {0} /\ Rate \in Nat \ {0} /\ RateWindow \in Nat /\ RateTimeMax \in Nat
  /\ "none" \notin Source

Free == [addr |-> "none", last |-> 0, count |-> 0]

Init ==
  /\ moment = 0
  /\ table = [p \in 1..Places |-> Free]
  /\ answered = [s \in Source |-> <<>>]
  /\ refused = {}

-----------------------------------------------------------------------------
(* A name that ends in _Bug is the definition below it with one defect.    *)

PlaceOf(s) == {p \in 1..Places : table[p].addr = s}
Lasts(ps) == {p \in ps : \A q \in ps : table[p].last <= table[q].last}

\* The first free place, or that of the source served longest ago.
NewPlace ==
  LET free == PlaceOf("none") IN
  Min(IF free # {} THEN free ELSE Lasts(1..Places))

CountNow_Bug(e) == IF e.last + RateWindow <= moment THEN 0 ELSE e.count
CountNow(e) == IF moment - e.last > RateWindow THEN 0 ELSE e.count

Put(s, p, n, before) ==
  /\ table' = [table EXCEPT ![p] = [addr |-> s, last |-> moment, count |-> n]]
  /\ answered' = [q \in Source |-> IF q = s THEN Append(before, moment)
                                   ELSE IF q = table[p].addr THEN <<>> ELSE answered[q]]
  /\ refused' = refused \ {table[p].addr}
  /\ UNCHANGED moment

\* ntp_rate_allow returns true.
Serve(s) ==
  \/ \E p \in PlaceOf(s) :
       /\ CountNow(table[p]) < Rate
       /\ Put(s, p, CountNow(table[p]) + 1, answered[s])
  \/ /\ PlaceOf(s) = {}
     /\ Put(s, NewPlace, 1, <<>>)

\* It returns false; a count that has run out is set to 0, and then serves.
Refuse_Bug(s) ==   \* refusals count as requests of the window
  \E p \in PlaceOf(s) :
    /\ CountNow(table[p]) >= Rate
    /\ table' = [table EXCEPT ![p].last = moment]
    /\ refused' = refused \cup {s}
    /\ UNCHANGED <<moment, answered>>
Refuse(s) ==
  \E p \in PlaceOf(s) :
    /\ CountNow(table[p]) >= Rate
    /\ refused' = refused \cup {s}
    /\ UNCHANGED <<moment, table, answered>>

RateTick ==
  /\ moment < RateTimeMax
  /\ moment' = moment + 1
  /\ refused' = {}
  /\ UNCHANGED <<table, answered>>

Next == (\E s \in Source : Serve(s) \/ Refuse(s)) \/ RateTick

Spec == Init /\ [][Next]_ratevars

-----------------------------------------------------------------------------
(* Properties *)

TypeOK ==
  /\ moment \in 0..RateTimeMax
  /\ table \in [1..Places -> [addr : Source \cup {"none"}, last : 0..moment, count : 0..Rate]]
  /\ \A p, q \in 1..Places : table[p].addr = table[q].addr /\ p # q => table[p].addr = "none"

\* No source is served more than Rate requests in any window of that length while
\* it has its place, wherever the window begins; and one that is refused was
\* served within the window, so that it is served again after one of silence.
RateBounded ==
  \A s \in Source :
    LET n == Len(answered[s]) IN
    /\ n > Rate => answered[s][n] - answered[s][n - Rate] > RateWindow
    /\ s \in refused => moment - answered[s][n] <= RateWindow
=============================================================================
