----------------------------- MODULE RetainedMap -----------------------------
(***************************************************************************)
(* What the retained store of main/mqtt_broker.c promises a subscriber: at *)
(* most one message for a topic, the last one published to it.  The store  *)
(* is bounded in memory and in time, so that it may forget a topic at any  *)
(* moment, but never the one just stored, and what it has forgotten does   *)
(* not come back.                                                          *)
(***************************************************************************)
CONSTANTS Topic, Payload, NoPayload

VARIABLE kept   \* the message retained for each topic, or NoPayload

Init == kept = [t \in Topic |-> NoPayload]

\* A retained PUBLISH with a payload replaces, and may push others out.
Put(t, p) ==
  \E out \in SUBSET (Topic \ {t}) :
    kept' = [u \in Topic |-> IF u = t THEN p
                             ELSE IF u \in out THEN NoPayload ELSE kept[u]]

\* A retained PUBLISH with an empty payload.
Clear(t) == kept' = [kept EXCEPT ![t] = NoPayload]

\* Expiry.
Forget == \E out \in SUBSET Topic :
  kept' = [u \in Topic |-> IF u \in out THEN NoPayload ELSE kept[u]]

Next == (\E t \in Topic, p \in Payload : Put(t, p)) \/ (\E t \in Topic : Clear(t)) \/ Forget

Spec == Init /\ [][Next]_kept
=============================================================================
