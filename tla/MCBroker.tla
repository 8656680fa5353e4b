------------------------------ MODULE MCBroker ------------------------------
(***************************************************************************)
(* Small instances of Broker: one topic, the filters that match it, and    *)
(* for some runs one filter that does not.                                 *)
(***************************************************************************)
EXTENDS Broker, TLC

CONSTANTS t1, f1, f2, f3

MCTopic == {t1}
MCMatch == {<<f1, t1>>, <<f2, t1>>} \cap (Filter \X Topic)

Symmetry == Permutations(ClientId)
=============================================================================
