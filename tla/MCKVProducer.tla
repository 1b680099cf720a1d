---------------------------- MODULE MCKVProducer ----------------------------
(* KVProducer on small instances, with a bound on the messages that the    *)
(* open environment keeps in flight.                                       *)
EXTENDS KVProducer

CONSTANT MaxInFlight  \* messages in flight that the environment may reach

InFlight == Cardinality(plans) + Cardinality(dones) + Cardinality(replies)

MCNext == ProducerNext \/ (EnvironmentNext /\ InFlight' <= MaxInFlight)

MCSpec == Init /\ [][MCNext]_vars

MCFairSpec == MCSpec /\ ProducerFairness

=============================================================================
