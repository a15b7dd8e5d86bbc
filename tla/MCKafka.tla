------------------------------ MODULE MCKafka ------------------------------
(* KafkaBackend and KafkaCoherence on a small instance for TLC. *)
EXTENDS KafkaCoherence, TLC

Symmetry == Permutations(Callers) \cup Permutations(Values)
=============================================================================
