------------------------------ MODULE MCService ------------------------------
(* KvService on a small instance for TLC. *)
EXTENDS KvService, TLC

Symmetry == Permutations(Handlers) \cup Permutations(Keys)

\* The counters depend neither on the clock nor on the backend: a get_stats is
\* explored at the first millisecond and before the failover only.
StatsAtFirst == stats = NoStats \/ (ticked = "not" /\ active = "kafka")
=============================================================================
