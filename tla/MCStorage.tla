----------------------------- MODULE MCStorage -----------------------------
(* StorageManager and StorageDurability on a small instance for TLC. *)
EXTENDS StorageDurability, TLC

Symmetry == Permutations(Tasks) \cup Permutations(Values)
=============================================================================
