------------------------------ MODULE Failover ------------------------------
(***************************************************************************)
(* What README.md and availability.rs promise of the choice of a backend,  *)
(* with nothing said of how it is made: a process starts, serves from      *)
(* Kafka or from RocksDB, may go from Kafka to RocksDB, and never goes     *)
(* back while it lives.                                                    *)
(***************************************************************************)
VARIABLE mode

Init == mode = "down"

Start == mode = "down" /\ mode' = "starting"
StartWithoutKafka == mode = "down" /\ mode' = "rocksdb"
Ready == mode = "starting" /\ mode' \in {"kafka", "rocksdb"}
LatchOff == mode = "kafka" /\ mode' = "rocksdb"
Stop == mode # "down" /\ mode' = "down"

Next == Start \/ StartWithoutKafka \/ Ready \/ LatchOff \/ Stop

Spec == Init /\ [][Next]_mode
=============================================================================
