------------------------------- MODULE Topic -------------------------------
(***************************************************************************)
(* The records of the Kafka topic and what replaying them means.  A record *)
(* carries the storage key and either an encoded entry or nothing; nothing *)
(* is a tombstone (src/src/storage/kafka.rs, module comment).  Offsets are *)
(* counted from 1 here and from 0 in Kafka.                                *)
(***************************************************************************)
EXTENDS Naturals, Sequences

CONSTANTS
  Keys,     \* storage keys, namespace and id already joined
  Values,   \* encoded entries
  None      \* Rust's None: no entry, or the value of a tombstone

ASSUME NoneAssumption == None \notin Keys \cup Values

Record == [key : Keys, value : Values \cup {None}]

EmptyCache == [k \in Keys |-> None]

\* The body of the replay loop: insert for an entry, remove for a tombstone.
\* The BTreeMap is a function from every key to its entry or None.
ApplyRecord(cache, r) == [cache EXCEPT ![r.key] = r.value]

\* The offsets in lo .. hi that hold a record of key k.  A slot of the topic
\* may hold something that is not a Record: see TopicReplay.
OffsetsOf(log, lo, hi, k) ==
  {i \in lo .. hi : log[i] \in Record /\ log[i].key = k}

\* The value of the last record of k in lo .. hi, None where there is none.
LastIn(log, lo, hi, k) ==
  LET S == OffsetsOf(log, lo, hi, k)
  IN  IF S = {} THEN None
      ELSE log[CHOOSE i \in S : \A j \in S : j <= i].value

LastWrite(log, k) == LastIn(log, 1, Len(log), k)

\* The map a full replay of the log builds.  TopicReplay shows that the loop
\* of load_topic_into_cache computes it.
Replay(log) == [k \in Keys |-> LastWrite(log, k)]

Logged(log, k, v) == \E i \in 1 .. Len(log) : log[i] = [key |-> k, value |-> v]
=============================================================================
