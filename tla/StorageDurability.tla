------------------------- MODULE StorageDurability -------------------------
(***************************************************************************)
(* What a client of StorageManager may rely on.  Three history variables,  *)
(* which the code does not have, record what clients were told; the        *)
(* properties compare it with what the next reader, or the next process,   *)
(* will find.                                                              *)
(***************************************************************************)
EXTENDS StorageManager

CONSTANT Unknown  \* the state of a key of which nothing is promised

ASSUME UnknownAssumption == Unknown \notin Values \cup {None}

VARIABLES
  acked,     \* acked[k]: the last acknowledged put or delete of k, Unknown
             \* after calls that overlapped or were not acknowledged
  alone,     \* tasks whose call had its key to itself from its beginning
  shadowed   \* keys deleted from RocksDB while Kafka holds an entry of them

hvars == <<acked, alone, shadowed>>

\* Tasks with a put or delete of k that has not returned, or whose closure
\* runs on after its request is gone.
Pending(k) ==
  {t \in Tasks : \/ request[t].key = k
                 \/ InKafka(t) /\ call[t].record.key = k
                 \/ job[t].key = k}

Busy(k) == Pending(k) # {} \/ \E r \in wire : r.key = k

KeyOf(t) ==
  IF request[t] # NoRequest THEN request[t].key
  ELSE IF InKafka(t) THEN call[t].record.key
  ELSE job[t].key

HistoryTypeOK ==
  /\ TypeOK
  /\ acked \in [Keys -> Values \cup {None, Unknown}]
  /\ alone \in SUBSET Tasks
  /\ shadowed \in SUBSET Keys

HInit == Init /\ acked = EmptyCache /\ alone = {} /\ shadowed = {}
-----------------------------------------------------------------------------
HDispatch(t, k) ==
  /\ \/ \E v \in Values : Dispatch(t, "put", k, v)
     \/ Dispatch(t, "delete", k, None)
  /\ alone' = IF Busy(k) THEN alone \ Pending(k) ELSE alone \cup {t}
  /\ UNCHANGED <<acked, shadowed>>

\* The call of t has written v and is acknowledged.
Told(t, k, v) ==
  /\ acked' = [acked EXCEPT ![k] = IF t \in alone THEN v ELSE Unknown]
  /\ alone' = alone \ {t}

\* The client learns nothing, or of an error.
Untold(t) ==
  /\ acked' = [acked EXCEPT ![KeyOf(t)] = Unknown]
  /\ alone' = alone \ {t}
  /\ UNCHANGED shadowed

\* The answer is that there was nothing to delete.
ToldAbsent(t) == alone' = alone \ {t} /\ UNCHANGED <<acked, shadowed>>

HKafkaAcked(t) ==
  /\ KafkaAcked(t)
  /\ Told(t, call[t].record.key, call[t].record.value)
  /\ shadowed' = shadowed \ {call[t].record.key}

HRocksAnswers(t) ==
  /\ RocksAnswers(t)
  /\ CASE job[t].pc = "done" ->
            LET k == job[t].key
            IN  /\ Told(t, k, job[t].value)
                /\ shadowed' = IF job[t].op = "delete" /\ LastWrite(log, k) # None
                               THEN shadowed \cup {k}
                               ELSE shadowed \ {k}
       [] job[t].pc = "absent" -> ToldAbsent(t)
       [] job[t].pc = "failed" -> Untold(t)

\* An abandoned closure is nobody's call any more, and was Untold when abandoned.
HCancel(t) == Cancel(t) /\ Untold(t)

HDown ==
  /\ Crash \/ DrainFails
  /\ acked' = [k \in Keys |-> IF Pending(k) = {} THEN acked[k] ELSE Unknown]
  /\ alone' = {}
  /\ UNCHANGED shadowed

HNext ==
  \/ (BootDisabled \/ BootEnabled \/ Connect \/ ConnectFails) /\ UNCHANGED hvars
  \/ (DrainPut \/ DrainDelete \/ DrainNext \/ DrainDone) /\ UNCHANGED hvars
  \/ HDown
  \/ \E t \in Tasks :
        \/ \E k \in Keys : HDispatch(t, k)
        \/ (CallKafka(t) \/ CallRocks(t)) /\ UNCHANGED hvars
        \/ KafkaAbsent(t) /\ ToldAbsent(t)
        \/ HKafkaAcked(t)
        \/ HRocksAnswers(t)
        \/ KafkaUnacked(t) /\ Untold(t)
        \/ HCancel(t)
  \/ (Tick \/ Probe \/ BrokerStep \/ \E c \in Callers : Closure(c)) /\ UNCHANGED hvars

HSpec == HInit /\ [][HNext]_<<vars, hvars>>

HFairSpec == HSpec /\ Fairness
-----------------------------------------------------------------------------
\* What the next process that finds Kafka reachable will serve: the drain puts
\* what is in RocksDB over what is in the topic.
Recoverable(k) == IF db[k] # None THEN db[k] ELSE LastWrite(log, k)

Promised(k) == acked[k] # Unknown /\ Pending(k) = {}

\* No acknowledged write is lost: at every moment, in the middle of a drain
\* too, a crash now leaves in RocksDB or in the topic the last write of k that
\* was acknowledged, whichever backend acknowledged it.
AckedSurvives ==
  \A k \in Keys \ shadowed : Promised(k) => Recoverable(k) = acked[k]

\* No stale read: what a reader is given is the last acknowledged write of k,
\* except that RocksDB, after a failover, may not know k at all.
NeverStale ==
  phase = "serving" =>
    \A k \in Keys \ shadowed :
      Promised(k) => \/ Served(k) = acked[k]
                     \/ Active = "rocksdb" /\ Served(k) = None

\* What README.md says of degraded mode, deletes included: the writes
\* accumulate in RocksDB and reach Kafka at the next start.
DegradedWritesSurvive ==
  \A k \in Keys : Promised(k) => Recoverable(k) = acked[k]
=============================================================================
