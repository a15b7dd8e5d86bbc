--------------------------- MODULE StorageManager ---------------------------
(***************************************************************************)
(* src/src/storage/mod.rs: the coordinator.  It opens RocksDB, connects to *)
(* Kafka with retries, drains what RocksDB buffered into Kafka, and then   *)
(* sends every request to the backend that is active at that moment.  The  *)
(* two backends and the availability watcher are instances of their own    *)
(* modules on this module's variables.                                     *)
(*                                                                         *)
(* Reads have no effect on any of this state (their counters are left to   *)
(* the service): Served is what one of them would answer.                  *)
(***************************************************************************)
EXTENDS Topic, FiniteSets

CONSTANTS
  Tasks,        \* request handlers
  Main,         \* the task that runs StorageManager::new
  MaxAttempts,  \* the number of delays in connect_kafka_with_retry (8 in the code)
  MaxLog        \* bound: the longest topic explored

Callers == Tasks \cup {Main}

ASSUME ManagerAssumption ==
  /\ Main \notin Tasks
  /\ MaxAttempts \in Nat \ {0}
  /\ MaxLog \in Nat

VARIABLES
  log, wire, opened, cache, call,   \* KafkaBackend; opened: the field kafka is Some
  db, job,                          \* RocksDbBackend
  kafka_available, watcher,         \* AvailabilityManager
  broker,   \* is the broker reachable?
  phase,    \* how far StorageManager::new has come in this process
  attempt,  \* the number of the connection attempt
  entries,  \* drain: what iter_all returned and is not yet drained
  request   \* request[t]: the request of t, on its way to the backend it chose

kafka_vars == <<log, wire, opened, cache, call>>
rocks_vars == <<db, job>>
avail_vars == <<kafka_available, watcher>>
boot_vars == <<phase, attempt, entries>>
vars == <<kafka_vars, rocks_vars, avail_vars, broker, boot_vars, request>>

Kafka == INSTANCE KafkaBackend
Rocks == INSTANCE RocksDbBackend
Avail == INSTANCE AvailabilityManager

Entry == [key : Keys, value : Values]

NoRequest == [op |-> "none", key |-> None, value |-> None, backend |-> "none"]

Request ==
  {NoRequest} \cup
  [op : {"put"}, key : Keys, value : Values, backend : {"kafka", "rocksdb"}] \cup
  [op : {"delete"}, key : Keys, value : {None}, backend : {"kafka", "rocksdb"}]

TypeOK ==
  /\ Kafka!TypeOK
  /\ Rocks!TypeOK
  /\ Avail!TypeOK
  /\ broker \in BOOLEAN
  /\ phase \in {"down", "connecting", "draining", "serving"}
  /\ attempt \in 0 .. MaxAttempts
  /\ entries \in SUBSET Entry
  /\ request \in [Tasks -> Request]

Init ==
  /\ Kafka!Init
  /\ Rocks!Init
  /\ Avail!Init
  /\ broker \in BOOLEAN
  /\ phase = "down"
  /\ attempt = 0
  /\ entries = {}
  /\ request = [t \in Tasks |-> NoRequest]

\* active_backend
Active == IF opened /\ kafka_available THEN "kafka" ELSE "rocksdb"

\* What get and scan_prefix would find.
Served(k) == IF Active = "kafka" THEN cache[k] ELSE db[k]

InKafka(c) == Kafka!InCall(c)
InRocks(c) == ~Rocks!Idle(c)
-----------------------------------------------------------------------------
(* StorageManager::new *)

Serve == phase' = "serving" /\ attempt' = 0

\* Kafka is disabled in the configuration of this process.
BootDisabled ==
  /\ phase = "down"
  /\ Serve
  /\ Avail!Disabled
  /\ UNCHANGED <<kafka_vars, rocks_vars, broker, entries, request>>

BootEnabled ==
  /\ phase = "down"
  /\ phase' = "connecting"
  /\ attempt' = 1
  /\ UNCHANGED <<kafka_vars, rocks_vars, avail_vars, broker, entries, request>>

\* RocksDbBackend::iter_all; before the drain nothing else uses the database.
IterAll == {e \in Entry : db[e.key] = e.value}

\* Variant: iter_all stops at the first entry.
ConnectReadsOne ==
  /\ phase = "connecting"
  /\ broker
  /\ Kafka!Open
  /\ phase' = "draining"
  /\ attempt' = 0
  /\ entries' = IF IterAll = {} THEN {} ELSE {CHOOSE e \in IterAll : TRUE}
  /\ UNCHANGED <<rocks_vars, avail_vars, broker, request>>

\* KafkaBackend::open succeeds, and the drain reads all of RocksDB.
Connect ==
  /\ phase = "connecting"
  /\ broker
  /\ Kafka!Open
  /\ phase' = "draining"
  /\ attempt' = 0
  /\ entries' = IterAll
  /\ UNCHANGED <<rocks_vars, avail_vars, broker, request>>

\* Variant: the list of delays starts again.
ConnectFailsForEver ==
  /\ phase = "connecting"
  /\ attempt' = IF attempt < MaxAttempts THEN attempt + 1 ELSE 1
  /\ UNCHANGED <<kafka_vars, rocks_vars, avail_vars, broker, phase, entries, request>>

\* It fails: wait for the next attempt, or give Kafka up for this process.
ConnectFails ==
  /\ phase = "connecting"
  /\ IF attempt < MaxAttempts
     THEN /\ attempt' = attempt + 1
          /\ UNCHANGED <<phase, avail_vars>>
     ELSE Serve /\ Avail!Disabled
  /\ UNCHANGED <<kafka_vars, rocks_vars, broker, entries, request>>

\* drain_rocksdb_into_kafka: kafka.put of the next entry ...
DrainPut ==
  /\ phase = "draining"
  /\ ~InRocks(Main)
  /\ \E e \in entries : Kafka!Put(Main, e.key, e.value)
  /\ UNCHANGED <<rocks_vars, avail_vars, broker, boot_vars, request>>

\* Variant: an error of the put is ignored.
DrainDeleteAnyway ==
  /\ Kafka!Acked(Main) \/ Kafka!Unacked(Main)
  /\ Rocks!Spawn(Main, "delete", call[Main].record.key, None)
  /\ UNCHANGED <<avail_vars, broker, boot_vars, request>>

\* ... when it is acknowledged, the delete of the same key ...
DrainDelete ==
  /\ Kafka!Acked(Main)
  /\ Rocks!Spawn(Main, "delete", call[Main].record.key, None)
  /\ UNCHANGED <<avail_vars, broker, boot_vars, request>>

\* Variant: an error of the delete is ignored.
DrainNextAnyway ==
  /\ job[Main].pc \in {"done", "absent", "failed"}
  /\ Rocks!Join(Main)
  /\ entries' = {e \in entries : e.key # job[Main].key}
  /\ UNCHANGED <<kafka_vars, avail_vars, broker, phase, attempt, request>>

\* ... and on to the next entry.
DrainNext ==
  /\ job[Main].pc \in {"done", "absent"}
  /\ Rocks!Join(Main)
  /\ entries' = {e \in entries : e.key # job[Main].key}
  /\ UNCHANGED <<kafka_vars, avail_vars, broker, phase, attempt, request>>

\* Variant: the drain is not waited for.
ServeBeforeDrain ==
  /\ phase = "draining"
  /\ Serve
  /\ Avail!Watching
  /\ entries' = {}
  /\ UNCHANGED <<kafka_vars, rocks_vars, broker, request>>

\* The drain is over: the watcher is started and the server accepts requests.
DrainDone ==
  /\ phase = "draining"
  /\ entries = {}
  /\ Serve
  /\ Avail!Watching
  /\ UNCHANGED <<kafka_vars, rocks_vars, broker, entries, request>>
-----------------------------------------------------------------------------
(* The end of the process *)

Down ==
  /\ Kafka!Crash
  /\ Rocks!Crash
  /\ Avail!Stop
  /\ phase' = "down"
  /\ attempt' = 0
  /\ entries' = {}
  /\ request' = [t \in Tasks |-> NoRequest]
  /\ UNCHANGED broker

\* iter_all, a put or a delete of the drain returns an error: so does new, and
\* main ends.
DrainFails ==
  /\ phase = "draining"
  /\ job[Main].pc \in {"idle", "failed"}
  /\ Down

Crash == phase # "down" /\ Down
-----------------------------------------------------------------------------
(* Requests: put and delete *)

\* active_backend is read ...
Dispatch(t, op, k, v) ==
  /\ phase = "serving"
  /\ request[t] = NoRequest /\ ~InKafka(t) /\ ~InRocks(t)
  /\ request' = [request EXCEPT ![t] = [op |-> op, key |-> k, value |-> v, backend |-> Active]]
  /\ UNCHANGED <<kafka_vars, rocks_vars, avail_vars, broker, boot_vars>>

\* Variant: the request keeps its fields when it is sent.
SentKeepsFields(t) == request' = [request EXCEPT ![t].backend = "none"]

Sent(t) == request' = [request EXCEPT ![t] = NoRequest]

\* ... and the call goes there, even if another backend is active by now.
CallKafka(t) ==
  /\ request[t].backend = "kafka"
  /\ \/ request[t].op = "put" /\ Kafka!Put(t, request[t].key, request[t].value)
     \/ request[t].op = "delete" /\ Kafka!Delete(t, request[t].key)
  /\ Sent(t)
  /\ UNCHANGED <<rocks_vars, avail_vars, broker, boot_vars>>

\* The answer of a delete that finds nothing in the cache.
KafkaAbsent(t) ==
  /\ request[t].backend = "kafka" /\ request[t].op = "delete"
  /\ Kafka!DeleteAbsent(request[t].key)
  /\ Sent(t)
  /\ UNCHANGED <<kafka_vars, rocks_vars, avail_vars, broker, boot_vars>>

CallRocks(t) ==
  /\ request[t].backend = "rocksdb"
  /\ Rocks!Spawn(t, request[t].op, request[t].key, request[t].value)
  /\ Sent(t)
  /\ UNCHANGED <<kafka_vars, avail_vars, broker, boot_vars>>

\* A request of t is answered by Kafka, or by RocksDB.
KafkaAcked(t) ==
  /\ Kafka!Acked(t)
  /\ UNCHANGED <<rocks_vars, avail_vars, broker, boot_vars, request>>

RocksAnswers(t) ==
  /\ Rocks!Join(t)
  /\ UNCHANGED <<kafka_vars, avail_vars, broker, boot_vars, request>>

\* produce returns an error, or the client has gone.
KafkaUnacked(t) ==
  /\ Kafka!Unacked(t)
  /\ UNCHANGED <<rocks_vars, avail_vars, broker, boot_vars, request>>

\* The client has gone: the future of the handler is dropped.
Cancel(t) ==
  /\ \/ request[t] # NoRequest /\ Sent(t) /\ UNCHANGED rocks_vars
     \/ Rocks!Abandon(t) /\ UNCHANGED request
  /\ UNCHANGED <<kafka_vars, avail_vars, broker, boot_vars>>
-----------------------------------------------------------------------------
(* The watcher, the closures of RocksDB, and the broker *)

Tick == Avail!Tick /\ UNCHANGED <<kafka_vars, rocks_vars, broker, boot_vars, request>>

\* A probe succeeds only while the broker is reachable; it may fail at any time.
Probe ==
  /\ \E ok \in BOOLEAN : Avail!Probed(ok) /\ (ok => broker)
  /\ UNCHANGED <<kafka_vars, rocks_vars, broker, boot_vars, request>>

Closure(c) ==
  /\ Rocks!Run(c)
  /\ UNCHANGED <<kafka_vars, avail_vars, broker, boot_vars, request>>

BrokerStep ==
  /\ \/ /\ broker
        /\ \/ \E c \in Callers : Kafka!BrokerAppend(c)
           \/ \E r \in Record : Kafka!LateAppend(r)
        /\ UNCHANGED broker
     \/ (\E c \in Callers : Kafka!Resend(c)) /\ UNCHANGED broker
     \/ broker' = ~broker /\ UNCHANGED kafka_vars
  /\ UNCHANGED <<rocks_vars, avail_vars, boot_vars, request>>
-----------------------------------------------------------------------------
Boot ==
  \/ Connect \/ ConnectFails
  \/ DrainPut \/ DrainDelete \/ DrainNext \/ DrainDone \/ DrainFails

Handle(t) ==
  \/ \E k \in Keys :
        \/ \E v \in Values : Dispatch(t, "put", k, v)
        \/ Dispatch(t, "delete", k, None)
  \/ CallKafka(t) \/ KafkaAbsent(t) \/ CallRocks(t)
  \/ KafkaAcked(t) \/ RocksAnswers(t) \/ KafkaUnacked(t) \/ Cancel(t)

Next ==
  \/ BootDisabled \/ BootEnabled
  \/ Boot
  \/ Crash
  \/ \E t \in Tasks : Handle(t)
  \/ \E c \in Callers : Closure(c)
  \/ Tick \/ Probe
  \/ BrokerStep

Spec == Init /\ [][Next]_vars

\* The part of new that waits for nobody outside the process: what it does with
\* an answer it has, the database calls of the drain, and the put it begins.
BootWork ==
  \/ DrainPut \/ DrainNext \/ DrainDone
  \/ job[Main].pc = "failed" /\ DrainFails

\* tokio runs new, the watcher and the blocking closures.  The answers of the
\* client library (Probe, Connect, ConnectFails, DrainDelete and the failure of a
\* put in the drain) are under no obligation: the code awaits list_topics, open
\* and produce without a timeout.  Nor are requests, the broker, the end of the
\* process and its restart.
Fairness ==
  /\ WF_vars(BootWork)
  /\ WF_vars(Tick)
  /\ \A c \in Callers : WF_vars(Closure(c))

FairSpec == Spec /\ Fairness
-----------------------------------------------------------------------------
\* While Kafka is the active backend RocksDB holds nothing and has nothing to
\* do: no write goes there, and the drain has left nothing behind that a reader
\* of the cache would miss or a later drain would put over a newer record.
OneHome ==
  phase = "serving" /\ Active = "kafka" =>
    /\ \A k \in Keys : db[k] = None
    /\ \A c \in Callers : Rocks!Idle(c)

\* The life of a process as a reader of the README sees it.
Mode ==
  CASE phase = "down" -> "down"
    [] phase \in {"connecting", "draining"} -> "starting"
    [] phase = "serving" -> Active

Failover == INSTANCE Failover WITH mode <- Mode

\* The coordinator implements Failover: Kafka is chosen at startup or not at
\* all, and once it is given up no step short of a restart brings it back.
LatchedFailover == Failover!Spec

\* An outage that lasts is noticed: Kafka is latched off, unless the broker comes
\* back or the process ends first.  The one thing that can keep the watcher from
\* it is a probe that never returns.
OutageMissedOnlyInProbe ==
  (phase = "serving" /\ kafka_available /\ ~broker) ~>
    (~kafka_available \/ broker \/ [](watcher = "probing"))

\* A process that has begun to start serves requests or ends, or waits for ever
\* for one and the same call of the client library: an attempt to connect, or a
\* put of the drain.  Neither the retries nor the drain go on without end, and no
\* failure of either leaves the start hanging.  (Or the bound MaxLog is met.)
BootWaitsOnlyForClient ==
  (phase \in {"connecting", "draining"}) ~>
    \/ phase \in {"serving", "down"}
    \/ \E n \in 1 .. MaxAttempts : [](phase = "connecting" /\ attempt = n)
    \/ [](phase = "draining" /\ InKafka(Main))
    \/ Len(log) = MaxLog
=============================================================================
