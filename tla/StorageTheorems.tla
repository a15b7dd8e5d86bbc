-------------------------- MODULE StorageTheorems --------------------------
(***************************************************************************)
(* StorageManager for any set of tasks, keys and entries, any number of    *)
(* connection attempts and a topic of any length: the backends behave in   *)
(* it as their own modules say, so that what is proved of them holds here; *)
(* the types; the one-way failover; that Kafka serves alone; and, with the *)
(* history of StorageDurability, that no acknowledged write is lost and no *)
(* reader is given an older one, through failovers, crashes and            *)
(* interrupted drains.                                                     *)
(***************************************************************************)
EXTENDS StorageDurability, TopicTheorems

\* What is proved of the backends.  The history variables of KafkaCoherence and
\* the stages of ServerProcess play no part in it.
KT == INSTANCE KafkaTheorems WITH overlapped <- {}, unsettled <- {}
RT == INSTANCE RocksTheorems WITH stage <- "serving", exit <- "none"

\* The part of TypeOK that is not about the two backends.
OwnTypeOK ==
  /\ Avail!TypeOK
  /\ broker \in BOOLEAN
  /\ phase \in {"down", "connecting", "draining", "serving"}
  /\ attempt \in 0 .. MaxAttempts
  /\ entries \in SUBSET Entry
  /\ request \in [Tasks -> Request]

LEMMA OwnTypes == Spec => []OwnTypeOK
<1> USE DEF OwnTypeOK, Avail!TypeOK
<1>0. /\ 0 \in 0 .. MaxAttempts /\ 1 \in 0 .. MaxAttempts
      /\ \A n \in 0 .. MaxAttempts : n < MaxAttempts => n + 1 \in 0 .. MaxAttempts
  BY ManagerAssumption
<1>00. NoRequest \in Request
  BY DEF Request
<1>1. Init => OwnTypeOK
  BY <1>0, <1>00, Zenon DEF Init, Avail!Init
<1>2. OwnTypeOK /\ [Next]_vars => OwnTypeOK'
  <2> SUFFICES ASSUME OwnTypeOK, [Next]_vars PROVE OwnTypeOK'
    OBVIOUS
  <2>1. CASE BootDisabled \/ BootEnabled
    <3>1. attempt' \in 0 .. MaxAttempts
      BY <1>0, <2>1 DEF BootDisabled, BootEnabled, Serve
    <3> QED
      BY <2>1, <3>1, Zenon DEF BootDisabled, BootEnabled, Serve, Avail!Disabled, avail_vars
  <2>2. CASE Connect \/ ConnectFails
    <3>1. attempt' \in 0 .. MaxAttempts
      BY <1>0, <2>2 DEF Connect, ConnectFails, IterAll, Serve
    <3>2. entries' \in SUBSET Entry /\ request' = request /\ broker' = broker
      BY <2>2 DEF Connect, ConnectFails, IterAll
    <3>3. /\ phase' \in {"down", "connecting", "draining", "serving"}
          /\ watcher' = watcher \/ watcher' = "none"
      BY <2>2 DEF Connect, ConnectFails, IterAll, Serve, Avail!Disabled, avail_vars
    <3>4. kafka_available' = kafka_available \/ kafka_available' = FALSE
      BY <2>2 DEF Connect, ConnectFails, Avail!Disabled, avail_vars
    <3> QED
      BY <3>1, <3>2, <3>3, <3>4
  <2>3. CASE DrainPut \/ DrainDelete \/ DrainNext
    BY <2>3 DEF DrainPut, DrainDelete, DrainNext, avail_vars, boot_vars
  <2>4. CASE DrainDone
    BY <1>0, <2>4 DEF DrainDone, Serve, Avail!Watching
  <2>5. CASE DrainFails \/ Crash
    <3>1. Down
      BY <2>5 DEF DrainFails, Crash
    <3> QED
      BY <1>0, <1>00, <3>1, Zenon DEF Down, Avail!Stop
  <2>6. ASSUME NEW t \in Tasks, NEW k \in Keys, NEW v \in Values, Dispatch(t, "put", k, v)
        PROVE  OwnTypeOK'
    BY <2>6 DEF Dispatch, Active, avail_vars, boot_vars, Request
  <2>7. ASSUME NEW t \in Tasks, NEW k \in Keys, Dispatch(t, "delete", k, None)
        PROVE  OwnTypeOK'
    BY <2>7 DEF Dispatch, Active, avail_vars, boot_vars, Request
  <2>8. ASSUME NEW t \in Tasks, CallKafka(t) \/ KafkaAbsent(t) \/ CallRocks(t) \/ Cancel(t)
        PROVE  OwnTypeOK'
    BY <2>8 DEF CallKafka, KafkaAbsent, CallRocks, Cancel, Sent, avail_vars, boot_vars, Request
  <2>9. ASSUME NEW t \in Tasks, KafkaAcked(t) \/ RocksAnswers(t) \/ KafkaUnacked(t)
        PROVE  OwnTypeOK'
    BY <2>9 DEF KafkaAcked, RocksAnswers, KafkaUnacked, avail_vars, boot_vars
  <2>10. CASE BrokerStep \/ \E c \in Callers : Closure(c)
    BY <2>10 DEF BrokerStep, Closure, avail_vars, boot_vars
  <2>11. CASE Tick \/ Probe
    BY <2>11 DEF Tick, Probe, Avail!Tick, Avail!Probed, boot_vars
  <2>12. CASE UNCHANGED vars
    BY <2>12 DEF vars, avail_vars, boot_vars
  <2> QED
    BY <2>1, <2>2, <2>3, <2>4, <2>5, <2>6, <2>7, <2>8, <2>9, <2>10, <2>11, <2>12
       DEF Next, Boot, Handle
<1> QED
  BY <1>1, <1>2, PTL DEF Spec
-----------------------------------------------------------------------------
(* The backends *)

\* Every step of the coordinator is, to the Kafka backend, a step of its own.
LEMMA KafkaPart == OwnTypeOK /\ [Next]_vars => [Kafka!Next]_Kafka!vars
<1> SUFFICES ASSUME OwnTypeOK, Next PROVE Kafka!Next \/ UNCHANGED kafka_vars
  BY DEF vars, kafka_vars, Kafka!vars
<1>0. Main \in Callers /\ Tasks \subseteq Callers
  BY DEF Callers
<1>1. CASE Connect \/ DrainFails \/ Crash
  BY <1>1 DEF Connect, DrainFails, Crash, Down, Kafka!Next
<1>2. CASE DrainPut
  <2>1. PICK e \in entries : Kafka!Put(Main, e.key, e.value)
    BY <1>2 DEF DrainPut
  <2>2. e.key \in Keys /\ e.value \in Values
    BY <2>1 DEF OwnTypeOK, Entry
  <2> QED
    BY <1>0, <2>1, <2>2 DEF Kafka!Next
<1>3. CASE DrainDelete
  BY <1>0, <1>3 DEF DrainDelete, Kafka!Next
<1>4. ASSUME NEW t \in Tasks, CallKafka(t)
      PROVE  Kafka!Next
  <2>1. request[t] \in Request /\ request[t] # NoRequest
    BY <1>4 DEF OwnTypeOK, CallKafka, NoRequest
  <2>2. CASE request[t].op = "put" /\ Kafka!Put(t, request[t].key, request[t].value)
    <3>1. request[t].key \in Keys /\ request[t].value \in Values
      BY <2>1, <2>2 DEF Request
    <3> QED
      BY <1>0, <2>2, <3>1 DEF Kafka!Next
  <2>3. CASE request[t].op = "delete" /\ Kafka!Delete(t, request[t].key)
    <3>1. request[t].key \in Keys
      BY <2>1 DEF Request
    <3> QED
      BY <1>0, <2>3, <3>1 DEF Kafka!Next
  <2> QED
    BY <1>4, <2>2, <2>3 DEF CallKafka
<1>5. ASSUME NEW t \in Tasks, KafkaAcked(t) \/ KafkaUnacked(t)
      PROVE  Kafka!Next
  BY <1>0, <1>5 DEF KafkaAcked, KafkaUnacked, Kafka!Next
<1>6. CASE BrokerStep
  <2>1. Kafka!Record = Record
    BY DEF Kafka!Record, Record
  <2> QED
    BY <1>6, <2>1 DEF BrokerStep, Kafka!Next, kafka_vars
<1>7. CASE BootDisabled \/ BootEnabled \/ ConnectFails \/ DrainNext \/ DrainDone
  BY <1>7 DEF BootDisabled, BootEnabled, ConnectFails, DrainNext, DrainDone
<1>8. ASSUME NEW t \in Tasks, NEW k, NEW op, NEW v, Dispatch(t, op, k, v)
      PROVE  UNCHANGED kafka_vars
  BY <1>8 DEF Dispatch
<1>9. ASSUME NEW t \in Tasks, KafkaAbsent(t) \/ CallRocks(t) \/ RocksAnswers(t) \/ Cancel(t)
      PROVE  UNCHANGED kafka_vars
  BY <1>9 DEF KafkaAbsent, CallRocks, RocksAnswers, Cancel
<1>10. CASE Tick \/ Probe \/ \E c \in Callers : Closure(c)
  BY <1>10 DEF Tick, Probe, Closure
<1> QED
  BY <1>1, <1>2, <1>3, <1>4, <1>5, <1>6, <1>7, <1>8, <1>9, <1>10 DEF Next, Boot, Handle

\* KafkaTheorems is about the same module on the same variables.
LEMMA KafkaSame ==
  /\ Kafka!Init => KT!Init
  /\ [Kafka!Next]_Kafka!vars => [KT!Next]_KT!vars
  /\ KT!TypeOK => Kafka!TypeOK
<1>1. Kafka!Init => KT!Init
  BY DEF Kafka!Init, KT!Init, Kafka!NoCall, KT!NoCall, Kafka!EmptyCache, KT!EmptyCache
<1>2. [Kafka!Next]_Kafka!vars => [KT!Next]_KT!vars
  BY DEF Kafka!Next, KT!Next, Kafka!vars, KT!vars,
         Kafka!Open, KT!Open, Kafka!Crash, KT!Crash, Kafka!Put, KT!Put,
         Kafka!Delete, KT!Delete, Kafka!Produce, KT!Produce, Kafka!Acked, KT!Acked,
         Kafka!Unacked, KT!Unacked, Kafka!BrokerAppend, KT!BrokerAppend,
         Kafka!Resend, KT!Resend, Kafka!LateAppend, KT!LateAppend,
         Kafka!InCall, KT!InCall, Kafka!Return, KT!Return, Kafka!NoCall, KT!NoCall,
         Kafka!ApplyRecord, KT!ApplyRecord, Kafka!EmptyCache, KT!EmptyCache,
         Kafka!Replay, KT!Replay, Kafka!LastWrite, KT!LastWrite,
         Kafka!LastIn, KT!LastIn, Kafka!OffsetsOf, KT!OffsetsOf, Kafka!Record, KT!Record
<1>3. KT!TypeOK => Kafka!TypeOK
  BY DEF Kafka!TypeOK, KT!TypeOK, Kafka!Call, KT!Call, Kafka!NoCall, KT!NoCall,
         Kafka!Record, KT!Record
<1> QED
  BY <1>1, <1>2, <1>3

\* The Kafka backend inside the coordinator behaves as KafkaBackend says:
\* StorageManager calls it only in ways that its own specification allows, so
\* that what KafkaTheorems proves of it holds here too.
THEOREM StorageRunsKafka == Spec => Kafka!Spec
<1>1. Init => Kafka!Init
  BY DEF Init
<1> QED
  BY <1>1, KafkaPart, OwnTypes, PTL DEF Spec, Kafka!Spec

LEMMA KafkaSpecSame == Kafka!Spec => KT!Spec
  BY KafkaSame, PTL DEF Kafka!Spec, KT!Spec

\* In the composed system too, nothing is served from Kafka's cache that is not
\* in the topic, the entries that the drain puts included.
THEOREM StorageReadsAreLogged == Spec => []Kafka!ReadsAreLogged
<1>1. KT!NoneAssumption
  BY NoneAssumption DEF KT!NoneAssumption
<1>2. KT!KafkaAssumption
  BY ManagerAssumption DEF KT!KafkaAssumption
<1>3. KT!ReadsAreLogged => Kafka!ReadsAreLogged
  BY DEF KT!ReadsAreLogged, Kafka!ReadsAreLogged, KT!Get, Kafka!Get,
         KT!Logged, Kafka!Logged
<1> QED
  BY <1>1, <1>2, <1>3, StorageRunsKafka, KafkaSpecSame, KT!KafkaReadsAreLogged, PTL

LEMMA KafkaTypes == Spec => []Kafka!TypeOK
<1>1. KT!NoneAssumption
  BY NoneAssumption DEF KT!NoneAssumption
<1>2. KT!KafkaAssumption
  BY ManagerAssumption DEF KT!KafkaAssumption
<1> QED
  BY <1>1, <1>2, StorageRunsKafka, KafkaSame, KafkaSpecSame, KT!KafkaTypeOK, PTL

\* Every step is a step of the database, too.
LEMMA RocksPart == OwnTypeOK /\ Kafka!TypeOK /\ [Next]_vars => [Rocks!Next]_Rocks!vars
<1> SUFFICES ASSUME OwnTypeOK, Kafka!TypeOK, Next PROVE Rocks!Next \/ UNCHANGED rocks_vars
  BY DEF vars, rocks_vars, Rocks!vars
<1>0. Main \in Callers /\ Tasks \subseteq Callers
  BY DEF Callers
<1>1. CASE DrainFails \/ Crash
  BY <1>1 DEF DrainFails, Crash, Down, Rocks!Next
<1>2. CASE DrainDelete
  <2>1. Rocks!Spawn(Main, "delete", call[Main].record.key, None)
    BY <1>2 DEF DrainDelete
  <2>2. call[Main].record.key \in Keys
    <3>1. call[Main] \in Kafka!Call /\ call[Main].pc = "appended"
      BY <1>0, <1>2 DEF DrainDelete, Kafka!Acked, Kafka!TypeOK
    <3> QED
      BY <3>1 DEF Kafka!Call, Kafka!NoCall, Kafka!Record
  <2> QED
    BY <1>0, <2>1, <2>2 DEF Rocks!Next
<1>3. CASE DrainNext
  BY <1>0, <1>3 DEF DrainNext, Rocks!Next
<1>4. ASSUME NEW t \in Tasks, CallRocks(t)
      PROVE  Rocks!Next
  <2>1. request[t] \in Request /\ request[t] # NoRequest
    BY <1>4 DEF OwnTypeOK, CallRocks, NoRequest
  <2>2. Rocks!Spawn(t, request[t].op, request[t].key, request[t].value)
    BY <1>4 DEF CallRocks
  <2>3. /\ request[t].key \in Keys
        /\ \/ request[t].op = "put" /\ request[t].value \in Values
           \/ request[t].op = "delete" /\ request[t].value = None
    BY <2>1 DEF Request
  <2> QED
    BY <1>0, <2>2, <2>3 DEF Rocks!Next
<1>5. ASSUME NEW t \in Tasks, RocksAnswers(t) \/ Cancel(t)
      PROVE  Rocks!Next \/ UNCHANGED rocks_vars
  BY <1>0, <1>5 DEF RocksAnswers, Cancel, Rocks!Next
<1>6. ASSUME NEW c \in Callers, Closure(c)
      PROVE  Rocks!Next
  BY <1>6 DEF Closure, Rocks!Next
<1>7. CASE BootDisabled \/ BootEnabled \/ Connect \/ ConnectFails \/ DrainPut \/ DrainDone
  BY <1>7 DEF BootDisabled, BootEnabled, Connect, ConnectFails, DrainPut, DrainDone
<1>8. ASSUME NEW t \in Tasks, NEW k, NEW op, NEW v, Dispatch(t, op, k, v)
      PROVE  UNCHANGED rocks_vars
  BY <1>8 DEF Dispatch
<1>9. ASSUME NEW t \in Tasks, CallKafka(t) \/ KafkaAbsent(t) \/ KafkaAcked(t) \/ KafkaUnacked(t)
      PROVE  UNCHANGED rocks_vars
  BY <1>9 DEF CallKafka, KafkaAbsent, KafkaAcked, KafkaUnacked
<1>10. CASE Tick \/ Probe \/ BrokerStep
  BY <1>10 DEF Tick, Probe, BrokerStep
<1> QED
  BY <1>1, <1>2, <1>3, <1>4, <1>5, <1>6, <1>7, <1>8, <1>9, <1>10 DEF Next, Boot, Handle

\* RocksTheorems is about the same module on the same variables.
LEMMA RocksSame ==
  /\ Rocks!Init => RT!Init
  /\ [Rocks!Next]_Rocks!vars => [RT!Next]_RT!vars
  /\ RT!TypeOK => Rocks!TypeOK
<1>1. Rocks!Init => RT!Init
  BY DEF Rocks!Init, RT!Init, Rocks!NoJob, RT!NoJob
<1>2. [Rocks!Next]_Rocks!vars => [RT!Next]_RT!vars
  BY DEF Rocks!Next, RT!Next, Rocks!vars, RT!vars, Rocks!Crash, RT!Crash,
         Rocks!Spawn, RT!Spawn, Rocks!Run, RT!Run, Rocks!Join, RT!Join,
         Rocks!Abandon, RT!Abandon, Rocks!RunGet, RT!RunGet, Rocks!RunPut, RT!RunPut,
         Rocks!Probe, RT!Probe, Rocks!RunDelete, RT!RunDelete,
         Rocks!JobFails, RT!JobFails, Rocks!Finish, RT!Finish,
         Rocks!NoJob, RT!NoJob, Rocks!Idle, RT!Idle, Rocks!Ended, RT!Ended
<1>3. RT!TypeOK => Rocks!TypeOK
  BY DEF Rocks!TypeOK, RT!TypeOK, Rocks!Job, RT!Job, Rocks!NoJob, RT!NoJob
<1> QED
  BY <1>1, <1>2, <1>3

\* The database inside the coordinator behaves as RocksDbBackend says.
THEOREM StorageRunsRocks == Spec => Rocks!Spec
<1>1. Init => Rocks!Init
  BY DEF Init
<1> QED
  BY <1>1, RocksPart, OwnTypes, KafkaTypes, PTL DEF Spec, Rocks!Spec

\* The coordinator, its backends and the watcher keep their types: the types of
\* the backends come from their own theorems.
THEOREM StorageTypeOK == Spec => []TypeOK
<1>1. RT!RocksAssumption
  BY NoneAssumption DEF RT!RocksAssumption
<1>2. Rocks!Spec => RT!Spec
  BY RocksSame, PTL DEF Rocks!Spec, RT!Spec
<1>3. Spec => []Rocks!TypeOK
  BY <1>1, <1>2, StorageRunsRocks, RocksSame, RT!RocksTypeOK, PTL
<1>4. OwnTypeOK /\ Kafka!TypeOK /\ Rocks!TypeOK => TypeOK
  BY DEF OwnTypeOK, TypeOK
<1> QED
  BY <1>3, <1>4, OwnTypes, KafkaTypes, PTL

\* In the composed system both backends keep the contract of the trait Storage:
\* neither a failover nor a drain, neither a cancelled request nor a retried start
\* makes one of them change an entry except by a call of the coordinator, and then
\* once and as it was asked for.  The start of a process, which loads Kafka's map
\* anew, is the one exception.
THEOREM StorageBackendsKeepContract ==
  Spec => Kafka!ImplementsStorage /\ Rocks!ImplementsStorage
<1>1. KT!NoneAssumption /\ KT!KafkaAssumption
  BY NoneAssumption, ManagerAssumption DEF KT!NoneAssumption, KT!KafkaAssumption
<1>2. RT!RocksAssumption
  BY NoneAssumption DEF RT!RocksAssumption
<1>3. KT!ImplementsStorage => Kafka!ImplementsStorage
  <2>1. KT!Contract!Init => Kafka!Contract!Init
    BY DEF KT!Contract!Init, Kafka!Contract!Init, KT!Contract!Maps, Kafka!Contract!Maps,
           KT!Contract!Idle, Kafka!Contract!Idle
  <2>2. [KT!Contract!Next]_KT!Contract!vars => [Kafka!Contract!Next]_Kafka!Contract!vars
    BY DEF KT!Contract!Next, Kafka!Contract!Next, KT!Contract!vars, Kafka!Contract!vars,
           KT!Contract!Restart, Kafka!Contract!Restart, KT!Contract!Call, Kafka!Contract!Call,
           KT!Contract!Effect, Kafka!Contract!Effect, KT!Contract!NoEffect, Kafka!Contract!NoEffect,
           KT!Contract!Maps, Kafka!Contract!Maps, KT!Contract!Idle, Kafka!Contract!Idle
  <2> QED
    BY <2>1, <2>2, PTL DEF KT!ImplementsStorage, Kafka!ImplementsStorage,
                           KT!Contract!Spec, Kafka!Contract!Spec
<1>4. RT!ImplementsStorage => Rocks!ImplementsStorage
  <2>1. RT!Contract!Init => Rocks!Contract!Init
    BY DEF RT!Contract!Init, Rocks!Contract!Init, RT!Contract!Maps, Rocks!Contract!Maps,
           RT!Contract!Idle, Rocks!Contract!Idle, RT!PendingWrite, Rocks!PendingWrite
  <2>2. [RT!Contract!Next]_RT!Contract!vars => [Rocks!Contract!Next]_Rocks!Contract!vars
    BY DEF RT!Contract!Next, Rocks!Contract!Next, RT!Contract!vars, Rocks!Contract!vars,
           RT!Contract!Restart, Rocks!Contract!Restart, RT!Contract!Call, Rocks!Contract!Call,
           RT!Contract!Effect, Rocks!Contract!Effect, RT!Contract!NoEffect, Rocks!Contract!NoEffect,
           RT!Contract!Maps, Rocks!Contract!Maps, RT!Contract!Idle, Rocks!Contract!Idle,
           RT!PendingWrite, Rocks!PendingWrite
  <2> QED
    BY <2>1, <2>2, PTL DEF RT!ImplementsStorage, Rocks!ImplementsStorage,
                           RT!Contract!Spec, Rocks!Contract!Spec
<1>5. Rocks!Spec => RT!Spec
  BY RocksSame, PTL DEF Rocks!Spec, RT!Spec
<1>6. Spec => Kafka!ImplementsStorage
  BY <1>1, <1>3, StorageRunsKafka, KafkaSpecSame, KT!KafkaImplementsStorage, PTL
<1>7. Spec => Rocks!ImplementsStorage
  BY <1>2, <1>4, <1>5, StorageRunsRocks, RT!RocksImplementsStorage, PTL
<1> QED
  BY <1>6, <1>7
-----------------------------------------------------------------------------
(* The choice of a backend *)

\* The coordinator implements Failover: start-up ends in either backend, the
\* watcher can only take Kafka away, and nothing but the end of the process and
\* another start leads back to it.
THEOREM StorageFailover == Spec => LatchedFailover
<1>1. Init => Failover!Init
  BY DEF Init, Failover!Init, Mode
<1>2. TypeOK /\ [Next]_vars => [Failover!Next]_Mode
  <2>00. UNCHANGED vars => Mode' = Mode
    <3> SUFFICES ASSUME phase' = phase, opened' = opened, kafka_available' = kafka_available
                 PROVE  Mode' = Mode
      BY DEF vars, kafka_vars, avail_vars, boot_vars
    <3> QED
      BY DEF Mode, Active
  <2> SUFFICES ASSUME TypeOK, Next, Mode' # Mode PROVE Failover!Next
    BY <2>00
  <2>0. /\ phase \in {"down", "connecting", "draining", "serving"}
        /\ Active \in {"kafka", "rocksdb"} /\ Active' \in {"kafka", "rocksdb"}
    BY DEF TypeOK, Active
  <2> USE DEF Mode, Failover!Next
  <2>1. CASE BootDisabled
    <3>1. phase = "down" /\ phase' = "serving" /\ kafka_available' = FALSE
      BY <2>1 DEF BootDisabled, Serve, Avail!Disabled
    <3>2. Active' = "rocksdb"
      BY <3>1 DEF Active
    <3> QED
      BY <3>1, <3>2 DEF Failover!StartWithoutKafka
  <2>2. CASE BootEnabled
    BY <2>2 DEF BootEnabled, Failover!Start
  <2>3. CASE Connect \/ ConnectFails \/ DrainDone
    BY <2>0, <2>3 DEF Connect, ConnectFails, DrainDone, Serve, Failover!Ready
  <2>4. CASE DrainFails \/ Crash
    BY <2>0, <2>4 DEF DrainFails, Crash, Down, Failover!Stop
  <2>5. CASE Probe
    <3>1. phase' = phase /\ opened' = opened /\ (kafka_available' => kafka_available)
      BY <2>5 DEF Probe, Avail!Probed, boot_vars, kafka_vars
    <3> QED
      BY <2>0, <3>1 DEF Active, Failover!LatchOff
  <2>6. CASE ~(BootDisabled \/ BootEnabled \/ Connect \/ ConnectFails \/ DrainDone
               \/ DrainFails \/ Crash \/ Probe)
    <3>1. phase' = phase /\ opened' = opened /\ kafka_available' = kafka_available
      <4>1. CASE DrainPut \/ DrainDelete \/ DrainNext
        BY <4>1 DEF DrainPut, DrainDelete, DrainNext, boot_vars, avail_vars, kafka_vars,
                    Kafka!Put, Kafka!Produce, Kafka!Acked
      <4>2. ASSUME NEW t \in Tasks, Handle(t)
            PROVE  phase' = phase /\ opened' = opened /\ kafka_available' = kafka_available
        BY <4>2 DEF Handle, Dispatch, CallKafka, KafkaAbsent, CallRocks, KafkaAcked,
                    RocksAnswers, KafkaUnacked, Cancel, boot_vars, avail_vars, kafka_vars,
                    Kafka!Put, Kafka!Delete, Kafka!Produce, Kafka!Acked, Kafka!Unacked
      <4>3. CASE BrokerStep
        BY <4>3 DEF BrokerStep, boot_vars, avail_vars, kafka_vars,
                    Kafka!BrokerAppend, Kafka!LateAppend, Kafka!Resend
      <4>4. CASE Tick \/ \E c \in Callers : Closure(c)
        BY <4>4 DEF Tick, Avail!Tick, Closure, boot_vars, avail_vars, kafka_vars
      <4> QED
        BY <2>6, <4>1, <4>2, <4>3, <4>4 DEF Next, Boot
    <3> QED
      BY <3>1 DEF Active
  <2> QED
    BY <2>1, <2>2, <2>3, <2>4, <2>5, <2>6
<1> QED
  BY <1>1, <1>2, StorageTypeOK, PTL DEF Spec, LatchedFailover, Failover!Spec
-----------------------------------------------------------------------------
(* Kafka serves alone *)

\* While the drain runs, entries has whatever is left in RocksDB, and the call
\* or the closure that the drain waits for is about one of them.
DrainInv ==
  /\ \A k \in Keys : db[k] # None => [key |-> k, value |-> db[k]] \in entries
  /\ InKafka(Main) => \E e \in entries : e.key = call[Main].record.key
  /\ InRocks(Main) => /\ ~InKafka(Main)
                      /\ job[Main].op = "delete"
                      /\ \E e \in entries : e.key = job[Main].key
  /\ job[Main].pc \in {"done", "absent"} => db[job[Main].key] = None

\* The inductive invariant of OneHome.  There are requests only while the
\* process serves, the drain acts only while it drains, and a request that has
\* chosen RocksDB is proof that Kafka is not active any more.
HomeInv ==
  /\ kafka_available => phase = "serving"
  /\ phase # "serving" => \A t \in Tasks : request[t] = NoRequest /\ ~InRocks(t)
  /\ phase # "draining" => ~InKafka(Main) /\ ~InRocks(Main)
  /\ phase = "draining" => DrainInv
  /\ phase = "serving" /\ Active = "kafka" =>
       \A t \in Tasks : request[t].backend # "rocksdb"
  /\ OneHome

LEMMA HomeInit == Init => HomeInv
  BY DEF Init, HomeInv, OneHome, Avail!Init, Rocks!Init, Kafka!Init, InRocks, InKafka,
         Rocks!Idle, Kafka!InCall, Rocks!NoJob, Kafka!NoCall, Callers

\* Steps that begin no request, no closure and no call of the drain, and give
\* Kafka no new chance.
LEMMA HomeQuiet ==
  ASSUME HomeInv,
         phase' = phase, entries' = entries, db' = db, opened' = opened,
         kafka_available' => kafka_available,
         \A t \in Tasks : request'[t] = request[t] \/ request'[t] = NoRequest,
         \A t \in Tasks : InRocks(t)' => InRocks(t),
         job'[Main] = job[Main],
         InKafka(Main)' => InKafka(Main),
         InKafka(Main)' => call'[Main].record = call[Main].record
  PROVE  HomeInv'
<1> USE DEF HomeInv
<1>1. Active' = "kafka" => Active = "kafka"
  BY DEF Active
<1>2. InRocks(Main)' <=> InRocks(Main)
  BY DEF InRocks, Rocks!Idle
<1>3. NoRequest.backend # "rocksdb"
  BY DEF NoRequest
<1>4. phase' # "serving" => \A t \in Tasks : request'[t] = NoRequest /\ ~InRocks(t)'
  OBVIOUS
<1>5. phase' # "draining" => ~InKafka(Main)' /\ ~InRocks(Main)'
  BY <1>2
<1>6. phase' = "draining" => DrainInv'
  BY <1>2 DEF DrainInv
<1>7. phase' = "serving" /\ Active' = "kafka" =>
        \A t \in Tasks : request'[t].backend # "rocksdb"
  BY <1>1, <1>3
<1>8. OneHome'
  BY <1>1, <1>2 DEF OneHome, InRocks, Callers
<1> QED
  BY <1>4, <1>5, <1>6, <1>7, <1>8

\* Start-up and the end of the process.
LEMMA HomeBoot ==
  ASSUME TypeOK, HomeInv,
         BootDisabled \/ BootEnabled \/ Connect \/ ConnectFails \/ DrainFails \/ Crash
  PROVE  HomeInv'
<1> USE DEF HomeInv
<1>0. /\ \A c \in Callers : InRocks(c) <=> job[c].pc # "idle"
      /\ \A c \in Callers : InRocks(c)' <=> job'[c].pc # "idle"
      /\ InKafka(Main) <=> call[Main].pc # "idle"
      /\ InKafka(Main)' <=> call'[Main].pc # "idle"
      /\ Main \in Callers /\ Tasks \subseteq Callers /\ Main \notin Tasks
  BY ManagerAssumption DEF InRocks, Rocks!Idle, InKafka, Kafka!InCall, Callers
<1>1. CASE DrainFails \/ Crash
  <2>1. /\ phase' = "down" /\ kafka_available' = FALSE
        /\ job' = [c \in Callers |-> Rocks!NoJob] /\ call' = [c \in Callers |-> Kafka!NoCall]
        /\ request' = [t \in Tasks |-> NoRequest]
    BY <1>1 DEF DrainFails, Crash, Down, Rocks!Crash, Kafka!Crash, Avail!Stop
  <2> QED
    BY <1>0, <2>1 DEF OneHome, Rocks!NoJob, Kafka!NoCall
<1>2. CASE BootDisabled \/ BootEnabled \/ ConnectFails
  <2>1. /\ phase \in {"down", "connecting"} /\ phase' \in {"connecting", "serving"}
        /\ job' = job /\ call' = call /\ request' = request
        /\ kafka_available' = FALSE \/ kafka_available' = kafka_available
    BY <1>2 DEF BootDisabled, BootEnabled, ConnectFails, Serve, Avail!Disabled,
                kafka_vars, rocks_vars, avail_vars
  <2>2. ~kafka_available'
    BY <2>1
  <2>3. Active' = "rocksdb"
    BY <2>2 DEF Active
  <2> QED
    BY <1>0, <2>1, <2>2, <2>3 DEF OneHome
<1>3. CASE Connect
  <2>1. /\ phase = "connecting" /\ phase' = "draining" /\ job' = job /\ call' = call
        /\ request' = request /\ kafka_available' = kafka_available /\ db' = db
        /\ entries' = {e \in Entry : db[e.key] = e.value}
    BY <1>3 DEF Connect, IterAll, Kafka!Open, rocks_vars, avail_vars
  <2>2. \A k \in Keys : db[k] # None => [key |-> k, value |-> db[k]] \in entries'
    BY <2>1 DEF TypeOK, Rocks!TypeOK, Entry
  <2>3. DrainInv'
    BY <1>0, <2>1, <2>2 DEF DrainInv
  <2> QED
    BY <1>0, <2>1, <2>3 DEF OneHome
<1> QED
  BY <1>1, <1>2, <1>3

\* The drain.
LEMMA HomeDrain ==
  ASSUME TypeOK, HomeInv, DrainPut \/ DrainDelete \/ DrainNext \/ DrainDone
  PROVE  HomeInv'
<1> USE DEF HomeInv
<1>0. /\ \A c \in Callers : InRocks(c) <=> job[c].pc # "idle"
      /\ \A c \in Callers : InRocks(c)' <=> job'[c].pc # "idle"
      /\ InKafka(Main) <=> call[Main].pc # "idle"
      /\ InKafka(Main)' <=> call'[Main].pc # "idle"
      /\ Main \in Callers /\ Tasks \subseteq Callers /\ Main \notin Tasks
      /\ \A c \in Callers : c \in Tasks \/ c = Main
      /\ job \in [Callers -> Rocks!Job] /\ call \in [Callers -> Kafka!Call]
  BY ManagerAssumption
     DEF InRocks, Rocks!Idle, InKafka, Kafka!InCall, Callers, TypeOK, Rocks!TypeOK, Kafka!TypeOK
<1>1. CASE DrainPut
  <2>1. /\ phase = "draining" /\ phase' = phase /\ job' = job /\ db' = db
        /\ entries' = entries /\ request' = request /\ kafka_available' = kafka_available
        /\ job[Main].pc = "idle"
    BY <1>0, <1>1 DEF DrainPut, rocks_vars, avail_vars, boot_vars
  <2>2. PICK e \in entries : Kafka!Put(Main, e.key, e.value)
    BY <1>1 DEF DrainPut
  <2>3. call'[Main].record.key = e.key
    BY <1>0, <2>2 DEF Kafka!Put, Kafka!Produce
  <2>4. DrainInv'
    BY <1>0, <2>1, <2>3 DEF DrainInv
  <2> QED
    BY <1>0, <2>1, <2>4 DEF OneHome
<1>2. CASE DrainDelete
  <2> DEFINE k == call[Main].record.key
  <2>1. /\ job' = [job EXCEPT ![Main] =
             [op |-> "delete", pc |-> "start", key |-> k, value |-> None, awaited |-> TRUE]]
        /\ db' = db /\ phase' = phase /\ entries' = entries /\ request' = request
        /\ kafka_available' = kafka_available
        /\ call[Main].pc = "appended" /\ call' = [call EXCEPT ![Main] = Kafka!NoCall]
    BY <1>2 DEF DrainDelete, Rocks!Spawn, Kafka!Acked, Kafka!Return, avail_vars, boot_vars
  <2>2. phase = "draining" /\ \E e \in entries : e.key = k
    BY <1>0, <2>1 DEF DrainInv
  <2>3. /\ job'[Main].pc = "start" /\ job'[Main].op = "delete" /\ job'[Main].key = k
        /\ \A t \in Tasks : job'[t] = job[t]
        /\ call'[Main].pc = "idle"
    BY <1>0, <2>1 DEF Kafka!NoCall
  <2>4. DrainInv'
    BY <1>0, <2>1, <2>2, <2>3 DEF DrainInv
  <2> QED
    BY <1>0, <2>1, <2>2, <2>3, <2>4 DEF OneHome
<1>3. CASE DrainNext
  <2>1. /\ job[Main].pc \in {"done", "absent"} /\ job' = [job EXCEPT ![Main] = Rocks!NoJob]
        /\ db' = db /\ phase' = phase /\ call' = call /\ request' = request
        /\ kafka_available' = kafka_available
        /\ entries' = {e \in entries : e.key # job[Main].key}
    BY <1>3 DEF DrainNext, Rocks!Join, kafka_vars, avail_vars
  <2>2. /\ phase = "draining" /\ ~InKafka(Main) /\ db[job[Main].key] = None
    BY <1>0, <2>1 DEF DrainInv
  <2>3. job'[Main].pc = "idle" /\ \A t \in Tasks : job'[t] = job[t]
    BY <1>0, <2>1 DEF Rocks!NoJob
  <2>4. \A k \in Keys : db[k] # None => [key |-> k, value |-> db[k]] \in entries'
    BY <2>1, <2>2 DEF DrainInv
  <2>5. DrainInv'
    BY <1>0, <2>1, <2>2, <2>3, <2>4 DEF DrainInv
  <2> QED
    BY <1>0, <2>1, <2>2, <2>3, <2>5 DEF OneHome
<1>4. CASE DrainDone
  <2>1. /\ phase = "draining" /\ phase' = "serving" /\ entries = {}
        /\ job' = job /\ db' = db /\ call' = call /\ request' = request
    BY <1>4 DEF DrainDone, Serve, kafka_vars, rocks_vars
  <2>2. ~InKafka(Main) /\ ~InRocks(Main) /\ \A k \in Keys : db[k] = None
    BY <2>1 DEF DrainInv
  <2>3. \A t \in Tasks : request[t] = NoRequest /\ ~InRocks(t)
    BY <2>1
  <2>4. OneHome'
    BY <1>0, <2>1, <2>2, <2>3 DEF OneHome, InRocks
  <2> QED
    BY <1>0, <2>1, <2>2, <2>3, <2>4 DEF NoRequest
<1> QED
  BY <1>1, <1>2, <1>3, <1>4

\* A request, from the choice of its backend to its answer.
LEMMA HomeHandle ==
  ASSUME TypeOK, HomeInv, NEW t \in Tasks, Handle(t)
  PROVE  HomeInv'
<1> USE DEF HomeInv
<1>0. /\ \A c \in Callers : InRocks(c) <=> job[c].pc # "idle"
      /\ \A c \in Callers : InRocks(c)' <=> job'[c].pc # "idle"
      /\ InKafka(Main) <=> call[Main].pc # "idle"
      /\ InKafka(Main)' <=> call'[Main].pc # "idle"
      /\ Main \in Callers /\ t \in Callers /\ t # Main
      /\ \A c \in Callers : c \in Tasks \/ c = Main
      /\ \A c \in Tasks : c \in Callers
      /\ job \in [Callers -> Rocks!Job] /\ call \in [Callers -> Kafka!Call]
      /\ request \in [Tasks -> Request]
  BY ManagerAssumption
     DEF InRocks, Rocks!Idle, InKafka, Kafka!InCall, Callers, TypeOK, Rocks!TypeOK, Kafka!TypeOK
<1>1. ASSUME NEW op, NEW k, NEW v, Dispatch(t, op, k, v)
      PROVE  HomeInv'
  <2>1. /\ phase = "serving" /\ phase' = phase /\ opened' = opened
        /\ kafka_available' = kafka_available /\ job' = job /\ db' = db /\ call' = call
        /\ request' = [request EXCEPT ![t] =
             [op |-> op, key |-> k, value |-> v, backend |-> Active]]
    BY <1>1 DEF Dispatch, kafka_vars, rocks_vars, avail_vars, boot_vars
  <2>2. Active' = Active
    BY <2>1 DEF Active
  <2>3. Active = "kafka" => \A c \in Tasks : request'[c].backend # "rocksdb"
    BY <1>0, <2>1
  <2>4. OneHome'
    BY <1>0, <2>1, <2>2 DEF OneHome, InRocks
  <2> QED
    BY <1>0, <2>1, <2>2, <2>3, <2>4
<1>2. CASE CallRocks(t)
  <2>1. /\ request[t].backend = "rocksdb" /\ opened' = opened
        /\ phase' = phase /\ kafka_available' = kafka_available /\ db' = db /\ call' = call
        /\ request' = [request EXCEPT ![t] = NoRequest]
        /\ \A c \in Callers \ {t} : job'[c] = job[c]
    BY <1>0, <1>2 DEF CallRocks, Sent, Rocks!Spawn, kafka_vars, avail_vars, boot_vars
  <2>2. phase = "serving" /\ Active # "kafka"
    BY <2>1 DEF NoRequest
  <2>3. Active' # "kafka"
    BY <2>1, <2>2 DEF Active
  <2> QED
    BY <1>0, <2>1, <2>2, <2>3 DEF OneHome
<1>3. CASE CallKafka(t) \/ KafkaAbsent(t) \/ KafkaAcked(t) \/ KafkaUnacked(t)
  <2>1. /\ phase' = phase /\ entries' = entries /\ kafka_available' = kafka_available
        /\ db' = db /\ job' = job /\ opened' = opened
        /\ request' = request \/ request' = [request EXCEPT ![t] = NoRequest]
        /\ call'[Main] = call[Main]
    BY <1>0, <1>3
       DEF CallKafka, KafkaAbsent, KafkaAcked, KafkaUnacked, Sent, Kafka!Put, Kafka!Delete,
           Kafka!Produce, Kafka!Acked, Kafka!Unacked, Kafka!Return,
           kafka_vars, rocks_vars, avail_vars, boot_vars
  <2>2. /\ \A c \in Tasks : request'[c] = request[c] \/ request'[c] = NoRequest
        /\ \A c \in Tasks : InRocks(c)' => InRocks(c)
        /\ InKafka(Main)' => InKafka(Main)
    BY <1>0, <2>1
  <2> QED
    BY <2>1, <2>2, HomeQuiet
<1>4. CASE RocksAnswers(t) \/ Cancel(t)
  <2>1. /\ phase' = phase /\ entries' = entries /\ kafka_available' = kafka_available
        /\ db' = db /\ opened' = opened /\ call' = call
        /\ request' = request \/ request' = [request EXCEPT ![t] = NoRequest]
    BY <1>4 DEF RocksAnswers, Cancel, Sent, Rocks!Join, Rocks!Abandon,
                kafka_vars, rocks_vars, avail_vars, boot_vars
  <2>2. /\ \A c \in Callers \ {t} : job'[c] = job[c]
        /\ job'[t].pc # "idle" => job[t].pc # "idle"
    <3>1. CASE job' = job
      BY <3>1
    <3>2. CASE Rocks!Join(t)
      BY <1>0, <3>2 DEF Rocks!Join, Rocks!NoJob
    <3>3. CASE Rocks!Abandon(t)
      BY <1>0, <3>3 DEF Rocks!Abandon, Rocks!NoJob
    <3> QED
      BY <1>4, <3>1, <3>2, <3>3 DEF RocksAnswers, Cancel, rocks_vars
  <2>3. /\ \A c \in Tasks : request'[c] = request[c] \/ request'[c] = NoRequest
        /\ \A c \in Tasks : InRocks(c)' => InRocks(c)
        /\ InKafka(Main)' => InKafka(Main)
        /\ job'[Main] = job[Main]
    BY <1>0, <2>1, <2>2
  <2> QED
    BY <2>1, <2>3, HomeQuiet
<1> QED
  BY <1>1, <1>2, <1>3, <1>4 DEF Handle

\* A closure of RocksDB runs: while Kafka is active there is none.
LEMMA HomeClosure ==
  ASSUME TypeOK, HomeInv, NEW c \in Callers, Closure(c)
  PROVE  HomeInv'
<1> USE DEF HomeInv
<1>0. /\ \A d \in Callers : InRocks(d) <=> job[d].pc # "idle"
      /\ \A d \in Callers : InRocks(d)' <=> job'[d].pc # "idle"
      /\ InKafka(Main) <=> call[Main].pc # "idle"
      /\ InKafka(Main)' <=> call'[Main].pc # "idle"
      /\ Main \in Callers /\ Main \notin Tasks
      /\ \A d \in Callers : d \in Tasks \/ d = Main
      /\ \A d \in Tasks : d \in Callers
      /\ job \in [Callers -> Rocks!Job] /\ db \in [Keys -> Values \cup {None}]
  BY ManagerAssumption
     DEF InRocks, Rocks!Idle, InKafka, Kafka!InCall, Callers, TypeOK, Rocks!TypeOK
<1>1. /\ phase' = phase /\ opened' = opened /\ entries' = entries /\ call' = call
      /\ kafka_available' = kafka_available /\ request' = request
      /\ Rocks!Run(c)
  BY DEF Closure, kafka_vars, avail_vars, boot_vars
<1>2. job[c].pc \in {"start", "probed"} /\ \A d \in Callers \ {c} : job'[d] = job[d]
  BY <1>0, <1>1 DEF Rocks!Run, Rocks!RunGet, Rocks!RunPut, Rocks!Probe, Rocks!RunDelete,
                    Rocks!JobFails, Rocks!Finish
<1>3. Active' = Active
  BY <1>1 DEF Active
<1>4. CASE phase = "serving"
  <2>1. Active # "kafka"
    BY <1>0, <1>2, <1>4 DEF OneHome, InRocks
  <2>2. c # Main
    BY <1>0, <1>2, <1>4
  <2> QED
    BY <1>0, <1>1, <1>2, <1>3, <1>4, <2>1, <2>2 DEF OneHome
<1>5. CASE phase = "draining"
  <2>1. c = Main /\ job[Main].op = "delete" /\ job[Main].key \in Keys
    <3>1. c = Main
      BY <1>0, <1>2, <1>5
    <3>2. job[Main].op = "delete"
      BY <1>0, <1>2, <1>5, <3>1 DEF DrainInv
    <3> QED
      BY <1>0, <3>1, <3>2 DEF Rocks!Job, Rocks!NoJob
  <2>2. /\ db' = db \/ db' = [db EXCEPT ![job[Main].key] = None]
        /\ \/ job'[Main] = Rocks!NoJob
           \/ /\ job'[Main].op = "delete" /\ job'[Main].key = job[Main].key
              /\ job'[Main].pc \in {"probed", "absent", "done", "failed"}
              /\ job'[Main].pc \in {"done", "absent"} => db'[job[Main].key] = None
    <3>1. Rocks!Probe(Main) \/ Rocks!RunDelete(Main) \/ Rocks!JobFails(Main)
      BY <1>1, <2>1 DEF Rocks!Run, Rocks!RunGet, Rocks!RunPut
    <3>2. CASE Rocks!Probe(Main)
      <4>0. job[Main] \in [op : {"get", "put", "delete"},
                           pc : {"start", "probed", "done", "absent", "failed"},
                           key : Keys, value : Values \cup {None}, awaited : BOOLEAN]
        BY <1>0, <2>1 DEF Rocks!Job, Rocks!NoJob
      <4>1. CASE db[job[Main].key] = None
        <5> DEFINE new == [[job[Main] EXCEPT !.pc = "absent"] EXCEPT !.value = None]
        <5>1. job'[Main] = IF job[Main].awaited THEN new ELSE Rocks!NoJob
          BY <1>0, <3>2, <4>1 DEF Rocks!Probe, Rocks!Finish
        <5>2. new.op = "delete" /\ new.key = job[Main].key /\ new.pc = "absent"
          BY <2>1, <4>0
        <5>3. db' = db
          BY <3>2 DEF Rocks!Probe
        <5> HIDE DEF new
        <5> QED
          BY <4>1, <5>1, <5>2, <5>3
      <4>2. CASE db[job[Main].key] # None
        <5>1. job' = [job EXCEPT ![Main].pc = "probed"] /\ db' = db
          BY <3>2, <4>2 DEF Rocks!Probe
        <5>2. /\ job'[Main].op = "delete" /\ job'[Main].key = job[Main].key
              /\ job'[Main].pc = "probed"
          BY <1>0, <2>1, <4>0, <5>1
        <5> QED
          BY <5>1, <5>2
      <4> QED
        BY <4>1, <4>2
    <3>3. CASE Rocks!RunDelete(Main)
      BY <1>0, <2>1, <3>3 DEF Rocks!RunDelete, Rocks!Finish, Rocks!Job
    <3>4. CASE Rocks!JobFails(Main)
      BY <1>0, <2>1, <3>4 DEF Rocks!JobFails, Rocks!Finish, Rocks!Job
    <3> QED
      BY <3>1, <3>2, <3>3, <3>4
  <2>3. \A k \in Keys : db'[k] # None => [key |-> k, value |-> db'[k]] \in entries'
    BY <1>0, <1>1, <1>5, <2>2 DEF DrainInv
  <2>4. DrainInv'
    <3>1. ~InKafka(Main) /\ \E e \in entries : e.key = job[Main].key
      BY <1>0, <1>2, <1>5, <2>1 DEF DrainInv
    <3>2. CASE job'[Main] = Rocks!NoJob
      BY <1>0, <1>1, <2>3, <3>1, <3>2 DEF DrainInv, Rocks!NoJob
    <3> QED
      BY <1>0, <1>1, <2>2, <2>3, <3>1, <3>2 DEF DrainInv
  <2> QED
    BY <1>0, <1>1, <1>2, <1>5, <2>1, <2>4 DEF OneHome
<1>6. CASE phase # "serving" /\ phase # "draining"
  BY <1>0, <1>2, <1>6
<1> QED
  BY <1>4, <1>5, <1>6

\* The watcher, the broker, and a step of somebody else.
LEMMA HomeBackground ==
  ASSUME TypeOK, HomeInv, Tick \/ Probe \/ BrokerStep \/ UNCHANGED vars
  PROVE  HomeInv'
<1>0. /\ Main \in Callers /\ call \in [Callers -> Kafka!Call]
      /\ InKafka(Main) <=> call[Main].pc # "idle"
      /\ InKafka(Main)' <=> call'[Main].pc # "idle"
      /\ \A t \in Tasks : t \in Callers
  BY DEF InKafka, Kafka!InCall, Callers, TypeOK, Kafka!TypeOK
<1>1. /\ phase' = phase /\ entries' = entries /\ db' = db /\ opened' = opened
      /\ job' = job /\ request' = request
      /\ kafka_available' => kafka_available
  <2>1. CASE Tick \/ Probe
    BY <2>1 DEF Tick, Probe, Avail!Tick, Avail!Probed, kafka_vars, rocks_vars, boot_vars
  <2>2. CASE BrokerStep
    BY <2>2 DEF BrokerStep, Kafka!BrokerAppend, Kafka!LateAppend, Kafka!Resend,
                kafka_vars, rocks_vars, avail_vars, boot_vars
  <2>3. CASE UNCHANGED vars
    BY <2>3 DEF vars, kafka_vars, rocks_vars, avail_vars, boot_vars
  <2> QED
    BY <2>1, <2>2, <2>3
<1>2. call'[Main].record = call[Main].record /\ (InKafka(Main)' => InKafka(Main))
  <2>1. CASE call' = call
    BY <1>0, <2>1
  <2>2. ASSUME NEW c \in Callers, Kafka!BrokerAppend(c) \/ Kafka!Resend(c)
        PROVE  call'[Main].record = call[Main].record /\ (InKafka(Main)' => InKafka(Main))
    BY <1>0, <2>2 DEF Kafka!BrokerAppend, Kafka!Resend, Kafka!Call, Kafka!NoCall
  <2> QED
    BY <2>1, <2>2 DEF Tick, Probe, BrokerStep, Kafka!LateAppend, vars, kafka_vars
<1>3. \A t \in Tasks : InRocks(t)' => InRocks(t)
  BY <1>1 DEF InRocks, Rocks!Idle
<1> QED
  BY <1>1, <1>2, <1>3, HomeQuiet

LEMMA HomeStep == TypeOK /\ HomeInv /\ [Next]_vars => HomeInv'
<1> SUFFICES ASSUME TypeOK, HomeInv, Next \/ UNCHANGED vars PROVE HomeInv'
  OBVIOUS
<1> QED
  BY HomeBoot, HomeDrain, HomeHandle, HomeClosure, HomeBackground DEF Next, Boot

\* While Kafka is the active backend RocksDB holds nothing and runs nothing:
\* the drain at startup has moved every entry, and no request that chose a
\* backend before an await can still write to the one that is not read.
THEOREM StorageOneHome == Spec => []OneHome
<1>1. HomeInv => OneHome
  BY DEF HomeInv
<1> QED
  BY <1>1, HomeInit, HomeStep, StorageTypeOK, PTL DEF Spec
-----------------------------------------------------------------------------
(* Durability: the inductive invariant *)

\* A task has one thing under way at a time, its closures are puts and deletes
\* with their arguments, and what a closure has answered is waited for.
OneThing(t) ==
  /\ request[t] # NoRequest => ~InKafka(t) /\ ~InRocks(t)
  /\ InKafka(t) => ~InRocks(t)
  /\ phase # "serving" => ~InKafka(t)
  /\ InRocks(t) =>
       /\ job[t].op \in {"put", "delete"}
       /\ job[t].pc \in Rocks!Ended => job[t].awaited
       /\ job[t].op = "put" => /\ job[t].pc \in {"start", "done"} => job[t].value \in Values
                               /\ job[t].pc \notin {"probed", "absent"}
       /\ job[t].op = "delete" => job[t].value = None

OneAtATime == \A t \in Tasks : OneThing(t)

\* While the drain runs, an entry is still in the database, but for the one that
\* is being deleted, and what is put into Kafka is what the database has.
DrainCopies ==
  phase = "draining" =>
    /\ \A e \in entries : db[e.key] = e.value \/ (InRocks(Main) /\ job[Main].key = e.key)
    /\ InKafka(Main) => /\ call[Main].record.value # None
                        /\ db[call[Main].record.key] = call[Main].record.value
    /\ InRocks(Main) => job[Main].awaited /\ job[Main].value = None

\* A task that is alone on k: nobody else will write k, Kafka's part is not
\* hidden by an entry of RocksDB, and what it has written is what is there.
OwnsKey(t, k) ==
  /\ t \in Pending(k) /\ \A u \in Pending(k) : u = t
  /\ \A r \in wire : r.key # k
  /\ request[t].backend = "kafka" \/ InKafka(t) => db[k] = None
  /\ call[t].pc = "appended" => LastWrite(log, k) = call[t].record.value
  /\ job[t].pc = "done" => db[k] = job[t].value
  /\ InRocks(t) => job[t].awaited

AloneInv == \A t \in alone : \E k \in Keys : OwnsKey(t, k)

\* A closure that nobody waits for any more leaves its key without a promise.
AbandonedInv ==
  \A t \in Tasks : InRocks(t) /\ ~job[t].awaited => acked[job[t].key] = Unknown

\* The call of t on k has taken effect, or may any moment.
InEffect(t, k) ==
  \/ InKafka(t) /\ call[t].record.key = k
  \/ job[t].key = k /\ job[t].pc = "done"

\* What is promised of k is there: in the two stores, unless a call is about to
\* be told that it has written something else; in whatever is still on the wire;
\* in the topic before the drain deletes the entry; and in the cache that serves.
Kept(k) ==
  /\ \A r \in wire : r.key = k => r.value = acked[k]
  /\ Recoverable(k) = acked[k] \/ \E t \in Tasks : InEffect(t, k)
  /\ call[Main].pc = "appended" /\ call[Main].record.key = k => LastWrite(log, k) = acked[k]
  /\ job[Main].key = k => LastWrite(log, k) = acked[k] /\ cache[k] = acked[k]
  /\ phase = "draining" => cache[k] = acked[k] \/ \E e \in entries : e.key = k
  /\ phase = "serving" /\ Active = "kafka" => cache[k] = acked[k]

KeptInv == \A k \in Keys \ shadowed : acked[k] # Unknown => Kept(k)

DurableInv == OneAtATime /\ DrainCopies /\ AloneInv /\ AbandonedInv /\ KeptInv
-----------------------------------------------------------------------------
(* What the other theorems give *)

\* The history variables observe StorageManager and do not restrict it.
LEMMA HistoryObserves == HSpec => Spec
<1>1. HInit => Init
  BY DEF HInit
<1>2. [HNext]_<<vars, hvars>> => [Next]_vars
  <2> SUFFICES ASSUME HNext PROVE Next
    BY DEF vars, hvars
  <2> QED
    BY DEF HNext, Next, Boot, Handle, HDown, HDispatch, HKafkaAcked, HRocksAnswers, HCancel
<1> QED
  BY <1>1, <1>2, PTL DEF HSpec, Spec

\* The topic has a last record of every key it has a record of, and there are
\* no calls of Kafka without a backend.
LogInv ==
  /\ \A k \in Keys : HasLast(log, 1, Len(log), k)
  /\ ~opened => \A c \in Callers : call[c] = Kafka!NoCall

LEMMA LogKnown == Spec => []LogInv
<1>1. KT!NoneAssumption
  BY NoneAssumption DEF KT!NoneAssumption
<1>2. KT!KafkaAssumption
  BY ManagerAssumption DEF KT!KafkaAssumption
<1>3. KT!KafkaInv => LogInv
  BY DEF KT!KafkaInv, LogInv, KT!HasLast, HasLast, KT!OffsetsOf, OffsetsOf,
         KT!Record, Record, KT!NoCall, Kafka!NoCall
<1> QED
  BY <1>1, <1>2, <1>3, StorageRunsKafka, KafkaSpecSame, KT!KafkaInvariant, PTL

\* What the types say of a slot that is in use and of one that is not.
Slots ==
  /\ \A c \in Callers :
       IF call[c].pc = "idle" THEN call[c].record.key = None
       ELSE /\ call[c].pc \in {"produce", "appended"}
            /\ call[c].record \in Record
            /\ call[c].record.key \in Keys
            /\ call[c].record.value \in Values \cup {None}
  /\ \A c \in Callers :
       IF job[c].pc = "idle" THEN job[c].key = None /\ ~job[c].awaited
       ELSE /\ job[c].pc \in {"start", "probed", "done", "absent", "failed"}
            /\ job[c].key \in Keys
            /\ job[c].value \in Values \cup {None}
            /\ job[c].awaited \in BOOLEAN
  /\ \A t \in Tasks :
       IF request[t] = NoRequest THEN request[t].key = None /\ request[t].backend = "none"
       ELSE /\ request[t].key \in Keys
            /\ \/ request[t].op = "put" /\ request[t].value \in Values
               \/ request[t].op = "delete" /\ request[t].value = None

LEMMA SlotTypes == TypeOK => Slots
<1> SUFFICES ASSUME TypeOK PROVE Slots
  OBVIOUS
<1>1. ASSUME NEW c \in Callers
      PROVE  IF call[c].pc = "idle" THEN call[c].record.key = None
             ELSE /\ call[c].pc \in {"produce", "appended"}
                  /\ call[c].record \in Record
                  /\ call[c].record.key \in Keys
                  /\ call[c].record.value \in Values \cup {None}
  <2>1. call[c] \in Kafka!Call
    BY DEF TypeOK, Kafka!TypeOK
  <2> QED
    BY <2>1 DEF Kafka!Call, Kafka!NoCall, Kafka!Record, Record
<1>2. ASSUME NEW c \in Callers
      PROVE  IF job[c].pc = "idle" THEN job[c].key = None /\ ~job[c].awaited
             ELSE /\ job[c].pc \in {"start", "probed", "done", "absent", "failed"}
                  /\ job[c].key \in Keys
                  /\ job[c].value \in Values \cup {None}
                  /\ job[c].awaited \in BOOLEAN
  <2>1. job[c] \in Rocks!Job
    BY DEF TypeOK, Rocks!TypeOK
  <2> QED
    BY <2>1 DEF Rocks!Job, Rocks!NoJob
<1>3. ASSUME NEW t \in Tasks
      PROVE  IF request[t] = NoRequest
             THEN request[t].key = None /\ request[t].backend = "none"
             ELSE /\ request[t].key \in Keys
                  /\ \/ request[t].op = "put" /\ request[t].value \in Values
                     \/ request[t].op = "delete" /\ request[t].value = None
  <2>1. request[t] \in Request
    BY DEF TypeOK
  <2> QED
    BY <2>1 DEF Request, NoRequest
<1> QED
  BY <1>1, <1>2, <1>3 DEF Slots

LEMMA SlotTypesNext == TypeOK' => Slots'
  BY SlotTypes, PTL

\* Everything that is known of a state besides DurableInv.
Known == TypeOK /\ Slots /\ HomeInv /\ LogInv /\ HistoryTypeOK

LEMMA Places == Main \in Callers /\ Main \notin Tasks /\ Tasks \subseteq Callers
                /\ None \notin Keys /\ None \notin Values /\ Unknown \notin Values \cup {None}
                /\ (\A c \in Callers : c \in Tasks \/ c = Main)
  BY ManagerAssumption, NoneAssumption, UnknownAssumption DEF Callers
-----------------------------------------------------------------------------
(* Steps that do not touch a key *)

\* A task keeps its key to itself while others act on other keys.
LEMMA OwnsElse ==
  ASSUME NEW t \in Tasks, NEW k \in Keys, OwnsKey(t, k),
         request'[t] = request[t], call'[t] = call[t], job'[t] = job[t],
         \A u \in Tasks : u \in Pending(k)' => u \in Pending(k),
         \A r \in wire' : r.key = k => r \in wire,
         db'[k] = db[k],
         LastWrite(log', k) = LastWrite(log, k)
  PROVE  OwnsKey(t, k)'
<1>1. t \in Pending(k)' /\ \A u \in Pending(k)' : u = t
  BY DEF OwnsKey, Pending, InKafka, Kafka!InCall
<1> QED
  BY <1>1 DEF OwnsKey, InKafka, Kafka!InCall, InRocks, Rocks!Idle

\* What is promised of a key is kept by a step that leaves the key alone.
LEMMA KeptElse ==
  ASSUME NEW k \in Keys, Kept(k),
         acked'[k] = acked[k], db'[k] = db[k], cache'[k] = cache[k],
         LastWrite(log', k) = LastWrite(log, k),
         \A r \in wire' : r.key = k => r \in wire,
         \A t \in Tasks : InEffect(t, k) => InEffect(t, k)',
         call'[Main] = call[Main] \/ call'[Main].record.key # k,
         job'[Main] = job[Main] \/ job'[Main].key # k,
         phase' = phase, entries' = entries,
         Active' = "kafka" => Active = "kafka"
  PROVE  Kept(k)'
<1>1. Recoverable(k)' = Recoverable(k)
  BY DEF Recoverable
<1> QED
  BY <1>1 DEF Kept

\* A step of c about k: it disturbs nobody else and no other key.
LeavesOthers(c, k) ==
  /\ phase' = phase /\ entries' = entries
  /\ Active' = "kafka" => Active = "kafka"
  /\ \A d \in Callers \ {c} : call'[d] = call[d] /\ job'[d] = job[d]
  /\ \A t \in Tasks \ {c} : request'[t] = request[t]
  /\ \A j \in Keys \ {k} :
       /\ c \notin Pending(j) /\ c \notin Pending(j)'
       /\ acked'[j] = acked[j] /\ db'[j] = db[j] /\ cache'[j] = cache[j]
       /\ LastWrite(log', j) = LastWrite(log, j)
       /\ j \in shadowed => j \in shadowed'
       /\ \A r \in wire' : r.key = j => r \in wire
       /\ c = Main => /\ call'[c] = call[c] \/ call'[c].record.key # j
                      /\ job'[c] = job[c] \/ job'[c].key # j

\* The tasks that are still alone: they have k, or they have another key.
AloneKept(c, k) ==
  \A u \in alone' : OwnsKey(u, k)' \/ (u \in alone /\ u # c /\ ~OwnsKey(u, k))

\* What is left to show of a step about k.
LEMMA DurableOneKey ==
  ASSUME DurableInv, alone \in SUBSET Tasks, alone' \in SUBSET Tasks,
         NEW c \in Callers, NEW k \in Keys, LeavesOthers(c, k),
         c \in Tasks => OneThing(c)',
         DrainCopies',
         AloneKept(c, k),
         c \in Tasks /\ InRocks(c)' /\ ~job'[c].awaited => acked'[job'[c].key] = Unknown,
         \/ acked[k] = Unknown => acked'[k] = Unknown
         \/ \A u \in Tasks \ {c} : u \notin Pending(k),
         k \notin shadowed' /\ acked'[k] # Unknown => Kept(k)',
         \A u \in Tasks : job[u].pc # "idle" => job[u].key \in Keys
  PROVE  DurableInv'
<1> USE DEF DurableInv
<1>0. Tasks \subseteq Callers
  BY Places
<1>1. OneAtATime'
  BY <1>0 DEF OneAtATime, OneThing, LeavesOthers, InKafka, Kafka!InCall, InRocks, Rocks!Idle
<1>2. AloneInv'
  <2> SUFFICES ASSUME NEW u \in alone', ~OwnsKey(u, k)'
               PROVE  \E j \in Keys : OwnsKey(u, j)'
    BY DEF AloneInv
  <2>1. u \in alone /\ u # c /\ ~OwnsKey(u, k) /\ u \in Tasks
    BY DEF AloneKept
  <2>2. PICK j \in Keys : OwnsKey(u, j)
    BY <2>1 DEF AloneInv
  <2>3. j # k
    BY <2>1, <2>2
  <2>4. \A w \in Tasks : w \in Pending(j)' => w \in Pending(j)
    BY <1>0, <2>3 DEF LeavesOthers, Pending, InKafka, Kafka!InCall
  <2>5. /\ request'[u] = request[u] /\ call'[u] = call[u] /\ job'[u] = job[u]
        /\ \A r \in wire' : r.key = j => r \in wire
        /\ db'[j] = db[j] /\ LastWrite(log', j) = LastWrite(log, j)
    BY <1>0, <2>1, <2>3 DEF LeavesOthers
  <2> QED
    BY <2>1, <2>2, <2>4, <2>5, OwnsElse
<1>3. AbandonedInv'
  <2> SUFFICES ASSUME NEW u \in Tasks, u # c, job[u].pc # "idle", ~job[u].awaited
               PROVE  acked'[job[u].key] = Unknown
    BY <1>0 DEF AbandonedInv, LeavesOthers, InRocks, Rocks!Idle
  <2>1. acked[job[u].key] = Unknown /\ u \in Pending(job[u].key) /\ job[u].key \in Keys
    BY DEF AbandonedInv, InRocks, Rocks!Idle, Pending
  <2> QED
    BY <2>1 DEF LeavesOthers
<1>4. ASSUME NEW j \in Keys, j \notin shadowed', acked'[j] # Unknown
      PROVE  Kept(j)'
  <2>1. CASE j = k
    BY <1>4, <2>1
  <2>2. CASE j # k
    <3>1. Kept(j)
      BY <1>4, <2>2 DEF KeptInv, LeavesOthers
    <3>2. \A t \in Tasks : InEffect(t, j) => InEffect(t, j)'
      BY <1>0, <2>2 DEF LeavesOthers, InEffect, Pending, InKafka, Kafka!InCall
    <3>3. /\ call'[Main] = call[Main] \/ call'[Main].record.key # j
          /\ job'[Main] = job[Main] \/ job'[Main].key # j
      BY <2>2, Places DEF LeavesOthers
    <3>4. /\ acked'[j] = acked[j] /\ db'[j] = db[j] /\ cache'[j] = cache[j]
          /\ LastWrite(log', j) = LastWrite(log, j)
          /\ \A r \in wire' : r.key = j => r \in wire
          /\ phase' = phase /\ entries' = entries /\ (Active' = "kafka" => Active = "kafka")
      BY <2>2 DEF LeavesOthers
    <3> QED
      BY <3>1, <3>2, <3>3, <3>4, KeptElse
  <2> QED
    BY <2>1, <2>2
<1> QED
  BY <1>1, <1>2, <1>3, <1>4 DEF KeptInv

\* Steps that change neither a store, nor a call, nor a request.
LEMMA DurableQuiet ==
  ASSUME DurableInv,
         log' = log, wire' = wire, cache' = cache, call' = call, db' = db, job' = job,
         request' = request, entries' = entries,
         acked' = acked, alone' = alone, shadowed' = shadowed,
         phase' # "serving" => phase # "serving",
         phase' = "draining" => phase = "draining",
         phase' = "serving" /\ Active' = "kafka" => phase = "serving" /\ Active = "kafka"
  PROVE  DurableInv'
<1> USE DEF DurableInv
<1>1. OneAtATime'
  BY DEF OneAtATime, OneThing, InKafka, Kafka!InCall, InRocks, Rocks!Idle
<1>2. DrainCopies'
  BY DEF DrainCopies, InKafka, Kafka!InCall, InRocks, Rocks!Idle
<1>3. \A k : Pending(k)' = Pending(k)
  BY DEF Pending, InKafka, Kafka!InCall
<1>4. AloneInv'
  BY <1>3 DEF AloneInv, OwnsKey, InKafka, Kafka!InCall, InRocks, Rocks!Idle
<1>5. AbandonedInv'
  BY DEF AbandonedInv, InRocks, Rocks!Idle
<1>6. KeptInv'
  BY DEF KeptInv, Kept, Recoverable, InEffect, InKafka, Kafka!InCall
<1> QED
  BY <1>1, <1>2, <1>4, <1>5, <1>6

\* In a process that does not serve, no task has anything under way.
LEMMA NoTasks ==
  ASSUME Known, DurableInv, phase # "serving"
  PROVE  /\ \A k \in Keys : Pending(k) = {}
         /\ alone = {}
         /\ \A t \in Tasks : call[t].pc = "idle" /\ job[t].pc = "idle" /\ request[t] = NoRequest
         /\ \A t \in Tasks, k \in Keys : ~InEffect(t, k)
<1>1. \A t \in Tasks : call[t].pc = "idle" /\ job[t].pc = "idle" /\ request[t] = NoRequest
  BY DEF Known, HomeInv, DurableInv, OneAtATime, OneThing, InKafka, Kafka!InCall, InRocks, Rocks!Idle
<1>2. \A t \in Tasks, k \in Keys :
        request[t].key # k /\ ~InKafka(t) /\ job[t].key # k
  BY <1>1, Places DEF Known, Slots, InKafka, Kafka!InCall
<1>3. \A k \in Keys : Pending(k) = {}
  BY <1>2 DEF Pending
<1>4. alone = {}
  BY <1>3 DEF Known, HistoryTypeOK, DurableInv, AloneInv, OwnsKey
<1> QED
  BY <1>1, <1>2, <1>3, <1>4 DEF InEffect

\* Outside the drain the task that runs new has nothing under way.
LEMMA NoMain ==
  ASSUME Known, phase # "draining"
  PROVE  call[Main].pc = "idle" /\ job[Main].pc = "idle" /\ job[Main].key = None
  BY Places DEF Known, HomeInv, Slots, InKafka, Kafka!InCall, InRocks, Rocks!Idle

-----------------------------------------------------------------------------
(* The drain *)

\* Kafka is opened: its cache is the replay of the topic, and an entry that is
\* in RocksDB is among those to be drained.
LEMMA DurableConnect ==
  ASSUME Known, Known', DurableInv, Connect, UNCHANGED hvars
  PROVE  DurableInv'
<1> USE DEF DurableInv
<1>1. /\ phase = "connecting" /\ phase' = "draining"
      /\ log' = log /\ wire' = wire /\ call' = call /\ db' = db /\ job' = job
      /\ request' = request /\ acked' = acked /\ alone' = alone /\ shadowed' = shadowed
      /\ entries' = {e \in Entry : db[e.key] = e.value}
      /\ cache' = [k \in Keys |-> LastWrite(log, k)]
  BY DEF Connect, Kafka!Open, Kafka!Replay, Kafka!LastWrite, LastWrite, Kafka!LastIn, LastIn,
         Kafka!OffsetsOf, OffsetsOf, Kafka!Record, Record, IterAll, rocks_vars, avail_vars, hvars
<1>2. /\ alone = {}
      /\ \A t \in Tasks : call[t].pc = "idle" /\ job[t].pc = "idle" /\ request[t] = NoRequest
      /\ \A t \in Tasks, k \in Keys : ~InEffect(t, k)
  BY <1>1, NoTasks
<1>3. call[Main].pc = "idle" /\ job[Main].pc = "idle" /\ job[Main].key = None
  BY <1>1, NoMain
<1>4. OneAtATime' /\ AbandonedInv' /\ AloneInv'
  BY <1>1, <1>2 DEF OneAtATime, OneThing, AbandonedInv, AloneInv, InKafka, Kafka!InCall, InRocks, Rocks!Idle
<1>5. DrainCopies'
  BY <1>1, <1>3 DEF DrainCopies, InKafka, Kafka!InCall, InRocks, Rocks!Idle
<1>6. ASSUME NEW k \in Keys, k \notin shadowed, acked[k] # Unknown
      PROVE  Kept(k)'
  <2>1. Kept(k) /\ Recoverable(k) = acked[k] /\ Recoverable(k)' = Recoverable(k)
    BY <1>1, <1>2, <1>6 DEF KeptInv, Kept, Recoverable
  <2>2. CASE db[k] = None
    <3>1. cache'[k] = acked[k]
      BY <1>1, <2>1, <2>2 DEF Recoverable
    <3> QED
      BY <1>1, <1>3, <2>1, <3>1, Places DEF Kept
  <2>3. CASE db[k] # None
    <3>1. db[k] \in Values
      BY <2>3 DEF Known, TypeOK, Rocks!TypeOK
    <3>2. [key |-> k, value |-> db[k]] \in entries'
      BY <1>1, <3>1 DEF Entry
    <3> QED
      BY <1>1, <1>3, <2>1, <3>2, Places DEF Kept
  <2> QED
    BY <2>2, <2>3
<1> QED
  BY <1>1, <1>4, <1>5, <1>6 DEF KeptInv

\* An entry is handed to Kafka: RocksDB still has it.
LEMMA DurableDrainPut ==
  ASSUME Known, Known', DurableInv, DrainPut, UNCHANGED hvars
  PROVE  DurableInv'
<1> USE DEF DurableInv
<1>0. PICK e \in entries : Kafka!Put(Main, e.key, e.value)
  BY DEF DrainPut
<1>1. /\ phase = "draining" /\ phase' = "draining" /\ entries' = entries
      /\ log' = log /\ wire' = wire /\ cache' = cache /\ db' = db /\ job' = job
      /\ request' = request /\ acked' = acked /\ alone' = alone /\ shadowed' = shadowed
      /\ call' = [call EXCEPT ![Main] =
           [pc |-> "produce", record |-> [key |-> e.key, value |-> e.value]]]
      /\ job[Main].pc = "idle" /\ call[Main].pc = "idle"
  BY <1>0 DEF DrainPut, Kafka!Put, Kafka!Produce, Kafka!InCall, InRocks, Rocks!Idle,
              rocks_vars, boot_vars, hvars
<1>2. /\ alone = {}
      /\ \A t \in Tasks : call[t].pc = "idle" /\ job[t].pc = "idle" /\ request[t] = NoRequest
      /\ \A t \in Tasks, k \in Keys : ~InEffect(t, k)
  BY <1>1, NoTasks
<1>3. /\ call'[Main].pc = "produce"
      /\ call'[Main].record.key = e.key /\ call'[Main].record.value = e.value
      /\ \A t \in Tasks : call'[t] = call[t]
  BY <1>1, Places DEF Known, TypeOK, Kafka!TypeOK
<1>4. OneAtATime' /\ AbandonedInv' /\ AloneInv'
  BY <1>1, <1>2, <1>3 DEF OneAtATime, OneThing, AbandonedInv, AloneInv, InKafka, Kafka!InCall,
                          InRocks, Rocks!Idle
<1>5. DrainCopies'
  <2>1. e.value # None
    BY NoneAssumption DEF Known, TypeOK, Entry
  <2>2. db[e.key] = e.value
    BY <1>1 DEF DrainCopies, InRocks, Rocks!Idle
  <2> QED
    BY <1>1, <1>3, <2>1, <2>2 DEF DrainCopies, InRocks, Rocks!Idle
<1>6. ASSUME NEW k \in Keys, k \notin shadowed, acked[k] # Unknown
      PROVE  Kept(k)'
  <2>1. Kept(k) /\ Recoverable(k) = acked[k] /\ Recoverable(k)' = Recoverable(k)
    BY <1>1, <1>2, <1>6 DEF KeptInv, Kept, Recoverable
  <2> QED
    BY <1>1, <1>3, <2>1 DEF Kept
<1> QED
  BY <1>1, <1>4, <1>5, <1>6 DEF KeptInv

\* The entry is acknowledged by Kafka, and its delete begins.
LEMMA DurableDrainDelete ==
  ASSUME Known, Known', DurableInv, DrainDelete, UNCHANGED hvars
  PROVE  DurableInv'
<1> USE DEF DurableInv
<1> DEFINE r == call[Main].record
<1>1. /\ phase' = phase /\ entries' = entries
      /\ log' = log /\ wire' = wire /\ db' = db
      /\ request' = request /\ acked' = acked /\ alone' = alone /\ shadowed' = shadowed
      /\ call[Main].pc = "appended" /\ job[Main].pc = "idle"
      /\ cache' = [cache EXCEPT ![r.key] = r.value]
      /\ call' = [call EXCEPT ![Main] = Kafka!NoCall]
      /\ job' = [job EXCEPT ![Main] = [op |-> "delete", pc |-> "start", key |-> r.key,
                                       value |-> None, awaited |-> TRUE]]
  BY DEF DrainDelete, Kafka!Acked, Kafka!Return, Kafka!ApplyRecord, Rocks!Spawn, Rocks!Idle,
         boot_vars, hvars
<1>2. phase = "draining" /\ r.key \in Keys
  BY <1>1, NoMain, Places DEF Known, Slots
<1>3. /\ alone = {}
      /\ \A t \in Tasks : call[t].pc = "idle" /\ job[t].pc = "idle" /\ request[t] = NoRequest
      /\ \A t \in Tasks, k \in Keys : ~InEffect(t, k)
  BY <1>2, NoTasks
<1>4. /\ call'[Main] = Kafka!NoCall /\ call'[Main].pc = "idle"
      /\ job'[Main].pc = "start" /\ job'[Main].key = r.key
      /\ job'[Main].awaited /\ job'[Main].value = None
      /\ \A t \in Tasks : call'[t] = call[t] /\ job'[t] = job[t]
  BY <1>1, Places DEF Known, TypeOK, Kafka!TypeOK, Rocks!TypeOK, Kafka!NoCall
<1>5. OneAtATime' /\ AbandonedInv' /\ AloneInv'
  BY <1>1, <1>3, <1>4 DEF OneAtATime, OneThing, AbandonedInv, AloneInv, InKafka, Kafka!InCall,
                          InRocks, Rocks!Idle
<1>6. DrainCopies'
  BY <1>1, <1>2, <1>4 DEF DrainCopies, InKafka, Kafka!InCall, InRocks, Rocks!Idle
<1>7. ASSUME NEW k \in Keys, k \notin shadowed, acked[k] # Unknown
      PROVE  Kept(k)'
  <2>1. Kept(k) /\ Recoverable(k) = acked[k] /\ Recoverable(k)' = Recoverable(k)
    BY <1>1, <1>3, <1>7 DEF KeptInv, Kept, Recoverable
  <2>2. CASE k = r.key
    <3>1. r.value # None /\ db[k] = r.value
      BY <1>1, <1>2, <2>2 DEF DrainCopies, InKafka, Kafka!InCall
    <3>2. cache'[k] = acked[k] /\ LastWrite(log, k) = acked[k]
      BY <1>1, <2>1, <2>2, <3>1 DEF Recoverable, Kept, Known, TypeOK, Kafka!TypeOK
    <3> QED
      BY <1>1, <1>2, <1>4, <2>1, <3>2 DEF Kept
  <2>3. CASE k # r.key
    <3>1. cache'[k] = cache[k]
      BY <1>1, <2>3 DEF Known, TypeOK, Kafka!TypeOK
    <3> QED
      BY <1>1, <1>2, <1>4, <2>1, <2>3, <3>1 DEF Kept
  <2> QED
    BY <2>2, <2>3
<1> QED
  BY <1>1, <1>5, <1>6, <1>7 DEF KeptInv

\* The entry is gone from RocksDB; the topic and the cache have it.
LEMMA DurableDrainNext ==
  ASSUME Known, Known', DurableInv, DrainNext, UNCHANGED hvars
  PROVE  DurableInv'
<1> USE DEF DurableInv
<1>1. /\ phase' = phase /\ cache' = cache /\ call' = call
      /\ log' = log /\ wire' = wire /\ db' = db
      /\ request' = request /\ acked' = acked /\ alone' = alone /\ shadowed' = shadowed
      /\ job[Main].pc # "idle"
      /\ job' = [job EXCEPT ![Main] = Rocks!NoJob]
      /\ entries' = {e \in entries : e.key # job[Main].key}
  BY DEF DrainNext, Rocks!Join, kafka_vars, hvars
<1>2. phase = "draining"
  BY <1>1, NoMain
<1>3. /\ alone = {}
      /\ \A t \in Tasks : call[t].pc = "idle" /\ job[t].pc = "idle" /\ request[t] = NoRequest
      /\ \A t \in Tasks, k \in Keys : ~InEffect(t, k)
  BY <1>2, NoTasks
<1>4. /\ job'[Main].pc = "idle" /\ job'[Main].key = None
      /\ \A t \in Tasks : job'[t] = job[t]
  BY <1>1, Places DEF Known, TypeOK, Rocks!TypeOK, Rocks!NoJob
<1>5. OneAtATime' /\ AbandonedInv' /\ AloneInv'
  BY <1>1, <1>3, <1>4 DEF OneAtATime, OneThing, AbandonedInv, AloneInv, InKafka, Kafka!InCall,
                          InRocks, Rocks!Idle
<1>6. DrainCopies'
  BY <1>1, <1>2, <1>4 DEF DrainCopies, InKafka, Kafka!InCall, InRocks, Rocks!Idle
<1>7. ASSUME NEW k \in Keys, k \notin shadowed, acked[k] # Unknown
      PROVE  Kept(k)'
  <2>1. Kept(k) /\ Recoverable(k) = acked[k] /\ Recoverable(k)' = Recoverable(k)
    BY <1>1, <1>3, <1>7 DEF KeptInv, Kept, Recoverable
  <2>2. cache[k] = acked[k] \/ \E e \in entries' : e.key = k
    BY <1>1, <1>2, <2>1 DEF Kept
  <2> QED
    BY <1>1, <1>2, <1>4, <2>1, <2>2, Places DEF Kept
<1> QED
  BY <1>1, <1>5, <1>6, <1>7 DEF KeptInv

\* The drain is over: what is promised is in the cache that will serve.
LEMMA DurableDrainDone ==
  ASSUME Known, Known', DurableInv, DrainDone, UNCHANGED hvars
  PROVE  DurableInv'
<1> USE DEF DurableInv
<1>1. /\ phase = "draining" /\ phase' = "serving" /\ entries = {}
      /\ log' = log /\ wire' = wire /\ cache' = cache /\ call' = call
      /\ db' = db /\ job' = job /\ request' = request
      /\ acked' = acked /\ alone' = alone /\ shadowed' = shadowed
  BY DEF DrainDone, Serve, kafka_vars, rocks_vars, hvars
<1>2. /\ alone = {}
      /\ \A t \in Tasks : call[t].pc = "idle" /\ job[t].pc = "idle" /\ request[t] = NoRequest
      /\ \A t \in Tasks, k \in Keys : ~InEffect(t, k)
  BY <1>1, NoTasks
<1>3. OneAtATime' /\ AbandonedInv' /\ AloneInv' /\ DrainCopies'
  BY <1>1, <1>2 DEF OneAtATime, OneThing, AbandonedInv, AloneInv, DrainCopies, InKafka, Kafka!InCall,
                    InRocks, Rocks!Idle
<1>4. ASSUME NEW k \in Keys, k \notin shadowed, acked[k] # Unknown
      PROVE  Kept(k)'
  <2>1. Kept(k) /\ Recoverable(k) = acked[k] /\ Recoverable(k)' = Recoverable(k)
    BY <1>1, <1>2, <1>4 DEF KeptInv, Kept, Recoverable
  <2> QED
    BY <1>1, <2>1 DEF Kept
<1> QED
  BY <1>1, <1>3, <1>4 DEF KeptInv

\* The process ends: of the calls it leaves on their way, the drain's carries
\* what RocksDB still has, and those of the tasks were not acknowledged.
LEMMA DurableDown ==
  ASSUME Known, Known', DurableInv, HDown
  PROVE  DurableInv'
<1> USE DEF DurableInv
<1>0. PICK lost \in SUBSET {c \in Callers : call[c].pc = "produce"} :
        wire' = wire \cup {call[c].record : c \in lost}
  BY DEF HDown, Crash, DrainFails, Down, Kafka!Crash
<1>1. /\ phase' = "down" /\ entries' = {} /\ log' = log /\ db' = db
      /\ call' = [c \in Callers |-> Kafka!NoCall]
      /\ job' = [c \in Callers |-> Rocks!NoJob]
      /\ request' = [t \in Tasks |-> NoRequest]
      /\ acked' = [k \in Keys |-> IF Pending(k) = {} THEN acked[k] ELSE Unknown]
      /\ alone' = {} /\ shadowed' = shadowed
  BY DEF HDown, Crash, DrainFails, Down, Kafka!Crash, Rocks!Crash
<1>2. /\ \A c \in Callers : call'[c].pc = "idle" /\ job'[c].pc = "idle" /\ job'[c].key = None
      /\ \A t \in Tasks : request'[t] = NoRequest
  BY <1>1 DEF Kafka!NoCall, Rocks!NoJob
<1>3. OneAtATime' /\ AbandonedInv' /\ AloneInv' /\ DrainCopies'
  BY <1>1, <1>2, Places DEF OneAtATime, OneThing, AbandonedInv, AloneInv, DrainCopies, InKafka,
                            Kafka!InCall, InRocks, Rocks!Idle
<1>4. ASSUME NEW k \in Keys, k \notin shadowed', acked'[k] # Unknown
      PROVE  Kept(k)'
  <2>1. acked'[k] = acked[k] /\ Pending(k) = {}
    BY <1>1, <1>4
  <2>2. \A t \in Tasks : ~InEffect(t, k) /\ ~(InKafka(t) /\ call[t].record.key = k)
    BY <2>1 DEF Pending, InEffect
  <2>3. Kept(k) /\ Recoverable(k) = acked[k] /\ Recoverable(k)' = Recoverable(k)
    BY <1>1, <1>4, <2>1, <2>2 DEF KeptInv, Kept, Recoverable
  <2>4. ASSUME NEW c \in lost, call[c].record.key = k
        PROVE  call[c].record.value = acked[k]
    <3>1. call[c].pc = "produce" /\ c \in Callers
      OBVIOUS
    <3>2. c = Main
      BY <2>2, <2>4, <3>1, Places DEF InKafka, Kafka!InCall
    <3>3. phase = "draining"
      BY <3>1, <3>2, NoMain
    <3>4. db[k] = call[c].record.value /\ call[c].record.value # None
      BY <2>4, <3>1, <3>2, <3>3 DEF DrainCopies, InKafka, Kafka!InCall
    <3> QED
      BY <2>3, <3>4 DEF Recoverable
  <2>5. \A r \in wire' : r.key = k => r.value = acked[k]
    BY <1>0, <2>3, <2>4 DEF Kept
  <2> QED
    BY <1>1, <1>2, <2>1, <2>3, <2>5, Places DEF Kept
<1> QED
  BY <1>1, <1>3, <1>4 DEF KeptInv

-----------------------------------------------------------------------------
(* Requests *)

\* Who has something under way is a task of a process that serves.
LEMMA Serving ==
  ASSUME Known, DurableInv, NEW t \in Tasks,
         request[t] # NoRequest \/ call[t].pc # "idle" \/ job[t].pc # "idle"
  PROVE  /\ phase = "serving"
         /\ call[Main].pc = "idle" /\ job[Main].pc = "idle" /\ job[Main].key = None
         /\ OneThing(t)
<1>1. phase = "serving"
  BY NoTasks
<1> QED
  BY <1>1, NoMain DEF DurableInv, OneAtATime

\* A task that stays alone after its step owned its key before it.
LEMMA AloneOf ==
  ASSUME AloneInv, NEW t \in Tasks, NEW k \in Keys,
         t \in Pending(k), \A j \in Keys \ {k} : t \notin Pending(j),
         alone' \subseteq alone,
         t \in alone' /\ OwnsKey(t, k) => OwnsKey(t, k)'
  PROVE  AloneKept(t, k)
  BY DEF AloneInv, AloneKept, OwnsKey

\* The task that has a request has the key of it, and no other.
LEMMA RequestKey ==
  ASSUME Known, NEW t \in Tasks, OneThing(t), request[t] # NoRequest
  PROVE  /\ request[t].key \in Keys /\ t \in Pending(request[t].key)
         /\ \A j \in Keys \ {request[t].key} : t \notin Pending(j)
         /\ call[t].pc = "idle" /\ job[t].pc = "idle" /\ job[t].key = None
  BY Places DEF Known, Slots, Pending, OneThing, InKafka, Kafka!InCall, InRocks, Rocks!Idle

\* The task that has a call in Kafka has the key of it, and no other.
LEMMA CallKey ==
  ASSUME Known, NEW t \in Tasks, OneThing(t), call[t].pc # "idle"
  PROVE  /\ call[t].record.key \in Keys /\ t \in Pending(call[t].record.key)
         /\ \A j \in Keys \ {call[t].record.key} : t \notin Pending(j)
         /\ request[t] = NoRequest /\ request[t].key = None /\ request[t].backend = "none"
         /\ job[t].pc = "idle" /\ job[t].key = None
  BY Places DEF Known, Slots, Pending, OneThing, InKafka, Kafka!InCall, InRocks, Rocks!Idle

\* The task that has a closure has the key of it, and no other.
LEMMA JobKey ==
  ASSUME Known, NEW t \in Tasks, OneThing(t), job[t].pc # "idle"
  PROVE  /\ job[t].key \in Keys /\ t \in Pending(job[t].key)
         /\ \A j \in Keys \ {job[t].key} : t \notin Pending(j)
         /\ request[t] = NoRequest /\ request[t].key = None /\ request[t].backend = "none"
         /\ call[t].pc = "idle"
  BY Places DEF Known, Slots, Pending, OneThing, InKafka, Kafka!InCall, InRocks, Rocks!Idle

\* A task with nothing under way has no key.
LEMMA FreeTask ==
  ASSUME Known, NEW t \in Tasks,
         request[t] = NoRequest, call[t].pc = "idle", job[t].pc = "idle"
  PROVE  /\ \A j \in Keys : t \notin Pending(j)
         /\ request[t].key = None /\ request[t].backend = "none" /\ job[t].key = None
  BY Places DEF Known, Slots, Pending, InKafka, Kafka!InCall

\* A request chooses its backend.  Its task is alone if nobody else has the key.
LEMMA DurableDispatch ==
  ASSUME Known, Known', DurableInv, NEW t \in Tasks, NEW k \in Keys, HDispatch(t, k)
  PROVE  DurableInv'
<1>0. PICK op, v : Dispatch(t, op, k, v)
  BY DEF HDispatch
<1>1. /\ phase = "serving" /\ phase' = phase /\ entries' = entries /\ opened' = opened
      /\ log' = log /\ wire' = wire /\ cache' = cache /\ call' = call /\ db' = db /\ job' = job
      /\ kafka_available' = kafka_available
      /\ request[t] = NoRequest /\ call[t].pc = "idle" /\ job[t].pc = "idle"
      /\ request' = [request EXCEPT ![t] =
           [op |-> op, key |-> k, value |-> v, backend |-> Active]]
      /\ acked' = acked /\ shadowed' = shadowed
      /\ alone' = IF Busy(k) THEN alone \ Pending(k) ELSE alone \cup {t}
  BY <1>0 DEF HDispatch, Dispatch, InKafka, Kafka!InCall, InRocks, Rocks!Idle,
              kafka_vars, rocks_vars, avail_vars, boot_vars
<1>2. /\ request'[t].key = k /\ request'[t].backend = Active
      /\ \A u \in Tasks \ {t} : request'[u] = request[u]
  BY <1>1 DEF Known, TypeOK
<1>3. /\ \A j \in Keys : t \notin Pending(j)
      /\ job[t].key = None
  BY <1>1, FreeTask
<1>4. OneThing(t)' /\ DrainCopies'
  BY <1>1 DEF OneThing, DrainCopies, InKafka, Kafka!InCall, InRocks, Rocks!Idle
<1>5. LeavesOthers(t, k)
  <2>1. \A j \in Keys \ {k} : t \notin Pending(j)'
    BY <1>1, <1>2, <1>3, Places DEF Pending, InKafka, Kafka!InCall
  <2> QED
    BY <1>1, <1>2, <1>3, <2>1, Places DEF LeavesOthers, Active
<1>6. AloneKept(t, k)
  <2> SUFFICES ASSUME NEW u \in alone', ~OwnsKey(u, k)'
               PROVE  u \in alone /\ u # t /\ ~OwnsKey(u, k)
    BY DEF AloneKept
  <2>1. t \notin alone
    BY <1>3 DEF DurableInv, AloneInv, OwnsKey
  <2>2. CASE Busy(k)
    BY <1>1, <2>1, <2>2 DEF OwnsKey
  <2>3. CASE ~Busy(k)
    <3>1. Pending(k) = {} /\ \A r \in wire : r.key # k
      BY <2>3 DEF Busy
    <3>2. t \in Pending(k)' /\ \A w \in Pending(k)' : w = t
      BY <1>1, <1>2, <3>1 DEF Pending, InKafka, Kafka!InCall
    <3>3. Active = "kafka" => db[k] = None
      BY <1>1 DEF Known, HomeInv, OneHome
    <3>4. OwnsKey(t, k)'
      BY <1>1, <1>2, <3>1, <3>2, <3>3 DEF OwnsKey, InKafka, Kafka!InCall, InRocks, Rocks!Idle
    <3> QED
      BY <1>1, <3>1, <3>4 DEF OwnsKey
  <2> QED
    BY <2>2, <2>3
<1>7. ASSUME k \notin shadowed', acked'[k] # Unknown PROVE Kept(k)'
  <2>1. Kept(k)
    BY <1>1, <1>7 DEF DurableInv, KeptInv
  <2>2. \A u \in Tasks : InEffect(u, k) => InEffect(u, k)'
    BY <1>1 DEF InEffect, InKafka, Kafka!InCall
  <2> QED
    BY <1>1, <2>1, <2>2, KeptElse DEF Active
<1>8. /\ t \in Callers /\ \A u \in Tasks : job[u].pc # "idle" => job[u].key \in Keys
      /\ alone \in SUBSET Tasks /\ alone' \in SUBSET Tasks
      /\ job'[t].pc = "idle" /\ acked'[k] = acked[k]
  BY <1>1, Places DEF Known, Slots, HistoryTypeOK
<1> QED
  BY <1>4, <1>5, <1>6, <1>7, <1>8, DurableOneKey DEF InRocks, Rocks!Idle

\* The call is made in Kafka, in RocksDB, or answered at once.
LEMMA DurableCalls ==
  ASSUME Known, Known', DurableInv, NEW t \in Tasks,
         \/ (CallKafka(t) \/ CallRocks(t)) /\ UNCHANGED hvars
         \/ KafkaAbsent(t) /\ ToldAbsent(t)
  PROVE  DurableInv'
<1>1. /\ request[t] # NoRequest
      /\ phase' = phase /\ entries' = entries /\ opened' = opened
      /\ log' = log /\ wire' = wire /\ cache' = cache /\ db' = db
      /\ kafka_available' = kafka_available
      /\ request' = [request EXCEPT ![t] = NoRequest]
      /\ acked' = acked /\ shadowed' = shadowed
      /\ \/ /\ alone' = alone /\ job' = job /\ request[t].backend = "kafka"
            /\ \E v : call' = [call EXCEPT ![t] =
                         [pc |-> "produce", record |-> [key |-> request[t].key, value |-> v]]]
         \/ /\ alone' = alone /\ call' = call
            /\ job' = [job EXCEPT ![t] =
                 [op |-> request[t].op, pc |-> "start", key |-> request[t].key, value |-> request[t].value,
                  awaited |-> TRUE]]
         \/ alone' = alone \ {t} /\ call' = call /\ job' = job
  BY DEF CallKafka, CallRocks, KafkaAbsent, Kafka!Put, Kafka!Delete, Kafka!Produce,
         Rocks!Spawn, Sent, ToldAbsent, NoRequest, hvars,
         kafka_vars, rocks_vars, avail_vars, boot_vars
<1>2. /\ phase = "serving"
      /\ call[Main].pc = "idle" /\ job[Main].pc = "idle" /\ OneThing(t)
  BY <1>1, Serving
<1>a. request[t].key \in Keys
  BY <1>1, <1>2, RequestKey
<1>b. PICK k \in Keys : k = request[t].key
  BY <1>a
<1>3. /\ k \in Keys /\ k = request[t].key /\ t \in Pending(k)
      /\ \A j \in Keys \ {k} : t \notin Pending(j)
      /\ call[t].pc = "idle" /\ job[t].pc = "idle" /\ job[t].key = None
  BY <1>1, <1>2, <1>b, RequestKey
<1>4. /\ request'[t] = NoRequest /\ request'[t].key = None /\ request'[t].backend = "none"
      /\ \A u \in Tasks \ {t} : request'[u] = request[u]
      /\ \A c \in Callers \ {t} : call'[c] = call[c] /\ job'[c] = job[c]
      /\ t \in Callers /\ t # Main
  BY <1>1, Places DEF Known, TypeOK, NoRequest, Kafka!TypeOK, Rocks!TypeOK
<1>5. \/ /\ alone' = alone /\ job'[t] = job[t] /\ request[t].backend = "kafka"
         /\ call'[t].pc = "produce" /\ call'[t].record.key = k
      \/ /\ alone' = alone /\ call'[t] = call[t]
         /\ job'[t].pc = "start" /\ job'[t].key = k /\ job'[t].awaited
         /\ job'[t].op = request[t].op /\ job'[t].value = request[t].value
      \/ alone' = alone \ {t} /\ call'[t] = call[t] /\ job'[t] = job[t]
  BY <1>1, <1>3, <1>4 DEF Known, TypeOK, Kafka!TypeOK, Rocks!TypeOK
<1>6. OneThing(t)' /\ DrainCopies'
  <2>1. \/ request[t].op = "put" /\ request[t].value \in Values
        \/ request[t].op = "delete" /\ request[t].value = None
    BY <1>1 DEF Known, Slots
  <2> QED
    BY <1>1, <1>2, <1>3, <1>4, <1>5, <2>1
       DEF OneThing, DrainCopies, InKafka, Kafka!InCall, InRocks, Rocks!Idle, Rocks!Ended
<1>7. LeavesOthers(t, k)
  <2>1. \A j \in Keys \ {k} : t \notin Pending(j)'
    BY <1>3, <1>4, <1>5, Places DEF Pending, InKafka, Kafka!InCall
  <2> QED
    BY <1>1, <1>3, <1>4, <2>1 DEF LeavesOthers, Active
<1>8. AloneKept(t, k)
  <2>1. ASSUME t \in alone', OwnsKey(t, k) PROVE OwnsKey(t, k)'
    <3>1. call'[t].pc = "produce" \/ job'[t].pc = "start"
      BY <1>5, <2>1
    <3>2. t \in Pending(k)' /\ \A u \in Tasks : u \in Pending(k)' => u \in Pending(k)
      BY <1>3, <1>4, <1>5, <3>1, Places DEF Pending, InKafka, Kafka!InCall
    <3>3. \A u \in Pending(k)' : u = t
      BY <2>1, <3>2 DEF OwnsKey, Pending
    <3>4. call'[t].pc # "appended" /\ job'[t].pc # "done"
      BY <1>3, <1>5
    <3>5. request'[t].backend = "kafka" \/ InKafka(t)' => request[t].backend = "kafka"
      BY <1>3, <1>4, <1>5 DEF InKafka, Kafka!InCall
    <3>6. InRocks(t)' => job'[t].awaited
      BY <1>3, <1>5 DEF InRocks, Rocks!Idle
    <3> QED
      BY <1>1, <2>1, <3>2, <3>3, <3>4, <3>5, <3>6 DEF OwnsKey
  <2>2. alone' \subseteq alone
    BY <1>5
  <2> QED
    BY <1>3, <2>1, <2>2, AloneOf DEF DurableInv
<1>9. ASSUME k \notin shadowed', acked'[k] # Unknown PROVE Kept(k)'
  <2>1. Kept(k)
    BY <1>1, <1>3, <1>9 DEF DurableInv, KeptInv
  <2>2. \A u \in Tasks : InEffect(u, k) => InEffect(u, k)'
    BY <1>3, <1>4, Places DEF InEffect, InKafka, Kafka!InCall
  <2> QED
    BY <1>1, <1>3, <1>4, <2>1, <2>2, KeptElse, Places DEF Active
<1>10. /\ \A u \in Tasks : job[u].pc # "idle" => job[u].key \in Keys
       /\ acked'[k] = acked[k]
  BY <1>1, Places DEF Known, Slots
<1>11. alone \in SUBSET Tasks /\ alone' \in SUBSET Tasks
  BY DEF Known, HistoryTypeOK
<1>12. InRocks(t)' => job'[t].awaited
  BY <1>3, <1>5 DEF InRocks, Rocks!Idle
<1> QED
  BY <1>3, <1>4, <1>6, <1>7, <1>8, <1>9, <1>10, <1>11, <1>12, DurableOneKey

\* A call of Kafka ends.  When it is acknowledged, and nobody else had the key,
\* its record is the last of the topic, and the cache has it.
LEMMA DurableKafkaEnds ==
  ASSUME Known, Known', DurableInv, NEW t \in Tasks,
         HKafkaAcked(t) \/ (KafkaUnacked(t) /\ Untold(t))
  PROVE  DurableInv'
<1>1. call[t].pc # "idle"
  BY DEF HKafkaAcked, KafkaAcked, KafkaUnacked, Kafka!Acked, Kafka!Unacked, Kafka!InCall
<1>2. /\ phase = "serving"
      /\ call[Main].pc = "idle" /\ job[Main].pc = "idle" /\ job[Main].key = None
      /\ OneThing(t)
  BY <1>1, Serving
<1>3. PICK k \in Keys : k = call[t].record.key
  BY <1>1, <1>2, CallKey
<1>4. /\ t \in Pending(k) /\ \A j \in Keys \ {k} : t \notin Pending(j)
      /\ request[t] = NoRequest /\ request[t].key = None
      /\ job[t].pc = "idle" /\ job[t].key = None
  BY <1>1, <1>2, <1>3, CallKey
<1>5. KeyOf(t) = k
  BY <1>1, <1>3, <1>4 DEF KeyOf, InKafka, Kafka!InCall
<1>6. /\ phase' = phase /\ entries' = entries /\ opened' = opened
      /\ log' = log /\ db' = db /\ job' = job /\ request' = request
      /\ kafka_available' = kafka_available
      /\ call' = [call EXCEPT ![t] = Kafka!NoCall]
      /\ alone' = alone \ {t}
      /\ \A r \in wire' : r \in wire \/ r.key = k
      /\ \/ /\ acked' = [acked EXCEPT ![k] = Unknown]
            /\ cache' = cache /\ shadowed' = shadowed
         \/ /\ call[t].pc = "appended" /\ wire' = wire
            /\ cache' = [cache EXCEPT ![k] = call[t].record.value]
            /\ acked' = [acked EXCEPT ![k] =
                           IF t \in alone THEN call[t].record.value ELSE Unknown]
            /\ shadowed' = shadowed \ {k}
  BY <1>3, <1>5
     DEF HKafkaAcked, KafkaAcked, KafkaUnacked, Untold, Told, Kafka!Acked, Kafka!Unacked,
         Kafka!Return, Kafka!ApplyRecord, rocks_vars, avail_vars, boot_vars
<1>7. /\ call'[t] = Kafka!NoCall /\ call'[t].pc = "idle" /\ call'[t].record.key = None
      /\ \A c \in Callers \ {t} : call'[c] = call[c]
      /\ t \in Callers /\ t # Main
      /\ \A j \in Keys \ {k} : acked'[j] = acked[j] /\ cache'[j] = cache[j]
  BY <1>6, Places DEF Known, HistoryTypeOK, TypeOK, Kafka!TypeOK, Kafka!NoCall
<1>8. OneThing(t)' /\ DrainCopies'
  BY <1>2, <1>4, <1>6, <1>7
     DEF OneThing, DrainCopies, InKafka, Kafka!InCall, InRocks, Rocks!Idle
<1>9. LeavesOthers(t, k)
  <2>1. \A j \in Keys \ {k} : t \notin Pending(j)'
    BY <1>4, <1>6, <1>7, Places DEF Pending, InKafka, Kafka!InCall
  <2> QED
    BY <1>4, <1>6, <1>7, <2>1 DEF LeavesOthers, Active
<1>10. AloneKept(t, k)
  BY <1>4, <1>6, AloneOf DEF DurableInv
<1>11. ASSUME t \in alone PROVE OwnsKey(t, k)
  BY <1>4, <1>11 DEF DurableInv, AloneInv, OwnsKey
<1>12. \/ acked[k] = Unknown => acked'[k] = Unknown
       \/ \A u \in Tasks \ {t} : u \notin Pending(k)
  BY <1>6, <1>11 DEF OwnsKey, Known, HistoryTypeOK
<1>13. ASSUME k \notin shadowed', acked'[k] # Unknown PROVE Kept(k)'
  <2>1. /\ call[t].pc = "appended" /\ wire' = wire /\ t \in alone
        /\ acked'[k] = call[t].record.value /\ cache'[k] = call[t].record.value
    BY <1>6, <1>13 DEF Known, HistoryTypeOK, TypeOK, Kafka!TypeOK
  <2>2. /\ \A r \in wire' : r.key # k
        /\ db'[k] = None /\ LastWrite(log', k) = acked'[k]
    BY <1>1, <1>6, <1>11, <2>1 DEF OwnsKey, InKafka, Kafka!InCall
  <2>3. Recoverable(k)' = acked'[k]
    BY <2>2 DEF Recoverable
  <2> QED
    BY <1>2, <1>6, <2>1, <2>2, <2>3 DEF Kept
<1>14. /\ \A u \in Tasks : job[u].pc # "idle" => job[u].key \in Keys
       /\ ~InRocks(t)'
  BY <1>4, <1>6, Places DEF Known, Slots, InRocks, Rocks!Idle
<1>15. alone \in SUBSET Tasks /\ alone' \in SUBSET Tasks
  BY DEF Known, HistoryTypeOK
<1> QED
  BY <1>7, <1>8, <1>9, <1>10, <1>12, <1>13, <1>14, <1>15, DurableOneKey

\* A closure of RocksDB is waited for to its end.  When it has written, and
\* nobody else had the key, what it has written is in the database.
LEMMA DurableRocksAnswers ==
  ASSUME Known, Known', DurableInv, NEW t \in Tasks, HRocksAnswers(t)
  PROVE  DurableInv'
<1>1. job[t].pc \in {"done", "absent", "failed"}
  BY DEF HRocksAnswers, RocksAnswers, Rocks!Join, Rocks!Ended
<1>2. /\ phase = "serving"
      /\ call[Main].pc = "idle" /\ job[Main].pc = "idle" /\ job[Main].key = None
      /\ OneThing(t)
  BY <1>1, Serving
<1>3. PICK k \in Keys : k = job[t].key
  BY <1>1, <1>2, JobKey
<1>4. /\ t \in Pending(k) /\ \A j \in Keys \ {k} : t \notin Pending(j)
      /\ request[t] = NoRequest /\ request[t].key = None /\ call[t].pc = "idle"
  BY <1>1, <1>2, <1>3, JobKey
<1>5. KeyOf(t) = k
  BY <1>1, <1>3, <1>4 DEF KeyOf, InKafka, Kafka!InCall
<1>6. /\ phase' = phase /\ entries' = entries /\ opened' = opened
      /\ log' = log /\ wire' = wire /\ cache' = cache /\ call' = call
      /\ db' = db /\ request' = request
      /\ kafka_available' = kafka_available
      /\ job' = [job EXCEPT ![t] = Rocks!NoJob]
      /\ alone' = alone \ {t}
      /\ \/ acked' = acked /\ shadowed' = shadowed /\ job[t].pc = "absent"
         \/ acked' = [acked EXCEPT ![k] = Unknown] /\ shadowed' = shadowed
         \/ /\ job[t].pc = "done"
            /\ acked' = [acked EXCEPT ![k] = IF t \in alone THEN job[t].value ELSE Unknown]
            /\ shadowed' = IF job[t].op = "delete" /\ LastWrite(log, k) # None
                           THEN shadowed \cup {k} ELSE shadowed \ {k}
  <2>1. CASE job[t].pc = "done"
    BY <1>3, <2>1 DEF HRocksAnswers, RocksAnswers, Rocks!Join, Told,
                      kafka_vars, avail_vars, boot_vars
  <2>2. CASE job[t].pc = "absent"
    BY <2>2 DEF HRocksAnswers, RocksAnswers, Rocks!Join, ToldAbsent,
                kafka_vars, avail_vars, boot_vars
  <2>3. CASE job[t].pc = "failed"
    BY <1>5, <2>3 DEF HRocksAnswers, RocksAnswers, Rocks!Join, Untold,
                      kafka_vars, avail_vars, boot_vars
  <2> QED
    BY <1>1, <2>1, <2>2, <2>3
<1>7. /\ job'[t].pc = "idle" /\ job'[t].key = None
      /\ \A c \in Callers \ {t} : job'[c] = job[c]
      /\ t \in Callers /\ t # Main
      /\ \A j \in Keys \ {k} : acked'[j] = acked[j] /\ (j \in shadowed => j \in shadowed')
  BY <1>6, Places DEF Known, HistoryTypeOK, TypeOK, Rocks!TypeOK, Rocks!NoJob
<1>8. OneThing(t)' /\ DrainCopies'
  BY <1>2, <1>4, <1>6, <1>7
     DEF OneThing, DrainCopies, InKafka, Kafka!InCall, InRocks, Rocks!Idle
<1>9. LeavesOthers(t, k)
  <2>1. \A j \in Keys \ {k} : t \notin Pending(j)'
    BY <1>4, <1>6, <1>7, Places DEF Pending, InKafka, Kafka!InCall
  <2> QED
    BY <1>4, <1>6, <1>7, <2>1 DEF LeavesOthers, Active
<1>10. AloneKept(t, k)
  BY <1>4, <1>6, AloneOf DEF DurableInv
<1>11. ASSUME t \in alone PROVE OwnsKey(t, k)
  BY <1>4, <1>11 DEF DurableInv, AloneInv, OwnsKey
<1>12. \/ acked[k] = Unknown => acked'[k] = Unknown
       \/ \A u \in Tasks \ {t} : u \notin Pending(k)
  BY <1>6, <1>11 DEF OwnsKey, Known, HistoryTypeOK
<1>13. Active' # "kafka"
  BY <1>1, <1>2, <1>6, <1>7 DEF Known, HomeInv, OneHome, Rocks!Idle, Active
<1>14. ASSUME k \notin shadowed', acked'[k] # Unknown PROVE Kept(k)'
  <2>1. CASE job[t].pc = "absent" /\ acked' = acked /\ shadowed' = shadowed
    <3>1. Kept(k)
      BY <1>14, <2>1 DEF DurableInv, KeptInv
    <3>2. ~InEffect(t, k)
      BY <1>4, <2>1 DEF InEffect, InKafka, Kafka!InCall
    <3>3. \A u \in Tasks : InEffect(u, k) => InEffect(u, k)'
      BY <1>6, <1>7, <3>2, Places DEF InEffect, InKafka, Kafka!InCall
    <3> QED
      BY <1>6, <1>7, <1>13, <2>1, <3>1, <3>3, KeptElse, Places
  <2>2. CASE job[t].pc = "done"
    <3>1. /\ t \in alone /\ acked'[k] = job[t].value
          /\ job[t].op = "delete" => LastWrite(log, k) = None
      BY <1>6, <1>14, <2>2 DEF Known, HistoryTypeOK
    <3>2. db[k] = job[t].value /\ \A r \in wire : r.key # k
      BY <1>11, <2>2, <3>1 DEF OwnsKey
    <3>3. \/ job[t].op = "put" /\ job[t].value \in Values
          \/ job[t].op = "delete" /\ job[t].value = None
      BY <1>2, <2>2 DEF OneThing, InRocks, Rocks!Idle
    <3>4. Recoverable(k)' = acked'[k]
      BY <1>6, <3>1, <3>2, <3>3, Places DEF Recoverable
    <3> QED
      BY <1>2, <1>6, <1>7, <1>13, <3>2, <3>4, Places DEF Kept
  <2> QED
    BY <1>1, <1>6, <1>14, <2>1, <2>2 DEF Known, HistoryTypeOK
<1>15. /\ \A u \in Tasks : job[u].pc # "idle" => job[u].key \in Keys
       /\ ~InRocks(t)'
  BY <1>7, Places DEF Known, Slots, InRocks, Rocks!Idle
<1>16. alone \in SUBSET Tasks /\ alone' \in SUBSET Tasks
  BY DEF Known, HistoryTypeOK
<1> QED
  BY <1>7, <1>8, <1>9, <1>10, <1>12, <1>14, <1>15, <1>16, DurableOneKey

\* The client has gone: nothing is promised of its key any more.
LEMMA DurableCancel ==
  ASSUME Known, Known', DurableInv, NEW t \in Tasks, HCancel(t)
  PROVE  DurableInv'
<1>1. request[t] # NoRequest \/ (job[t].pc # "idle" /\ job[t].awaited)
  BY Places DEF HCancel, Cancel, Rocks!Abandon, Known, Slots
<1>2. /\ phase = "serving"
      /\ call[Main].pc = "idle" /\ job[Main].pc = "idle" /\ job[Main].key = None
      /\ OneThing(t)
  BY <1>1, Serving
<1>3. \E k \in Keys :
        /\ k = KeyOf(t) /\ t \in Pending(k) /\ \A j \in Keys \ {k} : t \notin Pending(j)
        /\ call[t].pc = "idle"
        /\ request[t] # NoRequest => request[t].key = k /\ job[t].pc = "idle"
        /\ job[t].pc # "idle" => job[t].key = k /\ request[t] = NoRequest
  <2>1. CASE request[t] # NoRequest
    BY <1>2, <2>1, RequestKey DEF KeyOf
  <2>2. CASE job[t].pc # "idle"
    BY <1>2, <2>2, JobKey DEF KeyOf, InKafka, Kafka!InCall
  <2> QED
    BY <1>1, <2>1, <2>2
<1>4. PICK k \in Keys :
        /\ k = KeyOf(t) /\ t \in Pending(k) /\ \A j \in Keys \ {k} : t \notin Pending(j)
        /\ call[t].pc = "idle"
        /\ request[t] # NoRequest => request[t].key = k /\ job[t].pc = "idle"
        /\ job[t].pc # "idle" => job[t].key = k /\ request[t] = NoRequest
  BY <1>3
<1>5. /\ phase' = phase /\ entries' = entries /\ opened' = opened
      /\ log' = log /\ wire' = wire /\ cache' = cache /\ call' = call /\ db' = db
      /\ kafka_available' = kafka_available
      /\ \/ /\ request[t] # NoRequest
            /\ request' = [request EXCEPT ![t] = NoRequest] /\ job' = job
         \/ /\ request' = request /\ job[t].awaited
            /\ job' = [job EXCEPT ![t] = IF job[t].pc \in Rocks!Ended THEN Rocks!NoJob
                                         ELSE [job[t] EXCEPT !.awaited = FALSE]]
      /\ acked' = [acked EXCEPT ![k] = Unknown] /\ shadowed' = shadowed
      /\ alone' = alone \ {t}
  BY <1>4 DEF HCancel, Cancel, Sent, Untold, Rocks!Abandon,
              kafka_vars, rocks_vars, avail_vars, boot_vars
<1>6. /\ request'[t].key \in {None, k} /\ job'[t].key \in {None, k}
      /\ request'[t] = NoRequest \/ (request'[t] = request[t] /\ request[t] = NoRequest)
      /\ \A u \in Tasks \ {t} : request'[u] = request[u]
      /\ \A c \in Callers \ {t} : job'[c] = job[c]
      /\ t \in Callers /\ t # Main
      /\ \/ job'[t].pc = "idle"
         \/ /\ job'[t].pc = job[t].pc /\ job[t].pc \notin Rocks!Ended
            /\ job'[t].op = job[t].op /\ job'[t].value = job[t].value
            /\ job'[t].key = k /\ request[t] = NoRequest
  <2>1. job[t] \in Rocks!Job
    BY Places DEF Known, TypeOK, Rocks!TypeOK
  <2>2. CASE /\ request[t] # NoRequest
             /\ request' = [request EXCEPT ![t] = NoRequest] /\ job' = job
    <3>1. job[t].pc = "idle" /\ job[t].key = None
      BY <1>4, <2>2, Places DEF Known, Slots
    <3>2. request'[t] = NoRequest /\ \A u \in Tasks \ {t} : request'[u] = request[u]
      BY <2>2 DEF Known, TypeOK
    <3> QED
      BY <1>4, <2>2, <3>1, <3>2, Places DEF NoRequest
  <2>3. CASE /\ request' = request /\ job[t].awaited
             /\ job' = [job EXCEPT ![t] = IF job[t].pc \in Rocks!Ended THEN Rocks!NoJob
                                          ELSE [job[t] EXCEPT !.awaited = FALSE]]
    <3>1. job[t].pc # "idle" /\ request[t] = NoRequest /\ job[t].key = k
      BY <1>4, <2>3, Places DEF Known, Slots
    <3>2. /\ t \in Callers /\ t # Main /\ job \in [Callers -> Rocks!Job]
          /\ request'[t].key = None
      BY <2>3, <3>1, Places DEF Known, TypeOK, Rocks!TypeOK, NoRequest
    <3>3. CASE job[t].pc \in Rocks!Ended
      <4>1. /\ job'[t] = Rocks!NoJob /\ \A c \in Callers \ {t} : job'[c] = job[c]
        BY <2>3, <3>2, <3>3
      <4> QED
        BY <2>3, <3>1, <3>2, <4>1 DEF Rocks!NoJob
    <3>4. CASE job[t].pc \notin Rocks!Ended
      <4>1. /\ job'[t] = [job[t] EXCEPT !.awaited = FALSE]
            /\ \A c \in Callers \ {t} : job'[c] = job[c]
        BY <2>3, <3>2, <3>4
      <4>2. /\ job'[t].pc = job[t].pc /\ job'[t].op = job[t].op
            /\ job'[t].value = job[t].value /\ job'[t].key = job[t].key
        BY <2>1, <3>1, <4>1 DEF Rocks!Job, Rocks!NoJob
      <4> QED
        BY <2>3, <3>1, <3>2, <3>4, <4>1, <4>2
    <3> QED
      BY <3>3, <3>4
  <2> QED
    BY <1>5, <2>2, <2>3
<1>7. OneThing(t)' /\ DrainCopies'
  BY <1>2, <1>4, <1>5, <1>6
     DEF OneThing, DrainCopies, InKafka, Kafka!InCall, InRocks, Rocks!Idle
<1>8. \A j \in Keys \ {k} : acked'[j] = acked[j]
  BY <1>5
<1>9. LeavesOthers(t, k)
  <2>1. \A j \in Keys \ {k} : t \notin Pending(j)'
    BY <1>4, <1>5, <1>6, Places DEF Pending, InKafka, Kafka!InCall
  <2> QED
    BY <1>4, <1>5, <1>6, <1>8, <2>1 DEF LeavesOthers, Active
<1>10. AloneKept(t, k)
  BY <1>4, <1>5, AloneOf DEF DurableInv
<1>11. acked'[k] = Unknown
  BY <1>5 DEF Known, HistoryTypeOK
<1>12. /\ \A u \in Tasks : job[u].pc # "idle" => job[u].key \in Keys
       /\ InRocks(t)' => job'[t].key = k
  BY <1>6, Places DEF Known, Slots, InRocks, Rocks!Idle
<1>13. alone \in SUBSET Tasks /\ alone' \in SUBSET Tasks
  BY DEF Known, HistoryTypeOK
<1> QED
  BY <1>6, <1>7, <1>9, <1>10, <1>11, <1>12, <1>13, DurableOneKey

\* What one call of the database makes of the closure of c and of its key.
Ran(c) ==
  /\ \A d \in Callers \ {c} : job'[d] = job[d]
  /\ \A j \in Keys : j # job[c].key => db'[j] = db[j]
  /\ \/ ~job[c].awaited /\ job'[c].pc = "idle" /\ job'[c].key = None /\ ~job'[c].awaited
     \/ /\ job'[c].op = job[c].op /\ job'[c].key = job[c].key
        /\ job'[c].awaited = job[c].awaited
        /\ \/ /\ job'[c].pc = "probed" /\ job[c].op = "delete"
              /\ job'[c].value = job[c].value /\ db' = db
           \/ /\ job'[c].pc = "absent" /\ job[c].op = "delete" /\ job[c].awaited
              /\ job'[c].value = None /\ db' = db
           \/ job'[c].pc = "failed" /\ job[c].awaited /\ job'[c].value = None /\ db' = db
           \/ /\ job'[c].pc = "done" /\ job[c].awaited
              /\ job'[c].value = job[c].value /\ db'[job[c].key] = job[c].value

LEMMA ClosureRuns ==
  ASSUME TypeOK, NEW c \in Callers, Rocks!Run(c), job[c].op # "get",
         job[c].op = "delete" => job[c].value = None,
         job[c].pc = "probed" => job[c].op = "delete"
  PROVE  Ran(c)
<1> USE DEF Ran
<1>1. job \in [Callers -> Rocks!Job] /\ db \in [Keys -> Values \cup {None}]
  BY DEF TypeOK, Rocks!TypeOK
<1>2. job[c].pc \in {"start", "probed"}
  BY DEF Rocks!Run, Rocks!RunGet, Rocks!RunPut, Rocks!Probe, Rocks!RunDelete, Rocks!JobFails
<1>3. job[c] \in [op : {"get", "put", "delete"},
                  pc : {"start", "probed", "done", "absent", "failed"},
                  key : Keys, value : Values \cup {None}, awaited : BOOLEAN]
  BY <1>1, <1>2 DEF Rocks!Job, Rocks!NoJob
<1>4. ASSUME NEW pc, NEW v, Rocks!Finish(c, pc, v)
      PROVE  /\ \A d \in Callers \ {c} : job'[d] = job[d]
             /\ \/ /\ ~job[c].awaited /\ job'[c].pc = "idle" /\ job'[c].key = None
                   /\ ~job'[c].awaited
                \/ /\ job[c].awaited /\ job'[c].awaited = job[c].awaited
                   /\ job'[c].op = job[c].op /\ job'[c].key = job[c].key
                   /\ job'[c].pc = pc /\ job'[c].value = v
  <2>1. job' = [job EXCEPT ![c] = IF job[c].awaited THEN [job[c] EXCEPT !.pc = pc, !.value = v]
                                  ELSE Rocks!NoJob]
    BY <1>4 DEF Rocks!Finish
  <2>2. CASE job[c].awaited
    <3>1. job'[c] = [job[c] EXCEPT !.pc = pc, !.value = v]
      BY <1>1, <2>1, <2>2
    <3> QED
      BY <1>1, <1>3, <2>1, <2>2, <3>1
  <2>3. CASE ~job[c].awaited
    <3>1. job'[c] = Rocks!NoJob
      BY <1>1, <2>1, <2>3
    <3> QED
      BY <1>1, <2>1, <2>3, <3>1 DEF Rocks!NoJob
  <2> QED
    BY <2>2, <2>3
<1>5. CASE Rocks!RunPut(c)
  <2>1. Rocks!Finish(c, "done", job[c].value)
        /\ db' = [db EXCEPT ![job[c].key] = job[c].value]
    BY <1>5 DEF Rocks!RunPut
  <2> QED
    BY <1>1, <1>3, <1>4, <2>1
<1>6. CASE Rocks!RunDelete(c)
  <2>1. Rocks!Finish(c, "done", None) /\ db' = [db EXCEPT ![job[c].key] = None]
        /\ job[c].value = None
    BY <1>6 DEF Rocks!RunDelete
  <2> QED
    BY <1>1, <1>3, <1>4, <2>1
<1>7. CASE Rocks!JobFails(c)
  <2>1. Rocks!Finish(c, "failed", None) /\ db' = db
    BY <1>7 DEF Rocks!JobFails
  <2> QED
    BY <1>4, <2>1
<1>8. CASE Rocks!Probe(c)
  <2>1. db' = db /\ job[c].op = "delete"
    BY <1>8 DEF Rocks!Probe
  <2>2. CASE db[job[c].key] = None
    <3>1. Rocks!Finish(c, "absent", None)
      BY <1>8, <2>2 DEF Rocks!Probe
    <3> QED
      BY <1>4, <2>1, <3>1
  <2>3. CASE db[job[c].key] # None
    <3>1. job' = [job EXCEPT ![c] = [job[c] EXCEPT !.pc = "probed"]]
      BY <1>1, <1>8, <2>3 DEF Rocks!Probe
    <3>2. job'[c] = [job[c] EXCEPT !.pc = "probed"] /\ \A d \in Callers \ {c} : job'[d] = job[d]
      BY <1>1, <3>1
    <3> QED
      BY <1>3, <2>1, <3>2
  <2> QED
    BY <2>2, <2>3
<1> QED
  BY <1>5, <1>6, <1>7, <1>8 DEF Rocks!Run, Rocks!RunGet

\* The closure of a request runs.
LEMMA DurableClosure ==
  ASSUME Known, Known', DurableInv, NEW t \in Tasks, Closure(t), UNCHANGED hvars
  PROVE  DurableInv'
<1>1. job[t].pc \in {"start", "probed"}
  BY DEF Closure, Rocks!Run, Rocks!RunGet, Rocks!RunPut, Rocks!Probe, Rocks!RunDelete,
         Rocks!JobFails
<1>2. /\ phase = "serving"
      /\ call[Main].pc = "idle" /\ job[Main].pc = "idle" /\ job[Main].key = None
      /\ OneThing(t)
  BY <1>1, Serving
<1>3. PICK k \in Keys : k = job[t].key
  BY <1>1, <1>2, JobKey
<1>4. /\ t \in Pending(k) /\ \A j \in Keys \ {k} : t \notin Pending(j)
      /\ request[t] = NoRequest /\ request[t].key = None /\ request[t].backend = "none"
      /\ call[t].pc = "idle"
  BY <1>1, <1>2, <1>3, JobKey
<1>5. /\ phase' = phase /\ entries' = entries /\ opened' = opened
      /\ log' = log /\ wire' = wire /\ cache' = cache /\ call' = call /\ request' = request
      /\ kafka_available' = kafka_available
      /\ acked' = acked /\ alone' = alone /\ shadowed' = shadowed
      /\ Rocks!Run(t)
  BY DEF Closure, kafka_vars, avail_vars, boot_vars, hvars
<1>6. /\ job[t] \in [op : {"get", "put", "delete"},
                     pc : {"start", "probed", "done", "absent", "failed"},
                     key : Keys, value : Values \cup {None}, awaited : BOOLEAN]
      /\ job \in [Callers -> Rocks!Job] /\ t \in Callers /\ t # Main
      /\ \/ job[t].op = "put" /\ job[t].pc = "start" /\ job[t].value \in Values
         \/ job[t].op = "delete" /\ job[t].value = None
  <2>1. job \in [Callers -> Rocks!Job] /\ t \in Callers /\ t # Main
    BY Places DEF Known, TypeOK, Rocks!TypeOK
  <2>2. job[t] # Rocks!NoJob
    BY <1>1 DEF Rocks!NoJob
  <2>3. job[t] \in [op : {"get", "put", "delete"},
                    pc : {"start", "probed", "done", "absent", "failed"},
                    key : Keys, value : Values \cup {None}, awaited : BOOLEAN]
    BY <2>1, <2>2 DEF Rocks!Job
  <2>4. \/ job[t].op = "put" /\ job[t].pc = "start" /\ job[t].value \in Values
        \/ job[t].op = "delete" /\ job[t].value = None
    BY <1>1, <1>2 DEF OneThing, InRocks, Rocks!Idle
  <2> QED
    BY <2>1, <2>3, <2>4
<1>7. Ran(t)
  BY <1>1, <1>2, <1>5, <1>6, ClosureRuns DEF Known
<1>8. OneThing(t)' /\ DrainCopies'
  BY <1>2, <1>4, <1>5, <1>6, <1>7
     DEF OneThing, DrainCopies, InKafka, Kafka!InCall, InRocks, Rocks!Idle, Rocks!Ended, Ran
<1>9. LeavesOthers(t, k)
  <2>1. \A j \in Keys \ {k} : t \notin Pending(j)'
    BY <1>3, <1>4, <1>5, <1>7, Places DEF Pending, InKafka, Kafka!InCall, Ran
  <2> QED
    BY <1>3, <1>4, <1>5, <1>6, <1>7, <2>1 DEF LeavesOthers, Active, Ran
<1>10. AloneKept(t, k)
  <2>1. ASSUME OwnsKey(t, k) PROVE OwnsKey(t, k)'
    <3>1. job[t].awaited
      BY <1>1, <2>1 DEF OwnsKey, InRocks, Rocks!Idle
    <3>2. /\ job'[t].key = k /\ job'[t].awaited
          /\ job'[t].pc = "done" => db'[k] = job'[t].value
      BY <1>3, <1>7, <3>1 DEF Ran
    <3>3. t \in Pending(k)' /\ \A u \in Tasks : u \in Pending(k)' => u \in Pending(k)
      BY <1>4, <1>5, <1>6, <1>7, <3>2, Places DEF Pending, InKafka, Kafka!InCall, Ran
    <3>4. \A u \in Pending(k)' : u = t
      BY <2>1, <3>3 DEF OwnsKey, Pending
    <3> QED
      BY <1>4, <1>5, <2>1, <3>2, <3>3, <3>4 DEF OwnsKey, InKafka, Kafka!InCall
  <2> QED
    BY <1>4, <1>5, <2>1, AloneOf DEF DurableInv
<1>11. \A u \in Tasks \ {t} : InEffect(u, k) => InEffect(u, k)'
  BY <1>5, <1>7, Places DEF InEffect, InKafka, Kafka!InCall, Ran
<1>12. ASSUME k \notin shadowed', acked'[k] # Unknown PROVE Kept(k)'
  <2>1. Kept(k)
    BY <1>5, <1>12 DEF DurableInv, KeptInv
  <2>2. job[t].awaited
    BY <1>1, <1>3, <1>5, <1>12 DEF DurableInv, AbandonedInv, InRocks, Rocks!Idle
  <2>3. Recoverable(k)' = acked'[k] \/ \E u \in Tasks : InEffect(u, k)'
    <3>1. CASE job'[t].pc = "done"
      BY <1>3, <1>7, <2>2, <3>1 DEF InEffect, Ran
    <3>2. CASE job'[t].pc # "done"
      <4>1. db' = db
        BY <1>7, <2>2, <3>2 DEF Ran
      <4>2. ~InEffect(t, k)
        BY <1>1, <1>4 DEF InEffect, InKafka, Kafka!InCall
      <4> QED
        BY <1>5, <1>11, <2>1, <4>1, <4>2 DEF Kept, Recoverable
    <3> QED
      BY <3>1, <3>2
  <2> QED
    BY <1>2, <1>5, <1>6, <1>7, <2>1, <2>3, Places DEF Kept, Active, Ran
<1>13. /\ \A u \in Tasks : job[u].pc # "idle" => job[u].key \in Keys
       /\ InRocks(t)' /\ ~job'[t].awaited => acked'[job'[t].key] = Unknown
  BY <1>1, <1>5, <1>6, <1>7, Places
     DEF Known, Slots, InRocks, Rocks!Idle, DurableInv, AbandonedInv, Ran
<1>14. alone \in SUBSET Tasks /\ alone' \in SUBSET Tasks
  BY DEF Known, HistoryTypeOK
<1> QED
  BY <1>5, <1>6, <1>8, <1>9, <1>10, <1>12, <1>13, <1>14, DurableOneKey

\* The delete of the drain runs: the topic and the cache have the entry.
LEMMA DurableDrainCloses ==
  ASSUME Known, Known', DurableInv, Closure(Main), UNCHANGED hvars
  PROVE  DurableInv'
<1>1. job[Main].pc \in {"start", "probed"}
  BY DEF Closure, Rocks!Run, Rocks!RunGet, Rocks!RunPut, Rocks!Probe, Rocks!RunDelete,
         Rocks!JobFails
<1>2. phase = "draining"
  BY <1>1, NoMain
<1>3. PICK k \in Keys : k = job[Main].key
  BY <1>1, Places DEF Known, Slots
<1>4. /\ alone = {} /\ \A u \in Tasks : u \notin Pending(k) /\ job[u].pc = "idle"
      /\ \A u \in Tasks, j \in Keys : ~InEffect(u, j)
  BY <1>2, NoTasks
<1>5. /\ phase' = phase /\ entries' = entries /\ opened' = opened
      /\ log' = log /\ wire' = wire /\ cache' = cache /\ call' = call /\ request' = request
      /\ kafka_available' = kafka_available
      /\ acked' = acked /\ alone' = alone /\ shadowed' = shadowed
      /\ Rocks!Run(Main)
  BY DEF Closure, kafka_vars, avail_vars, boot_vars, hvars
<1>6. /\ job[Main].op = "delete" /\ call[Main].pc = "idle"
      /\ job[Main].awaited /\ job[Main].value = None
  BY <1>1, <1>2 DEF Known, HomeInv, DrainInv, DurableInv, DrainCopies, InRocks, Rocks!Idle,
                    InKafka, Kafka!InCall
<1>7. Ran(Main)
  BY <1>5, <1>6, ClosureRuns, Places DEF Known
<1>8. DrainCopies'
  BY <1>2, <1>3, <1>5, <1>6, <1>7
     DEF DurableInv, DrainCopies, InKafka, Kafka!InCall, InRocks, Rocks!Idle, Ran,
         Known, TypeOK, Entry
<1>9. LeavesOthers(Main, k)
  BY <1>3, <1>5, <1>6, <1>7, Places DEF LeavesOthers, Active, Ran, Pending
<1>10. AloneKept(Main, k)
  BY <1>4, <1>5 DEF AloneKept
<1>11. ASSUME k \notin shadowed', acked'[k] # Unknown PROVE Kept(k)'
  <2>1. Kept(k) /\ Recoverable(k) = acked[k]
    BY <1>4, <1>5, <1>11 DEF DurableInv, KeptInv, Kept
  <2>2. LastWrite(log, k) = acked[k] /\ cache[k] = acked[k]
    BY <1>3, <2>1 DEF Kept
  <2>3. db'[k] = db[k] \/ db'[k] = None
    BY <1>3, <1>6, <1>7 DEF Ran
  <2>4. Recoverable(k)' = acked[k]
    BY <1>5, <2>1, <2>2, <2>3 DEF Recoverable
  <2> QED
    BY <1>2, <1>5, <1>6, <2>1, <2>2, <2>4 DEF Kept
<1>12. \A u \in Tasks : job[u].pc # "idle" => job[u].key \in Keys
  BY <1>4
<1>13. alone \in SUBSET Tasks /\ alone' \in SUBSET Tasks
  BY DEF Known, HistoryTypeOK
<1> QED
  BY <1>4, <1>8, <1>9, <1>10, <1>11, <1>12, <1>13, DurableOneKey, Places
-----------------------------------------------------------------------------
(* The broker *)

\* The last writes after an append.
LEMMA Appended ==
  ASSUME Known, NEW r \in Record, log' = Append(log, r)
  PROVE  \A k \in Keys :
           LastWrite(log', k) = IF r.key = k THEN r.value ELSE LastWrite(log, k)
<1>1. log \in Seq(Record) /\ \A k \in Keys : HasLast(log, 1, Len(log), k)
  BY DEF Known, TypeOK, Kafka!TypeOK, LogInv, Kafka!Record, Record
<1> QED
  BY <1>1, LastWriteAppend

\* The record of a request is appended, or will be sent again.
LEMMA DurableRecord ==
  ASSUME Known, Known', DurableInv, NEW t \in Tasks,
         Kafka!BrokerAppend(t) \/ Kafka!Resend(t),
         UNCHANGED <<rocks_vars, avail_vars, boot_vars, request, hvars>>
  PROVE  DurableInv'
<1>1. call[t].pc \in {"produce", "appended"}
  BY DEF Kafka!BrokerAppend, Kafka!Resend
<1>2. /\ phase = "serving"
      /\ call[Main].pc = "idle" /\ job[Main].pc = "idle" /\ job[Main].key = None
      /\ OneThing(t)
  BY <1>1, Serving
<1>3. PICK k \in Keys : k = call[t].record.key
  BY <1>1, <1>2, CallKey
<1>4. /\ t \in Pending(k) /\ \A j \in Keys \ {k} : t \notin Pending(j)
      /\ request[t] = NoRequest /\ request[t].key = None
      /\ job[t].pc = "idle" /\ job[t].key = None
  BY <1>1, <1>2, <1>3, CallKey
<1>5. /\ phase' = phase /\ entries' = entries /\ opened' = opened
      /\ wire' = wire /\ cache' = cache /\ db' = db /\ job' = job /\ request' = request
      /\ kafka_available' = kafka_available
      /\ acked' = acked /\ alone' = alone /\ shadowed' = shadowed
      /\ \/ log' = log /\ call' = [call EXCEPT ![t].pc = "produce"]
         \/ log' = Append(log, call[t].record) /\ call' = [call EXCEPT ![t].pc = "appended"]
  BY DEF Kafka!BrokerAppend, Kafka!Resend, rocks_vars, avail_vars, boot_vars, hvars
<1>6. /\ call[t].record \in Record
      /\ \A c \in Callers \ {t} : call'[c] = call[c]
      /\ t \in Callers /\ t # Main
      /\ call'[t].record = call[t].record
      /\ \/ log' = log /\ call'[t].pc = "produce"
         \/ log' = Append(log, call[t].record) /\ call'[t].pc = "appended"
  <2>1. call[t] \in [pc : {"produce", "appended"}, record : Record] /\ t \in Callers /\ t # Main
    BY <1>1, Places
       DEF Known, TypeOK, Kafka!TypeOK, Kafka!Call, Kafka!NoCall, Kafka!Record, Record
  <2> QED
    BY <1>5, <2>1 DEF Known, TypeOK, Kafka!TypeOK
<1>7. \A j \in Keys : LastWrite(log', j) = LastWrite(log, j) \/
        (j = k /\ LastWrite(log', j) = call[t].record.value /\ call'[t].pc = "appended")
  BY <1>3, <1>6, Appended
<1>8. call'[t].pc = "appended" => LastWrite(log', k) = call[t].record.value
  BY <1>3, <1>6, Appended
<1>9. OneThing(t)' /\ DrainCopies'
  BY <1>2, <1>4, <1>5, <1>6
     DEF OneThing, DrainCopies, InKafka, Kafka!InCall, InRocks, Rocks!Idle
<1>10. LeavesOthers(t, k)
  <2>1. \A j \in Keys \ {k} : t \notin Pending(j)'
    BY <1>3, <1>4, <1>5, <1>6, Places DEF Pending, InKafka, Kafka!InCall
  <2> QED
    BY <1>4, <1>5, <1>6, <1>7, <2>1 DEF LeavesOthers, Active
<1>11. AloneKept(t, k)
  <2>1. ASSUME OwnsKey(t, k) PROVE OwnsKey(t, k)'
    <3>1. InKafka(t) /\ InKafka(t)' /\ \A u \in Tasks : u \in Pending(k)' <=> u \in Pending(k)
      BY <1>1, <1>5, <1>6, Places DEF Pending, InKafka, Kafka!InCall
    <3>2. t \in Pending(k)' /\ \A u \in Pending(k)' : u = t
      BY <2>1, <3>1 DEF OwnsKey, Pending
    <3> QED
      BY <1>4, <1>5, <1>6, <1>8, <2>1, <3>1, <3>2 DEF OwnsKey, InRocks, Rocks!Idle
  <2> QED
    BY <1>4, <1>5, <2>1, AloneOf DEF DurableInv
<1>12. ASSUME k \notin shadowed', acked'[k] # Unknown PROVE Kept(k)'
  <2>1. Kept(k)
    BY <1>5, <1>12 DEF DurableInv, KeptInv
  <2>2. InEffect(t, k)'
    BY <1>3, <1>6 DEF InEffect, InKafka, Kafka!InCall
  <2> QED
    BY <1>2, <1>5, <1>6, <2>1, <2>2, Places DEF Kept, Active
<1>13. /\ \A u \in Tasks : job[u].pc # "idle" => job[u].key \in Keys
       /\ ~InRocks(t)'
  BY <1>4, <1>5, Places DEF Known, Slots, InRocks, Rocks!Idle
<1>14. alone \in SUBSET Tasks /\ alone' \in SUBSET Tasks
  BY DEF Known, HistoryTypeOK
<1> QED
  BY <1>5, <1>6, <1>9, <1>10, <1>11, <1>12, <1>13, <1>14, DurableOneKey

\* The record of the drain is appended, or will be sent again: it says what
\* RocksDB still says.
LEMMA DurableDrainRecord ==
  ASSUME Known, Known', DurableInv,
         Kafka!BrokerAppend(Main) \/ Kafka!Resend(Main),
         UNCHANGED <<rocks_vars, avail_vars, boot_vars, request, hvars>>
  PROVE  DurableInv'
<1>1. call[Main].pc \in {"produce", "appended"}
  BY DEF Kafka!BrokerAppend, Kafka!Resend
<1>2. phase = "draining"
  BY <1>1, NoMain
<1>3. PICK k \in Keys : k = call[Main].record.key
  BY <1>1, Places DEF Known, Slots
<1>4. /\ alone = {} /\ \A u \in Tasks : u \notin Pending(k) /\ job[u].pc = "idle"
      /\ \A u \in Tasks, j \in Keys : ~InEffect(u, j)
  BY <1>2, NoTasks
<1>5. /\ phase' = phase /\ entries' = entries /\ opened' = opened
      /\ wire' = wire /\ cache' = cache /\ db' = db /\ job' = job /\ request' = request
      /\ kafka_available' = kafka_available
      /\ acked' = acked /\ alone' = alone /\ shadowed' = shadowed
      /\ \/ log' = log /\ call' = [call EXCEPT ![Main].pc = "produce"]
         \/ /\ log' = Append(log, call[Main].record)
            /\ call' = [call EXCEPT ![Main].pc = "appended"]
  BY DEF Kafka!BrokerAppend, Kafka!Resend, rocks_vars, avail_vars, boot_vars, hvars
<1>6. /\ call[Main].record \in Record
      /\ \A c \in Callers \ {Main} : call'[c] = call[c]
      /\ call'[Main].record = call[Main].record
      /\ \/ log' = log /\ call'[Main].pc = "produce"
         \/ log' = Append(log, call[Main].record) /\ call'[Main].pc = "appended"
  <2>1. call[Main] \in [pc : {"produce", "appended"}, record : Record] /\ Main \in Callers
    BY <1>1, Places
       DEF Known, TypeOK, Kafka!TypeOK, Kafka!Call, Kafka!NoCall, Kafka!Record, Record
  <2> QED
    BY <1>5, <2>1 DEF Known, TypeOK, Kafka!TypeOK
<1>7. /\ call[Main].record.value # None /\ db[k] = call[Main].record.value
      /\ job[Main].pc = "idle" /\ job[Main].key = None
  <2>1. job[Main].pc = "idle"
    BY <1>1, <1>2 DEF Known, HomeInv, DrainInv, InRocks, Rocks!Idle, InKafka, Kafka!InCall
  <2> QED
    BY <1>1, <1>2, <1>3, <2>1, Places
       DEF DurableInv, DrainCopies, InKafka, Kafka!InCall, Known, Slots
<1>8. \A j \in Keys : LastWrite(log', j) = LastWrite(log, j) \/ j = k
  BY <1>3, <1>6, Appended
<1>9. call'[Main].pc = "appended" => LastWrite(log', k) = call[Main].record.value
  BY <1>3, <1>6, Appended
<1>10. DrainCopies'
  BY <1>1, <1>2, <1>5, <1>6, <1>7
     DEF DurableInv, DrainCopies, InKafka, Kafka!InCall, InRocks, Rocks!Idle
<1>11. LeavesOthers(Main, k)
  BY <1>3, <1>5, <1>6, <1>8, Places DEF LeavesOthers, Active, Pending
<1>12. AloneKept(Main, k)
  BY <1>4, <1>5 DEF AloneKept
<1>13. ASSUME k \notin shadowed', acked'[k] # Unknown PROVE Kept(k)'
  <2>1. Kept(k) /\ Recoverable(k) = acked[k]
    BY <1>4, <1>5, <1>13 DEF DurableInv, KeptInv, Kept
  <2>2. db[k] = acked[k] /\ Recoverable(k)' = acked[k]
    BY <1>5, <1>7, <2>1 DEF Recoverable
  <2> QED
    BY <1>2, <1>3, <1>5, <1>6, <1>7, <1>9, <2>1, <2>2, Places DEF Kept
<1>14. \A u \in Tasks : job[u].pc # "idle" => job[u].key \in Keys
  BY <1>4
<1>15. alone \in SUBSET Tasks /\ alone' \in SUBSET Tasks
  BY DEF Known, HistoryTypeOK
<1> QED
  BY <1>4, <1>10, <1>11, <1>12, <1>13, <1>14, <1>15, DurableOneKey, Places

\* A record that nobody waits for is appended: its key has no promise, or the
\* one that the record fulfils.
LEMMA DurableLate ==
  ASSUME Known, Known', DurableInv, NEW r \in Record, Kafka!LateAppend(r),
         UNCHANGED <<rocks_vars, avail_vars, boot_vars, request, hvars>>
  PROVE  DurableInv'
<1> DEFINE k == r.key
<1>1. /\ phase' = phase /\ entries' = entries /\ opened' = opened
      /\ r \in wire /\ wire' \subseteq wire /\ log' = Append(log, r)
      /\ cache' = cache /\ call' = call /\ db' = db /\ job' = job /\ request' = request
      /\ kafka_available' = kafka_available
      /\ acked' = acked /\ alone' = alone /\ shadowed' = shadowed
  BY DEF Kafka!LateAppend, rocks_vars, avail_vars, boot_vars, hvars
<1>2. k \in Keys
  BY DEF Record
<1>3. \A j \in Keys : LastWrite(log', j) = IF j = k THEN r.value ELSE LastWrite(log, j)
  BY <1>1, Appended
<1>4. DrainCopies'
  BY <1>1 DEF DurableInv, DrainCopies, InKafka, Kafka!InCall, InRocks, Rocks!Idle
<1>5. LeavesOthers(Main, k)
  BY <1>1, <1>3, Places DEF LeavesOthers, Active, Pending
<1>6. AloneKept(Main, k)
  <2>1. \A u \in alone : u # Main /\ ~OwnsKey(u, k)
    BY <1>1, Places DEF OwnsKey, Known, HistoryTypeOK
  <2> QED
    BY <1>1, <2>1 DEF AloneKept
<1>7. ASSUME k \notin shadowed', acked'[k] # Unknown PROVE Kept(k)'
  <2>1. Kept(k) /\ r.value = acked[k]
    BY <1>1, <1>2, <1>7 DEF DurableInv, KeptInv, Kept
  <2>2. LastWrite(log', k) = acked[k]
    BY <1>2, <1>3, <2>1
  <2>3. Recoverable(k)' = acked'[k] \/ Recoverable(k)' = Recoverable(k)
    BY <1>1, <2>2 DEF Recoverable
  <2>4. \A u \in Tasks : InEffect(u, k) => InEffect(u, k)'
    BY <1>1 DEF InEffect, InKafka, Kafka!InCall
  <2> QED
    BY <1>1, <2>1, <2>2, <2>3, <2>4 DEF Kept, Active
<1>8. /\ \A u \in Tasks : job[u].pc # "idle" => job[u].key \in Keys
      /\ alone \in SUBSET Tasks /\ alone' \in SUBSET Tasks
  BY Places DEF Known, Slots, HistoryTypeOK
<1> QED
  BY <1>1, <1>2, <1>4, <1>5, <1>6, <1>7, <1>8, DurableOneKey, Places
-----------------------------------------------------------------------------
(* The theorems *)

\* The types of the history variables.
HistoryTypes ==
  /\ acked \in [Keys -> Values \cup {None, Unknown}]
  /\ alone \in SUBSET Tasks
  /\ shadowed \in SUBSET Keys

LEMMA HistoryTypesStep ==
  HistoryTypes /\ Slots /\ [HNext]_<<vars, hvars>> => HistoryTypes'
<1> SUFFICES ASSUME HistoryTypes, Slots, HNext \/ UNCHANGED <<vars, hvars>>
             PROVE  HistoryTypes'
  OBVIOUS
<1> USE DEF HistoryTypes
<1>1. CASE UNCHANGED hvars
  BY <1>1 DEF hvars
<1>2. CASE HDown
  BY <1>2 DEF HDown
<1>3. ASSUME NEW t \in Tasks, NEW k \in Keys, HDispatch(t, k)
      PROVE  HistoryTypes'
  BY <1>3 DEF HDispatch
<1>4. ASSUME NEW t \in Tasks, ToldAbsent(t) \/ Untold(t)
      PROVE  HistoryTypes'
  BY <1>4 DEF ToldAbsent, Untold
<1>5. ASSUME NEW t \in Tasks, NEW k \in Keys, NEW v \in Values \cup {None}, Told(t, k, v)
      PROVE  acked' \in [Keys -> Values \cup {None, Unknown}] /\ alone' \in SUBSET Tasks
  BY <1>5 DEF Told
<1>6. ASSUME NEW t \in Tasks, HKafkaAcked(t)
      PROVE  HistoryTypes'
  <2>1. call[t].record.key \in Keys /\ call[t].record.value \in Values \cup {None}
    BY <1>6, Places DEF HKafkaAcked, KafkaAcked, Kafka!Acked, Slots
  <2> QED
    BY <1>5, <1>6, <2>1 DEF HKafkaAcked
<1>7. ASSUME NEW t \in Tasks, HRocksAnswers(t)
      PROVE  HistoryTypes'
  <2>1. job[t].key \in Keys /\ job[t].value \in Values \cup {None}
        /\ job[t].pc \in {"done", "absent", "failed"}
    BY <1>7, Places DEF HRocksAnswers, RocksAnswers, Rocks!Join, Rocks!Ended, Slots
  <2>2. CASE job[t].pc = "done"
    <3>1. Told(t, job[t].key, job[t].value) /\ shadowed' \in SUBSET Keys
      BY <1>7, <2>1, <2>2 DEF HRocksAnswers
    <3> QED
      BY <1>5, <2>1, <3>1
  <2>3. CASE job[t].pc \in {"absent", "failed"}
    BY <1>4, <1>7, <2>3 DEF HRocksAnswers
  <2> QED
    BY <2>1, <2>2, <2>3
<1> QED
  BY <1>1, <1>2, <1>3, <1>4, <1>6, <1>7 DEF HNext, HCancel

\* The types, those of the history included.
THEOREM StorageHistoryTypeOK == HSpec => []HistoryTypeOK
<1>1. HInit => HistoryTypes
  BY DEF HInit, HistoryTypes, EmptyCache
<1>2. HSpec => []TypeOK
  BY HistoryObserves, StorageTypeOK, PTL
<1>3. HistoryTypes /\ TypeOK => HistoryTypeOK
  BY DEF HistoryTypes, HistoryTypeOK
<1> QED
  BY <1>1, <1>2, <1>3, HistoryTypesStep, SlotTypes, PTL DEF HSpec

LEMMA AlwaysKnown == HSpec => []Known
<1>1. Spec => [](HomeInv /\ TypeOK)
  BY HomeInit, HomeStep, StorageTypeOK, PTL DEF Spec
<1>2. TypeOK /\ Slots /\ HomeInv /\ LogInv /\ HistoryTypeOK => Known
  BY DEF Known
<1> QED
  BY <1>1, <1>2, HistoryObserves, LogKnown, SlotTypes, StorageHistoryTypeOK, PTL

LEMMA DurableInit == HInit => DurableInv
<1> SUFFICES ASSUME HInit PROVE DurableInv
  OBVIOUS
<1>1. /\ log = <<>> /\ wire = {} /\ cache = [k \in Keys |-> None]
      /\ db = [k \in Keys |-> None] /\ phase = "down"
      /\ acked = [k \in Keys |-> None] /\ alone = {} /\ shadowed = {}
      /\ \A c \in Callers : call[c].pc = "idle" /\ job[c].pc = "idle" /\ job[c].key = None
      /\ \A t \in Tasks : request[t] = NoRequest
  BY DEF HInit, Init, Kafka!Init, Rocks!Init, Kafka!EmptyCache, EmptyCache, Kafka!NoCall, Rocks!NoJob
<1>2. \A k \in Keys : LastWrite(log, k) = None
  <2>1. Len(log) = 0
    BY <1>1
  <2> QED
    BY <2>1 DEF LastWrite, LastIn, OffsetsOf
<1>3. OneAtATime /\ DrainCopies /\ AloneInv /\ AbandonedInv
  BY <1>1, Places DEF OneAtATime, OneThing, DrainCopies, AloneInv, AbandonedInv,
                      InKafka, Kafka!InCall, InRocks, Rocks!Idle
<1>4. KeptInv
  BY <1>1, <1>2, Places DEF KeptInv, Kept, Recoverable
<1> QED
  BY <1>3, <1>4 DEF DurableInv

LEMMA DurableStep ==
  Known /\ Known' /\ DurableInv /\ [HNext]_<<vars, hvars>> => DurableInv'
<1> SUFFICES ASSUME Known, Known', DurableInv, HNext \/ UNCHANGED <<vars, hvars>>
             PROVE  DurableInv'
  OBVIOUS
<1>1. CASE /\ BootDisabled \/ BootEnabled \/ ConnectFails \/ Tick \/ Probe \/ UNCHANGED vars
           /\ UNCHANGED hvars
  <2>1. /\ log' = log /\ wire' = wire /\ cache' = cache /\ call' = call
        /\ db' = db /\ job' = job /\ request' = request /\ entries' = entries
        /\ opened' = opened
        /\ acked' = acked /\ alone' = alone /\ shadowed' = shadowed
    BY <1>1 DEF BootDisabled, BootEnabled, ConnectFails, Tick, Probe,
                vars, kafka_vars, rocks_vars, boot_vars, hvars
  <2>2. /\ phase' # "serving" => phase # "serving"
        /\ phase' = "draining" => phase = "draining"
        /\ phase' = "serving" /\ kafka_available' => phase = "serving" /\ kafka_available
    <3>1. CASE BootDisabled \/ BootEnabled \/ ConnectFails
      BY <3>1 DEF BootDisabled, BootEnabled, ConnectFails, Serve, Avail!Disabled, avail_vars
    <3>2. CASE Tick \/ UNCHANGED vars
      BY <3>2 DEF Tick, Avail!Tick, vars, boot_vars, avail_vars
    <3>3. CASE Probe
      <4>1. phase' = phase
        BY <3>3 DEF Probe, boot_vars
      <4>2. kafka_available' => kafka_available
        BY <3>3, Zenon DEF Probe, Avail!Probed
      <4> QED
        BY <4>1, <4>2
    <3> QED
      BY <1>1, <3>1, <3>2, <3>3
  <2>3. phase' = "serving" /\ Active' = "kafka" => phase = "serving" /\ Active = "kafka"
    BY <2>1, <2>2 DEF Active
  <2> QED
    BY <2>1, <2>2, <2>3, DurableQuiet
<1>2. CASE (Connect \/ DrainPut \/ DrainDelete \/ DrainNext \/ DrainDone) /\ UNCHANGED hvars
  BY <1>2, DurableConnect, DurableDrainPut, DurableDrainDelete, DurableDrainNext, DurableDrainDone
<1>3. CASE HDown
  BY <1>3, DurableDown
<1>4. ASSUME NEW t \in Tasks, NEW k \in Keys, HDispatch(t, k) PROVE DurableInv'
  BY <1>4, DurableDispatch
<1>5. ASSUME NEW t \in Tasks,
             \/ (CallKafka(t) \/ CallRocks(t)) /\ UNCHANGED hvars
             \/ KafkaAbsent(t) /\ ToldAbsent(t)
      PROVE  DurableInv'
  BY <1>5, DurableCalls
<1>6. ASSUME NEW t \in Tasks,
             HKafkaAcked(t) \/ HRocksAnswers(t) \/ (KafkaUnacked(t) /\ Untold(t)) \/ HCancel(t)
      PROVE  DurableInv'
  BY <1>6, DurableKafkaEnds, DurableRocksAnswers, DurableCancel
<1>7. ASSUME NEW c \in Callers, Closure(c), UNCHANGED hvars PROVE DurableInv'
  BY <1>7, DurableClosure, DurableDrainCloses, Places
<1>8. CASE BrokerStep /\ UNCHANGED hvars
  <2>1. UNCHANGED <<rocks_vars, avail_vars, boot_vars, request, hvars>>
    BY <1>8 DEF BrokerStep
  <2>2. ASSUME NEW c \in Callers, Kafka!BrokerAppend(c) \/ Kafka!Resend(c) PROVE DurableInv'
    BY <2>1, <2>2, DurableRecord, DurableDrainRecord, Places
  <2>3. ASSUME NEW r \in Record, Kafka!LateAppend(r) PROVE DurableInv'
    BY <2>1, <2>3, DurableLate
  <2>4. CASE UNCHANGED kafka_vars
    <3>1. /\ log' = log /\ wire' = wire /\ cache' = cache /\ call' = call /\ opened' = opened
          /\ db' = db /\ job' = job /\ request' = request /\ entries' = entries
          /\ phase' = phase /\ kafka_available' = kafka_available
          /\ acked' = acked /\ alone' = alone /\ shadowed' = shadowed
      BY <2>1, <2>4 DEF kafka_vars, rocks_vars, avail_vars, boot_vars, hvars
    <3>2. Active' = Active
      BY <3>1 DEF Active
    <3> QED
      BY <3>1, <3>2, DurableQuiet
  <2> QED
    BY <1>8, <2>2, <2>3, <2>4 DEF BrokerStep
<1>9. CASE HNext
  BY <1>1, <1>2, <1>3, <1>4, <1>5, <1>6, <1>7, <1>8, <1>9 DEF HNext
<1> QED
  BY <1>1, <1>9 DEF vars, hvars

LEMMA DurableInvariant == HSpec => [](Known /\ DurableInv)
  BY DurableInit, DurableStep, AlwaysKnown, PTL DEF HSpec

\* No acknowledged write is lost, for any number of clients, keys and entries:
\* through crashes, interrupted drains, resent and late records and dropped
\* requests, what was last acknowledged of a key that nobody is writing is what
\* RocksDB and the topic will be merged to.
THEOREM StorageAckedSurvives == HSpec => []AckedSurvives
<1>1. Known /\ DurableInv => AckedSurvives
  <2> SUFFICES ASSUME DurableInv, NEW k \in Keys \ shadowed, Promised(k)
               PROVE  Recoverable(k) = acked[k]
    BY DEF AckedSurvives
  <2>1. Kept(k)
    BY DEF DurableInv, KeptInv, Promised
  <2>2. \A t \in Tasks : ~InEffect(t, k)
    BY DEF Promised, Pending, InEffect
  <2> QED
    BY <2>1, <2>2 DEF Kept
<1> QED
  BY <1>1, DurableInvariant, PTL

\* No reader is given an older entry, or one that was deleted, where a promise
\* stands; RocksDB, after a failover, may only not know the key.
THEOREM StorageNeverStale == HSpec => []NeverStale
<1>1. Known /\ DurableInv => NeverStale
  <2> SUFFICES ASSUME DurableInv, phase = "serving", NEW k \in Keys \ shadowed, Promised(k)
               PROVE  \/ Served(k) = acked[k]
                      \/ Active = "rocksdb" /\ Served(k) = None
    BY DEF NeverStale
  <2>1. Kept(k)
    BY DEF DurableInv, KeptInv, Promised
  <2>2. \A t \in Tasks : ~InEffect(t, k)
    BY DEF Promised, Pending, InEffect
  <2>3. Recoverable(k) = acked[k]
    BY <2>1, <2>2 DEF Kept
  <2>4. CASE Active = "kafka"
    BY <2>1, <2>4 DEF Kept, Served
  <2>5. CASE Active # "kafka"
    BY <2>3, <2>5 DEF Served, Recoverable, Active
  <2> QED
    BY <2>4, <2>5
<1> QED
  BY <1>1, DurableInvariant, PTL
=============================================================================
