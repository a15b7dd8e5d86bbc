# TLA+ models of grpcserver

This directory specifies the server of this repository in TLA+: a gRPC
key-value service that stores its entries in Kafka, with RocksDB as a fallback
while Kafka is out of reach. The models are checked with TLC on small instances;
theorems about them are proved with TLAPS for all values of their constants.

Paths below are relative to the repository (`src/server.rs` is the file
`src/src/server.rs` of `PROJECT.json`).

## The system

| Part | State | Operations | Talks to |
|---|---|---|---|
| `KvServiceImpl` (`src/server.rs`) | none of its own | `put` (a read, then a write), `get`, `delete`, `list`, `health_check`, `get_stats` | the trait `Storage` |
| `StorageManager` (`src/storage/mod.rs`) | both backends, the availability manager, counters | `new` (open RocksDB, connect to Kafka with retries, drain, watch), then one dispatch per call | `KafkaBackend`, `RocksDbBackend`, `AvailabilityManager` |
| `KafkaBackend` (`src/storage/kafka.rs`) | a client, an in-memory map under a `RwLock` | `open` (load the topic), `get`, `put`, `delete`, `scan_prefix`, `check_connection` | the broker, through rskafka |
| `RocksDbBackend` (`src/storage/rocksdb.rs`) | the database on disk | `get`, `put`, `delete`, `scan_prefix`, `iter_all`, each a closure given to `spawn_blocking` | RocksDB |
| `AvailabilityManager` (`src/storage/availability.rs`) | one `AtomicBool`, one task | a probe per interval, which may turn the flag off | `KafkaBackend::check_connection` |
| `Stats` (`src/stats.rs`) | four counters | `fetch_add` at each operation, `snapshot` | `StorageManager` |
| the process (`src/main.rs`) | how far `main` has come | load the configuration, open the storage, serve; on a signal accept for five more seconds, drain, exit | all of the above |
| the dashboard (`dashboard/app/page.tsx`) | what its cards show; the list's namespace, entries and token | list, load more, delete, edit the namespace, each awaiting an answer | the service |
| configuration, errors, benchmark | settings; a table; a load generator | parse, map an error to a status, drive requests | |

Every request is a tokio task. Tasks interleave at each `await`; no lock is held
across one. What makes the code hard to test:

* **Writes in two halves.** The Kafka backend appends a record, awaits, and then
  changes the map. `delete` looks at the map first. A `put` of the service reads
  the old entry first. Others run in every gap.
* **Outcomes nobody is told.** A produce call may fail though its record was or
  will be appended; a client may go away; a blocking closure outlives its request.
* **Two stores.** After a failover the same key may exist in both. The next start
  merges them by draining RocksDB into Kafka, and may be interrupted anywhere.
* **A chosen backend may be out of date when it is called.**
* **Pagination without a snapshot.** Every page is a new scan.
* **Late answers in the client.** The dashboard applies an answer to what it shows
  when the answer comes, not to what it showed when it asked.
* **Stopping.** A signal may come at any time; requests, and closures whose request
  is gone, are still running.

`PROJECT.json` lists these and the others one by one, each with its line and the
properties that would notice it going wrong.

## Correctness, part by part

* `KafkaBackend`: nothing is served that is not in the topic; the map of a key
  that is written one call at a time is what a restart would rebuild; a load
  returns, with everything up to the watermark unless the broker kept some of it back.
* `RocksDbBackend`: the contract of the trait, though a delete is two calls.
* `AvailabilityManager`: a lasting outage is noticed, but for a probe that never
  returns; the latch does not reopen.
* `StorageManager`: acknowledged writes survive failovers, crashes and drains; no
  reader is given an older value; while Kafka is active RocksDB is empty; a
  start ends, or waits for one call of the client library.
* `KvServiceImpl`: times of an entry stay in order, counters agree with requests,
  what `get_stats` answers was true at some time during the call, a walk over pages
  lists each key once, in order, inside its namespace.
* The process: requests exist only while it serves, the database keeps its contract
  through every start and end, and a process that was signalled ends.
* The dashboard: its list is never a mixture of two; it is complete unless its
  namespace was edited meanwhile; what was deleted there does not come back.

## Modules

```
 Topic ------------+--> TopicReplay                     load_topic_into_cache
   |               |
   |               +--> KafkaBackend ----> KafkaCoherence
   |                        |    implements Storage
   |                        v
   +-----------------> StorageManager ---> StorageDurability
 RocksDbBackend --------^ ^      implements Failover
    implements Storage    |
 AvailabilityManager -----+

 RocksDbBackend --> ServerProcess                       main, shutdown_signal
    implements Storage through the life of the process

 KeyCodec --> ListHandler --+--> KvList                 list, scan_prefix, a walk
                            +--> ListView               the dashboard's list
 KvService                                              put, get, delete, get_stats
```

| Module | Models | State and actions |
|---|---|---|
| `Topic` | the records of the topic and what replaying them means | operators: `ApplyRecord` is the body of the replay loop, `LastWrite` and `Replay` the reference definition |
| `KafkaBackend` | `kafka.rs`: `open`, `get`, `put`, `delete`, `produce` | `cache` is the map; `log`, `wire` and `call` are the partition, records nobody waits for, and the produce calls in flight. `Put` and `Delete` run up to the await; `Acked` and `Unacked` are what follows it; `BrokerAppend`, `Resend` and `LateAppend` are the broker and the client library; `Crash` is the end of the process |
| `KafkaCoherence` | (history) | which keys have had overlapping calls, or calls with an unknown outcome, since `Open` |
| `TopicReplay` | `load_topic_into_cache` | its locals; one action per broker request, per record and per way out of the loop; retention, late records, failing requests |
| `RocksDbBackend` | `rocksdb.rs`: `get`, `put`, `delete` | `db` and, for each caller, its closure; `Probe` and `RunDelete` are the two halves of `delete`, `Abandon` a request that is dropped |
| `AvailabilityManager` | `availability.rs` | the flag and where the watcher's loop is |
| `StorageManager` | `mod.rs`, composed of instances of the three above | `phase`, `attempt` and `entries` follow `new`; `request` is a task between `active_backend` and the call it chose |
| `StorageDurability` | (history) | what clients were told of each key |
| `KeyCodec` | key encoding and order | operators on sequences of bytes |
| `ListHandler` | `list` and both `scan_prefix` | operators over the keys in the store; `Answer` is the handler |
| `KvList` | a client that walks a namespace | token, pages so far; keys come and go between two pages |
| `ListView` | `page.tsx`: `runList`, `onListNsChange`, `runDelete` | what the list card shows, the list and the delete that are awaited; a request, its service, the arrival of its answer and the end of the refresh after it are separate actions |
| `KvService` | `put`, `get`, `delete`, `get_stats` with their counters | the locals of each handler, the entries of both backends, the clock, the counters and a snapshot half taken; `FailOver` flips the flag between any two steps |
| `ServerProcess` | `main.rs` around `RocksDbBackend` | `stage` is how far `main` has come; `Accept`, `Closure`, `Answer` and `ClientLeaves` are the backend's steps as the process allows them |
| `Storage` | abstract: the trait, for writes | a map changes at most once per call, as asked for |
| `Failover` | abstract: the choice of a backend | a mode that goes from Kafka to RocksDB and not back |

`MCKafka`, `MCReplay`, `MCStorage`, `MCList`, `MCView` and `MCService` give
TLC its symmetry sets and constants. `TopicTheorems`, `KafkaTheorems` (with
`KafkaCoherence`), `RocksTheorems` (with `ServerProcess`), `StorageTheorems` (with
`StorageDurability`), `ReplayTheorems`, `ServiceTheorems`, `ListTheorems` and
`ViewTheorems` hold the proofs. A definition introduced by a comment `Variant:` is a plausible bug of
the definition after it; no specification uses it. It is there to see that a
property notices it.

### What is abstract

* A value is a model value: encoding and decoding an entry, checksums, logging and
  metrics of the backends are left out. `KvService` keeps the two times of an entry.
* The broker and rskafka are described by what they do to a caller: a record is
  appended, or not, or later, or twice; a call returns, fails or is dropped.
  Records of the same key that nobody waits for are kept once (`wire` is a set).
* RocksDB's single calls are atomic and survive the end of the process. The end of
  the machine is not modelled.
* The flag of `AvailabilityManager` is read as last written; its relaxed ordering
  permits a little later.
* `get` and `scan_prefix` of `StorageManager` change nothing but a counter: they
  are the operator `Served`, and the counters are in `KvService`.
* In `StorageManager`, `iter_all` and the load of the topic are one step each
  (`Connect`), taken before any request is accepted. `TopicReplay` has the load in
  detail. Retention and empty answers are in `TopicReplay` only, so that
  `KafkaBackend` and `StorageManager` say what holds as long as the broker keeps its
  records and returns them.
* In `KvService` each backend is a map that changes when a call takes effect; an
  unacknowledged write of Kafka's leaves its cache alone, an abandoned closure of
  RocksDB's may still write. One process is modelled, from its start with Kafka on;
  a start without Kafka is the failover at time 0. The clock is the system's and may
  step back at any time.
* `ServerProcess` is the process without Kafka; its start with Kafka, and that a
  signal then kills it in the middle of the drain, are `Boot` and `Crash` of
  `StorageManager`. Requests on connections that tonic has accepted before it
  began to drain count as accepted before. A panic ends one task, not the process,
  and is the failure of its call. When `main` returns, the runtime waits for closures
  that have begun (`RuntimeIdle`, tokio's doing). A request whose closure has returned
  is answered: sending the answer to a client that does not read it is not modelled.
* In `ListView` the namespace field holds valid names only, and a list is answered
  from one state of the store at some time between request and arrival.
* `ListHandler` reads one state of the store per request: the Kafka map is read under
  its lock, a RocksDB iterator has a snapshot.

## Runs

Runs that pass:

| Run | Instance | Shows |
|---|---|---|
| `KafkaLogged.cfg` | 2 callers, 2 keys, 2 values, 3 records | `ReadsAreLogged`, `ChangesAreLogged`, `SerialKeysCoherent`, `ImplementsStorage` |
| `Replay.cfg` | every topic of up to 3 slots, 2 keys, 1 record arriving | `ReadPrefix`, `LoadMissesOnlyHidden`, `LoadEnds` |
| `ServerRocks.cfg` | 3 callers, 1 key, 2 values, fair | `ImplementsStorage`, `ServerTypeOK`, `ShutdownEnds` |
| `StorageDurable.cfg` | 2 handlers, 1 key, 2 values, 2 records, 2 attempts | `AckedSurvives`, `NeverStale`, `OneHome` |
| `StorageDrain.cfg` | 1 handler, 2 keys, 3 records, 2 attempts, fair | `AckedSurvives`, `OneHome` with a drain of two entries; `OutageMissedOnlyInProbe`, `BootWaitsOnlyForClient`, `LatchedFailover` |
| `ListWalk.cfg` | 2 namespaces, one a prefix of the other, 3 ids, pages of 1, 2 or 3, 3 changes, fair | `AscendingOnce`, `StableKeysListed`, `OnlyOwnKeys`, `PageSizeKept`, `WalkEnds` |
| `ListView.cfg` | the same 2 namespaces, 2 ids, pages of 1 or 2, 2 changes by others | `OneListShown`, `UndisturbedList`, `DeletedStaysGone` |
| `ServiceTimes.cfg` | 2 handlers, 1 key, 3 milliseconds, 3 reads, 1 list | `SerialPutKeepsTimes`, `ReadsCoverWrites`, `StatsFromTheCall` |

Runs that find a statement of the repository violated:

| Run | Statement | What happens |
|---|---|---|
| `KafkaOverlap.cfg` | `kafka.rs:7-8`, README:92-96: the local update is right for a single writer | two overlapping puts of one key in one process are appended in one order and applied in the other |
| `ReplayOffsetZero.cfg` | `kafka.rs:5-6`, README:68: from offset 0 | the load starts at the first offset the broker has kept |
| `StorageShadowed.cfg` | README:88-90: degraded writes are drained at the next start | a delete is not: RocksDB keeps no tombstone, and the older entry of the topic returns |
| `ServiceCreatedAt.cfg` | README:140: `created_at_unix_ms` is preserved across overwrites | two puts that both found nothing write two creation times |

`CreatedAtPreserved` fails without any overlap too: the first put of a key after the
failover finds nothing in RocksDB and counts as its creation, and the next drain
puts that over the older entry of the topic. `SerialPutKeepsTimes` names this as
the one exception for puts that meet no other.

Other statements the code does not keep, or keeps only with the help of others, are
no runs of their own, since the passing runs name the exception:

* README:68, to the high watermark: the loop breaks on any empty answer below it, and
  the load returns Ok with records missing and nothing logged (`kafka.rs:136-140`).
  `LoadMissesOnlyHidden` says that this is the only way.
* README:75-81, a broker unreachable at boot or mid-run: the code awaits `open`,
  `produce` and `list_topics` without a timeout (`mod.rs:185`, `mod.rs:212`,
  `availability.rs:49`). A call that never returns is not a failed attempt or a failed
  probe: the start hangs before the server listens, or Kafka stays the active backend.
  `BootWaitsOnlyForClient` and `OutageMissedOnlyInProbe` say that nothing else can do
  that. Whether rskafka, outside the repository and pinned at 0.5.0, lets a call
  wait that long is not in the models.
* `kv.proto:49`, page sizes capped at the maximum: the default is not
  (`server.rs:57`), and the configuration does not compare the two. `PageSizeKept`
  holds with a default above the maximum.
* `main.rs:73`, "draining in-flight requests for 5s": requests are still accepted in
  that time. `main.rs:77`, "forcing termination": this is when tonic begins to drain,
  without any limit. `ShutdownEnds` holds because closures end and no new request
  is accepted. With Kafka it rests on rskafka's `produce` to return.

### Bounds

`MaxLog` bounds the topic: two records of one key suffice to tell an order from the
other, the third is the one that a repeated or late append adds. Two callers make
every pairwise race; a third one in `ServerRocks.cfg` comes between the two halves
of a delete while the second writes. `MaxAttempts` stands for the eight delays of
`connect_kafka_with_retry` and is 2: enough for an attempt that is followed by
another and for a last one. In `ListWalk.cfg` three ids and pages of one to three make walks
of up to four requests, and three changes can delete and restore the key that a token names.
`page_size` 5 exceeds the maximum, and so does the default, which the configuration
allows. A default of 0 is not explored: each page of such a walk is empty and names the same token again, and the
model would grow with the pages. Any answer of `Replay.cfg` below the watermark may
be empty.
In `ListView.cfg` a delete from the card, one by someone else and a put can fall
between the request of a page and its arrival. `MaxReads` and `MaxClock` let two puts
overlap and a third one follow them, at times that may be the same, ascend or
descend; the failover may fall anywhere. The counters depend neither on the clock
nor on the backend, so `ServiceTimes.cfg` explores a `get_stats` at the first
millisecond and before the failover only (`StatsAtFirst`). Deadlock is checked
except where the system stops: a load that has returned, a walk that is over.

### Fairness

* `TopicReplay`: the loading task runs, and each request to the broker is answered,
  if only by an error (`Load`); `connect_kafka_with_retry` goes on (`Retry`).
  The code sets no timeout there either: `LoadEnds` is about the loop, and
  `BootWaitsOnlyForClient` about a load that gets no answer.
* `StorageManager`: tokio runs what is in the code's own hands: the steps of `new`
  that wait for nobody outside (`BootWork`), the watcher's ticks, the blocking closures.
  The answers of the client library have no fairness, for the code sets no timeout
  around `list_topics`, `open` and `produce`: `OutageMissedOnlyInProbe` and
  `BootWaitsOnlyForClient` name the call that may be waited for for ever, and say that
  nothing else can go wrong. Nor have requests, the broker, crashes and restarts.
* `ServerProcess`: the timer fires, tonic and the runtime notice that nothing is left
  to wait for, closures run, and the requests that await them go on. Nobody has to
  start or stop the process, or to leave it alone.
* `KvList`: the client asks for its next page and is answered.

## Proofs

`tlapm` checks every theorem to the last step. Every safety property that a passing
run checks is stated by one. Assumed are only the named assumptions on the
constants: `None` is no key and no value, `Unknown` none either (`NoneAssumption`,
`UnknownAssumption`), the bounds are natural numbers, `Hole` and `NoKey` are no
records (`ReplayAssumption`), the handlers that run together are finitely many
(`ServiceAssumption`), namespaces and ids are valid fields and page sizes natural
numbers (`ListAssumption`). That a store holds finitely many keys is part of `Init`
of `KvList` and `ListView`.

* `TopicTheorems`. What `LastIn` returns: one of the records of its range
  (`LastInLogged`), the new record if it is one of the key (`LastInHit`), the same
  as before if not (`LastInMiss`, `LastInSame`). That a finite set of offsets has
  a greatest one would need induction; instead the predicate `HasLast` says so of a
  range, holds for the empty one, and is carried along by the invariants.
* `KafkaTheorems`. The inductive invariant `KafkaInv` adds to `TypeOK` and
  `ReadsAreLogged` that a call in state `appended` has its record in the topic, that
  there are no calls before `Open`, and `HasLast`. `Acked` then makes only logged
  entries visible (`KafkaReadsAreLogged`, `KafkaChangesAreLogged`). For `KafkaImplementsStorage` a
  step maps to `Call` (`Put`, `Delete`), `Effect` (`Acked`), `NoEffect` (`Unacked`),
  `Restart` (`Open`, `Crash`) or a stutter.
  `KafkaSerialKeysCoherent`, about `KafkaCoherence`, speaks of moments without a call in
  flight. Its invariant also covers the time in between: on a key without overlap
  at most one call is in flight, no unowned record of it is under way, and the
  topic's last write is either the cache's entry or the record of that call; if the
  call is `appended`, the record.
* `RocksTheorems`. The invariant adds to `TypeOK` that a delete carries `None` and
  that only a delete is between its probe and its removal. `Spawn` of a put or a
  delete maps to `Call`, the write of the closure to `Effect`, a probe that finds
  nothing and an error to `NoEffect`, `Crash` to `Restart`; everything else stutters.
  Every step of the process is one of `RocksDbBackend` or leaves it alone
  (`ServerRunsRocks`), so the contract holds through starts and ends of the process:
  `ServerImplementsStorage`. `ServerTypes` adds that requests and closures exist only
  in a process that serves, and that none is awaited when it is closing: `Drained`
  waits for them, and nothing is accepted later.
* `StorageTheorems`. First composition: every step of the coordinator is a step of
  `KafkaBackend` on its part of the variables, and one of `RocksDbBackend`, or leaves
  them alone (`KafkaPart`, `RocksPart`; they need the types of `request`, `entries`
  and `call`, since a request carries its arguments to the backend). So
  `StorageRunsKafka` and `StorageRunsRocks`, and the theorems of the backends become
  theorems of the system by way of `INSTANCE KafkaTheorems` and `INSTANCE
  RocksTheorems`: half of `StorageTypeOK`, `StorageReadsAreLogged`, and
  `StorageBackendsKeepContract`, the two refinements of `Storage`. Then the
  coordinator itself: `StorageFailover` maps its steps to those of `Failover`.
  `StorageOneHome` needs the invariant `HomeInv`: requests exist only while the
  process serves; the drain's own call and closure only while it drains
  (`DrainInv`: `entries` holds all that is left in the database, and the call or
  delete under way is of one of them); and, the heart of it, while Kafka is active
  no request is on its way to RocksDB, because the latch is one-way: a request that
  chose RocksDB saw the flag off. `HomeQuiet` covers the many steps that disturb none
  of this.
  Then what clients were told. `StorageAckedSurvives` and `StorageNeverStale` follow from
  `DurableInv` on top of `HomeInv`. Its heart is `Kept(k)`: of a key with a promise,
  every record still on the wire carries the promised value; the two stores have it,
  or a call has taken effect and its client is about to hear of it; the topic has it before
  the drain deletes the entry of the database; and the cache has it while it serves
  from Kafka, or a drain is going to put it there. `Kept` is not inductive alone:
  `OneAtATime` says that a task is in one place at a time, with a request, a call
  or a closure; `DrainCopies` that the drain puts what the database has;
  `AloneInv` that a call nobody overlapped finds in the stores what it has written, so
  that its acknowledgement may become the promise; `AbandonedInv` that a closure that outlives
  its request leaves its key without a promise. A step concerns one key; the others
  are carried over by one frame lemma (`DurableOneKey`).
* `ReplayTheorems`. The loop invariant is `ReadPrefix`; it needs that the offset
  does not fall behind the first one read and that a load that is over left nothing
  but holes below the watermark, or was given an empty answer above a record
  (`hidden`). `ReplayMissesOnlyHidden` follows.
* `ServiceTheorems`. For the counters, the invariant `CountersInv`: every put between
  its read and its count is one of the set `Writing`, whose size a step of one
  handler changes by at most one (`WritingStep`, `CountStep`); what a `get_stats` has
  loaded lies between the counter at its beginning and the counter now (`StatsInv`).
  For the times, `TimesInv`: a key without overlap has at most one mutation
  (`Alone`); RocksDB is empty and nobody goes there before the failover (`Home`);
  times are past while the clock goes forward (`Past`); and, the heart of it, a put
  without overlap knows the entry it is going to replace, or has found that RocksDB
  does not know the key (`KeptBy`). It is stated with `Latest`, the entry a drain would
  leave, because a put may read from Kafka and write to RocksDB.

* `ListTheorems`. First the order of the keys: `Less`, the order of byte strings, is
  irreflexive, transitive and total (`LessTotal` rests on `FirstDifference`); a prefix comes
  before the keys it begins, and these lie next to each other (`PrefixFirst`,
  `PrefixAdjacent`); as a valid name has no separator byte, a prefix tells its namespace
  (`PrefixTellsNamespace`). A finite set of keys has a least and a greatest one: not
  by induction on its size but by the minimal counterexample that `WFMin` of
  `WellFoundedInduction` gives (`LeastKey`, `GreatestKey`). Then one request:
  `ScanReturnsFirstKeys` and `RemainingAreKeysFrom` say what the scan of
  `page_size + 1` keys from the token returns, `AnswerIsNextPage` what the handler
  makes of it: the first keys that remain, and a token that is the least one left
  out, after a full page. `ListPageSizeKept` follows, without any relation between the
  default and the maximum. Then the walk: `ListInv` adds to the properties that the token is greater than
  every key listed (`AheadInv`) and that a key that was there all the time is listed,
  or not before the token (`StableInv`).
* `ViewTheorems`. The facts about keys come from `INSTANCE ListTheorems` (`LT`) with a
  few bridging lemmas (`SameOrder`, `SameAnswer`, ...). The card shows a sequence, so there
  are lemmas about the enumeration of a finite ordered set by rank: `InOrderIsPage`
  for the rows of a page, `WithoutFilters` for the filter of `runDelete`,
  `ConcatAscends` for a page that is appended. `ViewInv` is about the moments between a
  request and its answer: a request that asks for more carries the token of the list shown,
  and its namespace is that of the rows (`RequestInv`); a page on its way begins at
  the token it was asked for with (`PageInv`); and as long as nobody edited the namespace,
  every key that was there all the time is shown, on its way, or ahead of the token
  (`WholeInv`).

Only model-checked: liveness (`LoadEnds`, `OutageMissedOnlyInProbe`,
`BootWaitsOnlyForClient`, `WalkEnds`, `ShutdownEnds`), which is out of the prover's reach.

Some definitions have the form they have for the prover. tlapm cannot expand
`SortSeq` and `SelectSeq` of the library; `ListView` says what they compute with
`InOrder` and `Without`, and the page of `ListHandler` is a set, since its order is
that of its keys.

## Not modelled, and why

* `health_check` is a constant; errors and their gRPC codes are a table.
* Configuration is parsing with defaults; what matters of it is a CONSTANT, and that
  it may fail to load is in `ServerProcess`.
  `drain_interval_s` is read by nothing: there is no drain but the one at start-up
  (its comment in `kafka_config.rs:20` speaks of a drain task, the README of a
  reserved setting).
* Generated code, deployment files and styling have no state of the program.
* The other cards of the dashboard show one answer each; its users are
  authenticated request by request (HTTP Basic), without any state.
* The benchmark keeps no state but latencies. Its split of ids among workers is
  arithmetic without interleaving; see the plan.
* Several processes on one topic: `README.md:92-96` excludes them.

## Plan

In the order in which modules are written, the most important behaviour first:

1. Done: `Topic`, `KafkaBackend`, `KafkaCoherence`, `TopicReplay`, `RocksDbBackend`,
   `AvailabilityManager`, `StorageManager`, `StorageDurability`, `KvList`,
   `KvService`, with the abstract `Storage` and `Failover`; proofs about `Topic`,
   `KafkaBackend`, `KafkaCoherence`, `RocksDbBackend`, `TopicReplay` and
   `StorageManager`.
2. Done: `ServerProcess`, the snapshot of `get_stats`, the failover and the clock in
   `KvService`, `ListHandler` and `ListView`; proofs about `ServerProcess` and
   `KvService`.
3. Done: proofs about `KafkaCoherence` and `StorageDurability` (`AckedSurvives`,
   `NeverStale`), about the keys and `list` (`KvList`) and about the card (`ListView`).
4. Proofs: `DurableInv` follows the drain for keys with a promise only; what the drain
   does to the others could be stated and proved. That a load of `TopicReplay` ends in
   the map with which `StorageManager` starts (`Connect`) would join the two models of it.
5. `Workload` (`benches/throughput.rs`): the split of operations among workers and
   the percentile index, as operators checked against reference definitions, if a
   run can ask a question of them that is worth one.
