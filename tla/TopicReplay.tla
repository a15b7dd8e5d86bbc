---------------------------- MODULE TopicReplay ----------------------------
(***************************************************************************)
(* load_topic_into_cache (src/src/storage/kafka.rs): the loop that reads   *)
(* the topic when a KafkaBackend is opened.  KafkaBackend!Open takes its   *)
(* result in one step; here every request to the broker and every record   *)
(* is a step of its own, and the broker goes on living between them: a     *)
(* record sent by an earlier process is appended, retention drops the      *)
(* oldest records, a request fails.                                        *)
(***************************************************************************)
EXTENDS Topic

CONSTANTS
  Hole,    \* an offset at which the broker has no record to return
  NoKey,   \* a record without a key
  Topics,  \* the topics a load may find
  MaxLog   \* bound: the longest topic explored

ASSUME ReplayAssumption ==
  /\ Hole \notin Record
  /\ NoKey \notin Record \cup {Hole}
  /\ Topics \subseteq Seq(Record \cup {Hole, NoKey})
  /\ MaxLog \in Nat

VARIABLES
  log,             \* the partition; log[i] is the record at offset i
  log_start,       \* the broker's earliest offset
  high_watermark,  \* local: the end of the topic when the load began
  earliest,        \* local: the first offset to read
  next_offset,     \* local: the next offset to fetch
  batch_end,       \* the last offset of the batch being applied
  cache,           \* local: the map being built
  pc,
  hidden           \* history: an empty answer kept a record from this load

vars == <<log, log_start, high_watermark, earliest, next_offset, batch_end, cache, pc, hidden>>
broker == <<log, log_start>>

Slot == Record \cup {Hole, NoKey}

TypeOK ==
  /\ log \in Seq(Slot)
  /\ log_start \in 1 .. Len(log) + 1
  /\ high_watermark \in 1 .. Len(log) + 1
  /\ earliest \in 1 .. Len(log) + 1
  /\ next_offset \in 1 .. Len(log) + 1
  /\ batch_end \in 0 .. Len(log)
  /\ cache \in [Keys -> Values \cup {None}]
  /\ pc \in {"latest", "earliest", "fetch", "apply", "done", "failed"}
  /\ hidden \in BOOLEAN

Init ==
  /\ log \in Topics
  /\ log_start \in 1 .. Len(log) + 1
  /\ high_watermark = 1
  /\ earliest = 1
  /\ next_offset = 1
  /\ batch_end = 0
  /\ cache = EmptyCache
  /\ pc = "latest"
  /\ hidden = FALSE
-----------------------------------------------------------------------------
\* get_offset(Latest)
GetLatest ==
  /\ pc = "latest"
  /\ high_watermark' = Len(log) + 1
  /\ pc' = "earliest"
  /\ UNCHANGED <<broker, earliest, next_offset, batch_end, cache, hidden>>

\* get_offset(Earliest), and the locals of the loop
GetEarliest ==
  /\ pc = "earliest"
  /\ earliest' = log_start
  /\ next_offset' = log_start
  /\ cache' = EmptyCache
  /\ pc' = "fetch"
  /\ UNCHANGED <<broker, high_watermark, batch_end, hidden>>

\* fetch_records answers with the records of next_offset .. end; the broker
\* decides how many fit, and may go past the watermark.
Fetch ==
  /\ pc = "fetch"
  /\ next_offset < high_watermark
  /\ log_start <= next_offset
  /\ \E end \in next_offset .. Len(log) :
        /\ log[end] # Hole
        /\ batch_end' = end
  /\ pc' = "apply"
  /\ UNCHANGED <<broker, high_watermark, earliest, next_offset, cache, hidden>>

\* Variant: a tombstone does not remove its key.
ApplyNextNoRemove ==
  /\ pc = "apply"
  /\ next_offset <= batch_end
  /\ cache' = IF log[next_offset] \in Record /\ log[next_offset].value # None
              THEN ApplyRecord(cache, log[next_offset])
              ELSE cache
  /\ next_offset' = next_offset + 1
  /\ UNCHANGED <<broker, high_watermark, earliest, batch_end, pc, hidden>>

\* One turn of the inner loop: a record without a key is skipped.  A hole is
\* not in the batch: next_offset passes over it on the way to the record that
\* follows.
ApplyNext ==
  /\ pc = "apply"
  /\ next_offset <= batch_end
  /\ cache' = IF log[next_offset] \in Record
              THEN ApplyRecord(cache, log[next_offset])
              ELSE cache
  /\ next_offset' = next_offset + 1
  /\ UNCHANGED <<broker, high_watermark, earliest, batch_end, pc, hidden>>

\* Variant: the offset is moved on once more after the batch.
BatchDoneSkips ==
  /\ pc = "apply"
  /\ next_offset > batch_end
  /\ next_offset' = next_offset + 1
  /\ pc' = "fetch"
  /\ UNCHANGED <<broker, high_watermark, earliest, batch_end, cache, hidden>>

BatchDone ==
  /\ pc = "apply"
  /\ next_offset > batch_end
  /\ pc' = "fetch"
  /\ UNCHANGED <<broker, high_watermark, earliest, next_offset, batch_end, cache, hidden>>

\* Variant: an empty answer does not end the load.
FetchEmptyAgain ==
  /\ pc = "fetch"
  /\ next_offset < high_watermark
  /\ log_start <= next_offset
  /\ UNCHANGED vars

\* The broker answers below the watermark with no record, whether it has one to
\* return or not: the break.
FetchEmpty ==
  /\ pc = "fetch"
  /\ next_offset < high_watermark
  /\ log_start <= next_offset
  /\ pc' = "done"
  /\ hidden' = (\E i \in next_offset .. high_watermark - 1 : log[i] # Hole)
  /\ UNCHANGED <<broker, high_watermark, earliest, next_offset, batch_end, cache>>

\* Variant: the loop stops one offset early.
LoadDoneEarly ==
  /\ pc = "fetch"
  /\ next_offset + 1 >= high_watermark
  /\ pc' = "done"
  /\ UNCHANGED <<broker, high_watermark, earliest, next_offset, batch_end, cache, hidden>>

\* The loop condition fails: Ok(cache).
LoadDone ==
  /\ pc = "fetch"
  /\ next_offset >= high_watermark
  /\ pc' = "done"
  /\ UNCHANGED <<broker, high_watermark, earliest, next_offset, batch_end, cache, hidden>>

\* open returns an error: the map is dropped.
Fail ==
  /\ pc' = "failed"
  /\ cache' = EmptyCache
  /\ UNCHANGED <<broker, high_watermark, earliest, next_offset, batch_end, hidden>>

\* Any request to the broker may fail.
RequestFails ==
  /\ \/ pc \in {"latest", "earliest"}
     \/ pc = "fetch" /\ next_offset < high_watermark
  /\ Fail

\* A fetch below the broker's first offset fails.
OutOfRange ==
  /\ pc = "fetch"
  /\ next_offset < high_watermark
  /\ next_offset < log_start
  /\ Fail

\* connect_kafka_with_retry opens again.
Retry ==
  /\ pc = "failed"
  /\ pc' = "latest"
  /\ UNCHANGED <<broker, high_watermark, earliest, next_offset, batch_end, cache, hidden>>
-----------------------------------------------------------------------------
\* A record of an earlier process arrives.
BrokerAppend ==
  /\ Len(log) < MaxLog
  /\ \E r \in Record : log' = Append(log, r)
  /\ UNCHANGED <<log_start, high_watermark, earliest, next_offset, batch_end, cache, pc, hidden>>

\* Retention drops the oldest records.
Retention ==
  /\ log_start <= Len(log)
  /\ log_start' = log_start + 1
  /\ UNCHANGED <<log, high_watermark, earliest, next_offset, batch_end, cache, pc, hidden>>

Load ==
  \/ GetLatest \/ GetEarliest \/ Fetch \/ ApplyNext \/ BatchDone
  \/ FetchEmpty \/ LoadDone \/ OutOfRange

Next == Load \/ RequestFails \/ Retry \/ BrokerAppend \/ Retention

Spec == Init /\ [][Next]_vars

\* The loader's task is scheduled and the broker answers each of its requests.
FairSpec == Spec /\ WF_vars(Load) /\ WF_vars(Retry)
-----------------------------------------------------------------------------
\* The loop invariant: the map is the replay of exactly the offsets read.
ReadPrefix ==
  pc \in {"fetch", "apply", "done"} =>
    \A k \in Keys : cache[k] = LastIn(log, earliest, next_offset - 1, k)

\* The map is the replay of everything from the first offset to the watermark or
\* to a later offset.
LoadReachesWatermark ==
  pc = "done" =>
    \E end \in high_watermark - 1 .. Len(log) :
       \A k \in Keys : cache[k] = LastIn(log, earliest, end, k)

\* A load that returns short of the watermark was given an empty answer where
\* the broker had a record: neither holes, short batches, records without a key,
\* appends nor retention can make it stop early.
LoadMissesOnlyHidden == hidden \/ LoadReachesWatermark

\* What the module comment of kafka.rs says: the topic is consumed from offset 0
\* (here 1) to the high watermark.  Where no answer was empty it is the beginning
\* that the code does otherwise.
LoadFromOffsetZero ==
  pc = "done" /\ ~hidden =>
    \E end \in high_watermark - 1 .. Len(log) :
       \A k \in Keys : cache[k] = LastIn(log, 1, end, k)

\* Every load comes to an end, with a map or with an error: next_offset moves
\* with every batch, an empty answer breaks the loop, and records appended
\* meanwhile do not move the watermark.
LoadEnds == (pc = "latest") ~> (pc \in {"done", "failed"})
=============================================================================
